--------------------------- MODULE AttemptsProofs ---------------------------
(***************************************************************************)
(* Theorems about Attempts, for every paper, every number of request       *)
(* handlers and workers, and every bound.                                  *)
(***************************************************************************)
EXTENDS Attempts, TLAPS

-----------------------------------------------------------------------------
(***************************************************************************)
(* Rows.                                                                   *)
(***************************************************************************)
\* The sum over one mark (or none) per question is a score.
LEMMA TotalIsScore ==
  ASSUME NEW marks \in [Question -> AnyMark \cup {Null}]
  PROVE  Total(marks) \in Scores
BY DEF Scores

LEMMA MarkIsMark ==
  ASSUME NEW q \in Question, NEW m \in Mark(q)
  PROVE  m \in AnyMark
BY DEF AnyMark

\* A row nobody has touched is a row.
LEMMA NoRows ==
  /\ NoAttempt \in AttemptRow
  /\ NoAnswer \in AnswerRow
  /\ Idle \in Handler
  /\ NoTask \in Task
<1>1. NoAttempt \in AttemptRow
  BY DEF NoAttempt, AttemptRow, Status
<1>2. NoAnswer \in AnswerRow
  BY DEF NoAnswer, AnswerRow
<1>3. Idle \in Handler
  BY <1>1, <1>2 DEF Idle, Handler, Step
<1>4. NoTask \in Task
  BY <1>1, <1>2 DEF NoTask, Task
<1> QED
  BY <1>1, <1>2, <1>3, <1>4

\* grade_mcq awards no mark or the question's points.
LEMMA McqMarkType ==
  ASSUME NEW q \in Question, NEW response
  PROVE  McqMark(q, response) \in AnyMark
<1>1. 0 \in Mark(q) /\ Points[q] \in Mark(q)
  BY PaperAssumption DEF Mark
<1> QED
  BY <1>1, MarkIsMark DEF McqMark

LEMMA GradedType ==
  ASSUME NEW q \in Question, NEW old \in AnswerRow
  PROVE  Graded(q, old) \in AnswerRow
BY McqMarkType DEF Graded, AnswerRow

LEMMA UpdatedType ==
  ASSUME NEW row \in AnswerRow, NEW old \in AnswerRow, NEW new \in AnswerRow
  PROVE  Updated(row, old, new) \in AnswerRow
BY DEF Updated, AnswerRow

LEMMA DeadlineType ==
  ASSUME NEW started \in Nat
  PROVE  DeadlineFrom(started) \in Nat \cup {Null}
BY PaperAssumption DEF DeadlineFrom

-----------------------------------------------------------------------------
(***************************************************************************)
(* Types.                                                                  *)
(***************************************************************************)
\* A step of the sitter keeps every row, handler and task of its type.
LEMMA SitterType ==
  ASSUME TypeOK, NEW s \in Slot, Sitter(s)
  PROVE  TypeOK'
<1> USE DEF TypeOK
<1>1. CASE StartRead(s)
  <2>1. DeadlineFrom(clock) \in Nat \cup {Null}
    BY DeadlineType, BoundsAssumption DEF Times
  <2>2. [NoAttempt EXCEPT !.status = "in_progress", !.deadline = DeadlineFrom(clock)]
          \in AttemptRow
    BY <2>1, NoRows DEF AttemptRow, Status
  <2> QED
    BY <1>1, <2>2, NoRows DEF StartRead, Handler, Step
<1>2. CASE StartInsert(s)
  BY <1>2, NoRows DEF StartInsert, Done, Handler
<1>3. ASSUME NEW q \in Question, NEW response \in Response \cup {Null}, SaveRead(s, q, response)
      PROVE  TypeOK'
  <2>1. [Idle EXCEPT !.step = "save.policy", !.about = q,
                     !.old.exists = answers[q].exists, !.new.response = response]
          \in Handler
    BY NoRows DEF Handler, Step, AnswerRow
  <2> QED
    BY <1>3, <2>1 DEF SaveRead
<1>4. CASE SavePolicy(s)
  BY <1>4, NoRows DEF SavePolicy, Done, Handler, Step
<1>5. CASE SaveLock(s)
  <2>1. req' \in [Slot -> Handler]
    BY <1>5, NoRows DEF SaveLock, Done, Handler, Step
  <2>2. lock' \in [Question -> Slot \cup {Null}]
    BY <1>5 DEF SaveLock
  <2> QED
    BY <1>5, <2>1, <2>2 DEF SaveLock
<1>6. CASE SaveCommit(s)
  <2>1. answers' \in [Question -> AnswerRow]
    <3>1. req[s].new.response \in Response \cup {Null}
      BY DEF Handler, AnswerRow
    <3>2. ASSUME NEW q \in Question
          PROVE  answers'[q] \in AnswerRow
      <4>1. answers[q] \in AnswerRow
        OBVIOUS
      <4>2. [answers[q] EXCEPT !.exists = TRUE, !.response = req[s].new.response] \in AnswerRow
        BY <3>1, <4>1 DEF AnswerRow
      <4>3. answers'[q] \in {answers[q],
              [answers[q] EXCEPT !.exists = TRUE, !.response = req[s].new.response]}
        BY <1>6 DEF SaveCommit
      <4> QED
        BY <4>1, <4>2, <4>3
    <3> QED
      BY <1>6, <3>2 DEF SaveCommit
  <2>2. req' \in [Slot -> Handler] /\ lock' \in [Question -> Slot \cup {Null}]
    BY <1>6, NoRows DEF SaveCommit, Done
  <2> QED
    BY <1>6, <2>1, <2>2 DEF SaveCommit
<1>7. CASE SubmitRead(s)
  <2>1. \A st \in Status, g \in BOOLEAN :
          [Idle EXCEPT !.step = "submit.commit", !.row.status = st, !.row.graded = g]
            \in Handler
    BY NoRows DEF Handler, Step, AttemptRow
  <2>2. attempt.graded \in BOOLEAN
    BY DEF AttemptRow
  <2>3. [Idle EXCEPT !.step = "submit.enqueue"] \in Handler
    BY NoRows DEF Handler, Step
  <2>4. req' \in [Slot -> Handler]
    BY <1>7, <2>1, <2>2, <2>3 DEF SubmitRead, Status
  <2> QED
    BY <1>7, <2>4 DEF SubmitRead
<1>8. CASE SubmitCommit(s)
  <2>1. attempt' \in AttemptRow
    BY <1>8 DEF SubmitCommit, Handler, AttemptRow
  <2>2. req' \in [Slot -> Handler]
    BY <1>8, NoRows DEF SubmitCommit, Done, Handler, Step
  <2> QED
    BY <1>8, <2>1, <2>2 DEF SubmitCommit
<1>9. CASE SubmitEnqueue(s)
  <2>1. lost' \in BOOLEAN
    BY <1>9 DEF SubmitEnqueue
  <2>2. queue' \in Nat /\ req' \in [Slot -> Handler]
    BY <1>9, NoRows DEF SubmitEnqueue, Done
  <2> QED
    BY <1>9, <2>1, <2>2 DEF SubmitEnqueue
<1>10. CASE SubmitCrash(s)
  BY <1>10, NoRows, BoundsAssumption DEF SubmitCrash, Done
<1> QED
  BY <1>1, <1>2, <1>3, <1>4, <1>5, <1>6, <1>7, <1>8, <1>9, <1>10 DEF Sitter

\* A step of the author keeps every row, handler and task of its type.
LEMMA AuthorType ==
  ASSUME TypeOK, NEW s \in Slot, Author(s)
  PROVE  TypeOK'
<1> USE DEF TypeOK
<1>1. ASSUME NEW q \in Question, NEW points \in Mark(q), OverrideRead(s, q, points)
      PROVE  TypeOK'
  <2>1. points \in AnyMark
    BY MarkIsMark
  <2>2. [Idle EXCEPT !.step = "override.flush", !.row.score = attempt.score, !.about = q,
                     !.old.points = answers[q].points, !.old.grader = answers[q].grader,
                     !.new.points = points, !.new.grader = "human"]
          \in Handler
    <3>1. answers[q].points \in AnyMark \cup {Null} /\ answers[q].grader \in {Null, "auto", "human"}
      BY DEF AnswerRow
    <3>2. attempt.score \in Scores \cup {Null}
      BY DEF AttemptRow
    <3>3. \A a \in AnyMark \cup {Null}, g \in {Null, "auto", "human"} :
            [NoAnswer EXCEPT !.points = a, !.grader = g] \in AnswerRow
      BY NoRows DEF AnswerRow
    <3>4. \A c \in Scores \cup {Null} : [NoAttempt EXCEPT !.score = c] \in AttemptRow
      BY NoRows DEF AttemptRow
    <3>5. \A r \in AttemptRow, o \in AnswerRow, n \in AnswerRow :
            [Idle EXCEPT !.step = "override.flush", !.row = r, !.about = q, !.old = o, !.new = n]
              \in Handler
      BY NoRows DEF Handler, Step
    <3>6. /\ Idle.row = NoAttempt /\ Idle.old = NoAnswer /\ Idle.new = NoAnswer
          /\ Idle = [step |-> Idle.step, row |-> Idle.row, old |-> Idle.old,
                     new |-> Idle.new, about |-> Idle.about, sum |-> Idle.sum]
      BY DEF Idle
    <3> DEFINE r == [NoAttempt EXCEPT !.score = attempt.score]
               o == [NoAnswer EXCEPT !.points = answers[q].points, !.grader = answers[q].grader]
               n == [NoAnswer EXCEPT !.points = points, !.grader = "human"]
    <3>7. r \in AttemptRow /\ o \in AnswerRow /\ n \in AnswerRow
      BY <2>1, <3>1, <3>2, <3>3, <3>4
    <3>8. [Idle EXCEPT !.step = "override.flush", !.row = r, !.about = q, !.old = o, !.new = n]
            \in Handler
      BY <3>5, <3>7
    <3> QED
      BY <3>6, <3>8
  <2> QED
    BY <1>1, <2>2 DEF OverrideRead
<1>2. CASE OverrideFlush(s)
  <2> DEFINE q == req[s].about
             mine == Updated(answers[q], req[s].old, req[s].new)
             seen == [answers EXCEPT ![q] = mine]
             marks == [p \in Question |-> seen[p].points]
  <2>1. ASSUME NEW p \in Question
        PROVE  seen[p].points \in AnyMark \cup {Null}
    <3>1. CASE p = q
      <4>1. mine \in AnswerRow
        BY <3>1, UpdatedType DEF Handler
      <4> QED
        BY <3>1, <4>1 DEF AnswerRow
    <3>2. CASE p # q
      BY <3>2 DEF AnswerRow
    <3> QED
      BY <3>1, <3>2
  <2>2. Total(marks) \in Scores
    <3>1. marks \in [Question -> AnyMark \cup {Null}]
      BY <2>1
    <3> QED
      BY <3>1, TotalIsScore
  <2>3. req' = [req EXCEPT ![s].step = "override.commit", ![s].sum = Total(marks)]
    BY <1>2 DEF OverrideFlush
  <2> HIDE DEF marks, seen, mine
  <2>4. req' \in [Slot -> Handler]
    <3>1. \A h \in Handler, sum \in Scores :
            [h EXCEPT !.step = "override.commit", !.sum = sum] \in Handler
      BY DEF Handler, Step
    <3> HIDE DEF q
    <3> QED
      BY <2>2, <2>3, <3>1
  <2>5. lock' \in [Question -> Slot \cup {Null}]
    BY <1>2 DEF OverrideFlush
  <2> QED
    BY <1>2, <2>4, <2>5 DEF OverrideFlush
<1>3. CASE OverrideCommit(s)
  <2> DEFINE q == req[s].about
  <2>1. answers' \in [Question -> AnswerRow]
    <3>1. ASSUME NEW p \in Question
          PROVE  answers'[p] \in AnswerRow
      <4>1. p = q => Updated(answers[q], req[s].old, req[s].new) \in AnswerRow
        BY UpdatedType DEF Handler
      <4> QED
        BY <1>3, <4>1 DEF OverrideCommit
    <3> QED
      BY <1>3, <3>1 DEF OverrideCommit
  <2>2. attempt' \in AttemptRow
    <3>1. [attempt EXCEPT !.score = req[s].sum] \in AttemptRow
      BY DEF Handler, AttemptRow
    <3> QED
      BY <1>3, <3>1 DEF OverrideCommit
  <2>3. req' \in [Slot -> Handler] /\ lock' \in [Question -> Slot \cup {Null}]
    BY <1>3, NoRows DEF OverrideCommit, Done
  <2> QED
    BY <1>3, <2>1, <2>2, <2>3 DEF OverrideCommit
<1>4. CASE ReleaseRead(s)
  BY <1>4, NoRows DEF ReleaseRead, Handler, Step
<1>5. CASE ReleaseCommit(s)
  BY <1>5, NoRows DEF ReleaseCommit, Done, AttemptRow
<1>6. CASE VoidRead(s)
  BY <1>6, NoRows DEF VoidRead, Handler, Step
<1>7. CASE VoidCommit(s)
  BY <1>7, NoRows DEF VoidCommit, Done, AttemptRow, Status
<1> QED
  BY <1>1, <1>2, <1>3, <1>4, <1>5, <1>6, <1>7 DEF Author

\* A step of the grading task keeps every row, handler and task of its type.
LEMMA GraderType ==
  ASSUME TypeOK, NEW w \in Worker, Grader(w)
  PROVE  TypeOK'
<1> USE DEF TypeOK
<1>1. CASE GradeLoadAttempt(w)
  <2>1. worker' \in [Worker -> Task]
    <3>1. \A r \in AttemptRow, c \in Scores \cup {Null}, e \in BOOLEAN :
            [r EXCEPT !.score = c, !.error = e] \in AttemptRow
      BY DEF AttemptRow
    <3>2. \A t \in Task, r \in AttemptRow : [t EXCEPT !.step = "answers", !.row = r] \in Task
      BY DEF Task
    <3>3. attempt.score \in Scores \cup {Null} /\ attempt.error \in BOOLEAN
      BY DEF AttemptRow
    <3>4. worker[w] \in Task /\ worker[w].row \in AttemptRow
      BY DEF Task
    <3>5. [worker[w] EXCEPT !.step = "answers",
                            !.row = [worker[w].row EXCEPT !.score = attempt.score,
                                                          !.error = attempt.error]] \in Task
      BY <3>1, <3>2, <3>3, <3>4
    <3> QED
      BY <1>1, <3>5 DEF GradeLoadAttempt, Task
  <2> QED
    BY <1>1, <2>1 DEF GradeLoadAttempt
<1>2. CASE GradeLoadAnswers(w)
  BY <1>2 DEF GradeLoadAnswers, Task
<1>3. CASE GradeCommit(w)
  <2> DEFINE old == worker[w].ans
             new == [q \in Question |-> Graded(q, old[q])]
             total == Total([q \in Question |-> new[q].points])
  <2>1. old \in [Question -> AnswerRow]
    BY DEF Task
  <2>2. ASSUME NEW q \in Question
        PROVE  new[q] \in AnswerRow
    BY <2>1, GradedType
  <2>3. answers' \in [Question -> AnswerRow]
    <3>1. ASSUME NEW q \in Question
          PROVE  Updated(answers[q], old[q], new[q]) \in AnswerRow
      BY <2>1, <2>2, UpdatedType
    <3> QED
      BY <1>3, <3>1 DEF GradeCommit
  <2>4. total \in Scores
    <3>1. [q \in Question |-> new[q].points] \in [Question -> AnyMark \cup {Null}]
      BY <2>2 DEF AnswerRow
    <3> QED
      BY <3>1, TotalIsScore
  <2>5. attempt' \in AttemptRow
    <3>1. PICK sc \in {total, attempt.score}, er \in {FALSE, attempt.error},
               re \in {TRUE, attempt.released} :
            attempt' = [attempt EXCEPT !.score = sc, !.graded = TRUE,
                                       !.error = er, !.released = re]
      BY <1>3 DEF GradeCommit, AttemptRow
    <3> HIDE DEF total
    <3> QED
      BY <2>4, <3>1 DEF AttemptRow
  <2>6. worker' \in [Worker -> Task]
    BY <1>3, NoRows DEF GradeCommit
  <2> QED
    BY <1>3, <2>3, <2>5, <2>6 DEF GradeCommit
<1>4. CASE GradeFail(w)
  BY <1>4, NoRows DEF GradeFail, AttemptRow
<1>5. CASE GradeCrash(w)
  BY <1>5, NoRows, BoundsAssumption DEF GradeCrash
<1>6. CASE GradeBroken(w)
  <2>1. attempt' \in AttemptRow
    BY <1>6 DEF GradeBroken, AttemptRow
  <2>2. worker' \in [Worker -> Task]
    BY <1>6, NoRows DEF GradeBroken
  <2>3. queue' \in Nat /\ crashes' \in 0..MaxCrashes
    BY <1>6, BoundsAssumption DEF GradeBroken
  <2>4. lost' \in BOOLEAN
    BY <1>6 DEF GradeBroken
  <2> QED
    BY <1>6, <2>1, <2>2, <2>3, <2>4 DEF GradeBroken
<1> QED
  BY <1>1, <1>2, <1>3, <1>4, <1>5, <1>6 DEF Grader

\* Every reachable state is of its type: rows hold marks of their question's range and
\* scores that are sums of such marks.
THEOREM TypeCorrect == Spec => []TypeOK
<1>1. Init => TypeOK
  <2> SUFFICES ASSUME Init PROVE TypeOK
    OBVIOUS
  <2>1. lost \in BOOLEAN
    BY DEF Init
  <2>2. /\ clock \in Times /\ paper \in {"published", "closed"} /\ queue \in Nat
        /\ crashes \in 0..MaxCrashes
    BY BoundsAssumption DEF Init, Times
  <2>3. /\ attempt \in AttemptRow /\ answers \in [Question -> AnswerRow]
        /\ lock \in [Question -> Slot \cup {Null}] /\ req \in [Slot -> Handler]
        /\ worker \in [Worker -> Task]
    BY NoRows DEF Init
  <2> QED
    BY <2>1, <2>2, <2>3 DEF TypeOK
<1>2. TypeOK /\ [Next]_vars => TypeOK'
  <2> SUFFICES ASSUME TypeOK, [Next]_vars
               PROVE  TypeOK'
    OBVIOUS
  <2>1. CASE Tick
    BY <2>1, BoundsAssumption DEF Tick, TypeOK, Times
  <2>2. CASE ClosePaper
    BY <2>2 DEF ClosePaper, TypeOK
  <2>3. ASSUME NEW s \in Slot, Sitter(s) \/ Author(s)
        PROVE  TypeOK'
    BY <2>3, SitterType, AuthorType
  <2>4. ASSUME NEW w \in Worker, Grader(w)
        PROVE  TypeOK'
    BY <2>4, GraderType
  <2>5. CASE UNCHANGED vars
    BY <2>5 DEF vars, TypeOK
  <2> QED
    BY <2>1, <2>2, <2>3, <2>4, <2>5 DEF Next
<1> QED
  BY <1>1, <1>2, PTL DEF Spec

-----------------------------------------------------------------------------
(***************************************************************************)
(* The inductive invariant.  What a request or a task has read stays true  *)
(* because no step undoes it: that is `Kept`, proved first, and it carries *)
(* the knowledge of every handler and task that a step does not move.      *)
(***************************************************************************)
Kept ==
  /\ Over => Over'
  /\ attempt.graded => attempt'.graded
  /\ attempt.status # "absent" => attempt'.status # "absent"
  /\ \A q \in Question :
       /\ answers[q].exists => answers'[q].exists
       /\ answers[q].points # Null => answers'[q].points # Null
       /\ answers[q].grader # Null => answers'[q].grader # Null
       /\ answers'[q].grader = "human" => answers'[q].points # Null

\* What the ORM writes over a row by an override of a row it had loaded.
LEMMA OverrideRow ==
  ASSUME NEW row \in AnswerRow, NEW old \in AnswerRow, NEW new \in AnswerRow,
         new.points # Null, new.grader = "human",
         old.points # Null => row.points # Null,
         old.grader # Null => row.grader # Null
  PROVE  /\ Updated(row, old, new).exists
         /\ Updated(row, old, new).points # Null
         /\ Updated(row, old, new).grader # Null
         /\ row.grader = "human" => Updated(row, old, new).grader = "human"
         /\ Updated(row, old, new).response = row.response
BY NullAssumption DEF Updated, AnswerRow

\* What the ORM writes over a row by grading a row it had loaded: a mark and a grader
\* are there, and a human's mark goes only if what was loaded was not a human's.
LEMMA GradedRow ==
  ASSUME NEW q \in Question, NEW row \in AnswerRow, NEW old \in AnswerRow,
         old.points # Null => row.points # Null,
         old.grader # Null => row.grader # Null,
         old.grader = "human" => old.points # Null
  PROVE  /\ Updated(row, old, Graded(q, old)).exists
         /\ Updated(row, old, Graded(q, old)).points # Null
         /\ Updated(row, old, Graded(q, old)).grader # Null
         /\ Updated(row, old, Graded(q, old)).response = row.response
         /\ old.grader = "human" => Updated(row, old, Graded(q, old)).grader = row.grader
<1>1. McqMark(q, old.response) # Null
  <2>1. 0 \in Nat /\ Points[q] \in Nat
    BY PaperAssumption
  <2> QED
    BY <2>1, NullAssumption DEF McqMark
<1>2. CASE old.grader = "human"
  BY <1>2, NullAssumption DEF Updated, Graded, AnswerRow
<1>3. CASE old.grader # "human"
  <2> DEFINE new == [old EXCEPT !.exists = TRUE, !.points = McqMark(q, old.response),
                                !.grader = "auto"]
  <2>1. Graded(q, old) = new
    BY <1>3 DEF Graded
  <2>2. new.points = McqMark(q, old.response) /\ new.grader = "auto"
    BY DEF AnswerRow
  <2> HIDE DEF new
  <2> QED
    BY <1>1, <1>3, <2>1, <2>2, NullAssumption DEF Updated, AnswerRow
<1> QED
  BY <1>2, <1>3

LEMMA SitterKeeps ==
  ASSUME TypeOK, Consistent, NEW s \in Slot, Sitter(s)
  PROVE  Kept
<1>1. CASE StartInsert(s)
  <2>1. UNCHANGED answers
    BY <1>1 DEF StartInsert
  <2>2. attempt' # attempt => attempt.status = "absent" /\ ~attempt.graded
    BY <1>1 DEF StartInsert, Consistent, Over
  <2>3. attempt' # attempt => attempt'.status = "in_progress"
    BY <1>1 DEF StartInsert, Consistent, HandlerKnows
  <2> QED
    BY <2>1, <2>2, <2>3 DEF Kept, Over, Consistent
<1>2. CASE SaveCommit(s)
  BY <1>2 DEF SaveCommit, Kept, Over, Consistent, TypeOK, AnswerRow
<1>3. CASE SubmitCommit(s)
  <2>1. req[s].row.status \in {"submitted", "auto_submitted"}
    BY <1>3 DEF SubmitCommit, Consistent, HandlerKnows
  <2> QED
    BY <1>3, <2>1 DEF SubmitCommit, Kept, Over, Consistent, TypeOK, AttemptRow
<1>4. CASE UNCHANGED <<attempt, answers>>
  BY <1>4 DEF Kept, Over, Consistent
<1> QED
  BY <1>1, <1>2, <1>3, <1>4
  DEF Sitter, StartRead, SaveRead, SavePolicy, SaveLock, SubmitRead, SubmitEnqueue, SubmitCrash

LEMMA AuthorKeeps ==
  ASSUME TypeOK, Consistent, NEW s \in Slot, Author(s)
  PROVE  Kept
<1>1. CASE OverrideCommit(s)
  <2> DEFINE h == req[s]
  <2>1. /\ h.about \in Question /\ h.new.points # Null /\ h.new.grader = "human"
        /\ h.old.points # Null => answers[h.about].points # Null
        /\ h.old.grader # Null => answers[h.about].grader # Null
    BY <1>1 DEF OverrideCommit, Consistent, HandlerKnows
  <2>2. h.old \in AnswerRow /\ h.new \in AnswerRow /\ answers[h.about] \in AnswerRow
    BY <2>1 DEF TypeOK, Handler
  <2>3. /\ Updated(answers[h.about], h.old, h.new).exists
        /\ Updated(answers[h.about], h.old, h.new).points # Null
        /\ Updated(answers[h.about], h.old, h.new).grader # Null
    BY <2>1, <2>2, OverrideRow
  <2>4. answers' = [answers EXCEPT ![h.about] = Updated(answers[h.about], h.old, h.new)]
    BY <1>1 DEF OverrideCommit
  <2>5. attempt'.status = attempt.status /\ attempt'.graded = attempt.graded
    BY <1>1 DEF OverrideCommit, TypeOK, AttemptRow
  <2> HIDE DEF h
  <2> QED
    BY <2>1, <2>3, <2>4, <2>5 DEF Kept, Over, Consistent, TypeOK
<1>2. CASE ReleaseCommit(s)
  BY <1>2 DEF ReleaseCommit, Kept, Over, Consistent, TypeOK, AttemptRow
<1>3. CASE VoidCommit(s)
  BY <1>3 DEF VoidCommit, Kept, Over, Consistent, TypeOK, AttemptRow
<1>4. CASE UNCHANGED <<attempt, answers>>
  BY <1>4 DEF Kept, Over, Consistent
<1> QED
  BY <1>1, <1>2, <1>3, <1>4 DEF Author, OverrideRead, OverrideFlush, ReleaseRead, VoidRead

LEMMA GraderKeeps ==
  ASSUME TypeOK, Consistent, NEW w \in Worker, Grader(w)
  PROVE  Kept /\ (GradeCommit(w) => GradedIsComplete' /\ attempt'.graded /\ Over')
<1>1. CASE GradeCommit(w)
  <2> DEFINE old == worker[w].ans
             new == [q \in Question |-> Graded(q, old[q])]
  <2>1. ASSUME NEW q \in Question
        PROVE  /\ answers'[q].exists /\ answers'[q].points # Null
               /\ answers'[q].grader # Null
    <3>1. /\ old[q].points # Null => answers[q].points # Null
          /\ old[q].grader # Null => answers[q].grader # Null
          /\ old[q].grader = "human" => old[q].points # Null
      BY <1>1 DEF GradeCommit, Consistent, TaskKnows
    <3>2. old[q] \in AnswerRow /\ answers[q] \in AnswerRow
      BY DEF TypeOK, Task
    <3>3. answers'[q] = Updated(answers[q], old[q], Graded(q, old[q]))
      BY <1>1 DEF GradeCommit
    <3> QED
      BY <3>1, <3>2, <3>3, GradedRow
  <2>2. attempt'.status = attempt.status /\ attempt'.graded
    BY <1>1 DEF GradeCommit, TypeOK, AttemptRow
  <2>3. Over
    BY <1>1 DEF GradeCommit, Consistent, TaskKnows
  <2> HIDE DEF new, old
  <2> QED
    BY <2>1, <2>2, <2>3 DEF Kept, Over, GradedIsComplete
<1>2. CASE GradeFail(w)
  <2>1. ~GradeCommit(w)
    BY <1>2 DEF GradeFail, GradeCommit
  <2> QED
    BY <1>2, <2>1 DEF GradeFail, Kept, Over, Consistent, TypeOK, AttemptRow
<1>3. CASE GradeLoadAttempt(w) \/ GradeLoadAnswers(w) \/ GradeCrash(w)
  <2>1. UNCHANGED <<attempt, answers>>
    BY <1>3 DEF GradeLoadAttempt, GradeLoadAnswers, GradeCrash
  <2> QED
    BY <1>1, <2>1 DEF Kept, Over, Consistent
<1>4. CASE GradeBroken(w)
  <2>1. /\ attempt'.status = attempt.status /\ attempt'.graded = attempt.graded
        /\ UNCHANGED answers
    BY <1>4 DEF GradeBroken, TypeOK, AttemptRow
  <2>2. GradeCommit(w) => FALSE
    <3>1. UNCHANGED answers /\ attempt'.graded = attempt.graded /\ crashes' # crashes
      BY <1>4, <2>1 DEF GradeBroken, TypeOK
    <3> QED
      BY <3>1 DEF GradeCommit
  <2> QED
    BY <1>4, <2>1, <2>2 DEF Kept, Over, Consistent
<1> QED
  BY <1>1, <1>2, <1>3, <1>4 DEF Grader

\* A step keeps the invariant if the handlers and tasks it moves end up knowing what
\* they should: the others do because everything they know is kept.
LEMMA StepConsistent ==
  ASSUME TypeOK, Consistent, Kept,
         attempt'.graded => attempt.graded \/ (GradedIsComplete' /\ Over'),
         attempt'.released => attempt.released \/ attempt'.graded,
         queue' > 0 => queue > 0 \/ Over,
         \A s \in Slot : req'[s] # req[s] => HandlerKnows(req[s])',
         \A w \in Worker : worker'[w] # worker[w] => TaskKnows(worker[w])'
  PROVE  Consistent'
<1>1. GradedIsComplete'
  BY DEF Consistent, Kept, GradedIsComplete
<1>2. (attempt.graded => Over)' /\ (attempt.released => attempt.graded)' /\ (queue > 0 => Over)'
  BY DEF Consistent, Kept
<1>3. \A q \in Question : (answers[q].grader = "human" => answers[q].points # Null)'
  BY DEF Kept
<1>4. ASSUME NEW s \in Slot, req'[s] = req[s]
      PROVE  HandlerKnows(req[s])'
  BY <1>4 DEF Consistent, Kept, HandlerKnows
<1>5. ASSUME NEW w \in Worker, worker'[w] = worker[w]
      PROVE  TaskKnows(worker[w])'
  BY <1>5 DEF Consistent, Kept, TaskKnows
<1> QED
  BY <1>1, <1>2, <1>3, <1>4, <1>5 DEF Consistent

\* A handler that has answered, and one that only carries an answer, know nothing.
LEMMA KnowsNothing ==
  ASSUME NEW s \in Slot,
         req'[s].step \in {"idle", "save.policy", "save.lock", "save.commit"}
  PROVE  HandlerKnows(req[s])'
BY DEF HandlerKnows

LEMMA SitterConsistent ==
  ASSUME TypeOK, Consistent, NEW s \in Slot, Sitter(s)
  PROVE  Consistent'
<1>1. Kept
  BY SitterKeeps
<1>2. attempt'.graded => attempt.graded
  <2>1. CASE StartInsert(s)
    BY <2>1 DEF StartInsert, Consistent, HandlerKnows
  <2>2. CASE SubmitCommit(s)
    BY <2>2 DEF SubmitCommit, TypeOK, AttemptRow
  <2>3. CASE UNCHANGED attempt
    BY <2>3
  <2> QED
    BY <2>1, <2>2, <2>3 DEF Sitter, StartRead, SaveRead, SavePolicy, SaveLock, SaveCommit,
                            SubmitRead, SubmitEnqueue, SubmitCrash
<1>3. attempt'.released => attempt.released
  <2>1. CASE StartInsert(s)
    BY <2>1 DEF StartInsert, Consistent, HandlerKnows
  <2>2. CASE SubmitCommit(s)
    BY <2>2 DEF SubmitCommit, TypeOK, AttemptRow
  <2>3. CASE UNCHANGED attempt
    BY <2>3
  <2> QED
    BY <2>1, <2>2, <2>3 DEF Sitter, StartRead, SaveRead, SavePolicy, SaveLock, SaveCommit,
                            SubmitRead, SubmitEnqueue, SubmitCrash
<1>4. queue' > 0 => queue > 0 \/ Over
  <2>1. CASE SubmitEnqueue(s)
    BY <2>1 DEF SubmitEnqueue, Consistent, HandlerKnows
  <2>2. CASE UNCHANGED queue
    BY <2>2
  <2> QED
    BY <2>1, <2>2 DEF Sitter, StartRead, StartInsert, SaveRead, SavePolicy, SaveLock, SaveCommit,
                      SubmitRead, SubmitCommit, SubmitCrash
<1>5. UNCHANGED worker
  BY DEF Sitter, StartRead, StartInsert, SaveRead, SavePolicy, SaveLock, SaveCommit,
         SubmitRead, SubmitCommit, SubmitEnqueue, SubmitCrash
<1>6. \A t \in Slot \ {s} : req'[t] = req[t]
  BY DEF TypeOK, Sitter, StartRead, StartInsert, SaveRead, SavePolicy, SaveLock, SaveCommit,
         SubmitRead, SubmitCommit, SubmitEnqueue, SubmitCrash, Done
<1>7. HandlerKnows(req[s])'
  <2>1. CASE StartRead(s)
    <3>1. /\ req'[s].step = "start.insert" /\ req'[s].row.status = "in_progress"
          /\ ~req'[s].row.graded /\ ~req'[s].row.released
      BY <2>1 DEF StartRead, TypeOK, Idle, NoAttempt
    <3> QED
      BY <3>1 DEF HandlerKnows
  <2>2. CASE StartInsert(s) \/ SavePolicy(s) \/ SaveLock(s) \/ SaveCommit(s)
             \/ SubmitEnqueue(s) \/ SubmitCrash(s)
    <3>1. req'[s].step \in {"idle", "save.policy", "save.lock", "save.commit"}
      BY <2>2 DEF StartInsert, SavePolicy, SaveLock, SaveCommit, SubmitEnqueue, SubmitCrash,
                  Done, Idle, TypeOK, Handler
    <3> QED
      BY <3>1, KnowsNothing
  <2>3. ASSUME NEW q \in Question, NEW response \in Response \cup {Null},
               SaveRead(s, q, response)
        PROVE  HandlerKnows(req[s])'
    <3>1. req'[s].step = "save.policy"
      BY <2>3 DEF SaveRead, Idle, TypeOK
    <3> QED
      BY <3>1, KnowsNothing
  <2>4. CASE SubmitRead(s)
    <3>1. \/ /\ req'[s].step = "submit.commit"
             /\ req'[s].row.status \in {"submitted", "auto_submitted"}
          \/ /\ req'[s].step = "submit.enqueue"
             /\ attempt.status # "in_progress"
      <4>1. CASE attempt.status = "in_progress"
        <5>1. PICK st \in {"submitted", "auto_submitted"} :
                req' = [req EXCEPT ![s] = [Idle EXCEPT !.step = "submit.commit",
                                                       !.row.status = st,
                                                       !.row.graded = attempt.graded]]
          BY <2>4, <4>1 DEF SubmitRead
        <5>2. req'[s].step = "submit.commit" /\ req'[s].row.status = st
          BY <5>1 DEF Idle, NoAttempt, TypeOK
        <5> QED
          BY <5>2
      <4>2. CASE attempt.status # "in_progress"
        BY <2>4, <4>2 DEF SubmitRead, Idle, TypeOK
      <4> QED
        BY <4>1, <4>2
    <3>2. attempt.status # "absent" /\ UNCHANGED attempt /\ attempt.status \in Status
      BY <2>4 DEF SubmitRead, TypeOK, AttemptRow
    <3> QED
      BY <3>1, <3>2 DEF HandlerKnows, Over, Status
  <2>5. CASE SubmitCommit(s)
    <3>1. req'[s].step \in {"idle", "submit.enqueue"}
      BY <2>5 DEF SubmitCommit, Done, Idle, TypeOK
    <3>2. Over'
      BY <2>5 DEF SubmitCommit, Consistent, HandlerKnows, Over, TypeOK, AttemptRow
    <3> QED
      BY <3>1, <3>2 DEF HandlerKnows
  <2> QED
    BY <2>1, <2>2, <2>3, <2>4, <2>5 DEF Sitter
<1> QED
  BY <1>1, <1>2, <1>3, <1>4, <1>5, <1>6, <1>7, StepConsistent

LEMMA AuthorConsistent ==
  ASSUME TypeOK, Consistent, NEW s \in Slot, Author(s)
  PROVE  Consistent'
<1>1. Kept
  BY AuthorKeeps
<1>2. attempt'.graded => attempt.graded
  BY DEF TypeOK, AttemptRow, Author, OverrideRead, OverrideFlush, OverrideCommit, ReleaseRead,
         ReleaseCommit, VoidRead, VoidCommit
<1>3. attempt'.released => attempt.released \/ attempt'.graded
  <2>1. CASE ReleaseCommit(s)
    BY <2>1 DEF ReleaseCommit, Consistent, HandlerKnows, TypeOK, AttemptRow
  <2>2. CASE ~ReleaseCommit(s)
    BY <2>2 DEF TypeOK, AttemptRow, Author, OverrideRead, OverrideFlush, OverrideCommit,
                ReleaseRead, VoidRead, VoidCommit
  <2> QED
    BY <2>1, <2>2
<1>4. UNCHANGED <<queue, worker>>
  BY DEF Author, OverrideRead, OverrideFlush, OverrideCommit, ReleaseRead, ReleaseCommit,
         VoidRead, VoidCommit
<1>5. \A t \in Slot \ {s} : req'[t] = req[t]
  BY DEF TypeOK, Author, OverrideRead, OverrideFlush, OverrideCommit, ReleaseRead,
         ReleaseCommit, VoidRead, VoidCommit, Done
<1>6. HandlerKnows(req[s])'
  <2>1. ASSUME NEW q \in Question, NEW points \in Mark(q), OverrideRead(s, q, points)
        PROVE  HandlerKnows(req[s])'
    <3>1. /\ req'[s].step = "override.flush" /\ req'[s].about = q
          /\ req'[s].new.points = points /\ req'[s].new.grader = "human"
          /\ req'[s].old.points = answers[q].points
          /\ req'[s].old.grader = answers[q].grader
      BY <2>1 DEF OverrideRead, Idle, NoAnswer, TypeOK
    <3>2. points # Null
      BY NullAssumption, PaperAssumption DEF Mark
    <3>3. UNCHANGED answers
      BY <2>1 DEF OverrideRead
    <3> QED
      BY <3>1, <3>2, <3>3 DEF HandlerKnows
  <2>2. CASE OverrideFlush(s)
    <3>1. /\ req'[s].step = "override.commit" /\ req'[s].about = req[s].about
          /\ req'[s].new = req[s].new /\ req'[s].old = req[s].old
      BY <2>2 DEF OverrideFlush, TypeOK, Handler
    <3>2. req[s].step = "override.flush" /\ UNCHANGED answers
      BY <2>2 DEF OverrideFlush
    <3> QED
      BY <3>1, <3>2 DEF HandlerKnows, Consistent
  <2>3. CASE OverrideCommit(s) \/ ReleaseCommit(s) \/ VoidCommit(s)
    <3>1. req'[s].step = "idle"
      BY <2>3 DEF OverrideCommit, ReleaseCommit, VoidCommit, Done, Idle, TypeOK
    <3> QED
      BY <3>1, KnowsNothing
  <2>4. CASE ReleaseRead(s)
    <3>1. req'[s].step = "release.commit" /\ attempt'.graded
      BY <2>4 DEF ReleaseRead, Idle, TypeOK
    <3> QED
      BY <3>1 DEF HandlerKnows
  <2>5. CASE VoidRead(s)
    <3>1. req'[s].step = "void.commit" /\ attempt'.status # "absent"
      BY <2>5 DEF VoidRead, Idle, TypeOK
    <3> QED
      BY <3>1 DEF HandlerKnows
  <2> QED
    BY <2>1, <2>2, <2>3, <2>4, <2>5 DEF Author
<1> QED
  BY <1>1, <1>2, <1>3, <1>4, <1>5, <1>6, StepConsistent

LEMMA GraderConsistent ==
  ASSUME TypeOK, Consistent, NEW w \in Worker, Grader(w)
  PROVE  Consistent'
<1>1. Kept /\ (GradeCommit(w) => GradedIsComplete' /\ attempt'.graded /\ Over')
  BY GraderKeeps
<1>2. attempt'.graded => attempt.graded \/ (GradedIsComplete' /\ Over')
  BY <1>1 DEF TypeOK, AttemptRow, Grader, GradeLoadAttempt, GradeLoadAnswers, GradeFail,
              GradeBroken, GradeCrash
<1>3. attempt'.released => attempt.released \/ attempt'.graded
  BY <1>1 DEF TypeOK, AttemptRow, Grader, GradeLoadAttempt, GradeLoadAnswers, GradeFail,
              GradeBroken, GradeCrash
<1>4. queue' > 0 => queue > 0 \/ Over
  <2>1. CASE GradeCrash(w)
    BY <2>1 DEF GradeCrash, Consistent, TaskKnows
  <2>2. CASE ~GradeCrash(w)
    BY <2>2 DEF Grader, GradeLoadAttempt, GradeLoadAnswers, GradeCommit, GradeFail, GradeBroken,
                TypeOK
  <2> QED
    BY <2>1, <2>2
<1>5. UNCHANGED req
  BY DEF Grader, GradeLoadAttempt, GradeLoadAnswers, GradeCommit, GradeFail,
         GradeBroken, GradeCrash
<1>6. \A v \in Worker \ {w} : worker'[v] = worker[v]
  BY DEF TypeOK, Grader, GradeLoadAttempt, GradeLoadAnswers, GradeCommit, GradeFail,
         GradeBroken, GradeCrash
<1>7. worker'[w] # worker[w] => TaskKnows(worker[w])'
  <2>1. CASE GradeLoadAttempt(w)
    <3>1. worker'[w] # worker[w] => worker'[w].step = "answers"
      BY <2>1 DEF GradeLoadAttempt, TypeOK, Task
    <3>2. Over /\ UNCHANGED attempt
      BY <2>1 DEF GradeLoadAttempt, Consistent
    <3> QED
      BY <3>1, <3>2 DEF TaskKnows, Over
  <2>2. CASE GradeLoadAnswers(w)
    <3>1. worker'[w].step = "commit" /\ worker'[w].ans = answers
      BY <2>2 DEF GradeLoadAnswers, TypeOK, Task
    <3>2. Over /\ UNCHANGED <<attempt, answers>>
      BY <2>2 DEF GradeLoadAnswers, Consistent, TaskKnows
    <3> QED
      BY <3>1, <3>2 DEF TaskKnows, Over, Consistent
  <2>3. CASE GradeCommit(w) \/ GradeFail(w) \/ GradeCrash(w) \/ GradeBroken(w)
    <3>1. worker'[w] # worker[w] => worker'[w].step = "idle"
      BY <2>3 DEF GradeCommit, GradeFail, GradeBroken, GradeCrash, NoTask,
                    TypeOK
    <3> QED
      BY <3>1 DEF TaskKnows
  <2> QED
    BY <2>1, <2>2, <2>3 DEF Grader
<1> QED
  BY <1>1, <1>2, <1>3, <1>4, <1>5, <1>6, <1>7, StepConsistent

-----------------------------------------------------------------------------
(***************************************************************************)
(* The theorems.                                                           *)
(***************************************************************************)
\* Whatever requests, tasks and crashes interleave, every reachable state is consistent:
\* only a finished attempt is queued, marked or graded, and only a graded one is released.
THEOREM AlwaysConsistent == Spec => []Consistent
<1>1. Init => Consistent
  BY NullAssumption DEF Init, Consistent, GradedIsComplete, Over, HandlerKnows, TaskKnows,
     NoAttempt, NoAnswer, Idle, NoTask
<1>2. TypeOK /\ Consistent /\ [Next]_vars => Consistent'
  <2> SUFFICES ASSUME TypeOK, Consistent, [Next]_vars
               PROVE  Consistent'
    OBVIOUS
  <2>1. CASE Tick \/ ClosePaper \/ UNCHANGED vars
    <3>1. UNCHANGED <<attempt, answers, req, queue, worker>>
      BY <2>1 DEF Tick, ClosePaper, vars
    <3>2. Kept
      BY <3>1 DEF Kept, Over, Consistent
    <3> QED
      BY <3>1, <3>2, StepConsistent
  <2>2. ASSUME NEW s \in Slot, Sitter(s) \/ Author(s)
        PROVE  Consistent'
    BY <2>2, SitterConsistent, AuthorConsistent
  <2>3. ASSUME NEW w \in Worker, Grader(w)
        PROVE  Consistent'
    BY <2>3, GraderConsistent
  <2> QED
    BY <2>1, <2>2, <2>3 DEF Next
<1> QED
  BY <1>1, <1>2, TypeCorrect, PTL DEF Spec

\* A graded attempt has a mark for every question, answered or not, however the task
\* raced with saves, overrides and its own redelivery.
THEOREM GradedComplete == Spec => []GradedIsComplete
<1>1. Consistent => GradedIsComplete
  BY DEF Consistent
<1> QED
  BY <1>1, AlwaysConsistent, PTL

-----------------------------------------------------------------------------
(***************************************************************************)
(* The attempt row as a sitting: each step of the system changes at most   *)
(* one of progress, mark and visibility, in the promised order.            *)
(***************************************************************************)
LEMMA SitterImplements ==
  ASSUME TypeOK, Consistent, NEW s \in Slot, Sitter(s)
  PROVE  [Promise!Next]_(Promise!vars)
<1>1. CASE StartInsert(s)
  <2>1. CASE UNCHANGED attempt
    BY <2>1 DEF Promise!vars, Progress
  <2>2. CASE attempt' # attempt
    <3>1. attempt.status = "absent" /\ attempt' = req[s].row
      BY <1>1, <2>2 DEF StartInsert
    <3>2. ~attempt.graded /\ ~attempt.released /\ attempt.graded \in BOOLEAN
            /\ attempt.released \in BOOLEAN
      BY <3>1 DEF Consistent, Over, TypeOK, AttemptRow
    <3>3. /\ attempt'.status = "in_progress"
          /\ ~attempt'.graded /\ ~attempt'.released
          /\ attempt'.graded \in BOOLEAN /\ attempt'.released \in BOOLEAN
      BY <1>1, <3>1 DEF StartInsert, Consistent, HandlerKnows, TypeOK, Handler, AttemptRow
    <3> QED
      BY <3>1, <3>2, <3>3 DEF Promise!Next, Promise!Begin, Progress
  <2> QED
    BY <2>1, <2>2
<1>2. CASE SubmitCommit(s)
  <2>1. /\ attempt.status # "absent" /\ attempt'.status \in {"submitted", "auto_submitted"}
        /\ attempt'.graded = attempt.graded /\ attempt'.released = attempt.released
    BY <1>2 DEF SubmitCommit, Consistent, HandlerKnows, TypeOK, AttemptRow
  <2> QED
    BY <2>1 DEF Promise!Next, Promise!Finish, Promise!vars, Progress
<1>3. CASE UNCHANGED attempt
  BY <1>3 DEF Promise!vars, Progress
<1> QED
  BY <1>1, <1>2, <1>3 DEF Sitter, StartRead, SaveRead, SavePolicy, SaveLock, SaveCommit,
                          SubmitRead, SubmitEnqueue, SubmitCrash

LEMMA AuthorImplements ==
  ASSUME TypeOK, Consistent, NEW s \in Slot, Author(s)
  PROVE  [Promise!Next]_(Promise!vars)
<1>1. CASE OverrideCommit(s)
  <2>1. /\ attempt'.status = attempt.status
        /\ attempt'.graded = attempt.graded /\ attempt'.released = attempt.released
    BY <1>1 DEF OverrideCommit, TypeOK, AttemptRow
  <2> QED
    BY <2>1 DEF Promise!vars, Progress
<1>2. CASE ReleaseCommit(s)
  <2>1. /\ attempt'.status = attempt.status /\ attempt.graded
        /\ attempt'.graded = attempt.graded /\ attempt'.released = TRUE
    BY <1>2 DEF ReleaseCommit, Consistent, HandlerKnows, TypeOK, AttemptRow
  <2> QED
    BY <2>1 DEF Promise!Next, Promise!Show, Progress
<1>3. CASE VoidCommit(s)
  <2>1. /\ attempt.status # "absent" /\ attempt'.status = "voided"
        /\ attempt'.graded = attempt.graded /\ attempt'.released = attempt.released
    BY <1>3 DEF VoidCommit, Consistent, HandlerKnows, TypeOK, AttemptRow
  <2> QED
    BY <2>1 DEF Promise!Next, Promise!Finish, Promise!vars, Progress
<1>4. CASE UNCHANGED attempt
  BY <1>4 DEF Promise!vars, Progress
<1> QED
  BY <1>1, <1>2, <1>3, <1>4 DEF Author, OverrideRead, OverrideFlush, ReleaseRead, VoidRead

LEMMA GraderImplements ==
  ASSUME TypeOK, Consistent, NEW w \in Worker, Grader(w)
  PROVE  [Promise!Next]_(Promise!vars)
<1>1. CASE GradeCommit(w)
  <2>1. Over /\ attempt.status \in Status
    BY <1>1 DEF GradeCommit, Consistent, TaskKnows, TypeOK, AttemptRow
  <2>2. /\ attempt'.status = attempt.status /\ attempt'.graded = TRUE
        /\ attempt'.released = (attempt.released \/ ResultsRelease = "immediate")
    BY <1>1 DEF GradeCommit, TypeOK, AttemptRow
  <2> QED
    BY <2>1, <2>2 DEF Promise!Next, Promise!Mark, Progress, Over
<1>2. CASE GradeFail(w) \/ GradeBroken(w)
  <2>1. /\ attempt'.status = attempt.status
        /\ attempt'.graded = attempt.graded /\ attempt'.released = attempt.released
    BY <1>2 DEF GradeFail, GradeBroken, TypeOK, AttemptRow
  <2> QED
    BY <2>1 DEF Promise!vars, Progress
<1>3. CASE UNCHANGED attempt
  BY <1>3 DEF Promise!vars, Progress
<1> QED
  BY <1>1, <1>2, <1>3 DEF Grader, GradeLoadAttempt, GradeLoadAnswers, GradeBroken, GradeCrash

\* Requests, workers, crashes and their races implement one sitting: begun once, finished
\* once, marked only when finished, shown only when marked, none of it ever undone.
THEOREM Implements == Spec => ImplementsSitting
<1>1. Init => Promise!Init
  BY DEF Init, NoAttempt, Promise!Init, Progress
<1>2. TypeOK /\ Consistent /\ [Next]_vars => [Promise!Next]_(Promise!vars)
  <2> SUFFICES ASSUME TypeOK, Consistent, [Next]_vars
               PROVE  [Promise!Next]_(Promise!vars)
    OBVIOUS
  <2>1. CASE Tick \/ ClosePaper \/ UNCHANGED vars
    <3>1. UNCHANGED attempt
      BY <2>1 DEF Tick, ClosePaper, vars
    <3> QED
      BY <3>1 DEF Promise!vars, Progress
  <2>2. ASSUME NEW s \in Slot, Sitter(s) \/ Author(s)
        PROVE  [Promise!Next]_(Promise!vars)
    BY <2>2, SitterImplements, AuthorImplements
  <2>3. ASSUME NEW w \in Worker, Grader(w)
        PROVE  [Promise!Next]_(Promise!vars)
    BY <2>3, GraderImplements
  <2> QED
    BY <2>1, <2>2, <2>3 DEF Next
<1> QED
  BY <1>1, <1>2, TypeCorrect, AlwaysConsistent, PTL DEF Spec, ImplementsSitting, Promise!Spec

-----------------------------------------------------------------------------
(***************************************************************************)
(* What no step may do.                                                    *)
(***************************************************************************)
\* Who writes the attempt.
LEMMA AttemptWritten ==
  ASSUME Next
  PROVE  \/ UNCHANGED attempt
         \/ \E s \in Slot : StartInsert(s) \/ SubmitCommit(s) \/ OverrideCommit(s)
                              \/ ReleaseCommit(s) \/ VoidCommit(s)
         \/ \E w \in Worker : GradeCommit(w) \/ GradeFail(w) \/ GradeBroken(w)
<1>1. ASSUME NEW s \in Slot, Sitter(s)
      PROVE  UNCHANGED attempt \/ StartInsert(s) \/ SubmitCommit(s)
  BY <1>1 DEF Sitter, StartRead, SaveRead, SavePolicy, SaveLock, SaveCommit, SubmitRead,
              SubmitEnqueue, SubmitCrash
<1>2. ASSUME NEW s \in Slot, Author(s)
      PROVE  UNCHANGED attempt \/ OverrideCommit(s) \/ ReleaseCommit(s) \/ VoidCommit(s)
  BY <1>2 DEF Author, OverrideRead, OverrideFlush, ReleaseRead, VoidRead
<1>3. ASSUME NEW w \in Worker, Grader(w)
      PROVE  UNCHANGED attempt \/ GradeCommit(w) \/ GradeFail(w) \/ GradeBroken(w)
  BY <1>3 DEF Grader, GradeLoadAttempt, GradeLoadAnswers, GradeCrash
<1>4. CASE Tick \/ ClosePaper
  BY <1>4 DEF Tick, ClosePaper
<1> QED
  BY <1>1, <1>2, <1>3, <1>4 DEF Next

\* Who writes answers.
LEMMA AnswersWritten ==
  ASSUME Next
  PROVE  \/ UNCHANGED answers
         \/ \E s \in Slot : SaveCommit(s) \/ OverrideCommit(s)
         \/ \E w \in Worker : GradeCommit(w)
<1>1. ASSUME NEW s \in Slot, Sitter(s) PROVE UNCHANGED answers \/ SaveCommit(s)
  BY <1>1 DEF Sitter, StartRead, StartInsert, SaveRead, SavePolicy, SaveLock, SubmitRead,
              SubmitCommit, SubmitEnqueue, SubmitCrash
<1>2. ASSUME NEW s \in Slot, Author(s) PROVE UNCHANGED answers \/ OverrideCommit(s)
  BY <1>2 DEF Author, OverrideRead, OverrideFlush, ReleaseRead, ReleaseCommit, VoidRead, VoidCommit
<1>3. ASSUME NEW w \in Worker, Grader(w) PROVE UNCHANGED answers \/ GradeCommit(w)
  BY <1>3 DEF Grader, GradeLoadAttempt, GradeLoadAnswers, GradeFail, GradeBroken, GradeCrash
<1>4. CASE Tick \/ ClosePaper
  BY <1>4 DEF Tick, ClosePaper
<1> QED
  BY <1>1, <1>2, <1>3, <1>4 DEF Next

\* Once a sitting exists no second start restarts it or moves its deadline, whatever two
\* racing starts of one person had read.
THEOREM OneSittingHolds == Spec => OneSitting
<1> DEFINE A == attempt.status # "absent" =>
                  /\ attempt'.deadline = attempt.deadline
                  /\ \/ attempt'.status \notin {"absent", "in_progress"}
                     \/ attempt'.status = attempt.status
<1>1. TypeOK /\ Consistent /\ [Next]_vars => [A]_vars
  <2> SUFFICES ASSUME TypeOK, Consistent, Next, attempt.status # "absent"
               PROVE  /\ attempt'.deadline = attempt.deadline
                      /\ \/ attempt'.status \notin {"absent", "in_progress"}
                         \/ attempt'.status = attempt.status
    OBVIOUS
  <2>1. CASE UNCHANGED attempt
    BY <2>1
  <2>2. ASSUME NEW s \in Slot, StartInsert(s)
        PROVE  UNCHANGED attempt
    BY <2>2 DEF StartInsert
  <2>3. ASSUME NEW s \in Slot, SubmitCommit(s)
        PROVE  attempt'.deadline = attempt.deadline
                 /\ attempt'.status \in {"submitted", "auto_submitted"}
    BY <2>3 DEF SubmitCommit, Consistent, HandlerKnows, TypeOK, AttemptRow
  <2>4. ASSUME NEW s \in Slot, OverrideCommit(s) \/ ReleaseCommit(s) \/ VoidCommit(s)
        PROVE  attempt'.deadline = attempt.deadline
                 /\ attempt'.status \in {attempt.status, "voided"}
    BY <2>4 DEF OverrideCommit, ReleaseCommit, VoidCommit, TypeOK, AttemptRow
  <2>5. ASSUME NEW w \in Worker, GradeCommit(w) \/ GradeFail(w) \/ GradeBroken(w)
        PROVE  attempt'.deadline = attempt.deadline /\ attempt'.status = attempt.status
    BY <2>5 DEF GradeCommit, GradeFail, GradeBroken, TypeOK, AttemptRow
  <2>6. \/ UNCHANGED attempt
        \/ \E s \in Slot : StartInsert(s) \/ SubmitCommit(s) \/ OverrideCommit(s)
                             \/ ReleaseCommit(s) \/ VoidCommit(s)
        \/ \E w \in Worker : GradeCommit(w) \/ GradeFail(w) \/ GradeBroken(w)
    BY AttemptWritten
  <2> QED
    BY <2>1, <2>2, <2>3, <2>4, <2>5, <2>6
<1> QED
  BY <1>1, TypeCorrect, AlwaysConsistent, PTL DEF Spec, OneSitting

\* Only a save writes a response: an override and the marking leave it alone.
LEMMA OnlySavesRespond ==
  ASSUME TypeOK, Consistent, Next, Responses' # Responses
  PROVE  \E s \in Slot : req[s].step = "save.commit"
<1>1. ASSUME NEW s \in Slot, OverrideCommit(s)
      PROVE  Responses' = Responses
  <2> DEFINE h == req[s]
  <2>1. /\ h.about \in Question /\ h.new.points # Null /\ h.new.grader = "human"
        /\ h.old.points # Null => answers[h.about].points # Null
        /\ h.old.grader # Null => answers[h.about].grader # Null
    BY <1>1 DEF OverrideCommit, Consistent, HandlerKnows
  <2>2. h.old \in AnswerRow /\ h.new \in AnswerRow /\ answers[h.about] \in AnswerRow
    BY <2>1 DEF TypeOK, Handler
  <2>3. Updated(answers[h.about], h.old, h.new).response = answers[h.about].response
    BY <2>1, <2>2, OverrideRow
  <2>4. answers' = [answers EXCEPT ![h.about] = Updated(answers[h.about], h.old, h.new)]
    BY <1>1 DEF OverrideCommit
  <2> HIDE DEF h
  <2> QED
    BY <2>1, <2>3, <2>4 DEF Responses, TypeOK
<1>2. ASSUME NEW w \in Worker, GradeCommit(w)
      PROVE  Responses' = Responses
  <2>1. ASSUME NEW q \in Question
        PROVE  answers'[q].response = answers[q].response
    <3> DEFINE old == worker[w].ans[q]
    <3>1. /\ old.points # Null => answers[q].points # Null
          /\ old.grader # Null => answers[q].grader # Null
          /\ old.grader = "human" => old.points # Null
      BY <1>2 DEF GradeCommit, Consistent, TaskKnows
    <3>2. old \in AnswerRow /\ answers[q] \in AnswerRow
      BY DEF TypeOK, Task
    <3>3. answers'[q] = Updated(answers[q], old, Graded(q, old))
      BY <1>2 DEF GradeCommit
    <3> QED
      BY <3>1, <3>2, <3>3, GradedRow
  <2> QED
    BY <2>1 DEF Responses
<1>3. \/ UNCHANGED answers
      \/ \E s \in Slot : SaveCommit(s) \/ OverrideCommit(s)
      \/ \E w \in Worker : GradeCommit(w)
  BY AnswersWritten
<1>4. ASSUME UNCHANGED answers
      PROVE  Responses' = Responses
  BY <1>4 DEF Responses
<1> QED
  BY <1>1, <1>2, <1>3, <1>4 DEF SaveCommit

\* A request becomes a save only from reading an open, unexpired attempt, and gets past
\* the policies only while the attempt is still in progress.
LEMMA Admission ==
  ASSUME TypeOK, Next, NEW s \in Slot
  PROVE  /\ req'[s].step = "save.commit" => req[s].step \in {"save.lock", "save.commit"}
         /\ req'[s].step = "save.lock" =>
              \/ req[s].step = "save.lock"
              \/ req[s].step = "save.policy" /\ attempt.status = "in_progress"
         /\ req'[s].step = "save.policy" =>
              \/ req[s].step = "save.policy"
              \/ attempt.status = "in_progress" /\ ~Expired
<1>1. CASE req'[s] = req[s]
  BY <1>1
<1>2. ASSUME NEW q \in Question, NEW response \in Response \cup {Null}, SaveRead(s, q, response)
      PROVE  req'[s].step = "save.policy" /\ attempt.status = "in_progress" /\ ~Expired
  BY <1>2 DEF SaveRead, Idle, TypeOK
<1>3. CASE SavePolicy(s)
  BY <1>3 DEF SavePolicy, Done, Idle, TypeOK, Handler
<1>4. CASE SaveLock(s)
  BY <1>4 DEF SaveLock, Done, Idle, TypeOK, Handler
<1>5. ASSUME \/ StartRead(s) \/ StartInsert(s) \/ SaveCommit(s) \/ SubmitEnqueue(s)
             \/ SubmitCrash(s) \/ SubmitCommit(s) \/ OverrideCommit(s) \/ ReleaseRead(s)
             \/ ReleaseCommit(s) \/ VoidRead(s) \/ VoidCommit(s)
      PROVE  req'[s].step \in {"idle", "start.insert", "submit.enqueue", "release.commit",
                               "void.commit"}
  <2>1. CASE StartRead(s)
    BY <2>1 DEF StartRead, Idle, TypeOK
  <2>2. CASE SubmitCommit(s)
    BY <2>2 DEF SubmitCommit, Done, Idle, TypeOK
  <2>3. CASE ReleaseRead(s) \/ VoidRead(s)
    BY <2>3 DEF ReleaseRead, VoidRead, Idle, TypeOK
  <2>4. CASE StartInsert(s) \/ SaveCommit(s) \/ SubmitEnqueue(s) \/ SubmitCrash(s)
             \/ OverrideCommit(s) \/ ReleaseCommit(s) \/ VoidCommit(s)
    <3>1. Done(s)
      BY <2>4 DEF StartInsert, SaveCommit, SubmitEnqueue, SubmitCrash, OverrideCommit,
                  ReleaseCommit, VoidCommit
    <3> QED
      BY <3>1 DEF Done, Idle, TypeOK
  <2> QED
    BY <1>5, <2>1, <2>2, <2>3, <2>4
<1>6. ASSUME SubmitRead(s)
      PROVE  req'[s].step \in {"submit.commit", "submit.enqueue"}
  <2>1. \/ \E h : h.step = "submit.commit" /\ req' = [req EXCEPT ![s] = h]
        \/ \E h : h.step = "submit.enqueue" /\ req' = [req EXCEPT ![s] = h]
    BY <1>6 DEF SubmitRead, Idle
  <2> QED
    BY <2>1 DEF TypeOK
<1>7. ASSUME NEW q \in Question, NEW points \in Mark(q), OverrideRead(s, q, points)
      PROVE  req'[s].step = "override.flush"
  BY <1>7 DEF OverrideRead, Idle, TypeOK
<1>8. ASSUME OverrideFlush(s)
      PROVE  req'[s].step = "override.commit"
  BY <1>8 DEF OverrideFlush, TypeOK, Handler
<1>9. CASE Sitter(s) \/ Author(s)
  BY <1>2, <1>3, <1>4, <1>5, <1>6, <1>7, <1>8, <1>9 DEF Sitter, Author
<1>10. ASSUME NEW t \in Slot, Sitter(t) \/ Author(t), t # s
       PROVE  req'[s] = req[s]
  BY <1>10 DEF Sitter, Author, StartRead, StartInsert, SaveRead, SavePolicy, SaveLock,
       SaveCommit, SubmitRead, SubmitCommit, SubmitEnqueue, SubmitCrash, OverrideRead,
       OverrideFlush, OverrideCommit, ReleaseRead, ReleaseCommit, VoidRead, VoidCommit, Done, TypeOK
<1>11. CASE Tick \/ ClosePaper \/ \E w \in Worker : Grader(w)
  BY <1>1, <1>11 DEF Tick, ClosePaper, Grader, GradeLoadAttempt, GradeLoadAnswers, GradeCommit,
                     GradeFail, GradeBroken, GradeCrash
<1> QED
  BY <1>1, <1>9, <1>10, <1>11 DEF Next

\* Once the sitting is over and no save is past the policies on `answers`, no response
\* changes and no save gets past them, however late the other requests are.
THEOREM SubmittedSealHolds == Spec => SubmittedSeal
<1> DEFINE Steps == {"save.lock", "save.commit"}
           A == Over /\ Admitted(Steps) = {} =>
                  Responses' = Responses /\ Admitted(Steps)' = {}
<1>1. TypeOK /\ Consistent /\ [Next]_vars => [A]_vars
  <2> SUFFICES ASSUME TypeOK, Consistent, Next, Over, Admitted(Steps) = {}
               PROVE  Responses' = Responses /\ Admitted(Steps)' = {}
    OBVIOUS
  <2>1. \A s \in Slot : req[s].step \notin Steps
    BY DEF Admitted
  <2>2. Responses' = Responses
    BY <2>1, OnlySavesRespond
  <2>3. \A s \in Slot : req'[s].step \notin Steps
    BY <2>1, Admission DEF Over
  <2> QED
    BY <2>2, <2>3 DEF Admitted
<1> QED
  BY <1>1, TypeCorrect, AlwaysConsistent, PTL DEF Spec, SubmittedSeal

\* Once the deadline has passed and no save read before it is outstanding, no response
\* changes, whether or not the paper is ever handed in.
THEOREM DeadlineSealHolds == Spec => DeadlineSeal
<1> DEFINE Steps == {"save.policy", "save.lock", "save.commit"}
           A == Expired /\ Admitted(Steps) = {} =>
                  Responses' = Responses /\ Admitted(Steps)' = {}
<1>1. TypeOK /\ Consistent /\ [Next]_vars => [A]_vars
  <2> SUFFICES ASSUME TypeOK, Consistent, Next, Expired, Admitted(Steps) = {}
               PROVE  Responses' = Responses /\ Admitted(Steps)' = {}
    OBVIOUS
  <2>1. \A s \in Slot : req[s].step \notin Steps
    BY DEF Admitted
  <2>2. Responses' = Responses
    BY <2>1, OnlySavesRespond
  <2>3. \A s \in Slot : req'[s].step \notin Steps
    BY <2>1, Admission
  <2> QED
    BY <2>2, <2>3 DEF Admitted
<1> QED
  BY <1>1, TypeCorrect, AlwaysConsistent, PTL DEF Spec, DeadlineSeal

\* A human's mark is only ever replaced by a task that had loaded the answer before the
\* override: redelivering or re-running the task by itself never takes it back.
THEOREM HumanMarkKeptHolds == Spec => HumanMarkKept
<1> DEFINE A == \A q \in Question :
                  answers[q].grader = "human" /\ answers'[q].grader # "human" =>
                    \E w \in Worker : worker[w].step = "commit" /\ worker[w].ans[q].grader # "human"
<1>1. TypeOK /\ Consistent /\ [Next]_vars => [A]_vars
  <2> SUFFICES ASSUME TypeOK, Consistent, Next, NEW q \in Question,
                      answers[q].grader = "human", answers'[q].grader # "human"
               PROVE  \E w \in Worker : worker[w].step = "commit" /\ worker[w].ans[q].grader # "human"
    OBVIOUS
  <2>1. ASSUME NEW s \in Slot, SaveCommit(s)
        PROVE  FALSE
    BY <2>1 DEF SaveCommit, TypeOK, AnswerRow
  <2>2. ASSUME NEW s \in Slot, OverrideCommit(s)
        PROVE  FALSE
    <3> DEFINE h == req[s]
    <3>1. /\ h.about \in Question /\ h.new.points # Null /\ h.new.grader = "human"
          /\ h.old.points # Null => answers[h.about].points # Null
          /\ h.old.grader # Null => answers[h.about].grader # Null
      BY <2>2 DEF OverrideCommit, Consistent, HandlerKnows
    <3>2. h.old \in AnswerRow /\ h.new \in AnswerRow /\ answers[h.about] \in AnswerRow
      BY <3>1 DEF TypeOK, Handler
    <3>3. answers[h.about].grader = "human" =>
            Updated(answers[h.about], h.old, h.new).grader = "human"
      BY <3>1, <3>2, OverrideRow
    <3>4. answers' = [answers EXCEPT ![h.about] = Updated(answers[h.about], h.old, h.new)]
      BY <2>2 DEF OverrideCommit
    <3> HIDE DEF h
    <3> QED
      BY <3>1, <3>3, <3>4 DEF TypeOK
  <2>3. ASSUME NEW w \in Worker, GradeCommit(w), worker[w].ans[q].grader = "human"
        PROVE  FALSE
    <3> DEFINE old == worker[w].ans[q]
    <3>1. /\ old.points # Null => answers[q].points # Null
          /\ old.grader # Null => answers[q].grader # Null
          /\ old.grader = "human" => old.points # Null
      BY <2>3 DEF GradeCommit, Consistent, TaskKnows
    <3>2. old \in AnswerRow /\ answers[q] \in AnswerRow
      BY DEF TypeOK, Task
    <3>3. answers'[q] = Updated(answers[q], old, Graded(q, old))
      BY <2>3 DEF GradeCommit
    <3>4. Updated(answers[q], old, Graded(q, old)).grader = answers[q].grader
      BY <2>3, <3>1, <3>2, GradedRow
    <3> QED
      BY <3>3, <3>4
  <2>4. \/ \E s \in Slot : SaveCommit(s) \/ OverrideCommit(s)
        \/ \E w \in Worker : GradeCommit(w)
    BY AnswersWritten
  <2> QED
    BY <2>1, <2>2, <2>3, <2>4 DEF GradeCommit
<1> QED
  BY <1>1, TypeCorrect, AlwaysConsistent, PTL DEF Spec, HumanMarkKept

=============================================================================
