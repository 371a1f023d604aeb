------------------------------ MODULE Attempts ------------------------------
(***************************************************************************)
(* One sitting of one published paper: the request handlers of             *)
(* backend/app/api/v1/attempts.py and services/attempts.py, the grading    *)
(* task of workers/tasks/grading.py, and the row-level policies of the     *)
(* assessments migration that the handlers run under.                      *)
(*                                                                         *)
(* Concurrency.  A request is one READ COMMITTED transaction that loads    *)
(* rows into an ORM session, decides on what it loaded, and writes at      *)
(* flush/commit; the ORM's UPDATE carries only the columns whose new value *)
(* differs from the LOADED one.  So every operation is split into a read   *)
(* step, which keeps what was loaded in `req`/`worker`, and a write step.  *)
(* A write of the attempt row is merged with its commit: until then nobody *)
(* sees it, and the row lock only delays other writers.  A write of an     *)
(* answer row is not merged when something is decided between the two (the *)
(* policy check of a save, the sum an override reads), so `lock` keeps the *)
(* pending row locks of answers.                                           *)
(*                                                                         *)
(* Reads that change nothing (preview, result, report, gradebook) and      *)
(* requests that are refused without a write are stuttering steps.         *)
(***************************************************************************)
EXTENDS Integers, FiniteSetsExt

CONSTANTS
  Slot,            \* concurrent API request handlers
  Worker,          \* Celery processes of the `llm` queue
  Question,        \* the questions of the paper
  Response,        \* option keys a sitter can answer with, normalised
  CorrectOption,   \* [Question -> Response]
  Points,          \* [Question -> Nat \ {0}]
  Null,            \* SQL NULL / Python None
  OpensAt,         \* the paper's window and time limit, Null when unset
  ClosesAt,
  Duration,
  ResultsRelease,  \* "immediate" or "on_review"
  Requests,        \* the kinds of request the environment issues
  Crashing,        \* what may fail: the processes "api" and "worker", or the "database"
                   \* that refuses a statement of the grading task
  MaxClock,        \* bound: clock values 0..MaxClock
  MaxQueue,        \* bound: grade_attempt messages in flight
  MaxCrashes       \* bound: such failures

Times == 0..MaxClock
Mark(q) == 0..Points[q]
Kind == {"start", "save", "submit", "override", "release", "void"}

ASSUME PaperAssumption ==
  /\ Question # {}
  /\ IsFiniteSet(Question)
  /\ CorrectOption \in [Question -> Response]
  /\ Points \in [Question -> Nat \ {0}]
  /\ OpensAt \in Nat \cup {Null}
  /\ ClosesAt \in Nat \cup {Null}
  /\ Duration \in (Nat \ {0}) \cup {Null}
  /\ ResultsRelease \in {"immediate", "on_review"}
ASSUME BoundsAssumption ==
  /\ MaxClock \in Nat
  /\ MaxQueue \in Nat
  /\ MaxCrashes \in Nat
  /\ Requests \subseteq Kind
  /\ Crashing \subseteq {"api", "worker", "database"}
ASSUME NullAssumption ==
  /\ Null \notin Nat
  /\ Null \notin Response
  /\ Null \notin Slot \cup Question
  /\ Null \notin {"auto", "human"}

VARIABLES
  clock,    \* server time
  paper,    \* assessments.status of this paper: "published" or "closed"
  attempt,  \* the attempts row; status "absent" until it is inserted
  answers,  \* the committed answers rows, one per question
  lock,     \* which request holds an uncommitted write of an answers row
  req,      \* request handlers: the step they are at and what they loaded
  queue,    \* grade_attempt messages not yet delivered
  worker,   \* grading tasks: the step they are at and what they loaded
  crashes,  \* processes killed and statements refused so far
  lost      \* history: a marking was lost without a word, and none has been asked for since

vars == <<clock, paper, attempt, answers, lock, req, queue, worker, crashes, lost>>

-----------------------------------------------------------------------------
(***************************************************************************)
(* Rows, and the sums over them.                                           *)
(***************************************************************************)
Status == {"absent", "in_progress", "submitted", "auto_submitted", "voided"}
AnyMark == UNION {Mark(q) : q \in Question}

\* sum(value for value in awarded if value is not None), over one mark per question
Total(marks) ==
  MapThenSumSet(LAMBDA q : IF marks[q] = Null THEN 0 ELSE marks[q], Question)

Scores == {Total(marks) : marks \in [Question -> AnyMark \cup {Null}]}

AttemptRow ==
  [status   : Status,
   deadline : Nat \cup {Null},
   score    : Scores \cup {Null},
   graded   : BOOLEAN,               \* graded_at is not null
   released : BOOLEAN,               \* results_released_at is not null
   error    : BOOLEAN]               \* grading_error is not null

NoAttempt ==
  [status |-> "absent", deadline |-> Null, score |-> Null,
   graded |-> FALSE, released |-> FALSE, error |-> FALSE]

AnswerRow ==
  [exists   : BOOLEAN,
   response : Response \cup {Null},
   points   : AnyMark \cup {Null},
   grader   : {Null, "auto", "human"}]

NoAnswer ==
  [exists |-> FALSE, response |-> Null, points |-> Null, grader |-> Null]

(***************************************************************************)
(* A request handler: its step, its in-memory attempt, the answer row as   *)
(* loaded and as it will be written, the question it is about, and the sum *)
(* an override read.  Of the rows it keeps the columns a later step uses.  *)
(***************************************************************************)
Step ==
  {"idle", "start.insert", "save.policy", "save.lock", "save.commit",
   "submit.commit", "submit.enqueue", "override.flush", "override.commit",
   "release.commit", "void.commit"}

Handler ==
  [step  : Step,
   row   : AttemptRow,
   old   : AnswerRow,
   new   : AnswerRow,
   about : Question \cup {Null},
   sum   : Scores \cup {Null}]

Idle ==
  [step |-> "idle", row |-> NoAttempt, old |-> NoAnswer, new |-> NoAnswer,
   about |-> Null, sum |-> Null]

Done(s) == req' = [req EXCEPT ![s] = Idle]

Task ==
  [step : {"idle", "answers", "commit"},
   row  : AttemptRow,
   ans  : [Question -> AnswerRow]]

NoTask == [step |-> "idle", row |-> NoAttempt, ans |-> [q \in Question |-> NoAnswer]]

TypeOK ==
  /\ clock \in Times
  /\ paper \in {"published", "closed"}
  /\ attempt \in AttemptRow
  /\ answers \in [Question -> AnswerRow]
  /\ lock \in [Question -> Slot \cup {Null}]
  /\ req \in [Slot -> Handler]
  /\ queue \in Nat
  /\ worker \in [Worker -> Task]
  /\ crashes \in 0..MaxCrashes
  /\ lost \in BOOLEAN

Init ==
  /\ clock = 0
  /\ paper = "published"
  /\ attempt = NoAttempt
  /\ answers = [q \in Question |-> NoAnswer]
  /\ lock = [q \in Question |-> Null]
  /\ req = [s \in Slot |-> Idle]
  /\ queue = 0
  /\ worker = [w \in Worker |-> NoTask]
  /\ crashes = 0
  /\ lost = FALSE

-----------------------------------------------------------------------------
(***************************************************************************)
(* Time, and the author closing the paper.                                 *)
(***************************************************************************)
Tick ==
  /\ clock < MaxClock
  /\ clock' = clock + 1
  /\ UNCHANGED <<paper, attempt, answers, lock, req, queue, worker, crashes, lost>>

\* services/assessments.close
ClosePaper ==
  /\ paper = "published"
  /\ paper' = "closed"
  /\ UNCHANGED <<clock, attempt, answers, lock, req, queue, worker, crashes, lost>>

IsOpen ==
  /\ paper = "published"
  /\ OpensAt # Null => OpensAt <= clock
  /\ ClosesAt # Null => ClosesAt > clock

\* _expired
Expired == attempt.deadline # Null /\ clock >= attempt.deadline

-----------------------------------------------------------------------------
(***************************************************************************)
(* POST /exam/{token}/start.  The deadline is fixed here; two starts of    *)
(* one person are told apart by the unique constraint only.  A start that  *)
(* finds the attempt resumes it and writes nothing.                        *)
(***************************************************************************)
DeadlineFrom(started) ==
  CASE Duration = Null -> ClosesAt
    [] Duration # Null /\ ClosesAt = Null -> started + Duration
    [] OTHER -> IF started + Duration <= ClosesAt THEN started + Duration ELSE ClosesAt

StartRead(s) ==
  /\ "start" \in Requests
  /\ req[s].step = "idle"
  /\ IsOpen
  /\ attempt.status = "absent"
  /\ req' = [req EXCEPT ![s] =
       [Idle EXCEPT !.step = "start.insert",
                    !.row = [NoAttempt EXCEPT !.status = "in_progress",
                                              !.deadline = DeadlineFrom(clock)]]]
  /\ UNCHANGED <<clock, paper, attempt, answers, lock, queue, worker, crashes, lost>>

\* Mutant: no unique constraint on (assessment, sitter).
StartInsertTwice(s) ==
  /\ req[s].step = "start.insert"
  /\ attempt' = req[s].row
  /\ Done(s)
  /\ UNCHANGED <<clock, paper, answers, lock, queue, worker, crashes, lost>>

\* attempts_insert_self_when_open and attempts_one_per_sitter decide.  The policy's now()
\* is that of the transaction's start, so of the window only `paper` is asked anew.
StartInsert(s) ==
  /\ req[s].step = "start.insert"
  /\ IF paper = "published" /\ attempt.status = "absent"
       THEN attempt' = req[s].row
       ELSE UNCHANGED attempt
  /\ Done(s)
  /\ UNCHANGED <<clock, paper, answers, lock, queue, worker, crashes, lost>>

(***************************************************************************)
(* PUT /attempts/{id}/answers/{question}.  The handler refuses a finished  *)
(* or expired attempt from what it loaded; the policies on `answers`       *)
(* check in_progress again when the statement starts; the row lock, or the *)
(* unique constraint for a first answer, comes after that.                 *)
(***************************************************************************)
\* Mutant: the deadline is left to the client's countdown.
SaveReadLate(s, q, response) ==
  /\ req[s].step = "idle"
  /\ attempt.status = "in_progress"
  /\ req' = [req EXCEPT ![s] =
       [Idle EXCEPT !.step = "save.policy",
                    !.about = q,
                    !.old.exists = answers[q].exists,
                    !.new.response = response]]
  /\ UNCHANGED <<clock, paper, attempt, answers, lock, queue, worker, crashes, lost>>

SaveRead(s, q, response) ==
  /\ "save" \in Requests
  /\ req[s].step = "idle"
  /\ attempt.status = "in_progress"
  /\ ~Expired
  /\ answers[q].exists => answers[q].response # response  \* else no UPDATE is emitted
  /\ req' = [req EXCEPT ![s] =
       [Idle EXCEPT !.step = "save.policy",
                    !.about = q,
                    !.old.exists = answers[q].exists,
                    !.new.response = response]]
  /\ UNCHANGED <<clock, paper, attempt, answers, lock, queue, worker, crashes, lost>>

\* Mutant: only the handler checks the status, the table has no policy.
SavePolicyAbsent(s) ==
  /\ req[s].step = "save.policy"
  /\ req' = [req EXCEPT ![s].step = "save.lock"]
  /\ UNCHANGED <<clock, paper, attempt, answers, lock, queue, worker, crashes, lost>>

SavePolicy(s) ==
  /\ req[s].step = "save.policy"
  /\ IF attempt.status = "in_progress"
       THEN req' = [req EXCEPT ![s].step = "save.lock"]
       ELSE Done(s)
  /\ UNCHANGED <<clock, paper, attempt, answers, lock, queue, worker, crashes, lost>>

\* A first answer whose row somebody else has inserted meanwhile violates
\* answers_unique_per_question.
SaveLock(s) ==
  LET q == req[s].about IN
  /\ req[s].step = "save.lock"
  /\ lock[q] = Null
  /\ IF ~req[s].old.exists /\ answers[q].exists
       THEN Done(s) /\ UNCHANGED lock
       ELSE /\ req' = [req EXCEPT ![s].step = "save.commit"]
            /\ lock' = [lock EXCEPT ![q] = s]
  /\ UNCHANGED <<clock, paper, attempt, answers, queue, worker, crashes, lost>>

SaveCommit(s) ==
  LET q == req[s].about IN
  /\ req[s].step = "save.commit"
  /\ answers' = [answers EXCEPT ![q].exists = TRUE, ![q].response = req[s].new.response]
  /\ lock' = [lock EXCEPT ![q] = Null]
  /\ Done(s)
  /\ UNCHANGED <<clock, paper, attempt, queue, worker, crashes, lost>>

(***************************************************************************)
(* POST /attempts/{id}/submit: hand in, commit, and only then enqueue the  *)
(* marking of an attempt that was loaded ungraded.  Submitting again skips *)
(* the write and enqueues again.                                           *)
(***************************************************************************)
Submitting == {s \in Slot : req[s].step \in {"submit.commit", "submit.enqueue"}}
Marking == {w \in Worker : worker[w].step # "idle"}

SubmitRead(s) ==
  /\ "submit" \in Requests
  /\ req[s].step = "idle"
  /\ attempt.status # "absent"
  /\ queue + Cardinality(Marking) + Cardinality(Submitting) < MaxQueue
  /\ \/ /\ attempt.status = "in_progress"
        /\ req' = [req EXCEPT ![s] =
             [Idle EXCEPT !.step = "submit.commit",
                          !.row.status = IF Expired THEN "auto_submitted" ELSE "submitted",
                          !.row.graded = attempt.graded]]
     \/ /\ attempt.status # "in_progress"
        /\ ~attempt.graded
        /\ req' = [req EXCEPT ![s] = [Idle EXCEPT !.step = "submit.enqueue"]]
  /\ UNCHANGED <<clock, paper, attempt, answers, lock, queue, worker, crashes, lost>>

SubmitCommit(s) ==
  /\ req[s].step = "submit.commit"
  /\ attempt' = [attempt EXCEPT !.status = req[s].row.status]
  /\ IF req[s].row.graded
       THEN Done(s)
       ELSE req' = [req EXCEPT ![s] = [Idle EXCEPT !.step = "submit.enqueue"]]
  /\ UNCHANGED <<clock, paper, answers, lock, queue, worker, crashes, lost>>

SubmitEnqueue(s) ==
  /\ req[s].step = "submit.enqueue"
  /\ queue' = queue + 1
  /\ lost' = FALSE
  /\ Done(s)
  /\ UNCHANGED <<clock, paper, attempt, answers, lock, worker, crashes>>

\* The process dies, or the broker refuses, between the commit and `.delay`.
SubmitCrash(s) ==
  /\ "api" \in Crashing
  /\ req[s].step = "submit.enqueue"
  /\ crashes < MaxCrashes
  /\ crashes' = crashes + 1
  /\ lost' = TRUE
  /\ Done(s)
  /\ UNCHANGED <<clock, paper, attempt, answers, lock, queue, worker>>

-----------------------------------------------------------------------------
(***************************************************************************)
(* The author: override a mark, release the result, void the sitting.      *)
(***************************************************************************)
\* An answer nobody has given has no row yet, and the insert policy admits the
\* sitter only, so the override of an absent row is refused.  An override comes with a
\* feedback of its own, so its UPDATE is never empty and always takes the row lock.
OverrideRead(s, q, points) ==
  /\ "override" \in Requests
  /\ req[s].step = "idle"
  /\ attempt.status # "absent"
  /\ answers[q].exists
  /\ req' = [req EXCEPT ![s] =
       [Idle EXCEPT !.step = "override.flush",
                    !.row.score = attempt.score,
                    !.about = q,
                    !.old.points = answers[q].points,
                    !.old.grader = answers[q].grader,
                    !.new.points = points,
                    !.new.grader = "human"]]
  /\ UNCHANGED <<clock, paper, attempt, answers, lock, queue, worker, crashes, lost>>

\* The ORM's UPDATE of an answer row: only the columns that differ from the loaded row.
Updated(row, old, new) ==
  [row EXCEPT !.exists = TRUE,
              !.points = IF new.points # old.points THEN new.points ELSE row.points,
              !.grader = IF new.grader # old.grader THEN new.grader ELSE row.grader]

\* Flush the mark, then sum the awarded points this transaction sees.
OverrideFlush(s) ==
  LET q == req[s].about
      mine == Updated(answers[q], req[s].old, req[s].new)
      seen == [answers EXCEPT ![q] = mine]
  IN
  /\ req[s].step = "override.flush"
  /\ lock[q] = Null
  /\ lock' = [lock EXCEPT ![q] = s]
  /\ req' = [req EXCEPT ![s].step = "override.commit",
                        ![s].sum = Total([p \in Question |-> seen[p].points])]
  /\ UNCHANGED <<clock, paper, attempt, answers, queue, worker, crashes, lost>>

OverrideCommit(s) ==
  LET q == req[s].about IN
  /\ req[s].step = "override.commit"
  /\ answers' = [answers EXCEPT ![q] = Updated(answers[q], req[s].old, req[s].new)]
  /\ attempt' = IF req[s].sum # req[s].row.score
                  THEN [attempt EXCEPT !.score = req[s].sum]
                  ELSE attempt
  /\ lock' = [lock EXCEPT ![q] = Null]
  /\ Done(s)
  /\ UNCHANGED <<clock, paper, queue, worker, crashes, lost>>

\* Mutant: releasing does not ask whether the paper was graded.
ReleaseReadUngraded(s) ==
  /\ "release" \in Requests
  /\ req[s].step = "idle"
  /\ attempt.status # "absent"
  /\ ~attempt.released
  /\ req' = [req EXCEPT ![s] = [Idle EXCEPT !.step = "release.commit"]]
  /\ UNCHANGED <<clock, paper, attempt, answers, lock, queue, worker, crashes, lost>>

ReleaseRead(s) ==
  /\ "release" \in Requests
  /\ req[s].step = "idle"
  /\ attempt.graded
  /\ ~attempt.released
  /\ req' = [req EXCEPT ![s] = [Idle EXCEPT !.step = "release.commit"]]
  /\ UNCHANGED <<clock, paper, attempt, answers, lock, queue, worker, crashes, lost>>

ReleaseCommit(s) ==
  /\ req[s].step = "release.commit"
  /\ attempt' = [attempt EXCEPT !.released = TRUE]
  /\ Done(s)
  /\ UNCHANGED <<clock, paper, answers, lock, queue, worker, crashes, lost>>

VoidRead(s) ==
  /\ "void" \in Requests
  /\ req[s].step = "idle"
  /\ attempt.status \notin {"absent", "voided"}
  /\ req' = [req EXCEPT ![s] = [Idle EXCEPT !.step = "void.commit"]]
  /\ UNCHANGED <<clock, paper, attempt, answers, lock, queue, worker, crashes, lost>>

VoidCommit(s) ==
  /\ req[s].step = "void.commit"
  /\ attempt' = [attempt EXCEPT !.status = "voided"]
  /\ Done(s)
  /\ UNCHANGED <<clock, paper, answers, lock, queue, worker, crashes, lost>>

-----------------------------------------------------------------------------
(***************************************************************************)
(* The grading task.  Delivered at least once: acknowledged when it ends,  *)
(* also by an exception, and redelivered when its process is lost.         *)
(***************************************************************************)
GradeLoadAttempt(w) ==
  /\ queue > 0
  /\ worker[w].step = "idle"
  /\ queue' = queue - 1
  /\ worker' = IF attempt.status = "voided"
                 THEN worker
                 ELSE [worker EXCEPT ![w].step = "answers",
                                      ![w].row.score = attempt.score,
                                      ![w].row.error = attempt.error]
  /\ UNCHANGED <<clock, paper, attempt, answers, lock, req, crashes, lost>>

GradeLoadAnswers(w) ==
  /\ worker[w].step = "answers"
  /\ worker' = [worker EXCEPT ![w].step = "commit", ![w].ans = answers]
  /\ UNCHANGED <<clock, paper, attempt, answers, lock, req, queue, crashes, lost>>

\* Mutant: a wrong answer costs a point.
McqMarkNegative(q, response) == IF response = CorrectOption[q] THEN Points[q] ELSE -1

\* grade_mcq
McqMark(q, response) == IF response = CorrectOption[q] THEN Points[q] ELSE 0

\* Mutants: an unanswered question is skipped; a human's mark is recomputed.
GradedAnsweredOnly(q, old) ==
  IF ~old.exists \/ old.grader = "human"
    THEN old
    ELSE [old EXCEPT !.points = McqMark(q, old.response), !.grader = "auto"]

GradedOver(q, old) ==
  [old EXCEPT !.exists = TRUE, !.points = McqMark(q, old.response), !.grader = "auto"]

\* grade_answer: the row as the task leaves it in memory
Graded(q, old) ==
  IF old.grader = "human"
    THEN old
    ELSE [old EXCEPT !.exists = TRUE,
                     !.points = McqMark(q, old.response),
                     !.grader = "auto"]

\* A question with no answer when the task looked, and one now.
InsertConflict(w) ==
  \E q \in Question : ~worker[w].ans[q].exists /\ answers[q].exists

GradeCommit(w) ==
  LET row == worker[w].row
      old == worker[w].ans
      new == [q \in Question |-> Graded(q, old[q])]
      total == Total([q \in Question |-> new[q].points])
  IN
  /\ worker[w].step = "commit"
  /\ \A q \in Question : lock[q] = Null
  /\ ~InsertConflict(w)
  /\ answers' = [q \in Question |-> Updated(answers[q], old[q], new[q])]
  /\ attempt' = [attempt EXCEPT
       !.score = IF total # row.score THEN total ELSE @,
       !.graded = TRUE,
       !.error = IF row.error THEN FALSE ELSE @,
       !.released = @ \/ ResultsRelease = "immediate"]
  /\ worker' = [worker EXCEPT ![w] = NoTask]
  /\ UNCHANGED <<clock, paper, lock, req, queue, crashes, lost>>

\* The exception handler: roll back, then write the reason in a new session; the message
\* is acknowledged.
GradeFail(w) ==
  /\ worker[w].step = "commit"
  /\ \A q \in Question : lock[q] = Null
  /\ InsertConflict(w)
  /\ attempt' = [attempt EXCEPT !.error = TRUE]
  /\ worker' = [worker EXCEPT ![w] = NoTask]
  /\ UNCHANGED <<clock, paper, answers, lock, req, queue, crashes, lost>>

\* A statement of the task is refused, the connection lost: the handler writes the reason,
\* unless that fails as well, or it was the read of the attempt, which nothing guards.  The
\* message is acknowledged all the same.
GradeBroken(w) ==
  /\ "database" \in Crashing
  /\ crashes < MaxCrashes
  /\ crashes' = crashes + 1
  /\ \/ /\ worker[w].step = "idle"
        /\ queue > 0
        /\ queue' = queue - 1
        /\ lost' = TRUE
        /\ UNCHANGED <<attempt, worker>>
     \/ /\ worker[w].step # "idle"
        /\ \/ attempt' = [attempt EXCEPT !.error = TRUE] /\ UNCHANGED lost
           \/ lost' = TRUE /\ UNCHANGED attempt
        /\ worker' = [worker EXCEPT ![w] = NoTask]
        /\ UNCHANGED queue
  /\ UNCHANGED <<clock, paper, answers, lock, req>>

\* Mutant: the message is acknowledged when it is received.
GradeCrashEarlyAck(w) ==
  /\ "worker" \in Crashing
  /\ worker[w].step # "idle"
  /\ crashes < MaxCrashes
  /\ crashes' = crashes + 1
  /\ worker' = [worker EXCEPT ![w] = NoTask]
  /\ UNCHANGED <<clock, paper, attempt, answers, lock, req, queue, lost>>

\* The worker process is lost: nothing was committed, the message returns.
GradeCrash(w) ==
  /\ "worker" \in Crashing
  /\ worker[w].step # "idle"
  /\ crashes < MaxCrashes
  /\ crashes' = crashes + 1
  /\ queue' = queue + 1
  /\ worker' = [worker EXCEPT ![w] = NoTask]
  /\ UNCHANGED <<clock, paper, attempt, answers, lock, req, lost>>

-----------------------------------------------------------------------------
Sitter(s) ==
  \/ StartRead(s)
  \/ StartInsert(s)
  \/ \E q \in Question, response \in Response \cup {Null} : SaveRead(s, q, response)
  \/ SavePolicy(s)
  \/ SaveLock(s)
  \/ SaveCommit(s)
  \/ SubmitRead(s)
  \/ SubmitCommit(s)
  \/ SubmitEnqueue(s)
  \/ SubmitCrash(s)

Author(s) ==
  \/ \E q \in Question : \E points \in Mark(q) : OverrideRead(s, q, points)
  \/ OverrideFlush(s)
  \/ OverrideCommit(s)
  \/ ReleaseRead(s)
  \/ ReleaseCommit(s)
  \/ VoidRead(s)
  \/ VoidCommit(s)

Grader(w) ==
  \/ GradeLoadAttempt(w)
  \/ GradeLoadAnswers(w)
  \/ GradeCommit(w)
  \/ GradeFail(w)
  \/ GradeBroken(w)
  \/ GradeCrash(w)

Next ==
  \/ Tick
  \/ ClosePaper
  \/ \E s \in Slot : Sitter(s) \/ Author(s)
  \/ \E w \in Worker : Grader(w)

Spec == Init /\ [][Next]_vars

(***************************************************************************)
(* Nobody has to start, answer, override or void; but a request that was   *)
(* accepted runs to its end, and the worker keeps consuming.  Postgres     *)
(* serves lock waiters in order, so a writer that waits for a row lock     *)
(* again and again gets it (strong fairness).                              *)
(***************************************************************************)
HandlerEnds(s) ==
  StartInsert(s) \/ SavePolicy(s) \/ SaveCommit(s) \/ SubmitCommit(s)
    \/ SubmitEnqueue(s) \/ OverrideCommit(s) \/ ReleaseCommit(s) \/ VoidCommit(s)

Fairness ==
  /\ \A s \in Slot : WF_vars(HandlerEnds(s)) /\ SF_vars(SaveLock(s) \/ OverrideFlush(s))
  /\ \A w \in Worker :
       /\ WF_vars(GradeLoadAttempt(w) \/ GradeLoadAnswers(w))
       /\ SF_vars(GradeCommit(w) \/ GradeFail(w))

FairSpec == Spec /\ Fairness

-----------------------------------------------------------------------------
(***************************************************************************)
(* Properties.                                                             *)
(***************************************************************************)
Over == attempt.status \in {"submitted", "auto_submitted", "voided"}

\* A graded attempt has a mark for every question, answered or not, whatever rows
\* existed when the task looked (workers/tasks/grading.py: "Every question is marked").
GradedIsComplete ==
  attempt.graded =>
    \A q \in Question :
      answers[q].exists /\ answers[q].points # Null /\ answers[q].grader # Null

\* One sitting per person per paper: once it exists, a second start neither restarts
\* it nor moves its deadline (services/attempts.start).
OneSitting ==
  [][attempt.status # "absent" =>
       /\ attempt'.deadline = attempt.deadline
       /\ attempt'.status \notin {"absent", "in_progress"} \/ attempt'.status = attempt.status
    ]_vars

Responses == [q \in Question |-> answers[q].response]
Admitted(steps) == {s \in Slot : req[s].step \in steps}

\* Submitting closes the answers: once the sitting is over and no save is past the
\* policies on `answers`, no response changes any more and no save gets past them.
SubmittedSeal ==
  [][Over /\ Admitted({"save.lock", "save.commit"}) = {} =>
       /\ Responses' = Responses
       /\ Admitted({"save.lock", "save.commit"})' = {}
    ]_vars

\* The deadline is the server's: once it has passed and no save admitted before it is
\* outstanding, no response changes, whether or not the paper is ever handed in.
DeadlineSeal ==
  [][Expired /\ Admitted({"save.policy", "save.lock", "save.commit"}) = {} =>
       /\ Responses' = Responses
       /\ Admitted({"save.policy", "save.lock", "save.commit"})' = {}
    ]_vars

\* Re-running the grading task keeps an override: a human's mark is only ever replaced
\* by a task that had loaded the answer before the override (services/grading.grade_answer).
HumanMarkKept ==
  [][\A q \in Question :
       answers[q].grader = "human" /\ answers'[q].grader # "human" =>
         \E w \in Worker : worker[w].step = "commit" /\ worker[w].ans[q].grader # "human"
    ]_vars

Progress ==
  CASE attempt.status = "absent" -> "absent"
    [] attempt.status = "in_progress" -> "open"
    [] OTHER -> "finished"

\* The requests, the workers and their races implement the promise of one sitting.
Promise ==
  INSTANCE Sitting WITH AutoShow <- ResultsRelease = "immediate",
                        progress <- Progress,
                        marked <- attempt.graded,
                        shown <- attempt.released
ImplementsSitting == Promise!Spec

\* A handed-in paper is marked, or says why it was not, or has been voided, unless its
\* marking is lost without a word (the API dies before it asks for it, or not even the
\* failure can be written): a message survives lost workers, marking never waits for ever on
\* a lock, and handing in once more asks for it once more.
EventuallyMarked ==
  attempt.status \in {"submitted", "auto_submitted"}
    ~> (attempt.graded \/ attempt.error \/ attempt.status = "voided" \/ lost)

\* What a handler between its steps still knows about rows that others write.
HandlerKnows(h) ==
  /\ h.step = "start.insert" =>
       h.row.status = "in_progress" /\ ~h.row.graded /\ ~h.row.released
  /\ h.step = "submit.commit" =>
       attempt.status # "absent" /\ h.row.status \in {"submitted", "auto_submitted"}
  /\ h.step = "submit.enqueue" => Over
  /\ h.step = "release.commit" => attempt.graded
  /\ h.step = "void.commit" => attempt.status # "absent"
  /\ h.step \in {"override.flush", "override.commit"} =>
       /\ h.about \in Question
       /\ h.new.points # Null /\ h.new.grader = "human"
       /\ h.old.points # Null => answers[h.about].points # Null
       /\ h.old.grader # Null => answers[h.about].grader # Null

\* What a grading task between its steps still knows.
TaskKnows(t) ==
  /\ t.step # "idle" => Over
  /\ t.step = "commit" =>
       \A q \in Question :
         /\ t.ans[q].points # Null => answers[q].points # Null
         /\ t.ans[q].grader # Null => answers[q].grader # Null
         /\ t.ans[q].grader = "human" => t.ans[q].points # Null

\* The inductive invariant: only an attempt that is over is queued, marked or graded,
\* only a graded one is released, and what a request or a task goes on from is still so.
Consistent ==
  /\ GradedIsComplete
  /\ attempt.graded => Over
  /\ attempt.released => attempt.graded
  /\ queue > 0 => Over
  /\ \A q \in Question : answers[q].grader = "human" => answers[q].points # Null
  /\ \A s \in Slot : HandlerKnows(req[s])
  /\ \A w \in Worker : TaskKnows(worker[w])

-----------------------------------------------------------------------------
(***************************************************************************)
(* What the repository says of this code and concurrent requests refute.   *)
(***************************************************************************)
\* "Mark one answer in place. Never overwrites a human's mark." (services/grading.py)
HumanMarkStands ==
  [][\A q \in Question : answers[q].grader = "human" => answers'[q].grader = "human"]_vars

=============================================================================
