-------------------------- MODULE GenerationProofs --------------------------
(***************************************************************************)
(* Theorems about Generation, for any number of overlapping requests, runs *)
(* and sweeps, every size of a paper and every bound.                      *)
(***************************************************************************)
EXTENDS Generation, Extremes, TLAPS

-----------------------------------------------------------------------------
(***************************************************************************)
(* Rows.                                                                   *)
(***************************************************************************)
LEMMA NoRows ==
  /\ NoPaper \in PaperRow
  /\ Idle \in Handler
  /\ NoTask \in Task
  /\ NoSweep \in Sweep
<1>1. NoPaper \in PaperRow
  BY DEF NoPaper, PaperRow
<1> QED
  BY <1>1 DEF Idle, Handler, NoTask, Task, NoSweep, Sweep

\* What a process keeps of a row, and what an UPDATE leaves, are rows.
LEMMA KeptType ==
  ASSUME NEW row \in PaperRow, NEW columns
  PROVE  Kept(row, columns) \in PaperRow
BY DEF Kept, PaperRow, NoPaper

LEMMA UpdatedType ==
  ASSUME NEW row \in PaperRow, NEW loaded \in PaperRow, NEW new \in PaperRow
  PROVE  Updated(row, loaded, new) \in PaperRow
BY DEF Updated, PaperRow

LEMMA DraftedType ==
  ASSUME nextId \in Nat, NEW n \in Nat
  PROVE  Drafted(n) \subseteq Question
BY DEF Drafted, Question

-----------------------------------------------------------------------------
(***************************************************************************)
(* The questions: each has an id and a place of its own, the generated     *)
(* ones are one run's, and something is in the first place then.  A run    *)
(* that is about to replace them knows ids given out; a generated question *)
(* its DELETE did not find stands before every question it found, so it is *)
(* in the way of the new ones.                                             *)
(***************************************************************************)
Numbered ==
  /\ \A q \in questions : q.id < nextId
  /\ \A q, r \in questions : q.id = r.id => q = r
  /\ \A q, r \in questions : q.index = r.index => q = r

Generated == {q \in questions : q.by # Null}

OneRun ==
  /\ \A q, r \in Generated : q.by = r.by
  /\ Generated # {} => \E z \in questions : z.index = 0

SwapKnows(t) ==
  t.step = "swap" =>
    /\ \A id \in t.sees : id < nextId
    /\ \A q \in Generated, x \in questions :
         q.id \notin t.sees /\ x.id \in t.sees => q.index < x.index

Whole == Numbered /\ OneRun /\ \A w \in Run : SwapKnows(run[w])

\* What a request between its steps knows: a place that was free, a published paper.
Loaded ==
  \A s \in Slot :
    /\ req[s].step = "write.commit" => req[s].about # Null
    /\ req[s].step = "close.commit" => req[s].row = [NoPaper EXCEPT !.status = "published"]

\* The questions of a paper, and their places, are finitely many.
LEMMA FiniteQuestions ==
  ASSUME TypeOK, Numbered
  PROVE  IsFiniteSet(questions) /\ IsFiniteSet(Indexes) /\ Indexes \subseteq Nat
<1> DEFINE f == [q \in questions |-> q.id]
           g == [q \in questions |-> q.index]
<1>1. f \in Injection(questions, 0..(nextId - 1))
  <2>1. \A q \in questions : q.id \in 0..(nextId - 1)
    BY DEF TypeOK, Numbered, Question
  <2> QED
    BY <2>1 DEF Numbered, Injection, IsInjective
<1>2. IsFiniteSet(0..(nextId - 1))
  BY FS_Interval DEF TypeOK
<1>3. IsFiniteSet(questions)
  <2> HIDE DEF f
  <2> QED
    BY <1>1, <1>2, FS_Injection
<1>4. g \in Surjection(questions, Indexes)
  BY DEF Surjection, Indexes
<1>5. IsFiniteSet(Indexes)
  <2> HIDE DEF g
  <2> QED
    BY <1>3, <1>4, FS_Surjection
<1> QED
  BY <1>3, <1>5 DEF TypeOK, Indexes, Question

\* The place after the last.
LEMMA NextPlace ==
  ASSUME TypeOK, Numbered
  PROVE  Max(Indexes \cup {-1}) + 1 \in Nat
<1>1. IsFiniteSet(Indexes \cup {-1})
  BY FiniteQuestions, FS_AddElement
<1>2. Indexes \cup {-1} \subseteq Int /\ Indexes \cup {-1} # {}
  BY FiniteQuestions
<1>3. Max(Indexes \cup {-1}) \in Indexes \cup {-1}
  BY <1>1, <1>2, MaxIs
<1> QED
  BY <1>3, FiniteQuestions

-----------------------------------------------------------------------------
(***************************************************************************)
(* Renumbering: the place of a question is the number of those before it.  *)
(***************************************************************************)
Rank(q, rows) == Cardinality({r \in rows : r.index < q.index})

\* Renumbering keeps the order, and puts something in the first place.
LEMMA RankFacts ==
  ASSUME NEW rows, rows \subseteq Question, IsFiniteSet(rows)
  PROVE  /\ \A q \in rows : Rank(q, rows) \in Nat
         /\ \A q, r \in rows : q.index < r.index => Rank(q, rows) < Rank(r, rows)
         /\ rows # {} => \E q \in rows : Rank(q, rows) = 0
<1> DEFINE Before(q) == {r \in rows : r.index < q.index}
<1>0. \A q \in rows : q.index \in Nat
  BY DEF Question
<1>1. ASSUME NEW q \in rows
      PROVE  Before(q) \subseteq rows /\ IsFiniteSet(Before(q)) /\ Cardinality(Before(q)) \in Nat
  <2>1. Before(q) \subseteq rows
    OBVIOUS
  <2>2. IsFiniteSet(Before(q))
    <3> HIDE DEF Before
    <3> QED
      BY <2>1, FS_Subset
  <2> QED
    BY <2>1, <2>2, FS_CardinalityType
<1>2. ASSUME NEW q \in rows, NEW r \in rows, q.index < r.index
      PROVE  Cardinality(Before(q)) < Cardinality(Before(r))
  <2>1. Before(q) \subseteq Before(r)
    BY <1>0, <1>2
  <2>2. q \in Before(r) /\ q \notin Before(q)
    BY <1>0, <1>2
  <2>3. Cardinality(Before(q)) <= Cardinality(Before(r)) /\ Cardinality(Before(q)) # Cardinality(Before(r))
    <3> HIDE DEF Before
    <3> QED
      BY <1>1, <2>1, <2>2, FS_Subset
  <2>4. Cardinality(Before(q)) \in Nat /\ Cardinality(Before(r)) \in Nat
    BY <1>1
  <2> HIDE DEF Before
  <2> QED
    BY <2>3, <2>4
<1>3. ASSUME rows # {}
      PROVE  \E q \in rows : Cardinality(Before(q)) = 0
  <2> DEFINE P == {q.index : q \in rows}
             f == [q \in rows |-> q.index]
  <2>1. f \in Surjection(rows, P)
    BY DEF Surjection
  <2>2. P \subseteq Int /\ P # {}
    BY <1>0, <1>3
  <2>3. IsFiniteSet(P)
    <3> HIDE DEF P, f
    <3> QED
      BY <2>1, FS_Surjection
  <2>4. \E p \in P : \A o \in P : p <= o
    <3> HIDE DEF P
    <3> QED
      BY <2>2, <2>3, SmallestExists
  <2>5. PICK q \in rows : \A r \in rows : q.index <= r.index
    BY <2>4
  <2>6. Before(q) = {}
    BY <1>0, <2>5
  <2> QED
    BY <2>6, FS_EmptySet
<1> QED
  BY <1>1, <1>2, <1>3 DEF Rank

LEMMA RenumberedIs ==
  ASSUME NEW rows
  PROVE  Renumbered(rows) = {[q EXCEPT !.index = Rank(q, rows)] : q \in rows}
BY DEF Renumbered, Rank

-----------------------------------------------------------------------------
(***************************************************************************)
(* Types.                                                                  *)
(***************************************************************************)
LEMMA CreatesType ==
  ASSUME TypeOK, NEW s \in Slot, Creates(s)
  PROVE  TypeOK'
<1> USE NoRows DEF TypeOK
<1>1. \A step \in {"create.enqueue", "idle"} : [req[s] EXCEPT !.step = step] \in Handler
  BY DEF Handler
<1>2. [NoPaper EXCEPT !.status = "generating"] \in PaperRow
  BY DEF PaperRow
<1>3. CASE Create(s)
  BY <1>1, <1>2, <1>3, SizesAssumption DEF Create, Writes, TaskVars
<1>4. CASE CreateEnqueue(s)
  BY <1>4 DEF CreateEnqueue, Done
<1>5. CASE CreateLost(s)
  BY <1>5, BoundsAssumption DEF CreateLost, Done, Kill, TaskVars
<1> QED
  BY <1>3, <1>4, <1>5 DEF Creates

LEMMA AuthorsType ==
  ASSUME TypeOK, Numbered, Loaded, NEW s \in Slot, Authors(s)
  PROVE  TypeOK'
<1> USE NoRows DEF TypeOK
<1> DEFINE Steps == {"update.commit", "write.look", "edit.look", "delete.look",
                     "publish.look", "close.commit"}
<1>1. ASSUME NEW kind, NEW status, NEW step \in Steps, NEW columns,
             Load(s, kind, status, step, columns)
      PROVE  TypeOK'
  <2>1. Kept(paper, columns) \in PaperRow
    BY KeptType
  <2>2. [Idle EXCEPT !.step = step, !.row = Kept(paper, columns)] \in Handler
    BY <2>1 DEF Idle, Handler
  <2> QED
    BY <1>1, <2>2 DEF Load, TaskVars
<1>2. CASE EditableLoad(s) \/ PublishLoad(s) \/ CloseLoad(s)
  BY <1>1, <1>2 DEF EditableLoad, Changes, PublishLoad, CloseLoad
<1>3. ASSUME NEW from, NEW to \in {"write.commit", "edit.commit", "delete.commit", "publish.commit"},
             NEW about \in Nat, Look(s, from, to, about)
      PROVE  TypeOK'
  <2>1. [req[s] EXCEPT !.step = to, !.about = about] \in Handler
    BY DEF Handler
  <2> QED
    BY <1>3, <2>1 DEF Look, TaskVars
<1>4. CASE WriteLook(s)
  BY <1>3, <1>4, NextPlace DEF WriteLook
<1>5. CASE ChangeLook(s)
  <2>1. Ids \subseteq Nat
    BY DEF Ids, Question
  <2> QED
    BY <1>3, <1>5, <2>1 DEF ChangeLook
<1>6. CASE PublishLook(s)
  <2>1. Cardinality(questions) \in Nat
    BY FiniteQuestions, FS_CardinalityType
  <2> QED
    BY <1>3, <1>6, <2>1 DEF PublishLook
<1>7. CASE Refused(s)
  BY <1>7 DEF Refused, Done, TaskVars
<1>8. req[s].row \in PaperRow /\ req[s].about \in Nat \cup {Null}
  BY DEF Handler
<1>9. ASSUME NEW row \in PaperRow, Writes(row)
      PROVE  paper' \in PaperRow /\ age' \in 0..(Stale + 1)
  BY <1>9, SizesAssumption DEF Writes
<1>10. CASE UpdateCommit(s)
  <2>1. [req[s].row EXCEPT !.window = ~@] \in PaperRow
    BY <1>8 DEF PaperRow
  <2>2. Updated(paper, req[s].row, [req[s].row EXCEPT !.window = ~@]) \in PaperRow
    BY <1>8, <2>1, UpdatedType
  <2>3. paper' \in PaperRow /\ age' \in 0..(Stale + 1)
    BY <1>9, <1>10, <2>2 DEF UpdateCommit
  <2> QED
    BY <1>10, <2>3 DEF UpdateCommit, Done, TaskVars
<1>11. CASE WriteCommit(s)
  <2>1. CASE req[s].about \in Indexes
    BY <1>11, <2>1 DEF WriteCommit, Done, TaskVars
  <2>2. CASE req[s].about \notin Indexes
    <3>1. [id |-> nextId, index |-> req[s].about, by |-> Null] \in Question
      BY <1>8, <1>11 DEF Question, WriteCommit, Loaded
    <3> QED
      BY <1>11, <2>2, <3>1 DEF WriteCommit, Done, TaskVars
  <2> QED
    BY <2>1, <2>2
<1>12. CASE EditCommit(s)
  <2>1. \A q \in questions : [q EXCEPT !.by = Null] \in Question
    BY DEF Question
  <2>2. questions' \subseteq Question
    BY <1>12, <2>1 DEF EditCommit
  <2> QED
    BY <1>12, <2>2 DEF EditCommit, Done, TaskVars
<1>13. CASE DeleteCommit(s)
  <2> DEFINE rows == {q \in questions : q.id # req[s].about}
  <2>1. rows \subseteq Question /\ IsFiniteSet(rows)
    BY FiniteQuestions, FS_Subset
  <2>2. \A q \in rows : Rank(q, rows) \in Nat
    BY <2>1, RankFacts
  <2>3. \A q \in rows : [q EXCEPT !.index = Rank(q, rows)] \in Question
    BY <2>1, <2>2 DEF Question
  <2>4. questions' \subseteq Question
    BY <1>13, <2>3, RenumberedIs DEF DeleteCommit
  <2> QED
    BY <1>13, <2>4 DEF DeleteCommit, Done, TaskVars
<1>14. CASE PublishCommit(s)
  <2> DEFINE new == [req[s].row EXCEPT !.status = "published", !.score = req[s].about,
                                       !.token = paper.token + 1]
  <2>1. new \in PaperRow
    <3>1. paper.token + 1 \in Nat
      BY DEF PaperRow
    <3> QED
      BY <1>8, <3>1 DEF PaperRow
  <2>2. Updated(paper, req[s].row, new) \in PaperRow
    BY <1>8, <2>1, UpdatedType
  <2>3. paper' \in PaperRow /\ age' \in 0..(Stale + 1)
    BY <1>9, <1>14, <2>2 DEF PublishCommit
  <2> QED
    BY <1>14, <2>3 DEF PublishCommit, Done, TaskVars
<1>15. CASE CloseCommit(s)
  <2>1. [req[s].row EXCEPT !.status = "closed"] \in PaperRow
    BY <1>8 DEF PaperRow
  <2>2. Updated(paper, req[s].row, [req[s].row EXCEPT !.status = "closed"]) \in PaperRow
    BY <1>8, <2>1, UpdatedType
  <2>3. paper' \in PaperRow /\ age' \in 0..(Stale + 1)
    BY <1>9, <1>15, <2>2 DEF CloseCommit
  <2> QED
    BY <1>15, <2>3 DEF CloseCommit, Done, TaskVars
<1> QED
  BY <1>2, <1>4, <1>5, <1>6, <1>7, <1>10, <1>11, <1>12, <1>13, <1>14, <1>15 DEF Authors

LEMMA WorksType ==
  ASSUME TypeOK, NEW w \in Run, Works(w)
  PROVE  TypeOK'
<1> USE NoRows DEF TypeOK
<1>1. run[w].row \in PaperRow /\ run[w] \in Task
  BY DEF Task
<1>2. ASSUME NEW row \in PaperRow, Writes(row)
      PROVE  paper' \in PaperRow /\ age' \in 0..(Stale + 1)
  BY <1>2, SizesAssumption DEF Writes
<1>3. CASE RunLoad(w)
  <2>1. Kept(paper, {"status", "error"}) \in PaperRow
    BY KeptType
  <2>2. [NoTask EXCEPT !.step = "write", !.row = Kept(paper, {"status", "error"})] \in Task
    BY <2>1 DEF NoTask, Task
  <2>3. queue' \in Nat
    BY <1>3 DEF RunLoad
  <2> QED
    BY <1>3, <2>2, <2>3 DEF RunLoad, AuthorVars
<1>4. CASE RunCheckpoint(w)
  <2>1. [paper EXCEPT !.trace = "live"] \in PaperRow
    BY DEF PaperRow
  <2>2. paper' \in PaperRow /\ age' \in 0..(Stale + 1)
    BY <1>2, <1>4, <2>1 DEF RunCheckpoint
  <2> QED
    BY <1>4, <2>2 DEF RunCheckpoint, AuthorVars, TaskVars
<1>5. CASE RunSwap(w)
  <2>1. Ids \subseteq Nat
    BY DEF Ids, Question
  <2>2. [run[w] EXCEPT !.step = "swap", !.sees = Ids] \in Task
    BY <1>1, <2>1 DEF Task
  <2> QED
    BY <1>5, <2>2 DEF RunSwap, AuthorVars
<1>6. CASE RunCommit(w)
  <2>1. Finished(run[w].row) \in PaperRow
    BY <1>1 DEF Finished, PaperRow
  <2>2. Updated(paper, run[w].row, Finished(run[w].row)) \in PaperRow
    BY <1>1, <2>1, UpdatedType
  <2>3. [Updated(paper, run[w].row, Finished(run[w].row)) EXCEPT !.trace = "finished"] \in PaperRow
    BY <2>2 DEF PaperRow
  <2>4. paper' \in PaperRow /\ age' \in 0..(Stale + 1)
    BY <1>2, <1>6, <2>3 DEF RunCommit
  <2>5. PICK n \in Sizes : /\ questions' = {q \in questions : q.id \notin run[w].sees} \cup Drafted(n)
                           /\ nextId' = nextId + n
    BY <1>6 DEF RunCommit
  <2>6. questions' \subseteq Question /\ nextId' \in Nat
    BY <2>5, DraftedType, SizesAssumption
  <2> QED
    BY <1>6, <2>4, <2>6 DEF RunCommit
<1>7. ASSUME NEW told \in BOOLEAN, Fails(w, told)
      PROVE  TypeOK'
  <2>1. [NoTask EXCEPT !.step = "fail.load", !.told = told] \in Task
    BY DEF NoTask, Task
  <2> QED
    BY <1>7, <2>1 DEF Fails, AuthorVars
<1>8. CASE RunConflict(w) \/ RunFail(w)
  BY <1>7, <1>8 DEF RunConflict, RunFail
<1>9. CASE FailLoad(w)
  <2>1. Kept(paper, {"status", "error", "trace"}) \in PaperRow
    BY KeptType
  <2>2. [run[w] EXCEPT !.step = "fail.commit", !.row = Kept(paper, {"status", "error", "trace"})] \in Task
    BY <1>1, <2>1 DEF Task
  <2> QED
    BY <1>9, <2>2 DEF FailLoad, AuthorVars
<1>10. CASE FailCommit(w)
  <2> DEFINE new == [run[w].row EXCEPT !.status = "draft", !.error = "failed",
                                       !.trace = IF run[w].told THEN "finished" ELSE @]
  <2>1. new \in PaperRow
    BY <1>1 DEF PaperRow
  <2>2. Updated(paper, run[w].row, new) \in PaperRow
    BY <1>1, <2>1, UpdatedType
  <2>3. paper' \in PaperRow /\ age' \in 0..(Stale + 1)
    BY <1>2, <1>10, <2>2 DEF FailCommit
  <2> QED
    BY <1>10, <2>3 DEF FailCommit, AuthorVars
<1>11. CASE FailUnrecorded(w)
  BY <1>11 DEF FailUnrecorded, AuthorVars
<1>12. CASE RunLost(w)
  BY <1>12, BoundsAssumption DEF RunLost, Kill, AuthorVars
<1> QED
  BY <1>3, <1>4, <1>5, <1>6, <1>8, <1>9, <1>10, <1>11, <1>12 DEF Works

LEMMA SweepsType ==
  ASSUME TypeOK, NEW w \in Sweeper, Sweeps(w)
  PROVE  TypeOK'
<1> USE NoRows DEF TypeOK
<1>1. sweep[w].row \in PaperRow
  BY DEF Sweep
<1>2. CASE SweepLoad(w)
  <2>1. [step |-> "release", row |-> Kept(paper, {"status", "error", "trace"})] \in Sweep
    BY KeptType DEF Sweep
  <2> QED
    BY <1>2, <2>1 DEF SweepLoad, AuthorVars, TaskVars
<1>3. CASE SweepRelease(w)
  <2>1. Released(sweep[w].row) \in PaperRow
    BY <1>1 DEF Released, PaperRow
  <2>2. Updated(paper, sweep[w].row, Released(sweep[w].row)) \in PaperRow
    BY <1>1, <2>1, UpdatedType
  <2> QED
    BY <1>3, <2>2, SizesAssumption DEF SweepRelease, Writes, AuthorVars, TaskVars
<1>4. CASE SweepLost(w)
  BY <1>4, BoundsAssumption DEF SweepLost, Kill, AuthorVars, TaskVars
<1> QED
  BY <1>2, <1>3, <1>4 DEF Sweeps

\* Every step keeps every row, request, task and counter of its type.
LEMMA NextType ==
  ASSUME TypeOK, Numbered, Loaded, [Next]_vars
  PROVE  TypeOK'
<1>1. CASE Tick
  BY <1>1, SizesAssumption DEF Tick, TypeOK, AuthorVars, TaskVars
<1>2. CASE Redeliver
  BY <1>2, BoundsAssumption DEF Redeliver, TypeOK, AuthorVars
<1>3. CASE UNCHANGED vars
  BY <1>3 DEF vars, TypeOK
<1> QED
  BY <1>1, <1>2, <1>3, CreatesType, AuthorsType, WorksType, SweepsType DEF Next

-----------------------------------------------------------------------------
(***************************************************************************)
(* What requests know.                                                     *)
(***************************************************************************)
LEMMA NextLoaded ==
  ASSUME TypeOK, Numbered, Loaded, [Next]_vars
  PROVE  Loaded'
<1>1. ASSUME NEW s \in Slot, NEW h,
             req' = [req EXCEPT ![s] = h],
             h.step = "write.commit" => h.about # Null,
             h.step = "close.commit" => h.row = [NoPaper EXCEPT !.status = "published"]
      PROVE  Loaded'
  BY <1>1 DEF Loaded, TypeOK
<1>2. CASE UNCHANGED req
  BY <1>2 DEF Loaded
<1>3. ASSUME NEW s \in Slot, Done(s)
      PROVE  Loaded'
  BY <1>1, <1>3 DEF Done, Idle
<1>4. ASSUME NEW s \in Slot, Create(s)
      PROVE  Loaded'
  <2>1. req' = [req EXCEPT ![s] = [req[s] EXCEPT !.step = "create.enqueue"]]
    BY <1>4 DEF Create
  <2>2. [req[s] EXCEPT !.step = "create.enqueue"].step = "create.enqueue"
    BY DEF TypeOK, Handler
  <2> QED
    BY <1>1, <2>1, <2>2
<1>5. ASSUME NEW s \in Slot, NEW kind, NEW status, NEW step, NEW columns,
             Load(s, kind, status, step, columns), step # "write.commit",
             step = "close.commit" => status = "published" /\ columns = {"status"}
      PROVE  Loaded'
  <2> DEFINE h == [Idle EXCEPT !.step = step, !.row = Kept(paper, columns)]
  <2>1. h.step = step /\ h.row = Kept(paper, columns)
    BY DEF Idle
  <2>2. paper.status = "published" => Kept(paper, {"status"}) = [NoPaper EXCEPT !.status = "published"]
    BY DEF Kept, NoPaper, TypeOK, PaperRow
  <2>3. req' = [req EXCEPT ![s] = h] /\ paper.status = status
    BY <1>5 DEF Load
  <2> HIDE DEF h
  <2> QED
    BY <1>1, <1>5, <2>1, <2>2, <2>3
<1>6. ASSUME NEW s \in Slot, NEW from, NEW to, NEW about,
             Look(s, from, to, about), to # "close.commit",
             to = "write.commit" => about # Null
      PROVE  Loaded'
  <2> DEFINE h == [req[s] EXCEPT !.step = to, !.about = about]
  <2>1. h.step = to /\ h.about = about
    BY DEF TypeOK, Handler
  <2>2. req' = [req EXCEPT ![s] = h]
    BY <1>6 DEF Look
  <2> HIDE DEF h
  <2> QED
    BY <1>1, <1>6, <2>1, <2>2
<1>7. ASSUME NEW s \in Slot, Creates(s)
      PROVE  Loaded'
  BY <1>3, <1>4, <1>7 DEF Creates, CreateEnqueue, CreateLost
<1>8. ASSUME NEW s \in Slot, EditableLoad(s) \/ PublishLoad(s) \/ CloseLoad(s)
      PROVE  Loaded'
  BY <1>5, <1>8 DEF EditableLoad, Changes, PublishLoad, CloseLoad
<1>9. ASSUME NEW s \in Slot, WriteLook(s) \/ ChangeLook(s) \/ PublishLook(s)
      PROVE  Loaded'
  <2>1. Max(Indexes \cup {-1}) + 1 # Null
    BY NextPlace, NullAssumption
  <2> QED
    BY <1>6, <1>9, <2>1 DEF WriteLook, ChangeLook, PublishLook
<1>10. ASSUME NEW s \in Slot, Authors(s)
       PROVE  Loaded'
  BY <1>3, <1>8, <1>9, <1>10 DEF Authors, Refused, UpdateCommit, WriteCommit, EditCommit,
     DeleteCommit, PublishCommit, CloseCommit
<1>11. ASSUME NEW w \in Run, Works(w)
       PROVE  UNCHANGED req
  BY <1>11 DEF Works, RunLoad, RunCheckpoint, RunSwap, RunCommit, RunConflict, RunFail, Fails,
     FailLoad, FailCommit, FailUnrecorded, RunLost, AuthorVars
<1>12. ASSUME NEW w \in Sweeper, Sweeps(w)
       PROVE  UNCHANGED req
  BY <1>12 DEF Sweeps, SweepLoad, SweepRelease, SweepLost, AuthorVars
<1>13. CASE Tick \/ Redeliver \/ UNCHANGED vars
  BY <1>2, <1>13 DEF Tick, Redeliver, vars, AuthorVars
<1> QED
  BY <1>2, <1>7, <1>10, <1>11, <1>12, <1>13 DEF Next

-----------------------------------------------------------------------------
(***************************************************************************)
(* The questions stay whole.                                               *)
(***************************************************************************)
\* A step that leaves the questions alone, and lets no run look for what to delete.
LEMMA QuietWhole ==
  ASSUME Whole, UNCHANGED <<questions, nextId>>,
         \A w \in Run : run'[w].step = "swap" => run'[w] = run[w]
  PROVE  Whole'
BY DEF Whole, Numbered, OneRun, Generated, SwapKnows

LEMMA SwapWhole ==
  ASSUME TypeOK, Whole, NEW w \in Run, RunSwap(w)
  PROVE  Whole'
<1>1. UNCHANGED <<questions, nextId>>
  BY DEF RunSwap, AuthorVars
<1>2. Numbered' /\ OneRun'
  BY <1>1 DEF Whole, Numbered, OneRun, Generated
<1>3. \A v \in Run \ {w} : run'[v] = run[v]
  BY DEF RunSwap, TypeOK
<1>4. run'[w].sees = Ids
  BY DEF RunSwap, TypeOK, Task
<1>5. SwapKnows(run[w])'
  BY <1>1, <1>4 DEF SwapKnows, Ids, Whole, Numbered, Generated
<1>6. \A v \in Run : SwapKnows(run[v])'
  BY <1>1, <1>3, <1>5 DEF SwapKnows, Whole, Generated
<1> QED
  BY <1>2, <1>6 DEF Whole

\* The author writes a question, in a place that is free.
LEMMA WriteWhole ==
  ASSUME TypeOK, Loaded, Whole, NEW s \in Slot, WriteCommit(s)
  PROVE  Whole'
<1>1. UNCHANGED run
  BY DEF WriteCommit, TaskVars
<1>2. CASE UNCHANGED <<questions, nextId>>
  BY <1>1, <1>2, QuietWhole
<1>3. CASE req[s].about \notin Indexes
  <2> DEFINE new == [id |-> nextId, index |-> req[s].about, by |-> Null]
  <2>1. questions' = questions \cup {new} /\ nextId' = nextId + 1
    BY <1>3 DEF WriteCommit
  <2>2. \A q \in questions : q.id \in Nat /\ q.id < nextId /\ q.index # new.index
    BY <1>3 DEF Whole, Numbered, Indexes, TypeOK, Question
  <2>3. new.id = nextId /\ new.by = Null /\ nextId \in Nat
    BY DEF TypeOK
  <2> HIDE DEF new
  <2>4. Numbered'
    BY <2>1, <2>2, <2>3 DEF Whole, Numbered
  <2>5. Generated' = Generated
    BY <2>1, <2>3 DEF Generated
  <2>6. OneRun'
    BY <2>1, <2>5 DEF Whole, OneRun
  <2>7. ASSUME NEW w \in Run, run[w].step = "swap"
        PROVE  SwapKnows(run[w])'
    <3>1. \A id \in run[w].sees : id \in Nat /\ id < nextId
      BY <2>7 DEF Whole, SwapKnows, TypeOK, Task
    <3>2. new.id \notin run[w].sees
      BY <2>3, <3>1
    <3> QED
      BY <1>1, <2>1, <2>3, <2>5, <2>7, <3>1, <3>2 DEF Whole, SwapKnows
  <2>8. \A w \in Run : SwapKnows(run[w])'
    BY <1>1, <2>7 DEF SwapKnows
  <2> QED
    BY <2>4, <2>6, <2>8 DEF Whole
<1> QED
  BY <1>2, <1>3 DEF WriteCommit

\* An edit makes a question the author's, where it stands.
LEMMA EditWhole ==
  ASSUME TypeOK, Whole, NEW s \in Slot, EditCommit(s)
  PROVE  Whole'
<1> DEFINE E(q) == IF q.id = req[s].about THEN [q EXCEPT !.by = Null] ELSE q
<1>1. UNCHANGED <<run, nextId>> /\ questions' = {E(q) : q \in questions}
  BY DEF EditCommit, TaskVars
<1>2. \A q \in questions : E(q).id = q.id /\ E(q).index = q.index /\ E(q).by \in {q.by, Null}
  BY DEF TypeOK, Question
<1> HIDE DEF E
<1>3. Numbered'
  BY <1>1, <1>2 DEF Whole, Numbered
<1>4. \A q \in Generated' : \E r \in Generated : q.id = r.id /\ q.index = r.index /\ q.by = r.by
  BY <1>1, <1>2 DEF Generated
<1>5. OneRun'
  BY <1>1, <1>2, <1>4 DEF Whole, OneRun
<1>6. \A w \in Run : SwapKnows(run[w])'
  BY <1>1, <1>2, <1>4 DEF Whole, SwapKnows
<1> QED
  BY <1>3, <1>5, <1>6 DEF Whole

\* A deletion keeps the others in order.
LEMMA DeleteWhole ==
  ASSUME TypeOK, Whole, NEW s \in Slot, DeleteCommit(s)
  PROVE  Whole'
<1> DEFINE rows == {q \in questions : q.id # req[s].about}
           E(q) == [q EXCEPT !.index = Rank(q, rows)]
<1>1. UNCHANGED <<run, nextId>> /\ questions' = {E(q) : q \in rows}
  BY RenumberedIs DEF DeleteCommit, TaskVars
<1>2. \A q \in rows : E(q).id = q.id /\ E(q).index = Rank(q, rows) /\ E(q).by = q.by
  BY DEF TypeOK, Question
<1>3. rows \subseteq questions /\ rows \subseteq Question /\ IsFiniteSet(rows)
  BY FiniteQuestions, FS_Subset DEF TypeOK, Whole
<1> HIDE DEF E, rows
<1>4. /\ \A q \in rows : Rank(q, rows) \in Nat /\ q.index \in Nat
      /\ \A q, r \in rows : q.index < r.index => Rank(q, rows) < Rank(r, rows)
      /\ rows # {} => \E q \in rows : Rank(q, rows) = 0
  BY <1>3, RankFacts DEF Question
<1>5. \A q, r \in rows : Rank(q, rows) = Rank(r, rows) => q = r
  <2> SUFFICES ASSUME NEW q \in rows, NEW r \in rows, Rank(q, rows) = Rank(r, rows)
               PROVE  q = r
    OBVIOUS
  <2>1. ~(q.index < r.index) /\ ~(r.index < q.index)
    BY <1>4
  <2>2. q.index = r.index
    BY <1>4, <2>1
  <2> QED
    BY <1>3, <2>2 DEF Whole, Numbered
<1>6. Numbered'
  BY <1>1, <1>2, <1>3, <1>5 DEF Whole, Numbered
<1>7. \A q \in Generated' : \E r \in Generated \cap rows : q = E(r)
  BY <1>1, <1>2, <1>3 DEF Generated
<1>8. OneRun'
  <2>1. \A q, r \in Generated' : q.by = r.by
    BY <1>2, <1>7 DEF Whole, OneRun
  <2>2. Generated' # {} => \E z \in questions' : z.index = 0
    BY <1>1, <1>2, <1>4, <1>7
  <2> QED
    BY <2>1, <2>2 DEF OneRun
<1>9. ASSUME NEW w \in Run, run[w].step = "swap"
      PROVE  SwapKnows(run[w])'
  <2>1. ASSUME NEW q \in Generated', NEW x \in questions',
               q.id \notin run[w].sees, x.id \in run[w].sees
        PROVE  q.index < x.index
    <3>1. PICK a \in Generated \cap rows : q = E(a)
      BY <1>7
    <3>2. PICK b \in rows : x = E(b)
      BY <1>1
    <3>3. a.index < b.index
      BY <1>2, <1>3, <1>9, <2>1, <3>1, <3>2 DEF Whole, SwapKnows
    <3> QED
      BY <1>2, <1>4, <3>1, <3>2, <3>3
  <2> QED
    BY <1>1, <1>9, <2>1 DEF Whole, SwapKnows
<1>10. \A w \in Run : SwapKnows(run[w])'
  BY <1>1, <1>9 DEF SwapKnows
<1> QED
  BY <1>6, <1>8, <1>10 DEF Whole

\* A run commits: what its DELETE did not find stays, and no generated question is among
\* it, for one would stand before what was found, and the first place would be taken.
LEMMA CommitWhole ==
  ASSUME TypeOK, Whole, NEW w \in Run, RunCommit(w)
  PROVE  Whole'
<1> DEFINE kept == {q \in questions : q.id \notin run[w].sees}
<1>1. PICK n \in Sizes : /\ \A q \in kept : q.index >= n
                         /\ questions' = kept \cup Drafted(n)
                         /\ nextId' = nextId + n
  BY DEF RunCommit
<1>2. n \in Nat /\ n > 0 /\ nextId \in Nat
  BY SizesAssumption DEF TypeOK
<1>3. \A q \in questions : q.id \in Nat /\ q.index \in Nat /\ q.id < nextId
  BY DEF TypeOK, Question, Whole, Numbered
<1>4. \A q \in kept : q.by = Null
  <2> SUFFICES ASSUME NEW q \in kept, q.by # Null PROVE FALSE
    OBVIOUS
  <2>1. q \in Generated
    BY DEF Generated
  <2>2. PICK z \in questions : z.index = 0
    BY <2>1 DEF Whole, OneRun
  <2>3. z.id \in run[w].sees
    BY <1>1, <1>2, <2>2
  <2>4. q.index < z.index
    BY <2>1, <2>3 DEF Whole, SwapKnows, RunCommit
  <2> QED
    BY <1>3, <2>2, <2>4
<1>5. /\ \A q \in Drafted(n) : /\ q.id \in nextId..(nextId + n - 1)
                               /\ q.index \in 0..(n - 1)
                               /\ q.by = nextId
                               /\ q.id = nextId + q.index
      /\ \A q, r \in Drafted(n) : q.index = r.index => q = r
      /\ \E z \in Drafted(n) : z.index = 0
  <2>1. \A q \in Drafted(n) : \E i \in 0..(n - 1) : q = [id |-> nextId + i, index |-> i, by |-> nextId]
    BY DEF Drafted
  <2>2. [id |-> nextId + 0, index |-> 0, by |-> nextId] \in Drafted(n)
    BY <1>2 DEF Drafted
  <2> QED
    BY <1>2, <2>1, <2>2
<1>6. Numbered'
  <2>1. \A q \in questions' : q.id < nextId'
    BY <1>1, <1>2, <1>3, <1>5
  <2>2. \A q \in kept, r \in Drafted(n) : q.id # r.id /\ q.index # r.index
    BY <1>1, <1>2, <1>3, <1>5
  <2>3. \A q, r \in kept : (q.id = r.id => q = r) /\ (q.index = r.index => q = r)
    BY DEF Whole, Numbered
  <2>4. \A q, r \in Drafted(n) : (q.id = r.id => q = r) /\ (q.index = r.index => q = r)
    BY <1>2, <1>5
  <2> HIDE DEF kept
  <2> QED
    BY <1>1, <2>1, <2>2, <2>3, <2>4 DEF Numbered
<1>7. Generated' = Drafted(n)
  <2>1. nextId # Null
    BY <1>2, NullAssumption
  <2> QED
    BY <1>1, <1>4, <1>5, <2>1 DEF Generated
<1>8. OneRun'
  BY <1>1, <1>5, <1>7 DEF OneRun
<1>9. run' = [run EXCEPT ![w] = NoTask]
  BY DEF RunCommit
<1>10. ASSUME NEW v \in Run, run'[v].step = "swap"
       PROVE  SwapKnows(run[v])'
  <2>1. run'[v] = run[v]
    BY <1>9, <1>10 DEF TypeOK, NoTask
  <2>2. \A id \in run[v].sees : id \in Nat /\ id < nextId
    BY <1>10, <2>1 DEF Whole, SwapKnows, TypeOK, Task
  <2>3. \A x \in questions' : x.id \in run[v].sees => x \in kept
    BY <1>1, <1>2, <1>5, <2>2
  <2>4. \A q \in Drafted(n), x \in kept : q.index < x.index
    BY <1>1, <1>2, <1>3, <1>5
  <2> QED
    BY <1>1, <1>2, <1>7, <2>1, <2>2, <2>3, <2>4 DEF SwapKnows
<1>11. \A v \in Run : SwapKnows(run[v])'
  BY <1>10 DEF SwapKnows
<1> QED
  BY <1>6, <1>8, <1>11 DEF Whole

LEMMA NextWhole ==
  ASSUME TypeOK, Loaded, Whole, [Next]_vars
  PROVE  Whole'
<1>1. ASSUME UNCHANGED <<questions, nextId, run>>
      PROVE  Whole'
  BY <1>1, QuietWhole
<1>2. ASSUME NEW s \in Slot, Creates(s)
      PROVE  Whole'
  BY <1>1, <1>2 DEF Creates, Create, CreateEnqueue, CreateLost, TaskVars
<1>3. ASSUME NEW s \in Slot, Authors(s)
      PROVE  Whole'
  <2>1. CASE EditableLoad(s) \/ PublishLoad(s) \/ CloseLoad(s)
    BY <1>1, <2>1 DEF EditableLoad, Changes, PublishLoad, CloseLoad, Load, TaskVars
  <2>2. CASE WriteLook(s) \/ ChangeLook(s) \/ PublishLook(s) \/ Refused(s)
    BY <1>1, <2>2 DEF WriteLook, ChangeLook, PublishLook, Look, Refused, TaskVars
  <2>3. CASE UpdateCommit(s) \/ PublishCommit(s) \/ CloseCommit(s)
    BY <1>1, <2>3 DEF UpdateCommit, PublishCommit, CloseCommit, TaskVars
  <2> QED
    BY <1>3, <2>1, <2>2, <2>3, WriteWhole, EditWhole, DeleteWhole DEF Authors
<1>4. ASSUME NEW w \in Run, Works(w), ~RunSwap(w), ~RunCommit(w)
      PROVE  Whole'
  <2>1. UNCHANGED <<questions, nextId>>
    BY <1>4 DEF Works, RunLoad, RunCheckpoint, RunConflict, RunFail, Fails, FailLoad, FailCommit,
       FailUnrecorded, RunLost, AuthorVars
  <2>2. \/ UNCHANGED run
        \/ \E t \in Task : run' = [run EXCEPT ![w] = t] /\ t.step # "swap"
    <3>1. CASE RunLoad(w)
      <4>1. [NoTask EXCEPT !.step = "write", !.row = Kept(paper, {"status", "error"})] \in Task
        BY NoRows, KeptType DEF TypeOK, NoTask, Task
      <4> QED
        BY <3>1, <4>1 DEF RunLoad, NoTask
    <3>2. CASE RunCheckpoint(w)
      BY <3>2 DEF RunCheckpoint, TaskVars
    <3>3. ASSUME NEW told \in BOOLEAN, Fails(w, told)
          PROVE  \E t \in Task : run' = [run EXCEPT ![w] = t] /\ t.step # "swap"
      <4>1. [NoTask EXCEPT !.step = "fail.load", !.told = told] \in Task
        BY NoRows DEF NoTask, Task
      <4> QED
        BY <3>3, <4>1 DEF Fails, NoTask
    <3>4. CASE RunConflict(w) \/ RunFail(w)
      BY <3>3, <3>4 DEF RunConflict, RunFail
    <3>5. CASE FailLoad(w)
      <4>1. [run[w] EXCEPT !.step = "fail.commit",
                           !.row = Kept(paper, {"status", "error", "trace"})] \in Task
        BY KeptType DEF TypeOK, Task
      <4> QED
        BY <3>5, <4>1 DEF FailLoad, TypeOK, Task
    <3>6. CASE FailCommit(w) \/ FailUnrecorded(w) \/ RunLost(w)
      BY <3>6, NoRows DEF FailCommit, FailUnrecorded, RunLost, NoTask
    <3> QED
      BY <1>4, <3>1, <3>2, <3>4, <3>5, <3>6 DEF Works
  <2>3. \A v \in Run : run'[v].step = "swap" => run'[v] = run[v]
    BY <2>2 DEF TypeOK
  <2> QED
    BY <2>1, <2>3, QuietWhole
<1>5. ASSUME NEW w \in Sweeper, Sweeps(w)
      PROVE  Whole'
  BY <1>1, <1>5 DEF Sweeps, SweepLoad, SweepRelease, SweepLost, AuthorVars, TaskVars
<1>6. CASE Tick \/ Redeliver \/ UNCHANGED vars
  BY <1>1, <1>6 DEF Tick, Redeliver, vars, AuthorVars, TaskVars
<1> QED
  BY <1>2, <1>3, <1>4, <1>5, <1>6, SwapWhole, CommitWhole DEF Next

-----------------------------------------------------------------------------
(***************************************************************************)
(* Theorems.                                                               *)
(***************************************************************************)
\* Of the authoring handlers, the task and the sweep together: every row, request and task
\* keeps its type, what a request goes on from is still so, and the questions are whole.
THEOREM Correct == Spec => [](TypeOK /\ Loaded /\ Whole)
<1>1. Init => TypeOK /\ Loaded /\ Whole
  <2> SUFFICES ASSUME Init PROVE TypeOK /\ Loaded /\ Whole
    OBVIOUS
  <2>1. TypeOK
    BY NoRows, SizesAssumption, BoundsAssumption DEF Init, TypeOK
  <2>2. Loaded /\ Whole
    BY DEF Init, Loaded, Whole, Numbered, OneRun, Generated, SwapKnows, Idle, NoTask
  <2> QED
    BY <2>1, <2>2
<1>2. TypeOK /\ Loaded /\ Whole /\ [Next]_vars => (TypeOK /\ Loaded /\ Whole)'
  BY NextType, NextLoaded, NextWhole DEF Whole
<1> QED
  BY <1>1, <1>2, PTL DEF Spec

\* However many processes overlap, no row, request, task or counter leaves its type.
THEOREM TypeCorrect == Spec => []TypeOK
BY Correct, PTL

\* generate_assessment delivered again, or overtaken by what the author wrote: the generated
\* questions are one run's and no two questions share a place.
THEOREM OneDraftingHolds == Spec => []OneDrafting
<1>1. Whole => OneDrafting
  BY DEF Whole, Numbered, OneRun, Generated, OneDrafting
<1> QED
  BY Correct, <1>1, PTL

\* Publishing freezes the paper: once no request, run, message or sweep of before is in
\* flight, nothing of it changes but that it is closed.
THEOREM FrozenSealHolds == Spec => FrozenSeal
<1> DEFINE A == Sealed => /\ Sealed'
                          /\ UNCHANGED questions
                          /\ paper' \in {paper, [paper EXCEPT !.status = "closed"]}
<1>1. TypeOK /\ Loaded /\ [Next]_vars => [A]_vars
  <2> SUFFICES ASSUME TypeOK, Loaded, Next, Sealed
               PROVE  /\ Sealed'
                      /\ UNCHANGED questions
                      /\ paper' \in {paper, [paper EXCEPT !.status = "closed"]}
    OBVIOUS
  <2>1. /\ paper.status \in {"published", "closed"}
        /\ ~(queue > 0)
        /\ \A s \in Slot : req[s].step \in {"idle", "close.commit"}
        /\ \A w \in Run : run[w].step = "idle"
        /\ \A w \in Sweeper : sweep[w].step = "idle"
    BY DEF Sealed, InFlight
  <2>2. ~Tick /\ ~Redeliver
    BY <2>1 DEF Tick, Redeliver
  <2>3. \A s \in Slot : ~Creates(s)
    BY <2>1 DEF Creates, Create, CreateEnqueue, CreateLost
  <2>4. \A w \in Run : ~Works(w)
    BY <2>1 DEF Works, RunLoad, RunCheckpoint, RunSwap, RunCommit, RunConflict, RunFail,
       FailLoad, FailCommit, FailUnrecorded, RunLost
  <2>5. \A w \in Sweeper : ~Sweeps(w)
    BY <2>1 DEF Sweeps, SweepLoad, IsStale, SweepRelease, SweepLost
  <2>6. \E s \in Slot : CloseLoad(s) \/ CloseCommit(s)
    BY <2>1, <2>2, <2>3, <2>4, <2>5 DEF Next, Authors, EditableLoad, Changes, PublishLoad, Load,
       WriteLook, ChangeLook, PublishLook, Look, Refused, UpdateCommit, WriteCommit, EditCommit,
       DeleteCommit, PublishCommit
  <2>7. PICK s \in Slot : CloseLoad(s) \/ CloseCommit(s)
    BY <2>6
  <2>8. UNCHANGED <<questions, queue, run, sweep>>
    BY <2>7 DEF CloseLoad, Load, CloseCommit, TaskVars
  <2>9. CASE CloseLoad(s)
    <3>1. UNCHANGED paper
      BY <2>9 DEF CloseLoad, Load
    <3>2. \A t \in Slot : req'[t].step \in {"idle", "close.commit"}
      BY <2>1, <2>9 DEF CloseLoad, Load, TypeOK, Idle
    <3> QED
      BY <2>1, <2>8, <3>1, <3>2 DEF Sealed, InFlight
  <2>10. CASE CloseCommit(s)
    <3>1. req[s].row = [NoPaper EXCEPT !.status = "published"]
      BY <2>10 DEF CloseCommit, Loaded
    <3>2. Updated(paper, req[s].row, [req[s].row EXCEPT !.status = "closed"])
            = [paper EXCEPT !.status = "closed"]
      BY <3>1 DEF Updated, NoPaper, TypeOK, PaperRow
    <3>3. paper' = [paper EXCEPT !.status = "closed"]
      BY <2>10, <3>2 DEF CloseCommit, Writes
    <3>4. paper'.status = "closed"
      BY <3>3 DEF TypeOK, PaperRow
    <3>5. \A t \in Slot : req'[t].step \in {"idle", "close.commit"}
      BY <2>1, <2>10 DEF CloseCommit, Done, TypeOK, Idle
    <3> QED
      BY <2>1, <2>8, <3>3, <3>4, <3>5 DEF Sealed, InFlight
  <2> QED
    BY <2>7, <2>9, <2>10
<1> QED
  BY <1>1, Correct, PTL DEF Spec, FrozenSeal

=============================================================================
