---------------------------- MODULE LibraryProofs ----------------------------
(***************************************************************************)
(* Theorems about Library, for any number of overlapping requests and      *)
(* workers, every number of retries and every bound.                       *)
(***************************************************************************)
EXTENDS Library, Extremes, TLAPS

-----------------------------------------------------------------------------
(***************************************************************************)
(* The inductive invariant.                                                *)
(***************************************************************************)
\* Before the book there is nothing but one upload of it.
NothingBefore ==
  /\ book.status = "none" =>
       /\ book = NoBook /\ chunks = {} /\ deletes = 0
       /\ \A n \in 0..MaxRetries : queue[n] = 0
       /\ \A w \in Run : run[w].step = "idle"
       /\ \A s \in Slot : req[s].step \in {"idle", "upload.commit"}
  /\ \A s \in Slot : req[s].step = "upload.commit" =>
       /\ book.status = "none" /\ object
       /\ \A t \in Slot : req[t].step = "upload.commit" => t = s

\* One reading at a time; a book that is ready or shared has one; a deleted one leaves nothing.
OneReading ==
  /\ chunks = {} \/ \E c \in chunks : chunks = {c}
  /\ Exists /\ (book.status = "ready" \/ book.scope = "canon") => chunks # {}
  /\ book.status = "deleted" => ~object /\ chunks = {}

\* A share was admitted because there is something to share, and one at a time holds the book.
SharesHold ==
  \A s \in Slot :
    /\ req[s].step \in {"share.book", "share.chunks"} /\ Exists => chunks # {}
    /\ req[s].step = "share.chunks" =>
         Exists /\ \A t \in Slot : req[t].step = "share.chunks" => t = s

\* One run at a time holds the chunks, it has found all there are, and nobody shares the
\* book meanwhile; a deletion that has come to the row has deleted the file.
RunsHold ==
  \A w \in Run :
    /\ IsFiniteSet(run[w].sees)
    /\ run[w].step = "stored" =>
         /\ Exists /\ run[w].scope = book.scope /\ Readings \subseteq run[w].sees
         /\ \A v \in Run : run[v].step = "stored" => v = w
    /\ run[w].step = "delete.row" => ~object

Sound == NothingBefore /\ OneReading /\ SharesHold /\ RunsHold /\ ScopeFollows

-----------------------------------------------------------------------------
(***************************************************************************)
(* Rows and names.                                                         *)
(***************************************************************************)
LEMMA NoRows ==
  /\ NoBook \in BookRow
  /\ Idle \in Handler
  /\ NoTask \in Task
<1>1. NoBook \in BookRow
  BY DEF NoBook, BookRow, Status, Scope
<1> QED
  BY <1>1, BoundsAssumption DEF Idle, Handler, NoTask, Task, Scope

LEMMA UpdatedType ==
  ASSUME NEW row \in BookRow, NEW loaded \in BookRow, NEW new \in BookRow
  PROVE  Updated(row, loaded, new) \in BookRow
BY DEF Updated, BookRow

LEMMA ReadingsFinite ==
  ASSUME OneReading
  PROVE  IsFiniteSet(Readings)
<1>1. Readings = {} \/ \E c \in chunks : Readings = {c.by}
  BY DEF OneReading, Readings
<1> QED
  BY <1>1, FS_EmptySet, FS_Singleton

\* A run finds a name for what it read: finitely many are known.
LEMMA FreshName ==
  ASSUME TypeOK, Sound, NEW w \in Run
  PROVE  Fresh(w) \in Nat
<1> DEFINE others == {run[v].sees : v \in Run \ {w}}
           f == [v \in Run \ {w} |-> run[v].sees]
           known == (Readings \ run[w].sees) \cup UNION others
           N == (0..Cardinality(known)) \ known
<1>1. IsFiniteSet(others)
  <2>1. f \in Surjection(Run \ {w}, others)
    BY DEF Surjection
  <2>2. IsFiniteSet(Run \ {w})
    BY RunAssumption, FS_RemoveElement
  <2> HIDE DEF f, others
  <2> QED
    BY <2>1, <2>2, FS_Surjection
<1>2. IsFiniteSet(UNION others)
  <2>1. \A T \in others : IsFiniteSet(T)
    BY DEF Sound, RunsHold
  <2> HIDE DEF others
  <2> QED
    BY <1>1, <2>1, FS_UNION
<1>3. IsFiniteSet(Readings \ run[w].sees)
  BY ReadingsFinite, FS_Difference DEF Sound
<1>4. IsFiniteSet(known)
  <2> HIDE DEF others
  <2> QED
    BY <1>2, <1>3, FS_Union
<1> HIDE DEF known
<1>5. Cardinality(known) \in Nat
  BY <1>4, FS_CardinalityType
<1>6. IsFiniteSet(0..Cardinality(known)) /\ Cardinality(0..Cardinality(known)) = Cardinality(known) + 1
  BY <1>5, FS_Interval
<1>7. N # {}
  <2> SUFFICES ASSUME 0..Cardinality(known) \subseteq known PROVE FALSE
    OBVIOUS
  <2>1. Cardinality(0..Cardinality(known)) <= Cardinality(known)
    BY <1>4, FS_Subset
  <2> QED
    BY <1>5, <1>6, <2>1
<1>8. IsFiniteSet(N) /\ N \subseteq Nat
  <2>1. 0..Cardinality(known) \subseteq Nat
    BY <1>5
  <2> QED
    BY <1>6, <2>1, FS_Difference
<1>9. Min(N) \in Nat
  <2>1. N \subseteq Int
    BY <1>8
  <2> HIDE DEF N
  <2> QED
    BY <1>7, <1>8, <2>1, MinIs
<1>10. Fresh(w) = Min(N)
  BY DEF Fresh, known
<1> QED
  BY <1>9, <1>10

-----------------------------------------------------------------------------
(***************************************************************************)
(* Types.                                                                  *)
(***************************************************************************)
LEMMA EnqueuedType ==
  ASSUME TypeOK, NEW n \in 0..MaxRetries, Enqueued(n)
  PROVE  queue' \in [0..MaxRetries -> Nat]
BY DEF TypeOK, Enqueued

LEMMA OwnerType ==
  ASSUME TypeOK, NEW s \in Slot, Owner(s) \/ Handles(s)
  PROVE  TypeOK'
<1> USE NoRows DEF TypeOK
<1>1. \A step \in {"upload.commit", "enqueue", "share.chunks", "delete.enqueue", "idle"} :
        [req[s] EXCEPT !.step = step] \in Handler /\ [Idle EXCEPT !.step = step] \in Handler
  BY DEF Handler, Idle
<1>2. req[s].row \in BookRow /\ book.scope \in Scope
  BY DEF Handler, BookRow
<1>3. CASE Upload(s)
  BY <1>1, <1>3 DEF Upload, TaskVars
<1>4. CASE ShareLoad(s)
  <2>1. [step |-> "share.book", row |-> [NoBook EXCEPT !.scope = book.scope]] \in Handler
    BY <1>2 DEF Handler, BookRow
  <2> QED
    BY <1>4, <2>1 DEF ShareLoad, TaskVars
<1>5. CASE RetryLoad(s)
  <2>1. [step |-> "retry.commit", row |-> book] \in Handler
    BY DEF Handler
  <2> QED
    BY <1>5, <2>1 DEF RetryLoad, TaskVars
<1>6. CASE DeleteAsk(s)
  BY <1>1, <1>6 DEF DeleteAsk, TaskVars
<1>7. CASE RequestLost(s)
  BY <1>7, BoundsAssumption DEF RequestLost, Mishap, Done, TaskVars
<1>8. CASE UploadCommit(s)
  <2>1. [NoBook EXCEPT !.status = "uploaded"] \in BookRow
    BY DEF BookRow, Status
  <2> QED
    BY <1>1, <1>8, <2>1 DEF UploadCommit, TaskVars
<1>9. CASE Enqueue(s)
  <2>1. queue' \in [0..MaxRetries -> Nat]
    BY <1>9, EnqueuedType, BoundsAssumption DEF Enqueue
  <2> QED
    BY <1>9, <2>1 DEF Enqueue, Done
<1>10. CASE ShareBook(s)
  BY <1>1, <1>10 DEF ShareBook, TaskVars
<1>11. CASE ShareChunks(s)
  <2>1. Other(req[s].row.scope) \in Scope
    BY DEF Other, Scope
  <2>2. [book EXCEPT !.scope = Other(req[s].row.scope)] \in BookRow
    BY <2>1 DEF BookRow
  <2>3. \A c \in chunks : [c EXCEPT !.scope = Other(req[s].row.scope)] \in Chunk
    BY <2>1 DEF Chunk
  <2> QED
    BY <1>11, <2>2, <2>3 DEF ShareChunks, Done, TaskVars
<1>12. CASE ShareAborted(s) \/ RetryGone(s)
  BY <1>12 DEF ShareAborted, RetryGone, Done, TaskVars
<1>13. CASE RetryCommit(s)
  <2>1. [req[s].row EXCEPT !.status = "uploaded", !.error = Null] \in BookRow
    BY <1>2 DEF BookRow, Status
  <2>2. book' \in BookRow
    BY <1>2, <1>13, <2>1, UpdatedType DEF RetryCommit
  <2> QED
    BY <1>1, <1>13, <2>2 DEF RetryCommit, TaskVars
<1>14. CASE DeleteEnqueue(s)
  BY <1>14 DEF DeleteEnqueue, Done
<1> QED
  BY <1>3, <1>4, <1>5, <1>6, <1>7, <1>8, <1>9, <1>10, <1>11, <1>12, <1>13, <1>14
     DEF Owner, Handles

LEMMA IngestsType ==
  ASSUME TypeOK, Sound, NEW w \in Run, Ingests(w)
  PROVE  TypeOK'
<1> USE NoRows DEF TypeOK
<1>1. /\ run[w] \in Task /\ run[w].row \in BookRow /\ run[w].retries \in 0..MaxRetries
      /\ run[w].sees \subseteq Nat /\ run[w].scope \in Scope
  BY DEF Task
<1>2. book.scope \in Scope /\ Readings \subseteq Nat
  BY DEF BookRow, Readings, Chunk
<1>3. CASE IngestTake(w)
  <2>1. \A n \in 0..MaxRetries : [NoTask EXCEPT !.step = "parse", !.retries = n] \in Task
    BY DEF Task
  <2>2. \A n \in 0..MaxRetries : queue[n] > 0 => queue[n] - 1 \in Nat
    OBVIOUS
  <2> QED
    BY <1>3, <2>1, <2>2 DEF IngestTake
<1>4. ASSUME NEW from, NEW to \in {"read", "embed"}, SetStatus(w, from, to)
      PROVE  TypeOK'
  <2>1. [run[w] EXCEPT !.step = to] \in Task
    BY <1>1 DEF Task
  <2>2. [book EXCEPT !.status = "working"] \in BookRow
    BY DEF BookRow, Status
  <2> QED
    BY <1>4, <2>1, <2>2 DEF SetStatus, Goes
<1>5. CASE IngestStage(w)
  BY <1>4, <1>5 DEF IngestStage
<1>6. [NoTask EXCEPT !.step = "fail"] \in Task
  BY DEF Task
<1>7. CASE IngestBad(w)
  BY <1>6, <1>7 DEF IngestBad
<1>8. CASE StoreLook(w)
  <2>1. [book EXCEPT !.scope = "personal"] \in BookRow
    BY DEF BookRow, Scope
  <2>2. [run[w] EXCEPT !.step = "swap", !.row = [book EXCEPT !.scope = "personal"],
                       !.sees = Readings] \in Task
    BY <1>1, <1>2, <2>1 DEF Task
  <2> QED
    BY <1>8, <2>2 DEF StoreLook
<1>9. CASE StoreInsert(w)
  <2>1. [run[w] EXCEPT !.step = "stored", !.scope = book.scope] \in Task
    BY <1>1, <1>2 DEF Task
  <2>2. run' = [run EXCEPT ![w] = [run[w] EXCEPT !.step = "stored", !.scope = book.scope]]
    BY <1>9 DEF StoreInsert
  <2> QED
    BY <1>9, <2>1, <2>2 DEF StoreInsert
<1>10. CASE StoreCommit(w)
  <2>1. [by |-> Fresh(w), scope |-> run[w].scope] \in Chunk
    BY <1>1, FreshName DEF Chunk
  <2>2. [run[w].row EXCEPT !.status = "ready", !.error = Null] \in BookRow
    BY <1>1 DEF BookRow, Status
  <2>3. book' \in BookRow
    BY <1>1, <1>10, <2>2, UpdatedType DEF StoreCommit
  <2>4. [NoTask EXCEPT !.step = "classify", !.retries = run[w].retries] \in Task
    BY <1>1 DEF Task
  <2> QED
    BY <1>10, <2>1, <2>3, <2>4 DEF StoreCommit
<1>11. CASE Classified(w)
  BY <1>11 DEF Classified
<1>12. CASE IngestError(w)
  <2>1. CASE run[w].retries < MaxRetries
    <3>1. run[w].retries + 1 \in 0..MaxRetries
      BY <1>1, <2>1, BoundsAssumption
    <3>2. queue' \in [0..MaxRetries -> Nat]
      BY <1>12, <2>1, <3>1, EnqueuedType DEF IngestError
    <3> QED
      BY <1>12, <2>1, <3>2 DEF IngestError
  <2>2. CASE ~(run[w].retries < MaxRetries)
    BY <1>6, <1>12, <2>2 DEF IngestError
  <2> QED
    BY <2>1, <2>2
<1>13. CASE MarkFailed(w)
  <2>1. [book EXCEPT !.status = "failed", !.error = "failed"] \in BookRow
    BY DEF BookRow, Status
  <2> QED
    BY <1>13, <2>1 DEF MarkFailed
<1> QED
  BY <1>3, <1>5, <1>7, <1>8, <1>9, <1>10, <1>11, <1>12, <1>13 DEF Ingests

LEMMA DeletesType ==
  ASSUME TypeOK, NEW w \in Run, Deletes(w)
  PROVE  TypeOK'
<1> USE NoRows DEF TypeOK
<1>1. \A step \in {"delete.object", "delete.row"} :
        [NoTask EXCEPT !.step = step] \in Task /\ [run[w] EXCEPT !.step = step] \in Task
  BY DEF Task
<1>2. CASE DeleteTake(w)
  BY <1>1, <1>2 DEF DeleteTake
<1>3. CASE DeleteObject(w)
  BY <1>1, <1>3 DEF DeleteObject, Goes
<1>4. CASE DeleteError(w)
  BY <1>4 DEF DeleteError
<1>5. CASE DeleteRow(w)
  <2>1. [book EXCEPT !.status = "deleted"] \in BookRow
    BY DEF BookRow, Status
  <2> QED
    BY <1>5, <2>1 DEF DeleteRow
<1> QED
  BY <1>2, <1>3, <1>4, <1>5 DEF Deletes

LEMMA FaultsType ==
  ASSUME TypeOK, NEW w \in Run, FailUnrecorded(w) \/ WorkerLost(w) \/ Redelivered(w)
  PROVE  TypeOK'
<1> USE NoRows DEF TypeOK
<1>1. \A fault : Mishap(fault) => mishaps' \in 0..MaxMishaps
  BY BoundsAssumption DEF Mishap
<1>2. run[w].retries \in 0..MaxRetries
  BY DEF Task
<1>3. SentAgain(w) => queue' \in [0..MaxRetries -> Nat] /\ deletes' \in Nat
  BY <1>2, EnqueuedType DEF SentAgain
<1>4. CASE FailUnrecorded(w)
  BY <1>1, <1>4 DEF FailUnrecorded
<1>5. CASE WorkerLost(w)
  BY <1>1, <1>3, <1>5 DEF WorkerLost
<1>6. CASE Redelivered(w)
  BY <1>1, <1>3, <1>6 DEF Redelivered
<1> QED
  BY <1>4, <1>5, <1>6

\* Every step keeps every row, request, task and message of its type.
LEMMA NextType ==
  ASSUME TypeOK, Sound, [Next]_vars
  PROVE  TypeOK'
<1>1. CASE Reingest
  <2>1. queue' \in [0..MaxRetries -> Nat]
    BY <1>1, EnqueuedType, BoundsAssumption DEF Reingest
  <2> QED
    BY <1>1, <2>1 DEF Reingest, TypeOK
<1>2. CASE UNCHANGED vars
  BY <1>2 DEF vars, TypeOK
<1> QED
  BY <1>1, <1>2, OwnerType, IngestsType, DeletesType, FaultsType DEF Next

-----------------------------------------------------------------------------
(***************************************************************************)
(* What requests keep.                                                     *)
(***************************************************************************)
\* A request goes on, and changes neither the book nor what belongs to it.
LEMMA RequestSound ==
  ASSUME TypeOK, Sound, NEW s \in Slot,
         UNCHANGED <<book, object, chunks, run>>,
         \A t \in Slot \ {s} : req'[t] = req[t],
         book.status = "none" => req'[s].step = "idle" /\ UNCHANGED <<queue, deletes>>,
         req'[s].step # "upload.commit",
         req'[s].step \in {"share.book", "share.chunks"} /\ Exists => chunks # {},
         req'[s].step = "share.chunks" => Exists /\ BookFree
  PROVE  Sound'
<1>1. NothingBefore'
  BY DEF Sound, NothingBefore
<1>2. SharesHold'
  BY DEF Sound, SharesHold, Exists, BookFree
<1> QED
  BY <1>1, <1>2 DEF Sound, OneReading, RunsHold, Readings, Exists, ScopeFollows

LEMMA RequestsSound ==
  ASSUME TypeOK, Sound, NEW s \in Slot,
         \/ ShareLoad(s) \/ RetryLoad(s) \/ DeleteAsk(s) \/ RequestLost(s) \/ Enqueue(s)
         \/ ShareBook(s) \/ ShareAborted(s) \/ RetryGone(s) \/ DeleteEnqueue(s)
  PROVE  Sound'
<1> USE DEF TypeOK, Exists
<1>1. CASE RequestLost(s) \/ ShareAborted(s) \/ RetryGone(s)
  <2>1. req'[s] = Idle /\ UNCHANGED <<book, object, chunks, run, queue, deletes>>
    BY <1>1 DEF RequestLost, ShareAborted, RetryGone, Done, TaskVars
  <2> QED
    BY <1>1, <2>1, RequestSound DEF RequestLost, ShareAborted, RetryGone, Done, Idle
<1>2. CASE Enqueue(s) \/ DeleteEnqueue(s)
  <2>1. book.status # "none"
    BY <1>2 DEF Enqueue, DeleteEnqueue, Sound, NothingBefore
  <2> QED
    BY <1>2, <2>1, RequestSound DEF Enqueue, DeleteEnqueue, Done, Idle
<1>3. CASE ShareLoad(s)
  <2>1. book.status # "none" /\ chunks # {}
    BY <1>3 DEF ShareLoad, Sound, OneReading, BookRow, Scope
  <2> QED
    BY <1>3, <2>1, RequestSound DEF ShareLoad, TaskVars
<1>4. CASE RetryLoad(s)
  BY <1>4, RequestSound DEF RetryLoad, TaskVars
<1>5. CASE DeleteAsk(s)
  <2>1. req'[s].step = "delete.enqueue"
    BY <1>5 DEF DeleteAsk, Handler
  <2> QED
    BY <1>5, <2>1, RequestSound DEF DeleteAsk, TaskVars
<1>6. CASE ShareBook(s)
  <2>1. req'[s].step = "share.chunks" /\ chunks # {}
    BY <1>6 DEF ShareBook, Handler, Sound, SharesHold
  <2> QED
    BY <1>6, <2>1, RequestSound DEF ShareBook, TaskVars
<1> QED
  BY <1>1, <1>2, <1>3, <1>4, <1>5, <1>6

\* The one upload, and its commit.
LEMMA UploadsSound ==
  ASSUME TypeOK, Sound, NEW s \in Slot, Upload(s) \/ UploadCommit(s)
  PROVE  Sound'
<1> USE DEF TypeOK, Sound, NothingBefore, Exists, NoBook
<1>1. book = NoBook /\ chunks = {} /\ \A w \in Run : run[w].step = "idle"
  BY DEF Upload, UploadCommit
<1>2. UNCHANGED <<chunks, queue, deletes, run>> /\ \A t \in Slot \ {s} : req'[t] = req[t]
  BY DEF Upload, UploadCommit, TaskVars
<1>3. CASE Upload(s)
  <2>1. req'[s].step = "upload.commit" /\ UNCHANGED book /\ object'
    BY <1>3 DEF Upload, Handler
  <2>2. \A t \in Slot : req[t].step # "upload.commit"
    BY <1>3 DEF Upload
  <2> QED
    BY <1>1, <1>2, <2>1, <2>2 DEF OneReading, SharesHold, RunsHold, ScopeFollows
<1>4. CASE UploadCommit(s)
  <2>1. req'[s].step = "enqueue" /\ book' = [NoBook EXCEPT !.status = "uploaded"]
    BY <1>4 DEF UploadCommit, Handler
  <2>2. \A t \in Slot \ {s} : req[t].step = "idle"
    BY <1>1, <1>4 DEF UploadCommit
  <2> QED
    BY <1>1, <1>2, <2>1, <2>2 DEF OneReading, SharesHold, RunsHold, ScopeFollows
<1> QED
  BY <1>3, <1>4

\* The book and its passages change hands together.  Nobody holds the chunks.
LEMMA ShareChunksSound ==
  ASSUME TypeOK, Sound, NEW s \in Slot, ShareChunks(s)
  PROVE  Sound'
<1> DEFINE target == Other(req[s].row.scope)
           E(c) == [c EXCEPT !.scope = target]
<1>1. /\ book' = [book EXCEPT !.scope = target]
      /\ chunks' = {E(c) : c \in chunks}
      /\ req' = [req EXCEPT ![s] = Idle]
      /\ UNCHANGED <<object, queue, deletes, run>>
  BY DEF ShareChunks, Done, TaskVars
<1>2. \A c \in chunks : E(c).by = c.by /\ E(c).scope = target
  BY DEF TypeOK, Chunk
<1>3. book'.status = book.status /\ book'.scope = target /\ Exists /\ chunks # {}
  BY <1>1 DEF ShareChunks, Sound, SharesHold, TypeOK, BookRow, Exists
<1>4. \A w \in Run : run[w].step # "stored"
  BY DEF ShareChunks, ChunksFree
<1> HIDE DEF target, E
<1>5. NothingBefore'
  BY <1>1, <1>3 DEF Sound, NothingBefore, Exists, TypeOK, Idle
<1>6. OneReading'
  <2>1. PICK c \in chunks : chunks = {c}
    BY <1>3 DEF Sound, OneReading
  <2>2. chunks' = {E(c)}
    BY <1>1, <2>1
  <2> QED
    BY <1>1, <1>3, <2>2 DEF Sound, OneReading, Exists
<1>7. SharesHold'
  <2>1. chunks' # {}
    BY <1>1, <1>3
  <2> QED
    BY <1>1, <1>3, <2>1 DEF Sound, SharesHold, Exists, TypeOK, Idle
<1>8. RunsHold'
  BY <1>1, <1>4 DEF Sound, RunsHold
<1>9. ScopeFollows'
  BY <1>1, <1>2, <1>3 DEF ScopeFollows
<1> QED
  BY <1>5, <1>6, <1>7, <1>8, <1>9 DEF Sound

\* A step that sets the status of a book that is there to another than ready.
LEMMA StatusSound ==
  ASSUME TypeOK, Sound, Exists, UNCHANGED <<object, chunks>>,
         book'.scope = book.scope,
         book'.status \in {book.status, "uploaded", "working", "failed"},
         \A s \in Slot : /\ req'[s].step \notin {"upload.commit", "share.book", "share.chunks"}
                         \/ req'[s] = req[s],
         \A w \in Run : /\ IsFiniteSet(run'[w].sees)
                        /\ run'[w].step \notin {"stored", "delete.row"} \/ run'[w] = run[w]
  PROVE  Sound'
<1>1. Exists'
  BY DEF Exists
<1>2. NothingBefore'
  BY <1>1 DEF Sound, NothingBefore, Exists
<1>3. OneReading'
  BY <1>1 DEF Sound, OneReading, Exists
<1>4. SharesHold'
  BY <1>1 DEF Sound, SharesHold
<1>5. RunsHold'
  BY <1>1 DEF Sound, RunsHold, Readings
<1> QED
  BY <1>2, <1>3, <1>4, <1>5 DEF Sound, ScopeFollows

LEMMA RetryCommitSound ==
  ASSUME TypeOK, Sound, NEW s \in Slot, RetryCommit(s)
  PROVE  Sound'
<1> DEFINE new == [req[s].row EXCEPT !.status = "uploaded", !.error = Null]
<1>1. new.status = "uploaded" /\ new.scope = req[s].row.scope
  BY DEF TypeOK, Handler, BookRow
<1>2. book' = Updated(book, req[s].row, new)
  BY DEF RetryCommit
<1>3. book'.scope = book.scope /\ book'.status \in {book.status, "uploaded"}
  <2> HIDE DEF new
  <2> QED
    BY <1>1, <1>2 DEF Updated, TypeOK, BookRow
<1>4. req'[s].step = "enqueue" /\ \A t \in Slot \ {s} : req'[t] = req[t]
  BY DEF RetryCommit, TypeOK, Idle
<1>5. Exists /\ UNCHANGED <<object, chunks, run>>
  BY DEF RetryCommit, TaskVars
<1>6. \A w \in Run : IsFiniteSet(run[w].sees)
  BY DEF Sound, RunsHold
<1> QED
  BY <1>3, <1>4, <1>5, <1>6, StatusSound

LEMMA OwnerSound ==
  ASSUME TypeOK, Sound, NEW s \in Slot, Owner(s) \/ Handles(s)
  PROVE  Sound'
BY RequestsSound, UploadsSound, ShareChunksSound, RetryCommitSound DEF Owner, Handles

-----------------------------------------------------------------------------
(***************************************************************************)
(* What the workers keep.                                                  *)
(***************************************************************************)
\* A worker that does anything has a message, and a message is of a book that was uploaded.
LEMMA Uploaded ==
  ASSUME TypeOK, Sound, NEW w \in Run,
         Ingests(w) \/ Deletes(w) \/ FailUnrecorded(w) \/ WorkerLost(w) \/ Redelivered(w)
  PROVE  book.status # "none"
<1> SUFFICES ASSUME book.status = "none" PROVE FALSE
  OBVIOUS
<1>1. run[w].step = "idle" /\ deletes = 0 /\ \A n \in 0..MaxRetries : queue[n] = 0
  BY DEF Sound, NothingBefore
<1>2. IngestTake(w) \/ DeleteTake(w)
  BY <1>1 DEF Ingests, IngestStage, SetStatus, IngestBad, StoreLook, StoreInsert, StoreCommit,
              Classified, IngestError, MarkFailed, Deletes, DeleteObject, DeleteError,
              DeleteRow, Deleting, FailUnrecorded, WorkerLost, Redelivered
<1>3. ~(0 > 0)
  OBVIOUS
<1>4. ~IngestTake(w) /\ ~DeleteTake(w)
  BY <1>1, <1>3 DEF IngestTake, DeleteTake
<1> QED
  BY <1>2, <1>4

\* A run goes on, and changes neither the book nor what belongs to it.
LEMMA RunSound ==
  ASSUME TypeOK, Sound, NEW w \in Run,
         UNCHANGED <<book, object, chunks, req>>,
         book.status # "none",
         \A v \in Run \ {w} : run'[v] = run[v],
         IsFiniteSet(run'[w].sees),
         run'[w] = run[w] \/ run'[w].step \notin {"stored", "delete.row"}
  PROVE  Sound'
<1>1. NothingBefore'
  BY DEF Sound, NothingBefore
<1>2. RunsHold'
  BY DEF Sound, RunsHold, Exists, Readings
<1> QED
  BY <1>1, <1>2 DEF Sound, OneReading, SharesHold, Exists, ScopeFollows

LEMMA NoTaskSees ==
  ASSUME NEW step, NEW n
  PROVE  /\ IsFiniteSet(NoTask.sees) /\ NoTask.step = "idle"
         /\ IsFiniteSet([NoTask EXCEPT !.step = step].sees)
         /\ [NoTask EXCEPT !.step = step].step = step
         /\ IsFiniteSet([NoTask EXCEPT !.step = step, !.retries = n].sees)
         /\ [NoTask EXCEPT !.step = step, !.retries = n].step = step
BY FS_EmptySet DEF NoTask

LEMMA RunsSound ==
  ASSUME TypeOK, Sound, NEW w \in Run,
         \/ IngestTake(w) \/ IngestBad(w) \/ StoreLook(w) \/ Classified(w) \/ IngestError(w)
         \/ DeleteTake(w) \/ DeleteError(w)
         \/ FailUnrecorded(w) \/ WorkerLost(w) \/ Redelivered(w)
  PROVE  Sound'
<1>1. book.status # "none"
  BY Uploaded DEF Ingests, Deletes
<1>2. ASSUME NEW task, run' = [run EXCEPT ![w] = task],
             IsFiniteSet(task.sees), task.step \notin {"stored", "delete.row"},
             UNCHANGED <<book, object, chunks, req>>
      PROVE  Sound'
  <2>1. run'[w] = task /\ \A v \in Run \ {w} : run'[v] = run[v]
    BY <1>2 DEF TypeOK
  <2> QED
    BY <1>1, <1>2, <2>1, RunSound
<1>3. CASE IngestTake(w)
  <2>1. PICK n \in 0..MaxRetries :
          run' = [run EXCEPT ![w] = IF Exists
                                      THEN [NoTask EXCEPT !.step = "parse", !.retries = n]
                                      ELSE NoTask]
    BY <1>3 DEF IngestTake
  <2> QED
    BY <1>2, <1>3, <2>1, NoTaskSees DEF IngestTake
<1>4. CASE IngestBad(w) \/ Classified(w) \/ DeleteError(w) \/ FailUnrecorded(w) \/ WorkerLost(w)
  <2>1. CASE IngestBad(w)
    BY <1>2, <2>1, NoTaskSees DEF IngestBad
  <2>2. CASE Classified(w) \/ DeleteError(w) \/ FailUnrecorded(w) \/ WorkerLost(w)
    <3>1. run' = [run EXCEPT ![w] = NoTask] /\ UNCHANGED <<book, object, chunks, req>>
      BY <2>2 DEF Classified, DeleteError, FailUnrecorded, WorkerLost
    <3> QED
      BY <1>2, <3>1, NoTaskSees
  <2> QED
    BY <1>4, <2>1, <2>2
<1>5. CASE StoreLook(w)
  <2> DEFINE task == [run[w] EXCEPT !.step = "swap", !.row = [book EXCEPT !.scope = "personal"],
                                    !.sees = Readings]
  <2>1. task.step = "swap" /\ task.sees = Readings
    BY DEF TypeOK, Task
  <2>2. run' = [run EXCEPT ![w] = task] \/ run' = [run EXCEPT ![w] = NoTask]
    BY <1>5 DEF StoreLook
  <2>3. UNCHANGED <<book, object, chunks, req>>
    BY <1>5 DEF StoreLook
  <2>4. IsFiniteSet(Readings)
    BY ReadingsFinite DEF Sound
  <2> HIDE DEF task
  <2> QED
    BY <1>2, <2>1, <2>2, <2>3, <2>4, NoTaskSees
<1>6. CASE IngestError(w)
  BY <1>2, <1>6, NoTaskSees DEF IngestError
<1>7. CASE DeleteTake(w)
  BY <1>2, <1>7, NoTaskSees DEF DeleteTake
<1>8. CASE Redelivered(w)
  <2>1. IsFiniteSet(run[w].sees)
    BY DEF Sound, RunsHold
  <2> QED
    BY <1>1, <1>8, <2>1, RunSound DEF Redelivered
<1> QED
  BY <1>3, <1>4, <1>5, <1>6, <1>7, <1>8

\* A status alone.
LEMMA StatusesSound ==
  ASSUME TypeOK, Sound, NEW w \in Run, IngestStage(w) \/ MarkFailed(w)
  PROVE  Sound'
<1>1. book.status # "none"
  BY Uploaded DEF Ingests
<1>2. PICK status \in {"working", "failed"} :
        book'.status = (IF Exists THEN status ELSE book.status) /\ book'.scope = book.scope
  BY DEF IngestStage, SetStatus, MarkFailed, TypeOK, BookRow
<1>3. ~Exists => UNCHANGED book
  BY DEF IngestStage, SetStatus, MarkFailed
<1>4. /\ UNCHANGED <<object, chunks, req>>
      /\ \A v \in Run \ {w} : run'[v] = run[v]
      /\ run'[w].step \notin {"stored", "delete.row"}
      /\ run'[w].sees \in {run[w].sees, {}}
  BY DEF IngestStage, SetStatus, MarkFailed, Goes, TypeOK, Task, NoTask
<1>5. \A v \in Run : IsFiniteSet(run[v].sees)
  BY DEF Sound, RunsHold
<1>6. IsFiniteSet(run'[w].sees)
  BY <1>4, <1>5, FS_EmptySet
<1>7. CASE Exists
  BY <1>2, <1>4, <1>5, <1>6, <1>7, StatusSound
<1>8. CASE ~Exists
  BY <1>1, <1>3, <1>4, <1>6, <1>8, RunSound
<1> QED
  BY <1>7, <1>8

\* The run that takes the chunks has found all there are -- or its insert meets the
\* unique index -- and its rows get the scope of the book.
LEMMA StoreInsertSound ==
  ASSUME TypeOK, Sound, NEW w \in Run, StoreInsert(w)
  PROVE  Sound'
<1>1. /\ run'[w].step = "stored" /\ run'[w].scope = book.scope /\ run'[w].sees = run[w].sees
      /\ \A v \in Run \ {w} : run'[v] = run[v]
  BY DEF StoreInsert, TypeOK, Task
<1>2. /\ Exists /\ Readings \subseteq run[w].sees
      /\ \A v \in Run : run[v].step # "stored"
  BY DEF StoreInsert, ChunksFree, Conflict
<1>3. UNCHANGED <<book, object, chunks, req>>
  BY DEF StoreInsert
<1>4. RunsHold'
  BY <1>1, <1>2, <1>3 DEF Sound, RunsHold, Exists, Readings
<1>5. NothingBefore'
  BY <1>2, <1>3 DEF Sound, NothingBefore, Exists
<1> QED
  BY <1>3, <1>4, <1>5 DEF Sound, OneReading, SharesHold, Exists, ScopeFollows

\* What the run found was everything, so what it leaves is its own reading alone.
LEMMA StoreCommitLeaves ==
  ASSUME TypeOK, Sound, NEW w \in Run, StoreCommit(w)
  PROVE  /\ chunks' = {[by |-> Fresh(w), scope |-> book.scope]}
         /\ Exists /\ book'.scope = book.scope /\ book'.status \in {book.status, "ready"}
<1>1. Exists /\ run[w].scope = book.scope /\ Readings \subseteq run[w].sees
  BY DEF StoreCommit, Sound, RunsHold
<1>2. {c \in chunks : c.by \notin run[w].sees} = {}
  BY <1>1 DEF Readings
<1>3. chunks' = {[by |-> Fresh(w), scope |-> book.scope]}
  BY <1>1, <1>2 DEF StoreCommit
<1> DEFINE new == [run[w].row EXCEPT !.status = "ready", !.error = Null]
<1>4. new.status = "ready" /\ new.scope = run[w].row.scope
  BY DEF TypeOK, Task, BookRow
<1>5. book' = Updated(book, run[w].row, new)
  BY DEF StoreCommit
<1>6. book'.scope = book.scope /\ book'.status \in {book.status, "ready"}
  <2> HIDE DEF new
  <2> QED
    BY <1>4, <1>5 DEF Updated, TypeOK, BookRow
<1> QED
  BY <1>1, <1>3, <1>6

LEMMA StoreCommitSound ==
  ASSUME TypeOK, Sound, NEW w \in Run, StoreCommit(w)
  PROVE  Sound'
<1> DEFINE c == [by |-> Fresh(w), scope |-> book.scope]
<1>1. /\ chunks' = {c} /\ c.scope = book.scope
      /\ Exists /\ book'.scope = book.scope /\ book'.status \in {book.status, "ready"}
  BY StoreCommitLeaves
<1>2. /\ run'[w].step = "classify" /\ run'[w].sees = {}
      /\ \A v \in Run \ {w} : run'[v] = run[v]
  BY DEF StoreCommit, TypeOK, NoTask
<1>3. \A v \in Run \ {w} : run[v].step # "stored"
  BY DEF StoreCommit, Sound, RunsHold
<1>4. UNCHANGED <<object, req>>
  BY DEF StoreCommit
<1>5. Exists'
  BY <1>1 DEF Exists
<1> HIDE DEF c
<1>6. NothingBefore' /\ OneReading'
  BY <1>1, <1>4, <1>5 DEF Sound, NothingBefore, OneReading, Exists
<1>7. SharesHold'
  BY <1>1, <1>4, <1>5 DEF Sound, SharesHold
<1>8. RunsHold'
  <2>1. IsFiniteSet(run'[w].sees)
    BY <1>2, FS_EmptySet
  <2>2. RunsHold
    BY DEF Sound
  <2> QED
    BY <1>2, <1>3, <1>4, <2>1, <2>2 DEF RunsHold
<1>9. ScopeFollows'
  BY <1>1 DEF ScopeFollows
<1> QED
  BY <1>6, <1>7, <1>8, <1>9 DEF Sound

LEMMA DeletesSound ==
  ASSUME TypeOK, Sound, NEW w \in Run, DeleteObject(w) \/ DeleteRow(w)
  PROVE  Sound'
<1>1. book.status # "none"
  BY Uploaded DEF Deletes
<1>2. CASE DeleteObject(w)
  <2>1. /\ run'[w].step = "delete.row" /\ run'[w].sees = run[w].sees /\ ~object'
        /\ \A v \in Run \ {w} : run'[v] = run[v]
        /\ UNCHANGED <<book, chunks, req>>
    BY <1>2 DEF DeleteObject, Goes, TypeOK, Task
  <2>2. NothingBefore'
    BY <1>1, <2>1 DEF Sound, NothingBefore
  <2>3. RunsHold'
    BY <2>1 DEF Sound, RunsHold, Exists, Readings
  <2> QED
    BY <2>1, <2>2, <2>3 DEF Sound, OneReading, SharesHold, Exists, ScopeFollows
<1>3. CASE DeleteRow(w)
  <2>1. /\ book'.status = "deleted" /\ chunks' = {} /\ ~object
        /\ run'[w].step = "idle" /\ run'[w].sees = {}
        /\ \A v \in Run \ {w} : run'[v] = run[v]
        /\ UNCHANGED <<object, req>>
    BY <1>3 DEF DeleteRow, TypeOK, BookRow, NoTask, Sound, RunsHold
  <2>2. /\ \A s \in Slot : req[s].step # "share.chunks"
        /\ \A v \in Run : run[v].step # "stored"
    BY <1>3 DEF DeleteRow, BookFree, ChunksFree
  <2>3. NothingBefore' /\ OneReading' /\ ScopeFollows'
    BY <1>1, <2>1 DEF Sound, NothingBefore, OneReading, Exists, ScopeFollows
  <2>4. SharesHold'
    BY <2>1, <2>2 DEF Sound, SharesHold, Exists
  <2>5. RunsHold'
    BY <2>1, <2>2, FS_EmptySet DEF Sound, RunsHold
  <2> QED
    BY <2>3, <2>4, <2>5 DEF Sound
<1> QED
  BY <1>2, <1>3

LEMMA NextSound ==
  ASSUME TypeOK, Sound, [Next]_vars
  PROVE  Sound'
<1>1. CASE Reingest \/ UNCHANGED vars
  <2>1. UNCHANGED <<book, object, chunks, req, run>>
    BY <1>1 DEF Reingest, vars
  <2>2. NothingBefore'
    BY <1>1, <2>1 DEF Sound, NothingBefore, Reingest, vars
  <2> QED
    BY <2>1, <2>2 DEF Sound, OneReading, SharesHold, RunsHold, Exists, Readings, ScopeFollows
<1>2. ASSUME NEW s \in Slot, Owner(s) \/ Handles(s)
      PROVE  Sound'
  BY <1>2, OwnerSound
<1>3. ASSUME NEW w \in Run, \/ Ingests(w) \/ Deletes(w)
                            \/ FailUnrecorded(w) \/ WorkerLost(w) \/ Redelivered(w)
      PROVE  Sound'
  BY <1>3, RunsSound, StatusesSound, StoreInsertSound, StoreCommitSound, DeletesSound
     DEF Ingests, Deletes
<1> QED
  BY <1>1, <1>2, <1>3 DEF Next

-----------------------------------------------------------------------------
(***************************************************************************)
(* The theorems.                                                           *)
(***************************************************************************)
\* However requests, workers, triggers, locks, retries and faults interleave, every row is
\* of its type and the book has one whole reading at most, in its own scope.
THEOREM Correct == Spec => [](TypeOK /\ Sound)
<1>1. Init => TypeOK /\ Sound
  <2> SUFFICES ASSUME Init PROVE TypeOK /\ Sound
    OBVIOUS
  <2>1. TypeOK
    <3>1. 0 \in Nat /\ 0 \in 0..MaxMishaps
      BY BoundsAssumption
    <3> QED
      BY <3>1, NoRows DEF Init, TypeOK
  <2>2. NothingBefore /\ OneReading /\ SharesHold /\ ScopeFollows
    BY DEF Init, NothingBefore, OneReading, SharesHold, ScopeFollows, Exists, NoBook, Idle, NoTask
  <2>3. RunsHold
    BY FS_EmptySet DEF Init, RunsHold, NoTask
  <2> QED
    BY <2>1, <2>2, <2>3 DEF Sound
<1>2. TypeOK /\ Sound /\ [Next]_vars => (TypeOK /\ Sound)'
  BY NextType, NextSound
<1> QED
  BY <1>1, <1>2, PTL DEF Spec

\* Every row, request, task and message has its type.
THEOREM TypeCorrect == Spec => []TypeOK
BY Correct, PTL

\* A chunk carries the scope of its book, whatever shares, unshares and readings overlap:
\* the trigger's update and the run's insert never miss each other.
THEOREM ScopeFollowsHolds == Spec => []ScopeFollows
<1>1. Sound => ScopeFollows
  BY DEF Sound
<1> QED
  BY <1>1, Correct, PTL

\* A deleted book leaves neither its file nor a passage, whatever run was storing it and
\* whichever step of the deletion was tried again.
THEOREM DeletedLeavesNothingHolds == Spec => []DeletedLeavesNothing
<1>1. Sound => DeletedLeavesNothing
  BY DEF Sound, OneReading, DeletedLeavesNothing
<1> QED
  BY <1>1, Correct, PTL

LEMMA OwnerShelves ==
  ASSUME TypeOK, Sound, NEW s \in Slot, Owner(s) \/ Handles(s)
  PROVE  [AsShelf!Next]_(AsShelf!shelfVars)
<1> USE DEF AsShelf!Next, AsShelf!shelfVars
<1>1. CASE ShareChunks(s)
  <2> DEFINE target == Other(req[s].row.scope)
  <2>1. /\ book'.status = book.status /\ book'.scope = target /\ target \in Scope
        /\ chunks' = {[c EXCEPT !.scope = target] : c \in chunks}
    BY <1>1 DEF ShareChunks, TypeOK, BookRow, Other, Scope
  <2>2. book.status # "deleted" /\ chunks # {}
    BY <1>1 DEF ShareChunks, Sound, SharesHold, Exists
  <2> HIDE DEF target
  <2>3. AsShelf!ShareWith(target)
    BY <2>1, <2>2 DEF AsShelf!ShareWith
  <2> QED
    BY <2>1, <2>3
<1>2. CASE UploadCommit(s)
  <2>1. book = NoBook
    BY <1>2 DEF UploadCommit, Sound, NothingBefore
  <2>2. book'.scope = book.scope /\ book.status # "deleted" /\ book'.status # "deleted"
    BY <1>2, <2>1 DEF UploadCommit, NoBook
  <2> QED
    BY <1>2, <2>2 DEF UploadCommit
<1>3. CASE RetryCommit(s)
  <2> DEFINE new == [req[s].row EXCEPT !.status = "uploaded", !.error = Null]
  <2>1. new.status = "uploaded" /\ new.scope = req[s].row.scope
    BY DEF TypeOK, Handler, BookRow
  <2>2. book' = Updated(book, req[s].row, new) /\ Exists /\ UNCHANGED chunks
    BY <1>3 DEF RetryCommit
  <2> HIDE DEF new
  <2>3. book'.scope = book.scope /\ book.status # "deleted" /\ book'.status # "deleted"
    BY <2>1, <2>2 DEF Updated, TypeOK, BookRow, Exists
  <2> QED
    BY <2>2, <2>3
<1>4. CASE UNCHANGED <<book, chunks>>
  BY <1>4
<1> QED
  BY <1>1, <1>2, <1>3, <1>4
     DEF Owner, Handles, Upload, ShareLoad, RetryLoad, DeleteAsk, RequestLost, Enqueue,
         ShareBook, ShareAborted, RetryGone, DeleteEnqueue

LEMMA RunShelves ==
  ASSUME TypeOK, Sound, NEW w \in Run, Ingests(w) \/ Deletes(w)
  PROVE  [AsShelf!Next]_(AsShelf!shelfVars)
<1> USE DEF AsShelf!Next, AsShelf!shelfVars
<1>1. CASE StoreCommit(w)
  <2> DEFINE c == [by |-> Fresh(w), scope |-> book.scope]
  <2>1. /\ chunks' = {c}
        /\ Exists /\ book'.scope = book.scope /\ book'.status \in {book.status, "ready"}
    BY <1>1, StoreCommitLeaves
  <2>2. c \in [by : Nat, scope : {book.scope}]
    BY FreshName
  <2> HIDE DEF c
  <2>3. AsShelf!Replace
    BY <2>1, <2>2 DEF AsShelf!Replace, Exists
  <2> QED
    BY <2>3
<1>2. CASE DeleteRow(w)
  <2>1. book'.status = "deleted" /\ book'.scope = book.scope /\ chunks' = {}
    BY <1>2 DEF DeleteRow, TypeOK, BookRow
  <2>2. CASE book.status = "deleted"
    BY <2>1, <2>2 DEF Sound, OneReading
  <2>3. CASE book.status # "deleted"
    BY <2>1, <2>3 DEF AsShelf!Remove
  <2> QED
    BY <2>2, <2>3
<1>3. CASE IngestStage(w) \/ MarkFailed(w)
  <2>1. book'.scope = book.scope /\ (book'.status = "deleted" <=> book.status = "deleted")
    BY <1>3 DEF IngestStage, SetStatus, MarkFailed, TypeOK, BookRow, Exists
  <2> QED
    BY <1>3, <2>1 DEF IngestStage, SetStatus, MarkFailed
<1>4. CASE UNCHANGED <<book, chunks>>
  BY <1>4
<1> QED
  BY <1>1, <1>2, <1>3, <1>4
     DEF Ingests, Deletes, IngestTake, IngestBad, StoreLook, StoreInsert, Classified,
         IngestError, DeleteTake, DeleteObject, DeleteError

\* Rows, locks, triggers, queued tasks and retries implement the shelf: the passages that
\* answer are always those of one reading, replaced, shared and removed in one step.
THEOREM ImplementsShelf == Spec => IsShelf
<1>1. Init => AsShelf!Init
  BY DEF Init, NoBook, AsShelf!Init
<1>2. TypeOK /\ Sound /\ [Next]_vars => [AsShelf!Next]_(AsShelf!shelfVars)
  <2> SUFFICES ASSUME TypeOK, Sound, [Next]_vars
               PROVE  [AsShelf!Next]_(AsShelf!shelfVars)
    OBVIOUS
  <2>1. CASE \/ Reingest \/ UNCHANGED vars
             \/ \E w \in Run : FailUnrecorded(w) \/ WorkerLost(w) \/ Redelivered(w)
    BY <2>1 DEF Reingest, vars, FailUnrecorded, WorkerLost, Redelivered, AsShelf!shelfVars
  <2> QED
    BY <2>1, OwnerShelves, RunShelves DEF Next
<1> QED
  BY <1>1, <1>2, Correct, PTL DEF Spec, IsShelf, AsShelf!Spec

=============================================================================
