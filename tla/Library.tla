------------------------------- MODULE Library -------------------------------
(***************************************************************************)
(* One book from its upload to its deletion: the handlers of               *)
(* backend/app/api/v1/books.py and services/books.py, the tasks            *)
(* ingest_book and delete_book of workers/tasks/ingest.py, the operator's  *)
(* reingest.py, and the database triggers that keep the scope of a chunk   *)
(* equal to that of its book.                                              *)
(*                                                                         *)
(* The chapters and chunks one run stores are one record here, named by    *)
(* the run's reading of the book (`by`), with the scope its rows carry.    *)
(* The transaction that replaces them is in three steps: its DELETE fixes  *)
(* the rows it found; the rows are deleted and the new ones inserted, each *)
(* with the scope the book has then; the book row is written and all of it *)
(* committed.  Row locks are explicit: a share holds the book row until it *)
(* has the chunks, a run holds the chunks until it has the book row.       *)
(* A write of the status alone, with the load before it, is one step, and  *)
(* parsing, chunking and embedding are one status: nothing reads which.    *)
(***************************************************************************)
EXTENDS Integers, FiniteSetsExt, Functions

CONSTANTS
  Slot,        \* concurrent API request handlers
  Run,         \* Celery processes of the `ingest` queue
  Null,        \* SQL NULL
  MaxRetries,  \* max_retries of ingest_book
  Requests,    \* the kinds of request the owner and the operator issue
  Faults,      \* which of AnyFault may happen
  MaxQueued,   \* bound on the messages waiting when somebody asks for another task
  MaxMishaps   \* bound on the faults that happen

Kind == {"share", "retry", "delete", "reingest"}

\* An API process dies; a worker dies; a message is delivered again; the failure handler
\* fails.
AnyFault == {"api", "worker", "again", "handler"}

ASSUME BoundsAssumption ==
  /\ {MaxRetries, MaxQueued, MaxMishaps} \subseteq Nat
  /\ Requests \subseteq Kind
  /\ Faults \subseteq AnyFault
ASSUME NullAssumption == Null # "failed"
ASSUME RunAssumption == IsFiniteSet(Run)

VARIABLES
  book,         \* the books row; status "none" until it is inserted
  object,       \* the file is in Storage
  chunks,       \* the committed chapters and chunks of the book
  req,          \* the owner's requests: step and what they loaded
  queue,        \* ingest_book messages by the retries they carry
  deletes,      \* delete_book messages
  run,          \* what each worker process is doing
  mishaps,      \* faults so far
  stranded      \* a message was never sent, or a failure never recorded

vars == <<book, object, chunks, req, queue, deletes, run, mishaps, stranded>>

-----------------------------------------------------------------------------
Status == {"none", "uploaded", "working", "ready", "failed", "deleted"}
Scope == {"personal", "canon"}

BookRow == [status : Status, scope : Scope, error : {Null, "failed"}]
NoBook == [status |-> "none", scope |-> "personal", error |-> Null]

Exists == book.status \notin {"none", "deleted"}

Chunk == [by : Nat, scope : Scope]
Readings == {c.by : c \in chunks}

Handler ==
  [step : {"idle", "upload.commit", "enqueue", "share.book", "share.chunks",
           "retry.commit", "delete.enqueue"},
   row  : BookRow]

Idle == [step |-> "idle", row |-> NoBook]

Task ==
  [step    : {"idle", "parse", "read", "embed", "swap", "stored", "classify",
              "fail", "delete.object", "delete.row"},
   retries : 0..MaxRetries,
   row     : BookRow,
   sees    : SUBSET Nat,          \* the readings its DELETE found
   scope   : Scope]               \* the scope its rows were inserted with

NoTask ==
  [step |-> "idle", retries |-> 0, row |-> NoBook, sees |-> {}, scope |-> "personal"]

TypeOK ==
  /\ book \in BookRow
  /\ object \in BOOLEAN
  /\ chunks \subseteq Chunk
  /\ req \in [Slot -> Handler]
  /\ queue \in [0..MaxRetries -> Nat]
  /\ deletes \in Nat
  /\ run \in [Run -> Task]
  /\ mishaps \in 0..MaxMishaps
  /\ stranded \in BOOLEAN

Init ==
  /\ book = NoBook
  /\ object = FALSE
  /\ chunks = {}
  /\ req = [s \in Slot |-> Idle]
  /\ queue = [n \in 0..MaxRetries |-> 0]
  /\ deletes = 0
  /\ run = [w \in Run |-> NoTask]
  /\ mishaps = 0
  /\ stranded = FALSE

\* What an UPDATE leaves of the row: new values where they differ from the loaded ones.
Updated(row, loaded, new) ==
  [c \in DOMAIN row |-> IF new[c] # loaded[c] THEN new[c] ELSE row[c]]

\* A transaction that has updated the book row and not committed holds it.
BookFree == \A s \in Slot : req[s].step # "share.chunks"
\* A transaction that has deleted the chunks and not committed holds them.
ChunksFree == \A w \in Run : run[w].step # "stored"

Done(s) == req' = [req EXCEPT ![s] = Idle]
Mishap(fault) == fault \in Faults /\ mishaps < MaxMishaps /\ mishaps' = mishaps + 1
Asked == deletes + SumFunction(queue)
Enqueued(retries) == queue' = [queue EXCEPT ![retries] = @ + 1]

TaskVars == <<queue, deletes, run>>

-----------------------------------------------------------------------------
(***************************************************************************)
(* Uploading: the file first, then the row, then the message.              *)
(***************************************************************************)
Upload(s) ==
  /\ book.status = "none" /\ ~object
  /\ req[s].step = "idle"
  /\ object' = TRUE
  /\ req' = [req EXCEPT ![s].step = "upload.commit"]
  /\ UNCHANGED <<book, chunks, TaskVars, mishaps, stranded>>

UploadCommit(s) ==
  /\ req[s].step = "upload.commit"
  /\ book' = [NoBook EXCEPT !.status = "uploaded"]
  /\ req' = [req EXCEPT ![s].step = "enqueue"]
  /\ UNCHANGED <<object, chunks, TaskVars, mishaps, stranded>>

Enqueue(s) ==
  /\ req[s].step = "enqueue"
  /\ Enqueued(0)
  /\ Done(s)
  /\ UNCHANGED <<book, object, chunks, deletes, run, mishaps, stranded>>

\* A request dies with its process.  Its uncommitted transaction is rolled back; the file
\* it stored stays, and a message it has not sent is never sent.
RequestLost(s) ==
  /\ req[s].step # "idle"
  /\ Mishap("api")
  /\ stranded' = (stranded \/ req[s].step = "enqueue")
  /\ Done(s)
  /\ UNCHANGED <<book, object, chunks, TaskVars>>

-----------------------------------------------------------------------------
(***************************************************************************)
(* Sharing and unsharing.  The check is on the loaded row; the UPDATE of   *)
(* the book fires the trigger that updates its chunks, which waits for a   *)
(* run that has deleted them.                                              *)
(***************************************************************************)
Other(scope) == IF scope = "canon" THEN "personal" ELSE "canon"

ShareLoad(s) ==
  /\ "share" \in Requests
  /\ req[s].step = "idle"
  /\ Exists
  /\ book.scope = "personal" => book.status = "ready"
  /\ req' = [req EXCEPT ![s] = [step |-> "share.book",
                                 row  |-> [NoBook EXCEPT !.scope = book.scope]]]
  /\ UNCHANGED <<book, object, chunks, TaskVars, mishaps, stranded>>

ShareBook(s) ==
  /\ req[s].step = "share.book"
  /\ Exists /\ BookFree
  /\ req' = [req EXCEPT ![s].step = "share.chunks"]
  /\ UNCHANGED <<book, object, chunks, TaskVars, mishaps, stranded>>

ShareChunks(s) ==
  /\ req[s].step = "share.chunks"
  /\ ChunksFree
  /\ LET target == Other(req[s].row.scope)
     IN  /\ book' = [book EXCEPT !.scope = target]
         /\ chunks' = {[c EXCEPT !.scope = target] : c \in chunks}
  /\ Done(s)
  /\ UNCHANGED <<object, TaskVars, mishaps, stranded>>

\* The row is gone, or this is the victim of a deadlock with a run.
ShareAborted(s) ==
  /\ \/ req[s].step = "share.book" /\ ~Exists
     \/ req[s].step = "share.chunks" /\ ~ChunksFree
  /\ Done(s)
  /\ UNCHANGED <<book, object, chunks, TaskVars, mishaps, stranded>>

-----------------------------------------------------------------------------
(***************************************************************************)
(* Retrying a failed book, asking for a deletion, and the operator's       *)
(* re-ingest of what is ready.                                             *)
(***************************************************************************)
RetryLoad(s) ==
  /\ "retry" \in Requests
  /\ req[s].step = "idle"
  /\ book.status = "failed"
  /\ Asked < MaxQueued
  /\ req' = [req EXCEPT ![s] = [step |-> "retry.commit", row |-> book]]
  /\ UNCHANGED <<book, object, chunks, TaskVars, mishaps, stranded>>

RetryCommit(s) ==
  /\ req[s].step = "retry.commit"
  /\ Exists /\ BookFree
  /\ book' = Updated(book, req[s].row, [req[s].row EXCEPT !.status = "uploaded", !.error = Null])
  /\ req' = [req EXCEPT ![s] = [Idle EXCEPT !.step = "enqueue"]]
  /\ UNCHANGED <<object, chunks, TaskVars, mishaps, stranded>>

RetryGone(s) ==
  /\ req[s].step = "retry.commit"
  /\ ~Exists
  /\ Done(s)
  /\ UNCHANGED <<book, object, chunks, TaskVars, mishaps, stranded>>

DeleteAsk(s) ==
  /\ "delete" \in Requests
  /\ req[s].step = "idle"
  /\ Exists
  /\ Asked < MaxQueued
  /\ req' = [req EXCEPT ![s].step = "delete.enqueue"]
  /\ UNCHANGED <<book, object, chunks, TaskVars, mishaps, stranded>>

DeleteEnqueue(s) ==
  /\ req[s].step = "delete.enqueue"
  /\ deletes' = deletes + 1
  /\ Done(s)
  /\ UNCHANGED <<book, object, chunks, queue, run, mishaps, stranded>>

Reingest ==
  /\ "reingest" \in Requests
  /\ book.status = "ready"
  /\ Asked < MaxQueued
  /\ Enqueued(0)
  /\ UNCHANGED <<book, object, chunks, req, deletes, run, mishaps, stranded>>

-----------------------------------------------------------------------------
(***************************************************************************)
(* ingest_book.                                                            *)
(***************************************************************************)
Goes(w, step) == run' = [run EXCEPT ![w].step = step]

IngestTake(w) ==
  /\ run[w].step = "idle"
  /\ \E n \in 0..MaxRetries :
       /\ queue[n] > 0
       /\ queue' = [queue EXCEPT ![n] = @ - 1]
       /\ run' = [run EXCEPT ![w] = IF Exists
                                      THEN [NoTask EXCEPT !.step = "parse", !.retries = n]
                                      ELSE NoTask]
  /\ UNCHANGED <<book, object, chunks, req, deletes, mishaps, stranded>>

\* _set_status.  A row that is gone is left gone.
SetStatus(w, from, to) ==
  /\ run[w].step = from
  /\ BookFree
  /\ book' = IF Exists THEN [book EXCEPT !.status = "working"] ELSE book
  /\ Goes(w, to)
  /\ UNCHANGED <<object, chunks, req, queue, deletes, mishaps, stranded>>

IngestStage(w) ==
  \/ SetStatus(w, "parse", "read")
  \/ object /\ SetStatus(w, "read", "embed")     \* the file was downloaded

\* The document is damaged, too long, scanned, or without text; a vector is missing.
IngestBadQuiet(w) ==
  /\ run[w].step \in {"read", "embed"}
  /\ run[w].step = "read" => object
  /\ run' = [run EXCEPT ![w] = NoTask]
  /\ UNCHANGED <<book, object, chunks, req, queue, deletes, mishaps, stranded>>

IngestBad(w) ==
  /\ run[w].step \in {"read", "embed"}
  /\ run[w].step = "read" => object
  /\ run' = [run EXCEPT ![w] = [NoTask EXCEPT !.step = "fail"]]
  /\ UNCHANGED <<book, object, chunks, req, queue, deletes, mishaps, stranded>>

\* The transaction that replaces the chunks loads the book, and its DELETE finds the rows.
StoreLook(w) ==
  /\ run[w].step = "embed"
  /\ run' = [run EXCEPT ![w] =
       IF Exists THEN [@ EXCEPT !.step = "swap", !.row = [book EXCEPT !.scope = "personal"],
                                !.sees = Readings]
       ELSE NoTask]
  /\ UNCHANGED <<book, object, chunks, req, queue, deletes, mishaps, stranded>>

\* Rows it did not find are not deleted, and have the indexes of the new ones.
Conflict(w) == Readings \ run[w].sees # {}

\* The trigger sync_chunk_scope reads the committed scope of the book.  While another run
\* holds the chunks this one waits; the book row is only locked against deletion.
StoreInsertAny(w) ==
  /\ run[w].step = "swap"
  /\ Exists /\ ChunksFree
  /\ run' = [run EXCEPT ![w].step = "stored", ![w].scope = book.scope]
  /\ UNCHANGED <<book, object, chunks, req, queue, deletes, mishaps, stranded>>

StoreInsertOwn(w) ==
  /\ run[w].step = "swap"
  /\ Exists /\ ChunksFree
  /\ ~Conflict(w)
  /\ run' = [run EXCEPT ![w].step = "stored", ![w].scope = "personal"]
  /\ UNCHANGED <<book, object, chunks, req, queue, deletes, mishaps, stranded>>

StoreInsert(w) ==
  /\ run[w].step = "swap"
  /\ Exists /\ ChunksFree
  /\ ~Conflict(w)
  /\ run' = [run EXCEPT ![w].step = "stored", ![w].scope = book.scope]
  /\ UNCHANGED <<book, object, chunks, req, queue, deletes, mishaps, stranded>>

\* A name nobody can mistake for another reading: not stored, and not seen by a run.
Fresh(w) ==
  LET known == (Readings \ run[w].sees) \cup UNION {run[v].sees : v \in Run \ {w}}
  IN  Min((0..Cardinality(known)) \ known)

StoreCommit(w) ==
  /\ run[w].step = "stored"
  /\ BookFree
  /\ chunks' = {c \in chunks : c.by \notin run[w].sees} \cup {[by |-> Fresh(w), scope |-> run[w].scope]}
  /\ book' = Updated(book, run[w].row, [run[w].row EXCEPT !.status = "ready", !.error = Null])
  /\ run' = [run EXCEPT ![w] = [NoTask EXCEPT !.step = "classify", !.retries = run[w].retries]]
  /\ UNCHANGED <<object, req, queue, deletes, mishaps, stranded>>

\* _classify fills in three columns nothing here reads, or gives up quietly.
Classified(w) ==
  /\ run[w].step = "classify"
  /\ run' = [run EXCEPT ![w] = NoTask]
  /\ UNCHANGED <<book, object, chunks, req, queue, deletes, mishaps, stranded>>

\* Anything else raised: a refused download, the embeddings service, the database (the
\* unique index, a book that is gone, the victim of a deadlock).  The task retries from
\* the start, and after the last retry records the failure.
IngestError(w) ==
  /\ run[w].step \in {"parse", "read", "embed", "swap", "stored", "classify"}
  /\ IF run[w].retries < MaxRetries
       THEN Enqueued(run[w].retries + 1) /\ run' = [run EXCEPT ![w] = NoTask]
       ELSE UNCHANGED queue /\ run' = [run EXCEPT ![w] = [NoTask EXCEPT !.step = "fail"]]
  /\ UNCHANGED <<book, object, chunks, req, deletes, mishaps, stranded>>

\* _mark_failed
MarkFailed(w) ==
  /\ run[w].step = "fail"
  /\ BookFree
  /\ book' = IF Exists THEN [book EXCEPT !.status = "failed", !.error = "failed"] ELSE book
  /\ run' = [run EXCEPT ![w] = NoTask]
  /\ UNCHANGED <<object, chunks, req, queue, deletes, mishaps, stranded>>

\* Its own failure is logged, and the message is consumed.
FailUnrecorded(w) ==
  /\ run[w].step = "fail"
  /\ Mishap("handler")
  /\ stranded' = TRUE
  /\ run' = [run EXCEPT ![w] = NoTask]
  /\ UNCHANGED <<book, object, chunks, req, queue, deletes>>

-----------------------------------------------------------------------------
(***************************************************************************)
(* delete_book: the file, then the row, and with it its chunks.            *)
(***************************************************************************)
Deleting(w) == run[w].step \in {"delete.object", "delete.row"}

DeleteTake(w) ==
  /\ run[w].step = "idle"
  /\ deletes > 0
  /\ deletes' = deletes - 1
  /\ run' = [run EXCEPT ![w] = IF Exists THEN [NoTask EXCEPT !.step = "delete.object"]
                                         ELSE NoTask]
  /\ UNCHANGED <<book, object, chunks, req, queue, mishaps, stranded>>

\* Mutant: the row goes first, and the file is left for a sweep.
DeleteObjectLater(w) ==
  /\ run[w].step = "delete.object"
  /\ Goes(w, "delete.row")
  /\ UNCHANGED <<book, object, chunks, req, queue, deletes, mishaps, stranded>>

DeleteObject(w) ==
  /\ run[w].step = "delete.object"
  /\ object' = FALSE
  /\ Goes(w, "delete.row")
  /\ UNCHANGED <<book, chunks, req, queue, deletes, mishaps, stranded>>

\* Storage or the database raises.  The task has no retry of its own, so it ends: the book
\* stays, without its file if that had gone.
DeleteError(w) ==
  /\ Deleting(w)
  /\ run' = [run EXCEPT ![w] = NoTask]
  /\ UNCHANGED <<book, object, chunks, req, queue, deletes, mishaps, stranded>>

\* The rows go by cascade.  A run that has inserted chunks holds the book against it.
DeleteRow(w) ==
  /\ run[w].step = "delete.row"
  /\ BookFree /\ ChunksFree
  /\ book' = [book EXCEPT !.status = "deleted"]
  /\ chunks' = {}
  /\ run' = [run EXCEPT ![w] = NoTask]
  /\ UNCHANGED <<object, req, queue, deletes, mishaps, stranded>>

-----------------------------------------------------------------------------
(***************************************************************************)
(* A lost worker puts its message back; a message out longer than the      *)
(* visibility timeout is delivered again while its task still runs.        *)
(***************************************************************************)
SentAgain(w) ==
  IF Deleting(w) THEN deletes' = deletes + 1 /\ UNCHANGED queue
                 ELSE Enqueued(run[w].retries) /\ UNCHANGED deletes

WorkerLost(w) ==
  /\ run[w].step \notin {"idle", "fail"}
  /\ Mishap("worker")
  /\ SentAgain(w)
  /\ run' = [run EXCEPT ![w] = NoTask]
  /\ UNCHANGED <<book, object, chunks, req, stranded>>

Redelivered(w) ==
  /\ run[w].step \notin {"idle", "fail"}
  /\ Mishap("again")
  /\ SentAgain(w)
  /\ UNCHANGED <<book, object, chunks, req, run, stranded>>

-----------------------------------------------------------------------------
Owner(s) ==
  \/ Upload(s) \/ ShareLoad(s) \/ RetryLoad(s) \/ DeleteAsk(s) \/ RequestLost(s)

Handles(s) ==
  \/ UploadCommit(s) \/ Enqueue(s) \/ ShareBook(s) \/ ShareChunks(s) \/ ShareAborted(s)
  \/ RetryCommit(s) \/ RetryGone(s) \/ DeleteEnqueue(s)

Ingests(w) ==
  \/ IngestTake(w) \/ IngestStage(w) \/ IngestBad(w)
  \/ StoreLook(w) \/ StoreInsert(w) \/ StoreCommit(w) \/ Classified(w)
  \/ IngestError(w) \/ MarkFailed(w)

Deletes(w) == DeleteTake(w) \/ DeleteObject(w) \/ DeleteRow(w) \/ DeleteError(w)

Next ==
  \/ \E s \in Slot : Owner(s) \/ Handles(s)
  \/ Reingest
  \/ \E w \in Run : \/ Ingests(w) \/ Deletes(w)
                    \/ FailUnrecorded(w) \/ WorkerLost(w) \/ Redelivered(w)

Spec == Init /\ [][Next]_vars

(***************************************************************************)
(* A request that is not lost goes on.  A worker that is not lost goes on  *)
(* with its task -- every call it makes has a timeout, and the database    *)
(* ends a deadlock.  The queue is served in order, so whatever else is in  *)
(* it, an ingest message is taken in the end.                              *)
(***************************************************************************)
Fairness ==
  /\ \A s \in Slot : WF_vars(Handles(s))
  /\ \A w \in Run : WF_vars(Ingests(w) \/ Deletes(w))
  /\ SF_vars(\E w \in Run : IngestTake(w))

FairSpec == Spec /\ Fairness

-----------------------------------------------------------------------------
(***************************************************************************)
(* Properties.                                                             *)
(***************************************************************************)

\* A chunk carries the scope of its book, whatever shares, unshares and readings of the
\* book overlap: no passage the owner took back answers anybody else.
ScopeFollows == \A c \in chunks : c.scope = book.scope

\* A deleted book leaves neither its file nor a passage, whichever step of the deletion is
\* retried and whatever ingest is still writing.
DeletedLeavesNothing == book.status = "deleted" => ~object /\ chunks = {}

\* A book that was accepted ends up ready, failed with a reason, or deleted, whichever
\* worker is lost -- unless an API process dies between its commit and its message, or
\* the failure handler fails too.
Transient == book.status \in {"uploaded", "working"}
EventuallySettled == Transient ~> (~Transient \/ stranded)

\* Seen from whoever asks it questions, the library is a Shelf: one whole reading at a
\* time, replaced in one step and never missing again until it is deleted, shared and
\* unshared in one step with its passages, and shared only with passages to share.
AsShelf ==
  INSTANCE Shelf WITH
    Reading <- Nat, First <- "personal",
    passages <- chunks, scope <- book.scope, removed <- book.status = "deleted"

IsShelf == AsShelf!Spec

=============================================================================
