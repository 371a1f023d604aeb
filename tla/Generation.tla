----------------------------- MODULE Generation -----------------------------
(***************************************************************************)
(* One paper from its request to its closing: the authoring handlers of    *)
(* backend/app/api/v1/assessments.py and services/assessments.py, the task *)
(* generate_assessment that writes its questions, and the sweep that       *)
(* releases a paper whose task died.                                       *)
(*                                                                         *)
(* As in Attempts, an operation is a step per statement that decides and a *)
(* step that writes and commits; an UPDATE carries only the columns that   *)
(* differ from the loaded row.  A task loads the paper once, keeps that    *)
(* row through every checkpoint it commits (the sessions do not expire on  *)
(* commit) and never asks for the status again.  Its delete-and-insert of  *)
(* the questions is a step that fixes which rows the DELETE sees and a     *)
(* step that commits: what another transaction inserts in between is not   *)
(* deleted, and collides in the unique index.                              *)
(*                                                                         *)
(* What one run asks the model for is the module Drafting; here it is a    *)
(* number of questions.  Points are 1, titles and options are left out.    *)
(***************************************************************************)
EXTENDS Integers, FiniteSetsExt

CONSTANTS
  Slot,             \* concurrent API request handlers
  Run,              \* Celery processes of the `llm` queue
  Sweeper,          \* Celery processes running sweep_stale_generations
  Null,             \* SQL NULL
  Sizes,            \* how many questions a run may end up with
  Stale,            \* assessment_stale_after_seconds
  Requests,         \* the kinds of request the author issues through each handler
  Crashing,         \* which processes may be killed: "api", "run", "sweep"
  MaxWritten, MaxRedelivered, MaxCrashes   \* bounds

Kind == {"update", "write", "edit", "delete", "publish", "close"}

ASSUME SizesAssumption == Sizes \subseteq Nat \ {0} /\ Stale \in Nat
ASSUME BoundsAssumption ==
  /\ {MaxWritten, MaxRedelivered, MaxCrashes} \subseteq Nat
  /\ Requests \in [Slot -> SUBSET Kind]
  /\ Crashing \subseteq {"api", "run", "sweep"}
ASSUME NullAssumption ==
  Null \notin Nat /\ Null \notin {"failed", "interrupted", "live", "finished"}

VARIABLES
  age,          \* how long ago the paper was updated, as far as the sweep can tell
  paper,        \* the assessments row; status "absent" until it is inserted
  questions,    \* the committed questions rows of the paper
  nextId,       \* the next question id
  req,          \* author's requests: step and what they loaded
  queue,        \* generate_assessment messages not yet delivered
  run,          \* generation tasks
  sweep,        \* sweeps
  redelivered,  \* messages delivered again while a task still ran
  crashes       \* processes killed so far

vars == <<age, paper, questions, nextId, req, queue, run, sweep, redelivered, crashes>>

-----------------------------------------------------------------------------
PaperRow ==
  [status  : {"absent", "generating", "draft", "published", "closed"},
   error   : {Null, "failed", "interrupted"},
   trace   : {Null, "live", "finished"},     \* generation_trace, by its finished_at
   token   : Nat,                            \* share tokens minted, 0 is none
   window  : BOOLEAN,                        \* a setting update_draft changes
   score   : Nat \cup {Null}]                \* max_score

NoPaper ==
  [status |-> "absent", error |-> Null, trace |-> Null, token |-> 0,
   window |-> FALSE, score |-> Null]

\* `by` is the run that wrote a generated question (the id of its first one), and Null
\* for one the author wrote or edited.
Question == [id : Nat, index : Nat, by : Nat \cup {Null}]

Ids == {q.id : q \in questions}
Indexes == {q.index : q \in questions}

Handler ==
  [step  : {"idle", "create.enqueue", "update.commit", "write.look", "write.commit",
            "edit.look", "edit.commit", "delete.look", "delete.commit",
            "publish.look", "publish.commit", "close.commit"},
   row   : PaperRow,
   about : Nat \cup {Null}]    \* the index, question or number of questions it read

Idle == [step |-> "idle", row |-> NoPaper, about |-> Null]

Task ==
  [step : {"idle", "write", "swap", "fail.load", "fail.commit"},
   row  : PaperRow,
   sees : SUBSET Nat,          \* the questions its DELETE found
   told : BOOLEAN]             \* the exception carries a trace

NoTask == [step |-> "idle", row |-> NoPaper, sees |-> {}, told |-> FALSE]

Sweep == [step : {"idle", "release"}, row : PaperRow]

NoSweep == [step |-> "idle", row |-> NoPaper]

TypeOK ==
  /\ age \in 0..(Stale + 1)
  /\ paper \in PaperRow
  /\ questions \subseteq Question
  /\ nextId \in Nat
  /\ req \in [Slot -> Handler]
  /\ queue \in Nat
  /\ run \in [Run -> Task]
  /\ sweep \in [Sweeper -> Sweep]
  /\ redelivered \in 0..MaxRedelivered
  /\ crashes \in 0..MaxCrashes

Init ==
  /\ age = 0
  /\ paper = NoPaper
  /\ questions = {}
  /\ nextId = 0
  /\ req = [s \in Slot |-> Idle]
  /\ queue = 0
  /\ run = [w \in Run |-> NoTask]
  /\ sweep = [w \in Sweeper |-> NoSweep]
  /\ redelivered = 0
  /\ crashes = 0

\* What an UPDATE leaves of the row: new values where they differ from the loaded ones.
Updated(row, loaded, new) ==
  [c \in DOMAIN row |-> IF new[c] # loaded[c] THEN new[c] ELSE row[c]]

\* An UPDATE of the paper.  A trigger sets updated_at on every one.
Writes(row) == paper' = row /\ age' = 0

\* Of a loaded row a process keeps the columns it may write.
Kept(row, columns) == [c \in DOMAIN row |-> IF c \in columns THEN row[c] ELSE NoPaper[c]]

Done(s) == req' = [req EXCEPT ![s] = Idle]
Kill(process) ==
  /\ process \in Crashing /\ crashes < MaxCrashes /\ crashes' = crashes + 1

AuthorVars == <<req, nextId>>
TaskVars == <<queue, run, redelivered>>

-----------------------------------------------------------------------------
(***************************************************************************)
(* Creating the paper: committed first, enqueued after.                    *)
(***************************************************************************)
Create(s) ==
  /\ paper.status = "absent"
  /\ \A t \in Slot : req[t].step = "idle"
  /\ Writes([NoPaper EXCEPT !.status = "generating"])
  /\ req' = [req EXCEPT ![s].step = "create.enqueue"]
  /\ UNCHANGED <<questions, nextId, TaskVars, sweep, crashes>>

CreateEnqueue(s) ==
  /\ req[s].step = "create.enqueue"
  /\ queue' = queue + 1
  /\ Done(s)
  /\ UNCHANGED <<age, paper, questions, nextId, run, redelivered, sweep, crashes>>

CreateLost(s) ==
  /\ req[s].step = "create.enqueue"
  /\ Kill("api")
  /\ Done(s)
  /\ UNCHANGED <<age, paper, questions, nextId, TaskVars, sweep>>

-----------------------------------------------------------------------------
(***************************************************************************)
(* The author.  Every request loads the paper and is refused unless the    *)
(* LOADED status allows it; what it reads about the questions is a later   *)
(* statement, and the commit another.                                      *)
(***************************************************************************)
Load(s, kind, status, step, columns) ==
  /\ kind \in Requests[s]
  /\ req[s].step = "idle"
  /\ paper.status = status
  /\ req' = [req EXCEPT ![s] = [Idle EXCEPT !.step = step, !.row = Kept(paper, columns)]]
  /\ UNCHANGED <<age, paper, questions, nextId, TaskVars, sweep, crashes>>

Changes(s, status) ==
  \/ Load(s, "update", status, "update.commit", {"window"})
  \/ nextId < MaxWritten /\ Load(s, "write", status, "write.look", {})
  \/ Load(s, "edit", status, "edit.look", {})
  \/ Load(s, "delete", status, "delete.look", {})

\* _require_editable
EditableLoadAny(s) == Changes(s, "draft") \/ Changes(s, "published")
EditableLoad(s) == Changes(s, "draft")

PublishLoad(s) == Load(s, "publish", "draft", "publish.look", {"status", "score"})
CloseLoad(s) == Load(s, "close", "published", "close.commit", {"status"})

Look(s, from, to, about) ==
  /\ req[s].step = from
  /\ req' = [req EXCEPT ![s].step = to, ![s].about = about]
  /\ UNCHANGED <<age, paper, questions, nextId, TaskVars, sweep, crashes>>

\* coalesce(max(index), -1) + 1
WriteLook(s) == Look(s, "write.look", "write.commit", Max(Indexes \cup {-1}) + 1)

ChangeLook(s) ==
  \E id \in Ids : \/ Look(s, "edit.look", "edit.commit", id)
                  \/ Look(s, "delete.look", "delete.commit", id)

PublishLook(s) ==
  questions # {} /\ Look(s, "publish.look", "publish.commit", Cardinality(questions))

\* A request whose question is gone, or that finds none to publish, is refused.
Refused(s) ==
  /\ \/ req[s].step \in {"edit.look", "delete.look"}
     \/ req[s].step = "publish.look" /\ questions = {}
  /\ Done(s)
  /\ UNCHANGED <<age, paper, questions, nextId, TaskVars, sweep, crashes>>

UpdateCommit(s) ==
  /\ req[s].step = "update.commit"
  /\ Writes(Updated(paper, req[s].row, [req[s].row EXCEPT !.window = ~@]))
  /\ Done(s)
  /\ UNCHANGED <<questions, nextId, TaskVars, sweep, crashes>>

\* The unique index refuses the second of two questions with one index.
WriteCommit(s) ==
  /\ req[s].step = "write.commit"
  /\ IF req[s].about \in Indexes
       THEN UNCHANGED <<questions, nextId>>
       ELSE /\ questions' = questions \cup
                              {[id |-> nextId, index |-> req[s].about, by |-> Null]}
            /\ nextId' = nextId + 1
  /\ Done(s)
  /\ UNCHANGED <<age, paper, TaskVars, sweep, crashes>>

\* An edit of a row that is gone matches nothing and is rolled back.
EditCommit(s) ==
  /\ req[s].step = "edit.commit"
  /\ questions' = {IF q.id = req[s].about THEN [q EXCEPT !.by = Null] ELSE q : q \in questions}
  /\ Done(s)
  /\ UNCHANGED <<age, paper, nextId, TaskVars, sweep, crashes>>

\* delete_question and its _reindex.  The listing is merged with the renumbering: a row
\* that is inserted between them keeps an index past the others, as one inserted later.
Renumbered(rows) ==
  {[q EXCEPT !.index = Cardinality({r \in rows : r.index < q.index})] : q \in rows}

DeleteCommit(s) ==
  /\ req[s].step = "delete.commit"
  /\ questions' = Renumbered({q \in questions : q.id # req[s].about})
  /\ Done(s)
  /\ UNCHANGED <<age, paper, nextId, TaskVars, sweep, crashes>>

PublishCommit(s) ==
  /\ req[s].step = "publish.commit"
  /\ Writes(Updated(paper, req[s].row,
                [req[s].row EXCEPT !.status = "published", !.score = req[s].about,
                                   !.token = paper.token + 1]))
  /\ Done(s)
  /\ UNCHANGED <<questions, nextId, TaskVars, sweep, crashes>>

CloseCommit(s) ==
  /\ req[s].step = "close.commit"
  /\ Writes(Updated(paper, req[s].row, [req[s].row EXCEPT !.status = "closed"]))
  /\ Done(s)
  /\ UNCHANGED <<questions, nextId, TaskVars, sweep, crashes>>

-----------------------------------------------------------------------------
(***************************************************************************)
(* generate_assessment.  The loaded row is the one it started from, for    *)
(* the whole run.                                                          *)
(***************************************************************************)
RunLoad(w) ==
  /\ run[w].step = "idle"
  /\ queue > 0
  /\ queue' = queue - 1
  /\ run' = [run EXCEPT ![w] = [NoTask EXCEPT !.step = "write",
                                         !.row = Kept(paper, {"status", "error"})]]
  /\ UNCHANGED <<age, paper, questions, AuthorVars, redelivered, sweep, crashes>>

\* A checkpoint commits the trace so far, and nothing else.
RunCheckpoint(w) ==
  /\ run[w].step = "write"
  /\ Writes([paper EXCEPT !.trace = "live"])
  /\ UNCHANGED <<questions, AuthorVars, TaskVars, sweep, crashes>>

RunSwap(w) ==
  /\ run[w].step = "write"
  /\ run' = [run EXCEPT ![w].step = "swap", ![w].sees = Ids]
  /\ UNCHANGED <<age, paper, questions, AuthorVars, queue, redelivered, sweep, crashes>>

Drafted(n) == {[id |-> nextId + i, index |-> i, by |-> nextId] : i \in 0..(n - 1)}
Finished(row) == [row EXCEPT !.status = "draft", !.error = Null, !.trace = "finished"]

RunCommitAppends(w) ==
  /\ run[w].step = "swap"
  /\ \E n \in Sizes :
       /\ questions' = questions \cup
            {[q EXCEPT !.index = @ + 1 + Max(Indexes \cup {-1})] : q \in Drafted(n)}
       /\ nextId' = nextId + n
  /\ Writes([Updated(paper, run[w].row, Finished(run[w].row)) EXCEPT !.trace = "finished"])
  /\ run' = [run EXCEPT ![w] = NoTask]
  /\ UNCHANGED <<req, queue, redelivered, sweep, crashes>>

\* The trace of a run differs from every trace before it, so it is always written.
RunCommit(w) ==
  /\ run[w].step = "swap"
  /\ \E n \in Sizes :
       LET kept == {q \in questions : q.id \notin run[w].sees}
       IN  /\ \A q \in kept : q.index >= n
           /\ questions' = kept \cup Drafted(n)
           /\ nextId' = nextId + n
  /\ Writes([Updated(paper, run[w].row, Finished(run[w].row)) EXCEPT !.trace = "finished"])
  /\ run' = [run EXCEPT ![w] = NoTask]
  /\ UNCHANGED <<req, queue, redelivered, sweep, crashes>>

Fails(w, told) ==
  /\ run' = [run EXCEPT ![w] = [NoTask EXCEPT !.step = "fail.load", !.told = told]]
  /\ UNCHANGED <<age, paper, questions, AuthorVars, queue, redelivered, sweep, crashes>>

RunConflict(w) ==
  /\ run[w].step = "swap"
  /\ \E n \in Sizes, q \in questions : q.id \notin run[w].sees /\ q.index < n
  /\ Fails(w, FALSE)

\* No usable question, with its trace; or any other exception, without.
RunFail(w) ==
  \/ run[w].step = "write" /\ Fails(w, TRUE)
  \/ run[w].step \in {"write", "swap"} /\ Fails(w, FALSE)

FailLoad(w) ==
  /\ run[w].step = "fail.load"
  /\ run' = [run EXCEPT ![w].step = "fail.commit",
                         ![w].row = Kept(paper, {"status", "error", "trace"})]
  /\ UNCHANGED <<age, paper, questions, AuthorVars, queue, redelivered, sweep, crashes>>

FailCommit(w) ==
  /\ run[w].step = "fail.commit"
  /\ LET new == [run[w].row EXCEPT !.status = "draft", !.error = "failed",
                                   !.trace = IF run[w].told THEN "finished" ELSE @]
     IN  Writes(Updated(paper, run[w].row, new))
  /\ run' = [run EXCEPT ![w] = NoTask]
  /\ UNCHANGED <<questions, AuthorVars, queue, redelivered, sweep, crashes>>

\* The failure handler's own failure is logged, and the message is consumed.
FailUnrecorded(w) ==
  /\ run[w].step \in {"fail.load", "fail.commit"}
  /\ run' = [run EXCEPT ![w] = NoTask]
  /\ UNCHANGED <<age, paper, questions, AuthorVars, queue, redelivered, sweep, crashes>>

\* A lost process puts its message back; a message out longer than the visibility
\* timeout is delivered again while its task still runs.
RunLost(w) ==
  /\ run[w].step # "idle"
  /\ Kill("run")
  /\ run' = [run EXCEPT ![w] = NoTask]
  /\ queue' = queue + 1
  /\ UNCHANGED <<age, paper, questions, AuthorVars, redelivered, sweep>>

Redeliver ==
  /\ \E w \in Run : run[w].step # "idle"
  /\ redelivered < MaxRedelivered
  /\ redelivered' = redelivered + 1
  /\ queue' = queue + 1
  /\ UNCHANGED <<age, paper, questions, AuthorVars, run, sweep, crashes>>

-----------------------------------------------------------------------------
(***************************************************************************)
(* The sweep selects stale papers and releases what it loaded.             *)
(***************************************************************************)
IsStale == paper.status = "generating" /\ age > Stale

SweepLoadTraced(w) ==
  /\ sweep[w].step = "idle"
  /\ IsStale /\ paper.trace # Null
  /\ sweep' = [sweep EXCEPT ![w] = [step |-> "release",
                                        row |-> Kept(paper, {"status", "error", "trace"})]]
  /\ UNCHANGED <<age, paper, questions, AuthorVars, TaskVars, crashes>>

SweepLoad(w) ==
  /\ sweep[w].step = "idle"
  /\ IsStale
  /\ sweep' = [sweep EXCEPT ![w] = [step |-> "release",
                                        row |-> Kept(paper, {"status", "error", "trace"})]]
  /\ UNCHANGED <<age, paper, questions, AuthorVars, TaskVars, crashes>>

Released(row) ==
  [row EXCEPT !.status = "draft", !.error = "interrupted",
              !.trace = IF @ = "live" THEN "finished" ELSE @]

SweepRelease(w) ==
  /\ sweep[w].step = "release"
  /\ Writes(Updated(paper, sweep[w].row, Released(sweep[w].row)))
  /\ sweep' = [sweep EXCEPT ![w] = NoSweep]
  /\ UNCHANGED <<questions, AuthorVars, TaskVars, crashes>>

SweepLost(w) ==
  /\ sweep[w].step = "release"
  /\ Kill("sweep")
  /\ sweep' = [sweep EXCEPT ![w] = NoSweep]
  /\ UNCHANGED <<age, paper, questions, AuthorVars, TaskVars>>

\* Nobody asks how old a paper is that is not generating.
Tick ==
  /\ paper.status = "generating"
  /\ age <= Stale
  /\ age' = age + 1
  /\ UNCHANGED <<paper, questions, AuthorVars, TaskVars, sweep, crashes>>

-----------------------------------------------------------------------------
Creates(s) == Create(s) \/ CreateEnqueue(s) \/ CreateLost(s)

Authors(s) ==
  \/ EditableLoad(s) \/ PublishLoad(s) \/ CloseLoad(s)
  \/ WriteLook(s) \/ ChangeLook(s) \/ PublishLook(s) \/ Refused(s)
  \/ UpdateCommit(s) \/ WriteCommit(s) \/ EditCommit(s) \/ DeleteCommit(s)
  \/ PublishCommit(s) \/ CloseCommit(s)

Works(w) ==
  \/ RunLoad(w) \/ RunCheckpoint(w) \/ RunSwap(w) \/ RunCommit(w)
  \/ RunConflict(w) \/ RunFail(w) \/ FailLoad(w) \/ FailCommit(w) \/ FailUnrecorded(w)
  \/ RunLost(w)

Sweeps(w) == SweepLoad(w) \/ SweepRelease(w) \/ SweepLost(w)

Next ==
  \/ Tick
  \/ Redeliver
  \/ \E s \in Slot : Creates(s) \/ Authors(s)
  \/ \E w \in Run : Works(w)
  \/ \E w \in Sweeper : Sweeps(w)

Spec == Init /\ [][Next]_vars

(***************************************************************************)
(* Beat schedules the sweep and time passes.  A run makes a bounded number *)
(* of calls, each with a timeout, so one that is not killed stops writing; *)
(* nothing else is assumed of it: it may hang in its last transaction or   *)
(* in its failure handler, and its message may never be delivered.         *)
(***************************************************************************)
Fairness ==
  /\ WF_vars(Tick)
  /\ \A w \in Sweeper : WF_vars(SweepLoad(w) \/ SweepRelease(w))
  /\ \A w \in Run : WF_vars(RunSwap(w) \/ RunFail(w))

FairSpec == Spec /\ Fairness

-----------------------------------------------------------------------------
(***************************************************************************)
(* Properties.                                                             *)
(***************************************************************************)

\* The generated questions of a paper come from one run, and no two questions share a
\* place: two deliveries, or a slow run and what the author wrote in between, never leave a
\* mixture.
OneDrafting ==
  \A q, r \in questions :
    /\ q.by # Null /\ r.by # Null => q.by = r.by
    /\ q.index = r.index => q = r

\* Who can still change a paper that has been published: requests that loaded it as a
\* draft, runs and messages left over from its writing, and a sweep that found it stale.
InFlight ==
  \/ queue > 0
  \/ \E s \in Slot : req[s].step \notin {"idle", "close.commit"}
  \/ \E w \in Run : run[w].step # "idle"
  \/ \E w \in Sweeper : sweep[w].step # "idle"

Sealed == paper.status \in {"published", "closed"} /\ ~InFlight

\* Publishing freezes: once nothing of before is in flight, no question, setting, score or
\* link of the paper ever changes, it never becomes a draft again, and closing is final.
FrozenSeal ==
  [][Sealed =>
       /\ Sealed'
       /\ UNCHANGED questions
       /\ paper' \in {paper, [paper EXCEPT !.status = "closed"]}]_vars

\* A paper that is being written ends up with its questions or with a reason, whichever
\* process is lost: before the message is sent, while it is delivered, or in the handler.
EventuallyTold ==
  paper.status = "generating" ~>
    paper.status # "generating" /\ (questions # {} \/ paper.error # Null)

=============================================================================
