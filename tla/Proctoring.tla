----------------------------- MODULE Proctoring -----------------------------
(***************************************************************************)
(* The monitoring record of one proctored attempt: the definer functions   *)
(* of the proctoring migration that the sitter's requests call, the        *)
(* minutely sweep of workers/tasks/maintenance.py, and the aggregation of  *)
(* workers/tasks/proctoring.py.                                            *)
(*                                                                         *)
(* Concurrency.  now() is the START of a transaction, so every request and *)
(* sweep carries the `now` it began with.  Each function reads the session *)
(* in one statement and writes it by id in a later one, which does not ask *)
(* again what the first one saw; a write is merged with its commit, since  *)
(* until then it only delays the other writers of the row.                 *)
(*                                                                         *)
(* Refused requests change nothing and are stuttering steps.  The payload  *)
(* of an observation is advisory: of an event the record keeps its type,   *)
(* received_at, and for a gap the heartbeat it starts from.                *)
(***************************************************************************)
EXTENDS Integers, FiniteSets, Sequences

CONSTANTS
  Slot,            \* concurrent requests of the sitter (tabs, retries)
  Sweeper,         \* runs of sweep_stale_sessions that can overlap
  Aggregator,      \* processes consuming the `proctor` queue
  Null,
  Deadline,        \* attempts.deadline_at, Null when untimed
  GapAfter,        \* HEARTBEAT_GAP_SECONDS
  AbandonAfter,    \* PROCTOR_ABANDON_SECONDS
  Slack,           \* the five minutes an attempt may be past its deadline
  Window, Limit,   \* at most `Limit` events a `Window` before a batch
  Batch,           \* events of a batch: sequences of "observed", "clock_skew"
  Retention,       \* EVIDENCE_RETENTION_DAYS
  Requests,        \* the kinds of request the environment issues
  Crashing,        \* which processes may be killed: "api", "sweep", "worker"
  MaxClock, MaxEvents, MaxQueue, MaxCrashes  \* bounds

Kind == {"open", "record", "beat", "submit", "void"}
EventType == {"session_start", "observed", "clock_skew", "heartbeat_gap", "session_end"}

ASSUME TimesAssumption ==
  /\ {GapAfter, AbandonAfter, Slack, Window, Limit, Retention} \subseteq Nat
  /\ Limit > 0
  /\ Deadline \in Nat \cup {Null}
  /\ Null \notin Nat
ASSUME BatchAssumption ==
  /\ Batch \subseteq Seq({"observed", "clock_skew"})
  /\ Batch # {} /\ IsFiniteSet(Batch)  \* a batch has at most so many events
ASSUME BoundsAssumption ==
  /\ {MaxClock, MaxEvents, MaxQueue, MaxCrashes} \subseteq Nat
  /\ IsFiniteSet(Slot) /\ IsFiniteSet(Sweeper)
  /\ Requests \subseteq Kind
  /\ Crashing \subseteq {"api", "sweep", "worker"}

VARIABLES
  clock,       \* server time
  inProgress,  \* attempts.status = 'in_progress'
  session,     \* the proctor_sessions row; status "none" until it is inserted
  events,      \* the proctor_events rows, in commit order
  req,         \* the sitter's requests
  sweep,       \* the sweeps
  queue,       \* aggregate_session messages not yet delivered
  agg,         \* the aggregations
  crashes,
  lost,        \* history: an end was committed and its aggregation never enqueued
  overlapped   \* history: an aggregation began while one of another end was under way

vars == <<clock, inProgress, session, events, req, sweep, queue, agg, crashes, lost, overlapped>>

Time == Nat \cup {Null}

\* compute_integrity_score is a function of the events and the length of the sitting;
\* a snapshot of the append-only events is known by its length.
Score == [count : Nat, seconds : Nat]
ASSUME NullAssumption == Null \notin Score

SessionRow ==
  [status  : {"none", "active", "closed", "aborted"},
   started : Time, ended : Time, beat : Time,
   score   : Score \cup {Null},
   purge   : Time]

NoSession ==
  [status |-> "none", started |-> Null, ended |-> Null, beat |-> Null,
   score |-> Null, purge |-> Null]

Event == [type : EventType, at : Nat, since : Time]
Observation(type, at) == [type |-> type, at |-> at, since |-> Null]

Request ==
  [step : {"idle", "open.check", "open.insert", "record.check", "record.write",
           "beat.check", "beat.write", "submit.check", "submit.commit", "submit.enqueue"},
   now : Nat, closes : BOOLEAN, found : BOOLEAN]
NoRequest == [step |-> "idle", now |-> 0, closes |-> FALSE, found |-> FALSE]

Sweep ==
  [step : {"idle", "gap", "select", "abort", "enqueue"}, now : Nat, tx : Nat, since : Time]
NoSweep == [step |-> "idle", now |-> 0, tx |-> 0, since |-> Null]

Aggregation == [step : {"idle", "events", "commit"}, row : SessionRow, seen : Nat]
NoAggregation == [step |-> "idle", row |-> NoSession, seen |-> 0]

TypeOK ==
  /\ clock \in 0..MaxClock
  /\ inProgress \in BOOLEAN
  /\ session \in SessionRow
  /\ events \in Seq(Event)
  /\ req \in [Slot -> Request]
  /\ sweep \in [Sweeper -> Sweep]
  /\ queue \in Nat
  /\ agg \in [Aggregator -> Aggregation]
  /\ crashes \in 0..MaxCrashes
  /\ lost \in BOOLEAN /\ overlapped \in BOOLEAN

Init ==
  /\ clock = 0
  /\ inProgress = TRUE
  /\ session = NoSession
  /\ events = <<>>
  /\ req = [s \in Slot |-> NoRequest]
  /\ sweep = [w \in Sweeper |-> NoSweep]
  /\ queue = 0
  /\ agg = [a \in Aggregator |-> NoAggregation]
  /\ crashes = 0
  /\ lost = FALSE /\ overlapped = FALSE

Ended == session.status \in {"closed", "aborted"}

Tick ==
  /\ clock < MaxClock
  /\ clock' = clock + 1
  /\ UNCHANGED <<inProgress, session, events, req, sweep, queue, agg, crashes, lost, overlapped>>

\* The author voids the sitting (services/attempts.void); its session stays as it is.
Void ==
  /\ "void" \in Requests
  /\ inProgress = TRUE
  /\ inProgress' = FALSE
  /\ UNCHANGED <<clock, session, events, req, sweep, queue, agg, crashes, lost, overlapped>>

-----------------------------------------------------------------------------
(***************************************************************************)
(* The sitter's requests.  The guard's first statement begins the          *)
(* transaction; the function's check comes after it.                       *)
(***************************************************************************)
Ends(s) == req' = [req EXCEPT ![s] = NoRequest]
Goes(s, step) == req' = [req EXCEPT ![s].step = step]

Begin(s, kind, check) ==
  /\ kind \in Requests
  /\ req[s].step = "idle"
  /\ req' = [req EXCEPT ![s] = [NoRequest EXCEPT !.step = check, !.now = clock]]
  /\ UNCHANGED <<clock, inProgress, session, events, sweep, queue, agg, crashes, lost, overlapped>>

OpenBegin(s) == inProgress /\ session.status = "none" /\ Begin(s, "open", "open.check")
RecordBegin(s) ==
  session.status = "active" /\ Len(events) < MaxEvents /\ Begin(s, "record", "record.check")
BeatBegin(s) == session.status = "active" /\ Begin(s, "beat", "beat.check")

\* open_proctor_session
OpenCheck(s) ==
  /\ req[s].step = "open.check"
  /\ IF inProgress /\ session.status = "none" THEN Goes(s, "open.insert") ELSE Ends(s)
  /\ UNCHANGED <<clock, inProgress, session, events, sweep, queue, agg, crashes, lost, overlapped>>

\* Mutant: a second open restarts the session it finds.
OpenInsertRestart(s) ==
  /\ req[s].step = "open.insert"
  /\ session' = [session EXCEPT !.status = "active", !.started = req[s].now,
                                !.beat = req[s].now]
  /\ events' = Append(events, Observation("session_start", req[s].now))
  /\ Ends(s)
  /\ UNCHANGED <<clock, inProgress, sweep, queue, agg, crashes, lost, overlapped>>

\* attempt_id is unique: the second of two opens that both saw no session fails.
OpenInsert(s) ==
  /\ req[s].step = "open.insert"
  /\ IF session.status = "none"
       THEN /\ session' = [session EXCEPT !.status = "active", !.started = req[s].now,
                                          !.beat = req[s].now]
            /\ events' = Append(events, Observation("session_start", req[s].now))
       ELSE UNCHANGED <<session, events>>
  /\ Ends(s)
  /\ UNCHANGED <<clock, inProgress, sweep, queue, agg, crashes, lost, overlapped>>

Recent(now) == {i \in DOMAIN events : events[i].at > now - Window}

\* Mutants: a batch is not refused on an ended session; the limit is not asked.
RecordCheckAnyStatus(s) ==
  /\ req[s].step = "record.check"
  /\ IF Cardinality(Recent(req[s].now)) < Limit THEN Goes(s, "record.write") ELSE Ends(s)
  /\ UNCHANGED <<clock, inProgress, session, events, sweep, queue, agg, crashes, lost, overlapped>>

RecordCheckNoLimit(s) ==
  /\ req[s].step = "record.check"
  /\ IF session.status = "active" THEN Goes(s, "record.write") ELSE Ends(s)
  /\ UNCHANGED <<clock, inProgress, session, events, sweep, queue, agg, crashes, lost, overlapped>>

\* record_proctor_events: what it checks, and what it then writes
RecordCheck(s) ==
  /\ req[s].step = "record.check"
  /\ IF session.status = "active" /\ Cardinality(Recent(req[s].now)) < Limit
       THEN Goes(s, "record.write")
       ELSE Ends(s)
  /\ UNCHANGED <<clock, inProgress, session, events, sweep, queue, agg, crashes, lost, overlapped>>

RecordWrite(s, batch) ==
  /\ req[s].step = "record.write"
  /\ session' = [session EXCEPT !.beat = req[s].now]
  /\ events' = events \o [i \in DOMAIN batch |-> Observation(batch[i], req[s].now)]
  /\ Ends(s)
  /\ UNCHANGED <<clock, inProgress, sweep, queue, agg, crashes, lost, overlapped>>

\* proctor_heartbeat
BeatCheck(s) ==
  /\ req[s].step = "beat.check"
  /\ IF session.status = "active" THEN Goes(s, "beat.write") ELSE Ends(s)
  /\ UNCHANGED <<clock, inProgress, session, events, sweep, queue, agg, crashes, lost, overlapped>>

BeatWrite(s) ==
  /\ req[s].step = "beat.write"
  /\ session' = [session EXCEPT !.beat = req[s].now]
  /\ Ends(s)
  /\ UNCHANGED <<clock, inProgress, events, sweep, queue, agg, crashes, lost, overlapped>>

\* submit_attempt: hand in and close in one transaction, then enqueue the scoring of
\* the session there is, a re-submit's too.
InFlight ==
  queue + Cardinality({s \in Slot : req[s].step \in
                         {"submit.check", "submit.commit", "submit.enqueue"}})
        + Cardinality({w \in Sweeper : sweep[w].step # "idle"})
        + Cardinality({a \in Aggregator : agg[a].step # "idle"})

SubmitBegin(s) == InFlight < MaxQueue /\ Begin(s, "submit", "submit.check")

\* close_proctor_session: what it reads
SubmitCheck(s) ==
  /\ req[s].step = "submit.check"
  /\ req' = [req EXCEPT ![s].step = "submit.commit",
                        ![s].closes = (session.status = "active"),
                        ![s].found = (session.status # "none")]
  /\ UNCHANGED <<clock, inProgress, session, events, sweep, queue, agg, crashes, lost, overlapped>>

SubmitCommit(s) ==
  /\ req[s].step = "submit.commit"
  /\ inProgress' = FALSE
  /\ IF req[s].closes
       THEN /\ session' = [session EXCEPT !.status = "closed", !.ended = req[s].now]
            /\ events' = Append(events, Observation("session_end", req[s].now))
       ELSE UNCHANGED <<session, events>>
  /\ IF req[s].found THEN Goes(s, "submit.enqueue") ELSE Ends(s)
  /\ UNCHANGED <<clock, sweep, queue, agg, crashes, lost, overlapped>>

SubmitEnqueue(s) ==
  /\ req[s].step = "submit.enqueue"
  /\ queue' = queue + 1
  /\ Ends(s)
  /\ UNCHANGED <<clock, inProgress, session, events, sweep, agg, crashes, lost, overlapped>>

\* The API process dies, or the broker refuses, between the commit and `.delay`.
SubmitCrash(s) ==
  /\ "api" \in Crashing
  /\ req[s].step = "submit.enqueue"
  /\ crashes < MaxCrashes
  /\ crashes' = crashes + 1
  /\ lost' = TRUE
  /\ Ends(s)
  /\ UNCHANGED <<clock, inProgress, session, events, sweep, queue, agg, overlapped>>

-----------------------------------------------------------------------------
(***************************************************************************)
(* The sweep: first silence becomes an event, then abandonment an end.     *)
(* Its own `now` is fixed at the start; `tx` is now() of the transaction   *)
(* it is in, a new one after the gaps are committed.                       *)
(***************************************************************************)
GapMarked == \E i \in DOMAIN events : events[i].type = "heartbeat_gap" /\ events[i].at > session.beat

Silent(now) ==
  /\ session.status = "active"
  /\ session.beat # Null /\ session.beat < now - GapAfter

Abandoned(now) ==
  /\ session.status = "active"
  /\ \/ session.beat # Null /\ session.beat < now - AbandonAfter
     \/ Deadline # Null /\ Deadline < now - Slack

\* Mutant: every sweep of a silent session records a gap.
SweepStartEvery(w) ==
  /\ sweep[w].step = "idle"
  /\ InFlight < MaxQueue
  /\ sweep' = [sweep EXCEPT ![w] =
       [step |-> IF Silent(clock) THEN "gap" ELSE "select",
        now |-> clock, tx |-> clock, since |-> session.beat]]
  /\ UNCHANGED <<clock, inProgress, session, events, req, queue, agg, crashes, lost, overlapped>>

SweepStart(w) ==
  /\ sweep[w].step = "idle"
  /\ InFlight < MaxQueue
  /\ Silent(clock) \/ Abandoned(clock)  \* else it selects nothing
  /\ sweep' = [sweep EXCEPT ![w] =
       [step |-> IF Silent(clock) /\ ~GapMarked THEN "gap" ELSE "select",
        now |-> clock, tx |-> clock, since |-> session.beat]]
  /\ UNCHANGED <<clock, inProgress, session, events, req, queue, agg, crashes, lost, overlapped>>

SweepGap(w) ==
  /\ sweep[w].step = "gap"
  /\ events' = Append(events,
       [type |-> "heartbeat_gap", at |-> sweep[w].tx, since |-> sweep[w].since])
  /\ sweep' = [sweep EXCEPT ![w].step = "select", ![w].tx = clock]
  /\ UNCHANGED <<clock, inProgress, session, req, queue, agg, crashes, lost, overlapped>>

\* Mutant: only silence ends a session, not the attempt's deadline.
SweepSelectSilent(w) ==
  /\ sweep[w].step = "select"
  /\ sweep' = IF session.status = "active" /\ session.beat < sweep[w].now - AbandonAfter
                THEN [sweep EXCEPT ![w].step = "abort"]
                ELSE [sweep EXCEPT ![w] = NoSweep]
  /\ UNCHANGED <<clock, inProgress, session, events, req, queue, agg, crashes, lost, overlapped>>

SweepSelect(w) ==
  /\ sweep[w].step = "select"
  /\ sweep' = IF Abandoned(sweep[w].now)
                THEN [sweep EXCEPT ![w].step = "abort"]
                ELSE [sweep EXCEPT ![w] = NoSweep]
  /\ UNCHANGED <<clock, inProgress, session, events, req, queue, agg, crashes, lost, overlapped>>

\* The ORM updates the row by id, whatever its status has become.
SweepAbort(w) ==
  /\ sweep[w].step = "abort"
  /\ session' = [session EXCEPT !.status = "aborted", !.ended = sweep[w].now]
  /\ events' = Append(events, Observation("session_end", sweep[w].tx))
  /\ sweep' = [sweep EXCEPT ![w].step = "enqueue"]
  /\ UNCHANGED <<clock, inProgress, req, queue, agg, crashes, lost, overlapped>>

SweepEnqueue(w) ==
  /\ sweep[w].step = "enqueue"
  /\ queue' = queue + 1
  /\ sweep' = [sweep EXCEPT ![w] = NoSweep]
  /\ UNCHANGED <<clock, inProgress, session, events, req, agg, crashes, lost, overlapped>>

\* A killed sweep is redelivered, or the next minute's runs: a fresh one either way.
SweepCrash(w) ==
  /\ "sweep" \in Crashing
  /\ sweep[w].step # "idle"
  /\ crashes < MaxCrashes
  /\ crashes' = crashes + 1
  /\ lost' = (lost \/ sweep[w].step = "enqueue")
  /\ sweep' = [sweep EXCEPT ![w] = NoSweep]
  /\ UNCHANGED <<clock, inProgress, session, events, req, queue, agg, overlapped>>

-----------------------------------------------------------------------------
(***************************************************************************)
(* aggregate_session: the score and the purge deadline from the rows.      *)
(***************************************************************************)
AggLoad(a) ==
  /\ queue > 0
  /\ agg[a].step = "idle"
  /\ queue' = queue - 1
  /\ agg' = IF Ended
              THEN [agg EXCEPT ![a].step = "events", ![a].row = session]
              ELSE agg
  /\ overlapped' = (overlapped \/ \E b \in Aggregator :
                      agg[b].step # "idle" /\ agg[b].row.ended # session.ended)
  /\ UNCHANGED <<clock, inProgress, session, events, req, sweep, crashes, lost>>

AggEvents(a) ==
  /\ agg[a].step = "events"
  /\ agg' = [agg EXCEPT ![a].step = "commit", ![a].seen = Len(events)]
  /\ UNCHANGED <<clock, inProgress, session, events, req, sweep, queue, crashes, lost, overlapped>>

\* Mutant: a session that has a score is not scored again.
AggCommitOnce(a) ==
  LET row == agg[a].row
      score == [count |-> agg[a].seen,
                seconds |-> IF row.ended > row.started THEN row.ended - row.started ELSE 0]
  IN
  /\ agg[a].step = "commit"
  /\ session' = IF row.score # Null
                  THEN session
                  ELSE [session EXCEPT !.score = score, !.purge = row.ended + Retention]
  /\ agg' = [agg EXCEPT ![a] = NoAggregation]
  /\ UNCHANGED <<clock, inProgress, events, req, sweep, queue, crashes, lost, overlapped>>

\* Only the columns that differ from the loaded row are written.
AggCommit(a) ==
  LET row == agg[a].row
      score == [count |-> agg[a].seen,
                seconds |-> IF row.ended > row.started THEN row.ended - row.started ELSE 0]
      purge == row.ended + Retention
  IN
  /\ agg[a].step = "commit"
  /\ session' = [session EXCEPT !.score = IF score # row.score THEN score ELSE @,
                                !.purge = IF purge # row.purge THEN purge ELSE @]
  /\ agg' = [agg EXCEPT ![a] = NoAggregation]
  /\ UNCHANGED <<clock, inProgress, events, req, sweep, queue, crashes, lost, overlapped>>

AggCrash(a) ==
  /\ "worker" \in Crashing
  /\ agg[a].step # "idle"
  /\ crashes < MaxCrashes
  /\ crashes' = crashes + 1
  /\ queue' = queue + 1
  /\ agg' = [agg EXCEPT ![a] = NoAggregation]
  /\ UNCHANGED <<clock, inProgress, session, events, req, sweep, lost, overlapped>>

-----------------------------------------------------------------------------
Sitter(s) ==
  \/ OpenBegin(s)
  \/ OpenCheck(s)
  \/ OpenInsert(s)
  \/ RecordBegin(s)
  \/ RecordCheck(s)
  \/ \E batch \in Batch : RecordWrite(s, batch)
  \/ BeatBegin(s)
  \/ BeatCheck(s)
  \/ BeatWrite(s)
  \/ SubmitBegin(s)
  \/ SubmitCheck(s)
  \/ SubmitCommit(s)
  \/ SubmitEnqueue(s)
  \/ SubmitCrash(s)

Sweeps(w) ==
  \/ SweepStart(w)
  \/ SweepGap(w)
  \/ SweepSelect(w)
  \/ SweepAbort(w)
  \/ SweepEnqueue(w)
  \/ SweepCrash(w)

Aggregates(a) ==
  \/ AggLoad(a)
  \/ AggEvents(a)
  \/ AggCommit(a)
  \/ AggCrash(a)

Next ==
  \/ Tick
  \/ Void
  \/ \E s \in Slot : Sitter(s)
  \/ \E w \in Sweeper : Sweeps(w)
  \/ \E a \in Aggregator : Aggregates(a)

Spec == Init /\ [][Next]_vars

(***************************************************************************)
(* Beat schedules a sweep every minute and the workers keep consuming; the *)
(* sitter owes nothing: a closed laptop is what the sweep is for.          *)
(***************************************************************************)
Fairness ==
  /\ WF_vars(Tick)
  /\ \A s \in Slot : WF_vars(SubmitCheck(s) \/ SubmitCommit(s) \/ SubmitEnqueue(s))
  /\ \A w \in Sweeper :
       WF_vars(SweepStart(w) \/ SweepGap(w) \/ SweepSelect(w) \/ SweepAbort(w) \/ SweepEnqueue(w))
  /\ \A a \in Aggregator : WF_vars(AggLoad(a) \/ AggEvents(a) \/ AggCommit(a))

FairSpec == Spec /\ Fairness

-----------------------------------------------------------------------------
(***************************************************************************)
(* Properties.                                                             *)
(***************************************************************************)
Past(steps) == {s \in Slot : req[s].step \in steps}

\* Requests and sweeps that read the session active and have yet to write.
Pending ==
  Past({"record.write", "beat.write"})
    \cup {s \in Past({"submit.commit"}) : req[s].closes}
    \cup {w \in Sweeper : sweep[w].step \in {"gap", "abort"}}

\* One session per attempt, ever: two racing opens make one, it starts once, and once
\* observation has ended no open, heartbeat or batch makes it active again.
OneSession ==
  [][session.status # "none" =>
       /\ session'.started = session.started
       /\ session'.status # "none"
       /\ Ended => session'.status # "active"
    ]_vars

\* Scoring never sees a live session: a session with a score or a purge deadline, and one
\* whose aggregation is queued or running, has ended.
ScoredOnlyEnded ==
  session.score # Null \/ session.purge # Null \/ queue > 0
    \/ (\E a \in Aggregator : agg[a].step # "idle") => Ended

\* Ending closes the record: when nothing that read the session active is still on its
\* way, no event, no heartbeat and no other end reaches it, and nothing new gets past
\* the checks.
EndSeal ==
  [][Ended /\ Pending = {} =>
       /\ UNCHANGED <<events, session.status, session.ended, session.beat>>
       /\ Pending' = {}
    ]_vars

Gaps == {i \in DOMAIN events : events[i].type = "heartbeat_gap"}

GapsFrom(beat) == {i \in Gaps : events[i].since = beat}

\* One gap event per silence, not one per sweep: from one heartbeat start no more gaps
\* than there are processes that sweep, one when sweeps cannot overlap, however many
\* sweeps find the silence.
OneGapPerSilence ==
  \A i \in Gaps : Cardinality(GapsFrom(events[i].since)) <= Cardinality(Sweeper)

Reported(from) ==
  {i \in DOMAIN events : /\ events[i].type \in {"observed", "clock_skew"}
                         /\ events[i].at > from - Window /\ events[i].at <= from}
LongestBatch == CHOOSE n \in {Len(batch) : batch \in Batch} : \A batch \in Batch : Len(batch) <= n

\* The record cannot be flooded: the limit is asked before a batch, so a window holds
\* less than the limit and one batch for each request in flight, however they race.
NotFlooded ==
  \A from \in 0..MaxClock :
    Cardinality(Reported(from)) < Limit + Cardinality(Slot) * LongestBatch

Settled ==
  /\ Ended /\ queue = 0
  /\ \A a \in Aggregator : agg[a].step = "idle"
  /\ Past({"submit.commit", "submit.enqueue"}) = {}
  /\ \A w \in Sweeper : sweep[w].step \notin {"abort", "enqueue"}

\* However often a session is aggregated, closed and aborted over each other, the score
\* and the purge deadline end up those of the end it finally has; unless an end was never
\* enqueued, or aggregations of two ends overlapped, as two consumers allow.
AggregateConverges ==
  Settled /\ ~lost /\ ~overlapped =>
    /\ session.purge = session.ended + Retention
    /\ session.score # Null
    /\ session.score.seconds =
         IF session.ended > session.started THEN session.ended - session.started ELSE 0

\* Observation ends without the sitter's help and is scored: whatever the browser does or
\* stops doing, and whichever worker is lost, the session of a timed attempt reaches the
\* review queue with a score and a retention deadline (and only an ended one has those),
\* unless the process that ended it was lost before it could enqueue the scoring.
EventuallyScored ==
  session.status # "none" ~> (session.score # Null /\ session.purge # Null) \/ lost

\* The inductive invariant: times are there once they are used, and whoever is about to
\* enqueue, or to score, does it for a session that has ended.
Consistent ==
  /\ session.status # "none" => session.started \in Nat
  /\ Ended => session.ended \in Nat
  /\ session.score # Null \/ session.purge # Null \/ queue > 0 => Ended
  /\ \A s \in Slot :
       /\ req[s].step = "submit.commit" =>
            /\ req[s].closes => session.status # "none"
            /\ req[s].found /\ ~req[s].closes => Ended
       /\ req[s].step = "submit.enqueue" => Ended
  /\ \A w \in Sweeper :
       /\ sweep[w].step = "abort" => session.status # "none"
       /\ sweep[w].step = "enqueue" => Ended
  /\ \A a \in Aggregator : agg[a].step # "idle" =>
       Ended /\ agg[a].row.started \in Nat /\ agg[a].row.ended \in Nat

=============================================================================
