-------------------------- MODULE ProctoringProofs --------------------------
(***************************************************************************)
(* Theorems about Proctoring, for every deadline and threshold, and any    *)
(* number of overlapping requests, sweeps and aggregations.                *)
(***************************************************************************)
EXTENDS Proctoring, Extremes, TLAPS

-----------------------------------------------------------------------------
(***************************************************************************)
(* Rows.                                                                   *)
(***************************************************************************)
LEMMA NoRows ==
  /\ NoSession \in SessionRow
  /\ NoRequest \in Request
  /\ NoSweep \in Sweep
  /\ NoAggregation \in Aggregation
<1>1. NoSession \in SessionRow
  BY DEF NoSession, SessionRow, Time
<1> QED
  BY <1>1 DEF NoRequest, Request, NoSweep, Sweep, NoAggregation, Aggregation, Time

LEMMA ObservationType ==
  ASSUME NEW type \in EventType, NEW at \in Nat
  PROVE  Observation(type, at) \in Event
BY DEF Observation, Event, Time

\* A batch becomes a sequence of events, each received when its request began.
LEMMA BatchType ==
  ASSUME NEW batch \in Batch, NEW at \in Nat
  PROVE  [i \in DOMAIN batch |-> Observation(batch[i], at)] \in Seq(Event)
<1>1. batch \in Seq({"observed", "clock_skew"})
  BY BatchAssumption
<1>2. Len(batch) \in Nat /\ DOMAIN batch = 1..Len(batch)
  BY <1>1
<1>3. ASSUME NEW i \in 1..Len(batch)
      PROVE  Observation(batch[i], at) \in Event
  <2>1. batch[i] \in EventType
    BY <1>1 DEF EventType
  <2> QED
    BY <2>1, ObservationType
<1> QED
  BY <1>2, <1>3

-----------------------------------------------------------------------------
(***************************************************************************)
(* Types, together with the invariant: scoring subtracts times that are    *)
(* there only because the session has ended.                               *)
(***************************************************************************)
\* A request of the sitter keeps every row, request and counter of its type.
LEMMA SitterType ==
  ASSUME TypeOK, NEW s \in Slot, Sitter(s)
  PROVE  TypeOK'
<1> USE NoRows DEF TypeOK
<1>1. clock \in Nat /\ req[s].now \in Nat
  BY BoundsAssumption DEF Request
<1>2. ASSUME NEW kind, NEW check, Begin(s, kind, check),
             check \in {"open.check", "record.check", "beat.check", "submit.check"}
      PROVE  TypeOK'
  <2>1. [NoRequest EXCEPT !.step = check, !.now = clock] \in Request
    BY <1>1, <1>2 DEF NoRequest, Request
  <2> QED
    BY <1>2, <2>1 DEF Begin
<1>3. CASE OpenBegin(s) \/ RecordBegin(s) \/ BeatBegin(s) \/ SubmitBegin(s)
  BY <1>2, <1>3 DEF OpenBegin, RecordBegin, BeatBegin, SubmitBegin
<1>4. CASE OpenCheck(s) \/ RecordCheck(s) \/ BeatCheck(s)
  <2>1. \A step \in {"open.insert", "record.write", "beat.write"} :
          [req[s] EXCEPT !.step = step] \in Request
    BY DEF Request
  <2> QED
    BY <1>4, <2>1 DEF OpenCheck, RecordCheck, BeatCheck, Goes, Ends
<1>5. CASE OpenInsert(s)
  <2>1. [session EXCEPT !.status = "active", !.started = req[s].now, !.beat = req[s].now]
          \in SessionRow
    BY <1>1 DEF SessionRow, Time
  <2>2. Append(events, Observation("session_start", req[s].now)) \in Seq(Event)
    BY <1>1, ObservationType DEF EventType
  <2> QED
    BY <1>5, <2>1, <2>2 DEF OpenInsert, Ends
<1>6. ASSUME NEW batch \in Batch, RecordWrite(s, batch)
      PROVE  TypeOK'
  <2>1. [session EXCEPT !.beat = req[s].now] \in SessionRow
    BY <1>1 DEF SessionRow, Time
  <2>2. events' \in Seq(Event)
    BY <1>1, <1>6, BatchType DEF RecordWrite
  <2> QED
    BY <1>6, <2>1, <2>2 DEF RecordWrite, Ends
<1>7. CASE BeatWrite(s)
  <2>1. [session EXCEPT !.beat = req[s].now] \in SessionRow
    BY <1>1 DEF SessionRow, Time
  <2> QED
    BY <1>7, <2>1 DEF BeatWrite, Ends
<1>8. CASE SubmitCheck(s)
  <2>1. \A c \in BOOLEAN, f \in BOOLEAN :
          [req[s] EXCEPT !.step = "submit.commit", !.closes = c, !.found = f] \in Request
    BY DEF Request
  <2> QED
    BY <1>8, <2>1 DEF SubmitCheck
<1>9. CASE SubmitCommit(s)
  <2>1. [session EXCEPT !.status = "closed", !.ended = req[s].now] \in SessionRow
    BY <1>1 DEF SessionRow, Time
  <2>2. Append(events, Observation("session_end", req[s].now)) \in Seq(Event)
    BY <1>1, ObservationType DEF EventType
  <2>3. [req[s] EXCEPT !.step = "submit.enqueue"] \in Request
    BY DEF Request
  <2> QED
    BY <1>9, <2>1, <2>2, <2>3 DEF SubmitCommit, Goes, Ends
<1>10. CASE SubmitEnqueue(s)
  BY <1>10 DEF SubmitEnqueue, Ends
<1>11. CASE SubmitCrash(s)
  BY <1>11, BoundsAssumption DEF SubmitCrash, Ends
<1> QED
  BY <1>3, <1>4, <1>5, <1>6, <1>7, <1>8, <1>9, <1>10, <1>11 DEF Sitter

LEMMA SweepType ==
  ASSUME TypeOK, NEW w \in Sweeper, Sweeps(w)
  PROVE  TypeOK'
<1> USE NoRows DEF TypeOK
<1>1. clock \in Nat /\ sweep[w].now \in Nat /\ sweep[w].tx \in Nat /\ sweep[w].since \in Time
  BY BoundsAssumption DEF Sweep
<1>2. CASE SweepStart(w)
  <2>1. session.beat \in Time
    BY DEF SessionRow
  <2>2. sweep'[w] \in Sweep /\ sweep' = [sweep EXCEPT ![w] = sweep'[w]]
    BY <1>1, <1>2, <2>1 DEF SweepStart, Sweep
  <2> QED
    BY <1>2, <2>2 DEF SweepStart
<1>3. CASE SweepGap(w)
  <2>1. [type |-> "heartbeat_gap", at |-> sweep[w].tx, since |-> sweep[w].since] \in Event
    BY <1>1 DEF Event, EventType
  <2>2. [sweep[w] EXCEPT !.step = "select", !.tx = clock] \in Sweep
    BY <1>1 DEF Sweep
  <2> QED
    BY <1>3, <2>1, <2>2 DEF SweepGap
<1>4. CASE SweepSelect(w)
  <2>1. [sweep[w] EXCEPT !.step = "abort"] \in Sweep
    BY DEF Sweep
  <2> QED
    BY <1>4, <2>1 DEF SweepSelect
<1>5. CASE SweepAbort(w)
  <2>1. [session EXCEPT !.status = "aborted", !.ended = sweep[w].now] \in SessionRow
    BY <1>1 DEF SessionRow, Time
  <2>2. Append(events, Observation("session_end", sweep[w].tx)) \in Seq(Event)
    BY <1>1, ObservationType DEF EventType
  <2>3. [sweep[w] EXCEPT !.step = "enqueue"] \in Sweep
    BY DEF Sweep
  <2> QED
    BY <1>5, <2>1, <2>2, <2>3 DEF SweepAbort
<1>6. CASE SweepEnqueue(w)
  BY <1>6 DEF SweepEnqueue
<1>7. CASE SweepCrash(w)
  BY <1>7, BoundsAssumption DEF SweepCrash
<1> QED
  BY <1>2, <1>3, <1>4, <1>5, <1>6, <1>7 DEF Sweeps

\* An aggregation needs the invariant: the times it subtracts are there.
LEMMA AggregateType ==
  ASSUME TypeOK, Consistent, NEW a \in Aggregator, Aggregates(a)
  PROVE  TypeOK'
<1> USE NoRows DEF TypeOK
<1>1. CASE AggLoad(a)
  <2>1. [agg[a] EXCEPT !.step = "events", !.row = session] \in Aggregation
    BY DEF Aggregation
  <2>2. queue' \in Nat
    BY <1>1 DEF AggLoad
  <2>3. agg' \in [Aggregator -> Aggregation]
    BY <1>1, <2>1 DEF AggLoad
  <2> QED
    BY <1>1, <2>2, <2>3 DEF AggLoad
<1>2. CASE AggEvents(a)
  <2>1. [agg[a] EXCEPT !.step = "commit", !.seen = Len(events)] \in Aggregation
    <3>1. Len(events) \in Nat
      OBVIOUS
    <3> QED
      BY <3>1 DEF Aggregation
  <2> QED
    BY <1>2, <2>1 DEF AggEvents
<1>3. CASE AggCommit(a)
  <2> DEFINE row == agg[a].row
             score == [count |-> agg[a].seen,
                       seconds |-> IF row.ended > row.started THEN row.ended - row.started ELSE 0]
             purge == row.ended + Retention
  <2>1. row.started \in Nat /\ row.ended \in Nat
    <3>1. agg[a].step # "idle"
      BY <1>3 DEF AggCommit
    <3> QED
      BY <3>1 DEF Consistent
  <2>2. agg[a].seen \in Nat
    BY DEF Aggregation
  <2>3. score \in Score /\ purge \in Time
    <3>1. Retention \in Nat
      BY TimesAssumption
    <3>2. row.ended > row.started => row.ended - row.started \in Nat
      BY <2>1
    <3> QED
      BY <2>1, <2>2, <3>1, <3>2 DEF Score, Time
  <2>4. PICK sc \in Score \cup {Null}, pu \in Time :
          session' = [session EXCEPT !.score = sc, !.purge = pu]
    <3>1. session.score \in Score \cup {Null} /\ session.purge \in Time
      BY DEF SessionRow
    <3>2. session' = [session EXCEPT !.score = IF score # row.score THEN score ELSE session.score,
                                     !.purge = IF purge # row.purge THEN purge ELSE session.purge]
      BY <1>3 DEF AggCommit, SessionRow
    <3> HIDE DEF score, purge
    <3> QED
      BY <2>3, <3>1, <3>2
  <2>5. session' \in SessionRow
    BY <2>4 DEF SessionRow
  <2> QED
    BY <1>3, <2>5 DEF AggCommit
<1>4. CASE AggCrash(a)
  BY <1>4, BoundsAssumption DEF AggCrash
<1> QED
  BY <1>1, <1>2, <1>3, <1>4 DEF Aggregates

-----------------------------------------------------------------------------
(***************************************************************************)
(* The inductive invariant.  Ending is never undone, so that a session has *)
(* ended stays true for whoever has read it.                               *)
(***************************************************************************)
Kept ==
  /\ session.status # "none" => session'.status # "none"
  /\ Ended => Ended'

\* The invariant is kept by a step that keeps the session's life and moves only
\* requests, sweeps and aggregations that know what they should.
LEMMA StepConsistent ==
  ASSUME Consistent, Kept,
         session'.status # "none" => session'.started \in Nat,
         Ended' => session'.ended \in Nat,
         session'.score # Null \/ session'.purge # Null \/ queue' > 0 => Ended',
         \A s \in Slot : req'[s] # req[s] =>
           /\ req'[s].step = "submit.commit" =>
                /\ req'[s].closes => session'.status # "none"
                /\ req'[s].found /\ ~req'[s].closes => Ended'
           /\ req'[s].step = "submit.enqueue" => Ended',
         \A w \in Sweeper : sweep'[w] # sweep[w] =>
           /\ sweep'[w].step = "abort" => session'.status # "none"
           /\ sweep'[w].step = "enqueue" => Ended',
         \A a \in Aggregator : agg'[a] # agg[a] /\ agg'[a].step # "idle" =>
           Ended' /\ agg'[a].row.started \in Nat /\ agg'[a].row.ended \in Nat
  PROVE  Consistent'
<1>1. \A s \in Slot : (/\ req[s].step = "submit.commit" =>
                            /\ req[s].closes => session.status # "none"
                            /\ req[s].found /\ ~req[s].closes => Ended
                       /\ req[s].step = "submit.enqueue" => Ended)'
  BY DEF Consistent, Kept
<1>2. \A w \in Sweeper : (/\ sweep[w].step = "abort" => session.status # "none"
                          /\ sweep[w].step = "enqueue" => Ended)'
  BY DEF Consistent, Kept
<1>3. \A a \in Aggregator : (agg[a].step # "idle" =>
                               Ended /\ agg[a].row.started \in Nat /\ agg[a].row.ended \in Nat)'
  BY DEF Consistent, Kept
<1> QED
  BY <1>1, <1>2, <1>3 DEF Consistent

\* A step that leaves the session, the queue and the other processes alone.
LEMMA RequestConsistent ==
  ASSUME TypeOK, Consistent, NEW s \in Slot, NEW r,
         UNCHANGED <<session, queue, sweep, agg>>,
         req' = [req EXCEPT ![s] = r],
         r.step = "submit.commit" =>
           /\ r.closes => session.status # "none"
           /\ r.found /\ ~r.closes => Ended,
         r.step = "submit.enqueue" => Ended
  PROVE  Consistent'
<1>1. Kept /\ (Ended' <=> Ended)
  BY DEF Kept, Ended
<1>2. \A t \in Slot : req'[t] # req[t] => t = s /\ req'[t] = r
  BY DEF TypeOK
<1> QED
  BY <1>1, <1>2, StepConsistent DEF Consistent

LEMMA SitterConsistent ==
  ASSUME TypeOK, Consistent, NEW s \in Slot, Sitter(s)
  PROVE  Consistent'
<1>1. ASSUME NEW kind, NEW check, Begin(s, kind, check),
             check \in {"open.check", "record.check", "beat.check", "submit.check"}
      PROVE  Consistent'
  <2> DEFINE r == [NoRequest EXCEPT !.step = check, !.now = clock]
  <2>1. r.step = check
    BY DEF NoRequest
  <2>2. req' = [req EXCEPT ![s] = r] /\ UNCHANGED <<session, queue, sweep, agg>>
    BY <1>1 DEF Begin
  <2> HIDE DEF r
  <2> QED
    BY <1>1, <2>1, <2>2, RequestConsistent
<1>2. CASE OpenBegin(s) \/ RecordBegin(s) \/ BeatBegin(s) \/ SubmitBegin(s)
  BY <1>1, <1>2 DEF OpenBegin, RecordBegin, BeatBegin, SubmitBegin
<1>3. CASE OpenCheck(s) \/ RecordCheck(s) \/ BeatCheck(s)
  <2>1. PICK step \in {"open.insert", "record.write", "beat.write"} :
          Goes(s, step) \/ Ends(s)
    BY <1>3 DEF OpenCheck, RecordCheck, BeatCheck
  <2>2. UNCHANGED <<session, queue, sweep, agg>>
    BY <1>3 DEF OpenCheck, RecordCheck, BeatCheck
  <2>3. PICK r : req' = [req EXCEPT ![s] = r] /\ r.step \in {step, "idle"}
    <3>1. [req[s] EXCEPT !.step = step].step = step /\ NoRequest.step = "idle"
      BY DEF TypeOK, Request, NoRequest
    <3> QED
      BY <2>1, <3>1 DEF Goes, Ends
  <2> QED
    BY <2>2, <2>3, RequestConsistent
<1>4. CASE OpenInsert(s)
  <2>1. /\ session.status = "none" => session'.status = "active" /\ session'.started \in Nat
        /\ session.status # "none" => UNCHANGED session
        /\ session'.score = session.score /\ session'.purge = session.purge
    BY <1>4 DEF OpenInsert, TypeOK, SessionRow, Request
  <2>2. Kept
    BY <2>1 DEF Kept, Ended
  <2>3. \A t \in Slot : req'[t] # req[t] => req'[t].step = "idle"
    BY <1>4 DEF OpenInsert, Ends, NoRequest, TypeOK
  <2>4. UNCHANGED <<queue, sweep, agg>>
    BY <1>4 DEF OpenInsert
  <2>5. ~Ended => session'.score = Null /\ session'.purge = Null /\ ~(queue' > 0)
    BY <2>1, <2>4 DEF Consistent
  <2>6. Ended' => Ended /\ UNCHANGED session
    BY <2>1 DEF Ended
  <2> QED
    BY <2>1, <2>2, <2>3, <2>4, <2>5, <2>6, StepConsistent DEF Consistent, Kept
<1>5. CASE BeatWrite(s) \/ \E batch \in Batch : RecordWrite(s, batch)
  <2>1. /\ session' = [session EXCEPT !.beat = req[s].now]
        /\ Ends(s) /\ UNCHANGED <<queue, sweep, agg>>
    BY <1>5 DEF BeatWrite, RecordWrite
  <2>2. /\ session'.status = session.status /\ session'.started = session.started
        /\ session'.ended = session.ended /\ session'.score = session.score
        /\ session'.purge = session.purge
    BY <2>1 DEF TypeOK, SessionRow
  <2>3. \A t \in Slot : req'[t] # req[t] => req'[t].step = "idle"
    BY <2>1 DEF Ends, NoRequest, TypeOK
  <2>4. Kept /\ (Ended' <=> Ended)
    BY <2>2 DEF Kept, Ended
  <2> QED
    BY <2>1, <2>2, <2>3, <2>4, StepConsistent DEF Consistent
<1>6. CASE SubmitCheck(s)
  <2> DEFINE r == [req[s] EXCEPT !.step = "submit.commit",
                                 !.closes = (session.status = "active"),
                                 !.found = (session.status # "none")]
  <2>1. /\ r.closes = (session.status = "active") /\ r.found = (session.status # "none")
        /\ r.step = "submit.commit"
    BY DEF TypeOK, Request
  <2>2. session.status \in {"none", "active", "closed", "aborted"}
    BY DEF TypeOK, SessionRow
  <2>3. req' = [req EXCEPT ![s] = r] /\ UNCHANGED <<session, queue, sweep, agg>>
    BY <1>6 DEF SubmitCheck
  <2> HIDE DEF r
  <2> QED
    BY <2>1, <2>2, <2>3, RequestConsistent DEF Ended
<1>7. CASE SubmitCommit(s)
  <2>1. /\ req[s].closes => session.status # "none"
        /\ req[s].found /\ ~req[s].closes => Ended
    BY <1>7 DEF SubmitCommit, Consistent
  <2>2. /\ req[s].closes => session'.status = "closed" /\ session'.ended \in Nat
        /\ ~req[s].closes => UNCHANGED session
        /\ session'.started = session.started
        /\ session'.score = session.score /\ session'.purge = session.purge
    BY <1>7 DEF SubmitCommit, TypeOK, SessionRow, Request
  <2>3. Kept
    BY <2>2 DEF Kept, Ended
  <2>4. UNCHANGED <<queue, sweep, agg>>
    BY <1>7 DEF SubmitCommit
  <2>5. Ended' => session'.ended \in Nat
    BY <2>2 DEF Consistent, Ended
  <2>6. req[s].found => Ended'
    BY <2>1, <2>2, <2>3 DEF Ended, Kept
  <2>7. \A t \in Slot : req'[t] # req[t] =>
          req'[t].step = "idle" \/ (req'[t].step = "submit.enqueue" /\ req[s].found)
    BY <1>7 DEF SubmitCommit, Goes, Ends, NoRequest, TypeOK, Request
  <2>8. session'.status # "none" => session'.started \in Nat
    BY <2>1, <2>2 DEF Consistent
  <2>9. session'.score # Null \/ session'.purge # Null \/ queue' > 0 => Ended'
    BY <2>2, <2>3, <2>4 DEF Consistent, Kept
  <2> QED
    BY <2>3, <2>4, <2>5, <2>6, <2>7, <2>8, <2>9, StepConsistent
<1>8. CASE SubmitEnqueue(s) \/ SubmitCrash(s)
  <2>1. UNCHANGED <<session, sweep, agg>> /\ Ends(s)
    BY <1>8 DEF SubmitEnqueue, SubmitCrash
  <2>2. Ended
    BY <1>8 DEF SubmitEnqueue, SubmitCrash, Consistent
  <2>3. \A t \in Slot : req'[t] # req[t] => req'[t].step = "idle"
    BY <2>1 DEF Ends, NoRequest, TypeOK
  <2>4. Kept /\ Ended'
    BY <2>1, <2>2 DEF Kept, Ended
  <2>5. session'.started \in Nat /\ session'.ended \in Nat
    BY <2>1, <2>2 DEF Consistent, Ended
  <2> QED
    BY <2>1, <2>3, <2>4, <2>5, StepConsistent
<1> QED
  BY <1>2, <1>3, <1>4, <1>5, <1>6, <1>7, <1>8 DEF Sitter

LEMMA SweepConsistent ==
  ASSUME TypeOK, Consistent, NEW w \in Sweeper, Sweeps(w)
  PROVE  Consistent'
<1>1. UNCHANGED <<req, agg>> /\ \A v \in Sweeper \ {w} : sweep'[v] = sweep[v]
  BY DEF TypeOK, Sweeps, SweepStart, SweepGap, SweepSelect, SweepAbort, SweepEnqueue, SweepCrash
<1>2. CASE SweepStart(w) \/ SweepGap(w) \/ SweepSelect(w) \/ SweepCrash(w)
  <2>1. UNCHANGED <<session, queue>>
    BY <1>2 DEF SweepStart, SweepGap, SweepSelect, SweepCrash
  <2>2. Kept /\ (Ended' <=> Ended)
    BY <2>1 DEF Kept, Ended
  <2>3. CASE SweepSelect(w)
    <3>1. sweep'[w].step = "idle" \/ (sweep'[w].step = "abort" /\ session.status = "active")
      BY <2>3 DEF SweepSelect, Abandoned, NoSweep, TypeOK, Sweep
    <3> QED
      BY <1>1, <2>1, <2>2, <3>1, StepConsistent DEF Consistent
  <2>4. CASE SweepStart(w) \/ SweepGap(w) \/ SweepCrash(w)
    <3>1. sweep'[w].step \in {"idle", "gap", "select"}
      BY <2>4 DEF SweepStart, SweepGap, SweepCrash, NoSweep, TypeOK, Sweep
    <3> QED
      BY <1>1, <2>1, <2>2, <3>1, StepConsistent DEF Consistent
  <2> QED
    BY <1>2, <2>3, <2>4
<1>3. CASE SweepAbort(w)
  <2>1. session.status # "none"
    BY <1>3 DEF SweepAbort, Consistent
  <2>2. /\ session'.status = "aborted" /\ session'.ended \in Nat
        /\ session'.started = session.started
    BY <1>3 DEF SweepAbort, TypeOK, SessionRow, Sweep
  <2>3. Kept /\ Ended'
    BY <2>2 DEF Kept, Ended
  <2>4. sweep'[w].step = "enqueue"
    BY <1>3 DEF SweepAbort, TypeOK, Sweep
  <2> QED
    BY <1>1, <2>1, <2>2, <2>3, <2>4, StepConsistent DEF Consistent
<1>4. CASE SweepEnqueue(w)
  <2>1. Ended /\ UNCHANGED session
    BY <1>4 DEF SweepEnqueue, Consistent
  <2>2. Kept /\ Ended'
    BY <2>1 DEF Kept, Ended
  <2>3. sweep'[w].step = "idle"
    BY <1>4 DEF SweepEnqueue, NoSweep, TypeOK
  <2> QED
    BY <1>1, <2>1, <2>2, <2>3, StepConsistent DEF Consistent
<1> QED
  BY <1>2, <1>3, <1>4 DEF Sweeps

LEMMA AggregateConsistent ==
  ASSUME TypeOK, Consistent, NEW a \in Aggregator, Aggregates(a)
  PROVE  Consistent'
<1>1. UNCHANGED <<req, sweep>> /\ \A b \in Aggregator \ {a} : agg'[b] = agg[b]
  BY DEF TypeOK, Aggregates, AggLoad, AggEvents, AggCommit, AggCrash
<1>2. /\ session'.status = session.status /\ session'.started = session.started
      /\ session'.ended = session.ended
  BY DEF TypeOK, SessionRow, Aggregates, AggLoad, AggEvents, AggCommit, AggCrash
<1>3. Kept /\ (Ended' <=> Ended)
  BY <1>2 DEF Kept, Ended
<1>4. Ended
  BY DEF Aggregates, AggLoad, AggEvents, AggCommit, AggCrash, Consistent
<1>5. agg'[a] = agg[a] \/ agg'[a].step = "idle"
        \/ (agg'[a].row.started \in Nat /\ agg'[a].row.ended \in Nat)
  <2>1. CASE AggLoad(a)
    <3>1. agg'[a] = [agg[a] EXCEPT !.step = "events", !.row = session]
      BY <1>4, <2>1 DEF AggLoad, TypeOK
    <3>2. agg'[a].row = session
      BY <3>1 DEF TypeOK, Aggregation
    <3> QED
      BY <1>4, <3>2 DEF Consistent, Ended
  <2>2. CASE AggEvents(a)
    <3>1. agg'[a].row = agg[a].row /\ agg[a].step # "idle"
      BY <2>2 DEF AggEvents, TypeOK, Aggregation
    <3> QED
      BY <3>1 DEF Consistent
  <2>3. CASE AggCommit(a) \/ AggCrash(a)
    BY <2>3 DEF AggCommit, AggCrash, NoAggregation, TypeOK
  <2> QED
    BY <2>1, <2>2, <2>3 DEF Aggregates
<1> QED
  BY <1>1, <1>2, <1>3, <1>4, <1>5, StepConsistent DEF Consistent

-----------------------------------------------------------------------------
(***************************************************************************)
(* The theorems.                                                           *)
(***************************************************************************)
\* Every reachable state is of its type, a score of a sitting that never lasts less than
\* nothing included, and consistent: only an ended session is queued, scored or dated.
THEOREM Correct == Spec => [](TypeOK /\ Consistent)
<1>1. Init => TypeOK /\ Consistent
  <2> SUFFICES ASSUME Init PROVE TypeOK /\ Consistent
    OBVIOUS
  <2>1. TypeOK
    <3>1. events \in Seq(Event) /\ clock \in 0..MaxClock /\ crashes \in 0..MaxCrashes
      BY BoundsAssumption DEF Init
    <3> QED
      BY NoRows, <3>1 DEF Init, TypeOK
  <2>2. Consistent
    BY DEF Init, Consistent, NoSession, NoRequest, NoSweep, NoAggregation, Ended
  <2> QED
    BY <2>1, <2>2
<1>2. TypeOK /\ Consistent /\ [Next]_vars => (TypeOK /\ Consistent)'
  <2> SUFFICES ASSUME TypeOK, Consistent, [Next]_vars
               PROVE  TypeOK' /\ Consistent'
    OBVIOUS
  <2>1. CASE Tick \/ Void \/ UNCHANGED vars
    <3>1. UNCHANGED <<session, events, req, sweep, queue, agg>> /\ clock' \in 0..MaxClock
            /\ inProgress' \in BOOLEAN /\ UNCHANGED <<crashes, lost, overlapped>>
      <4>1. clock < MaxClock => clock + 1 \in 0..MaxClock
        BY BoundsAssumption DEF TypeOK
      <4>2. CASE Tick
        BY <4>1, <4>2 DEF Tick, TypeOK
      <4>3. CASE Void
        BY <4>3 DEF Void, TypeOK
      <4>4. CASE UNCHANGED vars
        BY <4>4 DEF vars, TypeOK
      <4> QED
        BY <2>1, <4>2, <4>3, <4>4
    <3>2. TypeOK'
      BY <3>1 DEF TypeOK
    <3>3. Kept /\ (Ended' <=> Ended)
      BY <3>1 DEF Kept, Ended
    <3>4. Consistent'
      BY <3>1, <3>3, StepConsistent DEF Consistent
    <3> QED
      BY <3>2, <3>4
  <2>2. ASSUME NEW s \in Slot, Sitter(s)
        PROVE  TypeOK' /\ Consistent'
    BY <2>2, SitterType, SitterConsistent
  <2>3. ASSUME NEW w \in Sweeper, Sweeps(w)
        PROVE  TypeOK' /\ Consistent'
    BY <2>3, SweepType, SweepConsistent
  <2>4. ASSUME NEW a \in Aggregator, Aggregates(a)
        PROVE  TypeOK' /\ Consistent'
    BY <2>4, AggregateType, AggregateConsistent
  <2> QED
    BY <2>1, <2>2, <2>3, <2>4 DEF Next
<1> QED
  BY <1>1, <1>2, PTL DEF Spec

\* Every session, event, request, sweep, aggregation and message has its type: ended_at may
\* precede started_at, and a length of a sitting is a number all the same.
THEOREM TypeCorrect == Spec => []TypeOK
BY Correct, PTL

\* Scoring never sees a live session, whichever of the submit and the sweep ended it.
THEOREM ScoredOnlyEndedHolds == Spec => []ScoredOnlyEnded
<1>1. Consistent => ScoredOnlyEnded
  BY DEF Consistent, ScoredOnlyEnded
<1> QED
  BY <1>1, Correct, PTL

\* However opens, heartbeats, batches, submits and sweeps race, there is one session, it
\* starts once, and once it has ended it is never active again.
THEOREM OneSessionHolds == Spec => OneSession
<1> DEFINE A == session.status # "none" =>
                  /\ session'.started = session.started
                  /\ session'.status # "none"
                  /\ Ended => session'.status # "active"
<1>1. TypeOK /\ [Next]_vars => [A]_vars
  <2> SUFFICES ASSUME TypeOK, Next, session.status # "none"
               PROVE  /\ session'.started = session.started
                      /\ session'.status # "none"
                      /\ Ended => session'.status # "active"
    OBVIOUS
  <2>1. CASE UNCHANGED session
    BY <2>1 DEF Ended
  <2>2. ASSUME NEW s \in Slot, OpenInsert(s)
        PROVE  UNCHANGED session
    BY <2>2 DEF OpenInsert
  <2>3. ASSUME NEW s \in Slot, NEW batch, BeatWrite(s) \/ RecordWrite(s, batch)
        PROVE  session'.started = session.started /\ session'.status = session.status
    BY <2>3 DEF BeatWrite, RecordWrite, TypeOK, SessionRow
  <2>4. ASSUME NEW s \in Slot, SubmitCommit(s)
        PROVE  session'.started = session.started /\ session'.status \in {session.status, "closed"}
    BY <2>4 DEF SubmitCommit, TypeOK, SessionRow
  <2>5. ASSUME NEW w \in Sweeper, SweepAbort(w)
        PROVE  session'.started = session.started /\ session'.status = "aborted"
    BY <2>5 DEF SweepAbort, TypeOK, SessionRow
  <2>6. ASSUME NEW a \in Aggregator, AggCommit(a)
        PROVE  session'.started = session.started /\ session'.status = session.status
    BY <2>6 DEF AggCommit, TypeOK, SessionRow
  <2>7. \/ UNCHANGED session
        \/ \E s \in Slot : \/ OpenInsert(s) \/ BeatWrite(s) \/ SubmitCommit(s)
                           \/ \E batch \in Batch : RecordWrite(s, batch)
        \/ \E w \in Sweeper : SweepAbort(w)
        \/ \E a \in Aggregator : AggCommit(a)
    BY DEF Next, Sitter, Sweeps, Aggregates, Tick, Void, OpenBegin, RecordBegin, BeatBegin,
           SubmitBegin, Begin, OpenCheck, RecordCheck, BeatCheck, SubmitCheck, SubmitEnqueue,
           SubmitCrash, SweepStart, SweepGap, SweepSelect, SweepEnqueue, SweepCrash, AggLoad,
           AggEvents, AggCrash
  <2> QED
    BY <2>1, <2>2, <2>3, <2>4, <2>5, <2>6, <2>7 DEF Ended
<1> QED
  BY <1>1, Correct, PTL DEF Spec, OneSession

\* Ending closes the record: once nothing that read the session active is on its way,
\* no event, heartbeat or other end reaches it and nothing new gets past the checks.
THEOREM EndSealHolds == Spec => EndSeal
<1> DEFINE A == Ended /\ Pending = {} =>
                  /\ UNCHANGED <<events, session.status, session.ended, session.beat>>
                  /\ Pending' = {}
<1>1. TypeOK /\ Consistent /\ [Next]_vars => [A]_vars
  <2> SUFFICES ASSUME TypeOK, Consistent, Next, Ended, Pending = {}
               PROVE  /\ UNCHANGED <<events, session.status, session.ended, session.beat>>
                      /\ Pending' = {}
    OBVIOUS
  <2>1. /\ \A s \in Slot : /\ req[s].step \notin {"record.write", "beat.write"}
                           /\ req[s].step = "submit.commit" => ~req[s].closes
        /\ \A w \in Sweeper : sweep[w].step \notin {"gap", "abort"}
    BY DEF Pending, Past
  <2>2. session.status # "active" /\ session.status # "none"
    BY DEF Ended
  <2>3. ASSUME NEW s \in Slot, Sitter(s)
        PROVE  /\ UNCHANGED <<events, session, sweep>>
               /\ \A t \in Slot \ {s} : req'[t] = req[t]
               /\ req'[s].step \notin {"record.write", "beat.write"}
               /\ req'[s].step = "submit.commit" => ~req'[s].closes
    <3>1. ASSUME NEW kind, NEW check, Begin(s, kind, check),
                 check \in {"open.check", "record.check", "beat.check", "submit.check"}
          PROVE  UNCHANGED <<events, session, sweep>> /\ req'[s].step = check
                   /\ \A t \in Slot \ {s} : req'[t] = req[t]
      BY <3>1 DEF Begin, NoRequest, TypeOK
    <3>2. CASE OpenBegin(s) \/ RecordBegin(s) \/ BeatBegin(s) \/ SubmitBegin(s)
      BY <3>1, <3>2 DEF OpenBegin, RecordBegin, BeatBegin, SubmitBegin
    <3>3. CASE OpenCheck(s) \/ RecordCheck(s) \/ BeatCheck(s)
      <4>1. Ends(s) /\ UNCHANGED <<events, session, sweep>>
        BY <2>2, <3>3 DEF OpenCheck, RecordCheck, BeatCheck
      <4> QED
        BY <4>1 DEF Ends, NoRequest, TypeOK
    <3>4. CASE OpenInsert(s) \/ SubmitEnqueue(s) \/ SubmitCrash(s)
      <4>1. Ends(s) /\ UNCHANGED <<events, session, sweep>>
        BY <2>2, <3>4 DEF OpenInsert, SubmitEnqueue, SubmitCrash
      <4> QED
        BY <4>1 DEF Ends, NoRequest, TypeOK
    <3>5. ASSUME NEW batch \in Batch, RecordWrite(s, batch)
          PROVE  FALSE
      BY <2>1, <3>5 DEF RecordWrite
    <3>6. CASE BeatWrite(s)
      BY <2>1, <3>6 DEF BeatWrite
    <3>7. CASE SubmitCheck(s)
      BY <2>2, <3>7 DEF SubmitCheck, TypeOK, Request
    <3>8. CASE SubmitCommit(s)
      <4>1. UNCHANGED <<events, session, sweep>> /\ (Goes(s, "submit.enqueue") \/ Ends(s))
        BY <2>1, <3>8 DEF SubmitCommit
      <4> QED
        BY <4>1 DEF Goes, Ends, NoRequest, TypeOK, Request
    <3> QED
      BY <2>3, <3>2, <3>3, <3>4, <3>5, <3>6, <3>7, <3>8 DEF Sitter
  <2>4. ASSUME NEW w \in Sweeper, Sweeps(w)
        PROVE  /\ UNCHANGED <<events, session, req>>
               /\ \A v \in Sweeper \ {w} : sweep'[v] = sweep[v]
               /\ sweep'[w].step \notin {"gap", "abort"}
    <3>1. CASE SweepStart(w)
      BY <2>2, <3>1 DEF SweepStart, Silent, TypeOK
    <3>2. CASE SweepGap(w) \/ SweepAbort(w)
      BY <2>1, <3>2 DEF SweepGap, SweepAbort
    <3>3. CASE SweepSelect(w)
      BY <2>2, <3>3 DEF SweepSelect, Abandoned, NoSweep, TypeOK
    <3>4. CASE SweepEnqueue(w) \/ SweepCrash(w)
      BY <3>4 DEF SweepEnqueue, SweepCrash, NoSweep, TypeOK
    <3> QED
      BY <2>4, <3>1, <3>2, <3>3, <3>4 DEF Sweeps
  <2>5. ASSUME NEW a \in Aggregator, Aggregates(a)
        PROVE  /\ UNCHANGED <<events, session.status, session.ended, session.beat>>
               /\ UNCHANGED <<req, sweep>>
    BY <2>5 DEF Aggregates, AggLoad, AggEvents, AggCommit, AggCrash, TypeOK, SessionRow
  <2>6. CASE Tick \/ Void
    BY <2>6 DEF Tick, Void, Pending, Past
  <2>7. UNCHANGED <<events, session.status, session.ended, session.beat>>
    BY <2>3, <2>4, <2>5, <2>6 DEF Next, Tick, Void
  <2>8. /\ \A s \in Slot : /\ req'[s].step \notin {"record.write", "beat.write"}
                           /\ req'[s].step = "submit.commit" => ~req'[s].closes
        /\ \A w \in Sweeper : sweep'[w].step \notin {"gap", "abort"}
    <3>1. CASE \E s \in Slot : Sitter(s)
      BY <2>1, <2>3, <3>1
    <3>2. CASE \E w \in Sweeper : Sweeps(w)
      BY <2>1, <2>4, <3>2
    <3>3. CASE UNCHANGED <<req, sweep>>
      BY <2>1, <3>3
    <3> QED
      BY <2>5, <3>1, <3>2, <3>3 DEF Next, Tick, Void
  <2> QED
    BY <2>7, <2>8 DEF Pending, Past
<1> QED
  BY <1>1, Correct, PTL DEF Spec, EndSeal

-----------------------------------------------------------------------------
(***************************************************************************)
(* Sweeps that overlap.                                                    *)
(***************************************************************************)
\* The sweeps that are about to record a gap from this heartbeat.
Holders(beat) == {w \in Sweeper : sweep[w].step = "gap" /\ sweep[w].since = beat}

\* The gaps from it, recorded and to come, are no more than the sweepers.
FewGaps(beat) == Cardinality(GapsFrom(beat)) + Cardinality(Holders(beat)) <= Cardinality(Sweeper)

\* A gap is later than the heartbeat it starts from, so it still marks that silence when
\* the heartbeat has been moved forth and back: who begins to record one has found none.
Marked ==
  /\ \A i \in Gaps : events[i].since \in Nat /\ events[i].at > events[i].since
  /\ \A w \in Sweeper : sweep[w].step = "gap" =>
       sweep[w].since \in Nat /\ sweep[w].tx > sweep[w].since
  /\ \A beat \in Nat : FewGaps(beat)

LEMMA GapSetsFinite ==
  ASSUME TypeOK, NEW beat
  PROVE  /\ IsFiniteSet(GapsFrom(beat)) /\ Cardinality(GapsFrom(beat)) \in Nat
         /\ IsFiniteSet(Holders(beat)) /\ Cardinality(Holders(beat)) \in Nat
         /\ IsFiniteSet(Sweeper) /\ Cardinality(Sweeper) \in Nat
<1>1. IsFiniteSet(DOMAIN events)
  <2>1. DOMAIN events = 1..Len(events) /\ Len(events) \in Nat
    BY DEF TypeOK
  <2> QED
    BY <2>1, FS_Interval
<1>2. GapsFrom(beat) \subseteq DOMAIN events /\ Holders(beat) \subseteq Sweeper
  BY DEF GapsFrom, Gaps, Holders
<1>3. IsFiniteSet(Sweeper)
  BY BoundsAssumption
<1>4. IsFiniteSet(GapsFrom(beat)) /\ IsFiniteSet(Holders(beat))
  BY <1>1, <1>2, <1>3, FS_Subset
<1> QED
  BY <1>3, <1>4, FS_CardinalityType

LEMMA GapsKept ==
  ASSUME TypeOK, NEW more \in Seq(Event), events' = events \o more,
         \A i \in DOMAIN more : more[i].type # "heartbeat_gap"
  PROVE  Gaps' = Gaps /\ \A i \in Gaps : events'[i] = events[i]
<1>1. /\ events \in Seq(Event) /\ Len(events) \in Nat /\ Len(more) \in Nat
      /\ DOMAIN events = 1..Len(events) /\ DOMAIN more = 1..Len(more)
  BY DEF TypeOK
<1>2. /\ DOMAIN events' = 1..Len(events) + Len(more)
      /\ \A i \in 1..Len(events) : events'[i] = events[i]
      /\ \A i \in 1..Len(events) + Len(more) :
           i \in 1..Len(events) \/ (i - Len(events) \in 1..Len(more) /\ events'[i] = more[i - Len(events)])
  BY <1>1
<1>3. \A i \in 1..Len(events) : i \in 1..Len(events) + Len(more)
  BY <1>1
<1> QED
  BY <1>1, <1>2, <1>3 DEF Gaps

LEMMA AppendKept ==
  ASSUME TypeOK, NEW e \in Event, events' = Append(events, e), e.type # "heartbeat_gap"
  PROVE  Gaps' = Gaps /\ \A i \in Gaps : events'[i] = events[i]
<1>1. events' = events \o <<e>> /\ <<e>> \in Seq(Event) /\ \A i \in DOMAIN <<e>> : <<e>>[i] = e
  BY DEF TypeOK
<1> QED
  BY <1>1, GapsKept

\* A request records no gap.
LEMMA SitterKeepsGaps ==
  ASSUME TypeOK, NEW s \in Slot, Sitter(s)
  PROVE  Gaps' = Gaps /\ (\A i \in Gaps : events'[i] = events[i]) /\ UNCHANGED sweep
<1>1. req[s].now \in Nat
  BY DEF TypeOK, Request
<1>2. ASSUME NEW type \in {"session_start", "session_end"},
             events' = Append(events, Observation(type, req[s].now))
      PROVE  Gaps' = Gaps /\ \A i \in Gaps : events'[i] = events[i]
  <2>1. Observation(type, req[s].now) \in Event
    BY <1>1, ObservationType DEF EventType
  <2> QED
    BY <1>2, <2>1, AppendKept DEF Observation
<1>3. ASSUME NEW batch \in Batch, RecordWrite(s, batch)
      PROVE  Gaps' = Gaps /\ \A i \in Gaps : events'[i] = events[i]
  <2> DEFINE more == [i \in DOMAIN batch |-> Observation(batch[i], req[s].now)]
  <2>1. more \in Seq(Event) /\ events' = events \o more
    BY <1>1, <1>3, BatchType DEF RecordWrite
  <2>2. \A i \in DOMAIN more : more[i].type # "heartbeat_gap"
    BY BatchAssumption DEF Observation
  <2> HIDE DEF more
  <2> QED
    BY <2>1, <2>2, GapsKept
<1>4. UNCHANGED sweep
  BY DEF Sitter, OpenBegin, RecordBegin, BeatBegin, SubmitBegin, Begin, OpenCheck, OpenInsert,
         RecordCheck, RecordWrite, BeatCheck, BeatWrite, SubmitCheck, SubmitCommit,
         SubmitEnqueue, SubmitCrash
<1>5. CASE UNCHANGED events
  <2>1. Gaps' = Gaps
    BY <1>5 DEF Gaps
  <2> QED
    BY <1>4, <1>5, <2>1
<1>6. CASE OpenInsert(s)
  BY <1>2, <1>4, <1>5, <1>6 DEF OpenInsert
<1>7. CASE SubmitCommit(s)
  BY <1>2, <1>4, <1>5, <1>7 DEF SubmitCommit
<1> QED
  BY <1>3, <1>4, <1>5, <1>6, <1>7
     DEF Sitter, OpenBegin, RecordBegin, BeatBegin, SubmitBegin, Begin, OpenCheck, RecordCheck,
         BeatCheck, BeatWrite, SubmitCheck, SubmitEnqueue, SubmitCrash

\* A step that records no gap and begins none.
LEMMA MarkedKept ==
  ASSUME TypeOK, Marked, Gaps' = Gaps, \A i \in Gaps : events'[i] = events[i],
         \A w \in Sweeper : sweep'[w].step = "gap" => sweep'[w] = sweep[w]
  PROVE  Marked'
<1>1. ASSUME NEW beat \in Nat PROVE FewGaps(beat)'
  <2>1. GapsFrom(beat)' = GapsFrom(beat) /\ Holders(beat)' \subseteq Holders(beat)
    BY DEF GapsFrom, Holders
  <2>2. /\ Cardinality(Holders(beat)') <= Cardinality(Holders(beat))
        /\ Cardinality(Holders(beat)') \in Nat
    BY <2>1, GapSetsFinite, FS_Subset, FS_CardinalityType
  <2>3. FewGaps(beat)
    BY DEF Marked
  <2> QED
    BY <2>1, <2>2, <2>3, GapSetsFinite DEF FewGaps
<1> QED
  BY <1>1 DEF Marked

LEMMA SweepStartMarked ==
  ASSUME TypeOK, Marked, NEW w \in Sweeper, SweepStart(w)
  PROVE  Marked'
<1>1. /\ sweep \in [Sweeper -> Sweep] /\ clock \in Nat
      /\ UNCHANGED events /\ Gaps' = Gaps
      /\ \A v \in Sweeper : v # w => sweep'[v] = sweep[v]
  BY BoundsAssumption DEF TypeOK, SweepStart, Gaps
<1>2. CASE sweep'[w].step # "gap"
  BY <1>1, <1>2, MarkedKept
<1>3. CASE sweep'[w].step = "gap"
  <2>1. sweep'[w].since = session.beat /\ sweep'[w].tx = clock /\ Silent(clock) /\ ~GapMarked
    BY <1>1, <1>3 DEF SweepStart
  <2>2. session.beat \in Nat /\ clock > session.beat
    <3>1. session.beat \in Nat /\ session.beat < clock - GapAfter
      BY <2>1 DEF Silent, TypeOK, SessionRow, Time
    <3> QED
      BY <1>1, <3>1, TimesAssumption
  <2>3. GapsFrom(session.beat) = {}
    BY <2>1 DEF GapMarked, GapsFrom, Gaps, Marked
  <2>4. ASSUME NEW beat \in Nat PROVE FewGaps(beat)'
    <3>1. GapsFrom(beat)' = GapsFrom(beat)
      BY <1>1 DEF GapsFrom
    <3>2. CASE beat = session.beat
      <4>1. GapsFrom(beat)' = {} /\ Cardinality({}) = 0
        BY <2>3, <3>1, <3>2, FS_EmptySet
      <4>2. Holders(beat)' \subseteq Sweeper
        BY DEF Holders
      <4>3. /\ Cardinality(Holders(beat)') <= Cardinality(Sweeper)
            /\ Cardinality(Holders(beat)') \in Nat
        BY <4>2, BoundsAssumption, FS_Subset, FS_CardinalityType
      <4> QED
        BY <4>1, <4>3, GapSetsFinite DEF FewGaps
    <3>3. CASE beat # session.beat
      <4>1. Holders(beat)' \subseteq Holders(beat)
        BY <1>1, <2>1, <3>3 DEF Holders
      <4>2. /\ Cardinality(Holders(beat)') <= Cardinality(Holders(beat))
            /\ Cardinality(Holders(beat)') \in Nat
        BY <4>1, GapSetsFinite, FS_Subset, FS_CardinalityType
      <4>3. FewGaps(beat)
        BY DEF Marked
      <4> QED
        BY <3>1, <4>2, <4>3, GapSetsFinite DEF FewGaps
    <3> QED
      BY <3>2, <3>3
  <2> QED
    BY <1>1, <2>1, <2>2, <2>4 DEF Marked
<1> QED
  BY <1>2, <1>3

\* The gap a sweep records is one of those it was about to.
LEMMA SweepGapMarked ==
  ASSUME TypeOK, Marked, NEW w \in Sweeper, SweepGap(w)
  PROVE  Marked'
<1> DEFINE n == Len(events)
           e == [type |-> "heartbeat_gap", at |-> sweep[w].tx, since |-> sweep[w].since]
<1>1. /\ e \in Event /\ e.type = "heartbeat_gap"
      /\ e.since = sweep[w].since /\ e.at = sweep[w].tx
      /\ events' = Append(events, e) /\ events \in Seq(Event) /\ n \in Nat
  BY DEF SweepGap, TypeOK, Event, EventType, Sweep
<1>2. /\ sweep[w].step = "gap" /\ sweep'[w].step = "select"
      /\ \A v \in Sweeper : v # w => sweep'[v] = sweep[v]
  BY DEF SweepGap, TypeOK, Sweep
<1> HIDE DEF e
<1>3. /\ DOMAIN events = 1..n /\ DOMAIN events' = 1..n + 1
      /\ \A i \in 1..n : events'[i] = events[i]
      /\ events'[n + 1] = e /\ n + 1 \notin 1..n
      /\ \A i : i \in 1..n + 1 <=> i \in 1..n \/ i = n + 1
  BY <1>1
<1>4. Gaps' = Gaps \cup {n + 1} /\ \A i \in Gaps : events'[i] = events[i] /\ i # n + 1
  BY <1>1, <1>3 DEF Gaps
<1>5. sweep[w].since \in Nat /\ sweep[w].tx > sweep[w].since
  BY <1>2 DEF Marked
<1>6. ASSUME NEW beat \in Nat PROVE FewGaps(beat)'
  <2>1. FewGaps(beat)
    BY DEF Marked
  <2>2. CASE beat = sweep[w].since
    <3>1. GapsFrom(beat)' = GapsFrom(beat) \cup {n + 1} /\ n + 1 \notin GapsFrom(beat)
      BY <1>1, <1>3, <1>4, <2>2 DEF GapsFrom
    <3>2. Holders(beat)' = Holders(beat) \ {w} /\ w \in Holders(beat)
      BY <1>2, <2>2 DEF Holders
    <3>3. /\ Cardinality(GapsFrom(beat)') = Cardinality(GapsFrom(beat)) + 1
          /\ Cardinality(Holders(beat)') = Cardinality(Holders(beat)) - 1
      <4>1. Cardinality(GapsFrom(beat) \cup {n + 1}) = Cardinality(GapsFrom(beat)) + 1
        BY <3>1, GapSetsFinite, FS_AddElement
      <4>2. Cardinality(Holders(beat) \ {w}) = Cardinality(Holders(beat)) - 1
        BY <3>2, GapSetsFinite, FS_RemoveElement
      <4> QED
        BY <3>1, <3>2, <4>1, <4>2
    <3> QED
      BY <2>1, <3>3, GapSetsFinite DEF FewGaps
  <2>3. CASE beat # sweep[w].since
    <3>1. GapsFrom(beat)' = GapsFrom(beat)
      BY <1>1, <1>3, <1>4, <2>3 DEF GapsFrom
    <3>2. Holders(beat)' = Holders(beat)
      BY <1>2, <2>3 DEF Holders
    <3> QED
      BY <2>1, <3>1, <3>2 DEF FewGaps
  <2> QED
    BY <2>2, <2>3
<1> QED
  BY <1>1, <1>2, <1>3, <1>4, <1>5, <1>6 DEF Marked

LEMMA SweepMarked ==
  ASSUME TypeOK, Marked, NEW w \in Sweeper, Sweeps(w)
  PROVE  Marked'
<1>1. sweep \in [Sweeper -> Sweep]
  BY DEF TypeOK
<1>2. CASE SweepStart(w)
  BY <1>2, SweepStartMarked
<1>3. CASE SweepGap(w)
  BY <1>3, SweepGapMarked
<1>4. CASE SweepAbort(w)
  <2>1. Observation("session_end", sweep[w].tx) \in Event
    BY <1>1, ObservationType DEF EventType, Sweep
  <2>2. Gaps' = Gaps /\ \A i \in Gaps : events'[i] = events[i]
    BY <1>4, <2>1, AppendKept DEF SweepAbort, Observation
  <2>3. /\ sweep'[w].step = "enqueue"
        /\ \A v \in Sweeper : v # w => sweep'[v] = sweep[v]
    BY <1>1, <1>4 DEF SweepAbort, Sweep
  <2> QED
    BY <2>2, <2>3, MarkedKept
<1>5. CASE SweepSelect(w) \/ SweepEnqueue(w) \/ SweepCrash(w)
  <2>1. UNCHANGED events /\ Gaps' = Gaps
    BY <1>5 DEF SweepSelect, SweepEnqueue, SweepCrash, Gaps
  <2>2. /\ sweep'[w].step \in {"abort", "idle"}
        /\ \A v \in Sweeper : v # w => sweep'[v] = sweep[v]
    BY <1>1, <1>5 DEF SweepSelect, SweepEnqueue, SweepCrash, NoSweep, Sweep
  <2> QED
    BY <2>1, <2>2, MarkedKept
<1> QED
  BY <1>2, <1>3, <1>4, <1>5 DEF Sweeps

\* No silence is recorded more often than processes sweep, and once where only one does,
\* wherever a sweep is killed and however the heartbeats that race with it commit.
THEOREM OneGapPerSilenceHolds == Spec => []OneGapPerSilence
<1>1. Init => Marked
  <2> SUFFICES ASSUME Init PROVE Marked
    OBVIOUS
  <2>1. \A beat : GapsFrom(beat) = {} /\ Holders(beat) = {}
    BY DEF Init, GapsFrom, Gaps, Holders, NoSweep
  <2>2. Cardinality({}) = 0 /\ Cardinality(Sweeper) \in Nat
    BY BoundsAssumption, FS_EmptySet, FS_CardinalityType
  <2>3. \A beat \in Nat : FewGaps(beat)
    BY <2>1, <2>2 DEF FewGaps
  <2> QED
    BY <2>3 DEF Init, Marked, Gaps, NoSweep
<1>2. TypeOK /\ Marked /\ [Next]_vars => Marked'
  <2> SUFFICES ASSUME TypeOK, Marked, [Next]_vars
               PROVE  Marked'
    OBVIOUS
  <2>1. CASE Tick \/ Void \/ UNCHANGED vars \/ \E a \in Aggregator : Aggregates(a)
    <3>1. UNCHANGED <<events, sweep>>
      BY <2>1 DEF Tick, Void, vars, Aggregates, AggLoad, AggEvents, AggCommit, AggCrash
    <3>2. Gaps' = Gaps
      BY <3>1 DEF Gaps
    <3> QED
      BY <3>1, <3>2, MarkedKept
  <2>2. ASSUME NEW s \in Slot, Sitter(s)
        PROVE  Marked'
    BY <2>2, SitterKeepsGaps, MarkedKept
  <2>3. ASSUME NEW w \in Sweeper, Sweeps(w)
        PROVE  Marked'
    BY <2>3, SweepMarked
  <2> QED
    BY <2>1, <2>2, <2>3 DEF Next
<1>3. TypeOK /\ Marked => OneGapPerSilence
  <2> SUFFICES ASSUME TypeOK, Marked, NEW i \in Gaps
               PROVE  Cardinality(GapsFrom(events[i].since)) <= Cardinality(Sweeper)
    BY DEF OneGapPerSilence
  <2>1. FewGaps(events[i].since)
    BY DEF Marked
  <2> QED
    BY <2>1, GapSetsFinite DEF FewGaps
<1> QED
  BY <1>1, <1>2, <1>3, Correct, PTL DEF Spec

-----------------------------------------------------------------------------
(***************************************************************************)
(* The score and the retention deadline of the end there is.               *)
(***************************************************************************)
\* Whoever is about to have the session scored by the end it has: a message, or somebody
\* who will send one; or the aggregation of that end.
Coming ==
  \/ queue > 0
  \/ \E s \in Slot : req[s].step = "submit.enqueue"
  \/ \E w \in Sweeper : sweep[w].step = "enqueue"

Due ==
  Coming \/ \E a \in Aggregator : agg[a].step # "idle" /\ agg[a].row.ended = session.ended

Length(row) == IF row.ended > row.started THEN row.ended - row.started ELSE 0

ScoredByItsEnd ==
  /\ session.purge = session.ended + Retention
  /\ session.score # Null
  /\ session.score.seconds = Length(session)

\* What an aggregation would leave alone is what it would write.
Writes(row, now) ==
  /\ row.score = now.score \/ (now.score # Null /\ now.score.seconds = Length(row))
  /\ row.purge = now.purge \/ now.purge = row.ended + Retention

\* An ended session for which nothing is due is scored by its end, and no aggregation is
\* left that would put back an older one: those under way are of one end.  A hand-in that
\* closes the session will enqueue it.
Converging ==
  /\ \A s \in Slot : req[s].step = "submit.commit" /\ req[s].closes => req[s].found
  /\ \A a \in Aggregator : agg[a].step # "idle" =>
       Writes(agg[a].row, session) /\ agg[a].row.started = session.started
  /\ \A a, b \in Aggregator : agg[a].step # "idle" /\ agg[b].step # "idle" =>
       agg[a].row.ended = agg[b].row.ended
  /\ Ended /\ ~Due => ScoredByItsEnd /\ \A a \in Aggregator : agg[a].step = "idle"

\* A step that leaves the ends and the scores alone, and takes nobody away who is about to
\* have the session scored.
LEMMA ConvergingKept ==
  ASSUME Consistent, Converging, Due => Due', UNCHANGED agg,
         UNCHANGED <<session.ended, session.score, session.purge>>,
         Ended' => Ended, Ended => session'.started = session.started,
         \A s \in Slot : req'[s].step = "submit.commit" /\ req'[s].closes => req'[s].found
  PROVE  Converging'
<1>1. \A a \in Aggregator : agg[a].step # "idle" => Ended
  BY DEF Consistent
<1>2. \A a \in Aggregator : agg'[a].step # "idle" =>
        Writes(agg'[a].row, session') /\ agg'[a].row.started = session'.started
  BY <1>1 DEF Converging, Writes, Length
<1>3. Ended' /\ ~Due' => ScoredByItsEnd' /\ \A a \in Aggregator : agg'[a].step = "idle"
  BY DEF Converging, ScoredByItsEnd, Length
<1> QED
  BY <1>2, <1>3 DEF Converging

LEMMA SitterConverging ==
  ASSUME TypeOK, Consistent, Converging, ~lost', NEW s \in Slot, Sitter(s)
  PROVE  Converging'
<1>1. UNCHANGED <<sweep, agg>> /\ queue \in Nat /\ queue' \in {queue, queue + 1}
  <2>1. UNCHANGED <<sweep, agg>> /\ (queue' = queue \/ queue' = queue + 1)
    BY DEF Sitter, OpenBegin, RecordBegin, BeatBegin, SubmitBegin, Begin, OpenCheck,
           OpenInsert, RecordCheck, RecordWrite, BeatCheck, BeatWrite, SubmitCheck,
           SubmitCommit, SubmitEnqueue, SubmitCrash
  <2> QED
    BY <2>1 DEF TypeOK
<1>2. ASSUME UNCHANGED <<session.ended, session.score, session.purge>>,
             Ended' => Ended, Ended => session'.started = session.started,
             req[s].step # "submit.enqueue", NEW r, req' = [req EXCEPT ![s] = r],
             r.step = "submit.commit" /\ r.closes => r.found
      PROVE  Converging'
  <2>1. \A t \in Slot : req'[t] = IF t = s THEN r ELSE req[t]
    BY <1>2 DEF TypeOK
  <2>2. Due => Due'
    BY <1>1, <1>2, <2>1 DEF Due, Coming
  <2>3. \A t \in Slot : req'[t].step = "submit.commit" /\ req'[t].closes => req'[t].found
    BY <1>2, <2>1 DEF Converging
  <2> QED
    BY <1>1, <1>2, <2>2, <2>3, ConvergingKept
<1>3. ASSUME NEW kind, NEW check, Begin(s, kind, check), check # "submit.commit"
      PROVE  Converging'
  <2> DEFINE r == [NoRequest EXCEPT !.step = check, !.now = clock]
  <2>1. r.step = check
    BY DEF NoRequest
  <2>2. req' = [req EXCEPT ![s] = r] /\ UNCHANGED session /\ req[s].step = "idle"
    BY <1>3 DEF Begin
  <2> HIDE DEF r
  <2> QED
    BY <1>2, <1>3, <2>1, <2>2 DEF Ended
<1>4. CASE OpenBegin(s) \/ RecordBegin(s) \/ BeatBegin(s) \/ SubmitBegin(s)
  BY <1>3, <1>4 DEF OpenBegin, RecordBegin, BeatBegin, SubmitBegin
<1>5. CASE OpenCheck(s) \/ RecordCheck(s) \/ BeatCheck(s)
  <2>1. PICK step \in {"open.insert", "record.write", "beat.write"} :
          Goes(s, step) \/ Ends(s)
    BY <1>5 DEF OpenCheck, RecordCheck, BeatCheck
  <2>2. UNCHANGED session /\ req[s].step # "submit.enqueue"
    BY <1>5 DEF OpenCheck, RecordCheck, BeatCheck
  <2>3. PICK r : req' = [req EXCEPT ![s] = r] /\ r.step \in {step, "idle"}
    <3>1. [req[s] EXCEPT !.step = step].step = step /\ NoRequest.step = "idle"
      BY DEF TypeOK, Request, NoRequest
    <3> QED
      BY <2>1, <3>1 DEF Goes, Ends
  <2> QED
    BY <1>2, <2>2, <2>3 DEF Ended
<1>6. CASE OpenInsert(s) \/ BeatWrite(s) \/ \E batch \in Batch : RecordWrite(s, batch)
  <2>1. Ends(s) /\ req[s].step # "submit.enqueue"
    BY <1>6 DEF OpenInsert, BeatWrite, RecordWrite
  <2>2. /\ UNCHANGED <<session.ended, session.score, session.purge>>
        /\ Ended' => Ended
        /\ Ended => session'.started = session.started
    BY <1>6 DEF OpenInsert, BeatWrite, RecordWrite, Ended, TypeOK, SessionRow
  <2>3. NoRequest.step # "submit.commit"
    BY DEF NoRequest
  <2> QED
    BY <1>2, <2>1, <2>2, <2>3 DEF Ends
<1>7. CASE SubmitCheck(s)
  <2>1. req'[s].closes => req'[s].found
    BY <1>7 DEF SubmitCheck, TypeOK, Request
  <2>2. req' = [req EXCEPT ![s] = req'[s]] /\ UNCHANGED session /\ req[s].step # "submit.enqueue"
    BY <1>7 DEF SubmitCheck, TypeOK
  <2> QED
    BY <1>2, <2>1, <2>2 DEF Ended
<1>8. CASE SubmitCommit(s) /\ req[s].closes
  <2>1. req[s].found
    BY <1>8 DEF Converging, SubmitCommit
  <2>2. /\ session' = [session EXCEPT !.status = "closed", !.ended = req[s].now]
        /\ req' = [req EXCEPT ![s].step = "submit.enqueue"]
    BY <1>8, <2>1 DEF SubmitCommit, Goes
  <2>3. /\ req'[s].step = "submit.enqueue"
        /\ \A t \in Slot : t # s => req'[t] = req[t]
    BY <2>2 DEF TypeOK, Request
  <2>4. Due'
    BY <2>3 DEF Due, Coming
  <2>5. \A t \in Slot : req'[t].step = "submit.commit" /\ req'[t].closes => req'[t].found
    BY <2>3 DEF Converging
  <2>6. UNCHANGED <<session.score, session.purge, session.started>>
    BY <2>2 DEF TypeOK, SessionRow
  <2> QED
    BY <1>1, <2>4, <2>5, <2>6 DEF Converging, Writes, Length
<1>9. CASE SubmitCommit(s) /\ ~req[s].closes
  <2>1. UNCHANGED session /\ req[s].step # "submit.enqueue"
    BY <1>9 DEF SubmitCommit
  <2>2. PICK r : req' = [req EXCEPT ![s] = r] /\ r.step \in {"submit.enqueue", "idle"}
    <3>1. [req[s] EXCEPT !.step = "submit.enqueue"].step = "submit.enqueue"
            /\ NoRequest.step = "idle"
      BY DEF TypeOK, Request, NoRequest
    <3> QED
      BY <1>9, <3>1 DEF SubmitCommit, Goes, Ends
  <2> QED
    BY <1>2, <2>1, <2>2 DEF Ended
<1>10. CASE SubmitEnqueue(s)
  <2>1. Due' /\ UNCHANGED session
    BY <1>1, <1>10 DEF SubmitEnqueue, Due, Coming
  <2>2. \A t \in Slot : req'[t].step = "submit.commit" /\ req'[t].closes => req'[t].found
    BY <1>10 DEF SubmitEnqueue, Ends, NoRequest, Converging, TypeOK
  <2> QED
    BY <1>1, <2>1, <2>2, ConvergingKept DEF Ended
<1>11. CASE SubmitCrash(s)
  BY <1>11 DEF SubmitCrash
<1> QED
  BY <1>4, <1>5, <1>6, <1>7, <1>8, <1>9, <1>10, <1>11 DEF Sitter

LEMMA SweepConverging ==
  ASSUME TypeOK, Consistent, Converging, ~lost', NEW w \in Sweeper, Sweeps(w)
  PROVE  Converging'
<1>1. UNCHANGED <<req, agg>> /\ queue \in Nat
  BY DEF Sweeps, SweepStart, SweepGap, SweepSelect, SweepAbort, SweepEnqueue, SweepCrash, TypeOK
<1>2. CASE SweepStart(w) \/ SweepGap(w) \/ SweepSelect(w)
  <2>1. /\ UNCHANGED <<session, queue>> /\ sweep[w].step # "enqueue"
        /\ \A v \in Sweeper \ {w} : sweep'[v] = sweep[v]
    BY <1>2 DEF SweepStart, SweepGap, SweepSelect, TypeOK
  <2>2. Due => Due'
    BY <1>1, <2>1 DEF Due, Coming
  <2> QED
    BY <1>1, <2>1, <2>2, ConvergingKept DEF Converging, Ended
<1>3. CASE SweepAbort(w)
  <2>1. sweep'[w].step = "enqueue"
    BY <1>3 DEF SweepAbort, TypeOK, Sweep
  <2>2. Due'
    BY <2>1 DEF Due, Coming
  <2>3. UNCHANGED <<session.score, session.purge, session.started>>
    BY <1>3 DEF SweepAbort, TypeOK, SessionRow
  <2> QED
    BY <1>1, <2>2, <2>3 DEF Converging, Writes, Length
<1>4. CASE SweepEnqueue(w)
  <2>1. Due' /\ UNCHANGED session
    BY <1>1, <1>4 DEF SweepEnqueue, Due, Coming
  <2> QED
    BY <1>1, <2>1, ConvergingKept DEF Converging, Ended
<1>5. CASE SweepCrash(w)
  <2>1. /\ UNCHANGED <<session, queue>> /\ sweep[w].step # "enqueue"
        /\ \A v \in Sweeper \ {w} : sweep'[v] = sweep[v]
    BY <1>5 DEF SweepCrash, TypeOK
  <2>2. Due => Due'
    BY <1>1, <2>1 DEF Due, Coming
  <2> QED
    BY <1>1, <2>1, <2>2, ConvergingKept DEF Converging, Ended
<1> QED
  BY <1>2, <1>3, <1>4, <1>5 DEF Sweeps

\* An aggregation scores the end it loaded; when the session has got another end since,
\* somebody who saw to that is still to enqueue it.
LEMMA AggregateConverging ==
  ASSUME TypeOK, Consistent, Converging, ~overlapped', NEW a \in Aggregator, Aggregates(a)
  PROVE  Converging'
<1>1. /\ UNCHANGED <<req, sweep>> /\ queue \in Nat /\ agg[a] \in Aggregation
      /\ \A b \in Aggregator \ {a} : agg'[b] = agg[b]
  BY DEF Aggregates, AggLoad, AggEvents, AggCommit, AggCrash, TypeOK
<1>2. CASE AggLoad(a)
  <2>1. UNCHANGED session /\ \A b \in Aggregator : agg[b].step # "idle" => agg[b].row.ended = session.ended
    BY <1>2 DEF AggLoad
  <2>2. CASE Ended
    <3>1. agg'[a].row = session /\ agg'[a].step # "idle"
      BY <1>1, <1>2, <2>2 DEF AggLoad, TypeOK, Aggregation
    <3>2. Due'
      BY <2>1, <3>1 DEF Due
    <3>3. \A b \in Aggregator : agg'[b].step # "idle" =>
            Writes(agg'[b].row, session') /\ agg'[b].row.started = session'.started
      BY <1>1, <2>1, <3>1 DEF Converging, Writes, Length
    <3> QED
      BY <1>1, <2>1, <3>1, <3>2, <3>3 DEF Converging
  <2>3. CASE ~Ended
    BY <1>1, <1>2, <2>3 DEF AggLoad, Consistent
  <2> QED
    BY <2>2, <2>3
<1>3. CASE AggEvents(a)
  <2>1. /\ agg'[a].row = agg[a].row /\ agg'[a].step # "idle" /\ agg[a].step # "idle"
        /\ UNCHANGED <<session, queue>>
    BY <1>1, <1>3 DEF AggEvents, TypeOK, Aggregation
  <2>2. \A b \in Aggregator :
          agg'[b].row = agg[b].row /\ (agg'[b].step # "idle" <=> agg[b].step # "idle")
    BY <1>1, <2>1
  <2>3. Due => Due'
    BY <1>1, <2>1, <2>2 DEF Due, Coming
  <2>4. Ended' = Ended /\ \A b \in Aggregator : Writes(agg[b].row, session) => Writes(agg'[b].row, session')
    BY <2>1, <2>2 DEF Ended, Writes, Length
  <2>5. ScoredByItsEnd => ScoredByItsEnd'
    BY <2>1 DEF ScoredByItsEnd, Length
  <2> QED
    BY <1>1, <2>1, <2>2, <2>3, <2>4, <2>5 DEF Converging
<1>4. CASE AggCommit(a)
  <2> DEFINE row == agg[a].row
             score == [count |-> agg[a].seen, seconds |-> Length(row)]
  <2>1. /\ agg[a].step # "idle" /\ row.ended \in Nat /\ row.started \in Nat
        /\ row.started = session.started /\ Writes(row, session)
    BY <1>4 DEF AggCommit, Consistent, Converging
  <2>2. score \in Score /\ score # Null /\ score.seconds = Length(row)
    <3>1. Length(row) \in Nat
      BY <2>1 DEF Length
    <3> QED
      BY <1>1, <3>1, NullAssumption DEF Score, Aggregation
  <2>3. /\ session' = [session EXCEPT
             !.score = IF score # row.score THEN score ELSE session.score,
             !.purge = IF row.ended + Retention # row.purge THEN row.ended + Retention
                       ELSE session.purge]
        /\ UNCHANGED queue
    BY <1>4 DEF AggCommit, TypeOK, SessionRow, Length
  <2> HIDE DEF score
  <2>4. /\ session'.score # Null /\ session'.score.seconds = Length(row)
        /\ session'.purge = row.ended + Retention
        /\ UNCHANGED <<session.status, session.ended, session.started>>
    <3>1. /\ session'.score = (IF score # row.score THEN score ELSE session.score)
          /\ session'.purge = (IF row.ended + Retention # row.purge THEN row.ended + Retention
                               ELSE session.purge)
          /\ UNCHANGED <<session.status, session.ended, session.started>>
      BY <2>3 DEF TypeOK, SessionRow
    <3> QED
      BY <2>1, <2>2, <3>1 DEF Writes
  <2>5. agg'[a].step = "idle"
    BY <1>4 DEF AggCommit, TypeOK, NoAggregation
  <2>6. \A b \in Aggregator : agg'[b].step # "idle" =>
          b # a /\ agg[b].step # "idle" /\ agg[b].row.ended = row.ended
            /\ agg[b].row.started = session.started
    BY <1>1, <2>1, <2>5 DEF Converging
  <2>7. ASSUME NEW b \in Aggregator, agg'[b].step # "idle"
        PROVE  Writes(agg'[b].row, session') /\ agg'[b].row.started = session'.started
    <3>1. /\ agg'[b].row = agg[b].row
          /\ agg[b].row.ended = row.ended /\ agg[b].row.started = row.started
      BY <1>1, <2>1, <2>6, <2>7
    <3>2. Length(agg[b].row) = Length(row)
      BY <3>1 DEF Length
    <3> QED
      BY <2>1, <2>4, <2>6, <2>7, <3>1, <3>2 DEF Writes, Length
  <2>8. \A b, c \in Aggregator : agg'[b].step # "idle" /\ agg'[c].step # "idle" =>
          agg'[b].row.ended = agg'[c].row.ended
    BY <1>1, <2>6
  <2>9. ASSUME Ended', ~Due'
        PROVE  ScoredByItsEnd' /\ \A b \in Aggregator : agg'[b].step = "idle"
    <3>1. ~Coming
      BY <1>1, <2>3, <2>9 DEF Due, Coming
    <3>2. Ended
      BY <2>1 DEF Consistent
    <3>3. Due
      BY <2>1, <3>2 DEF Converging
    <3>4. PICK b \in Aggregator : agg[b].step # "idle" /\ agg[b].row.ended = session.ended
      BY <3>1, <3>3 DEF Due
    <3>5. row.ended = session.ended
      BY <2>1, <3>4 DEF Converging
    <3>6. ScoredByItsEnd'
      BY <2>1, <2>4, <3>5 DEF ScoredByItsEnd, Length
    <3>7. \A c \in Aggregator : agg'[c].step = "idle"
      BY <1>1, <2>4, <2>6, <2>9, <3>5 DEF Due
    <3> QED
      BY <3>6, <3>7
  <2> QED
    BY <1>1, <2>7, <2>8, <2>9 DEF Converging
<1>5. CASE AggCrash(a)
  <2>1. Due' /\ UNCHANGED session /\ agg'[a].step = "idle"
    BY <1>1, <1>5 DEF AggCrash, Due, Coming, TypeOK, NoAggregation
  <2> QED
    BY <1>1, <2>1 DEF Converging, Writes, Length
<1> QED
  BY <1>2, <1>3, <1>4, <1>5 DEF Aggregates

\* When no end was left without its enqueue and no two ends were aggregated at once, the
\* score and the purge deadline of a session end up those of the end it finally has,
\* however many hand-ins, sweeps, aggregations and killed workers there were.
THEOREM AggregateConvergesHolds == Spec => []AggregateConverges
<1> DEFINE Sound == ~lost /\ ~overlapped => Converging
<1>1. Init => Sound
  BY DEF Init, Converging, Ended, NoSession, NoRequest, NoAggregation
<1>2. TypeOK /\ Consistent /\ Sound /\ [Next]_vars => Sound'
  <2> SUFFICES ASSUME TypeOK, Consistent, Sound, [Next]_vars, ~lost', ~overlapped'
               PROVE  Converging'
    OBVIOUS
  <2>1. Converging
    <3>1. UNCHANGED <<lost, overlapped>> \/ lost' \/ overlapped'
      <4>1. CASE Tick \/ Void \/ UNCHANGED vars
        BY <4>1 DEF Tick, Void, vars
      <4>2. ASSUME NEW s \in Slot, Sitter(s)
            PROVE  UNCHANGED <<lost, overlapped>> \/ lost' \/ overlapped'
        BY <4>2 DEF Sitter, OpenBegin, RecordBegin, BeatBegin, SubmitBegin, Begin, OpenCheck,
             OpenInsert, RecordCheck, RecordWrite, BeatCheck, BeatWrite, SubmitCheck,
             SubmitCommit, SubmitEnqueue, SubmitCrash
      <4>3. ASSUME NEW w \in Sweeper, Sweeps(w)
            PROVE  UNCHANGED <<lost, overlapped>> \/ lost' \/ overlapped'
        <5>1. CASE SweepCrash(w)
          <6>1. lost' = (lost \/ sweep[w].step = "enqueue") /\ overlapped' = overlapped
            BY <5>1 DEF SweepCrash
          <6> QED
            BY <6>1 DEF TypeOK
        <5> QED
          BY <4>3, <5>1 DEF Sweeps, SweepStart, SweepGap, SweepSelect, SweepAbort, SweepEnqueue
      <4>4. ASSUME NEW a \in Aggregator, Aggregates(a)
            PROVE  UNCHANGED <<lost, overlapped>> \/ lost' \/ overlapped'
        <5>1. CASE AggLoad(a)
          <6>1. PICK other \in BOOLEAN : overlapped' = (overlapped \/ other) /\ lost' = lost
            BY <5>1 DEF AggLoad
          <6> QED
            BY <6>1 DEF TypeOK
        <5> QED
          BY <4>4, <5>1 DEF Aggregates, AggEvents, AggCommit, AggCrash
      <4> QED
        BY <4>1, <4>2, <4>3, <4>4 DEF Next
    <3> QED
      BY <3>1
  <2>2. CASE Tick \/ Void \/ UNCHANGED vars
    <3>1. UNCHANGED <<session, req, sweep, queue, agg>>
      BY <2>2 DEF Tick, Void, vars
    <3>2. Due => Due'
      BY <3>1 DEF Due, Coming
    <3> QED
      BY <2>1, <3>1, <3>2, ConvergingKept DEF Converging, Ended
  <2>3. ASSUME NEW s \in Slot, Sitter(s)
        PROVE  Converging'
    BY <2>1, <2>3, SitterConverging
  <2>4. ASSUME NEW w \in Sweeper, Sweeps(w)
        PROVE  Converging'
    BY <2>1, <2>4, SweepConverging
  <2>5. ASSUME NEW a \in Aggregator, Aggregates(a)
        PROVE  Converging'
    BY <2>1, <2>5, AggregateConverging
  <2> QED
    BY <2>2, <2>3, <2>4, <2>5 DEF Next
<1>3. TypeOK /\ Sound => AggregateConverges
  <2> SUFFICES ASSUME TypeOK, Converging, Settled
               PROVE  ScoredByItsEnd
    BY DEF AggregateConverges, ScoredByItsEnd, Length
  <2>1. ~Due
    BY DEF Due, Coming, Settled, Past
  <2> QED
    BY <2>1 DEF Converging, Settled
<1> QED
  BY <1>1, <1>2, <1>3, Correct, PTL DEF Spec

-----------------------------------------------------------------------------
(***************************************************************************)
(* How much a window of the record holds.                                  *)
(***************************************************************************)
LEMMA LongestBatchIs ==
  LongestBatch \in Nat /\ \A batch \in Batch : Len(batch) <= LongestBatch
<1> DEFINE Lengths == {Len(batch) : batch \in Batch}
           f == [batch \in Batch |-> Len(batch)]
<1>1. f \in Surjection(Batch, Lengths)
  BY DEF Surjection
<1>2. \A batch \in Batch : Len(batch) \in Nat
  BY BatchAssumption
<1>3. Lengths \subseteq Nat /\ Lengths # {}
  BY <1>2, BatchAssumption
<1> HIDE DEF f
<1>4. IsFiniteSet(Lengths)
  BY <1>1, BatchAssumption, FS_Surjection
<1>5. \E n \in Lengths : \A m \in Lengths : n >= m
  <2> HIDE DEF Lengths
  <2>1. Lengths \subseteq Int
    BY <1>3
  <2>2. Max(Lengths) \in Lengths /\ \A m \in Lengths : Max(Lengths) >= m
    BY <1>3, <1>4, <2>1, MaxIs
  <2> QED
    BY <2>2
<1>6. \E n \in Lengths : \A batch \in Batch : Len(batch) <= n
  BY <1>2, <1>5
<1>7. LongestBatch \in Lengths /\ \A batch \in Batch : Len(batch) <= LongestBatch
  BY <1>6 DEF LongestBatch
<1> QED
  BY <1>3, <1>7

\* The batches past their check whose events will be in the window that ends at `from`.
Writing(from) ==
  {s \in Slot : /\ req[s].step = "record.write"
                /\ req[s].now > from - Window /\ req[s].now <= from}

\* A window has room for the batches that are past their check.
Roomy(from) ==
  Cardinality(Reported(from)) + Cardinality(Writing(from)) * LongestBatch
    < Limit + Cardinality(Slot) * LongestBatch

AllRoomy == \A from \in 0..MaxClock : Roomy(from)

LEMMA WindowCounts ==
  ASSUME TypeOK, NEW from \in Nat
  PROVE  /\ IsFiniteSet(Reported(from)) /\ Cardinality(Reported(from)) \in Nat
         /\ IsFiniteSet(Writing(from)) /\ Cardinality(Writing(from)) \in Nat
         /\ Cardinality(Writing(from)) <= Cardinality(Slot)
         /\ Cardinality(Slot) \in Nat /\ Limit \in Nat
<1>1. IsFiniteSet(DOMAIN events)
  <2>1. DOMAIN events = 1..Len(events) /\ Len(events) \in Nat
    BY DEF TypeOK
  <2> QED
    BY <2>1, FS_Interval
<1>2. Reported(from) \subseteq DOMAIN events
  BY DEF Reported
<1>3. Writing(from) \subseteq Slot
  BY DEF Writing
<1>4. IsFiniteSet(Slot) /\ Limit \in Nat
  BY BoundsAssumption, TimesAssumption
<1> QED
  BY <1>1, <1>2, <1>3, <1>4, FS_Subset, FS_CardinalityType

LEMMA ProductType ==
  ASSUME NEW m \in Nat, NEW k \in Nat
  PROVE  m * k \in Nat
OBVIOUS

\* Fewer batches on their way need less room.
LEMMA LessRoom ==
  ASSUME NEW m \in Nat, NEW n \in Nat, NEW k \in Nat, m <= n
  PROVE  m * k <= n * k /\ m * k \in Nat /\ n * k \in Nat
         /\ (m < n => m * k + k <= n * k)
<1>1. PICK d \in Nat : n = m + d
  <2>1. n - m \in Nat /\ n = m + (n - m)
    OBVIOUS
  <2> QED
    BY <2>1
<1>2. n * k = m * k + d * k /\ m * k \in Nat /\ d * k \in Nat
  BY <1>1
<1>3. ASSUME m < n
      PROVE  d * k >= k
  <2>1. PICK e \in Nat : d = e + 1
    <3>1. d - 1 \in Nat /\ d = (d - 1) + 1
      BY <1>1, <1>3
    <3> QED
      BY <3>1
  <2>2. d * k = e * k + k /\ e * k \in Nat
    BY <2>1
  <2> QED
    BY <2>2
<1> QED
  BY <1>2, <1>3

\* A step that reports nothing and lets no batch past the check.
LEMMA RoomyKept ==
  ASSUME TypeOK, TypeOK', NEW from \in Nat, Roomy(from),
         Reported(from)' = Reported(from), Writing(from)' \subseteq Writing(from)
  PROVE  Roomy(from)'
<1>1. Cardinality(Writing(from)') <= Cardinality(Writing(from))
  BY WindowCounts, FS_Subset
<1>2. Cardinality(Writing(from)') \in Nat
  BY <1>1, WindowCounts, FS_Subset, FS_CardinalityType
<1>3. Cardinality(Writing(from)') * LongestBatch <= Cardinality(Writing(from)) * LongestBatch
  BY <1>1, <1>2, WindowCounts, LessRoom, LongestBatchIs
<1> DEFINE r == Cardinality(Reported(from))
           w == Cardinality(Writing(from)) * LongestBatch
           v == Cardinality(Writing(from)') * LongestBatch
           room == Limit + Cardinality(Slot) * LongestBatch
<1>4. r \in Nat /\ w \in Nat /\ v \in Nat /\ room \in Nat
  <2>1. w \in Nat /\ v \in Nat
    BY <1>2, WindowCounts, ProductType, LongestBatchIs
  <2>2. Cardinality(Slot) * LongestBatch \in Nat
    BY WindowCounts, ProductType, LongestBatchIs
  <2> QED
    BY <2>1, <2>2, WindowCounts
<1>5. r + w < room
  BY DEF Roomy
<1> HIDE DEF r, w, v, room
<1>6. r + v < room
  <2>1. v <= w
    BY <1>3 DEF v, w
  <2> QED
    BY <1>4, <1>5, <2>1
<1> QED
  BY <1>6 DEF Roomy, r, v, room

\* What is appended is reported or it is not.
LEMMA ReportedGrows ==
  ASSUME TypeOK, NEW more \in Seq(Event), events' = events \o more, NEW from \in Nat
  PROVE  /\ Reported(from)' \subseteq
              Reported(from) \cup (Len(events) + 1 .. Len(events) + Len(more))
         /\ Reported(from) \subseteq Reported(from)'
         /\ (\A i \in DOMAIN more : \/ more[i].type \notin {"observed", "clock_skew"}
                                    \/ more[i].at <= from - Window
                                    \/ more[i].at > from)
              => Reported(from)' = Reported(from)
<1>1. /\ DOMAIN events = 1..Len(events) /\ Len(events) \in Nat
      /\ DOMAIN more = 1..Len(more) /\ Len(more) \in Nat
      /\ DOMAIN events' = 1..Len(events) + Len(more)
      /\ \A i \in 1..Len(events) : events'[i] = events[i]
      /\ \A i \in Len(events) + 1 .. Len(events) + Len(more) : events'[i] = more[i - Len(events)]
  BY DEF TypeOK
<1>2. \A i \in 1..Len(events) : i \in Reported(from)' <=> i \in Reported(from)
  BY <1>1 DEF Reported
<1>3. /\ Reported(from) \subseteq 1..Len(events)
      /\ Reported(from)' \subseteq 1..Len(events) + Len(more)
  BY <1>1 DEF Reported
<1>4. \A i \in 1..Len(events) + Len(more) :
        \/ i \in 1..Len(events)
        \/ i \in Len(events) + 1 .. Len(events) + Len(more) /\ i - Len(events) \in 1..Len(more)
  BY <1>1
<1>5. ASSUME NEW i \in Reported(from)', i \notin Reported(from)
      PROVE  /\ i \in Len(events) + 1 .. Len(events) + Len(more)
             /\ i - Len(events) \in DOMAIN more
             /\ more[i - Len(events)].type \in {"observed", "clock_skew"}
             /\ more[i - Len(events)].at > from - Window
             /\ more[i - Len(events)].at <= from
  <2>1. i \in Len(events) + 1 .. Len(events) + Len(more) /\ i - Len(events) \in 1..Len(more)
    BY <1>2, <1>3, <1>4, <1>5
  <2>2. events'[i] = more[i - Len(events)]
    BY <1>1, <2>1
  <2>3. /\ events'[i].type \in {"observed", "clock_skew"}
        /\ events'[i].at > from - Window /\ events'[i].at <= from
    BY <1>5 DEF Reported
  <2> QED
    BY <1>1, <2>1, <2>2, <2>3
<1>6. \A j \in DOMAIN more : more[j].at \in Nat
  <2>1. \A j \in DOMAIN more : more[j] \in Event
    BY <1>1
  <2> QED
    BY <2>1 DEF Event
<1>7. from - Window \in Int
  BY TimesAssumption
<1>8. ASSUME \A i \in DOMAIN more : \/ more[i].type \notin {"observed", "clock_skew"}
                                    \/ more[i].at <= from - Window
                                    \/ more[i].at > from
      PROVE  Reported(from)' \subseteq Reported(from)
  BY <1>5, <1>6, <1>7, <1>8
<1> QED
  BY <1>2, <1>3, <1>5, <1>8

\* A record that only got events the monitor itself writes.
LEMMA AppendUnreported ==
  ASSUME TypeOK, NEW e \in Event, events' = Append(events, e),
         e.type \notin {"observed", "clock_skew"}, NEW from \in Nat
  PROVE  Reported(from)' = Reported(from)
<1>1. events' = events \o <<e>> /\ <<e>> \in Seq(Event) /\ \A i \in DOMAIN <<e>> : <<e>>[i] = e
  BY DEF TypeOK
<1> QED
  BY <1>1, ReportedGrows

LEMMA SitterRoomy ==
  ASSUME TypeOK, TypeOK', NEW from \in 0..MaxClock, Roomy(from), NEW s \in Slot, Sitter(s)
  PROVE  Roomy(from)'
<1>1. from \in Nat /\ req[s].now \in Nat /\ Window \in Nat
  BY BoundsAssumption, TimesAssumption DEF TypeOK, Request
<1>2. ASSUME NEW r, req' = [req EXCEPT ![s] = r], r.step # "record.write"
      PROVE  Writing(from)' \subseteq Writing(from) \ {s}
  BY <1>2 DEF Writing, TypeOK
<1>3. ASSUME UNCHANGED events, NEW r, req' = [req EXCEPT ![s] = r], r.step # "record.write"
      PROVE  Roomy(from)'
  <2>1. Reported(from)' = Reported(from)
    BY <1>3 DEF Reported
  <2> QED
    BY <1>1, <1>2, <1>3, <2>1, RoomyKept
<1>4. NoRequest.step # "record.write"
  BY DEF NoRequest
<1>5. ASSUME NEW kind, NEW check, Begin(s, kind, check), check # "record.write"
      PROVE  Roomy(from)'
  <2> DEFINE r == [NoRequest EXCEPT !.step = check, !.now = clock]
  <2>1. r.step = check
    BY DEF NoRequest
  <2>2. req' = [req EXCEPT ![s] = r] /\ UNCHANGED events
    BY <1>5 DEF Begin
  <2> HIDE DEF r
  <2> QED
    BY <1>3, <1>5, <2>1, <2>2
<1>6. CASE OpenBegin(s) \/ RecordBegin(s) \/ BeatBegin(s) \/ SubmitBegin(s)
  BY <1>5, <1>6 DEF OpenBegin, RecordBegin, BeatBegin, SubmitBegin
<1>7. CASE OpenCheck(s) \/ BeatCheck(s) \/ SubmitCheck(s)
  <2>1. req' = [req EXCEPT ![s] = req'[s]] /\ req'[s].step # "record.write" /\ UNCHANGED events
    BY <1>4, <1>7 DEF OpenCheck, BeatCheck, SubmitCheck, Goes, Ends, TypeOK, Request
  <2> QED
    BY <1>3, <2>1
<1>8. CASE BeatWrite(s) \/ SubmitEnqueue(s) \/ SubmitCrash(s)
  <2>1. UNCHANGED events /\ Ends(s)
    BY <1>8 DEF BeatWrite, SubmitEnqueue, SubmitCrash
  <2> QED
    BY <1>3, <1>4, <2>1 DEF Ends
<1>9. CASE OpenInsert(s) \/ SubmitCommit(s)
  <2>1. PICK r : req' = [req EXCEPT ![s] = r] /\ r.step # "record.write"
    <3>1. [req[s] EXCEPT !.step = "submit.enqueue"].step = "submit.enqueue"
      BY DEF TypeOK, Request
    <3> QED
      BY <1>4, <1>9, <3>1 DEF OpenInsert, SubmitCommit, Goes, Ends
  <2>2. \/ UNCHANGED events
        \/ \E type \in {"session_start", "session_end"} :
             events' = Append(events, Observation(type, req[s].now))
    BY <1>9 DEF OpenInsert, SubmitCommit
  <2>3. ASSUME NEW type \in {"session_start", "session_end"},
               events' = Append(events, Observation(type, req[s].now))
        PROVE  Reported(from)' = Reported(from)
    <3>1. Observation(type, req[s].now) \in Event
      BY <1>1, ObservationType DEF EventType
    <3>2. Observation(type, req[s].now).type = type
      BY DEF Observation
    <3> QED
      BY <1>1, <2>3, <3>1, <3>2, AppendUnreported
  <2>4. Reported(from)' = Reported(from)
    BY <2>2, <2>3 DEF Reported
  <2> QED
    BY <1>1, <1>2, <2>1, <2>4, RoomyKept
<1>10. CASE RecordCheck(s) /\ ~(req'[s].step = "record.write")
  <2>1. req' = [req EXCEPT ![s] = req'[s]] /\ UNCHANGED events
    BY <1>10 DEF RecordCheck, Goes, Ends, TypeOK
  <2> QED
    BY <1>3, <1>10, <2>1
<1>11. CASE RecordCheck(s) /\ req'[s].step = "record.write"
  <2>1. /\ Cardinality(Recent(req[s].now)) < Limit /\ UNCHANGED events
        /\ req' = [req EXCEPT ![s].step = "record.write"]
    BY <1>4, <1>11 DEF RecordCheck, Goes, Ends, TypeOK
  <2>2. Reported(from)' = Reported(from)
    BY <2>1 DEF Reported
  <2>3. CASE ~(req[s].now > from - Window /\ req[s].now <= from)
    <3>1. Writing(from)' \subseteq Writing(from)
      BY <2>1, <2>3 DEF Writing, TypeOK, Request
    <3> QED
      BY <1>1, <2>2, <3>1, RoomyKept
  <2>4. CASE req[s].now > from - Window /\ req[s].now <= from
    <3>1. IsFiniteSet(Recent(req[s].now)) /\ Reported(from) \subseteq Recent(req[s].now)
      <4>1. DOMAIN events = 1..Len(events) /\ Len(events) \in Nat
              /\ \A i \in DOMAIN events : events[i].at \in Nat
        <5>1. DOMAIN events = 1..Len(events) /\ Len(events) \in Nat
                /\ \A i \in DOMAIN events : events[i] \in Event
          BY DEF TypeOK
        <5> QED
          BY <5>1 DEF Event
      <4>2. Recent(req[s].now) \subseteq DOMAIN events /\ IsFiniteSet(DOMAIN events)
        BY <4>1, FS_Interval DEF Recent
      <4>3. Reported(from) \subseteq Recent(req[s].now)
        BY <1>1, <2>4, <4>1 DEF Reported, Recent
      <4> QED
        BY <4>2, <4>3, FS_Subset
    <3>2. Cardinality(Reported(from)) <= Cardinality(Recent(req[s].now))
            /\ Cardinality(Recent(req[s].now)) \in Nat
      BY <3>1, FS_Subset, FS_CardinalityType
    <3>3. Cardinality(Reported(from)) < Limit
      BY <1>1, <2>1, <3>2, WindowCounts
    <3>4. /\ Cardinality(Writing(from)') <= Cardinality(Slot)
          /\ Cardinality(Writing(from)') \in Nat
      <4>1. Writing(from)' \subseteq Slot
        BY DEF Writing
      <4> QED
        BY <4>1, BoundsAssumption, FS_Subset, FS_CardinalityType
    <3>5. Cardinality(Writing(from)') * LongestBatch <= Cardinality(Slot) * LongestBatch
            /\ Cardinality(Writing(from)') * LongestBatch \in Nat
            /\ Cardinality(Slot) * LongestBatch \in Nat
      BY <1>1, <3>4, WindowCounts, LessRoom, LongestBatchIs
    <3>6. Cardinality(Reported(from)) \in Nat /\ Limit \in Nat
      BY <1>1, WindowCounts
    <3> QED
      BY <2>2, <3>3, <3>5, <3>6 DEF Roomy
  <2> QED
    BY <2>3, <2>4
<1>12. ASSUME NEW batch \in Batch, RecordWrite(s, batch)
       PROVE  Roomy(from)'
  <2> DEFINE more == [i \in DOMAIN batch |-> Observation(batch[i], req[s].now)]
  <2>1. more \in Seq(Event) /\ events' = events \o more /\ Len(more) = Len(batch)
    <3>1. batch \in Seq({"observed", "clock_skew"})
      BY BatchAssumption
    <3>2. more \in Seq(Event) /\ events' = events \o more
      BY <1>1, <1>12, BatchType DEF RecordWrite
    <3>3. DOMAIN more = DOMAIN batch
      OBVIOUS
    <3> HIDE DEF more
    <3> QED
      BY <3>1, <3>2, <3>3
  <2>2. \A i \in DOMAIN more : more[i].at = req[s].now
    BY DEF Observation
  <2> HIDE DEF more
  <2>3. Writing(from)' \subseteq Writing(from) \ {s}
    BY <1>2, <1>4, <1>12 DEF RecordWrite, Ends
  <2>4. CASE ~(req[s].now > from - Window /\ req[s].now <= from)
    <3>1. \A i \in DOMAIN more : more[i].at <= from - Window \/ more[i].at > from
      BY <1>1, <2>2, <2>4
    <3>2. Reported(from)' = Reported(from)
      BY <1>1, <2>1, <3>1, ReportedGrows
    <3> QED
      BY <1>1, <2>3, <3>2, RoomyKept
  <2>5. CASE req[s].now > from - Window /\ req[s].now <= from
    <3>1. s \in Writing(from)
      BY <1>12, <2>5 DEF Writing, RecordWrite
    <3>2. /\ Cardinality(Writing(from)') + 1 <= Cardinality(Writing(from))
          /\ Cardinality(Writing(from)') \in Nat
      <4>1. /\ IsFiniteSet(Writing(from) \ {s})
            /\ Cardinality(Writing(from) \ {s}) = Cardinality(Writing(from)) - 1
        BY <1>1, <3>1, WindowCounts, FS_RemoveElement
      <4>2. /\ Cardinality(Writing(from)') <= Cardinality(Writing(from) \ {s})
            /\ Cardinality(Writing(from)') \in Nat
        BY <2>3, <4>1, FS_Subset, FS_CardinalityType
      <4> QED
        BY <1>1, <4>1, <4>2, WindowCounts
    <3>3. /\ Cardinality(Reported(from)') <= Cardinality(Reported(from)) + Len(batch)
          /\ Cardinality(Reported(from)') \in Nat /\ Len(batch) \in Nat
      <4> DEFINE new == Len(events) + 1 .. Len(events) + Len(more)
      <4>1. Len(events) \in Nat /\ Len(more) \in Nat
        BY <2>1 DEF TypeOK
      <4>2. IsFiniteSet(new) /\ Cardinality(new) = Len(more)
        <5> DEFINE a == Len(events) + 1
                   b == Len(events) + Len(more)
        <5>1. /\ a \in Int /\ b \in Int
              /\ (IF a > b THEN 0 ELSE b - a + 1) = Len(more)
          BY <4>1
        <5> HIDE DEF a, b
        <5>2. IsFiniteSet(a..b) /\ Cardinality(a..b) = Len(more)
          BY <5>1, FS_Interval
        <5> QED
          BY <5>2 DEF a, b
      <4>3. Reported(from)' \subseteq Reported(from) \cup new
        BY <1>1, <2>1, ReportedGrows
      <4> HIDE DEF new
      <4>4. /\ IsFiniteSet(Reported(from) \cup new)
            /\ Cardinality(Reported(from) \cup new)
                 = Cardinality(Reported(from)) + Len(more) - Cardinality(Reported(from) \cap new)
        BY <1>1, <4>2, WindowCounts, FS_Union
      <4>5. Cardinality(Reported(from) \cap new) \in Nat
        BY <1>1, WindowCounts, FS_Intersection, FS_CardinalityType
      <4>6. /\ Cardinality(Reported(from)') <= Cardinality(Reported(from) \cup new)
            /\ Cardinality(Reported(from)') \in Nat
            /\ Cardinality(Reported(from) \cup new) \in Nat
        BY <4>3, <4>4, FS_Subset, FS_CardinalityType
      <4>7. Cardinality(Reported(from)) \in Nat
        BY <1>1, WindowCounts
      <4> QED
        BY <2>1, <4>1, <4>4, <4>5, <4>6, <4>7
    <3> DEFINE r == Cardinality(Reported(from))
               r2 == Cardinality(Reported(from)')
               w == Cardinality(Writing(from)) * LongestBatch
               w2 == Cardinality(Writing(from)') * LongestBatch
               room == Limit + Cardinality(Slot) * LongestBatch
    <3>4. w2 + LongestBatch <= w /\ w \in Nat /\ w2 \in Nat /\ LongestBatch \in Nat
      <4>1. /\ Cardinality(Writing(from)) \in Nat /\ LongestBatch \in Nat
            /\ Cardinality(Writing(from)') < Cardinality(Writing(from))
        BY <1>1, <3>2, WindowCounts, LongestBatchIs
      <4> QED
        BY <3>2, <4>1, LessRoom
    <3>5. r2 <= r + LongestBatch /\ r \in Nat /\ r2 \in Nat
      BY <1>1, <3>3, WindowCounts, LongestBatchIs
    <3>6. r + w < room
      BY DEF Roomy
    <3>7. room \in Nat
      <4>1. Cardinality(Slot) * LongestBatch \in Nat /\ Limit \in Nat
        BY <1>1, WindowCounts, ProductType, LongestBatchIs
      <4> QED
        BY <4>1
    <3> HIDE DEF r, r2, w, w2, room
    <3>8. r2 + w2 < room
      BY <3>4, <3>5, <3>6, <3>7
    <3> QED
      BY <3>8 DEF r2, w2, room, Roomy
  <2> QED
    BY <2>4, <2>5
<1> QED
  BY <1>6, <1>7, <1>8, <1>9, <1>10, <1>11, <1>12 DEF Sitter

LEMMA SweepRoomy ==
  ASSUME TypeOK, TypeOK', NEW from \in 0..MaxClock, Roomy(from), NEW w \in Sweeper, Sweeps(w)
  PROVE  Roomy(from)'
<1>1. from \in Nat /\ sweep[w].tx \in Nat /\ sweep[w].since \in Time
  BY BoundsAssumption DEF TypeOK, Sweep
<1>2. UNCHANGED req
  BY DEF Sweeps, SweepStart, SweepGap, SweepSelect, SweepAbort, SweepEnqueue, SweepCrash
<1>3. Writing(from)' = Writing(from)
  BY <1>2 DEF Writing
<1>4. CASE UNCHANGED events
  <2>1. Reported(from)' = Reported(from)
    BY <1>4 DEF Reported
  <2> QED
    BY <1>1, <1>3, <2>1, RoomyKept
<1>5. CASE SweepGap(w)
  <2> DEFINE e == [type |-> "heartbeat_gap", at |-> sweep[w].tx, since |-> sweep[w].since]
  <2>1. e \in Event /\ e.type = "heartbeat_gap"
    BY <1>1 DEF Event, EventType
  <2>2. events' = Append(events, e)
    BY <1>5 DEF SweepGap
  <2> HIDE DEF e
  <2>3. Reported(from)' = Reported(from)
    BY <1>1, <2>1, <2>2, AppendUnreported
  <2> QED
    BY <1>1, <1>3, <2>3, RoomyKept
<1>6. CASE SweepAbort(w)
  <2>1. Observation("session_end", sweep[w].tx) \in Event
    BY <1>1, ObservationType DEF EventType
  <2>2. Observation("session_end", sweep[w].tx).type = "session_end"
    BY DEF Observation
  <2>3. Reported(from)' = Reported(from)
    BY <1>1, <1>6, <2>1, <2>2, AppendUnreported DEF SweepAbort
  <2> QED
    BY <1>1, <1>3, <2>3, RoomyKept
<1> QED
  BY <1>4, <1>5, <1>6 DEF Sweeps, SweepStart, SweepSelect, SweepEnqueue, SweepCrash

\* No window holds as much as the limit and one batch for each request, for any limit, any
\* length of batches and any number of tabs, however their checks and writes race.
THEOREM NotFloodedHolds == Spec => []NotFlooded
<1>1. Init => AllRoomy
  <2> SUFFICES ASSUME Init, NEW from \in 0..MaxClock
               PROVE  Roomy(from)
    BY DEF AllRoomy
  <2>1. Reported(from) = {} /\ Writing(from) = {}
    BY DEF Init, Reported, Writing, NoRequest
  <2>2. Limit \in Nat /\ Limit > 0 /\ Cardinality(Slot) \in Nat
    BY TimesAssumption, BoundsAssumption, FS_CardinalityType
  <2>3. /\ Cardinality(Slot) * LongestBatch \in Nat
        /\ 0 * LongestBatch = 0
    BY <2>2, LongestBatchIs, LessRoom
  <2> QED
    BY <2>1, <2>2, <2>3, FS_EmptySet DEF Roomy
<1>2. TypeOK /\ TypeOK' /\ AllRoomy /\ [Next]_vars => AllRoomy'
  <2> SUFFICES ASSUME TypeOK, TypeOK', AllRoomy, [Next]_vars, NEW from \in 0..MaxClock
               PROVE  Roomy(from)'
    BY DEF AllRoomy
  <2>1. from \in Nat /\ Roomy(from)
    BY BoundsAssumption DEF AllRoomy
  <2>2. CASE Tick \/ Void \/ UNCHANGED vars \/ \E a \in Aggregator : Aggregates(a)
    <3>1. UNCHANGED <<events, req>>
      BY <2>2 DEF Tick, Void, vars, Aggregates, AggLoad, AggEvents, AggCommit, AggCrash
    <3> QED
      BY <2>1, <3>1 DEF Roomy, Reported, Writing
  <2>3. ASSUME NEW s \in Slot, Sitter(s)
        PROVE  Roomy(from)'
    BY <2>1, <2>3, SitterRoomy
  <2>4. ASSUME NEW w \in Sweeper, Sweeps(w)
        PROVE  Roomy(from)'
    BY <2>1, <2>4, SweepRoomy
  <2> QED
    BY <2>2, <2>3, <2>4 DEF Next
<1>3. TypeOK /\ AllRoomy => NotFlooded
  <2> SUFFICES ASSUME TypeOK, AllRoomy, NEW from \in 0..MaxClock
               PROVE  Cardinality(Reported(from)) < Limit + Cardinality(Slot) * LongestBatch
    BY DEF NotFlooded
  <2>1. from \in Nat /\ Roomy(from)
    BY BoundsAssumption DEF AllRoomy
  <2>2. /\ Cardinality(Reported(from)) \in Nat /\ Limit \in Nat
        /\ Cardinality(Writing(from)) * LongestBatch \in Nat
        /\ Cardinality(Slot) * LongestBatch \in Nat
    BY <2>1, WindowCounts, LessRoom, LongestBatchIs
  <2> QED
    BY <2>1, <2>2 DEF Roomy
<1> QED
  BY <1>1, <1>2, <1>3, TypeCorrect, PTL DEF Spec

=============================================================================
