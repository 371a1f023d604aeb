------------------------------- MODULE Sitting -------------------------------
(***************************************************************************)
(* What one sitting of a paper promises, whatever the requests, workers    *)
(* and transactions that carry it do.                                      *)
(*                                                                         *)
(* A sitting is begun once and finished once (handed in or voided); it is  *)
(* marked only after it is finished; the person who sat it is shown a mark *)
(* only once there is one.  None of these is ever undone.  With `AutoShow` *)
(* (results_release = 'immediate') marking shows the result in the same    *)
(* step, and without it somebody has to decide to.                         *)
(***************************************************************************)
CONSTANT AutoShow       \* results_release = 'immediate'

VARIABLES
  progress,             \* "absent", "open" or "finished"
  marked,               \* a result has been recorded
  shown                 \* the sitter can see it

vars == <<progress, marked, shown>>

TypeOK ==
  /\ progress \in {"absent", "open", "finished"}
  /\ marked \in BOOLEAN
  /\ shown \in BOOLEAN

Init ==
  /\ progress = "absent"
  /\ marked = FALSE
  /\ shown = FALSE

Begin ==
  /\ progress = "absent"
  /\ progress' = "open"
  /\ UNCHANGED <<marked, shown>>

Finish ==
  /\ progress = "open"
  /\ progress' = "finished"
  /\ UNCHANGED <<marked, shown>>

Mark ==
  /\ progress = "finished"
  /\ marked' = TRUE
  /\ shown' = (shown \/ AutoShow)
  /\ UNCHANGED progress

Show ==
  /\ marked
  /\ shown' = TRUE
  /\ UNCHANGED <<progress, marked>>

Next == Begin \/ Finish \/ Mark \/ Show

Spec == Init /\ [][Next]_vars

=============================================================================
