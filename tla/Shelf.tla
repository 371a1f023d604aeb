-------------------------------- MODULE Shelf --------------------------------
(***************************************************************************)
(* What the library promises of one book, to whoever asks it questions:    *)
(* the passages that answer are always those of one reading of the book,   *)
(* whole, and exactly the people the book is shared with can be answered   *)
(* from them.  A new reading replaces the old one in one step; sharing     *)
(* moves the book and its passages in one step, and needs passages to      *)
(* share; removal takes everything and is final.                           *)
(*                                                                         *)
(* Library implements this with rows, locks, triggers, queued tasks and    *)
(* retries.                                                                *)
(***************************************************************************)
CONSTANTS Reading, Scope, First

VARIABLES
  passages,   \* the passages that can answer: [by, scope], one per reading of the book
  scope,      \* who the book says may be answered
  removed     \* the book is gone

shelfVars == <<passages, scope, removed>>

Init ==
  /\ passages = {}
  /\ scope = First
  /\ removed = FALSE

Replace ==
  /\ ~removed
  /\ \E p \in passages' : passages' = {p} /\ p \in [by : Reading, scope : {scope}]
  /\ UNCHANGED <<scope, removed>>

ShareWith(target) ==
  /\ ~removed
  /\ passages # {}
  /\ scope' = target
  /\ passages' = {[p EXCEPT !.scope = target] : p \in passages}
  /\ UNCHANGED removed

Remove ==
  /\ ~removed
  /\ removed' = TRUE
  /\ passages' = {}
  /\ UNCHANGED scope

Next == Replace \/ Remove \/ \E target \in Scope : ShareWith(target)

Spec == Init /\ [][Next]_shelfVars

=============================================================================
