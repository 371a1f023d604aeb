---------------------------- MODULE MCGeneration ----------------------------
(***************************************************************************)
(* Instances of Generation for TLC.                                        *)
(***************************************************************************)
EXTENDS Generation

CONSTANTS s1, s2, r1, r2, w1

\* One tab does everything; another can only edit, which is enough to race a publish.
EveryRequest == [s \in Slot |-> IF s = s1 THEN Kind ELSE {"edit"}]

=============================================================================
