---------------------------- MODULE MCProctoring ----------------------------
(***************************************************************************)
(* Instances of Proctoring for TLC.                                        *)
(***************************************************************************)
EXTENDS Proctoring, TLC

CONSTANTS s1, s2, w1, w2, a1, a2

OneObservation == {<<"observed">>}
EmptyOrObservation == {<<>>, <<"observed">>}

EveryRequest == Kind

Symmetry == Permutations(Slot) \cup Permutations(Sweeper) \cup Permutations(Aggregator)

=============================================================================
