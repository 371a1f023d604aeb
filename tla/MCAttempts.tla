----------------------------- MODULE MCAttempts -----------------------------
(***************************************************************************)
(* Instances of Attempts for TLC.                                          *)
(***************************************************************************)
EXTENDS Attempts, TLC

CONSTANTS s1, s2, w1, w2, q1, q2

TwoQuestions == {q1, q2}
OneQuestion == {q1}
AllCorrectA == [q \in Question |-> "a"]
OnePointEach == [q \in Question |-> 1]

EveryRequest == Kind

Symmetry == Permutations(Slot) \cup Permutations(Worker)

=============================================================================
