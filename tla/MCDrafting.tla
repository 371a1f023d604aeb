----------------------------- MODULE MCDrafting -----------------------------
(***************************************************************************)
(* An instance for TLC of Drafting, and of Calls with the inputs of        *)
(* MCCalls.                                                                *)
(***************************************************************************)
EXTENDS Drafting, MCCalls

CONSTANTS b1, b2, b3, w1, w2, w3

\* An exercise that also points at a figure, a shorter one, and one that is all figure.
ThreeExercises == <<<<b1, b3>>, <<b2>>, <<b3>>>>

-----------------------------------------------------------------------------
mcVars == <<vars, call>>

Drafts == Next /\ UNCHANGED call

\* Bound: the functions are called beside one run only, the one that found no material.
Makes == paper.end = "no material" /\ preference = "auto" /\ CallNext /\ UNCHANGED vars

MCInit == Init /\ CallInit
MCNext == Drafts \/ Makes
MCSpec == MCInit /\ [][MCNext]_mcVars /\ WF_mcVars((Calls \/ Goes) /\ UNCHANGED call)

=============================================================================
