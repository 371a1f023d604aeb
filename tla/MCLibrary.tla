------------------------------ MODULE MCLibrary ------------------------------
(***************************************************************************)
(* Instances of Library for TLC.                                           *)
(***************************************************************************)
EXTENDS Library

CONSTANTS s1, w1, w2

=============================================================================
