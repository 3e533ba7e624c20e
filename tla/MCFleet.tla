------------------------------ MODULE MCFleet ------------------------------
(***************************************************************************)
(* Small instances of Fleet.                                               *)
(***************************************************************************)
EXTENDS Fleet, TLC

CONSTANTS n1, s1, s2, o1, c1

Symmetry == Permutations(Specs)
=============================================================================
