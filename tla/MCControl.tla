------------------------------ MODULE MCControl ------------------------------
(* Instances of Control for TLC.                                           *)
EXTENDS Control, TLC

CONSTANTS q1, q2

TwoRequesters == {q1, q2}

Symmetric == Permutations(TwoRequesters)

(* Bound: two requests to serve, or one and a signal of no request's.      *)
FewOperators == signals = 0 \/ Len(rows) < 2
=============================================================================
