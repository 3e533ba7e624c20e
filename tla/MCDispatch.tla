----------------------------- MODULE MCDispatch -----------------------------
(***************************************************************************)
(* Small instances of Dispatch: reloads alternate between a configuration  *)
(* that declares the tool, with two accounts of unequal allowance, and one *)
(* that budgets its upstream and does not declare it.                      *)
(***************************************************************************)
EXTENDS Dispatch, TLC

CONSTANTS s1, t1, p1, p2, c1, c2

Everyone == Subjects \X Tools

Declared ==
    [grants |-> Everyone, nonRead |-> {},
     charges |-> [t \in Tools |-> Providers],
     limit |-> [p \in Providers |-> IF p = p1 THEN 1 ELSE 2],
     undeclared |-> {}]

Undeclared ==
    [grants |-> Everyone, nonRead |-> Everyone,
     charges |-> [t \in Tools |-> {}],
     limit |-> [p \in Providers |-> 1], undeclared |-> Tools]

Both       == {Declared, Undeclared}
TwoWindows == {0, 1}
OneWindow  == {0}
=============================================================================
