----------------------------- MODULE MCRegistry -----------------------------
(* A container and an HTTP API are signed with sign -all: the signature of *)
(* the API covers more than the plan prints of it.                         *)
EXTENDS Registry

Api == [NoEntry EXCEPT !.transport = "http", !.runs = "url", !.ops = 1]
Container == [NoEntry EXCEPT !.transport = "oci", !.image = "i1"]
Asked == {Container, Api}
Acts == {[register |-> 1, update |-> 0, deregister |-> 0, sign |-> 2]}
=============================================================================
