------------------------------- MODULE MCLive -------------------------------
(* What must come about whatever the world outside does: closing the sink  *)
(* of audit events ends its loop, a rotated key reaches the verifier, the  *)
(* health of a backend reaches the store, and serve answers its operators. *)
(* The parts share no state, so a behaviour is a behaviour of one of them, *)
(* which part names, under its own fairness.                               *)
EXTENDS Telemetry, Access, Status, Control, TLC

VARIABLE part

liveVars == <<part, telVars, accessVars, statVars, vars>>

LiveInit ==
    /\ part \in {"telemetry", "access", "status", "control"}
    /\ TelInit /\ AccessInit /\ StatInit /\ Init
    /\ part # "access" => published = {"k1"}

(* Bound: two requests to serve, or one and a signal of no request's.      *)
FewOperators == signals' = 0 \/ Len(rows') < 2

LiveNext ==
    \/ part = "telemetry" /\ TelNext /\ UNCHANGED <<part, accessVars, statVars, vars>>
    \/ part = "access" /\ AccessNext /\ UNCHANGED <<part, telVars, statVars, vars>>
    \/ part = "status" /\ StatNext /\ UNCHANGED <<part, telVars, accessVars, vars>>
    \/ part = "control" /\ Next /\ FewOperators /\ UNCHANGED <<part, telVars, accessVars, statVars>>

(* TelFairSpec, AccessFair, StatFair and FairSpec, each for its own part.  *)
LiveFair ==
    /\ WF_telVars(part = "telemetry" /\ LoopMoves)
    /\ WF_telVars(part = "telemetry" /\ BudgetSpent)
    /\ WF_telVars(part = "telemetry" /\ CloseReturns)
    /\ WF_accessVars(part = "access" /\ StartFetch)
    /\ WF_accessVars(part = "access" /\ FetchLimited)
    /\ WF_accessVars(part = "access" /\ (FetchDone \/ FetchFailed))
    /\ SF_accessVars(part = "access" /\ FetchDone)
    /\ WF_accessVars(part = "access" /\ SlotTick)
    /\ WF_statVars(part = "status" /\ \E up \in SUBSET Backends : Connect(up))
    /\ WF_statVars(part = "status" /\ Refresh({}))
    /\ WF_statVars(part = "status" /\ \E up \in SUBSET Backends : Reconcile(up))
    /\ \A r \in Reporters : WF_statVars(part = "status" /\ Step(r))
    /\ WF_vars(part = "control" /\ ServeStep)

LiveSpec == LiveInit /\ [][LiveNext]_liveVars /\ LiveFair

-----------------------------------------------------------------------------
(* The verifier: a token of each key, and one with a key nobody knows.     *)
Token(key) == [compact |-> TRUE, iss |-> "idp", aud |-> {"gw"}, live |-> TRUE, alg |-> "RS256",
    key |-> key, object |-> TRUE, sub |-> "alice", groups |-> [kind |-> "array", list |-> {}]]
MCTokens == {Token(k) : k \in {"k1", "k2", "forged"}}
MCConfigs == {[issuer |-> "idp", audience |-> "gw", algs |-> {}]}
MCPolicies == {[roles |-> <<>>, mapping |-> <<>>]}

MCBounds == {[ticks |-> 0, faults |-> 2]}
=============================================================================
