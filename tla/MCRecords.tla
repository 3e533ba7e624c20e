------------------------------ MODULE MCRecords ------------------------------
(* What the gateway keeps for operators to read and to decide on: the      *)
(* audit trail and its copy on disk, the events shipped to a destination,  *)
(* the health of the backends, and the quarantine of their tools.  They    *)
(* share no state, so a behaviour is a behaviour of one of them, which     *)
(* part names.                                                             *)
EXTENDS Audit, Telemetry, Status, Quarantine, TLC

CONSTANTS s1, s2, c1

VARIABLE part

recordVars == <<part, auditVars, telVars, statVars, vars>>

RecInit ==
    /\ part \in {"audit", "telemetry", "status", "quarantine"}
    /\ AuditInit /\ TelInit /\ StatInit /\ Init
    /\ part # "audit" => focus = "ship" /\ rows = <<>>
    /\ part # "status" => left = CHOOSE b \in Bounds : TRUE

RecNext ==
    \/ part = "audit" /\ AuditNext /\ UNCHANGED <<part, telVars, statVars, vars>>
    \/ part = "telemetry" /\ TelNext /\ UNCHANGED <<part, auditVars, statVars, vars>>
    \/ part = "status" /\ StatNext /\ UNCHANGED <<part, auditVars, telVars, vars>>
    \/ part = "quarantine" /\ Next /\ UNCHANGED <<part, auditVars, telVars, statVars>>

RecSpec == RecInit /\ [][RecNext]_recordVars

-----------------------------------------------------------------------------
(* Two callers in serve and a command line append two records.             *)
MCHost == s1 :> "serve" @@ s2 :> "serve" @@ c1 :> "cli"
MCRecs == {[who |-> "a", ts |-> 1], [who |-> "a", ts |-> 2]}
MCMaxRows == [ship |-> 2, page |-> 3, expose |-> 3]
MCMaxBoots == [ship |-> 3, page |-> 3, expose |-> 2]

(* The rounds: time passes and one thing goes wrong, or two things do.     *)
MCBounds == {[ticks |-> 3, faults |-> 1], [ticks |-> 0, faults |-> 2]}

(* The quarantine: bodies and admin processes are interchangeable, nothing *)
(* in the specification tells two apart.  Its history variables only grow: *)
(* exploring stops once more than this many manifests have been handed out.*)
Symmetry == Permutations(Bodies) \cup Permutations(Operators)
CONSTANT MaxManifests
Bounded == Cardinality(manifests) <= MaxManifests
=============================================================================
