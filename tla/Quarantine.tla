----------------------------- MODULE Quarantine -----------------------------
(***************************************************************************)
(* The tool quarantine: the domain of internal/quarantine, its SQLite      *)
(* store, and the operator acts of internal/admin that drive it.           *)
(*                                                                         *)
(* Every store method is one SQLite transaction, so it is one action.  An  *)
(* operator act is two: the read the operator's decision is checked        *)
(* against (Begin...), and the transaction that writes (Commit...).        *)
(* Discovery and the other admin processes (the console, a CLI, the admin  *)
(* daemon) run between the two; Service.mu serialises only one process.    *)
(***************************************************************************)
EXTENDS FiniteSets, Naturals

CONSTANTS
    Servers,     \* upstream names, the key of every quarantine row
    Tools,       \* tool names an upstream may advertise
    Bodies,      \* a description with its input schema, as raw bytes
    Outputs,     \* output schemas an upstream may declare
    NoOutput,    \* "declares no output schema"
    Operators    \* admin processes, each running one act at a time

ASSUME NoOutputAssumption == NoOutput \notin Outputs

VARIABLES
    quarantined, \* quarantined_tools: key -> row
    defs,       \* tool_definitions: the fingerprints whose bytes are kept
    session,    \* the act each admin process is between the two halves of
    reviewed,   \* history: <<key, fingerprint>> an operator was shown
    manifests   \* history: manifests handed out beside the set they cover

vars == <<quarantined, defs, session, reviewed, manifests>>

Keys == Servers \X Tools

-----------------------------------------------------------------------------
(* The fingerprint.  Each field is length-prefixed, so what SHA-256 is     *)
(* given determines the tuple of fields; the digest is modelled as that    *)
(* tuple (no collisions).  An identity with no output schema is hashed     *)
(* under the older domain tag and without the fourth field.                *)

Identities == [name : Tools, body : Bodies, output : Outputs \cup {NoOutput}]

Hash(t) ==
    IF t.output = NoOutput
    THEN <<"v1", t.name, t.body>>
    ELSE <<"v2", t.name, t.body, t.output>>

NoHash == << >>

Hashes == {Hash(t) : t \in Identities}

Classes == {"safe", "sensitive"}

(* A row of quarantined_tools; "absent" stands for ErrNotFound.            *)
Row == [status   : {"absent", "pending", "approved", "changed"},
        approved : Hashes \cup {NoHash},
        observed : Hashes \cup {NoHash},
        class    : Classes,
        cleared  : Hashes \cup {NoHash}]

(* No row under this key (sql.ErrNoRows).                                  *)
NoRow == [status |-> "absent", approved |-> NoHash, observed |-> NoHash,
          class |-> "safe", cleared |-> NoHash]

Present(r) == r.status # "absent"

ApprovedAsAdvertised(r) ==
    /\ r.status = "approved"
    /\ r.approved # NoHash
    /\ r.observed = r.approved

(* Mutant: the gate asks only whether the tool is approved as advertised.  *)
UsableIgnoresClass(r) == ApprovedAsAdvertised(r)

(* The single gate: both the listing and the call path ask this.           *)
Usable(r) ==
    /\ ApprovedAsAdvertised(r)
    /\ r.class # "safe" => (r.cleared # NoHash /\ r.cleared = r.approved)

-----------------------------------------------------------------------------
(* The domain's transitions.                                               *)

NewTool(h, class) ==
    [NoRow EXCEPT !.status = "pending", !.observed = h, !.class = class]

(* Mutant: a reverted definition is approved again by being observed.      *)
ObservedForgives(r, h, class) ==
    [r EXCEPT !.observed = h,
              !.class = class,
              !.status = CASE r.status = "pending" -> "pending"
                           [] r.status # "pending" /\ h = r.approved -> "approved"
                           [] OTHER -> "changed"]

Observed(r, h, class) ==
    [r EXCEPT !.observed = h,
              !.class = class,
              !.status = IF r.status = "approved" /\ h # r.approved
                         THEN "changed" ELSE @]

(* Mutant: a clearance survives a baseline that moves.                     *)
ApprovedKeepsClearance(r) ==
    [r EXCEPT !.status = "approved", !.approved = r.observed]

Approved(r) ==
    [r EXCEPT !.status = "approved",
              !.approved = r.observed,
              !.cleared = IF r.observed # r.approved THEN NoHash ELSE @]

Clearable(r) ==
    /\ r.class # "safe"
    /\ r.status = "approved"
    /\ r.approved # NoHash

Cleared(r) == [r EXCEPT !.cleared = r.approved]

Revocable(r) == Present(r) /\ r.status # "changed"

(* Mutant: revoking writes a status of its own.                            *)
RevokedByName(r) ==
    [r EXCEPT !.status = "revoked", !.approved = NoHash, !.cleared = NoHash]

Revoked(r) ==
    [r EXCEPT !.status = "pending", !.approved = NoHash, !.cleared = NoHash]

NeedsReview(r) == Present(r) /\ r.status # "approved"

ReviewSet(rs, s) == {k \in Keys : k[1] = s /\ NeedsReview(rs[k])}

(* The manifest covers tool, status, observed and approved fingerprint of  *)
(* each member, not its class.                                             *)
Manifest(rs, s) ==
    {<<k, rs[k].status, rs[k].observed, rs[k].approved>> :
        k \in ReviewSet(rs, s)}

-----------------------------------------------------------------------------
(* tool_definitions.                                                       *)

Referenced(rs, h) == \E k \in Keys : rs[k].approved = h \/ rs[k].observed = h

(* Mutant: candidates are deleted without the NOT EXISTS.                  *)
PruneUnconditionally(ds, rs, candidates) == ds \ candidates

(* DELETE ... WHERE hash = ? AND NOT EXISTS (a row naming it), against the *)
(* rows as the transaction leaves them.                                    *)
PruneDefinitions(ds, rs, candidates) ==
    ds \ {h \in candidates : ~Referenced(rs, h)}

-----------------------------------------------------------------------------
Entry ==
    Keys \X {"pending", "changed"} \X Hashes \X (Hashes \cup {NoHash})

NoAct == [act |-> "idle"]

Session ==
    {NoAct}
    \cup [act : {"approve", "revoke", "clear"}, key : Keys,
           hash : Hashes \cup {NoHash}]
    \cup [act : {"approveSet"}, server : Servers, manifest : SUBSET Entry]

TypeOK ==
    /\ quarantined \in [Keys -> Row]
    /\ defs \subseteq Hashes
    /\ session \in [Operators -> Session]
    /\ reviewed \subseteq Keys \X Hashes
    /\ manifests \subseteq Servers \X SUBSET Entry

Init ==
    /\ quarantined = [k \in Keys |-> NoRow]
    /\ defs = {}
    /\ session = [o \in Operators |-> NoAct]
    /\ reviewed = {}
    /\ manifests = {}

(* Store.Observe: the gateway's discovery saw tool k advertised as t.      *)
Observe(k, t, class) ==
    LET h    == Hash(t)
        prev == quarantined[k]
        kept == defs \cup {h}
    IN /\ t.name = k[2]
       /\ \/ /\ Present(prev)
             /\ quarantined' = [quarantined EXCEPT ![k] = Observed(prev, h, class)]
             /\ defs' = PruneDefinitions(kept, quarantined',
                                         {prev.observed, prev.approved})
          \/ /\ ~Present(prev)
             /\ quarantined' = [quarantined EXCEPT ![k] = NewTool(h, class)]
             /\ defs' = kept
       /\ UNCHANGED <<session, reviewed, manifests>>

(* Store.Forget: the last stage of deregistering an upstream.              *)
ForgetTools(s) ==
    /\ quarantined' = [k \in Keys |-> IF k[1] = s THEN NoRow ELSE quarantined[k]]
    /\ defs' = {h \in defs : Referenced(quarantined', h)}
    /\ UNCHANGED <<session, reviewed, manifests>>

-----------------------------------------------------------------------------
(* What an operator reads.  A definition that was not kept is not shown.   *)

ReviewTool(k) ==
    /\ Present(quarantined[k])
    /\ quarantined[k].observed \in defs
    /\ reviewed' = reviewed \cup {<<k, quarantined[k].observed>>}
    /\ UNCHANGED <<quarantined, defs, session, manifests>>

ReviewToolSet(s) ==
    LET set == ReviewSet(quarantined, s)
    IN /\ set # {}
       /\ reviewed' = reviewed \cup
              {<<k, quarantined[k].observed>> :
                  k \in {j \in set : quarantined[j].observed \in defs}}
       /\ manifests' = manifests \cup {<<s, Manifest(quarantined, s)>>}
       /\ UNCHANGED <<quarantined, defs, session>>

-----------------------------------------------------------------------------
(* Operator acts: Begin... is the read, the early returns and, for an      *)
(* approval, the check that the definition is still kept.                  *)

(* An operator's command begins; it keeps what it read.                    *)
Start(o, s) ==
    /\ session[o] = NoAct
    /\ session' = [session EXCEPT ![o] = s]
    /\ UNCHANGED <<quarantined, defs, reviewed, manifests>>

BeginApproveTool(o, k, h) ==
    /\ <<k, h>> \in reviewed
    /\ Present(quarantined[k])
    /\ quarantined[k].observed = h
    /\ ~ApprovedAsAdvertised(quarantined[k])
    /\ h \in defs
    /\ Start(o, [act |-> "approve", key |-> k, hash |-> h])

BeginApproveToolSet(o, s, m) ==
    /\ <<s, m>> \in manifests
    /\ ReviewSet(quarantined, s) # {}
    /\ m = Manifest(quarantined, s)
    /\ \A k \in ReviewSet(quarantined, s) : quarantined[k].observed \in defs
    /\ Start(o, [act |-> "approveSet", server |-> s, manifest |-> m])

BeginRevokeTool(o, k) ==
    /\ Present(quarantined[k])
    /\ quarantined[k].status # "pending"
    /\ Start(o, [act |-> "revoke", key |-> k, hash |-> quarantined[k].approved])

(* Whether some role names the tool (ClearableBy) is configuration, not    *)
(* state; the act is modelled where one does.                              *)
BeginClearTool(o, k) ==
    /\ Clearable(quarantined[k])
    /\ ~Usable(quarantined[k])
    /\ Start(o, [act |-> "clear", key |-> k, hash |-> quarantined[k].approved])

(* The end of an act.  A store method that refuses writes nothing.         *)
Finish(o) ==
    /\ session' = [session EXCEPT ![o] = NoAct]
    /\ UNCHANGED <<reviewed, manifests>>

Refuse(o) == Finish(o) /\ UNCHANGED <<quarantined, defs>>

(* The new row, then prune of the definitions the old one named, in one    *)
(* transaction.                                                            *)
Write(k, next) ==
    /\ quarantined' = [quarantined EXCEPT ![k] = next]
    /\ defs' = PruneDefinitions(defs, quarantined', {quarantined[k].approved, quarantined[k].observed})

(* Mutant: the store approves whatever is observed (Approve, not           *)
(* ApproveFingerprint).                                                    *)
CommitApproveWhatever(o) ==
    LET k == session[o].key
    IN /\ session[o].act = "approve"
       /\ IF Present(quarantined[k])
          THEN Write(k, Approved(quarantined[k])) /\ Finish(o)
          ELSE Refuse(o)

CommitApproveTool(o) ==
    LET k == session[o].key
    IN /\ session[o].act = "approve"
       /\ IF Present(quarantined[k]) /\ quarantined[k].observed = session[o].hash
          THEN Write(k, Approved(quarantined[k])) /\ Finish(o)
          ELSE Refuse(o)

(* One transaction: one member joining, leaving or moving refuses all.     *)
CommitApproveToolSet(o) ==
    LET s   == session[o].server
        set == ReviewSet(quarantined, s)
    IN /\ session[o].act = "approveSet"
       /\ IF set # {} /\ Manifest(quarantined, s) = session[o].manifest
          THEN /\ quarantined' = [k \in Keys |-> IF k \in set THEN Approved(quarantined[k])
                                                       ELSE quarantined[k]]
               /\ defs' = PruneDefinitions(defs, quarantined',
                              UNION {{quarantined[k].approved, quarantined[k].observed} :
                                        k \in set})
               /\ Finish(o)
          ELSE Refuse(o)

CommitRevokeTool(o) ==
    LET k == session[o].key
    IN /\ session[o].act = "revoke"
       /\ IF Revocable(quarantined[k])
          THEN Write(k, Revoked(quarantined[k])) /\ Finish(o)
          ELSE Refuse(o)

(* Clear prunes nothing: no definition moves.                              *)
CommitClearTool(o) ==
    LET k == session[o].key
    IN /\ session[o].act = "clear"
       /\ IF Clearable(quarantined[k])
          THEN /\ quarantined' = [quarantined EXCEPT ![k] = Cleared(quarantined[k])]
               /\ UNCHANGED defs
               /\ Finish(o)
          ELSE Refuse(o)

Discovery ==
    \E k \in Keys, t \in Identities, class \in Classes : Observe(k, t, class)

OperatorStep(o) ==
    \/ \E k \in Keys, h \in Hashes : BeginApproveTool(o, k, h)
    \/ \E m \in manifests : BeginApproveToolSet(o, m[1], m[2])
    \/ \E k \in Keys : BeginRevokeTool(o, k)
    \/ \E k \in Keys : BeginClearTool(o, k)
    \/ CommitApproveTool(o)
    \/ CommitApproveToolSet(o)
    \/ CommitRevokeTool(o)
    \/ CommitClearTool(o)

Next ==
    \/ Discovery
    \/ \E s \in Servers : ForgetTools(s)
    \/ \E k \in Keys : ReviewTool(k)
    \/ \E s \in Servers : ReviewToolSet(s)
    \/ \E o \in Operators : OperatorStep(o)

Spec == Init /\ [][Next]_vars

-----------------------------------------------------------------------------
(* Properties.                                                             *)

(* Every transition of quarantine.go keeps a row coherent (the invariant   *)
(* the comment on Tool.SensitiveClearedHash states): a baseline exists     *)
(* exactly for approved and changed tools, "approved" means approved at    *)
(* what is advertised, and a clearance is empty or names the baseline, so  *)
(* it never outlives the approval it was a clearance of.                   *)
RowCoherent(r) ==
    /\ r.approved # NoHash <=> r.status \in {"approved", "changed"}
    /\ r.status = "approved" => r.observed = r.approved
    /\ r.observed # NoHash <=> Present(r)
    /\ r.cleared \in {NoHash, r.approved}

RowsCoherent == \A k \in Keys : RowCoherent(quarantined[k])

(* Whatever the gate lets through was put in front of an operator: for all *)
(* interleavings of discovery, review, approval (single and batch) and     *)
(* deregistration, a usable tool is usable at a fingerprint that was shown *)
(* for that very tool (ApproveFingerprint, ApproveReviewSet).              *)
UsableWasReviewed ==
    \A k \in Keys : Usable(quarantined[k]) => <<k, quarantined[k].observed>> \in reviewed

(* The strengthening that makes UsableWasReviewed inductive: every         *)
(* baseline was shown, what an approval act carries was shown, and a       *)
(* manifest covers only definitions that were shown beside it.             *)
BaselinesReviewed ==
    \A k \in Keys : quarantined[k].approved # NoHash => <<k, quarantined[k].approved>> \in reviewed

SessionsReviewed ==
    \A o \in Operators :
        /\ session[o].act = "approve" =>
               <<session[o].key, session[o].hash>> \in reviewed
        /\ session[o].act = "approveSet" =>
               <<session[o].server, session[o].manifest>> \in manifests

ManifestsReviewed ==
    \A m \in manifests : \A e \in m[2] : <<e[1], e[3]>> \in reviewed

(* The definitions table holds exactly the bytes some row's baseline or    *)
(* observation names: an operator can always be shown what is advertised   *)
(* and what was approved, and an upstream inventing definitions leaves     *)
(* nothing behind (keepDefinition, pruneDefinitions, the delete trigger).  *)
DefinitionsExact == defs = {h \in Hashes : Referenced(quarantined, h)}

(* The inductive invariant of the proofs. *)
Inv ==
    /\ TypeOK
    /\ RowsCoherent
    /\ DefinitionsExact
    /\ BaselinesReviewed
    /\ SessionsReviewed
    /\ ManifestsReviewed

(* A changed tool stays changed, whatever discovery sees next, a revert to *)
(* the approved definition included, until an operator approves the very   *)
(* definition last observed, which was shown, or the upstream is forgotten *)
(* (Observed, Revoked refuses it).                                         *)
ChangedIsSticky ==
    [][\A k \in Keys :
        (quarantined[k].status = "changed" /\ quarantined'[k].status # "changed") =>
            \/ quarantined'[k].status = "absent"
            \/ /\ quarantined'[k].status = "approved"
               /\ quarantined'[k].observed = quarantined[k].observed
               /\ <<k, quarantined[k].observed>> \in reviewed
      ]_vars

(* A sensitive tool starts being served only by an operator, and only at   *)
(* the baseline it already had: by the clearance of that baseline, or by   *)
(* re-approving a definition that reverted to the cleared one.  Discovery  *)
(* alone starts serving a tool only by re-observing an approved one as     *)
(* safe (Approved drops the clearance when the baseline moves, Observed).  *)
ServingNeedsOperator ==
    [][\A k \in Keys :
        (~Usable(quarantined[k]) /\ Usable(quarantined'[k])) =>
            /\ quarantined'[k].class = "sensitive" =>
                   session' # session /\ quarantined'[k].approved = quarantined[k].approved
            /\ session' = session =>
                   quarantined[k].class = "sensitive" /\ quarantined'[k].class = "safe"
      ]_vars

(* Store.Clear's comment: without its transaction "the clearance [would]   *)
(* land on a row whose baseline no longer matches what the operator looked *)
(* at".  A clearance written by an act names the baseline the act read.    *)
ClearanceNamesWhatWasRead ==
    [][\A k \in Keys, o \in Operators :
        (/\ session[o].act = "clear" /\ session'[o] = NoAct
         /\ session[o].key = k
         /\ quarantined[k].cleared # quarantined'[k].cleared) =>
            quarantined'[k].cleared = session[o].hash
      ]_vars

(* The tables agree with themselves after every transaction: rows are      *)
(* coherent, and the definitions are exactly those the rows name (the      *)
(* transitions of quarantine.go, keepDefinition, pruneDefinitions).        *)
StoreCoherent == TypeOK /\ RowsCoherent /\ DefinitionsExact

(* People decide what is served: no upstream talks its way out of a change *)
(* or into being served, in any order of observations (Observed, Approved, *)
(* Cleared).                                                               *)
OperatorDecides == ChangedIsSticky /\ ServingNeedsOperator
=============================================================================
