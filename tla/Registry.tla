------------------------------ MODULE Registry ------------------------------
(***************************************************************************)
(* The upstream registry and what is kept beside it under the same names:  *)
(* signatures, approvals, maintenance and health (internal/registry,       *)
(* internal/signer, cmd upstream and sign, internal/admin/manage.go).      *)
(* The stores are separate: registering, updating, signing and             *)
(* deregistering are each several transactions, any of which may fail, and *)
(* the process that runs them may die between two.  The gateway reads the  *)
(* entries and then each signature.                                        *)
(***************************************************************************)
EXTENDS Naturals, FiniteSets

CONSTANTS Names, Clerks,      \* the processes that manage the registry
          Requests,           \* the entries they ask to register
          Images,             \* the images they update an entry to
          SigningKeys, Trusted,
          RequireSigned, AllowCredentialedStdio,
          ActBounds           \* bounds: operations of each kind, one choice of them per behaviour

VARIABLES entries,      \* upstream_servers
          sigs,         \* entry_signatures: key, what it covers, when it was stored
          approvals,    \* approved tools under a name: when they were approved; 0 none
          held,         \* maintenance and health under a name: since when; 0 none
          task,         \* what each process is doing
          seen, served, \* the gateway: the entries its round read, the ones it serves
          begun,        \* deregistrations of each name begun so far, the clock of a name
          clean,        \* the latest of them that answered that all was removed
          quiet,        \* the registrations that answered "not signed", and when they were made
          shown,        \* what sign -all has printed: a manifest, the lines above it, the plan they are of
          vetted,       \* what has been signed, by which key: every signature ever made
          operatorRows, \* the rows of the operations, or the warnings in their place
          acts          \* operations of each kind still to come

regVars == <<entries, sigs, approvals, held, task, seen, served, begun, clean,
             quiet, shown, vetted, operatorRows, acts>>

NoEntry == [transport |-> "", runs |-> "", image |-> "", args |-> "", env |-> {},
            auth |-> "", place |-> "", ops |-> 0]
NoSig   == [key |-> "", over |-> [name |-> "", entry |-> NoEntry], at |-> 0, reg |-> 0, all |-> FALSE]
Resting == [op |-> "rest"]

\* What an entry can be: a field has the value of a request's, an image is updated.
FieldOf(f) == {e[f] : e \in Requests \union {NoEntry}}
Entries    == [transport : FieldOf("transport"), runs : FieldOf("runs"), image : FieldOf("image") \union Images,
               args : FieldOf("args"), env : FieldOf("env"), auth : FieldOf("auth"), place : FieldOf("place"),
               ops : FieldOf("ops")]
ActKinds   == {"register", "update", "deregister", "sign"}

ASSUME RegistryAssumption == Requests \subseteq Entries /\ ActBounds \subseteq [ActKinds -> Nat]

RegInit ==
    /\ entries = [n \in Names |-> NoEntry] /\ sigs = [n \in Names |-> NoSig]
    /\ approvals = [n \in Names |-> 0] /\ held = [n \in Names |-> 0]
    /\ task = [p \in Clerks |-> Resting]
    /\ seen = entries /\ served = entries
    /\ begun = [n \in Names |-> 1] /\ clean = [n \in Names |-> 0]
    /\ quiet = {} /\ shown = {} /\ vetted = {} /\ operatorRows = {}
    /\ acts \in ActBounds

----------------------------------------------------------------------------
(* What may be registered.                                                 *)

Keyed(e) == e.auth # ""

validateImage(e) == e.image # "" /\ e.image # "unpinned"

validateAuthName(e) ==
    IF e.auth \in {"header", "query"}
    THEN e.place # "" /\ (e.auth = "header" => e.place # "control")
    ELSE e.place = ""

validateHTTP(e) ==
    /\ e.image = "" /\ e.runs # "" /\ e.ops > 0
    /\ Cardinality(e.env) = IF Keyed(e) THEN 1 ELSE 0
    /\ validateAuthName(e)

Validate(e) ==
    /\ e.transport = "stdio" => e.runs # "" /\ e.image = ""
    /\ e.transport = "oci"   => validateImage(e) /\ e.runs = ""
    /\ e.transport = "http"  => validateHTTP(e)
    /\ e.transport # "http"  => e.auth = "" /\ e.place = "" /\ e.ops = 0
    /\ "" \notin e.env

\* dialTimeRefusal: what the transport's dialer would refuse at every start.
dialable(e) == "LD_PRELOAD" \notin e.env /\ e.args # "--privileged"

\* credentialedStdioRefusal.
credentialedStdio(e) ==
    e.transport = "stdio" /\ e.env # {} /\ ~AllowCredentialedStdio

validateEntry(e) == Validate(e) /\ dialable(e)

----------------------------------------------------------------------------
(* Signatures.                                                             *)

Unlocated(e) == [e EXCEPT !.auth = "", !.place = "", !.ops = 0]

\* The first form, which knows no image.
CanonicalV1(n, e) == [name |-> n, entry |-> [Unlocated(e) EXCEPT !.image = ""]]

\* What a signature covers: the name and every field that decides what runs.
\* Only an http entry has a credential's place and operations to cover.
Canonical(n, e) ==
    [name |-> n, entry |-> IF e.transport = "http" THEN e ELSE Unlocated(e)]

Verify(n, e, s) == s.key \in Trusted /\ s.over = Canonical(n, e)

\* A signature of a key nobody trusts, taken for none.
SignatureStateOfTrusted(n, e) ==
    IF sigs[n].key \notin Trusted THEN "unsigned"
    ELSE IF Verify(n, e, sigs[n]) THEN "valid" ELSE "INVALID"

\* entrySignatureState.
SignatureState(n, e) ==
    IF sigs[n] = NoSig THEN "unsigned"
    ELSE IF Verify(n, e, sigs[n]) THEN "valid" ELSE "INVALID"

Counted(k) == acts[k] > 0 /\ acts' = [acts EXCEPT ![k] = @ - 1]
Turns(p, t) == task' = [task EXCEPT ![p] = t]
Rests(p)    == Turns(p, Resting)

\* The row of an operation, or the warning that the trail has none of it.
Recorded(what, n) == operatorRows' = operatorRows \union {<<what, n>>}

----------------------------------------------------------------------------
(* Register: INSERT, then say what signature is under the name.  Over the  *)
(* management API, http entries only, it leaves a row.                     *)

\* A name that is taken is refused: an entry is never overwritten.
Insert(n, e) == Validate(e) /\ entries[n] = NoEntry /\ entries' = [entries EXCEPT ![n] = e]

RegisterUpstream(e) == e.transport = "http"

Register(p, n, e, api) ==
    /\ task[p] = Resting /\ Counted("register")
    /\ validateEntry(e) /\ ~credentialedStdio(e) /\ (api => RegisterUpstream(e))
    /\ Insert(n, e)
    /\ Turns(p, [op |-> "report", name |-> n, entry |-> e, api |-> api, born |-> acts'["register"]])
    /\ UNCHANGED <<sigs, approvals, held, seen, served, begun, clean, quiet, shown, vetted, operatorRows>>

\* The answer that needs no warning.  The others: signed already, INVALID, and a
\* signature that could not be read.
SaysUnsigned(n, e) == SignatureState(n, e) = "unsigned"

ReportSignature(p) ==
    /\ task[p].op = "report"
    /\ LET n == task[p].name IN
       /\ \/ /\ SaysUnsigned(n, task[p].entry) /\ entries[n] # NoEntry
             /\ quiet' = quiet \union {<<n, task[p].born>>}
          \/ UNCHANGED quiet
       /\ IF task[p].api THEN Recorded("register", n) ELSE UNCHANGED operatorRows
    /\ Rests(p)
    /\ UNCHANGED <<entries, sigs, approvals, held, seen, served, begun, clean, shown, vetted, acts>>

----------------------------------------------------------------------------
(* Update the image of an oci entry: read, then one transaction that reads *)
(* again; the approvals stay.                                              *)

UpdateRead(p, n, image) ==
    /\ task[p] = Resting /\ Counted("update")
    /\ entries[n].transport = "oci" /\ entries[n].image # image
    /\ validateEntry([entries[n] EXCEPT !.image = image])
    /\ Turns(p, [op |-> "update", name |-> n, image |-> image])
    /\ UNCHANGED <<entries, sigs, approvals, held, seen, served, begun, clean, quiet, shown,
                   vetted, operatorRows>>

\* Whatever is registered under the name by now.
StillThere(n, image) == entries[n] # NoEntry

\* The transaction reads the entry again.
StillRuns(n, image) ==
    entries[n].transport = "oci" /\ Validate([entries[n] EXCEPT !.image = image])

UpdateImage(p) ==
    /\ task[p].op = "update"
    /\ LET n == task[p].name IN
       \/ /\ StillRuns(n, task[p].image)
          /\ entries' = [entries EXCEPT ![n].image = task[p].image]
          /\ Turns(p, [op |-> "updated", name |-> n])
       \/ Rests(p) /\ UNCHANGED entries      \* gone, another transport, or the store failed
    /\ UNCHANGED <<sigs, approvals, held, seen, served, begun, clean, quiet, shown, vetted,
                   operatorRows, acts>>

UpdateRecorded(p) ==
    /\ task[p].op = "updated" /\ Recorded("update", task[p].name) /\ Rests(p)
    /\ UNCHANGED <<entries, sigs, approvals, held, seen, served, begun, clean, quiet, shown,
                   vetted, acts>>

----------------------------------------------------------------------------
(* Deregister, in stages.  A stage that fails stops it and is told; a name *)
(* that is not registered does not.                                        *)

Deregister(p, n, api) ==
    /\ task[p] = Resting /\ Counted("deregister")
    /\ begun' = [begun EXCEPT ![n] = @ + 1]
    /\ Turns(p, [op |-> "remove", stage |-> "registry", name |-> n, at |-> begun[n] + 1,
                 api |-> api, changed |-> FALSE])
    /\ UNCHANGED <<entries, sigs, approvals, held, seen, served, clean, quiet, shown, vetted, operatorRows>>

\* A name nobody registered needs no more removing.
AfterStageStopping(p) ==
    CASE task[p].stage = "registry" -> IF entries[task[p].name] = NoEntry THEN "answer" ELSE "signature"
      [] task[p].stage = "signature"  -> "quarantine"
      [] task[p].stage = "quarantine" -> "health"
      [] OTHER                        -> "answer"

\* ErrNotFound of a stage is not a reason to stop.
AfterStage(p) ==
    CASE task[p].stage = "registry"   -> "signature"
      [] task[p].stage = "signature"  -> "quarantine"
      [] task[p].stage = "quarantine" -> "health"
      [] OTHER                        -> "answer"

DeregisterStage(p) ==
    /\ task[p].op = "remove" /\ task[p].stage # "answer"
    /\ LET n     == task[p].name
           stage == task[p].stage
           found == CASE stage = "registry"   -> entries[n] # NoEntry
                      [] stage = "signature"  -> sigs[n] # NoSig
                      [] stage = "quarantine" -> approvals[n] # 0
                      [] OTHER                -> FALSE
       IN  /\ entries'   = IF stage = "registry"   THEN [entries EXCEPT ![n] = NoEntry] ELSE entries
           /\ sigs'      = IF stage = "signature"  THEN [sigs EXCEPT ![n] = NoSig]      ELSE sigs
           /\ approvals' = IF stage = "quarantine" THEN [approvals EXCEPT ![n] = 0]     ELSE approvals
           /\ held'      = IF stage = "health"     THEN [held EXCEPT ![n] = 0]          ELSE held
           /\ quiet'     = IF stage = "registry"   THEN {q \in quiet : q[1] # n}        ELSE quiet
           /\ Turns(p, [task[p] EXCEPT !.stage = AfterStage(p), !.changed = @ \/ found])
    /\ UNCHANGED <<seen, served, begun, clean, shown, vetted, operatorRows, acts>>

\* A stage fails, or the process dies: what was removed stays removed, and the
\* API's answer is an error with no row.
Abandon(p) ==
    /\ task[p] # Resting /\ Rests(p)
    /\ UNCHANGED <<entries, sigs, approvals, held, seen, served, begun, clean, quiet, shown,
                   vetted, operatorRows, acts>>

\* The management API's row, when it removed anything.
DeregisterUpstream(t) == IF t.api /\ t.changed THEN Recorded("deregister", t.name) ELSE UNCHANGED operatorRows

DeregisterAnswer(p) ==
    /\ task[p].op = "remove" /\ task[p].stage = "answer" /\ Rests(p)
    /\ LET n == task[p].name IN
       /\ clean' = [clean EXCEPT ![n] = IF task[p].at > @ THEN task[p].at ELSE @]
       /\ DeregisterUpstream(task[p])
    /\ UNCHANGED <<entries, sigs, approvals, held, seen, served, begun, quiet, shown, vetted, acts>>

----------------------------------------------------------------------------
(* Sign: the entry is read, and what was read is signed.                   *)

Sign(p, n, key, api) ==
    /\ task[p] = Resting /\ Counted("sign")
    /\ entries[n] # NoEntry /\ dialable(entries[n]) /\ ~credentialedStdio(entries[n])
    /\ Turns(p, [op |-> "sign", name |-> n, entry |-> entries[n], key |-> key, api |-> api])
    /\ UNCHANGED <<entries, sigs, approvals, held, seen, served, begun, clean, quiet, shown,
                   vetted, operatorRows>>

Stored(n, key, e, all) ==
    /\ sigs' = [sigs EXCEPT ![n] = [key |-> key, over |-> Canonical(n, e), at |-> begun[n],
                                   reg |-> acts["register"], all |-> all]]
    /\ vetted' = vetted \union {<<n, e, key>>}

\* Over the management API a child signs, and the service then records.
ChildSigned(p, t) == IF t.api THEN Turns(p, [op |-> "signed", name |-> t.name]) ELSE Rests(p)

SignPut(p) ==
    /\ task[p].op = "sign"
    /\ Stored(task[p].name, task[p].key, task[p].entry, FALSE)
    /\ ChildSigned(p, task[p])
    /\ UNCHANGED <<entries, approvals, held, seen, served, begun, clean, quiet, shown, operatorRows, acts>>

SignRecorded(p) ==
    /\ task[p].op = "signed" /\ Recorded("sign", task[p].name) /\ Rests(p)
    /\ UNCHANGED <<entries, sigs, approvals, held, seen, served, begun, clean, quiet, shown,
                   vetted, acts>>

\* sign -all: list the entries, then read each signature.
SignAll(p, key, reviewed) ==
    /\ task[p] = Resting /\ Counted("sign")
    /\ Turns(p, [op |-> "plan", key |-> key, reviewed |-> reviewed, plan |-> {},
                 todo |-> {<<n, entries[n]>> : n \in {m \in Names : entries[m] # NoEntry}}])
    /\ UNCHANGED <<entries, sigs, approvals, held, seen, served, begun, clean, quiet, shown,
                   vetted, operatorRows>>

PlanState(n, e, key) ==
    LET s == SignatureState(n, e) IN
    IF s = "valid" /\ sigs[n].key = key THEN "current"
    ELSE IF s = "valid" THEN sigs[n].key ELSE s

PlanEntry(p, ne) ==
    /\ task[p].op = "plan" /\ ne \in task[p].todo
    /\ LET n    == ne[1]
           e    == ne[2]
           s    == PlanState(n, e, task[p].key)
           line == [name |-> n, entry |-> e, state |-> s,
                    signable |-> dialable(e) /\ ~credentialedStdio(e)]
       IN  Turns(p, [task[p] EXCEPT !.todo = @ \ {ne},
                                    !.plan = IF s = "current" THEN @ ELSE @ \union {line}])
    /\ UNCHANGED <<entries, sigs, approvals, held, seen, served, begun, clean, quiet, shown,
                   vetted, operatorRows, acts>>

\* The entries' names and states, as they are printed in the summary.
ManifestOfNames(key, plan) ==
    [key |-> key, lines |-> {[name |-> l.name, state |-> l.state] : l \in {k \in plan : k.signable}}]

\* signPlanManifest: names, states and what each signature would cover.
Manifest(key, plan) ==
    [key |-> key, lines |-> {[name |-> l.name, state |-> l.state, over |-> Canonical(l.name, l.entry)] :
                               l \in {k \in plan : k.signable}}]

\* What sign -all prints of an entry: its name, the state of its signature,
\* whether it would be signed, transport, command or URL, image and environment.
\* Of an http entry neither the credential's place nor the operations, which the
\* signature covers and sign of one entry prints.
Printed(l) == [name |-> l.name, state |-> l.state, signable |-> l.signable, entry |-> Unlocated(l.entry)]

Printout(key, plan) == [key |-> key, plan |-> plan, lines |-> {Printed(l) : l \in plan}]

\* A plan with anything to sign is printed, with its manifest; it is signed when
\* that is the manifest the operator passed.  Otherwise there is nothing to do.
ShowPlan(p) ==
    /\ task[p].op = "plan" /\ task[p].todo = {}
    /\ LET t    == task[p]
           todo == {l \in t.plan : l.signable}
       IN  IF todo = {} THEN Rests(p) /\ UNCHANGED shown
           ELSE /\ shown' = shown \union {Printout(t.key, t.plan)}
                /\ IF \E r \in t.reviewed : Manifest(r.key, r.plan) = Manifest(t.key, t.plan)
                   THEN Turns(p, [op |-> "signing", key |-> t.key, todo |-> todo, reviewed |-> t.reviewed])
                   ELSE Rests(p)
    /\ UNCHANGED <<entries, sigs, approvals, held, seen, served, begun, clean, quiet, vetted, operatorRows, acts>>

\* Put, one by one; a failure stops and is told (Abandon).
SignPlanned(p, l) ==
    /\ task[p].op = "signing" /\ l \in task[p].todo
    /\ Stored(l.name, task[p].key, l.entry, TRUE)
    /\ Turns(p, IF task[p].todo = {l} THEN Resting ELSE [task[p] EXCEPT !.todo = @ \ {l}])
    /\ UNCHANGED <<entries, approvals, held, seen, served, begun, clean, quiet, shown, operatorRows, acts>>

----------------------------------------------------------------------------
(* The gateway's round, and the state it and the operators put under the   *)
(* names it serves.                                                        *)

RoundReads ==
    /\ seen' = entries /\ seen # entries
    /\ UNCHANGED <<entries, sigs, approvals, held, task, served, begun, clean, quiet, shown,
                   vetted, operatorRows, acts>>

\* verifyEntry: a signature that is there is always checked.  (A store that
\* cannot be read leaves what runs alone.)
Accepted(n, e) == IF sigs[n] = NoSig THEN ~RequireSigned ELSE Verify(n, e, sigs[n])

RoundVerifies(n) ==
    /\ LET wanted == seen[n] # NoEntry /\ ~credentialedStdio(seen[n]) /\ Accepted(n, seen[n])
       IN  served' = [served EXCEPT ![n] = IF wanted THEN seen[n] ELSE NoEntry]
    /\ served' # served
    /\ UNCHANGED <<entries, sigs, approvals, held, task, seen, begun, clean, quiet, shown,
                   vetted, operatorRows, acts>>

\* A served entry's tools are approved, its listing and health stored.
Approve(n) ==
    /\ served[n] # NoEntry /\ approvals[n] # begun[n]
    /\ approvals' = [approvals EXCEPT ![n] = begun[n]]
    /\ UNCHANGED <<entries, sigs, held, task, seen, served, begun, clean, quiet, shown, vetted,
                   operatorRows, acts>>

Hold(n) ==
    /\ served[n] # NoEntry /\ held[n] # begun[n]
    /\ held' = [held EXCEPT ![n] = begun[n]]
    /\ UNCHANGED <<entries, sigs, approvals, task, seen, served, begun, clean, quiet, shown,
                   vetted, operatorRows, acts>>

RegNext ==
    \/ \E p \in Clerks, n \in Names, api \in BOOLEAN :
         \/ \E e \in Requests : Register(p, n, e, api)
         \/ Deregister(p, n, api)
         \/ \E k \in SigningKeys : Sign(p, n, k, api)
    \/ \E p \in Clerks, n \in Names, i \in Images : UpdateRead(p, n, i)
    \/ \E p \in Clerks, k \in SigningKeys :
         SignAll(p, k, {}) \/ \E r \in shown : SignAll(p, k, {r})
    \/ \E p \in Clerks :
         \/ ReportSignature(p) \/ UpdateImage(p) \/ UpdateRecorded(p)
         \/ DeregisterStage(p) \/ DeregisterAnswer(p) \/ Abandon(p)
         \/ SignPut(p) \/ SignRecorded(p) \/ ShowPlan(p)
         \/ task[p].op = "plan" /\ \E ne \in task[p].todo : PlanEntry(p, ne)
         \/ task[p].op = "signing" /\ \E l \in task[p].todo : SignPlanned(p, l)
    \/ RoundReads
    \/ \E n \in Names : RoundVerifies(n) \/ Approve(n) \/ Hold(n)

RegSpec == RegInit /\ [][RegNext]_regVars
----------------------------------------------------------------------------
(* Every stored entry is one its dialer accepts, through updates that race *)
(* with deregistration and registration under the same name.               *)
RegTypeOK ==
    /\ \A n \in Names : entries[n] # NoEntry =>
                          validateEntry(entries[n]) /\ ~credentialedStdio(entries[n])
    /\ \A n \in Names : sigs[n] = NoSig \/ sigs[n].key \in SigningKeys
    /\ \A n \in Names : approvals[n] <= begun[n] /\ held[n] <= begun[n] /\ clean[n] <= begun[n]

(* With signatures required, what the gateway serves is an entry somebody  *)
(* signed with a trusted key, field for field: no image update, no         *)
(* registration under a name signed before, no signer that was slow to     *)
(* store what it had read makes it serve anything else (Canonical, Verify, *)
(* verifyEntry, runSign, UpdateImage).                                     *)
ServedIsVetted ==
    \A n \in Names : served[n] # NoEntry =>
        \E v \in vetted : v[1] = n /\ v[2] = served[n] /\ v[3] \in Trusted

(* A deregistration that answers that everything is removed leaves nothing *)
(* from before it began, neither signature nor approval nor maintenance,   *)
(* however many earlier ones failed at a stage or died between two; what   *)
(* is there was stored since (deregisterEntry).                            *)
CleanIsClean ==
    \A n \in Names :
        /\ sigs[n] # NoSig => sigs[n].at >= clean[n]
        /\ approvals[n] # 0 => approvals[n] >= clean[n]
        /\ held[n] # 0 => held[n] >= clean[n]

(* No registration answers "not signed" while a signature is under its     *)
(* name, valid or not, unless that was stored after the entry was: a       *)
(* leftover of an earlier entry is always told (runUpstreamRegisterReport, *)
(* registerHTTP, entrySignatureState).                                     *)
LeftoverIsTold ==
    \A q \in quiet : sigs[q[1]] # NoSig => sigs[q[1]].reg <= q[2]

\* The reviewed printout has a line of this entry, for that key, and stands for a
\* plan with everything a signature over it covers, printed or not.
Shows(r, key, over) ==
    /\ r.key = key
    /\ \E l \in r.plan : /\ l.signable /\ Canonical(l.name, l.entry) = over
                         /\ \E k \in r.lines : k.signable /\ k.name = over.name /\ k.entry = Unlocated(over.entry)

(* sign -all stores a signature only over an entry that a plan, printed by *)
(* an earlier run and reviewed, had a line of for that key, with the very  *)
(* fields the signature covers, before this run read the registry: what    *)
(* joined or changed since the review is not signed, whoever signs beside  *)
(* it, although the line does not print every field of an http entry       *)
(* (signPlanManifest, runSignAll).                                         *)
SignedWasShown ==
    [][\A n \in Names : sigs'[n] # sigs[n] /\ sigs'[n].all =>
         \E p \in Clerks :
           /\ task[p].op = "signing"
           /\ \E r \in task[p].reviewed \intersect shown : Shows(r, sigs'[n].key, sigs'[n].over)]_regVars

(* What the documentation promises of the printed plan, and an http entry  *)
(* breaks: every field that a signature of sign -all covers was printed in *)
(* the plan the operator reviewed (runSignAll, Canonical).                 *)
SignedFieldsWereShown ==
    [][\A n \in Names : sigs'[n] # sigs[n] /\ sigs'[n].all =>
         \E p \in Clerks :
           /\ task[p].op = "signing"
           /\ \E r \in task[p].reviewed \intersect shown :
                \E k \in r.lines : k.name = n /\ k.entry = sigs'[n].over.entry]_regVars

(* Nothing of an earlier entry clings to a name: what is served was vetted *)
(* as it stands, a clean deregistration left nothing, and a leftover is    *)
(* told (verifyEntry, deregisterEntry, entrySignatureState).               *)
NothingClings == RegTypeOK /\ ServedIsVetted /\ CleanIsClean /\ LeftoverIsTold
=============================================================================
