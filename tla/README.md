# Gatte: a verification project

Gatte (`mcp-gateway`) is a gateway between the analysts of a team and the MCP
backends the team runs. Every tool call goes through it: it decides who may
call what, serves only tool definitions a person has reviewed, holds the
backends' credentials, counts what is paid for, and writes an audit row before
anything reaches a backend. This directory models that system in TLA+, checks
it with TLC on small instances and proves its central guarantees with TLAPS
for instances of any size.

Every definition is translated from the code under `src/`; `PROJECT.json` maps
each one to the lines it stands for, and lists the runs, the mutants that show
each property can fail, the hazards the properties are for, the findings and
the theorems.

## The system

| Component | State it keeps | Operations | What is hard |
|---|---|---|---|
| Tool quarantine (`internal/quarantine`, `/sqlite`) | one row per (upstream, tool): observed and approved fingerprint, status, class, clearance; a table of definitions shared between rows | observe, approve, approve a reviewed set, clear, revoke, forget | operators, other operators and rounds of observation interleave between what a person reads and what they write; shared definitions are pruned by reference |
| Fleet (`internal/gateway/endpoint.go`, `health.go`) | live connections, routing table, markers of dead and unlisted connections, health, suspension, closed | connect, reconcile, refresh, redial, close; a call reports a dead connection | one maintenance loop against concurrent calls, edits of the registry and shutdown; child processes that must be reaped |
| Request path (`Dispatch`, `resilience.go`, `reload.go`) | per-call locals, slots per subject, the policy and quota plan in force | admit the caller, look up, authorise, admit the tool, availability, slot, quota, audit, call, answer | each check reads shared state at its own instant; reloads, rounds and suspensions fall between them; panics, failed writes and deadlines |
| Quota (`internal/quota`, `/sqlite`) | counters per account, analyst and window | reserve, read | all-or-nothing debit of several accounts, window boundaries |
| Operator requests (`internal/control`, `internal/admin/control.go`, `serve_control.go`, `ring.go`) | a queue of rows, the process that recorded itself, a signal channel of capacity one | file, ring, abandon, await; announce, wake, reload, redial, answer | two processes, a database and a signal, each of which can fail or die between two steps |
| Credential vault (`internal/vault/sopsage`, `internal/atomicfile`) | the encrypted file; decrypted secrets and the file's stamp | new, resolve (reload when the stamp moved), set, delete | concurrent reloads of different versions; whole-file read-modify-write |
| Access (`internal/access`, `/oidc`) | the policy in force, the cached key set, the limiter's last fetch | verify a token, authorise, load a policy | keys rotate while fetches are paced and shared; names matched by prefix |
| Blocks and people (`internal/access/sqlite`, `internal/admin/access.go`, `offboard.go`, `accounts.go`, `serve_blocks.go`, `internal/idp`) | the block list, the users file | block, lift, expire, create and change an account, offboard | operators, the command line, the accounts backend and serve's round write the same rows; a file other programs edit |
| Audit (`internal/audit`, `/sqlite`, `/jsonl`) | hash-chained rows, a JSONL copy, heartbeats | migrate, record, verify, page | several processes append; the copy follows the commit and may be cut |
| Auth limiter (`authlimit.go`) | token buckets in a bounded table, markers | classify, record | eviction at the limit, a marker that is not written |
| MCP endpoint (`internal/gateway/httpapi`) | what each caller was last listed | authenticate, build a server, list, call, status | everything it consults changes between its steps; what an answer may reveal |
| Registry and signatures (`internal/registry`, `internal/signer`, `cmd upstream`, `cmd sign`) | entries, signatures and what else is kept under a name | register, update, sign, sign all, deregister in stages | failure or death between stages, two operators, a plan reviewed earlier |
| Health store (`internal/health`, `internal/gateway/health.go`) | the last state and listing of each backend, the last round | report, persist, show | a call's report and a round's overlap; copies are written after the lock |
| Adapters (`stdio`, `oci`) | child process or container | dial, list, call, close | death of the child, deadlines |
| HTTP backends (`internal/gateway/resthttp`) | a frozen set of operations, a credential slot | ingest a document, dial, call | budgets, references, collisions; names that resolve anywhere, redirects, echoes, rotation in mid-call |
| Management (`internal/admin`, `adminhttp`) | the stores above | secrets, review, people, registry, health, audit | one mutex over several stores other processes write too |
| Telemetry (`internal/telemetry/gelf`) | a bounded queue, counters of what was lost | emit, write, reconnect, admit a gap, close | a destination that hangs, losses while a loss is being told |
| Backup (`cmd backup`, `internal/store`) | the database's files and its copies | back up, prune, restore | a database that is two files, in use while it is copied and moved |
| Configuration, fronts, lab | files, pages | parse, render | no concurrency of their own |

How they interact. A round of the maintenance loop reads the *registry*, dials
and drops connections of the *fleet*, lists each backend's tools, hands the
definitions to the *quarantine* and builds the routing table. A call of the
*request path* reads the table, the controls (policy and quota plan), the
quarantine row, the connection and its markers, debits the *quota*, writes the
*audit* row and uses the connection; a failure is reported back to the fleet.
Operators write quarantine rows, the registry and the *vault* from other
processes through the shared database and files, and reach the running process
only through *operator requests* and SIGHUP. Dials and the scrubbing of results
resolve credentials in the vault.

## Modules

### Quarantine (`Quarantine.tla`, `QuarantineProofs.tla`)

State: `quarantined` (the table `quarantined_tools`), `defs` (the table of
definitions), `session` (what each operator has been shown and not acted on),
`manifests` (review sets written to a file), and the history `reviewed` of what
was shown to a person. Definitions are model values, fingerprints an injective
function of them, timestamps are left out. The domain's transitions
(`Observed`, `Approved`, `Cleared`, `Revoked`) are operators on a row; each
store method is one action, because it is one transaction: it reads the row,
applies the transition, writes it and prunes the definitions it no longer
names. An operator's command is several actions (show, then approve what was
shown), and other operators and observations come between them. TLC checks it as
a part of `MCRecords.tla`.

### Fleet (`Fleet.tla`, `MCFleet.tla`, `FleetProofs.tla`)

State: the registry's entries, the connections with an identity of their own
(two dials of one backend differ), the routing table, `gone` and `unlisted`
markers, health, suspension, `closed`, the children that run, and the locals of
the maintenance loop and of calls. A round is split where the code releases the
lock: read the registry, plan, close, dial, adopt, list, build and swap the
routes, settle health. Entries that do not verify, dials and listings that
fail, backends that die at any moment, calls that report a death late, edits of
the registry in mid-round and `Close` at any point are all actions. A backend may
have died by the time its listing is used, and one in maintenance is
unavailable whatever its connection. The plan of a round takes the markers of
all names in one step, where the code takes each under the lock.

### Dispatch (`Dispatch.tla`, `MCDispatch.tla`, `DispatchProofs.tla`)

State: the routing table, the controls, the suspension, the round's table being
built, each call's program counter and locals, slots, counters, the window and
the trail. Every read of shared state in `Gateway.Dispatch` is an action of its
own, in the code's order; `Gate.Admit` with the transaction of `Store.Reserve`
is one, as the database makes it one. Every database write may fail; every call
may panic while it holds its slot.

### Control (`Control.tla`, `MCControl.tla`, `ControlProofs.tla`)

State: the configuration file's edits and those in force, the rows, the
recorded process, the signal channel, `serve`'s and each requester's program
counter, the operator rows, and the history of what was done for each row. Every
statement on the database is an action; requesters and `serve` may die between
any two.

### Vault (`Vault.tla`, `MCVault.tla`, `VaultProofs.tla`)

State: the versions the file has had (the last is on disk; its index is its
stamp), the Provider's secrets and stamp, the locals of resolves, the service's
mutex, the locals of requests, and the history of what completed requests
wrote. `reloadIfChanged` is split at the stat, the comparison, the run of
`sops`, the store and the read, as the code holds no lock across them. What is
logged when reloads start or stop failing is left out.

### Access (`Access.tla`)

State: the verifier's configuration, the provider's published and retired keys,
the cached key set, the fetch in flight, the ages the limiter compares, each
client's request and the policy in force. `Verify` is split where it waits for
keys: requests that miss a key share one fetch, which the limiter may refuse.
Names are sequences of their parts, which is what the separator rules and the
prefix match of a grant are about; groups are trimmed as the code trims them, and
a subject with a blank, control or format character, or too long, is unfit.
Signatures are the library's: a token verifies exactly under its own key. The
limiter lets a redirect of a fetch pass; a provider that redirects is not told
apart from one that answers.

### People (`People.tla`)

State: the block list with the identity of each block, the users file, what the
trail and the callers were told, and the job of each process. Each statement on
a store is a step, and any may fail; after each the process may be killed
(`Killed`). `Block` checks the end it was given and `PlaceBlock` stores the
block later, on the store's own clock, so that a block can be stored whose end
has passed by then; the round of `serve` reads the expired blocks, records each
end and then removes the block with the subject and the end it read. Two
histories say where the trail cannot follow: `late` are the blocks stored after
their end, `unsaid` those whose process was killed, or whose answer was lost,
between the block and its row.

A request to the accounts backend reads the group mapping (`Ask`), waits for the
service's lock, and under it reads, checks and rewrites the users file by the
mapping it has read; the operator edits the mapping at any time (`Remap`). It
comes from root, from a delegate, or from a delegate who is in the operators'
group too and may name a subject to offboard.

### Endpoint (`Endpoint.tla`)

State: the served tools and each caller's grants, which change at any time, the
remembered listings, each request's server, its answer and the rows written.
A request authenticates, gets a server built from one listing, and runs one
method; a call whose parameters do not decode is left to the protocol library
and has no row (`leaveToSDK`), and a panic is contained wherever it happens, also
before anybody is authenticated (`containRequestPanic`). `Dispatch` appears by
the errors it returns, those after the call was sent with both its rows.

### AuthLimit (`AuthLimit.tla`)

State: the buckets of sources, the global bucket, the markers and what was
written. One action per rejected request, with time in ticks and rates in whole
tokens per tick; a row or a marker may fail to be written.

### RestApi (`RestApi.tla`)

State: the ingestion (path by path, with its budgets), the frozen operations and
the slot of the credential, and each call. A document is a record and a schema a
name in a small graph; a tool name is a sequence of words, whose number stands
for its length. Bytes are charged per definition and per set. The schemas
visited are counted over the whole document and never reset: those of a skipped
operation, and of an output that is dropped, stay counted, so whether a later
schema is translated, or a later output kept, does depend on what came before. A
schema that does not translate may have been left anywhere, because the code
takes its properties in no order, and `Visited` is the set of counts it may
leave. The end of the document assigns names (hashed when they are too long or
two operations would have one), checks each definition's size and schema and the
size of the set, and decodes what it freezes. A call fills its operation in,
resolves the credential, looks its host up, connects, follows redirects and
masks its answer; in between the name resolves to anything, the credential is
rotated and the API answers what it likes.

### Registry (`Registry.tla`)

State: entries, signatures, approvals and what else lies under a name, what
`serve` read and serves, and each operator's task with the stages it has left.
A stage is a transaction, may fail, and the process may die after it. `Manifest`
stands for every field of a plan's entries, `Printed` for what `sign -all` shows
of them: of an HTTP API neither the place of its credential nor its operations.

### Audit and AuditLog (`Audit.tla`, `AuditLog.tla`)

`AuditLog` is what the trail promises: a list of records that only grows, each
accepted record once. `Audit` has the rows with their hashes, the boundary of
rows older than the chain, each process's migration, the database lock, the
copy on disk with cut lines, heartbeats and the readers. A hash is the sequence
of records up to it, which is what an injective hash is for. The property
`ImplementsLog` is the refinement: an accepted record joins the log at its
commit, everything else is a stutter.

### Telemetry (`Telemetry.tla`)

State: the queue, the emitters' locals, the counters of lost events (kept as the
timestamps lost), the earliest loss, what was announced, the loop and Close.
`Emit` is split between counting a loss and noting its time, `sendGap` at each
of its reads, as the code holds no lock across them.

### Status (`Status.tla`)

State: the gateway's table of lives and listings with its dirty marks, the
reports under way, the last row on the trail of each backend and the store. A
report changes the table under the lock, writes its rows one by one, copies the
table under the lock and writes the copy; a call's report and a round's overlap,
and the process crashes. The trail has rows in the order they are written in,
and one that fails is gone for good (`RowFails`). The history `doubtful` has the
backends of which a row failed, or rows of two reports were under way at once,
since a change was last reported alone: of those, and only those, the trail may
be wrong. A deregistration takes the entry away first and the store's rows of
the name later (`Forget`). The causes of a backend that is down are those the
consoles tell apart.

### Backup (`Backup.tla`)

State: the databases that exist, each a main file and a log, which of them is at
the path, what was moved aside under the name of which second, the copies by
their second, and the backups and restores under way. A rename replaces what has
the name: two restores of one second leave one kept database, and the history
`overwritten` has the other. A copy is placed by a hard link, which refuses a
name that is taken, or on a file system without them by a look and a rename. Who
closes a database last, a backup too, folds its log in. Of the contents
only the numbers of the trail's rows are kept. What SQLite does with the files
(a log without a main file is deleted, one beside a main file is replayed) is
external. The inductive invariant `BkInv` of its theorems stands at the end of
the module, as do those of the others; `RegInv` alone is in `OperatorProofs`,
because its types are too large for TLC to enumerate.

### Compositions (`MCEdge`, `MCOperators`, `MCRecords`, `MCLive`) and their proofs

Components that share no state are checked in one run as a sum: `part` is chosen
at the start, the steps are those of the part it names, and the other parts stay
in an initial state. Every behaviour of a component is a behaviour of the sum,
so a property of one component holds of the sum exactly when it holds of that
component, and each fairness condition is guarded by its part. The properties
such a run checks are conjunctions of a component's named invariants
(`LossIsAdmitted` is `EventsAccounted`, `LossAdmittedOnce`, `WindowCoversLoss`
and `GapGoesFirst` with the types), and beside most definitions stands a mutant
of it, marked as one; `PROJECT.json` lists one mutant for each property. The
proofs about these components are grouped the same way: `EdgeProofs`,
`OperatorProofs` and `RecordsProofs`. A sum is only a way to run TLC; the
theorems are about each component's own specification.

## Runs

| Run | Result | What it shows |
|---|---|---|
| `fleet` | pass | no orphaned or doubled children, nothing served while suspended, routes are servable, health agrees with availability, the fleet converges on the registry, a late report never condemns a replacement |
| `fleet_live` | pass | Close reaps everything; a dead connection is reaped |
| `dispatch` | pass | audit before sending, one story per call, exact slots and counters, budgets held, one configuration per call, the non-read grant, no undeclared tool in the table, and every call ends |
| `control` | pass | answers are given once, are true and on the trail, and a rung request answered by a restart is in force |
| `vault` | pass | a matching stamp means current secrets; no completed write is lost; a rotation is picked up for good |
| `edge` | pass | a flood writes a bounded number of rows and is always announced; a grant never leaves its backend and a non-read tool must be named; fetches of keys are paced and known keys survive; a caller learns of a pulled tool exactly if it was listed to them; every call that names a tool leaves a row with the proxy's address; an operation is charged the bytes of its own schemas only, and a schema is refused for its references, its contradictions or the nodes the document has left; a credential stays with its origin and in its slot, and does not come back |
| `operators` | pass | a block ends as the trail says, but for one that was stored late or whose process was killed before its row, and nothing else lifts one in force; who is not root keeps to the mapping its request read; nothing of a deregistered entry clings to its name; only what a reviewed manifest stands for is signed; copies are whole, restored files were checked, and no committed row is lost by restores that are not cut and not of one second |
| `records` | pass | two operators and discovery, definitions that change and change back: only reviewed definitions are usable, rows and definitions agree, a change sticks, only operators start serving; the chain verifies under any appenders, damage is found, the copy has each row once and survives cut lines, readers see each row once, and the trail implements `AuditLog`; every lost event is counted and admitted once in a window that reaches it; the last change of a backend is the one told, but for rows that failed or overlapped and only until the next, and a gateway whose rounds hang is not shown as running |
| `live` | pass | Close ends the sink's loop; a rotated key is picked up past a flood of unknown keys; the health store catches up; a rung request is answered, and none is done twice |
| `vault_start` | violation | a rotation while the Provider is built is never picked up |
| `restore_cut` | violation | a process that opens the path between a restore's renames, or a restore cut there, loses the rows the log held |
| `sign_all` | violation | `sign -all` signs an HTTP API by a plan that prints neither its operations nor the place of its credential |

The violation runs state what a comment or a document of the repository says
and show a behaviour of the code that contradicts it; `PROJECT.json` quotes the
line under `findings`.

### Disagreements without a run of their own

These are stated as properties in the modules, or were read off the source, and
are not among the runs. To see one, give the module's cfg the property named.

* `ClearanceNamesWhatWasRead` (Quarantine): `Clear` clears whatever baseline its
  transaction finds; its comment (`quarantine/sqlite/sqlite.go:381`) says
  otherwise. A re-approval by another process in between is cleared unread.
* `OnlyObservedIsCalled` (Fleet): "until the new one is observed it receives no
  call" (`endpoint.go:706`); a call that looked a never-listed connection up is
  sent to it once `retire` has deleted its mark (`health.go:357`).
* `NothingServedUncounted` (Dispatch): "no tool of a newly budgeted backend is
  served uncounted" (`reload.go:50`); a reload between the lookup and the load
  of the controls (`endpoint.go:2224`) prices a call whose route it withholds.
* `NothingChanged` (Control): "nothing changed" (`admin/control.go:100`) is said
  of a request that another operator's signal made `serve` execute between
  Submit and Abandon.
* "Offboarding a person does both of Gatte's halves in one audited action"
  (`docs/explanation/security-model.md:66`); for a subject with a timed block
  `placeBlock` answers "already blocked" and the block still ends
  (`admin/offboard.go:119`). `OffboardLasts` (People) speaks of offboards that
  did block.
* "schema expansion past maxSchemaNodes" is listed among "what is refused
  outright (an error, nothing produced)" (`resthttp/openapi.go:122`); for the
  schema of a response it is a warning, and the tool is served without an output
  schema (`openapi.go:1884`).
* "It keeps the database it replaced as `DB.pre-restore-TIMESTAMP` beside it"
  (`docs/upgrade.md:172`); the timestamp is of the second, and a second restore
  within it renames its own over the first (`backup.go:462`; `NothingIsLost`
  excepts it through `overwritten`).
* `CloseHintCovers` (Telemetry): the instant Close prints is "the earliest
  instant the operator has to replay from" (`gelf.go:567`); events `drain`
  discards are not noted, and it may be later than one of them.
* A suspension between `isSuspended` and `lookup` is answered as an unknown tool
  (`endpoint.go:2211`). `specChanged` ignores the operations and the
  credential's place that `specFor` hands a dialer. A crash between committing
  an observation and writing its row leaves the row out for good
  (`endpoint.go:3327`). A request filed after a new process read the file and
  before it announced itself is answered as superseded though its edit is not
  in force.
* An event lost while `sendGap` reads the counters may fall outside the window
  of the gap that admits it (`WindowCoversLoss` excludes it through `raced`). A
  newline that `FileSink.write` adds after a cut line is not shared with
  another process writing the same file.
* An answer of the block command that is lost, or a kill before the row, leaves a
  block without a row (`BlockIsTold` excepts it through `unsaid`); a block whose
  end passes before it is stored can be removed under the row of an earlier one
  with the same end (`EndIsTold`, `late`). A health row that fails to be written
  is lost (`LastChangeIsTold`, `doubtful`). An
  API deregistration that fails at a later stage leaves no row
  (`admin/manage.go:315`); a signature stored after a deregistration stays until
  the name is used again, and is told then. A restore's `(restore)` row is
  written after the file is in place, and its check that no `serve` listens is
  not a lock. `maintenance on` without an end overwrites a concurrent one.

### Bounds

Two of everything that competes (operators, requesters, resolves, writers,
calls, clerks, emitters) is what an interleaving between equals needs; a third
actor only repeats a role. The quarantine, in `records`, has one tool of one
upstream and two definitions, and at most one manifest written (`MaxManifests`):
sets of tools and definitions shared between upstreams are covered by its
proofs, which hold for any sets. The fleet has one upstream, whose entry changes
between two commands, and at most three connections over its life: the one that
is dropped, the one that replaces it and one more for the late report. Three
versions of the vault's file are needed for a reload to be overtaken by a newer
one. Two starts of `serve` give a death at any point and the recovery after it.
One slot and accounts of one and two units are reached and exceeded by two
calls; two windows give a boundary. One edit of the configuration distinguishes
what is in force from what is not (`control`); `live` asks what does not depend
on the file. Both take two requests, or one and a signal of nobody's
(`FewOperators`).

In `edge`, three sources compete for a table of two, so that one is evicted
while it is throttled, and eight attempts exceed every burst; two callers share
one remembered listing, with either a change of what is served or a third
request that evicts; the documents hold each case of the ingestion (a reference
used twice, a fan of them, a cycle, a chain too deep, names that collide or are
too long, an inherited parameter, nodes spent by a skipped operation and by a
dropped output, each budget at and over its limit), crossed with the options; 30
nodes, 20 bytes a definition and 36 a set put every one of these limits within
reach of two or three small operations. In `operators`, one subject, one account
and one name are shared by two operators, and how much each may do is a set of
budgets (`BlocksAndEdits`, `Acts`, `Sessions`) so that long sequences of one
kind are reached without those of all: two backups with hard links and without,
a backup beside a restore, two restores within one second or not. In `records`,
two goroutines of one process and a command line append, with three starts and
up to three rows, by `focus` (shipping, paging, exposing); a buffer of one event
and three events fill and overflow it; one backend, and either three ticks and
one fault or two faults. `live` uses one emitter, three tokens and one policy,
which is what its liveness depends on. Bounds are constants with names that only
limit the environment, never the program. Symmetry is used for safety runs only,
over sets of model values no definition distinguishes; the view of `operators`
leaves out passwords and rows that no step and no property reads, and its
constraint (`GroupsStand`) ends a behaviour that places blocks at a change of
groups, which no later step of it would read.

Deadlock is checked in `vault`. In `fleet`, `control`, `edge`,
`operators`, `records` and `live` the bounds on what the environment does end
every behaviour; in `dispatch` the calls are finitely many and all may be done.

### Fairness

* `fleet_live`: the maintenance loop is a goroutine that runs rounds on a timer
  until Close, every dial, listing and close has a deadline, and Close waits;
  weak fairness of the loop's steps. Backends are not fair.
* `dispatch`: each call runs in its own goroutine under `callTimeout`, so
  its steps are weakly fair, and the deadline, not the backend's answer, ends
  the wait.
* `vault`: every round resolves every credential (credential drift), so
  resolves begin again and their steps are weakly fair. A stat or a decryption
  may fail any number of times but not for ever, so their successes are
  strongly fair: a file that stays unreadable is never picked up, and the code
  does not claim otherwise. Writers are not fair.
* `live`, operator requests: `serve`'s loop is weakly fair, and so is its start,
  because the deployment runs it under `daemon -r`. Requesters are not fair.
* `live`, telemetry: the loop's goroutine, the timer of the close budget and the
  return of Close are weakly fair; a dial hangs as long as it likes until Close
  cancels it. Emitters and the destination are not fair.
* `live`, keys: waiting requests, the answer of a fetch and time are weakly
  fair, and a fetch that goes on being made succeeds again and again (strong
  fairness): a provider that never answers is never read. The property asks
  only for callers who keep presenting the token.
* `live`, health: boots, rounds and the steps of a report are weakly fair; calls
  and backends are not.

## Proofs

`QuarantineProofs` proves, for any sets of upstreams, tools, definitions and
operators, `Spec => []Inv` and from it the type invariant, coherence of rows,
exactness of the definitions table, that only reviewed definitions are usable,
and two action properties (a change sticks, serving starts with an operator).
`UsableWasReviewed` is not inductive as it stands: an approval copies what the
operator's session or manifest holds, so `Inv` adds that every session, every
manifest and every baseline holds reviewed definitions, that rows are coherent
(a changed row's fingerprints differ, a baseline exists where the status says
so), and that the definitions table is exact. Pruning is the delicate step: it
looks only at the fingerprints the written row used to name, and
`PruneAfterOneRow` shows that no other definition can have lost its last
reference.

`VaultProofs` proves, for any number of resolves, requests, names and versions
and under `~RotatedWhileStarting`, that a matching stamp means current secrets
and that no completed request is lost. The first needs the order a reload works
in: it stats before it decrypts, so what it stores satisfies
`stamp <= secrets <= File`; with `stamp = File` the two ends meet. The
assumption is exactly what `New` breaks, and the run `vault_start` shows it is
needed. The second needs that a request between lock and unlock holds the mutex
and that what it read is still what the file holds.

`DispatchProofs` proves every safety property of the run `dispatch` for any
finite set of calls and any subjects, tools, accounts, windows and
configurations; it assumes that calls are finitely many (a cardinality must be
a number), that the cap is positive and that a tool the plan leaves undeclared
has no charge. The properties speak of moments (`sent`, a slot held), so `Inv`
adds what holds on the way there: `LocalsTell` says which locals a call has set
at each program counter and that its configuration has granted and priced it,
`RowsTell` says which audit rows it has at each program counter, and
`NextIsDeclared` that a table being built is still what the installed plan
declares. Slots and counters are cardinalities of sets of calls; a step moves
one call in or out of such a set (`SlotsGain`, `SlotsLose`, and the debit in
`ReserveInv`), and the finite-set theorems do the counting. `AuditedBeforeSent`
needs that a call is `recorded` only with its row written, `TrailTellsOneStory`
that a call that was not recorded has no row at all, so that a panic adds the
right one.

Each conjunction a run of these three components checks is a theorem of its own
(`StoreStaysCoherent`, `PeopleDecide`, `VaultStaysExact`, `TrailStaysTheCall`,
`NothingEverLeaks`, `ConfigurationAlwaysHolds`), from the theorems of its parts.

`ControlProofs` proves that answers are true, that the first answer stands and,
under `~StoreMayFail`, that nothing is done twice. A request crosses two
programs and a table, so `Inv` says what each holds of the others: serve's jobs
are rows (`JobsAreRows`), a requester filed its row once (`FiledOnce`), what is
about to be answered as applied was done (`AppliedInHand`) and is on the trail
(`NotedIsOnTrail`), and starts of serve and rings of requesters are in order
(`BootsInOrder`, `SupersededInOrder`), which is why a request that a restart
answered is in force. `DoneOnceInv` adds where a request that was done without
an answer can be. With a database that may fail it does not hold: an answer that
could not be written leaves its row pending, and the next signal does it again,
which is harmless for a reload and a redial. `Pending` is a sequence of rows in
order of their numbers; that it enumerates them is proved by least
counterexample (see below).

`FleetProofs` proves the four safety properties of `fleet` for any upstreams,
specifications, calls and number of connections. The three facts a round rests
on are `PlanTells` (the plan was made from the live set, which only the round
and Close change, and it removes for a reason), `DialTells` (what is dialled is
wanted, has no connection and is dialled once) and `HealthTells` (outside the
part of a round that rebuilds the fleet, a health record is what a call would
find). `HealthyIsKept` follows from the reason every connection in `going` has:
a late report marks the connection it went over, never its replacement.

`EdgeProofs`. *AuthLimit*: rows are bounded by the global bucket
(`GlobalPays`). That a source's flood row costs a whole burst cannot be read
off the state, because an evicted bucket comes back full: the invariant says
that the attempts made can be shared out, a burst to each marker and what each
bucket was charged to the buckets (`Ledger`), and every step shows how the
shares change. It needs `WindowAssumption`, that a marker's window is as long
as a bucket takes to fill, which is how the constants of `authlimit.go` are
chosen. *Access*: `KeysWereServed` says that a known or expected key was served
and that a request in flight brings back every known key still served, from
which a fetch never loses one; `RolesMeanWhatTheySay` is a fact about the
policies that load, and needs that a name has a part (`NamesAssumption`).
*Endpoint*: `Remembered` relates the bounded table of listings to what each
caller was shown, up to retention and eviction; an answer is then judged by the
table alone. *RestApi*: `CallsInv` says that a call under way is of a frozen
operation, which was validated against the place of the credential, and is at
the registered origin; for that, nothing is assumed of the document, of what a
name resolves to, or of when the credential is rotated. `TranslationInv` says
where the reading of a document is and what it has charged: every draft is an
operation of the document under the name it asks for there and has paid what the
document alone makes it owe (`DraftHolds`), the total is the sum over the drafts,
the nodes visited are within the budget but for one past it for each draft whose
output was dropped there, and an entry is the drafts under names that differ. The sum is a recursive
function; that it exists, and grows by what a draft adds, is proved from the
running sums (`RunsExist`, `RunsAgree`). An operation is counted once for each
parameter it keeps, and as many places are taken because no two parameters take
one (`OurParamsCount`). That a name two operations ask for reaches neither rests
on a path having one key, which `mapping` enforces before anything is read.

`RecordsProofs`. *Audit*: `TrailInv` says who holds the write lock and what it
read (`LockTells`), that an untouched row has the links of its prefix
(`RowsAreChained`), where the walk stops in a damaged table (`DamageStays`),
which row each call and each line of the copy is of (`CopiesTell`, `EachOnce`)
and what a process remembers of its own lines (`MemoryTells`). From it follow
the chain, the copy and, step by step, the refinement of `AuditLog`: a commit is
a step of the log and every other action a stutter. `VerifiedHeadTellsTheTrail`
is about any table at all: two that verify under one head hold the same records.
The readers have an invariant of their own, `WalkTells`: what a reader was shown
is the run of rows from the newest of its first page (`WalkTop`) down to its
cursor, at places that no append moves. The sorting of a page and of the listing
is written `InOrder`, the place of a row being the number of rows that precede
it, and `InOrderIs` shows for every strict total order that this lists each row
once and in order: the ranks are an injection into as many places as there are
rows. `RunAuditIs` follows for any table with readable timestamps, any filter
and any count, where the run asks for at most two. *Telemetry*: `Kernel` adds to
the accounts of every event the running totals of the gap messages (`Running`)
and where a loss that is not admitted yet is stamped (`RaceTells`); a loss that
races with the reading of the counters is excluded through `raced`, as in the
run. *Status*: a report holds its rows until it has written them or failed to,
and of a backend that is not `doubtful` at most one row is under way
(`RowsAreOrderly`): the order of writing cannot matter there, so the last change
is on the trail or is that row. No copy is of the future (`CopiesAreOfThePast`).

`OperatorProofs`. *People*: a block is lifted only after its row
(`LiftFollowsRow`), what the round holds is a block whose end has passed, so
that the subject has that block still, none, one with another end, or one that
was stored late (`RoundIsOfThePast`: the round of `serve` never lifts a block in
force), and the account being offboarded is still one that was in reach of the
request under the mapping that request carries (`AccountsHold`), over what the
process does and what it goes on with after its row (`Ahead`). That mapping is
carried in the job, so an edit meanwhile disturbs nothing. *Registry*: with
`RequireSigned`, what is served was vetted, because a signature covers an entry
that was signed (`SigsAreVetted`), entries that were registered, updated, read
or are in a signer's hand are ones their dialer accepts (`EntriesAreGood`), and
for those `Canonical` forgets nothing (`CanonicalIs`). A deregistration has
begun at a time of its name's clock, and `StagesAreClean` says that what is
under the name and behind its stage was stored since; this survives any other
deregistration of the name, whether it ends or dies. `SignedWasShown` needs that
a signer's lines stay in a reviewed plan that was shown, through any number of
signers beside it; it is about the manifest, which stands for every field, and
not about what was printed. *Backup*: `BkInv` says where the two files of each
database are (`FilesTell`: the main file at the path, aside under some second,
or overwritten there, and the log with it as long as it holds a row or `serve`
writes to it; a log aside is its main file's own or an overwritten one's), what
a restore between its steps has moved (`RestoreTells`), and that a backup has in
hand what was there when it opened and dooms only copies that `Keep` newer ones
follow (`RunTells`). That a pruning never takes one of the newest rests on
`placed` only growing, so that a list read before another backup placed or
pruned dooms no more than it should. Both theorems assume `~Interrupted`, as the
passing run does: a restore cut between its renames does lose the log, which is
what `restore_cut` shows.

What is assumed of the constants: bounds and rates are natural numbers, the sets
that are counted are finite (`RequestersAssumption`, `CallersAssumption`,
`CallsAssumption`), a value for "none" is not a member of what it stands beside
(`NoneAssumption`), records have the fields the code gives them
(`RecsAssumption`, `RegistryAssumption`, `ControlsAssumption`,
`BackupAssumption`), and a page has room for a row (`PageAssumption`:
`admin.Audit` puts its default for a limit below 1). Of a document, that no two
paths have one key unless a key is written twice, that what is not of another
media has a schema, and that no operationId spells the mark before a name's hash
(`DocumentsAssumption`; the hash is of method and path, and the code looks for
collisions once more after it has appended it); of a schema, that what it
expands to costs a number of bytes and visits a number of schemas
(`CostAssumption`): the expansion is recursive, and its result is the one thing
the proof takes from TLC's evaluation. TLC evaluates each on the runs. Where a
component has a theorem about induction over data (that `Pending` enumerates,
what `VerifyChain` says of a prefix, the running totals), it is proved without
an induction rule: the set of counterexamples, if it is not empty, has a least
element (`LeastNat`, `LeastPlace`, `LeastOne`, from the well-foundedness of
`<`), and that one is refuted.

Only model-checked: `RefusedForCause` (which schemas the recursive expansion
refuses), and everything temporal that rests on fairness
(`ProcessesAreReaped`, `CallsEnd`, `RotationIsPickedUp`, `CloseEndsLoop`,
`KeyRotationIsPickedUp`, `StoreCatchesUp`, `RungIsAnswered`), which is beyond this prover.

## Not modelled

Parsing, rendering and formatting (`config`, fronts, `visible`, the matching in
`redact`) have no state and are a matter for tests. Cryptography (signatures,
token validation, sops) is taken as a predicate. The vault's stamp is taken to
move with every replacement; a rewrite that restores both modification time and
size is outside the design (ADR-0023). SQLite's transactions are taken as atomic
and serialised. Two `serve` processes over one database at the same time are
modelled for the audit trail only. Also left out: the children of the stdio and
container adapters, whose life `Fleet` takes as dial, death and close; planned
maintenance windows and signatures no key measures (`Status`); the guided
connection of a backend (`admin/connect.go`); the self-report of the quota;
the redial after a credential moved; listener shutdown; the second scrubbing of a
result, with credentials resolved again; the parsing of a base URL and the
refusal of a literal address in it.

Steps that are merged because nothing observes what lies between them: a round's
taking of the markers (`Fleet.PlanRound`), the commit of a call's row and the
flag that remembers it (`Dispatch.RecordAllowed`), reading the head and writing
the heartbeat of the audit copy, counting an event and trying to queue it
(`Telemetry.Emit`, which has no event that fails to encode). A number of the
trail's rows is used again in the model once damage has cut the tail off, where
`AUTOINCREMENT` skips it; only the boundary of the back-fill is compared with
numbers. Pages of the trail are read without filters; the listing of the command line
has its own. The five stages of a reload that may refuse it are one choice, and
a refused reload changes nothing.

## Plan

Done: every component of the table but the adapters' children, the
configuration's text, the fronts and the lab; every safety property of the
passing runs as a theorem, but for the one named under *Only model-checked*.

Next: the life of a stdio child and of a container, with the abstract connection
`Fleet` uses.
