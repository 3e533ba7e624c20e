------------------------------- MODULE People -------------------------------
(***************************************************************************)
(* The kill switch and the people behind it: the blocklist                 *)
(* (internal/access/block.go, access/sqlite), the operators' actions on it *)
(* (internal/admin/access.go, cmd access), the round that records and      *)
(* removes blocks that ended (serve_blocks.go), and the accounts backend,  *)
(* which edits the identity provider's users file and offboards a person   *)
(* (internal/admin/accounts.go, offboard.go, idp/autheliafile).            *)
(*                                                                         *)
(* Each of the operators' service, the command line and the accounts       *)
(* backend is a process that runs one action at a time (Service.mu);       *)
(* between two statements of one, the others and the gateway run, and it   *)
(* may be killed.  A store answer "fails" after the retries on a busy      *)
(* database.  What was asked of the accounts backend waits for that lock   *)
(* with the configuration it has read.                                     *)
(***************************************************************************)
EXTENDS Naturals, FiniteSets

CONSTANTS Operators,    \* the processes that block and unblock
          Subjects, Users, Groups,
          Peers,        \* who asks the accounts backend: "root", "operator" (a delegate who is
                        \* in the operators' group too) or "delegate"
          Ends,         \* the ends a block may be given, Forever among them
          MaxTime,      \* bound: the clock
          Bounds        \* bounds: how many blocks are placed and how many accounts
                        \* actions taken, one pair of them per behaviour

ASSUME PeopleAssumption ==
    /\ MaxTime \in Nat \ {0} /\ Ends \subseteq Nat
    /\ Bounds \subseteq Nat \X Nat

Forever == MaxTime + 1
Absent  == [exists |-> FALSE, groups |-> {}, disabled |-> FALSE, password |-> 0]
NoBlock == [id |-> 0, until |-> 0]

VARIABLES time,         \* time.Now of every process
          mapped,       \* the groups of [group_to_role] in the configuration
          blocks,       \* blocked_subjects: the block of each subject
          ids,          \* blocks placed so far; a block's author and time
          late,         \* history: the blocks whose end had passed when they were placed
          unsaid,       \* history: the blocks whose process was killed, or whose answer was
                        \* lost, before their row
          users,        \* the users file: each account's groups, disabled, password
          asked,        \* what waits for the accounts backend's lock, with the mapping it read
          job,          \* what each process is doing
          round,        \* expireBlocks: the expired blocks it has still to do
          blockRows,    \* the audit trail's rows about blocks and accounts
          told,         \* changes answered with "the trail has no row for it"
          ended,        \* history: blocks that left the list, how, and for which other
          edits,        \* actions of the accounts backend so far
          bound         \* the pair of Bounds this behaviour keeps to

peopleVars == <<time, mapped, blocks, ids, late, unsaid, users, asked, job, round, blockRows, told, ended, edits, bound>>

MaxBlocks == bound[1]
MaxEdits  == bound[2]

Processes == Operators \union {"accounts"}
NoJob == [op |-> "idle"]
Row(what, about, id, replaces) == [what |-> what, about |-> about, id |-> id, replaces |-> replaces]

PeopleInit ==
    /\ time = 1 /\ mapped \in (SUBSET Groups) \ {{}}
    /\ blocks = [s \in Subjects |-> NoBlock] /\ ids = 0 /\ late = {} /\ unsaid = {}
    /\ users \in [Users -> {Absent} \union [exists : {TRUE}, groups : SUBSET Groups,
                                           disabled : {FALSE}, password : {0}]]
    /\ asked = {} /\ job = [p \in Processes |-> NoJob] /\ round = {}
    /\ blockRows = {} /\ told = {} /\ ended = {} /\ edits = 0
    /\ bound \in Bounds

----------------------------------------------------------------------------
(* The store.                                                              *)

ActiveAt(b, t) == t < b.until

\* The gateway's admission check reads the end with the row.
Blocked(s) == ActiveAt(blocks[s], time)

\* ON CONFLICT ... WHERE: a block in force keeps its author and its end; one
\* whose end has passed is replaced.
CanPlace(s) == ~Blocked(s)

\* validateBlock's "until is not in the future", and ValidateBlock's check against the
\* time the service took before the transaction: the later one decides.
ValidEnd(until) == until > time

\* A block that does not say who placed it, and when.
PlacedAnonymously(s, until) == blocks' = [blocks EXCEPT ![s] = [id |-> 0, until |-> until]]

Placed(s, until) == blocks' = [blocks EXCEPT ![s] = [id |-> ids + 1, until |-> until]]

\* Block alone: the ended block leaves the list and nobody hears of it.
ReplacedUnread(s) == 0

\* BlockReplacing reads the block it replaces in the same transaction.
Replaced(s) == blocks[s].id      \* 0 when there was none

Gone(s, how, by) ==
    ended' = IF blocks[s] = NoBlock THEN ended
             ELSE ended \union {[id |-> blocks[s].id, subject |-> s, how |-> how, by |-> by]}

----------------------------------------------------------------------------
(* Block and unblock.                                                      *)

Goes(p, j)  == job' = [job EXCEPT ![p] = j]
Done(p)    == Goes(p, NoJob)

\* The transaction, on the store's clock: by then the end of the block it
\* places may have passed.
Stores(s, until) ==
    /\ CanPlace(s) /\ ids < MaxBlocks
    /\ Placed(s, until) /\ ids' = ids + 1
    /\ late' = IF until > time THEN late ELSE late \union {ids + 1}
    /\ Gone(s, "replaced", ids + 1)

\* placeBlock.  When the subject is blocked already nothing changes and nothing
\* is recorded.
Place(p, s, until, held, next) ==
    \/ /\ ~CanPlace(s) /\ Goes(p, held) /\ UNCHANGED <<blocks, ids, late, ended>>
    \/ /\ Stores(s, until)
       /\ Goes(p, [op |-> "blockRow", subject |-> s, id |-> ids + 1,
                   replaces |-> Replaced(s), next |-> next])

Block(p, s, until) ==
    /\ job[p] = NoJob /\ ValidEnd(until)
    /\ Goes(p, [op |-> "place", subject |-> s, until |-> until])
    /\ UNCHANGED <<time, mapped, blocks, ids, late, unsaid, users, asked, round, blockRows, told, ended, edits>>

PlaceBlock(p) ==
    /\ job[p].op = "place" /\ Place(p, job[p].subject, job[p].until, NoJob, NoJob)
    /\ UNCHANGED <<time, mapped, unsaid, users, asked, round, blockRows, told, edits>>

\* The row of a block in force: written, or answered as a warning.
RecordBlock(p) ==
    /\ job[p].op = "blockRow"
    /\ LET row == Row("block", job[p].subject, job[p].id, job[p].replaces) IN
       \/ blockRows' = blockRows \union {row} /\ UNCHANGED told
       \/ told' = told \union {row} /\ UNCHANGED blockRows
    /\ Goes(p, job[p].next)
    /\ UNCHANGED <<time, mapped, blocks, ids, late, unsaid, users, asked, round, ended, edits>>

\* Unblock reads the list, an expired block included, before it records.
Unblock(p, s) ==
    /\ job[p] = NoJob /\ blocks[s] # NoBlock
    /\ Goes(p, [op |-> "unblockRow", subject |-> s])
    /\ UNCHANGED <<time, mapped, blocks, ids, late, unsaid, users, asked, round, blockRows, told, ended, edits>>

\* The row first: without it the subject stays blocked.
RecordUnblock(p) ==
    /\ job[p].op = "unblockRow"
    /\ \/ /\ blockRows' = blockRows \union {Row("unblock", job[p].subject, 0, 0)}
          /\ Goes(p, [op |-> "lift", subject |-> job[p].subject])
       \/ Done(p) /\ UNCHANGED blockRows
    /\ UNCHANGED <<time, mapped, blocks, ids, late, unsaid, users, asked, round, told, ended, edits>>

\* DELETE by subject; a failure leaves a row of an unblock that did not happen.
Lift(p) ==
    /\ job[p].op = "lift" /\ Done(p)
    /\ LET s == job[p].subject IN
       \/ /\ blocks' = [blocks EXCEPT ![s] = NoBlock]
          /\ Gone(s, "lifted", 0)
       \/ UNCHANGED <<blocks, ended>>
    /\ UNCHANGED <<time, mapped, ids, late, unsaid, users, asked, round, blockRows, told, edits>>

\* A process is killed between two statements, or its store fails it there.
Killed(p) ==
    /\ job[p] # NoJob /\ Done(p)
    /\ unsaid' = IF job[p].op = "blockRow" THEN unsaid \union {job[p].id} ELSE unsaid
    /\ asked' = IF p = "accounts" THEN {} ELSE asked
    /\ UNCHANGED <<time, mapped, blocks, ids, late, users, round, blockRows, told, ended, edits>>

----------------------------------------------------------------------------
(* The round's expireBlocks: list, then for each block a row, then delete. *)

BeginExpiry ==
    /\ round = {}
    /\ round' = {[subject |-> s, block |-> blocks[s], recorded |-> FALSE] :
                    s \in {t \in Subjects : blocks[t] # NoBlock /\ ~Blocked(t)}}
    /\ round' # {}
    /\ UNCHANGED <<time, mapped, blocks, ids, late, unsaid, users, asked, job, blockRows, told, ended, edits>>

RecordExpiry(e) ==
    /\ e \in round /\ ~e.recorded
    /\ \/ /\ blockRows' = blockRows \union {Row("expired", e.subject, e.block.id, 0)}
          /\ round' = (round \ {e}) \union {[e EXCEPT !.recorded = TRUE]}
       \/ round' = round \ {e} /\ UNCHANGED blockRows
    /\ UNCHANGED <<time, mapped, blocks, ids, late, unsaid, users, asked, job, told, ended, edits>>

\* Whatever block the subject has by now.
AnyBlockOf(e) == blocks[e.subject] # NoBlock

\* The block with this end, and only if that end has passed.
StillThatBlock(e) ==
    LET b == blocks[e.subject] IN b # NoBlock /\ b.until = e.block.until /\ b.until <= time

RemoveExpired(e) ==
    /\ e \in round /\ e.recorded /\ round' = round \ {e}
    /\ \/ /\ StillThatBlock(e)
          /\ Gone(e.subject, "expired", 0)
          /\ blocks' = [blocks EXCEPT ![e.subject] = NoBlock]
       \/ UNCHANGED <<blocks, ended>>      \* another block by now, or the delete failed
    /\ UNCHANGED <<time, mapped, ids, late, unsaid, users, asked, job, blockRows, told, edits>>

\* serve stops or is killed between two statements of the round.
RoundCut ==
    /\ round # {} /\ round' = {}
    /\ UNCHANGED <<time, mapped, blocks, ids, late, unsaid, users, asked, job, blockRows, told, ended, edits>>

----------------------------------------------------------------------------
(* The accounts backend: every change reads the users file and rewrites it *)
(* under the lock, then records; the configuration it read before.         *)

\* The configuration is read ...
Ask(peer) ==
    /\ edits < MaxEdits /\ edits' = edits + 1
    /\ asked' = asked \union {[by |-> peer, mapped |-> mapped]}
    /\ UNCHANGED <<time, mapped, blocks, ids, late, unsaid, users, job, round, blockRows, told, ended>>

\* ... and the lock taken.
Admitted(q) == job["accounts"] = NoJob /\ q \in asked /\ asked' = asked \ {q}

\* One mapped group is enough.
InReachLoose(q, a) == q.by = "root" \/ a.groups \intersect q.mapped # {}

\* Who is not root reaches an account all of whose groups, and at least one, the
\* configuration maps.
InReach(q, a) == q.by = "root" \/ (a.groups # {} /\ a.groups \subseteq q.mapped)

Write(q, u, a, what) ==
    /\ users' = [users EXCEPT ![u] = a]
    /\ Goes("accounts", [op |-> "accountRow", by |-> q.by, mapped |-> q.mapped, what |-> what, next |-> NoJob])
    /\ UNCHANGED <<time, mapped, blocks, ids, late, unsaid, round, blockRows, told, ended, edits>>

\* mappedGroups: only groups of [group_to_role] are assigned.
AddAccount(q, u, groups) ==
    /\ Admitted(q) /\ ~users[u].exists /\ groups \subseteq q.mapped
    /\ Write(q, u, [exists |-> TRUE, groups |-> groups, disabled |-> FALSE, password |-> edits], "add")

SetAccountGroups(q, u, groups) ==
    /\ Admitted(q) /\ users[u].exists /\ InReach(q, users[u])
    /\ groups \subseteq q.mapped /\ groups # users[u].groups
    /\ Write(q, u, [users[u] EXCEPT !.groups = groups], "groups")

SetAccountDisabled(q, u, disabled) ==
    /\ Admitted(q) /\ users[u].exists /\ InReach(q, users[u])
    /\ users[u].disabled # disabled
    /\ Write(q, u, [users[u] EXCEPT !.disabled = disabled], "disabled")

ResetAccountPassword(q, u) ==
    /\ Admitted(q) /\ users[u].exists /\ InReach(q, users[u])
    /\ Write(q, u, [users[u] EXCEPT !.password = edits], "password")

DeleteAccount(q, u) ==
    /\ Admitted(q) /\ users[u].exists /\ InReach(q, users[u])
    /\ Write(q, u, Absent, "delete")

\* s.record: the row, or the warning that there is none.
RecordAccount ==
    /\ job["accounts"].op = "accountRow"
    /\ LET row == Row(job["accounts"].what, "account", 0, 0) IN
       \/ blockRows' = blockRows \union {row} /\ UNCHANGED told
       \/ told' = told \union {row} /\ UNCHANGED blockRows
    /\ Goes("accounts", job["accounts"].next)
    /\ UNCHANGED <<time, mapped, blocks, ids, late, unsaid, users, asked, round, ended, edits>>

Disable(q, u, s, placed) ==
    [op |-> "disable", by |-> q.by, mapped |-> q.mapped, user |-> u, subject |-> s, was |-> users[u].disabled, placed |-> placed]

\* Offboard: with a subject only for root and for an operator; the block first,
\* through the block writer, whose answer may be lost once it has placed the block.
Offboard(q, u, s) ==
    /\ Admitted(q) /\ users[u].exists /\ InReach(q, users[u]) /\ q.by # "delegate"
    /\ \/ Place("accounts", s, Forever, Disable(q, u, s, 0), Disable(q, u, s, ids + 1)) /\ UNCHANGED unsaid
       \/ Stores(s, Forever) /\ unsaid' = unsaid \union {ids + 1} /\ Done("accounts")
    /\ UNCHANGED <<time, mapped, users, round, blockRows, told, edits>>

OffboardWithoutSubject(q, u) ==
    /\ Admitted(q) /\ users[u].exists /\ InReach(q, users[u])
    /\ Goes("accounts", Disable(q, u, "", 0))
    /\ UNCHANGED <<time, mapped, blocks, ids, late, unsaid, users, round, blockRows, told, ended, edits>>

\* The second half.  A failed write of the users file is an error when nothing
\* has changed, and a warning when the block is in force.
OffboardDisable ==
    /\ job["accounts"].op = "disable"
    /\ LET j    == job["accounts"]
           done == [op |-> "offboarded", user |-> j.user, subject |-> j.subject, placed |-> j.placed]
       IN  \/ /\ ~j.was
              /\ users' = [users EXCEPT ![j.user].disabled = TRUE]
              /\ Goes("accounts", [op |-> "accountRow", by |-> j.by, mapped |-> j.mapped, what |-> "disabled",
                                   next |-> done])
           \/ /\ Goes("accounts", IF j.placed # 0 THEN done ELSE NoJob) /\ UNCHANGED users
    /\ UNCHANGED <<time, mapped, blocks, ids, late, unsaid, asked, round, blockRows, told, ended, edits>>

\* The summary row of an offboard that changed something, which says whether it blocked.
OffboardAnswer ==
    /\ job["accounts"].op = "offboarded"
    /\ LET row == Row("offboard", job["accounts"].subject, job["accounts"].placed, 0) IN
       \/ blockRows' = blockRows \union {row} /\ UNCHANGED told
       \/ told' = told \union {row} /\ UNCHANGED blockRows
    /\ Done("accounts")
    /\ UNCHANGED <<time, mapped, blocks, ids, late, unsaid, users, asked, round, ended, edits>>

----------------------------------------------------------------------------
\* The operator edits [group_to_role], at any time.
Remap(groups) ==
    /\ edits < MaxEdits /\ edits' = edits + 1
    /\ mapped' = groups /\ groups # mapped
    /\ UNCHANGED <<time, blocks, ids, late, unsaid, users, asked, job, round, blockRows, told, ended>>

PassingTime ==
    /\ time < MaxTime /\ time' = time + 1
    /\ UNCHANGED <<mapped, blocks, ids, late, unsaid, users, asked, job, round, blockRows, told, ended, edits>>

BlockStep ==
    \/ \E p \in Operators, s \in Subjects : Unblock(p, s) \/ \E e \in Ends : Block(p, s, e)
    \/ \E p \in Processes : RecordBlock(p) \/ Killed(p)
    \/ \E p \in Operators : PlaceBlock(p) \/ RecordUnblock(p) \/ Lift(p)

RoundStep ==
    \/ BeginExpiry \/ RoundCut
    \/ \E e \in round : RecordExpiry(e) \/ RemoveExpired(e)

AccountStep ==
    \/ \E r \in Peers : Ask(r)
    \/ \E q \in asked, u \in Users :
         \/ \E g \in SUBSET Groups : SetAccountGroups(q, u, g) \/ AddAccount(q, u, g)
         \/ \E d \in BOOLEAN : SetAccountDisabled(q, u, d)
         \/ ResetAccountPassword(q, u) \/ DeleteAccount(q, u)
         \/ OffboardWithoutSubject(q, u)
         \/ \E s \in Subjects : Offboard(q, u, s)
    \/ RecordAccount \/ OffboardDisable \/ OffboardAnswer
    \/ \E g \in SUBSET Groups : Remap(g)

PeopleNext == (BlockStep \/ RoundStep \/ AccountStep \/ PassingTime) /\ UNCHANGED bound

PeopleSpec == PeopleInit /\ [][PeopleNext]_peopleVars
----------------------------------------------------------------------------
(* Every stored block names its author and has an end it could be given.   *)
PeopleTypeOK ==
    /\ time \in 1 .. MaxTime /\ mapped \subseteq Groups /\ ids \in 0 .. MaxBlocks
    /\ blocks \in [Subjects -> {NoBlock} \union [id : 1 .. MaxBlocks, until : Ends \union {Forever}]]
    /\ users \in [Users -> {Absent} \union [exists : BOOLEAN, groups : SUBSET Groups, disabled : BOOLEAN,
                                             password : 0 .. MaxEdits]]
    /\ \A e \in round : e.subject \in Subjects /\ e.block.until <= time

(* A block in force leaves the list only when an operator lifts it: the    *)
(* round that listed an expired block and writes its row meanwhile must    *)
(* not remove the block that has replaced it (RemoveExpired, Block).       *)
LiveBlockOnlyLifted ==
    [][\A s \in Subjects :
         Blocked(s) /\ blocks'[s] # blocks[s] =>
            \E p \in Operators : job[p].op = "lift" /\ job[p].subject = s]_peopleVars

\* The rows of blocks in force that are still to be written.
Unrecorded ==
    {Row("block", job[p].subject, job[p].id, job[p].replaces) : p \in {q \in Processes : job[q].op = "blockRow"}}

Said == blockRows \union told \union Unrecorded

(* A block never leaves the list without the trail saying so: its expiry,  *)
(* its unblock or the block that replaces it is recorded, or the operator  *)
(* was told the row is missing, whoever comes between.  Two exceptions: a  *)
(* process killed between the block it has placed and its row, or whose    *)
(* answer was lost; and a block stored when its end had passed already,    *)
(* which the round may take for the one it has recorded, with the same end *)
(* (placeBlock, Unblock, expireBlocks, RemoveExpired).                     *)
EndIsTold ==
    \A e \in ended :
        \/ e.how = "expired" /\ \E r \in blockRows : /\ r.what = "expired" /\ r.about = e.subject
                                                     /\ r.id = e.id \/ e.id \in late
        \/ e.how = "lifted" /\ Row("unblock", e.subject, 0, 0) \in blockRows
        \/ /\ e.how = "replaced"
           /\ e.by \in unsaid \/ \E r \in Said : r.what = "block" /\ r.id = e.by /\ r.replaces = e.id

(* Every block that was placed is recorded, or the operator was told that  *)
(* it is not, with the same exception (placeBlock).                        *)
BlockIsTold == \A i \in 1 .. ids : i \in unsaid \/ \E r \in Said : r.what = "block" /\ r.id = i

(* The accounts socket's delegation: who is not root never changes an      *)
(* account that has a group which the configuration it read does not map,  *)
(* nor gives one such a group; an edit of the mapping after that read      *)
(* comes too late for it (directory, inReach, mappedGroups, Offboard).     *)
DelegateKeepsToMapped ==
    [][LET j == job'["accounts"] IN
       \A u \in Users :
         users'[u] # users[u] /\ j.by # "root" =>
            /\ users[u] = Absent \/ users[u].groups \subseteq j.mapped
            /\ users'[u] = Absent \/ users'[u].groups \subseteq j.mapped]_peopleVars

\* Block i of the subject, one without end, is in force, or was lifted on the trail.
Lasts(s, i) ==
    i # 0 => /\ s \in Subjects
             /\ Row("unblock", s, 0, 0) \in blockRows \/ blocks[s] = [id |-> i, until |-> Forever]

(* A person whom an offboard says it has blocked stays blocked until an    *)
(* operator's unblock is on the trail, whatever else of the offboard fails *)
(* (Offboard, placeBlock).  An offboard that finds the subject blocked     *)
(* already leaves it the end it has.                                       *)
OffboardLasts == \A r \in blockRows \union told : r.what = "offboard" => Lasts(r.about, r.id)

(* Blocks begin and end as the trail says they do, in any order of         *)
(* operators, expiries, kills and failed writes (placeBlock, Unblock,      *)
(* expireBlocks, Offboard).                                                *)
BlocksAreTold == PeopleTypeOK /\ EndIsTold /\ BlockIsTold /\ OffboardLasts

(* Nothing but an operator's unblock lifts a block in force, and nothing a *)
(* delegate asks for changes an account outside its reach                  *)
(* (RemoveExpired, inReach, mappedGroups).                                 *)
PeopleAreGuarded == LiveBlockOnlyLifted /\ DelegateKeepsToMapped

----------------------------------------------------------------------------
(* The inductive invariant.                                                *)

SomeSubject == Subjects \union {""}
Waiting == [by : Peers, mapped : SUBSET Groups]

\* What a process can be doing, and what it goes on with once it has recorded.
Placing    == [op : {"place"}, subject : Subjects, until : Ends]
Disabling  == [op : {"disable"}, by : Peers, mapped : SUBSET Groups, user : Users, subject : SomeSubject,
               was : BOOLEAN, placed : Nat]
Offboarded == [op : {"offboarded"}, user : Users, subject : SomeSubject, placed : Nat]
Recording  == [op : {"blockRow"}, subject : Subjects, id : Nat, replaces : Nat, next : {NoJob} \union Disabling]
Lifting    == [op : {"unblockRow", "lift"}, subject : Subjects]
Accounting == [op : {"accountRow"}, by : Peers, mapped : SUBSET Groups, next : {NoJob} \union Offboarded,
               what : {"add", "groups", "disabled", "password", "delete"}]
Jobs       == {NoJob} \union Placing \union Disabling \union Offboarded \union Recording \union Lifting \union Accounting

\* A block is lifted only after its row.
LiftFollowsRow ==
    \A p \in Processes : job[p].op = "lift" => Row("unblock", job[p].subject, 0, 0) \in blockRows

\* What the round holds is a block whose end has passed: the subject has that block
\* still, none, one with another end, or one that was stored too late.
RoundIsOfThePast ==
    \A e \in round :
        /\ e \in [subject : Subjects, block : [id : Nat, until : Nat], recorded : BOOLEAN]
        /\ e.block.until <= time /\ e.block # NoBlock
        /\ \/ blocks[e.subject] \in {NoBlock, e.block} \/ blocks[e.subject].until # e.block.until
           \/ blocks[e.subject].id \in late
        /\ e.recorded => Row("expired", e.subject, e.block.id, 0) \in blockRows

\* What a process does, and what it has still to do.
Ahead(j) == {j} \union (IF j.op \in {"blockRow", "accountRow"} THEN {j.next} ELSE {})

\* The account being offboarded exists and was in reach; the block that was placed lasts.
OffboardHolds(d) ==
    /\ d.op = "disable" => /\ users[d.user].exists /\ (d.by # "root" => users[d.user].groups \subseteq d.mapped)
                           /\ Lasts(d.subject, d.placed)
    /\ d.op = "offboarded" => Lasts(d.subject, d.placed)

\* There is one way not to exist.
AccountsHold ==
    /\ \A u \in Users : users[u].exists \/ users[u] = Absent
    /\ \A d \in Ahead(job["accounts"]) : OffboardHolds(d)

PeopleInv ==
    /\ PeopleTypeOK /\ EndIsTold /\ BlockIsTold /\ OffboardLasts
    /\ bound \in Nat \X Nat /\ edits \in 0 .. MaxEdits /\ job \in [Processes -> Jobs] /\ asked \subseteq Waiting
    /\ late \subseteq Nat /\ unsaid \subseteq Nat
    /\ LiftFollowsRow /\ RoundIsOfThePast /\ AccountsHold
=============================================================================
