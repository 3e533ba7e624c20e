--------------------------- MODULE OperatorProofs ---------------------------
(***************************************************************************)
(* What operators and the management service do to people and to the       *)
(* registry, for any operators, processes, people, names and entries, and  *)
(* what backups and a restore do to the database, for any number of them.  *)
(*                                                                         *)
(* A step of one process changes that process and at most one store: the   *)
(* lemmas on a process say what no other process's step can take from it.  *)
(***************************************************************************)
EXTENDS People, Registry, Backup, FiniteSetTheorems, WellFoundedInduction, TLAPS

-----------------------------------------------------------------------------
(* People: blocks, offboarding and the identity provider's accounts.        *)

(* How the trail accounts for one block that left the list.                *)
EndOf(x) ==
  \/ x.how = "expired" /\ \E r \in blockRows : /\ r.what = "expired" /\ r.about = x.subject
                                               /\ r.id = x.id \/ x.id \in late
  \/ x.how = "lifted" /\ Row("unblock", x.subject, 0, 0) \in blockRows
  \/ /\ x.how = "replaced"
     /\ x.by \in unsaid \/ \E r \in Said : r.what = "block" /\ r.id = x.by /\ r.replaces = x.id

BlockRowOf(j) == Row("block", j.subject, j.id, j.replaces)

AccountRec == [exists : BOOLEAN, groups : SUBSET Groups, disabled : BOOLEAN, password : 0 .. MaxEdits]
BlockRec   == [id : 1 .. MaxBlocks, until : Ends \union {Forever}]

LEMMA JobTells ==
  ASSUME NEW j \in Jobs
  PROVE  /\ j.op = "place" => j \in Placing
         /\ j.op = "blockRow" => j \in Recording
         /\ j.op \in {"unblockRow", "lift"} => j \in Lifting
         /\ j.op = "disable" => j \in Disabling
         /\ j.op = "offboarded" => j \in Offboarded
         /\ j.op = "accountRow" => j \in Accounting
         /\ j.op = "idle" => j = NoJob
         /\ j.op \in {"idle", "place", "blockRow", "unblockRow", "lift", "disable", "offboarded", "accountRow"}
<1>1. \/ j = NoJob \/ j \in Placing \/ j \in Disabling \/ j \in Offboarded \/ j \in Recording
      \/ j \in Lifting \/ j \in Accounting
  BY DEF Jobs
<1>2. CASE j = NoJob
  BY <1>2 DEF NoJob
<1>3. CASE j \in Disabling
  BY <1>3 DEF Disabling
<1>4. CASE j \in Offboarded
  BY <1>4 DEF Offboarded
<1>5. CASE j \in Recording
  BY <1>5 DEF Recording
<1>6. CASE j \in Lifting
  BY <1>6 DEF Lifting
<1>7. CASE j \in Accounting
  BY <1>7 DEF Accounting
<1>8. CASE j \in Placing
  BY <1>8 DEF Placing
<1> QED BY <1>1, <1>2, <1>3, <1>4, <1>5, <1>6, <1>7, <1>8

LEMMA Forevers == MaxTime \in Nat /\ Forever \in Nat /\ Ends \subseteq Nat /\ Forever > MaxTime
BY PeopleAssumption DEF Forever

LEMMA NoJobIsAJob == NoJob \in Jobs /\ NoJob.op = "idle"
BY DEF Jobs, NoJob

LEMMA RowIs ==
  ASSUME NEW what, NEW about, NEW id, NEW replaces
  PROVE  /\ Row(what, about, id, replaces).what = what /\ Row(what, about, id, replaces).about = about
         /\ Row(what, about, id, replaces).id = id /\ Row(what, about, id, replaces).replaces = replaces
BY DEF Row

LEMMA PeopleFacts ==
  ASSUME PeopleInv
  PROVE  /\ time \in Nat /\ time >= 1 /\ time <= MaxTime /\ mapped \subseteq Groups
         /\ MaxBlocks \in Nat /\ MaxEdits \in Nat
         /\ ids \in Nat /\ ids <= MaxBlocks
         /\ edits \in Nat /\ edits <= MaxEdits
         /\ job \in [Processes -> Jobs] /\ asked \subseteq Waiting
         /\ late \subseteq Nat /\ unsaid \subseteq Nat
         /\ "accounts" \in Processes /\ Operators \subseteq Processes
BY PeopleAssumption DEF PeopleInv, PeopleTypeOK, MaxBlocks, MaxEdits, Processes

LEMMA BlocksAre ==
  ASSUME PeopleInv, NEW s \in Subjects
  PROVE  /\ blocks[s].id \in Nat /\ blocks[s].until \in Nat
         /\ blocks[s] # NoBlock => blocks[s].id # 0
         /\ blocks[s] = [id |-> blocks[s].id, until |-> blocks[s].until]
<1>1. blocks[s] \in {NoBlock} \union BlockRec
  BY DEF PeopleInv, PeopleTypeOK, BlockRec
<1>2. CASE blocks[s] = NoBlock
  BY <1>2, PeopleFacts DEF NoBlock
<1>3. CASE blocks[s] \in BlockRec
  <2>1. blocks[s].id \in 1 .. MaxBlocks /\ blocks[s].until \in Ends \union {Forever}
        /\ blocks[s] = [id |-> blocks[s].id, until |-> blocks[s].until]
    BY <1>3 DEF BlockRec
  <2>2. blocks[s].until \in Nat
    BY <2>1, Forevers
  <2>3. blocks[s].id \in Nat /\ blocks[s].id # 0
    BY <2>1, PeopleFacts
  <2> QED BY <2>1, <2>2, <2>3
<1> QED BY <1>1, <1>2, <1>3

-----------------------------------------------------------------------------
(* What the parts of the invariant ask of a step.                          *)

(* Rows are never lost but by the process that owes them.                  *)
Carried ==
  /\ blockRows \subseteq blockRows' /\ told \subseteq told' /\ unsaid \subseteq unsaid' /\ late \subseteq late'
  /\ \A q \in Processes : job[q].op = "blockRow" =>
        job'[q] = job[q] \/ BlockRowOf(job[q]) \in blockRows' \union told' \/ job[q].id \in unsaid'

LEMMA SaidStays ==
  ASSUME Carried, NEW r \in Said
  PROVE  r \in Said' \/ r.id \in unsaid'
<1>1. CASE r \in blockRows \union told
  BY <1>1 DEF Carried, Said
<1>2. CASE r \in Unrecorded
  <2>1. PICK q \in Processes : job[q].op = "blockRow" /\ r = BlockRowOf(job[q])
    BY <1>2 DEF Unrecorded, BlockRowOf
  <2>2. CASE job'[q] = job[q]
    <3>1. r \in Unrecorded'
      BY <2>1, <2>2 DEF Unrecorded, BlockRowOf, Processes
    <3> QED BY <3>1 DEF Said
  <2>3. CASE BlockRowOf(job[q]) \in blockRows' \union told'
    BY <2>1, <2>3 DEF Said
  <2>4. CASE job[q].id \in unsaid'
    BY <2>1, <2>4, RowIs DEF BlockRowOf
  <2> QED BY <2>1, <2>2, <2>3, <2>4 DEF Carried
<1> QED BY <1>1, <1>2 DEF Said

LEMMA EndKeeps ==
  ASSUME EndIsTold, Carried, \A x \in ended' : x \in ended \/ EndOf(x)'
  PROVE  EndIsTold'
<1> SUFFICES ASSUME NEW x \in ended' PROVE EndOf(x)'
  BY DEF EndIsTold, EndOf
<1>1. CASE x \in ended
  <2>1. EndOf(x)
    BY <1>1 DEF EndIsTold, EndOf
  <2>2. CASE x.how = "replaced" /\ \E r \in Said : r.what = "block" /\ r.id = x.by /\ r.replaces = x.id
    BY <2>2, SaidStays DEF EndOf
  <2>3. CASE x.how = "replaced" /\ x.by \in unsaid
    BY <2>3 DEF EndOf, Carried
  <2>4. CASE x.how = "lifted" /\ Row("unblock", x.subject, 0, 0) \in blockRows
    BY <2>4 DEF EndOf, Carried
  <2>5. CASE x.how = "expired" /\ \E r \in blockRows : /\ r.what = "expired" /\ r.about = x.subject
                                                       /\ r.id = x.id \/ x.id \in late
    BY <2>5 DEF EndOf, Carried
  <2> QED BY <2>1, <2>2, <2>3, <2>4, <2>5 DEF EndOf
<1> QED BY <1>1

(* The block a step has placed.                                            *)
Placement ==
  \/ ids' = ids
  \/ ids' = ids + 1 /\ (ids + 1 \in unsaid' \/ \E r \in Said' : r.what = "block" /\ r.id = ids + 1)

LEMMA PlacedKeeps ==
  ASSUME BlockIsTold, ids \in Nat, Carried, Placement
  PROVE  BlockIsTold'
<1> SUFFICES ASSUME NEW i \in 1 .. ids'
             PROVE  i \in unsaid' \/ \E r \in Said' : r.what = "block" /\ r.id = i
  BY DEF BlockIsTold
<1>1. i \in 1 .. ids \/ (ids' = ids + 1 /\ i = ids + 1)
  BY DEF Placement
<1>2. CASE i \in 1 .. ids
  <2>1. CASE i \in unsaid
    BY <2>1 DEF Carried
  <2>2. CASE \E r \in Said : r.what = "block" /\ r.id = i
    BY <2>2, SaidStays
  <2> QED BY <1>2, <2>1, <2>2 DEF BlockIsTold
<1>3. CASE ids' = ids + 1 /\ i = ids + 1
  <2>1. ids' # ids
    BY <1>3
  <2> QED BY <1>3, <2>1 DEF Placement
<1> QED BY <1>1, <1>2, <1>3

(* A block without end yields to an unblock on the trail alone.            *)
Yielding ==
  \A s \in Subjects : blocks'[s] = blocks[s] \/ Row("unblock", s, 0, 0) \in blockRows' \/ blocks[s].until # Forever

LEMMA LastsStay ==
  ASSUME Yielding, blockRows \subseteq blockRows', NEW s, NEW i, Lasts(s, i)
  PROVE  Lasts(s, i)'
<1> SUFFICES ASSUME i # 0
             PROVE  s \in Subjects /\ (Row("unblock", s, 0, 0) \in blockRows' \/ blocks'[s] = [id |-> i, until |-> Forever])
  BY DEF Lasts, Forever
<1>1. s \in Subjects /\ (Row("unblock", s, 0, 0) \in blockRows \/ blocks[s] = [id |-> i, until |-> Forever])
  BY DEF Lasts
<1>2. CASE blocks[s] = [id |-> i, until |-> Forever]
  <2>1. blocks[s].until = Forever
    BY <1>2
  <2> QED BY <1>1, <1>2, <2>1 DEF Yielding
<1> QED BY <1>1, <1>2

LEMMA OffboardKept ==
  ASSUME OffboardLasts, Yielding, blockRows \subseteq blockRows',
         \A r \in blockRows' \union told' :
            r \in blockRows \union told \/ (r.what = "offboard" => Lasts(r.about, r.id)')
  PROVE  OffboardLasts'
<1> SUFFICES ASSUME NEW r \in blockRows' \union told', r.what = "offboard" PROVE Lasts(r.about, r.id)'
  BY DEF OffboardLasts
<1>1. CASE r \in blockRows \union told
  <2>1. Lasts(r.about, r.id)
    BY <1>1 DEF OffboardLasts
  <2> QED BY <2>1, LastsStay
<1> QED BY <1>1

LEMMA LiftKeeps ==
  ASSUME LiftFollowsRow, blockRows \subseteq blockRows',
         \A q \in Processes : \/ job'[q] = job[q] \/ job'[q].op # "lift"
                              \/ Row("unblock", job'[q].subject, 0, 0) \in blockRows'
  PROVE  LiftFollowsRow'
<1> SUFFICES ASSUME NEW q \in Processes, job'[q].op = "lift"
             PROVE  Row("unblock", job'[q].subject, 0, 0) \in blockRows'
  BY DEF LiftFollowsRow, Processes
<1> QED BY DEF LiftFollowsRow

(* One entry of the round.                                                 *)
PastEntry(x) ==
  /\ x \in [subject : Subjects, block : [id : Nat, until : Nat], recorded : BOOLEAN]
  /\ x.block.until <= time /\ x.block # NoBlock
  /\ \/ blocks[x.subject] \in {NoBlock, x.block} \/ blocks[x.subject].until # x.block.until
     \/ blocks[x.subject].id \in late
  /\ x.recorded => Row("expired", x.subject, x.block.id, 0) \in blockRows

LEMMA RoundKeeps ==
  ASSUME RoundIsOfThePast, time \in Nat, round' \subseteq round, time' \in Nat, time' >= time,
         blockRows \subseteq blockRows', late \subseteq late',
         \A s \in Subjects : \/ blocks'[s] = blocks[s] \/ blocks'[s] = NoBlock
                             \/ blocks'[s].until \in Nat /\ blocks'[s].until > time
                             \/ blocks'[s].id \in late'
  PROVE  RoundIsOfThePast'
<1> SUFFICES ASSUME NEW x \in round' PROVE PastEntry(x)'
  BY DEF RoundIsOfThePast, PastEntry, NoBlock
<1>1. PastEntry(x)
  BY DEF RoundIsOfThePast, PastEntry
<1>2. x.subject \in Subjects /\ x.block.until \in Nat /\ x.block.until <= time
  BY <1>1 DEF PastEntry
<1>3. x.block.until <= time'
  BY <1>2
<1>4. \/ blocks'[x.subject] \in {NoBlock, x.block} \/ blocks'[x.subject].until # x.block.until
      \/ blocks'[x.subject].id \in late'
  <2>1. CASE blocks'[x.subject] = blocks[x.subject]
    BY <1>1, <2>1 DEF PastEntry
  <2>2. CASE blocks'[x.subject].until \in Nat /\ blocks'[x.subject].until > time
    BY <1>2, <2>2
  <2> QED BY <1>2, <2>1, <2>2
<1> QED BY <1>1, <1>3, <1>4 DEF PastEntry, NoBlock

LEMMA AccountsKeep ==
  ASSUME AccountsHold, users' = users, Yielding, blockRows \subseteq blockRows',
         \A d \in Ahead(job'["accounts"]) : d \in Ahead(job["accounts"]) \/ OffboardHolds(d)'
  PROVE  AccountsHold'
<1> SUFFICES ASSUME NEW d \in Ahead(job'["accounts"]) PROVE OffboardHolds(d)'
  BY DEF AccountsHold, Ahead, Absent
<1>1. CASE d \in Ahead(job["accounts"])
  <2>1. OffboardHolds(d)
    BY <1>1 DEF AccountsHold
  <2>2. Lasts(d.subject, d.placed) => Lasts(d.subject, d.placed)'
    BY LastsStay
  <2> QED BY <2>1, <2>2 DEF OffboardHolds
<1> QED BY <1>1

(* A state is as the invariant says when each of its parts is.             *)
LEMMA TypesKeep ==
  ASSUME PeopleInv, bound' = bound, time' \in 1 .. MaxTime, mapped' \subseteq Groups,
         Placement, ids' <= MaxBlocks,
         \A s \in Subjects : blocks'[s] = blocks[s] \/ blocks'[s] = NoBlock \/ blocks'[s] \in BlockRec,
         blocks' = [s \in Subjects |-> blocks'[s]],
         \A u \in Users : users'[u] = users[u] \/ users'[u] = Absent \/ users'[u] \in AccountRec,
         users' = [u \in Users |-> users'[u]],
         RoundIsOfThePast'
  PROVE  PeopleTypeOK'
<1>1. MaxBlocks' = MaxBlocks /\ MaxEdits' = MaxEdits /\ MaxBlocks \in Nat /\ ids \in Nat /\ ids <= MaxBlocks
  BY PeopleFacts DEF MaxBlocks, MaxEdits
<1>2. ids' \in 0 .. MaxBlocks
  BY <1>1 DEF Placement
<1>3. blocks' \in [Subjects -> {NoBlock} \union BlockRec]
  <2>1. \A s \in Subjects : blocks'[s] \in {NoBlock} \union BlockRec
    BY DEF PeopleInv, PeopleTypeOK, BlockRec
  <2> HIDE DEF NoBlock
  <2> QED BY <2>1
<1>4. users' \in [Users -> {Absent} \union AccountRec]
  <2>1. \A u \in Users : users'[u] \in {Absent} \union AccountRec
    BY DEF PeopleInv, PeopleTypeOK, AccountRec
  <2> QED BY <2>1
<1>5. \A x \in round' : x.subject \in Subjects /\ x.block.until <= time'
  BY DEF RoundIsOfThePast
<1> QED BY <1>1, <1>2, <1>3, <1>4, <1>5 DEF PeopleTypeOK, BlockRec, AccountRec, NoBlock, Absent, Forever

Typed ==
  /\ job' \in [Processes -> Jobs] /\ asked' \subseteq Waiting /\ late' \subseteq Nat /\ unsaid' \subseteq Nat
  /\ edits' \in edits .. MaxEdits

LEMMA InvFolds ==
  ASSUME PeopleTypeOK', EndIsTold', BlockIsTold', OffboardLasts', LiftFollowsRow', RoundIsOfThePast', AccountsHold',
         PeopleInv, bound' = bound, Typed
  PROVE  PeopleInv'
<1>1. MaxEdits' = MaxEdits /\ MaxEdits \in Nat /\ edits \in Nat
  BY PeopleFacts DEF MaxEdits
<1>2. edits' \in 0 .. MaxEdits'
  BY <1>1 DEF Typed
<1>3. Processes' = Processes /\ Jobs' = Jobs /\ Waiting' = Waiting
  BY DEF Processes, Jobs, NoJob, Placing, Disabling, Offboarded, Recording, Lifting, Accounting, SomeSubject, Waiting
<1>4. bound' \in Nat \X Nat
  BY DEF PeopleInv
<1> QED BY <1>2, <1>3, <1>4 DEF PeopleInv, Typed

(* A step that changes no block and no account.                            *)
LEMMA QuietKeeps ==
  ASSUME PeopleInv, bound' = bound, UNCHANGED <<blocks, ids, users, ended>>, mapped' \subseteq Groups,
         time' \in time .. MaxTime, Carried, Typed, RoundIsOfThePast',
         \A r \in blockRows' \union told' :
            r \in blockRows \union told \/ (r.what = "offboard" => Lasts(r.about, r.id)'),
         \A q \in Processes : \/ job'[q] = job[q] \/ job'[q].op # "lift"
                              \/ Row("unblock", job'[q].subject, 0, 0) \in blockRows',
         \A d \in Ahead(job'["accounts"]) : d \in Ahead(job["accounts"]) \/ OffboardHolds(d)'
  PROVE  PeopleInv'
<1>1. time \in Nat /\ time >= 1 /\ MaxTime \in Nat /\ ids \in Nat /\ ids <= MaxBlocks /\ MaxBlocks \in Nat
  BY PeopleFacts, Forevers
<1>2. time' \in 1 .. MaxTime /\ Placement /\ ids' <= MaxBlocks
  BY <1>1 DEF Placement
<1>3. EndIsTold' /\ BlockIsTold'
  BY <1>1, <1>2, EndKeeps, PlacedKeeps DEF PeopleInv
<1>4. Yielding /\ blockRows \subseteq blockRows'
  BY DEF Yielding, Carried
<1>5. OffboardLasts' /\ AccountsHold' /\ LiftFollowsRow'
  BY <1>4, OffboardKept, AccountsKeep, LiftKeeps DEF PeopleInv
<1>6. blocks' = [s \in Subjects |-> blocks'[s]] /\ users' = [u \in Users |-> users'[u]]
  BY DEF PeopleInv, PeopleTypeOK
<1>7. PeopleTypeOK'
  BY <1>2, <1>6, TypesKeep
<1> QED BY <1>3, <1>5, <1>7, InvFolds

LEMMA RoundSame ==
  ASSUME PeopleInv, UNCHANGED blocks, round' \subseteq round, time' \in time .. MaxTime, Carried
  PROVE  RoundIsOfThePast'
<1>1. time \in Nat /\ MaxTime \in Nat
  BY PeopleFacts, Forevers
<1>2. time' \in Nat /\ time' >= time
  BY <1>1
<1> QED BY <1>1, <1>2, RoundKeeps DEF PeopleInv, Carried

LEMMA JobMoves ==
  ASSUME PeopleInv, NEW p \in Processes, NEW j \in Jobs, Goes(p, j)
  PROVE  /\ job' \in [Processes -> Jobs] /\ job'[p] = j
         /\ \A q \in Processes : q # p => job'[q] = job[q]
BY PeopleFacts DEF Goes

(* A process that goes from one statement to the next: its rows kept, the  *)
(* row it owed written, told or never said, nothing else touched.          *)
LEMMA ProcessKeeps ==
  ASSUME PeopleInv, bound' = bound, UNCHANGED <<time, mapped, blocks, ids, late, users, round, ended, edits>>,
         blockRows \subseteq blockRows', told \subseteq told', unsaid \subseteq unsaid', unsaid' \subseteq Nat,
         asked' \subseteq asked,
         NEW p \in Processes, NEW j \in Jobs, Goes(p, j),
         job[p].op = "blockRow" => BlockRowOf(job[p]) \in blockRows' \union told' \/ job[p].id \in unsaid',
         j.op = "lift" => Row("unblock", j.subject, 0, 0) \in blockRows',
         \A r \in blockRows' \union told' :
            r \in blockRows \union told \/ (r.what = "offboard" => Lasts(r.about, r.id)),
         p = "accounts" => \A d \in Ahead(j) : d \in Ahead(job["accounts"]) \/ OffboardHolds(d)
  PROVE  PeopleInv'
<1>1. /\ job' \in [Processes -> Jobs] /\ job'[p] = j
      /\ \A q \in Processes : q # p => job'[q] = job[q]
  BY JobMoves
<1>2. time' \in time .. MaxTime /\ mapped' \subseteq Groups
  BY PeopleFacts, Forevers
<1>3. Typed
  BY <1>1, PeopleFacts DEF Typed
<1>4. Carried
  BY <1>1 DEF Carried
<1>5. Yielding
  BY DEF Yielding
<1>6. ASSUME NEW r \in blockRows' \union told', r \notin blockRows \union told, r.what = "offboard"
      PROVE  Lasts(r.about, r.id)'
  BY <1>5, <1>6, LastsStay
<1>7. \A q \in Processes : \/ job'[q] = job[q] \/ job'[q].op # "lift"
                           \/ Row("unblock", job'[q].subject, 0, 0) \in blockRows'
  BY <1>1
<1>8. ASSUME NEW d \in Ahead(job'["accounts"]), d \notin Ahead(job["accounts"]) PROVE OffboardHolds(d)'
  <2>1. p = "accounts"
    BY <1>1, <1>8, PeopleFacts
  <2>2. OffboardHolds(d)
    BY <1>1, <1>8, <2>1
  <2>3. Lasts(d.subject, d.placed) => Lasts(d.subject, d.placed)'
    BY <1>5, LastsStay
  <2> QED BY <2>2, <2>3 DEF OffboardHolds
<1>9. RoundIsOfThePast'
  BY <1>2, <1>4, RoundSame
<1> QED BY <1>2, <1>3, <1>4, <1>6, <1>7, <1>8, <1>9, QuietKeeps

LEMMA NothingAhead ==
  ASSUME NEW j, j.op \notin {"blockRow", "accountRow", "disable", "offboarded"}, NEW d \in Ahead(j)
  PROVE  OffboardHolds(d)
BY DEF Ahead, OffboardHolds

LEMMA RecordBlockKeeps ==
  ASSUME PeopleInv, bound' = bound, NEW p \in Processes, RecordBlock(p)
  PROVE  PeopleInv'
<1>1. job[p] \in Jobs /\ job[p].op = "blockRow" /\ Goes(p, job[p].next)
  BY PeopleFacts DEF RecordBlock
<1>2. PICK j : j = job[p].next
  OBVIOUS
<1>3. j \in {NoJob} \union Disabling
  BY <1>1, <1>2, JobTells DEF Recording
<1>4. j \in Jobs /\ j.op \in {"idle", "disable"}
  BY <1>3, NoJobIsAJob DEF Jobs, Disabling
<1>5. PICK row : row = BlockRowOf(job[p]) /\ row.what = "block"
  BY RowIs DEF BlockRowOf
<1>6. \/ blockRows' = blockRows \union {row} /\ told' = told
      \/ told' = told \union {row} /\ blockRows' = blockRows
  BY <1>5 DEF RecordBlock, BlockRowOf
<1>7. UNCHANGED <<time, mapped, blocks, ids, late, unsaid, users, asked, round, ended, edits>>
  BY DEF RecordBlock
<1>8. p = "accounts" => \A d \in Ahead(j) : d \in Ahead(job["accounts"]) \/ OffboardHolds(d)
  BY <1>1, <1>2, <1>4 DEF Ahead
<1>9. \A r \in blockRows' \union told' : r \in blockRows \union told \/ (r.what = "offboard" => Lasts(r.about, r.id))
  BY <1>5, <1>6
<1> QED BY <1>1, <1>2, <1>4, <1>5, <1>6, <1>7, <1>8, <1>9, ProcessKeeps, PeopleFacts

(* A process that has no row to write and none of the accounts' jobs ahead. *)
LEMMA PlainKeeps ==
  ASSUME PeopleInv, bound' = bound,
         UNCHANGED <<time, mapped, blocks, ids, late, unsaid, users, asked, round, blockRows, told, ended, edits>>,
         NEW p \in Processes, job[p].op # "blockRow", NEW j \in Jobs, Goes(p, j),
         j.op \in {"idle", "place", "unblockRow"}
  PROVE  PeopleInv'
<1>1. \A d \in Ahead(j) : OffboardHolds(d)
  BY NothingAhead
<1> QED BY <1>1, ProcessKeeps, PeopleFacts

LEMMA BlockKeeps ==
  ASSUME PeopleInv, bound' = bound, NEW p \in Operators, NEW s \in Subjects, NEW until \in Ends,
         Block(p, s, until)
  PROVE  PeopleInv'
<1>1. PICK j : j = [op |-> "place", subject |-> s, until |-> until]
  OBVIOUS
<1>2. j \in Jobs /\ j.op = "place"
  BY <1>1 DEF Jobs, Placing
<1>3. p \in Processes /\ Goes(p, j) /\ job[p].op # "blockRow"
  BY <1>1, PeopleFacts, NoJobIsAJob DEF Block
<1>4. UNCHANGED <<time, mapped, blocks, ids, late, unsaid, users, asked, round, blockRows, told, ended, edits>>
  BY DEF Block
<1> QED BY <1>2, <1>3, <1>4, PlainKeeps

LEMMA UnblockKeeps ==
  ASSUME PeopleInv, bound' = bound, NEW p \in Operators, NEW s \in Subjects, Unblock(p, s)
  PROVE  PeopleInv'
<1>1. PICK j : j = [op |-> "unblockRow", subject |-> s]
  OBVIOUS
<1>2. j \in Jobs /\ j.op = "unblockRow"
  BY <1>1 DEF Jobs, Lifting
<1>3. p \in Processes /\ Goes(p, j) /\ job[p].op # "blockRow"
  BY <1>1, PeopleFacts, NoJobIsAJob DEF Unblock
<1>4. UNCHANGED <<time, mapped, blocks, ids, late, unsaid, users, asked, round, blockRows, told, ended, edits>>
  BY DEF Unblock
<1> QED BY <1>2, <1>3, <1>4, PlainKeeps

LEMMA RecordUnblockKeeps ==
  ASSUME PeopleInv, bound' = bound, NEW p \in Operators, RecordUnblock(p)
  PROVE  PeopleInv'
<1>1. UNCHANGED <<time, mapped, blocks, ids, late, unsaid, users, asked, round, told, ended, edits>> /\ job[p].op = "unblockRow"
  BY DEF RecordUnblock
<1>2. p \in Processes /\ job[p] \in Jobs
  BY PeopleFacts
<1>3. PICK s \in Subjects : s = job[p].subject
  BY <1>1, <1>2, JobTells DEF Lifting
<1>4. PICK j : j = [op |-> "lift", subject |-> s]
  OBVIOUS
<1>5. PICK row : row = Row("unblock", s, 0, 0) /\ row.what = "unblock"
  BY RowIs
<1>6. CASE blockRows' = blockRows \union {row} /\ Goes(p, j)
  <2>1. j \in Jobs /\ j.op = "lift" /\ j.subject = s
    BY <1>4 DEF Jobs, Lifting
  <2>2. \A d \in Ahead(j) : OffboardHolds(d)
    BY <2>1, NothingAhead
  <2>3. \A r \in blockRows' \union told' : r \in blockRows \union told \/ (r.what = "offboard" => Lasts(r.about, r.id))
    BY <1>1, <1>5, <1>6
  <2>4. Row("unblock", j.subject, 0, 0) \in blockRows'
    BY <1>5, <1>6, <2>1
  <2> QED BY <1>1, <1>2, <1>6, <2>1, <2>2, <2>3, <2>4, ProcessKeeps, PeopleFacts
<1>7. CASE Done(p) /\ blockRows' = blockRows
  BY <1>1, <1>2, <1>7, NoJobIsAJob, PlainKeeps DEF Done
<1> QED BY <1>3, <1>4, <1>5, <1>6, <1>7 DEF RecordUnblock

LEMMA KilledKeeps ==
  ASSUME PeopleInv, bound' = bound, NEW p \in Processes, Killed(p)
  PROVE  PeopleInv'
<1>1. UNCHANGED <<time, mapped, blocks, ids, late, users, round, blockRows, told, ended, edits>> /\ Goes(p, NoJob)
  BY DEF Killed, Done
<1>2. unsaid \subseteq unsaid' /\ (job[p].op = "blockRow" => job[p].id \in unsaid') /\ asked' \subseteq asked
  BY DEF Killed
<1>3. unsaid' \subseteq Nat
  <2>1. CASE job[p].op = "blockRow"
    <3>1. job[p].id \in Nat
      BY <2>1, PeopleFacts, JobTells DEF Recording
    <3> QED BY <2>1, <3>1, PeopleFacts DEF Killed
  <2> QED BY <2>1, PeopleFacts DEF Killed
<1>4. \A d \in Ahead(NoJob) : OffboardHolds(d)
  BY NothingAhead, NoJobIsAJob
<1> QED BY <1>1, <1>2, <1>3, <1>4, NoJobIsAJob, ProcessKeeps

-----------------------------------------------------------------------------
(* A step that ends, places or replaces the block of one subject.          *)
LEMMA BlockChanges ==
  ASSUME PeopleInv, bound' = bound, UNCHANGED <<time, mapped, users, blockRows, told, edits>>,
         round' \subseteq round, asked' \subseteq asked, unsaid' \subseteq Nat, late' \subseteq Nat, Carried,
         Placement, ids' <= MaxBlocks,
         NEW s \in Subjects, NEW v, blocks' = [blocks EXCEPT ![s] = v],
         \/ v = NoBlock
         \/ v \in BlockRec /\ (v.until > time \/ v.id \in late'),
         Row("unblock", s, 0, 0) \in blockRows \/ blocks[s].until # Forever,
         NEW how, NEW by, Gone(s, how, by),
         NEW gone, gone = [id |-> blocks[s].id, subject |-> s, how |-> how, by |-> by],
         blocks[s] # NoBlock => EndOf(gone)',
         job' \in [Processes -> Jobs],
         \A q \in Processes : job'[q] = job[q] \/ job'[q].op # "lift",
         \A d \in Ahead(job'["accounts"]) : d \in Ahead(job["accounts"]) \/ OffboardHolds(d)'
  PROVE  PeopleInv'
<1>1. time \in Nat /\ time >= 1 /\ time' \in 1 .. MaxTime /\ time' \in Nat /\ time' >= time /\ mapped' \subseteq Groups
      /\ ids \in Nat
  BY PeopleFacts, Forevers
<1>2. EndIsTold'
  <2>1. ASSUME NEW x \in ended', x \notin ended PROVE EndOf(x)'
    <3>1. blocks[s] # NoBlock /\ x = gone
      BY <2>1 DEF Gone
    <3> QED BY <3>1
  <2> QED BY <2>1, EndKeeps DEF PeopleInv
<1>3. v = NoBlock \/ (v.until \in Nat /\ v.until > time) \/ v.id \in late'
  <2>1. v \in BlockRec => v.until \in Nat
    BY Forevers DEF BlockRec
  <2> QED BY <2>1
<1>4. blocks \in [Subjects -> {NoBlock} \union BlockRec]
  BY DEF PeopleInv, PeopleTypeOK, BlockRec
<1>5. blocks'[s] = v /\ (\A t \in Subjects : t # s => blocks'[t] = blocks[t])
      /\ blocks' = [t \in Subjects |-> blocks'[t]]
  BY <1>4
<1>6. RoundIsOfThePast'
  BY <1>1, <1>3, <1>5, RoundKeeps DEF PeopleInv, Carried
<1>7. Yielding /\ blockRows \subseteq blockRows'
  BY <1>5 DEF Yielding
<1>8. OffboardLasts' /\ AccountsHold' /\ LiftFollowsRow'
  BY <1>7, OffboardKept, AccountsKeep, LiftKeeps DEF PeopleInv
<1>9. users' = [u \in Users |-> users'[u]]
  BY DEF PeopleInv, PeopleTypeOK
<1>10. PeopleTypeOK'
  BY <1>1, <1>5, <1>6, <1>9, TypesKeep
<1>11. BlockIsTold'
  BY <1>1, PlacedKeeps DEF PeopleInv
<1>12. Typed
  BY PeopleFacts DEF Typed
<1> QED BY <1>2, <1>6, <1>8, <1>10, <1>11, <1>12, InvFolds

LEMMA LiftStepKeeps ==
  ASSUME PeopleInv, bound' = bound, NEW p \in Operators, Lift(p)
  PROVE  PeopleInv'
<1>1. /\ job[p].op = "lift" /\ Goes(p, NoJob)
      /\ UNCHANGED <<time, mapped, ids, late, unsaid, users, asked, round, blockRows, told, edits>>
  BY DEF Lift, Done
<1>2. p \in Processes /\ job[p] \in Jobs
  BY PeopleFacts
<1>3. PICK s \in Subjects : s = job[p].subject /\ Row("unblock", s, 0, 0) \in blockRows
  BY <1>1, <1>2, JobTells DEF PeopleInv, LiftFollowsRow, Lifting
<1>4. /\ job' \in [Processes -> Jobs] /\ job'[p] = NoJob
      /\ \A q \in Processes : q # p => job'[q] = job[q]
  BY <1>1, <1>2, NoJobIsAJob, JobMoves
<1>5. CASE blocks' = [blocks EXCEPT ![s] = NoBlock] /\ Gone(s, "lifted", 0)
  <2>0. PICK gone : gone = [id |-> blocks[s].id, subject |-> s, how |-> "lifted", by |-> 0]
    OBVIOUS
  <2>1. EndOf(gone)'
    BY <1>1, <1>3, <2>0 DEF EndOf
  <2>2. \A q \in Processes : job'[q] = job[q] \/ job'[q].op # "lift"
    BY <1>4, NoJobIsAJob
  <2>3. \A d \in Ahead(job'["accounts"]) : d \in Ahead(job["accounts"]) \/ OffboardHolds(d)'
    <3>1. CASE p = "accounts"
      BY <1>4, <3>1, NoJobIsAJob DEF Ahead, OffboardHolds
    <3>2. CASE p # "accounts"
      BY <1>4, <3>2, PeopleFacts
    <3> QED BY <3>1, <3>2
  <2>4. Carried
    BY <1>1, <1>4 DEF Carried
  <2>5. Placement /\ ids' <= MaxBlocks /\ unsaid' \subseteq Nat /\ late' \subseteq Nat
    BY <1>1, PeopleFacts DEF Placement
  <2> QED BY <1>1, <1>3, <1>4, <1>5, <2>0, <2>1, <2>2, <2>3, <2>4, <2>5, BlockChanges
<1>6. CASE UNCHANGED <<blocks, ended>>
  BY <1>1, <1>2, <1>6, NoJobIsAJob, PlainKeeps
<1> QED BY <1>3, <1>5, <1>6 DEF Lift

(* The transaction that places a block, and where its process goes on.     *)
LEMMA StoresKeeps ==
  ASSUME PeopleInv, bound' = bound, UNCHANGED <<time, mapped, users, round, blockRows, told, edits>>,
         asked' \subseteq asked,
         NEW p \in Processes, job[p].op # "blockRow", NEW s \in Subjects,
         NEW until \in Ends \union {Forever}, Stores(s, until),
         NEW j \in Jobs, Goes(p, j), j.op # "lift",
         \/ j.op = "blockRow" /\ BlockRowOf(j) = Row("block", s, ids + 1, blocks[s].id) /\ unsaid' = unsaid
         \/ unsaid' = unsaid \union {ids + 1},
         p = "accounts" => \A d \in Ahead(j) : OffboardHolds(d)'
  PROVE  PeopleInv'
<1>1. /\ CanPlace(s) /\ ids < MaxBlocks /\ Placed(s, until) /\ ids' = ids + 1
      /\ late' = IF until > time THEN late ELSE late \union {ids + 1}
      /\ Gone(s, "replaced", ids + 1)
  BY DEF Stores
<1>2. ids \in Nat /\ MaxBlocks \in Nat /\ ids + 1 \in 1 .. MaxBlocks /\ ids' <= MaxBlocks /\ ids + 1 \in Nat
      /\ time \in Nat /\ time <= MaxTime
  BY <1>1, PeopleFacts
<1>3. PICK v : v = [id |-> ids + 1, until |-> until]
  OBVIOUS
<1>4. v \in BlockRec /\ v.until = until /\ v.id = ids + 1 /\ blocks' = [blocks EXCEPT ![s] = v]
  BY <1>1, <1>2, <1>3 DEF Placed, BlockRec
<1>5. late \subseteq late' /\ late' \subseteq Nat /\ (v.until > time \/ v.id \in late')
  BY <1>1, <1>2, <1>4, PeopleFacts
<1>6. unsaid \subseteq unsaid' /\ unsaid' \subseteq Nat
  BY <1>2, PeopleFacts
<1>7. /\ job' \in [Processes -> Jobs] /\ job'[p] = j
      /\ \A q \in Processes : q # p => job'[q] = job[q]
  BY JobMoves
<1>8. blocks[s].until # Forever
  BY <1>1, <1>2, BlocksAre, Forevers DEF CanPlace, Blocked, ActiveAt
<1>9. Carried
  BY <1>5, <1>6, <1>7 DEF Carried
<1>10. PICK row : row = Row("block", s, ids + 1, blocks[s].id)
  OBVIOUS
<1>11. row.what = "block" /\ row.id = ids + 1 /\ row.replaces = blocks[s].id
  BY <1>10, RowIs
<1>12. row \in Said' \/ ids + 1 \in unsaid'
  <2>1. CASE j.op = "blockRow" /\ BlockRowOf(j) = row
    <3>1. row \in Unrecorded'
      BY <1>7, <2>1 DEF Unrecorded, BlockRowOf, Processes
    <3> QED BY <3>1 DEF Said
  <2> QED BY <1>10, <2>1
<1>13. Placement
  BY <1>1, <1>11, <1>12 DEF Placement
<1>14. PICK gone : gone = [id |-> blocks[s].id, subject |-> s, how |-> "replaced", by |-> ids + 1]
  OBVIOUS
<1>15. EndOf(gone)'
  <2>1. gone.how = "replaced" /\ gone.by = ids + 1 /\ gone.id = blocks[s].id
    BY <1>14
  <2> QED BY <1>11, <1>12, <2>1 DEF EndOf
<1>16. \A q \in Processes : job'[q] = job[q] \/ job'[q].op # "lift"
  BY <1>7
<1>17. \A d \in Ahead(job'["accounts"]) : d \in Ahead(job["accounts"]) \/ OffboardHolds(d)'
  BY <1>7, PeopleFacts
<1> QED BY <1>1, <1>2, <1>4, <1>5, <1>6, <1>7, <1>8, <1>9, <1>13, <1>14, <1>15, <1>16, <1>17, BlockChanges

LEMMA PlaceBlockKeeps ==
  ASSUME PeopleInv, bound' = bound, NEW p \in Operators, PlaceBlock(p)
  PROVE  PeopleInv'
<1>1. /\ job[p].op = "place" /\ Place(p, job[p].subject, job[p].until, NoJob, NoJob)
      /\ UNCHANGED <<time, mapped, unsaid, users, asked, round, blockRows, told, edits>>
  BY DEF PlaceBlock
<1>2. p \in Processes /\ job[p] \in Jobs
  BY PeopleFacts
<1>3. PICK s \in Subjects, until \in Ends : Place(p, s, until, NoJob, NoJob)
  BY <1>1, <1>2, JobTells DEF Placing
<1>4. CASE ~CanPlace(s) /\ Goes(p, NoJob) /\ UNCHANGED <<blocks, ids, late, ended>>
  BY <1>1, <1>2, <1>4, NoJobIsAJob, PlainKeeps
<1>5. CASE /\ Stores(s, until)
           /\ Goes(p, [op |-> "blockRow", subject |-> s, id |-> ids + 1, replaces |-> Replaced(s), next |-> NoJob])
  <2>1. PICK j : j = [op |-> "blockRow", subject |-> s, id |-> ids + 1, replaces |-> Replaced(s), next |-> NoJob]
    OBVIOUS
  <2>2. Replaced(s) = blocks[s].id /\ blocks[s].id \in Nat /\ ids + 1 \in Nat
    <3>1. blocks[s].id \in Nat
      BY BlocksAre
    <3>2. ids \in Nat
      BY PeopleFacts
    <3> QED BY <3>1, <3>2 DEF Replaced
  <2>3. j \in Jobs /\ j.op = "blockRow" /\ BlockRowOf(j) = Row("block", s, ids + 1, blocks[s].id) /\ j.next = NoJob
    BY <2>1, <2>2 DEF Jobs, Recording, BlockRowOf
  <2>4. \A d \in Ahead(j) : OffboardHolds(d)'
    BY <2>3, NoJobIsAJob DEF Ahead, OffboardHolds
  <2>5. Goes(p, j)
    BY <1>5, <2>1
  <2> QED BY <1>1, <1>2, <1>5, <2>3, <2>4, <2>5, StoresKeeps
<1> QED BY <1>3, <1>4, <1>5 DEF Place

-----------------------------------------------------------------------------
(* The round, the clock and the mapping.                                   *)

(* A step that touches no block, no account and no process.                *)
LEMMA RoundOnly ==
  ASSUME PeopleInv, bound' = bound, UNCHANGED <<time, mapped, blocks, ids, late, unsaid, users, asked, job, told, ended, edits>>,
         NEW row, row.what # "offboard", blockRows' \in {blockRows, blockRows \union {row}}, RoundIsOfThePast'
  PROVE  PeopleInv'
<1>1. time' \in time .. MaxTime /\ mapped' \subseteq Groups
  BY PeopleFacts, Forevers
<1>2. Carried
  BY DEF Carried
<1>3. Typed
  BY PeopleFacts DEF Typed
<1> QED BY <1>1, <1>2, <1>3, QuietKeeps

LEMMA SomeRow == \E row : row.what # "offboard"
<1>1. Row("block", 0, 0, 0).what # "offboard"
  BY RowIs
<1> QED BY <1>1

LEMMA BeginExpiryKeeps ==
  ASSUME PeopleInv, bound' = bound, BeginExpiry
  PROVE  PeopleInv'
<1>1. UNCHANGED <<time, mapped, blocks, ids, late, unsaid, users, asked, job, blockRows, told, ended, edits>>
  BY DEF BeginExpiry
<1>2. RoundIsOfThePast'
  <2> SUFFICES ASSUME NEW x \in round' PROVE PastEntry(x)'
    BY DEF RoundIsOfThePast, PastEntry, NoBlock
  <2>1. PICK s \in Subjects : /\ blocks[s] # NoBlock /\ ~Blocked(s)
                              /\ x = [subject |-> s, block |-> blocks[s], recorded |-> FALSE]
    BY DEF BeginExpiry
  <2>2. blocks[s] \in [id : Nat, until : Nat]
    <3>1. blocks[s].id \in Nat /\ blocks[s].until \in Nat
      BY BlocksAre
    <3>2. [id |-> blocks[s].id, until |-> blocks[s].until] \in [id : Nat, until : Nat]
      BY <3>1
    <3>3. blocks[s] = [id |-> blocks[s].id, until |-> blocks[s].until]
      BY BlocksAre
    <3> QED BY <3>2, <3>3, Zenon
  <2>3. /\ x \in [subject : Subjects, block : [id : Nat, until : Nat], recorded : BOOLEAN]
        /\ x.subject = s /\ x.block = blocks[s] /\ ~x.recorded
    BY <2>1, <2>2
  <2>4. x.block.until <= time
    BY <2>1, <2>2, <2>3, PeopleFacts DEF Blocked, ActiveAt
  <2> QED BY <1>1, <2>1, <2>3, <2>4 DEF PastEntry
<1> QED BY <1>1, <1>2, RoundOnly, SomeRow

LEMMA RecordExpiryKeeps ==
  ASSUME PeopleInv, bound' = bound, NEW x \in round, RecordExpiry(x)
  PROVE  PeopleInv'
<1>1. UNCHANGED <<time, mapped, blocks, ids, late, unsaid, users, asked, job, told, ended, edits>>
  BY DEF RecordExpiry
<1>2. PICK row : row = Row("expired", x.subject, x.block.id, 0) /\ row.what # "offboard"
  BY RowIs
<1>3. blockRows' \in {blockRows, blockRows \union {row}}
  BY <1>2 DEF RecordExpiry
<1>4. RoundIsOfThePast'
  <2> SUFFICES ASSUME NEW y \in round' PROVE PastEntry(y)'
    BY DEF RoundIsOfThePast, PastEntry, NoBlock
  <2>1. CASE y \in round
    <3>1. PastEntry(y)
      BY <2>1 DEF PeopleInv, RoundIsOfThePast, PastEntry
    <3> QED BY <1>1, <1>3, <3>1 DEF PastEntry
  <2>2. CASE y \notin round
    <3>1. /\ blockRows' = blockRows \union {Row("expired", x.subject, x.block.id, 0)}
          /\ y = [x EXCEPT !.recorded = TRUE]
      BY <2>2 DEF RecordExpiry
    <3>2. PastEntry(x)
      BY DEF PeopleInv, RoundIsOfThePast, PastEntry
    <3>3. /\ y \in [subject : Subjects, block : [id : Nat, until : Nat], recorded : BOOLEAN]
          /\ y.subject = x.subject /\ y.block = x.block
      BY <3>1, <3>2 DEF PastEntry
    <3>4. Row("expired", y.subject, y.block.id, 0) \in blockRows'
      BY <3>1, <3>3
    <3> QED BY <1>1, <3>2, <3>3, <3>4 DEF PastEntry
  <2> QED BY <2>1, <2>2
<1> QED BY <1>1, <1>2, <1>3, <1>4, RoundOnly

LEMMA RemoveExpiredKeeps ==
  ASSUME PeopleInv, bound' = bound, NEW x \in round, RemoveExpired(x)
  PROVE  PeopleInv'
<1>1. /\ x.recorded /\ round' = round \ {x}
      /\ UNCHANGED <<time, mapped, ids, late, unsaid, users, asked, job, blockRows, told, edits>>
  BY DEF RemoveExpired
<1>2. PastEntry(x)
  BY DEF PeopleInv, RoundIsOfThePast, PastEntry
<1>3. Carried
  BY <1>1 DEF Carried
<1>5. CASE StillThatBlock(x) /\ Gone(x.subject, "expired", 0) /\ blocks' = [blocks EXCEPT ![x.subject] = NoBlock]
  <2>1. PICK s \in Subjects : s = x.subject
    BY <1>2 DEF PastEntry
  <2>2. blocks[s] # NoBlock /\ blocks[s].until = x.block.until /\ blocks[s].until <= time
    BY <1>5, <2>1 DEF StillThatBlock
  <2>3. blocks[s] = x.block \/ blocks[s].id \in late
    BY <1>2, <2>1, <2>2 DEF PastEntry
  <2>4. PICK gone : gone = [id |-> blocks[s].id, subject |-> s, how |-> "expired", by |-> 0]
    OBVIOUS
  <2>5. EndOf(gone)'
    <3>1. PICK row : row = Row("expired", s, x.block.id, 0)
      OBVIOUS
    <3>2. row \in blockRows'
      BY <1>1, <1>2, <2>1, <3>1 DEF PastEntry
    <3>3. row.what = "expired" /\ row.about = s /\ row.id = x.block.id
      BY <3>1, RowIs
    <3>4. gone.how = "expired" /\ gone.subject = s /\ gone.id = blocks[s].id
      BY <2>4
    <3> QED BY <1>1, <2>3, <3>2, <3>3, <3>4 DEF EndOf
  <2>6. blocks[s].until # Forever
    <3>1. time \in Nat /\ time <= MaxTime
      BY PeopleFacts
    <3> QED BY <2>2, <3>1, Forevers
  <2>7. Placement /\ ids' <= MaxBlocks /\ unsaid' \subseteq Nat /\ late' \subseteq Nat /\ job' \in [Processes -> Jobs]
    BY <1>1, PeopleFacts DEF Placement
  <2> QED BY <1>1, <1>3, <1>5, <2>1, <2>4, <2>5, <2>6, <2>7, BlockChanges
<1>6. CASE UNCHANGED <<blocks, ended>>
  <2>1. time' \in time .. MaxTime
    BY <1>1, PeopleFacts, Forevers
  <2>2. RoundIsOfThePast'
    BY <1>1, <1>3, <1>6, <2>1, RoundSame
  <2> QED BY <1>1, <1>6, <2>2, RoundOnly, SomeRow
<1> QED BY <1>5, <1>6 DEF RemoveExpired

LEMMA RoundCutKeeps ==
  ASSUME PeopleInv, bound' = bound, RoundCut
  PROVE  PeopleInv'
<1>1. round' = {} /\ UNCHANGED <<time, mapped, blocks, ids, late, unsaid, users, asked, job, blockRows, told, ended, edits>>
  BY DEF RoundCut
<1>2. RoundIsOfThePast'
  BY <1>1 DEF RoundIsOfThePast
<1> QED BY <1>1, <1>2, RoundOnly, SomeRow

(* The clock, the mapping and what is asked.                               *)
LEMMA WorldMoves ==
  ASSUME PeopleInv, bound' = bound, UNCHANGED <<blocks, ids, late, unsaid, users, job, round, blockRows, told, ended>>,
         time' \in time .. MaxTime, mapped' \subseteq Groups, asked' \subseteq Waiting, edits' \in edits .. MaxEdits
  PROVE  PeopleInv'
<1>1. Carried
  BY DEF Carried
<1>2. Typed
  BY PeopleFacts DEF Typed
<1>3. RoundIsOfThePast'
  BY <1>1, RoundSame
<1> QED BY <1>1, <1>2, <1>3, QuietKeeps

LEMMA PassingTimeKeeps ==
  ASSUME PeopleInv, bound' = bound, PassingTime
  PROVE  PeopleInv'
<1>1. time < MaxTime /\ time' = time + 1
      /\ UNCHANGED <<mapped, blocks, ids, late, unsaid, users, asked, job, round, blockRows, told, ended, edits>>
  BY DEF PassingTime
<1>2. time' \in time .. MaxTime /\ edits' \in edits .. MaxEdits /\ mapped' \subseteq Groups /\ asked' \subseteq Waiting
  BY <1>1, PeopleFacts, Forevers
<1> QED BY <1>1, <1>2, WorldMoves

LEMMA RemapKeeps ==
  ASSUME PeopleInv, bound' = bound, NEW g \in SUBSET Groups, Remap(g)
  PROVE  PeopleInv'
<1>1. edits < MaxEdits /\ edits' = edits + 1 /\ mapped' = g
      /\ UNCHANGED <<time, blocks, ids, late, unsaid, users, asked, job, round, blockRows, told, ended>>
  BY DEF Remap
<1>2. time' \in time .. MaxTime /\ edits' \in edits .. MaxEdits /\ mapped' \subseteq Groups /\ asked' \subseteq Waiting
  BY <1>1, PeopleFacts, Forevers
<1> QED BY <1>1, <1>2, WorldMoves

LEMMA AskKeeps ==
  ASSUME PeopleInv, bound' = bound, NEW peer \in Peers, Ask(peer)
  PROVE  PeopleInv'
<1>1. edits < MaxEdits /\ edits' = edits + 1 /\ asked' = asked \union {[by |-> peer, mapped |-> mapped]}
      /\ UNCHANGED <<time, mapped, blocks, ids, late, unsaid, users, job, round, blockRows, told, ended>>
  BY DEF Ask
<1>2. time' \in time .. MaxTime /\ edits' \in edits .. MaxEdits /\ mapped' \subseteq Groups
  BY <1>1, PeopleFacts, Forevers
<1>3. asked' \subseteq Waiting
  BY <1>1, PeopleFacts DEF Waiting
<1> QED BY <1>1, <1>2, <1>3, WorldMoves

-----------------------------------------------------------------------------
(* The accounts backend.                                                   *)

LEMMA AskedIs ==
  ASSUME PeopleInv, NEW q \in asked
  PROVE  q.by \in Peers /\ q.mapped \in SUBSET Groups
BY PeopleFacts DEF Waiting

LEMMA UserIs ==
  ASSUME PeopleInv, NEW u \in Users
  PROVE  users[u] \in AccountRec /\ users[u].groups \subseteq Groups /\ users[u].disabled \in BOOLEAN
<1>1. users[u] \in {Absent} \union AccountRec
  BY DEF PeopleInv, PeopleTypeOK, AccountRec
<1>2. Absent \in AccountRec
  BY PeopleFacts DEF Absent, AccountRec
<1>3. users[u] \in AccountRec
  BY <1>1, <1>2
<1> QED BY <1>3 DEF AccountRec

(* A change of one account, and what the backend goes on with.             *)
LEMMA AccountChanges ==
  ASSUME PeopleInv, bound' = bound, UNCHANGED <<time, mapped, blocks, ids, late, unsaid, round, blockRows, told, ended, edits>>,
         asked' \subseteq asked, NEW u \in Users, NEW a, users' = [users EXCEPT ![u] = a],
         a = Absent \/ (a.exists /\ a \in AccountRec),
         NEW j \in Accounting, job["accounts"].op # "blockRow", Goes("accounts", j),
         j.next.op = "offboarded" => Lasts(j.next.subject, j.next.placed)
  PROVE  PeopleInv'
<1>1. j \in Jobs /\ j.op = "accountRow" /\ j.next.op \in {"idle", "offboarded"}
  BY NoJobIsAJob DEF Jobs, Accounting, Offboarded
<1>2. /\ job' \in [Processes -> Jobs] /\ job'["accounts"] = j
      /\ \A q \in Processes : q # "accounts" => job'[q] = job[q]
  BY <1>1, JobMoves, PeopleFacts
<1>3. Carried
  BY <1>2 DEF Carried
<1>4. Typed
  BY <1>2, PeopleFacts DEF Typed
<1>5. time' \in time .. MaxTime /\ time' \in 1 .. MaxTime /\ mapped' \subseteq Groups /\ ids \in Nat /\ ids' <= MaxBlocks
      /\ Placement
  BY PeopleFacts, Forevers DEF Placement
<1>6. EndIsTold' /\ BlockIsTold'
  BY <1>3, <1>5, EndKeeps, PlacedKeeps DEF PeopleInv
<1>7. LiftFollowsRow'
  BY <1>1, <1>2, LiftKeeps DEF PeopleInv
<1>8. Yielding
  BY DEF Yielding
<1>9. OffboardLasts'
  BY <1>8, OffboardKept DEF PeopleInv
<1>10. AccountsHold'
  <2>1. users \in [Users -> {Absent} \union AccountRec]
    BY DEF PeopleInv, PeopleTypeOK, AccountRec
  <2>2. \A w \in Users : users'[w].exists \/ users'[w] = Absent
    BY <2>1 DEF PeopleInv, AccountsHold
  <2>3. ASSUME NEW d \in Ahead(j) PROVE OffboardHolds(d)'
    <3>1. d = j \/ d = j.next
      BY <1>1, <2>3 DEF Ahead
    <3>2. d.op \in {"accountRow", "idle"} \/ (d.op = "offboarded" /\ Lasts(d.subject, d.placed))
      BY <1>1, <3>1
    <3>3. CASE d.op \in {"accountRow", "idle"}
      BY <3>3 DEF OffboardHolds
    <3>4. CASE d.op = "offboarded" /\ Lasts(d.subject, d.placed)
      <4>1. Lasts(d.subject, d.placed)'
        BY <1>8, <3>4, LastsStay
      <4> QED BY <3>4, <4>1 DEF OffboardHolds
    <3> QED BY <3>2, <3>3, <3>4
  <2> QED BY <1>2, <2>2, <2>3 DEF AccountsHold, Absent
<1>11. RoundIsOfThePast'
  BY <1>3, <1>5, RoundSame
<1>12. users = [v \in Users |-> users[v]] /\ blocks = [s \in Subjects |-> blocks[s]]
  BY DEF PeopleInv, PeopleTypeOK
<1>13. PeopleTypeOK'
  BY <1>5, <1>11, <1>12, TypesKeep
<1> QED BY <1>4, <1>6, <1>7, <1>9, <1>10, <1>11, <1>13, InvFolds

LEMMA WriteKeeps ==
  ASSUME PeopleInv, bound' = bound, NEW q \in asked, Admitted(q), NEW u \in Users, NEW a,
         a = Absent \/ (a.exists /\ a \in AccountRec),
         NEW what \in {"add", "groups", "disabled", "password", "delete"}, Write(q, u, a, what)
  PROVE  PeopleInv'
<1>1. PICK j : j = [op |-> "accountRow", by |-> q.by, mapped |-> q.mapped, what |-> what, next |-> NoJob]
  OBVIOUS
<1>2. j \in Accounting /\ j.next = NoJob
  BY <1>1, AskedIs DEF Accounting
<1>3. /\ Goes("accounts", j) /\ users' = [users EXCEPT ![u] = a]
      /\ UNCHANGED <<time, mapped, blocks, ids, late, unsaid, round, blockRows, told, ended, edits>>
  BY <1>1 DEF Write
<1>4. asked' \subseteq asked /\ job["accounts"].op # "blockRow"
  BY NoJobIsAJob DEF Admitted
<1> QED BY <1>2, <1>3, <1>4, AccountChanges, NoJobIsAJob

LEMMA EditsKeep ==
  ASSUME PeopleInv, bound' = bound, NEW q \in asked, NEW u \in Users,
         \/ \E g \in SUBSET Groups : SetAccountGroups(q, u, g) \/ AddAccount(q, u, g)
         \/ \E d \in BOOLEAN : SetAccountDisabled(q, u, d)
         \/ ResetAccountPassword(q, u) \/ DeleteAccount(q, u)
  PROVE  PeopleInv'
<1>0. users[u] \in AccountRec /\ edits \in 0 .. MaxEdits
  BY UserIs, PeopleFacts
<1>1. ASSUME NEW g \in SUBSET Groups, SetAccountGroups(q, u, g) PROVE PeopleInv'
  <2>1. PICK a : a = [users[u] EXCEPT !.groups = g]
    OBVIOUS
  <2>2. Admitted(q) /\ Write(q, u, a, "groups") /\ users[u].exists
    BY <1>1, <2>1 DEF SetAccountGroups
  <2>3. a \in AccountRec /\ a.exists
    BY <1>0, <2>1, <2>2 DEF AccountRec
  <2> QED BY <2>2, <2>3, WriteKeeps
<1>2. ASSUME NEW g \in SUBSET Groups, AddAccount(q, u, g) PROVE PeopleInv'
  <2>1. PICK a : a = [exists |-> TRUE, groups |-> g, disabled |-> FALSE, password |-> edits]
    OBVIOUS
  <2>2. Admitted(q) /\ Write(q, u, a, "add")
    BY <1>2, <2>1 DEF AddAccount
  <2>3. a \in AccountRec /\ a.exists
    BY <1>0, <2>1 DEF AccountRec
  <2> QED BY <2>2, <2>3, WriteKeeps
<1>3. ASSUME NEW d \in BOOLEAN, SetAccountDisabled(q, u, d) PROVE PeopleInv'
  <2>1. PICK a : a = [users[u] EXCEPT !.disabled = d]
    OBVIOUS
  <2>2. Admitted(q) /\ Write(q, u, a, "disabled") /\ users[u].exists
    BY <1>3, <2>1 DEF SetAccountDisabled
  <2>3. a \in AccountRec /\ a.exists
    BY <1>0, <2>1, <2>2 DEF AccountRec
  <2> QED BY <2>2, <2>3, WriteKeeps
<1>4. ASSUME ResetAccountPassword(q, u) PROVE PeopleInv'
  <2>1. PICK a : a = [users[u] EXCEPT !.password = edits]
    OBVIOUS
  <2>2. Admitted(q) /\ Write(q, u, a, "password") /\ users[u].exists
    BY <1>4, <2>1 DEF ResetAccountPassword
  <2>3. a \in AccountRec /\ a.exists
    BY <1>0, <2>1, <2>2 DEF AccountRec
  <2> QED BY <2>2, <2>3, WriteKeeps
<1>5. ASSUME DeleteAccount(q, u) PROVE PeopleInv'
  BY <1>5, WriteKeeps DEF DeleteAccount
<1> QED BY <1>1, <1>2, <1>3, <1>4, <1>5

LEMMA RecordAccountKeeps ==
  ASSUME PeopleInv, bound' = bound, RecordAccount
  PROVE  PeopleInv'
<1>1. /\ job["accounts"].op = "accountRow" /\ Goes("accounts", job["accounts"].next)
      /\ UNCHANGED <<time, mapped, blocks, ids, late, unsaid, users, asked, round, ended, edits>>
  BY DEF RecordAccount
<1>2. "accounts" \in Processes /\ job["accounts"] \in Jobs /\ unsaid \subseteq Nat
  BY PeopleFacts
<1>3. PICK j : j = job["accounts"].next
  OBVIOUS
<1>4. j \in {NoJob} \union Offboarded /\ job["accounts"].what # "offboard"
  BY <1>1, <1>2, <1>3, JobTells DEF Accounting
<1>5. j \in Jobs /\ j.op \in {"idle", "offboarded"}
  BY <1>4, NoJobIsAJob DEF Jobs, Offboarded
<1>6. PICK row : row = Row(job["accounts"].what, "account", 0, 0) /\ row.what # "offboard"
  BY <1>4, RowIs
<1>7. \/ blockRows' = blockRows \union {row} /\ told' = told
      \/ told' = told \union {row} /\ blockRows' = blockRows
  BY <1>6 DEF RecordAccount
<1>8. \A d \in Ahead(j) : d \in Ahead(job["accounts"])
  BY <1>1, <1>3, <1>5 DEF Ahead
<1>9. \A r \in blockRows' \union told' : r \in blockRows \union told \/ (r.what = "offboard" => Lasts(r.about, r.id))
  BY <1>6, <1>7
<1> QED BY <1>1, <1>2, <1>3, <1>5, <1>7, <1>8, <1>9, ProcessKeeps

LEMMA OffboardAnswerKeeps ==
  ASSUME PeopleInv, bound' = bound, OffboardAnswer
  PROVE  PeopleInv'
<1>1. /\ job["accounts"].op = "offboarded" /\ Goes("accounts", NoJob)
      /\ UNCHANGED <<time, mapped, blocks, ids, late, unsaid, users, asked, round, ended, edits>>
  BY DEF OffboardAnswer, Done
<1>2. "accounts" \in Processes /\ unsaid \subseteq Nat
  BY PeopleFacts
<1>3. PICK s, i : s = job["accounts"].subject /\ i = job["accounts"].placed
  OBVIOUS
<1>4. Lasts(s, i)
  BY <1>1, <1>3 DEF PeopleInv, AccountsHold, Ahead, OffboardHolds
<1>5. PICK row : row = Row("offboard", s, i, 0) /\ row.about = s /\ row.id = i
  BY RowIs
<1>6. \/ blockRows' = blockRows \union {row} /\ told' = told
      \/ told' = told \union {row} /\ blockRows' = blockRows
  BY <1>3, <1>5 DEF OffboardAnswer
<1>7. \A r \in blockRows' \union told' : r \in blockRows \union told \/ (r.what = "offboard" => Lasts(r.about, r.id))
  BY <1>4, <1>5, <1>6
<1>8. \A d \in Ahead(NoJob) : OffboardHolds(d)
  BY NothingAhead, NoJobIsAJob
<1> QED BY <1>1, <1>2, <1>6, <1>7, <1>8, NoJobIsAJob, ProcessKeeps

(* What an offboard that was admitted goes on with.                        *)
LEMMA DisableIs ==
  ASSUME PeopleInv, NEW q \in asked, NEW u \in Users, NEW s \in SomeSubject, NEW i \in Nat,
         InReach(q, users[u]), users[u].exists
  PROVE  /\ Disable(q, u, s, i) \in Disabling /\ Disable(q, u, s, i).op = "disable"
         /\ Disable(q, u, s, i).by = q.by /\ Disable(q, u, s, i).mapped = q.mapped
         /\ Disable(q, u, s, i).user = u /\ Disable(q, u, s, i).subject = s /\ Disable(q, u, s, i).placed = i
         /\ q.by # "root" => users[u].groups \subseteq q.mapped
<1>1. users[u].disabled \in BOOLEAN /\ q.by \in Peers /\ q.mapped \in SUBSET Groups
  BY UserIs, AskedIs
<1>2. q.by # "root" => users[u].groups \subseteq q.mapped
  BY DEF InReach
<1> QED BY <1>1, <1>2 DEF Disable, Disabling

LEMMA HeldKeeps ==
  ASSUME PeopleInv, bound' = bound, NEW q \in asked, NEW u \in Users, NEW s \in SomeSubject, Admitted(q),
         InReach(q, users[u]), users[u].exists, Goes("accounts", Disable(q, u, s, 0)),
         UNCHANGED <<time, mapped, blocks, ids, late, unsaid, users, round, blockRows, told, ended, edits>>
  PROVE  PeopleInv'
<1>1. PICK j : j = Disable(q, u, s, 0)
  OBVIOUS
<1>2. /\ j \in Disabling /\ j.op = "disable" /\ j.by = q.by /\ j.mapped = q.mapped /\ j.user = u /\ j.placed = 0
      /\ q.by # "root" => users[u].groups \subseteq q.mapped
  BY <1>1, DisableIs
<1>3. j \in Jobs
  BY <1>2 DEF Jobs
<1>4. \A d \in Ahead(j) : OffboardHolds(d)
  BY <1>2 DEF Ahead, OffboardHolds, Lasts
<1>5. "accounts" \in Processes /\ unsaid \subseteq Nat /\ asked' \subseteq asked /\ job["accounts"].op # "blockRow"
  BY PeopleFacts, NoJobIsAJob DEF Admitted
<1> QED BY <1>1, <1>2, <1>3, <1>4, <1>5, ProcessKeeps

LEMMA OffboardWithoutKeeps ==
  ASSUME PeopleInv, bound' = bound, NEW q \in asked, NEW u \in Users, OffboardWithoutSubject(q, u)
  PROVE  PeopleInv'
<1>1. "" \in SomeSubject
  BY DEF SomeSubject
<1> QED BY <1>1, HeldKeeps DEF OffboardWithoutSubject

LEMMA OffboardKeeps ==
  ASSUME PeopleInv, bound' = bound, NEW q \in asked, NEW u \in Users, NEW s \in Subjects, Offboard(q, u, s)
  PROVE  PeopleInv'
<1>1. /\ Admitted(q) /\ users[u].exists /\ InReach(q, users[u])
      /\ UNCHANGED <<time, mapped, users, round, blockRows, told, edits>>
  BY DEF Offboard
<1>2. /\ "accounts" \in Processes /\ asked' \subseteq asked /\ job["accounts"].op # "blockRow"
      /\ s \in SomeSubject /\ ids \in Nat /\ ids + 1 \in Nat
  <2>1. asked' \subseteq asked /\ job["accounts"].op # "blockRow"
    BY <1>1, NoJobIsAJob DEF Admitted
  <2>2. ids \in Nat /\ "accounts" \in Processes
    BY PeopleFacts
  <2>3. s \in SomeSubject
    BY DEF SomeSubject
  <2> QED BY <2>1, <2>2, <2>3
<1>3. CASE ~CanPlace(s) /\ Goes("accounts", Disable(q, u, s, 0)) /\ UNCHANGED <<blocks, ids, late, ended, unsaid>>
  BY <1>1, <1>2, <1>3, HeldKeeps
<1>4. CASE /\ Stores(s, Forever) /\ unsaid' = unsaid
           /\ Goes("accounts", [op |-> "blockRow", subject |-> s, id |-> ids + 1,
                                replaces |-> Replaced(s), next |-> Disable(q, u, s, ids + 1)])
  <2>0. PICK n \in Nat : n = ids + 1
    BY <1>2
  <2>1. PICK next : next = Disable(q, u, s, n)
    OBVIOUS
  <2>2. /\ next \in Disabling /\ next.op = "disable" /\ next.by = q.by /\ next.mapped = q.mapped
        /\ next.user = u /\ next.subject = s /\ next.placed = n
        /\ q.by # "root" => users[u].groups \subseteq q.mapped
    BY <1>1, <1>2, <2>0, <2>1, DisableIs
  <2>3. PICK j : j = [op |-> "blockRow", subject |-> s, id |-> ids + 1, replaces |-> Replaced(s), next |-> next]
    OBVIOUS
  <2>4. Replaced(s) = blocks[s].id /\ blocks[s].id \in Nat
    BY BlocksAre DEF Replaced
  <2>5. j \in Jobs /\ j.op = "blockRow" /\ BlockRowOf(j) = Row("block", s, ids + 1, blocks[s].id) /\ j.next = next
    BY <1>2, <2>2, <2>3, <2>4 DEF Jobs, Recording, BlockRowOf
  <2>6. blocks'[s] = [id |-> n, until |-> Forever]
    BY <1>4, <2>0 DEF Stores, Placed, PeopleInv, PeopleTypeOK
  <2>7. Lasts(s, n)'
    BY <2>6 DEF Lasts, Forever
  <2>8. OffboardHolds(next)'
    BY <1>1, <2>2, <2>7 DEF OffboardHolds
  <2>9. \A d \in Ahead(j) : OffboardHolds(d)'
    BY <2>5, <2>8 DEF Ahead, OffboardHolds
  <2>10. Goes("accounts", j)
    BY <1>4, <2>0, <2>1, <2>3
  <2> QED BY <1>1, <1>2, <1>4, <2>5, <2>9, <2>10, StoresKeeps
<1>5. CASE Stores(s, Forever) /\ unsaid' = unsaid \union {ids + 1} /\ Goes("accounts", NoJob)
  <2>1. \A d \in Ahead(NoJob) : OffboardHolds(d)'
    BY NoJobIsAJob DEF Ahead, OffboardHolds
  <2> QED BY <1>1, <1>2, <1>5, <2>1, NoJobIsAJob, StoresKeeps
<1> QED BY <1>3, <1>4, <1>5 DEF Offboard, Place, Done

LEMMA OffboardDisableKeeps ==
  ASSUME PeopleInv, bound' = bound, OffboardDisable
  PROVE  PeopleInv'
<1>1. job["accounts"].op = "disable"
      /\ UNCHANGED <<time, mapped, blocks, ids, late, unsaid, asked, round, blockRows, told, ended, edits>>
  BY DEF OffboardDisable
<1>2. "accounts" \in Processes /\ job["accounts"] \in Jobs /\ unsaid \subseteq Nat
  BY PeopleFacts
<1>3. PICK j \in Disabling : j = job["accounts"]
  BY <1>1, <1>2, JobTells
<1>4. OffboardHolds(j)
  BY <1>3 DEF PeopleInv, AccountsHold, Ahead
<1>5. PICK done : done = [op |-> "offboarded", user |-> j.user, subject |-> j.subject, placed |-> j.placed]
  OBVIOUS
<1>6. /\ done \in Offboarded /\ done.op = "offboarded" /\ done.subject = j.subject /\ done.placed = j.placed
      /\ j.user \in Users /\ j.by \in Peers /\ j.mapped \in SUBSET Groups
  BY <1>5 DEF Offboarded, Disabling
<1>7. done \in Jobs /\ Lasts(done.subject, done.placed) /\ users[j.user].exists
  BY <1>1, <1>3, <1>4, <1>6 DEF Jobs, OffboardHolds
<1>8. CASE /\ users' = [users EXCEPT ![j.user].disabled = TRUE]
           /\ Goes("accounts", [op |-> "accountRow", by |-> j.by, mapped |-> j.mapped, what |-> "disabled", next |-> done])
  <2>1. PICK a : a = [users[j.user] EXCEPT !.disabled = TRUE]
    OBVIOUS
  <2>2. PICK k : k = [op |-> "accountRow", by |-> j.by, mapped |-> j.mapped, what |-> "disabled", next |-> done]
    OBVIOUS
  <2>3. a \in AccountRec /\ a.exists
    BY <1>6, <1>7, <2>1, UserIs DEF AccountRec
  <2>4. users' = [users EXCEPT ![j.user] = a] /\ Goes("accounts", k)
    BY <1>8, <2>1, <2>2
  <2>5. k \in Accounting /\ k.next = done
    BY <1>6, <2>2 DEF Accounting
  <2>6. job["accounts"].op # "blockRow"
    BY <1>1
  <2> QED BY <1>1, <1>6, <1>7, <2>3, <2>4, <2>5, <2>6, AccountChanges
<1>9. CASE UNCHANGED users /\ Goes("accounts", done)
  <2>1. \A d \in Ahead(done) : OffboardHolds(d)
    BY <1>6, <1>7 DEF Ahead, OffboardHolds
  <2> QED BY <1>1, <1>2, <1>6, <1>7, <1>9, <2>1, ProcessKeeps
<1>10. CASE UNCHANGED users /\ Goes("accounts", NoJob)
  BY <1>1, <1>2, <1>10, NoJobIsAJob, PlainKeeps
<1> QED BY <1>3, <1>5, <1>8, <1>9, <1>10 DEF OffboardDisable

-----------------------------------------------------------------------------
LEMMA PeopleInvInit == PeopleInit => PeopleInv
<1> SUFFICES ASSUME PeopleInit PROVE PeopleInv
  OBVIOUS
<1>1. bound \in Nat \X Nat /\ MaxTime \in Nat /\ MaxTime >= 1
  BY PeopleAssumption DEF PeopleInit
<1>2. MaxBlocks \in Nat /\ MaxEdits \in Nat
  BY <1>1 DEF MaxBlocks, MaxEdits
<1>3. /\ edits = 0 /\ ids = 0 /\ round = {} /\ ended = {} /\ time = 1 /\ job = [q \in Processes |-> NoJob]
      /\ mapped \subseteq Groups /\ blocks = [s \in Subjects |-> NoBlock]
      /\ blockRows = {} /\ told = {} /\ asked = {} /\ late = {} /\ unsaid = {}
  BY DEF PeopleInit
<1>4. users \in [Users -> {Absent} \union AccountRec]
  <2>1. \A u \in Users : users[u] \in {Absent} \union AccountRec
    <3> SUFFICES ASSUME NEW u \in Users, users[u] # Absent PROVE users[u] \in AccountRec
      OBVIOUS
    <3>1. users[u] \in [exists : {TRUE}, groups : SUBSET Groups, disabled : {FALSE}, password : {0}]
      BY DEF PeopleInit
    <3>2. 0 \in 0 .. MaxEdits
      BY <1>2
    <3> QED BY <3>1, <3>2 DEF AccountRec
  <2>2. users = [u \in Users |-> users[u]]
    BY DEF PeopleInit
  <2> QED BY <2>1, <2>2
<1>5. PeopleTypeOK
  BY <1>1, <1>2, <1>3, <1>4 DEF PeopleTypeOK, AccountRec
<1>6. job \in [Processes -> Jobs] /\ job["accounts"] = NoJob /\ \A q \in Processes : job[q].op = "idle"
  BY <1>3, NoJobIsAJob DEF Processes
<1>7. LiftFollowsRow /\ AccountsHold
  <2>1. \A u \in Users : users[u].exists \/ users[u] = Absent
    BY DEF PeopleInit
  <2>2. \A d \in Ahead(NoJob) : OffboardHolds(d)
    BY NothingAhead, NoJobIsAJob
  <2> QED BY <1>6, <2>1, <2>2 DEF LiftFollowsRow, AccountsHold
<1>8. EndIsTold /\ RoundIsOfThePast /\ BlockIsTold /\ OffboardLasts
  BY <1>3 DEF EndIsTold, RoundIsOfThePast, BlockIsTold, OffboardLasts
<1>9. edits \in 0 .. MaxEdits
  BY <1>2, <1>3
<1> QED BY <1>1, <1>3, <1>5, <1>6, <1>7, <1>8, <1>9 DEF PeopleInv

LEMMA PeopleStep ==
  ASSUME PeopleInv, PeopleNext
  PROVE  PeopleInv'
<1>0. bound' = bound
  BY DEF PeopleNext
<1>1. CASE BlockStep
  BY <1>0, <1>1, UnblockKeeps, BlockKeeps, PlaceBlockKeeps, RecordBlockKeeps, RecordUnblockKeeps, LiftStepKeeps,
     KilledKeeps DEF BlockStep
<1>2. CASE RoundStep
  BY <1>0, <1>2, BeginExpiryKeeps, RoundCutKeeps, RecordExpiryKeeps, RemoveExpiredKeeps DEF RoundStep
<1>3. CASE AccountStep
  <2>1. CASE \E q \in asked, u \in Users :
               \/ \E g \in SUBSET Groups : SetAccountGroups(q, u, g) \/ AddAccount(q, u, g)
               \/ \E d \in BOOLEAN : SetAccountDisabled(q, u, d)
               \/ ResetAccountPassword(q, u) \/ DeleteAccount(q, u)
    BY <1>0, <2>1, EditsKeep
  <2>2. CASE \E q \in asked, u \in Users : OffboardWithoutSubject(q, u) \/ \E s \in Subjects : Offboard(q, u, s)
    BY <1>0, <2>2, OffboardWithoutKeeps, OffboardKeeps
  <2>3. CASE RecordAccount \/ OffboardDisable \/ OffboardAnswer
    BY <1>0, <2>3, RecordAccountKeeps, OffboardDisableKeeps, OffboardAnswerKeeps
  <2>4. CASE (\E r \in Peers : Ask(r)) \/ \E g \in SUBSET Groups : Remap(g)
    BY <1>0, <2>4, AskKeeps, RemapKeeps
  <2> QED BY <1>3, <2>1, <2>2, <2>3, <2>4 DEF AccountStep
<1>4. CASE PassingTime
  BY <1>0, <1>4, PassingTimeKeeps
<1> QED BY <1>1, <1>2, <1>3, <1>4 DEF PeopleNext

LEMMA PeopleStill ==
  ASSUME PeopleInv, UNCHANGED peopleVars
  PROVE  PeopleInv'
<1>1. UNCHANGED <<time, mapped, blocks, ids, late, unsaid, users, asked, job, round, blockRows, told, ended, edits, bound>>
  BY DEF peopleVars
<1>2. time' \in time .. MaxTime /\ edits' \in edits .. MaxEdits /\ mapped' \subseteq Groups /\ asked' \subseteq Waiting
  BY <1>1, PeopleFacts, Forevers
<1> QED BY <1>1, <1>2, WorldMoves

(* Whatever the operators, the round and the accounts backend have under   *)
(* way, a block is lifted only after its row, the round holds blocks of    *)
(* the past only, what an offboard has blocked stays so, and the account   *)
(* it goes on to disable was in reach under the mapping it read (Unblock,  *)
(* expireBlocks, Offboard), at every instant, kills included.              *)
THEOREM PeopleInvAlways == PeopleSpec => []PeopleInv
<1>1. PeopleInv /\ [PeopleNext]_peopleVars => PeopleInv'
  BY PeopleStep, PeopleStill
<1> QED BY <1>1, PeopleInvInit, PTL DEF PeopleSpec

(* No block is placed, leaves the list or is lost to an offboarded person  *)
(* without the trail, or the answer to the operator, saying so, but for    *)
(* the kill between a block and its row and the block stored when its end  *)
(* had passed: for any number of operators and subjects, and any           *)
(* interleaving of their statements with the expiry round, kills and       *)
(* failed writes (placeBlock, Unblock, expireBlocks, Offboard).            *)
THEOREM BlocksAreAlwaysTold == PeopleSpec => []BlocksAreTold
<1>1. PeopleInv => BlocksAreTold
  BY DEF PeopleInv, BlocksAreTold
<1> QED BY <1>1, PeopleInvAlways, PTL

(* A block in force is changed by Lift alone.                              *)
LEMMA OnlyLiftEnds ==
  ASSUME PeopleInv, PeopleNext, NEW s \in Subjects, Blocked(s), blocks'[s] # blocks[s]
  PROVE  \E p \in Operators : job[p].op = "lift" /\ job[p].subject = s
<1>0. blocks \in [Subjects -> {NoBlock} \union BlockRec]
  BY DEF PeopleInv, PeopleTypeOK, BlockRec
<1>1. ASSUME NEW t \in Subjects, NEW v, blocks' = [blocks EXCEPT ![t] = v] PROVE t = s
  BY <1>0, <1>1
<1>2. ASSUME NEW t \in Subjects, NEW until, Stores(t, until) PROVE FALSE
  <2>1. CanPlace(t) /\ Placed(t, until)
    BY <1>2 DEF Stores
  <2> QED BY <1>1, <2>1 DEF Placed, CanPlace
<1>3. ASSUME NEW x \in round, RemoveExpired(x) PROVE FALSE
  <2>1. StillThatBlock(x) /\ blocks' = [blocks EXCEPT ![x.subject] = NoBlock]
    BY <1>3 DEF RemoveExpired
  <2>2. x.subject \in Subjects
    BY DEF PeopleInv, PeopleTypeOK
  <2>3. x.subject = s
    BY <1>1, <2>1, <2>2
  <2>4. blocks[s].until <= time
    BY <2>1, <2>3 DEF StillThatBlock
  <2>5. time < blocks[s].until /\ time \in Nat /\ blocks[s].until \in Nat
    BY PeopleFacts, BlocksAre DEF Blocked, ActiveAt
  <2> QED BY <2>4, <2>5
<1>4. ASSUME NEW q, NEW u, NEW t \in Subjects, Offboard(q, u, t) PROVE FALSE
  BY <1>2, <1>4 DEF Offboard, Place
<1>5. ASSUME NEW p \in Operators, Lift(p) PROVE job[p].op = "lift" /\ job[p].subject = s
  <2>1. job[p].op = "lift" /\ blocks' = [blocks EXCEPT ![job[p].subject] = NoBlock]
    BY <1>5 DEF Lift
  <2>2. job[p].subject \in Subjects
    BY <2>1, PeopleFacts, JobTells DEF Lifting
  <2> QED BY <1>1, <2>1, <2>2
<1>6. ASSUME NEW p \in Operators, PlaceBlock(p) PROVE FALSE
  <2>1. job[p].op = "place" /\ job[p] \in Jobs
    BY <1>6, PeopleFacts DEF PlaceBlock
  <2>2. PICK t \in Subjects : t = job[p].subject
    BY <2>1, JobTells DEF Placing
  <2> QED BY <1>2, <1>6, <2>2 DEF PlaceBlock, Place
<1>7. CASE BlockStep
  BY <1>5, <1>6, <1>7 DEF BlockStep, Block, Unblock, RecordBlock, RecordUnblock, Killed
<1>8. CASE RoundStep
  BY <1>3, <1>8 DEF RoundStep, BeginExpiry, RecordExpiry, RoundCut
<1>9. CASE AccountStep
  BY ZenonT(40), <1>4, <1>9 DEF AccountStep, SetAccountGroups, AddAccount, SetAccountDisabled, ResetAccountPassword,
     DeleteAccount, OffboardWithoutSubject, Write, Ask, RecordAccount, OffboardDisable, OffboardAnswer, Remap
<1>10. CASE PassingTime
  BY <1>10 DEF PassingTime
<1> QED BY <1>7, <1>8, <1>9, <1>10 DEF PeopleNext

(* What a change of an account does to one of them.                        *)
LEMMA WriteIsOfOne ==
  ASSUME PeopleInv, NEW q \in asked, NEW u \in Users, NEW a, NEW what, Write(q, u, a, what),
         NEW w \in Users, users'[w] # users[w]
  PROVE  w = u /\ users'[w] = a /\ job'["accounts"].by = q.by /\ job'["accounts"].mapped = q.mapped
<1>1. users \in [Users -> {Absent} \union AccountRec]
  BY DEF PeopleInv, PeopleTypeOK, AccountRec
<1>2. w = u /\ users'[w] = a
  BY <1>1 DEF Write
<1>3. job'["accounts"] = [op |-> "accountRow", by |-> q.by, mapped |-> q.mapped, what |-> what, next |-> NoJob]
  BY PeopleFacts DEF Write, Goes
<1> QED BY <1>2, <1>3

(* What a step that changes an account keeps to.                           *)
KeepsTo(w, groups) ==
  /\ users[w] = Absent \/ users[w].groups \subseteq groups
  /\ users'[w] = Absent \/ users'[w].groups \subseteq groups

LEMMA DelegateStep ==
  ASSUME PeopleInv, PeopleNext, NEW w \in Users, users'[w] # users[w], job'["accounts"].by # "root"
  PROVE  KeepsTo(w, job'["accounts"].mapped)
<1>1. ASSUME NEW q \in asked, NEW u \in Users, NEW g \in SUBSET Groups, SetAccountGroups(q, u, g)
      PROVE  KeepsTo(w, job'["accounts"].mapped)
  <2>1. PICK a : a = [users[u] EXCEPT !.groups = g]
    OBVIOUS
  <2>2. Write(q, u, a, "groups") /\ InReach(q, users[u]) /\ g \subseteq q.mapped
    BY <1>1, <2>1 DEF SetAccountGroups
  <2>3. w = u /\ users'[w] = a /\ job'["accounts"].by = q.by /\ job'["accounts"].mapped = q.mapped
    BY <2>2, WriteIsOfOne
  <2>4. a.groups = g
    BY <2>1, UserIs DEF AccountRec
  <2> QED BY <2>2, <2>3, <2>4 DEF InReach, KeepsTo
<1>2. ASSUME NEW q \in asked, NEW u \in Users, NEW g \in SUBSET Groups, AddAccount(q, u, g)
      PROVE  KeepsTo(w, job'["accounts"].mapped)
  <2>1. PICK a : a = [exists |-> TRUE, groups |-> g, disabled |-> FALSE, password |-> edits]
    OBVIOUS
  <2>2. Write(q, u, a, "add") /\ ~users[u].exists /\ g \subseteq q.mapped
    BY <1>2, <2>1 DEF AddAccount
  <2>3. w = u /\ users'[w] = a /\ job'["accounts"].mapped = q.mapped
    BY <2>2, WriteIsOfOne
  <2>4. users[w] = Absent
    BY <2>2, <2>3 DEF PeopleInv, AccountsHold
  <2>5. a.groups = g
    BY <2>1
  <2> QED BY <2>2, <2>3, <2>4, <2>5 DEF KeepsTo
<1>3. ASSUME NEW q \in asked, NEW u \in Users, NEW a, NEW what, Write(q, u, a, what), InReach(q, users[u]),
             a = Absent \/ a.groups = users[u].groups
      PROVE  KeepsTo(w, job'["accounts"].mapped)
  <2>1. w = u /\ users'[w] = a /\ job'["accounts"].by = q.by /\ job'["accounts"].mapped = q.mapped
    BY <1>3, WriteIsOfOne
  <2> QED BY <1>3, <2>1 DEF InReach, KeepsTo
<1>4. ASSUME NEW q \in asked, NEW u \in Users, NEW d \in BOOLEAN, SetAccountDisabled(q, u, d)
      PROVE  KeepsTo(w, job'["accounts"].mapped)
  <2>1. PICK a : a = [users[u] EXCEPT !.disabled = d]
    OBVIOUS
  <2>2. a.groups = users[u].groups
    BY <2>1, UserIs DEF AccountRec
  <2> QED BY <1>3, <1>4, <2>1, <2>2 DEF SetAccountDisabled
<1>5. ASSUME NEW q \in asked, NEW u \in Users, ResetAccountPassword(q, u)
      PROVE  KeepsTo(w, job'["accounts"].mapped)
  <2>1. PICK a : a = [users[u] EXCEPT !.password = edits]
    OBVIOUS
  <2>2. a.groups = users[u].groups
    BY <2>1, UserIs DEF AccountRec
  <2> QED BY <1>3, <1>5, <2>1, <2>2 DEF ResetAccountPassword
<1>6. ASSUME NEW q \in asked, NEW u \in Users, DeleteAccount(q, u)
      PROVE  KeepsTo(w, job'["accounts"].mapped)
  BY <1>3, <1>6 DEF DeleteAccount
<1>7. ASSUME OffboardDisable
      PROVE  KeepsTo(w, job'["accounts"].mapped)
  <2>1. PICK j \in Disabling : j = job["accounts"] /\ j.op = "disable"
    BY <1>7, PeopleFacts, JobTells DEF OffboardDisable
  <2>2. PICK k : /\ users' = [users EXCEPT ![j.user].disabled = TRUE] /\ Goes("accounts", k)
                 /\ k.by = j.by /\ k.mapped = j.mapped
    <3>1. users' # users
      OBVIOUS
    <3> QED BY <1>7, <2>1, <3>1 DEF OffboardDisable
  <2>3. job'["accounts"] = k
    BY <2>2, PeopleFacts DEF Goes
  <2>4. users[j.user].groups \subseteq j.mapped
    BY <2>1, <2>2, <2>3 DEF PeopleInv, AccountsHold, Ahead, OffboardHolds
  <2>5. users \in [Users -> {Absent} \union AccountRec] /\ j.user \in Users
    BY DEF PeopleInv, PeopleTypeOK, Disabling, AccountRec
  <2>6. w = j.user /\ users'[w] = [users[w] EXCEPT !.disabled = TRUE]
    BY <2>2, <2>5
  <2>7. users'[w].groups = users[w].groups
    BY <2>6, UserIs DEF AccountRec
  <2> QED BY <2>2, <2>3, <2>4, <2>6, <2>7 DEF KeepsTo
<1>8. CASE BlockStep
  BY <1>8 DEF BlockStep, Block, PlaceBlock, Unblock, RecordBlock, RecordUnblock, Lift, Killed
<1>9. CASE RoundStep
  BY <1>9 DEF RoundStep, BeginExpiry, RecordExpiry, RemoveExpired, RoundCut
<1>10. CASE PassingTime
  BY <1>10 DEF PassingTime
<1>11. CASE AccountStep
  <2>1. CASE RecordAccount \/ OffboardAnswer \/ (\E r \in Peers : Ask(r)) \/ \E g \in SUBSET Groups : Remap(g)
    BY <2>1 DEF RecordAccount, OffboardAnswer, Remap, Ask
  <2>2. CASE \E q \in asked, u \in Users : OffboardWithoutSubject(q, u) \/ \E s \in Subjects : Offboard(q, u, s)
    BY <2>2 DEF OffboardWithoutSubject, Offboard
  <2> QED BY <1>1, <1>2, <1>4, <1>5, <1>6, <1>7, <1>11, <2>1, <2>2 DEF AccountStep
<1> QED BY <1>8, <1>9, <1>10, <1>11 DEF PeopleNext

(* Nothing but an operator's unblock lifts a block in force, and nothing   *)
(* that is asked of the accounts backend but by root changes an account    *)
(* outside the mapping it read, whatever order blocks, accounts and the    *)
(* mapping change in (RemoveExpired, inReach, mappedGroups).               *)
THEOREM PeopleAreAlwaysGuarded == PeopleSpec => PeopleAreGuarded
<1>1. PeopleInv /\ [PeopleNext]_peopleVars =>
        [\A s \in Subjects : Blocked(s) /\ blocks'[s] # blocks[s] =>
            \E p \in Operators : job[p].op = "lift" /\ job[p].subject = s]_peopleVars
  BY OnlyLiftEnds
<1>2. PeopleInv /\ [PeopleNext]_peopleVars =>
        [LET j == job'["accounts"] IN
         \A u \in Users : users'[u] # users[u] /\ j.by # "root" =>
            /\ users[u] = Absent \/ users[u].groups \subseteq j.mapped
            /\ users'[u] = Absent \/ users'[u].groups \subseteq j.mapped]_peopleVars
  BY DelegateStep DEF KeepsTo
<1>3. PeopleSpec => LiveBlockOnlyLifted
  BY <1>1, PeopleInvAlways, PTL DEF PeopleSpec, LiveBlockOnlyLifted
<1>4. PeopleSpec => DelegateKeepsToMapped
  BY <1>2, PeopleInvAlways, PTL DEF PeopleSpec, DelegateKeepsToMapped
<1> QED BY <1>3, <1>4 DEF PeopleAreGuarded

-----------------------------------------------------------------------------
(* The registry and its signatures: the inductive invariant, then the      *)
(* steps.                                                                  *)

\* What a process can be doing.
Covers     == [name : Names, entry : Entries]
Signatures == {NoSig} \union [key : SigningKeys, over : Covers, at : Nat, reg : Nat, all : BOOLEAN]
Lines      == [name : Names, entry : Entries, state : {"unsigned", "valid", "INVALID"} \union SigningKeys,
               signable : BOOLEAN]
Shown      == {Printout(k, plan) : k \in SigningKeys, plan \in SUBSET Lines}
Reporting  == [op : {"report"}, name : Names, entry : Entries, api : BOOLEAN, born : Nat]
Updating   == [op : {"update"}, name : Names, image : Images]
Telling    == [op : {"updated", "signed"}, name : Names]
Removing   == [op : {"remove"}, stage : {"registry", "signature", "quarantine", "health", "answer"}, name : Names,
               at : Nat, api : BOOLEAN, changed : BOOLEAN]
Signing    == [op : {"sign"}, name : Names, entry : Entries, key : SigningKeys, api : BOOLEAN]
Planning   == [op : {"plan"}, key : SigningKeys, reviewed : SUBSET Shown, plan : SUBSET Lines,
               todo : SUBSET (Names \X Entries)]
SigningAll == [op : {"signing"}, key : SigningKeys, todo : SUBSET Lines, reviewed : SUBSET Shown]
Tasks      == {Resting} \union Reporting \union Updating \union Telling \union Removing \union Signing
              \union Planning \union SigningAll

RegTypes ==
    /\ entries \in [Names -> Entries] /\ seen \in [Names -> Entries] /\ served \in [Names -> Entries]
    /\ sigs \in [Names -> Signatures] /\ task \in [Clerks -> Tasks]
    /\ approvals \in [Names -> Nat] /\ held \in [Names -> Nat]
    /\ begun \in [Names -> Nat] /\ clean \in [Names -> Nat]
    /\ quiet \subseteq Names \X Nat /\ shown \subseteq Shown /\ vetted \subseteq Names \X Entries \X SigningKeys
    /\ acts \in [ActKinds -> Nat]

\* An entry that may be registered and run.
Good(e) == validateEntry(e) /\ ~credentialedStdio(e)

EntriesAreGood ==
    /\ \A n \in Names : (entries[n] # NoEntry => Good(entries[n])) /\ (seen[n] # NoEntry => Good(seen[n]))
    /\ \A v \in vetted : Good(v[2])

\* A stored signature covers an entry that was vetted with its key.
SigsAreVetted ==
    \A n \in Names : sigs[n] # NoSig =>
        \E e \in Entries : <<n, e, sigs[n].key>> \in vetted /\ sigs[n].over = Canonical(n, e)

\* What a deregistration has behind it stays clean: what is there was stored since.
StagesAreClean(t) ==
    /\ t.at <= begun[t.name]
    /\ t.stage \in {"quarantine", "health", "answer"} => (sigs[t.name] # NoSig => sigs[t.name].at >= t.at)
    /\ t.stage \in {"health", "answer"} => (approvals[t.name] # 0 => approvals[t.name] >= t.at)
    /\ t.stage = "answer" => (held[t.name] # 0 => held[t.name] >= t.at)

TaskHolds(t) ==
    /\ t.op \in {"report", "sign"} => Good(t.entry)
    /\ t.op = "report" => acts["register"] <= t.born
    /\ t.op = "plan" => /\ \A ne \in t.todo : Good(ne[2])
                        /\ \A l \in t.plan : Good(l.entry)
                        /\ t.reviewed \subseteq shown
    /\ t.op = "signing" => \A l \in t.todo : /\ Good(l.entry)
                                             /\ \E r \in t.reviewed \intersect shown : Shows(r, t.key, Canonical(l.name, l.entry))
    /\ t.op = "remove" => StagesAreClean(t)

\* Nothing under a name is of later than now; registrations only go on.
NothingLater ==
    /\ \A n \in Names : approvals[n] <= begun[n] /\ held[n] <= begun[n] /\ clean[n] <= begun[n]
    /\ \A q \in quiet : acts["register"] <= q[2]

RegInv ==
    /\ RegTypes /\ EntriesAreGood /\ SigsAreVetted /\ NothingLater
    /\ \A p \in Clerks : TaskHolds(task[p])
    /\ CleanIsClean /\ LeftoverIsTold
    /\ RequireSigned => ServedIsVetted

LEMMA TaskTells ==
  ASSUME NEW t \in Tasks
  PROVE  /\ t.op = "report" => t \in Reporting
         /\ t.op = "update" => t \in Updating
         /\ t.op \in {"updated", "signed"} => t \in Telling
         /\ t.op = "remove" => t \in Removing
         /\ t.op = "sign" => t \in Signing
         /\ t.op = "plan" => t \in Planning
         /\ t.op = "signing" => t \in SigningAll
<1>1. \/ t = Resting \/ t \in Reporting \/ t \in Updating \/ t \in Telling \/ t \in Removing \/ t \in Signing
      \/ t \in Planning \/ t \in SigningAll
  BY DEF Tasks
<1>2. CASE t = Resting
  BY <1>2 DEF Resting
<1>3. CASE t \in Reporting
  BY <1>3 DEF Reporting
<1>4. CASE t \in Updating
  BY <1>4 DEF Updating
<1>5. CASE t \in Telling
  BY <1>5 DEF Telling
<1>6. CASE t \in Removing
  BY <1>6 DEF Removing
<1>7. CASE t \in Signing
  BY <1>7 DEF Signing
<1>8. CASE t \in Planning
  BY <1>8 DEF Planning
<1>9. CASE t \in SigningAll
  BY <1>9 DEF SigningAll
<1> QED BY <1>1, <1>2, <1>3, <1>4, <1>5, <1>6, <1>7, <1>8, <1>9

LEMMA RestingIs == Resting \in Tasks /\ Resting.op = "rest" /\ TaskHolds(Resting)
<1>1. Resting \in Tasks /\ Resting.op = "rest"
  BY DEF Tasks, Resting
<1> QED BY <1>1 DEF TaskHolds

(* The entries: none is one of them, and what an entry may become.         *)
LEMMA NoEntryIs ==
  /\ NoEntry \in Entries /\ "" \in FieldOf("auth") /\ "" \in FieldOf("place") /\ 0 \in FieldOf("ops")
  /\ NoEntry.transport = "" /\ NoEntry.auth = "" /\ NoEntry.place = "" /\ NoEntry.ops = 0
<1>1. /\ NoEntry.transport \in FieldOf("transport") /\ NoEntry.runs \in FieldOf("runs")
      /\ NoEntry.image \in FieldOf("image") /\ NoEntry.args \in FieldOf("args") /\ NoEntry.env \in FieldOf("env")
      /\ NoEntry.auth \in FieldOf("auth") /\ NoEntry.place \in FieldOf("place") /\ NoEntry.ops \in FieldOf("ops")
  BY DEF FieldOf
<1>2. /\ NoEntry.transport = "" /\ NoEntry.runs = "" /\ NoEntry.image = "" /\ NoEntry.args = "" /\ NoEntry.env = {}
      /\ NoEntry.auth = "" /\ NoEntry.place = "" /\ NoEntry.ops = 0
  BY DEF NoEntry
<1>3. NoEntry \in Entries
  BY <1>1, <1>2 DEF NoEntry, Entries
<1> QED BY <1>1, <1>2, <1>3

LEMMA CanonicalIs ==
  ASSUME NEW n \in Names, NEW e \in Entries
  PROVE  /\ Canonical(n, e) \in Covers
         /\ Good(e) => Canonical(n, e).entry = e
<1>1. Unlocated(e) \in Entries
  BY NoEntryIs DEF Unlocated, Entries
<1>2. Canonical(n, e) \in Covers
  BY <1>1 DEF Canonical, Covers
<1>3. ASSUME Good(e), e.transport # "http" PROVE Unlocated(e) = e
  <2>1. e.auth = "" /\ e.place = "" /\ e.ops = 0
    BY <1>3 DEF Good, validateEntry, Validate
  <2> QED BY <2>1 DEF Unlocated, Entries
<1>4. Good(e) => Canonical(n, e).entry = e
  BY <1>3 DEF Canonical
<1> QED BY <1>2, <1>4

(* What a task relies on, and what keeps it so.                            *)
LEMMA TasksKeep ==
  ASSUME RegInv, acts'["register"] \in Nat, acts'["register"] <= acts["register"], shown \subseteq shown',
         NEW t \in Tasks, TaskHolds(t),
         t.op = "remove" =>
           /\ begun'[t.name] \in Nat /\ begun'[t.name] >= begun[t.name]
           /\ sigs'[t.name] = sigs[t.name] \/ sigs'[t.name] = NoSig
              \/ (sigs'[t.name].at \in Nat /\ sigs'[t.name].at >= begun[t.name])
           /\ approvals'[t.name] \in {approvals[t.name], 0, begun[t.name]}
           /\ held'[t.name] \in {held[t.name], 0, begun[t.name]}
  PROVE  TaskHolds(t)'
<1>1. acts["register"] \in Nat
  BY DEF RegInv, RegTypes, ActKinds
<1>2. t.op \in {"report", "sign"} => Good(t.entry)
  BY DEF TaskHolds
<1>3. t.op = "report" => acts'["register"] <= t.born
  <2> SUFFICES ASSUME t.op = "report" PROVE acts'["register"] <= t.born
    OBVIOUS
  <2>1. t.born \in Nat /\ acts["register"] <= t.born
    BY TaskTells DEF TaskHolds, Reporting
  <2> QED BY <1>1, <2>1
<1>4. t.op = "plan" => /\ \A ne \in t.todo : Good(ne[2])
                       /\ \A l \in t.plan : Good(l.entry)
                       /\ t.reviewed \subseteq shown'
  BY DEF TaskHolds
<1>5. t.op = "signing" => \A l \in t.todo : /\ Good(l.entry)
                                            /\ \E r \in t.reviewed \intersect shown' : Shows(r, t.key, Canonical(l.name, l.entry))
  BY DEF TaskHolds
<1>6. ASSUME t.op = "remove" PROVE StagesAreClean(t)'
  <2>1. t.name \in Names /\ t.at \in Nat
    BY <1>6, TaskTells DEF Removing
  <2>2. StagesAreClean(t)
    BY <1>6 DEF TaskHolds
  <2>3. begun[t.name] \in Nat /\ approvals[t.name] \in Nat /\ held[t.name] \in Nat
    BY <2>1 DEF RegInv, RegTypes
  <2>4. t.at <= begun'[t.name] /\ t.at <= begun[t.name]
    BY <1>6, <2>1, <2>2, <2>3 DEF StagesAreClean
  <2>5. t.stage \in {"quarantine", "health", "answer"} => (sigs'[t.name] # NoSig => sigs'[t.name].at >= t.at)
    BY <1>6, <2>1, <2>2, <2>3, <2>4 DEF StagesAreClean
  <2>6. t.stage \in {"health", "answer"} => (approvals'[t.name] # 0 => approvals'[t.name] >= t.at)
    BY <1>6, <2>1, <2>2, <2>3, <2>4 DEF StagesAreClean
  <2>7. t.stage = "answer" => (held'[t.name] # 0 => held'[t.name] >= t.at)
    BY <1>6, <2>1, <2>2, <2>3, <2>4 DEF StagesAreClean
  <2> QED BY <2>4, <2>5, <2>6, <2>7 DEF StagesAreClean
<1> QED BY <1>2, <1>3, <1>4, <1>5, <1>6 DEF TaskHolds, Good, validateEntry, Validate, validateHTTP, validateImage,
           validateAuthName, Keyed, dialable, credentialedStdio, Shows, Canonical, Unlocated

LEMMA RegFacts ==
  ASSUME RegInv
  PROVE  /\ RegTypes /\ acts["register"] \in Nat /\ (\A p \in Clerks : task[p] \in Tasks /\ TaskHolds(task[p]))
         /\ \A n \in Names : /\ begun[n] \in Nat /\ approvals[n] \in Nat /\ held[n] \in Nat /\ clean[n] \in Nat
                             /\ entries[n] \in Entries /\ seen[n] \in Entries /\ served[n] \in Entries
                             /\ sigs[n] \in Signatures
                             /\ approvals[n] <= begun[n] /\ held[n] <= begun[n] /\ clean[n] <= begun[n]
BY DEF RegInv, RegTypes, ActKinds, NothingLater

LEMMA Turned ==
  ASSUME RegInv, NEW p \in Clerks, NEW t \in Tasks, Turns(p, t)
  PROVE  /\ task' \in [Clerks -> Tasks] /\ task'[p] = t
         /\ \A q \in Clerks : q # p => task'[q] = task[q]
BY RegFacts DEF Turns, RegTypes

(* A step of one process that leaves the stores alone.                     *)
LEMMA TaskOnly ==
  ASSUME RegInv, UNCHANGED <<entries, sigs, approvals, held, seen, served, clean, vetted>>,
         begun' \in [Names -> Nat], \A n \in Names : begun'[n] >= begun[n],
         shown \subseteq shown', shown' \subseteq Shown,
         acts' \in [ActKinds -> Nat], acts'["register"] <= acts["register"],
         quiet' \subseteq Names \X Nat,
         \A q \in quiet' : q \in quiet \/ (sigs[q[1]] = NoSig /\ acts'["register"] <= q[2]),
         NEW p \in Clerks, NEW t \in Tasks, Turns(p, t), TaskHolds(t)'
  PROVE  RegInv'
<1>1. /\ task' \in [Clerks -> Tasks] /\ task'[p] = t
      /\ \A q \in Clerks : q # p => task'[q] = task[q]
  BY Turned
<1>2. acts'["register"] \in Nat /\ acts["register"] \in Nat
  BY RegFacts DEF ActKinds
<1>3. RegTypes'
  BY <1>1, RegFacts DEF RegTypes
<1>4. EntriesAreGood' /\ SigsAreVetted' /\ (RequireSigned => ServedIsVetted')
  BY DEF RegInv, EntriesAreGood, SigsAreVetted, ServedIsVetted
<1>5. NothingLater'
  <2>1. \A n \in Names : approvals'[n] <= begun'[n] /\ held'[n] <= begun'[n] /\ clean'[n] <= begun'[n]
    BY RegFacts
  <2>2. \A q \in quiet' : acts'["register"] <= q[2]
    <3> SUFFICES ASSUME NEW q \in quiet', q \in quiet PROVE acts'["register"] <= q[2]
      OBVIOUS
    <3>1. q[2] \in Nat /\ acts["register"] <= q[2]
      BY DEF RegInv, NothingLater
    <3> QED BY <1>2, <3>1
  <2> QED BY <2>1, <2>2 DEF NothingLater
<1>6. CleanIsClean'
  BY DEF RegInv, CleanIsClean
<1>7. LeftoverIsTold'
  BY DEF RegInv, LeftoverIsTold
<1>8. ASSUME NEW q \in Clerks PROVE TaskHolds(task[q])'
  <2>1. CASE q = p
    BY <1>1, <2>1 DEF TaskHolds, StagesAreClean
  <2>2. CASE q # p
    <3>1. PICK x \in Tasks : x = task[q] /\ x = task'[q] /\ TaskHolds(x)
      BY <1>1, <1>8, <2>2, RegFacts
    <3>2. x.op = "remove" => x.name \in Names
      BY TaskTells DEF Removing
    <3>3. TaskHolds(x)'
      BY <1>2, <3>1, <3>2, TasksKeep, RegFacts
    <3> QED BY <3>1, <3>3 DEF TaskHolds, StagesAreClean
  <2> QED BY <2>1, <2>2
<1>9. \A q \in Clerks : TaskHolds(task[q])'
  BY <1>8
<1> QED BY <1>3, <1>4, <1>5, <1>6, <1>7, <1>9 DEF RegInv

LEMMA CountedIs ==
  ASSUME RegInv, NEW k \in ActKinds, Counted(k)
  PROVE  acts' \in [ActKinds -> Nat] /\ acts'["register"] <= acts["register"]
<1>1. acts \in [ActKinds -> Nat] /\ acts[k] > 0 /\ acts' = [acts EXCEPT ![k] = acts[k] - 1]
  BY RegFacts DEF RegTypes, Counted
<1>2. acts[k] - 1 \in Nat /\ acts["register"] \in Nat
  BY <1>1 DEF ActKinds
<1> QED BY <1>1, <1>2 DEF ActKinds

(* A step of one process alone.                                            *)
LEMMA TaskAlone ==
  ASSUME RegInv, UNCHANGED <<entries, sigs, approvals, held, seen, served, begun, clean, quiet, shown, vetted>>,
         acts' \in [ActKinds -> Nat], acts'["register"] <= acts["register"],
         NEW p \in Clerks, NEW t \in Tasks, Turns(p, t), TaskHolds(t)'
  PROVE  RegInv'
<1>1. /\ begun' \in [Names -> Nat] /\ shown' \subseteq Shown /\ quiet' \subseteq Names \X Nat
      /\ \A n \in Names : begun'[n] >= begun[n]
  BY RegFacts DEF RegTypes
<1> QED BY <1>1, TaskOnly

LEMMA ActsStay ==
  ASSUME RegInv, acts' = acts
  PROVE  acts' \in [ActKinds -> Nat] /\ acts'["register"] <= acts["register"]
BY RegFacts DEF RegTypes

LEMMA AbandonKeeps ==
  ASSUME RegInv, NEW p \in Clerks, Abandon(p) PROVE RegInv'
<1>1. Turns(p, Resting) /\ UNCHANGED <<entries, sigs, approvals, held, seen, served, begun, clean, quiet, shown, vetted, acts>>
  BY DEF Abandon, Rests
<1>2. TaskHolds(Resting)'
  BY RestingIs DEF TaskHolds, Resting
<1> QED BY <1>1, <1>2, ActsStay, RestingIs, TaskAlone

LEMMA RecordedKeeps ==
  ASSUME RegInv, NEW p \in Clerks, UpdateRecorded(p) \/ SignRecorded(p) PROVE RegInv'
<1>1. Turns(p, Resting) /\ UNCHANGED <<entries, sigs, approvals, held, seen, served, begun, clean, quiet, shown, vetted, acts>>
  BY DEF UpdateRecorded, SignRecorded, Rests
<1>2. TaskHolds(Resting)'
  BY RestingIs DEF TaskHolds, Resting
<1> QED BY <1>1, <1>2, ActsStay, RestingIs, TaskAlone

LEMMA UpdateReadKeeps ==
  ASSUME RegInv, NEW p \in Clerks, NEW n \in Names, NEW i \in Images, UpdateRead(p, n, i) PROVE RegInv'
<1>0. PICK t : t = [op |-> "update", name |-> n, image |-> i]
  OBVIOUS
<1>1. /\ Turns(p, t) /\ Counted("update")
      /\ UNCHANGED <<entries, sigs, approvals, held, seen, served, begun, clean, quiet, shown, vetted>>
  BY <1>0 DEF UpdateRead
<1>2. t \in Tasks /\ t.op = "update"
  BY <1>0 DEF Tasks, Updating
<1>3. TaskHolds(t)'
  BY <1>2 DEF TaskHolds
<1>4. acts' \in [ActKinds -> Nat] /\ acts'["register"] <= acts["register"]
  BY <1>1, CountedIs DEF ActKinds
<1> QED BY <1>1, <1>2, <1>3, <1>4, TaskAlone

LEMMA SignKeeps ==
  ASSUME RegInv, NEW p \in Clerks, NEW n \in Names, NEW k \in SigningKeys, NEW api \in BOOLEAN, Sign(p, n, k, api)
  PROVE  RegInv'
<1>0. PICK t : t = [op |-> "sign", name |-> n, entry |-> entries[n], key |-> k, api |-> api]
  OBVIOUS
<1>1. /\ Turns(p, t) /\ Counted("sign") /\ entries[n] # NoEntry
      /\ UNCHANGED <<entries, sigs, approvals, held, seen, served, begun, clean, quiet, shown, vetted>>
  BY <1>0 DEF Sign
<1>2. t \in Signing
  BY <1>0, RegFacts DEF Signing
<1>3. t \in Tasks /\ t.op = "sign" /\ t.entry = entries[n]
  BY <1>0, <1>2 DEF Tasks
<1>4. Good(t.entry)
  BY <1>1, <1>3 DEF RegInv, EntriesAreGood
<1>5. TaskHolds(t)'
  BY <1>3, <1>4 DEF TaskHolds
<1>6. acts' \in [ActKinds -> Nat] /\ acts'["register"] <= acts["register"]
  BY <1>1, CountedIs DEF ActKinds
<1> QED BY <1>1, <1>3, <1>5, <1>6, TaskAlone

LEMMA SignAllKeeps ==
  ASSUME RegInv, NEW p \in Clerks, NEW k \in SigningKeys, NEW reviewed \in SUBSET shown, SignAll(p, k, reviewed)
  PROVE  RegInv'
<1> DEFINE todo == {<<n, entries[n]>> : n \in {m \in Names : entries[m] # NoEntry}}
<1>0. PICK t : t = [op |-> "plan", key |-> k, reviewed |-> reviewed, plan |-> {}, todo |-> todo]
  OBVIOUS
<1>1. /\ Turns(p, t) /\ Counted("sign")
      /\ UNCHANGED <<entries, sigs, approvals, held, seen, served, begun, clean, quiet, shown, vetted>>
  BY <1>0 DEF SignAll
<1>2. todo \in SUBSET (Names \X Entries)
  BY RegFacts
<1>3. reviewed \in SUBSET Shown
  BY RegFacts DEF RegTypes
<1>4. t \in Planning
  BY <1>0, <1>2, <1>3 DEF Planning
<1>5. t \in Tasks /\ t.op = "plan" /\ t.reviewed = reviewed /\ t.plan = {} /\ t.todo = todo
  BY <1>0, <1>4 DEF Tasks
<1>6. \A ne \in todo : Good(ne[2])
  <2> SUFFICES ASSUME NEW n \in Names, entries[n] # NoEntry PROVE Good(<<n, entries[n]>>[2])
    OBVIOUS
  <2> QED BY DEF RegInv, EntriesAreGood
<1>7. TaskHolds(t)'
  BY <1>1, <1>5, <1>6 DEF TaskHolds
<1>8. acts' \in [ActKinds -> Nat] /\ acts'["register"] <= acts["register"]
  BY <1>1, CountedIs DEF ActKinds
<1> QED BY <1>1, <1>5, <1>7, <1>8, TaskAlone

(* What no process can be harmed by.                                       *)
Grown ==
  /\ acts'["register"] \in Nat /\ acts'["register"] <= acts["register"] /\ shown \subseteq shown'
  /\ \A n \in Names :
       /\ begun'[n] \in Nat /\ begun'[n] >= begun[n]
       /\ sigs'[n] = sigs[n] \/ sigs'[n] = NoSig \/ (sigs'[n].at \in Nat /\ sigs'[n].at >= begun[n])
       /\ approvals'[n] \in {approvals[n], 0, begun[n]}
       /\ held'[n] \in {held[n], 0, begun[n]}

LEMMA OneHolds ==
  ASSUME RegInv, Grown, NEW q \in Clerks, task'[q] = task[q]
  PROVE  TaskHolds(task[q])'
<1>1. PICK x \in Tasks : x = task[q] /\ x = task'[q] /\ TaskHolds(x)
  BY RegFacts
<1>2. x.op = "remove" => x.name \in Names
  BY TaskTells DEF Removing
<1>3. TaskHolds(x)'
  BY <1>1, <1>2, TasksKeep DEF Grown
<1> QED BY <1>1, <1>3 DEF TaskHolds, StagesAreClean

LEMMA OthersHold ==
  ASSUME RegInv, Grown, NEW p \in Clerks, NEW t \in Tasks, Turns(p, t), TaskHolds(t)'
  PROVE  task' \in [Clerks -> Tasks] /\ \A q \in Clerks : TaskHolds(task[q])'
<1>1. /\ task' \in [Clerks -> Tasks] /\ task'[p] = t
      /\ \A q \in Clerks : q # p => task'[q] = task[q]
  BY Turned
<1>2. TaskHolds(task[p])'
  BY <1>1 DEF TaskHolds, StagesAreClean
<1>3. ASSUME NEW q \in Clerks, q # p PROVE TaskHolds(task[q])'
  BY <1>1, <1>3, OneHolds
<1>4. ASSUME NEW q \in Clerks PROVE TaskHolds(task[q])'
  <2>1. CASE q = p
    BY <1>2, <2>1
  <2>2. CASE q # p
    BY <1>3, <2>2
  <2> QED BY <2>1, <2>2
<1> QED BY <1>1, <1>4

LEMMA PlanEntryKeeps ==
  ASSUME RegInv, NEW p \in Clerks, NEW ne, PlanEntry(p, ne) PROVE RegInv'
<1>1. /\ task[p].op = "plan" /\ ne \in task[p].todo
      /\ UNCHANGED <<entries, sigs, approvals, held, seen, served, begun, clean, quiet, shown, vetted, acts>>
  BY DEF PlanEntry
<1>2. PICK old \in Planning : old = task[p] /\ TaskHolds(old) /\ old.op = "plan"
  BY <1>1, TaskTells, RegFacts
<1>3. PICK n \in Names, e \in Entries : ne = <<n, e>>
  BY <1>1, <1>2 DEF Planning
<1>4. Good(e)
  <2>1. Good(ne[2])
    BY <1>1, <1>2 DEF TaskHolds
  <2> QED BY <1>3, <2>1
<1>5. PICK s : s = PlanState(n, e, old.key)
  OBVIOUS
<1>6. s # "current" => s \in {"unsigned", "valid", "INVALID"} \union SigningKeys
  <2>1. sigs[n] # NoSig => sigs[n].key \in SigningKeys
    BY RegFacts DEF Signatures
  <2> QED BY <1>5, <2>1 DEF PlanState, SignatureState
<1>7. PICK b \in BOOLEAN : b = (dialable(e) /\ ~credentialedStdio(e))
  OBVIOUS
<1>8. PICK line : line = [name |-> n, entry |-> e, state |-> s, signable |-> b]
  OBVIOUS
<1>9. (s # "current" => line \in Lines) /\ line.entry = e
  BY <1>6, <1>8 DEF Lines
<1>10. PICK plan : plan = IF s = "current" THEN old.plan ELSE old.plan \union {line}
  OBVIOUS
<1>11. plan \in SUBSET Lines /\ \A l \in plan : Good(l.entry)
  <2>1. old.plan \in SUBSET Lines /\ \A l \in old.plan : Good(l.entry)
    BY <1>2 DEF TaskHolds, Planning
  <2> QED BY <1>4, <1>9, <1>10, <2>1
<1>12. PICK t : t = [old EXCEPT !.todo = old.todo \ {ne}, !.plan = plan]
  OBVIOUS
<1>13. t \in Planning /\ t.todo = old.todo \ {ne} /\ t.plan = plan /\ t.reviewed = old.reviewed
  BY <1>11, <1>12 DEF Planning
<1>14. t \in Tasks /\ t.op = "plan"
  BY <1>13 DEF Tasks, Planning
<1>15. Turns(p, t)
  BY <1>2, <1>3, <1>5, <1>7, <1>8, <1>10, <1>12 DEF PlanEntry
<1>16. TaskHolds(t)'
  BY <1>1, <1>2, <1>11, <1>13, <1>14 DEF TaskHolds
<1> QED BY <1>1, <1>14, <1>15, <1>16, ActsStay, TaskAlone

LEMMA ShowPlanKeeps ==
  ASSUME RegInv, NEW p \in Clerks, ShowPlan(p) PROVE RegInv'
<1>1. /\ task[p].op = "plan" /\ (shown' = shown \/ shown' = shown \union {Printout(task[p].key, task[p].plan)})
      /\ UNCHANGED <<entries, sigs, approvals, held, seen, served, begun, clean, quiet, vetted, acts>>
  BY DEF ShowPlan
<1>2. PICK old \in Planning : old = task[p] /\ TaskHolds(old) /\ old.op = "plan"
  BY <1>1, TaskTells, RegFacts
<1>3. old.key \in SigningKeys /\ old.plan \in SUBSET Lines /\ old.reviewed \in SUBSET Shown
  BY DEF Planning
<1>4. /\ begun' \in [Names -> Nat] /\ shown \subseteq shown' /\ shown' \subseteq Shown /\ quiet' \subseteq Names \X Nat
      /\ \A n \in Names : begun'[n] >= begun[n]
  BY <1>1, <1>2, <1>3, RegFacts DEF RegTypes, Shown
<1>5. CASE Turns(p, Resting)
  <2>1. TaskHolds(Resting)'
    BY RestingIs DEF TaskHolds, Resting
  <2> QED BY <1>1, <1>4, <1>5, <2>1, ActsStay, RestingIs, TaskOnly
<1>6. CASE /\ \E r \in old.reviewed : Manifest(r.key, r.plan) = Manifest(old.key, old.plan)
           /\ {l \in old.plan : l.signable} # {}
  <2>0. PICK r \in old.reviewed : Manifest(r.key, r.plan) = Manifest(old.key, old.plan)
    BY <1>6
  <2>1. PICK todo \in SUBSET Lines : todo = {l \in old.plan : l.signable}
    BY <1>3
  <2>2. PICK t : t = [op |-> "signing", key |-> old.key, todo |-> todo, reviewed |-> old.reviewed]
    OBVIOUS
  <2>3. t \in SigningAll
    BY <1>3, <2>2 DEF SigningAll
  <2>4. t \in Tasks /\ t.op = "signing" /\ t.key = old.key /\ t.todo = todo /\ t.reviewed = old.reviewed
    BY <2>2, <2>3 DEF Tasks
  <2>5. Turns(p, t)
    BY <1>2, <1>6, <2>1, <2>2 DEF ShowPlan
  <2>6. r.key = old.key
    BY <2>0 DEF Manifest
  <2>7. ASSUME NEW l \in todo PROVE Good(l.entry) /\ Shows(r, old.key, Canonical(l.name, l.entry))
    <3>1. l \in old.plan /\ l.signable
      BY <2>1, <2>7
    <3>2. Good(l.entry)
      BY <1>2, <3>1 DEF TaskHolds
    <3>3. PICK m : m = [name |-> l.name, state |-> l.state, over |-> Canonical(l.name, l.entry)]
      OBVIOUS
    <3>4. m \in Manifest(old.key, old.plan).lines
      BY <3>1, <3>3 DEF Manifest
    <3>5. m \in Manifest(r.key, r.plan).lines
      BY <2>0, <3>4
    <3>6. PICK k \in r.plan : k.signable /\ m = [name |-> k.name, state |-> k.state, over |-> Canonical(k.name, k.entry)]
      BY <3>5 DEF Manifest
    <3>7. Canonical(k.name, k.entry) = Canonical(l.name, l.entry)
      <4>1. m.over = Canonical(k.name, k.entry)
        BY <3>6
      <4>2. m.over = Canonical(l.name, l.entry)
        BY <3>3
      <4> QED BY <4>1, <4>2
    <3>8. \E x \in r.lines : /\ x.signable /\ x.name = Canonical(k.name, k.entry).name
                             /\ x.entry = Unlocated(Canonical(k.name, k.entry).entry)
      <4>1. r.lines = {Printed(x) : x \in r.plan} /\ r.plan \in SUBSET Lines
        BY <1>3, <2>0 DEF Shown, Printout
      <4>2. Printed(k) \in r.lines /\ k \in Lines
        BY <3>6, <4>1
      <4>3. Printed(k).signable /\ Printed(k).name = k.name /\ Printed(k).entry = Unlocated(k.entry)
        BY <3>6 DEF Printed
      <4>4. Canonical(k.name, k.entry).name = k.name
        BY DEF Canonical
      <4>5. Unlocated(Canonical(k.name, k.entry).entry) = Unlocated(k.entry)
        BY <4>2 DEF Canonical, Unlocated, Lines, Entries
      <4> QED BY <4>2, <4>3, <4>4, <4>5
    <3> QED BY <2>6, <3>2, <3>6, <3>7, <3>8 DEF Shows
  <2>8. r \in shown'
    BY <1>2, <1>4, <2>0 DEF TaskHolds
  <2>9. \A l \in t.todo : Good(l.entry) /\ \E x \in t.reviewed \intersect shown' : Shows(x, t.key, Canonical(l.name, l.entry))
    BY <2>0, <2>4, <2>7, <2>8
  <2>10. TaskHolds(t)'
    BY <2>4, <2>9 DEF TaskHolds
  <2> QED BY <1>1, <1>4, <2>4, <2>5, <2>10, ActsStay, TaskOnly
<1> QED BY <1>2, <1>5, <1>6 DEF ShowPlan, Rests

LEMMA ReportKeeps ==
  ASSUME RegInv, NEW p \in Clerks, ReportSignature(p) PROVE RegInv'
<1>1. /\ task[p].op = "report" /\ Turns(p, Resting)
      /\ UNCHANGED <<entries, sigs, approvals, held, seen, served, begun, clean, shown, vetted, acts>>
  BY DEF ReportSignature, Rests
<1>2. PICK old \in Reporting : old = task[p] /\ TaskHolds(old) /\ old.op = "report"
  BY <1>1, TaskTells, RegFacts
<1>3. old.name \in Names /\ old.born \in Nat /\ acts["register"] <= old.born
  BY <1>2 DEF Reporting, TaskHolds
<1>4. quiet' = quiet \/ (sigs[old.name] = NoSig /\ quiet' = quiet \union {<<old.name, old.born>>})
  BY <1>2 DEF ReportSignature, SaysUnsigned, SignatureState
<1>5. /\ begun' \in [Names -> Nat] /\ shown' \subseteq Shown /\ shown \subseteq shown'
      /\ \A n \in Names : begun'[n] >= begun[n]
  BY <1>1, RegFacts DEF RegTypes
<1>6. /\ quiet' \subseteq Names \X Nat
      /\ \A q \in quiet' : q \in quiet \/ (sigs[q[1]] = NoSig /\ acts'["register"] <= q[2])
  BY <1>1, <1>3, <1>4, RegFacts DEF RegTypes
<1>7. TaskHolds(Resting)'
  BY RestingIs DEF TaskHolds, Resting
<1> QED BY <1>1, <1>5, <1>6, <1>7, ActsStay, RestingIs, TaskOnly

LEMMA DeregisterKeeps ==
  ASSUME RegInv, NEW p \in Clerks, NEW n \in Names, NEW api \in BOOLEAN, Deregister(p, n, api) PROVE RegInv'
<1>1. /\ Counted("deregister") /\ begun' = [begun EXCEPT ![n] = begun[n] + 1]
      /\ UNCHANGED <<entries, sigs, approvals, held, seen, served, clean, quiet, shown, vetted>>
  BY DEF Deregister
<1>2. PICK t : t = [op |-> "remove", stage |-> "registry", name |-> n, at |-> begun[n] + 1, api |-> api, changed |-> FALSE]
  OBVIOUS
<1>3. begun \in [Names -> Nat] /\ begun[n] \in Nat
  BY RegFacts DEF RegTypes
<1>4. t \in Removing
  BY <1>2, <1>3 DEF Removing
<1>5. t \in Tasks /\ t.op = "remove" /\ t.stage = "registry" /\ t.name = n /\ t.at = begun[n] + 1
  BY <1>2, <1>4 DEF Tasks
<1>6. Turns(p, t)
  BY <1>2 DEF Deregister
<1>7. begun'[n] = begun[n] + 1 /\ begun' \in [Names -> Nat] /\ \A m \in Names : begun'[m] >= begun[m]
  BY <1>1, <1>3
<1>8. StagesAreClean(t)'
  BY <1>5, <1>7 DEF StagesAreClean
<1>9. TaskHolds(t)'
  BY <1>5, <1>8 DEF TaskHolds
<1>10. acts' \in [ActKinds -> Nat] /\ acts'["register"] <= acts["register"]
  BY <1>1, CountedIs DEF ActKinds
<1>11. shown' \subseteq Shown /\ shown \subseteq shown' /\ quiet' \subseteq Names \X Nat /\ quiet' = quiet
  BY <1>1, RegFacts DEF RegTypes
<1> QED BY <1>1, <1>5, <1>6, <1>7, <1>9, <1>10, <1>11, TaskOnly

(* A step of one process on the entries alone.                             *)
LEMMA EntriesOnly ==
  ASSUME RegInv, UNCHANGED <<sigs, approvals, held, seen, served, begun, clean, quiet, shown, vetted>>,
         acts' \in [ActKinds -> Nat], acts'["register"] <= acts["register"],
         entries' \in [Names -> Entries], \A n \in Names : entries'[n] # NoEntry => Good(entries'[n]),
         NEW p \in Clerks, NEW t \in Tasks, Turns(p, t), TaskHolds(t)'
  PROVE  RegInv'
<1>0. acts'["register"] \in Nat /\ acts["register"] \in Nat
  BY RegFacts DEF ActKinds
<1>1. Grown
  BY <1>0, RegFacts DEF Grown
<1>2. task' \in [Clerks -> Tasks] /\ \A q \in Clerks : TaskHolds(task[q])'
  BY <1>1, OthersHold
<1>3. RegTypes'
  BY <1>2, RegFacts DEF RegTypes
<1>4. EntriesAreGood'
  <2>1. \A n \in Names : (entries'[n] # NoEntry => Good(entries'[n])) /\ (seen'[n] # NoEntry => Good(seen'[n]))
    BY DEF RegInv, EntriesAreGood
  <2>2. \A v \in vetted' : Good(v[2])
    BY DEF RegInv, EntriesAreGood
  <2> QED BY <2>1, <2>2 DEF EntriesAreGood
<1>5. SigsAreVetted' /\ (RequireSigned => ServedIsVetted') /\ CleanIsClean' /\ LeftoverIsTold'
  BY DEF RegInv, SigsAreVetted, ServedIsVetted, CleanIsClean, LeftoverIsTold
<1>6. NothingLater'
  <2>1. \A n \in Names : approvals'[n] <= begun'[n] /\ held'[n] <= begun'[n] /\ clean'[n] <= begun'[n]
    BY RegFacts
  <2>2. ASSUME NEW q \in quiet PROVE acts'["register"] <= q[2]
    <3>1. q[2] \in Nat /\ acts["register"] <= q[2]
      BY RegFacts DEF RegInv, NothingLater, RegTypes
    <3> QED BY <1>0, <3>1
  <2> QED BY <2>1, <2>2 DEF NothingLater
<1> QED BY <1>2, <1>3, <1>4, <1>5, <1>6 DEF RegInv

LEMMA RegisterKeeps ==
  ASSUME RegInv, NEW p \in Clerks, NEW n \in Names, NEW e \in Requests, NEW api \in BOOLEAN, Register(p, n, e, api)
  PROVE  RegInv'
<1>1. /\ Counted("register") /\ validateEntry(e) /\ ~credentialedStdio(e)
      /\ entries' = [entries EXCEPT ![n] = e]
      /\ UNCHANGED <<sigs, approvals, held, seen, served, begun, clean, quiet, shown, vetted>>
  BY DEF Register, Insert
<1>2. acts' \in [ActKinds -> Nat] /\ acts'["register"] <= acts["register"]
  BY <1>1, CountedIs DEF ActKinds
<1>3. e \in Entries /\ Good(e)
  BY <1>1, RegistryAssumption DEF Good
<1>4. PICK b \in Nat : b = acts'["register"]
  BY <1>2 DEF ActKinds
<1>5. PICK t : t = [op |-> "report", name |-> n, entry |-> e, api |-> api, born |-> b]
  OBVIOUS
<1>6. t \in Reporting
  BY <1>3, <1>5 DEF Reporting
<1>7. t \in Tasks /\ t.op = "report" /\ t.entry = e /\ t.born = b
  BY <1>5, <1>6 DEF Tasks
<1>8. Turns(p, t)
  BY <1>4, <1>5 DEF Register
<1>9. TaskHolds(t)'
  BY <1>3, <1>4, <1>7 DEF TaskHolds
<1>10. entries \in [Names -> Entries] /\ \A m \in Names : entries[m] # NoEntry => Good(entries[m])
  BY RegFacts DEF RegTypes, RegInv, EntriesAreGood
<1>11. entries' \in [Names -> Entries] /\ \A m \in Names : entries'[m] # NoEntry => Good(entries'[m])
  BY <1>1, <1>3, <1>10
<1> QED BY <1>1, <1>2, <1>7, <1>8, <1>9, <1>11, EntriesOnly

(* An updated entry is still one that may be registered and run.           *)
LEMMA UpdatedIsGood ==
  ASSUME NEW e \in Entries, NEW i \in Images, Good(e), e.transport = "oci", Validate([e EXCEPT !.image = i])
  PROVE  [e EXCEPT !.image = i] \in Entries /\ Good([e EXCEPT !.image = i])
<1>1. PICK x : x = [e EXCEPT !.image = i]
  OBVIOUS
<1>2. x \in Entries /\ x.transport = "oci" /\ x.env = e.env /\ x.args = e.args
  BY <1>1 DEF Entries
<1>3. dialable(x) /\ ~credentialedStdio(x)
  BY <1>2 DEF dialable, credentialedStdio, Good, validateEntry
<1> QED BY <1>1, <1>2, <1>3 DEF Good, validateEntry

LEMMA UpdateImageKeeps ==
  ASSUME RegInv, NEW p \in Clerks, UpdateImage(p) PROVE RegInv'
<1>1. /\ task[p].op = "update"
      /\ UNCHANGED <<sigs, approvals, held, seen, served, begun, clean, quiet, shown, vetted, acts>>
  BY DEF UpdateImage
<1>2. PICK old \in Updating : old = task[p]
  BY <1>1, TaskTells, RegFacts
<1>3. PICK n \in Names, i \in Images : n = old.name /\ i = old.image
  BY DEF Updating
<1>4. CASE Turns(p, Resting) /\ entries' = entries
  <2>1. TaskHolds(Resting)'
    BY RestingIs DEF TaskHolds, Resting
  <2> QED BY <1>1, <1>4, <2>1, ActsStay, RestingIs, TaskAlone
<1>5. CASE StillRuns(n, i) /\ entries' = [entries EXCEPT ![n].image = i] /\ Turns(p, [op |-> "updated", name |-> n])
  <2>1. PICK t : t = [op |-> "updated", name |-> n]
    OBVIOUS
  <2>2. t \in Tasks /\ t.op = "updated"
    BY <2>1 DEF Tasks, Telling
  <2>3. TaskHolds(t)'
    BY <2>2 DEF TaskHolds
  <2>4. PICK e \in Entries : e = entries[n]
    BY RegFacts
  <2>5. e.transport = "oci" /\ Validate([e EXCEPT !.image = i])
    BY <1>5, <2>4 DEF StillRuns
  <2>6. e # NoEntry
    BY <2>5, NoEntryIs
  <2>7. Good(e)
    BY <2>4, <2>6 DEF RegInv, EntriesAreGood
  <2>8. PICK x \in Entries : x = [e EXCEPT !.image = i] /\ Good(x)
    BY <2>5, <2>7, UpdatedIsGood
  <2>9. entries' = [entries EXCEPT ![n] = x]
    BY <1>5, <2>4, <2>8
  <2>10. entries \in [Names -> Entries] /\ \A m \in Names : entries[m] # NoEntry => Good(entries[m])
    BY RegFacts DEF RegTypes, RegInv, EntriesAreGood
  <2>11. entries' \in [Names -> Entries] /\ \A m \in Names : entries'[m] # NoEntry => Good(entries'[m])
    BY <2>8, <2>9, <2>10
  <2> QED BY <1>1, <1>5, <2>1, <2>2, <2>3, <2>11, ActsStay, EntriesOnly
<1> QED BY <1>2, <1>3, <1>4, <1>5 DEF UpdateImage, Rests

LEMMA DeregisterStageKeeps ==
  ASSUME RegInv, NEW p \in Clerks, DeregisterStage(p) PROVE RegInv'
<1>1. /\ task[p].op = "remove" /\ task[p].stage # "answer"
      /\ UNCHANGED <<seen, served, begun, clean, shown, vetted, acts>>
  BY DEF DeregisterStage
<1>2. PICK old \in Removing : old = task[p] /\ TaskHolds(old) /\ old.op = "remove"
  BY <1>1, TaskTells, RegFacts
<1>3. PICK n \in Names : n = old.name
  BY DEF Removing
<1>4. PICK stage \in {"registry", "signature", "quarantine", "health"} : stage = old.stage
  BY <1>1, <1>2 DEF Removing
<1>5. /\ entries'   = IF stage = "registry"   THEN [entries EXCEPT ![n] = NoEntry] ELSE entries
      /\ sigs'      = IF stage = "signature"  THEN [sigs EXCEPT ![n] = NoSig]      ELSE sigs
      /\ approvals' = IF stage = "quarantine" THEN [approvals EXCEPT ![n] = 0]     ELSE approvals
      /\ held'      = IF stage = "health"     THEN [held EXCEPT ![n] = 0]          ELSE held
      /\ quiet'     = IF stage = "registry"   THEN {q \in quiet : q[1] # n}        ELSE quiet
  BY <1>2, <1>3, <1>4 DEF DeregisterStage
<1>6. PICK after \in {"signature", "quarantine", "health", "answer"} :
         /\ after = AfterStage(p)
         /\ after = "signature" <=> stage = "registry"
         /\ after = "quarantine" <=> stage = "signature"
         /\ after = "health" <=> stage = "quarantine"
         /\ after = "answer" <=> stage = "health"
  BY <1>2, <1>4 DEF AfterStage
<1>7. PICK found \in BOOLEAN : Turns(p, [old EXCEPT !.stage = after, !.changed = old.changed \/ found])
  <2>1. PICK found \in BOOLEAN : found = CASE stage = "registry"   -> entries[n] # NoEntry
                                           [] stage = "signature"  -> sigs[n] # NoSig
                                           [] stage = "quarantine" -> approvals[n] # 0
                                           [] OTHER                -> FALSE
    BY <1>4
  <2>2. Turns(p, [old EXCEPT !.stage = after, !.changed = old.changed \/ found])
    BY <1>2, <1>3, <1>4, <1>6, <2>1 DEF DeregisterStage
  <2> QED BY <2>2
<1>8. PICK b \in BOOLEAN : b = (old.changed \/ found)
  OBVIOUS
<1>9. PICK t : t = [old EXCEPT !.stage = after, !.changed = b]
  OBVIOUS
<1>10. t \in Removing
  BY <1>9 DEF Removing
<1>11. t.op = "remove" /\ t.stage = after /\ t.name = n /\ t.at = old.at
  BY <1>3, <1>9 DEF Removing
<1>12. t \in Tasks
  BY <1>10 DEF Tasks
<1>13. Turns(p, t)
  BY <1>7, <1>8, <1>9
<1>14. /\ entries \in [Names -> Entries] /\ sigs \in [Names -> Signatures] /\ approvals \in [Names -> Nat]
       /\ held \in [Names -> Nat]
  BY RegFacts DEF RegTypes
<1>15. /\ entries' \in [Names -> Entries] /\ \A m \in Names : entries'[m] \in {entries[m], NoEntry}
  BY <1>5, <1>14, NoEntryIs
<1>16. /\ sigs' \in [Names -> Signatures] /\ \A m \in Names : sigs'[m] = sigs[m] \/ sigs'[m] = NoSig
  BY <1>5, <1>14 DEF Signatures
<1>17. /\ approvals' \in [Names -> Nat] /\ \A m \in Names : approvals'[m] \in {approvals[m], 0}
  BY <1>5, <1>14
<1>18. /\ held' \in [Names -> Nat] /\ \A m \in Names : held'[m] \in {held[m], 0}
  BY <1>5, <1>14
<1>19. quiet' \subseteq quiet
  BY <1>5
<1>20. StagesAreClean(t)'
  <2>1. StagesAreClean(old)
    BY <1>2 DEF TaskHolds
  <2>2. old.at \in Nat /\ begun[n] \in Nat
    BY RegFacts DEF Removing
  <2>3. t.at <= begun'[n]
    BY <1>1, <1>3, <1>11, <2>1 DEF StagesAreClean
  <2>4. t.stage \in {"quarantine", "health", "answer"} => (sigs'[n] # NoSig => sigs'[n].at >= t.at)
    BY <1>3, <1>4, <1>5, <1>6, <1>11, <1>14, <2>1 DEF StagesAreClean
  <2>5. t.stage \in {"health", "answer"} => (approvals'[n] # 0 => approvals'[n] >= t.at)
    BY <1>3, <1>4, <1>5, <1>6, <1>11, <1>14, <2>1 DEF StagesAreClean
  <2>6. t.stage = "answer" => (held'[n] # 0 => held'[n] >= t.at)
    BY <1>3, <1>4, <1>5, <1>6, <1>11, <1>14, <2>1 DEF StagesAreClean
  <2> QED BY <1>11, <2>3, <2>4, <2>5, <2>6 DEF StagesAreClean
<1>21. TaskHolds(t)'
  BY <1>11, <1>20 DEF TaskHolds
<1>22. Grown
  BY <1>1, <1>16, <1>17, <1>18, RegFacts DEF Grown
<1>23. task' \in [Clerks -> Tasks] /\ \A q \in Clerks : TaskHolds(task[q])'
  BY <1>12, <1>13, <1>21, <1>22, OthersHold
<1>24. RegTypes'
  BY <1>1, <1>15, <1>16, <1>17, <1>18, <1>19, <1>23, RegFacts DEF RegTypes
<1>25. EntriesAreGood'
  <2>1. \A m \in Names : (entries'[m] # NoEntry => Good(entries'[m])) /\ (seen'[m] # NoEntry => Good(seen'[m]))
    BY <1>1, <1>15 DEF RegInv, EntriesAreGood
  <2>2. \A v \in vetted' : Good(v[2])
    BY <1>1 DEF RegInv, EntriesAreGood
  <2> QED BY <2>1, <2>2 DEF EntriesAreGood
<1>26. SigsAreVetted'
  BY <1>1, <1>16 DEF RegInv, SigsAreVetted
<1>27. RequireSigned => ServedIsVetted'
  BY <1>1 DEF RegInv, ServedIsVetted
<1>28. NothingLater'
  BY <1>1, <1>17, <1>18, <1>19, RegFacts DEF RegInv, NothingLater
<1>29. CleanIsClean'
  BY <1>1, <1>16, <1>17, <1>18 DEF RegInv, CleanIsClean
<1>30. LeftoverIsTold'
  <2> SUFFICES ASSUME NEW q \in quiet', sigs'[q[1]] # NoSig PROVE sigs'[q[1]].reg <= q[2]
    BY DEF LeftoverIsTold
  <2>1. q \in quiet /\ q[1] \in Names
    BY <1>19, RegFacts DEF RegTypes
  <2>2. sigs'[q[1]] = sigs[q[1]]
    BY <1>16, <2>1
  <2> QED BY <2>1, <2>2 DEF RegInv, LeftoverIsTold
<1> QED BY <1>23, <1>24, <1>25, <1>26, <1>27, <1>28, <1>29, <1>30 DEF RegInv

LEMMA DeregisterAnswerKeeps ==
  ASSUME RegInv, NEW p \in Clerks, DeregisterAnswer(p) PROVE RegInv'
<1>1. /\ task[p].op = "remove" /\ task[p].stage = "answer" /\ Turns(p, Resting)
      /\ UNCHANGED <<entries, sigs, approvals, held, seen, served, begun, quiet, shown, vetted, acts>>
  BY DEF DeregisterAnswer, Rests
<1>2. PICK old \in Removing : old = task[p] /\ TaskHolds(old) /\ old.op = "remove" /\ old.stage = "answer"
  BY <1>1, TaskTells, RegFacts
<1>3. PICK n \in Names, at \in Nat : n = old.name /\ at = old.at
  BY DEF Removing
<1>4. clean' = [clean EXCEPT ![n] = IF at > clean[n] THEN at ELSE clean[n]]
  BY <1>2, <1>3 DEF DeregisterAnswer
<1>5. clean \in [Names -> Nat]
  BY RegFacts DEF RegTypes
<1>6. /\ clean' \in [Names -> Nat] /\ \A m \in Names : clean'[m] = clean[m] \/ (m = n /\ clean'[m] = at)
  BY <1>4, <1>5
<1>7. /\ at <= begun[n] /\ (sigs[n] # NoSig => sigs[n].at >= at) /\ (approvals[n] # 0 => approvals[n] >= at)
      /\ (held[n] # 0 => held[n] >= at)
  BY <1>2, <1>3 DEF TaskHolds, StagesAreClean
<1>8. TaskHolds(Resting)'
  BY RestingIs DEF TaskHolds, Resting
<1>9. Grown
  BY <1>1, RegFacts DEF Grown
<1>10. task' \in [Clerks -> Tasks] /\ \A q \in Clerks : TaskHolds(task[q])'
  BY <1>1, <1>8, <1>9, RestingIs, OthersHold
<1>11. RegTypes'
  BY <1>1, <1>6, <1>10, RegFacts DEF RegTypes
<1>12. EntriesAreGood'
  <2>1. \A m \in Names : (entries'[m] # NoEntry => Good(entries'[m])) /\ (seen'[m] # NoEntry => Good(seen'[m]))
    BY <1>1 DEF RegInv, EntriesAreGood
  <2>2. \A v \in vetted' : Good(v[2])
    BY <1>1 DEF RegInv, EntriesAreGood
  <2> QED BY <2>1, <2>2 DEF EntriesAreGood
<1>13. SigsAreVetted' /\ (RequireSigned => ServedIsVetted') /\ LeftoverIsTold'
  BY <1>1 DEF RegInv, SigsAreVetted, ServedIsVetted, LeftoverIsTold
<1>14. NothingLater'
  BY <1>1, <1>6, <1>7, RegFacts DEF RegInv, NothingLater
<1>15. CleanIsClean'
  BY <1>1, <1>6, <1>7 DEF RegInv, CleanIsClean
<1> QED BY <1>10, <1>11, <1>12, <1>13, <1>14, <1>15 DEF RegInv

(* A signature is stored: what was read is vetted, whatever is there now.  *)
LEMMA StoredKeeps ==
  ASSUME RegInv, NEW n \in Names, NEW k \in SigningKeys, NEW e \in Entries, NEW all \in BOOLEAN, Good(e),
         Stored(n, k, e, all),
         UNCHANGED <<entries, approvals, held, seen, served, begun, clean, quiet, shown, acts>>,
         NEW p \in Clerks, NEW t \in Tasks, Turns(p, t), TaskHolds(t)'
  PROVE  RegInv'
<1>1. PICK c \in Covers : c = Canonical(n, e)
  BY CanonicalIs
<1>2. PICK s : s = [key |-> k, over |-> c, at |-> begun[n], reg |-> acts["register"], all |-> all]
  OBVIOUS
<1>3. sigs' = [sigs EXCEPT ![n] = s] /\ vetted' = vetted \union {<<n, e, k>>}
  BY <1>1, <1>2 DEF Stored
<1>4. s \in Signatures /\ s.key = k /\ s.over = c /\ s.at = begun[n] /\ s.reg = acts["register"]
  BY <1>2, RegFacts DEF Signatures
<1>5. sigs \in [Names -> Signatures]
  BY RegFacts DEF RegTypes
<1>6. sigs' \in [Names -> Signatures] /\ sigs'[n] = s /\ \A m \in Names : m # n => sigs'[m] = sigs[m]
  BY <1>3, <1>4, <1>5
<1>7. Grown
  <2>1. \A m \in Names : sigs'[m] = sigs[m] \/ (sigs'[m].at \in Nat /\ sigs'[m].at >= begun[m])
    BY <1>4, <1>6, RegFacts
  <2> QED BY <2>1, RegFacts DEF Grown
<1>8. task' \in [Clerks -> Tasks] /\ \A q \in Clerks : TaskHolds(task[q])'
  BY <1>7, OthersHold
<1>9. vetted' \subseteq Names \X Entries \X SigningKeys
  BY <1>3, RegFacts DEF RegTypes
<1>10. RegTypes'
  BY <1>6, <1>8, <1>9, RegFacts DEF RegTypes
<1>11. EntriesAreGood'
  <2>1. \A m \in Names : (entries'[m] # NoEntry => Good(entries'[m])) /\ (seen'[m] # NoEntry => Good(seen'[m]))
    BY DEF RegInv, EntriesAreGood
  <2>2. \A v \in vetted' : Good(v[2])
    <3>1. \A v \in vetted : Good(v[2])
      BY DEF RegInv, EntriesAreGood
    <3> QED BY <1>3, <3>1
  <2> QED BY <2>1, <2>2 DEF EntriesAreGood
<1>12. SigsAreVetted'
  <2> SUFFICES ASSUME NEW m \in Names, sigs'[m] # NoSig
               PROVE  \E x \in Entries : <<m, x, sigs'[m].key>> \in vetted' /\ sigs'[m].over = Canonical(m, x)
    BY DEF SigsAreVetted
  <2>1. CASE m = n
    BY <1>1, <1>3, <1>4, <1>6, <2>1
  <2>2. CASE m # n
    <3>1. PICK x \in Entries : <<m, x, sigs[m].key>> \in vetted /\ sigs[m].over = Canonical(m, x)
      BY <1>6, <2>2 DEF RegInv, SigsAreVetted
    <3> QED BY <1>3, <1>6, <2>2, <3>1
  <2> QED BY <2>1, <2>2
<1>13. NothingLater'
  BY DEF RegInv, NothingLater
<1>14. CleanIsClean'
  <2> SUFFICES ASSUME NEW m \in Names
               PROVE  /\ sigs'[m] # NoSig => sigs'[m].at >= clean[m]
                      /\ approvals[m] # 0 => approvals[m] >= clean[m]
                      /\ held[m] # 0 => held[m] >= clean[m]
    BY DEF CleanIsClean
  <2>1. CASE m = n
    BY <1>4, <1>6, <2>1, RegFacts DEF RegInv, CleanIsClean
  <2>2. CASE m # n
    BY <1>6, <2>2 DEF RegInv, CleanIsClean
  <2> QED BY <2>1, <2>2
<1>15. LeftoverIsTold'
  <2> SUFFICES ASSUME NEW q \in quiet, sigs'[q[1]] # NoSig PROVE sigs'[q[1]].reg <= q[2]
    BY DEF LeftoverIsTold
  <2>1. q[1] \in Names
    BY RegFacts DEF RegTypes
  <2>2. CASE q[1] = n
    <3>1. acts["register"] <= q[2]
      BY DEF RegInv, NothingLater
    <3> QED BY <1>4, <1>6, <2>2, <3>1
  <2>3. CASE q[1] # n
    BY <1>6, <2>1, <2>3 DEF RegInv, LeftoverIsTold
  <2> QED BY <2>2, <2>3
<1>16. RequireSigned => ServedIsVetted'
  <2>1. vetted \subseteq vetted'
    BY <1>3
  <2> QED BY <2>1 DEF RegInv, ServedIsVetted
<1> QED BY <1>8, <1>10, <1>11, <1>12, <1>13, <1>14, <1>15, <1>16 DEF RegInv

LEMMA SignPutKeeps ==
  ASSUME RegInv, NEW p \in Clerks, SignPut(p) PROVE RegInv'
<1>1. /\ task[p].op = "sign"
      /\ UNCHANGED <<entries, approvals, held, seen, served, begun, clean, quiet, shown, acts>>
  BY DEF SignPut
<1>2. PICK old \in Signing : old = task[p] /\ TaskHolds(old) /\ old.op = "sign"
  BY <1>1, TaskTells, RegFacts
<1>3. /\ old.name \in Names /\ old.key \in SigningKeys /\ old.entry \in Entries /\ Good(old.entry)
      /\ Stored(old.name, old.key, old.entry, FALSE)
  BY <1>2 DEF Signing, TaskHolds, SignPut
<1>4. CASE Turns(p, Resting)
  <2>1. TaskHolds(Resting)'
    BY RestingIs DEF TaskHolds, Resting
  <2> QED BY <1>1, <1>3, <1>4, <2>1, RestingIs, StoredKeeps
<1>5. CASE Turns(p, [op |-> "signed", name |-> old.name])
  <2>1. PICK t : t = [op |-> "signed", name |-> old.name]
    OBVIOUS
  <2>2. t \in Tasks /\ t.op = "signed"
    BY <1>3, <2>1 DEF Tasks, Telling
  <2>3. TaskHolds(t)'
    BY <2>2 DEF TaskHolds
  <2> QED BY <1>1, <1>3, <1>5, <2>1, <2>2, <2>3, StoredKeeps
<1> QED BY <1>2, <1>4, <1>5 DEF SignPut, ChildSigned, Rests

LEMMA SignPlannedKeeps ==
  ASSUME RegInv, NEW p \in Clerks, NEW l, SignPlanned(p, l) PROVE RegInv'
<1>1. /\ task[p].op = "signing" /\ l \in task[p].todo
      /\ UNCHANGED <<entries, approvals, held, seen, served, begun, clean, quiet, shown, acts>>
  BY DEF SignPlanned
<1>2. PICK old \in SigningAll : old = task[p] /\ TaskHolds(old) /\ old.op = "signing"
  BY <1>1, TaskTells, RegFacts
<1>3. l \in Lines /\ old.key \in SigningKeys /\ Good(l.entry)
  BY <1>1, <1>2 DEF SigningAll, TaskHolds
<1>4. l.name \in Names /\ l.entry \in Entries /\ Stored(l.name, old.key, l.entry, TRUE)
  BY <1>2, <1>3 DEF Lines, SignPlanned
<1>5. CASE Turns(p, Resting)
  <2>1. TaskHolds(Resting)'
    BY RestingIs DEF TaskHolds, Resting
  <2> QED BY <1>1, <1>3, <1>4, <1>5, <2>1, RestingIs, StoredKeeps
<1>6. CASE Turns(p, [old EXCEPT !.todo = old.todo \ {l}])
  <2>1. PICK t : t = [old EXCEPT !.todo = old.todo \ {l}]
    OBVIOUS
  <2>2. t \in SigningAll /\ t.todo = old.todo \ {l} /\ t.key = old.key /\ t.reviewed = old.reviewed /\ t.op = "signing"
    BY <1>2, <2>1 DEF SigningAll
  <2>3. t \in Tasks
    BY <2>2 DEF Tasks
  <2>4. \A m \in t.todo : Good(m.entry) /\ \E r \in t.reviewed \intersect shown' : Shows(r, t.key, Canonical(m.name, m.entry))
    BY <1>1, <1>2, <2>2 DEF TaskHolds
  <2>5. TaskHolds(t)'
    BY <2>2, <2>4 DEF TaskHolds
  <2> QED BY <1>1, <1>3, <1>4, <1>6, <2>1, <2>3, <2>5, StoredKeeps
<1> QED BY <1>2, <1>5, <1>6 DEF SignPlanned

(* A step of the gateway, or of the operators on what it serves.           *)
LEMMA GatewayOnly ==
  ASSUME RegInv, UNCHANGED <<entries, sigs, task, begun, clean, quiet, shown, vetted, acts>>,
         seen' \in [Names -> Entries], \A n \in Names : seen'[n] # NoEntry => Good(seen'[n]),
         served' \in [Names -> Entries], RequireSigned => ServedIsVetted',
         approvals' \in [Names -> Nat], \A n \in Names : approvals'[n] \in {approvals[n], begun[n]},
         held' \in [Names -> Nat], \A n \in Names : held'[n] \in {held[n], begun[n]}
  PROVE  RegInv'
<1>1. Grown
  BY RegFacts DEF Grown
<1>2. \A q \in Clerks : TaskHolds(task[q])'
  BY <1>1, OneHolds
<1>3. RegTypes'
  BY RegFacts DEF RegTypes
<1>4. EntriesAreGood'
  <2>1. \A m \in Names : (entries'[m] # NoEntry => Good(entries'[m])) /\ (seen'[m] # NoEntry => Good(seen'[m]))
    BY DEF RegInv, EntriesAreGood
  <2>2. \A v \in vetted' : Good(v[2])
    BY DEF RegInv, EntriesAreGood
  <2> QED BY <2>1, <2>2 DEF EntriesAreGood
<1>5. SigsAreVetted' /\ LeftoverIsTold'
  BY DEF RegInv, SigsAreVetted, LeftoverIsTold
<1>6. NothingLater'
  BY RegFacts DEF RegInv, NothingLater
<1>7. CleanIsClean'
  BY RegFacts DEF RegInv, CleanIsClean
<1> QED BY <1>2, <1>3, <1>4, <1>5, <1>6, <1>7 DEF RegInv

LEMMA RoundReadsKeeps ==
  ASSUME RegInv, RoundReads PROVE RegInv'
<1>1. seen' = entries /\ UNCHANGED <<entries, sigs, approvals, held, task, served, begun, clean, quiet, shown, vetted, acts>>
  BY DEF RoundReads
<1>2. /\ seen' \in [Names -> Entries] /\ served' \in [Names -> Entries] /\ approvals' \in [Names -> Nat]
      /\ held' \in [Names -> Nat]
  BY <1>1, RegFacts DEF RegTypes
<1>3. \A n \in Names : seen'[n] # NoEntry => Good(seen'[n])
  BY <1>1 DEF RegInv, EntriesAreGood
<1>4. RequireSigned => ServedIsVetted'
  BY <1>1 DEF RegInv, ServedIsVetted
<1> QED BY <1>1, <1>2, <1>3, <1>4, GatewayOnly

(* The round serves what was read before the signature was: the signature  *)
(* covers it only when it is the entry that was vetted.                    *)
LEMMA RoundVerifiesKeeps ==
  ASSUME RegInv, NEW n \in Names, RoundVerifies(n) PROVE RegInv'
<1>1. UNCHANGED <<entries, sigs, approvals, held, task, seen, begun, clean, quiet, shown, vetted, acts>>
  BY DEF RoundVerifies
<1>2. PICK e \in Entries : e = seen[n]
  BY RegFacts
<1>3. PICK x \in Entries : /\ served' = [served EXCEPT ![n] = x]
                           /\ x # NoEntry => x = e /\ Accepted(n, e)
  BY <1>2, NoEntryIs DEF RoundVerifies
<1>4. served \in [Names -> Entries]
  BY RegFacts DEF RegTypes
<1>5. served' \in [Names -> Entries] /\ served'[n] = x /\ \A m \in Names : m # n => served'[m] = served[m]
  BY <1>3, <1>4
<1>6. ASSUME RequireSigned PROVE ServedIsVetted'
  <2> SUFFICES ASSUME NEW m \in Names, served'[m] # NoEntry
               PROVE  \E v \in vetted' : v[1] = m /\ v[2] = served'[m] /\ v[3] \in Trusted
    BY DEF ServedIsVetted
  <2>1. CASE m # n
    BY <1>1, <1>5, <1>6, <2>1 DEF RegInv, ServedIsVetted
  <2>2. CASE m = n
    <3>1. x # NoEntry /\ x = e /\ served'[m] = e
      BY <1>3, <1>5, <2>2
    <3>2. sigs[n] # NoSig /\ sigs[n].key \in Trusted /\ sigs[n].over = Canonical(n, e)
      BY <1>3, <1>6, <3>1 DEF Accepted, Verify
    <3>3. PICK y \in Entries : <<n, y, sigs[n].key>> \in vetted /\ sigs[n].over = Canonical(n, y)
      BY <3>2 DEF RegInv, SigsAreVetted
    <3>4. Good(e)
      BY <1>2, <3>1 DEF RegInv, EntriesAreGood
    <3>5. Good(y)
      <4>1. Good(<<n, y, sigs[n].key>>[2])
        BY <3>3 DEF RegInv, EntriesAreGood
      <4> QED BY <4>1
    <3>6. e = y
      BY <3>2, <3>3, <3>4, <3>5, CanonicalIs
    <3>7. PICK v \in vetted : v = <<n, y, sigs[n].key>>
      BY <3>3
    <3>8. v[1] = n /\ v[2] = y /\ v[3] = sigs[n].key
      BY <3>7
    <3> QED BY <1>1, <2>2, <3>1, <3>2, <3>6, <3>8
  <2> QED BY <2>1, <2>2
<1>7. /\ seen' \in [Names -> Entries] /\ approvals' \in [Names -> Nat] /\ held' \in [Names -> Nat]
  BY <1>1, RegFacts DEF RegTypes
<1>8. \A m \in Names : seen'[m] # NoEntry => Good(seen'[m])
  BY <1>1 DEF RegInv, EntriesAreGood
<1> QED BY <1>1, <1>5, <1>6, <1>7, <1>8, GatewayOnly

LEMMA UnderServedKeeps ==
  ASSUME RegInv, NEW n \in Names, Approve(n) \/ Hold(n) PROVE RegInv'
<1>1. /\ UNCHANGED <<entries, sigs, task, seen, served, begun, clean, quiet, shown, vetted, acts>>
      /\ approvals' = approvals \/ approvals' = [approvals EXCEPT ![n] = begun[n]]
      /\ held' = held \/ held' = [held EXCEPT ![n] = begun[n]]
  BY DEF Approve, Hold
<1>2. /\ approvals \in [Names -> Nat] /\ held \in [Names -> Nat] /\ begun[n] \in Nat
      /\ seen \in [Names -> Entries] /\ served \in [Names -> Entries]
  BY RegFacts DEF RegTypes
<1>3. approvals' \in [Names -> Nat] /\ \A m \in Names : approvals'[m] \in {approvals[m], begun[m]}
  BY <1>1, <1>2
<1>4. held' \in [Names -> Nat] /\ \A m \in Names : held'[m] \in {held[m], begun[m]}
  BY <1>1, <1>2
<1>5. \A m \in Names : seen'[m] # NoEntry => Good(seen'[m])
  BY <1>1 DEF RegInv, EntriesAreGood
<1>6. RequireSigned => ServedIsVetted'
  BY <1>1 DEF RegInv, ServedIsVetted
<1> QED BY <1>1, <1>2, <1>3, <1>4, <1>5, <1>6, GatewayOnly

(* The registry starts empty.                                              *)
LEMMA RegInitHolds ==
  ASSUME RegInit PROVE RegInv
<1>1. /\ entries = [n \in Names |-> NoEntry] /\ sigs = [n \in Names |-> NoSig]
      /\ approvals = [n \in Names |-> 0] /\ held = [n \in Names |-> 0]
      /\ task = [p \in Clerks |-> Resting] /\ seen = entries /\ served = entries
      /\ begun = [n \in Names |-> 1] /\ clean = [n \in Names |-> 0]
      /\ quiet = {} /\ shown = {} /\ vetted = {} /\ acts \in [ActKinds -> Nat]
  BY RegistryAssumption DEF RegInit
<1>2. RegTypes
  BY <1>1, NoEntryIs, RestingIs DEF RegTypes, Signatures
<1>3. EntriesAreGood /\ SigsAreVetted /\ ServedIsVetted /\ LeftoverIsTold
  BY <1>1 DEF EntriesAreGood, SigsAreVetted, ServedIsVetted, LeftoverIsTold
<1>4. NothingLater /\ CleanIsClean
  BY <1>1 DEF NothingLater, CleanIsClean
<1>5. \A p \in Clerks : TaskHolds(task[p])
  BY <1>1, RestingIs
<1> QED BY <1>2, <1>3, <1>4, <1>5 DEF RegInv

LEMMA RegNextKeeps ==
  ASSUME RegInv, RegNext PROVE RegInv'
<1>1. ASSUME NEW p \in Clerks, NEW n \in Names, NEW api \in BOOLEAN,
             \/ \E e \in Requests : Register(p, n, e, api)
             \/ Deregister(p, n, api)
             \/ \E k \in SigningKeys : Sign(p, n, k, api)
      PROVE  RegInv'
  BY <1>1, RegisterKeeps, DeregisterKeeps, SignKeeps
<1>2. ASSUME NEW p \in Clerks, NEW n \in Names, NEW i \in Images, UpdateRead(p, n, i) PROVE RegInv'
  BY <1>2, UpdateReadKeeps
<1>3. ASSUME NEW p \in Clerks, NEW k \in SigningKeys, SignAll(p, k, {}) \/ \E r \in shown : SignAll(p, k, {r})
      PROVE  RegInv'
  <2>1. PICK reviewed \in SUBSET shown : SignAll(p, k, reviewed)
    BY <1>3
  <2> QED BY <2>1, SignAllKeeps
<1>4. ASSUME NEW p \in Clerks,
             \/ ReportSignature(p) \/ UpdateImage(p) \/ UpdateRecorded(p)
             \/ DeregisterStage(p) \/ DeregisterAnswer(p) \/ Abandon(p)
             \/ SignPut(p) \/ SignRecorded(p) \/ ShowPlan(p)
      PROVE  RegInv'
  BY <1>4, ReportKeeps, UpdateImageKeeps, RecordedKeeps, DeregisterStageKeeps, DeregisterAnswerKeeps, AbandonKeeps,
     SignPutKeeps, ShowPlanKeeps
<1>5. ASSUME NEW p \in Clerks, \E ne \in task[p].todo : PlanEntry(p, ne) PROVE RegInv'
  BY <1>5, PlanEntryKeeps
<1>6. ASSUME NEW p \in Clerks, \E l \in task[p].todo : SignPlanned(p, l) PROVE RegInv'
  BY <1>6, SignPlannedKeeps
<1>7. ASSUME NEW n \in Names, RoundVerifies(n) \/ Approve(n) \/ Hold(n) PROVE RegInv'
  BY <1>7, RoundVerifiesKeeps, UnderServedKeeps
<1> QED BY <1>1, <1>2, <1>3, <1>4, <1>5, <1>6, <1>7, RoundReadsKeeps DEF RegNext

LEMMA RegStutterKeeps ==
  ASSUME RegInv, UNCHANGED regVars PROVE RegInv'
<1>1. UNCHANGED <<entries, sigs, approvals, held, task, seen, served, begun, clean, quiet, shown, vetted, acts>>
  BY DEF regVars
<1>2. /\ seen' \in [Names -> Entries] /\ served' \in [Names -> Entries] /\ approvals' \in [Names -> Nat]
      /\ held' \in [Names -> Nat]
  BY <1>1, RegFacts DEF RegTypes
<1>3. \A m \in Names : seen'[m] # NoEntry => Good(seen'[m])
  BY <1>1 DEF RegInv, EntriesAreGood
<1>4. RequireSigned => ServedIsVetted'
  BY <1>1 DEF RegInv, ServedIsVetted
<1> QED BY <1>1, <1>2, <1>3, <1>4, GatewayOnly

(* The inductive invariant of the registry: every entry stored, read or    *)
(* about to be signed is one its dialer accepts, every signature covers an *)
(* entry that was vetted, a deregistration keeps clean what it has behind  *)
(* it, a plan being signed was reviewed (cmd upstream and sign,            *)
(* internal/registry, internal/signer).                                    *)
THEOREM RegInvAlways == RegSpec => []RegInv
<1>1. RegInit => RegInv
  BY RegInitHolds
<1>2. RegInv /\ [RegNext]_regVars => RegInv'
  BY RegNextKeeps, RegStutterKeeps
<1> QED BY <1>1, <1>2, PTL DEF RegSpec

(* Where signatures are required, for any number of processes and names:   *)
(* nothing of an earlier entry clings to a name, whatever fails or dies    *)
(* between two transactions (verifyEntry, deregisterEntry,                 *)
(* entrySignatureState).                                                   *)
THEOREM NothingEverClings ==
  ASSUME RequireSigned
  PROVE  RegSpec => []NothingClings
<1>1. ASSUME RegInv PROVE NothingClings
  <2>1. \A n \in Names : entries[n] # NoEntry => validateEntry(entries[n]) /\ ~credentialedStdio(entries[n])
    BY <1>1 DEF RegInv, EntriesAreGood, Good
  <2>2. \A n \in Names : sigs[n] = NoSig \/ sigs[n].key \in SigningKeys
    BY <1>1, RegFacts DEF Signatures
  <2>3. RegTypeOK
    BY <1>1, <2>1, <2>2, RegFacts DEF RegTypeOK
  <2> QED BY <1>1, <2>3 DEF RegInv, NothingClings
<1>2. RegInv => NothingClings
  BY <1>1
<1> QED BY <1>2, RegInvAlways, PTL

(* Only SignPlanned stores a signature of sign -all.                       *)
LEMMA SignaturesOfAll ==
  ASSUME RegInv, [RegNext]_regVars, NEW n \in Names, sigs'[n] # sigs[n], sigs'[n].all
  PROVE  \E p \in Clerks : \E l \in task[p].todo : SignPlanned(p, l)
<1>1. ASSUME NEW p \in Clerks, SignPut(p) PROVE FALSE
  <2>1. task[p].op = "sign"
    BY <1>1 DEF SignPut
  <2>2. PICK old \in Signing : old = task[p]
    BY <2>1, TaskTells, RegFacts
  <2>3. PICK m \in Names : m = old.name
    BY DEF Signing
  <2>4. PICK s : sigs' = [sigs EXCEPT ![m] = s] /\ s.all = FALSE
    BY <1>1, <2>2, <2>3 DEF SignPut, Stored
  <2> QED BY <2>4, RegFacts DEF RegTypes
<1>2. ASSUME NEW p \in Clerks, DeregisterStage(p) PROVE FALSE
  <2>1. PICK m : sigs' = [sigs EXCEPT ![m] = NoSig] \/ sigs' = sigs
    BY <1>2 DEF DeregisterStage
  <2>2. NoSig.all = FALSE
    BY DEF NoSig
  <2> QED BY <2>1, <2>2, RegFacts DEF RegTypes
<1>3. sigs' # sigs
  OBVIOUS
<1> QED BY ZenonT(40), <1>1, <1>2, <1>3 DEF RegNext, regVars, Register, Deregister, Sign, UpdateRead, SignAll, ReportSignature,
           UpdateImage, UpdateRecorded, DeregisterAnswer, Abandon, SignRecorded, ShowPlan, PlanEntry, RoundReads,
           RoundVerifies, Approve, Hold

(* Every signature that sign -all stores is over an entry that a plan,     *)
(* printed by an earlier run and reviewed, had a line of for that key,     *)
(* with the very fields the signature covers, printed or not, for any      *)
(* number of processes that sign beside it (signPlanManifest, runSignAll). *)
THEOREM SignedWasAlwaysShown == RegSpec => SignedWasShown
<1>1. ASSUME RegInv, [RegNext]_regVars, NEW n \in Names, sigs'[n] # sigs[n], sigs'[n].all
      PROVE  \E p \in Clerks :
               /\ task[p].op = "signing"
               /\ \E r \in task[p].reviewed \intersect shown : Shows(r, sigs'[n].key, sigs'[n].over)
  <2>1. PICK p \in Clerks : \E l \in task[p].todo : SignPlanned(p, l)
    BY <1>1, SignaturesOfAll
  <2>2. PICK l \in task[p].todo : SignPlanned(p, l)
    BY <2>1
  <2>3. task[p].op = "signing"
    BY <2>2 DEF SignPlanned
  <2>4. PICK old \in SigningAll : old = task[p] /\ TaskHolds(old) /\ old.op = "signing"
    BY <1>1, <2>3, TaskTells, RegFacts
  <2>5. l \in Lines /\ l.name \in Names
    BY <2>2, <2>4 DEF SigningAll, Lines
  <2>6. PICK s : s = [key |-> old.key, over |-> Canonical(l.name, l.entry), at |-> begun[l.name],
                      reg |-> acts["register"], all |-> TRUE]
    OBVIOUS
  <2>7. sigs' = [sigs EXCEPT ![l.name] = s]
    BY <2>2, <2>4, <2>6 DEF SignPlanned, Stored
  <2>8. l.name = n /\ sigs'[n] = s
    BY <1>1, <2>5, <2>7, RegFacts DEF RegTypes
  <2>9. sigs'[n].key = old.key /\ sigs'[n].over = Canonical(l.name, l.entry)
    BY <2>6, <2>8
  <2>10. PICK r \in old.reviewed \intersect shown : Shows(r, old.key, Canonical(l.name, l.entry))
    BY <2>2, <2>4 DEF TaskHolds
  <2> QED BY <2>3, <2>4, <2>9, <2>10
<1>2. RegInv /\ [RegNext]_regVars =>
        [\A n \in Names : sigs'[n] # sigs[n] /\ sigs'[n].all =>
           \E p \in Clerks :
             /\ task[p].op = "signing"
             /\ \E r \in task[p].reviewed \intersect shown : Shows(r, sigs'[n].key, sigs'[n].over)]_regVars
  BY <1>1
<1> QED BY <1>2, RegInvAlways, PTL DEF RegSpec, SignedWasShown

-----------------------------------------------------------------------------
(* Backup and restore.                                                    *)

(* A sequence with one place changed, and with one more place.             *)
LEMMA Changed ==
  ASSUME NEW s \in Seq(DbRec), NEW d \in 1 .. Len(s), NEW x \in DbRec
  PROVE  /\ [s EXCEPT ![d] = x] \in Seq(DbRec) /\ Len([s EXCEPT ![d] = x]) = Len(s)
         /\ [s EXCEPT ![d] = x][d] = x /\ \A e \in 1 .. Len(s) : e # d => [s EXCEPT ![d] = x][e] = s[e]
OBVIOUS

LEMMA Added ==
  ASSUME NEW s \in Seq(DbRec), NEW x \in DbRec
  PROVE  /\ Append(s, x) \in Seq(DbRec) /\ Len(Append(s, x)) = Len(s) + 1
         /\ Append(s, x)[Len(s) + 1] = x /\ \A e \in 1 .. Len(s) : Append(s, x)[e] = s[e]
OBVIOUS

LEMMA DbIs ==
  ASSUME NEW m \in SUBSET Nat, NEW w \in SUBSET Nat, NEW g \in Grades
  PROVE  Db(m, w, g) \in DbRec /\ Db(m, w, g).main = m /\ Db(m, w, g).wal = w /\ Db(m, w, g).grade = g
BY DEF Db, DbRec

LEMMA FileIs ==
  ASSUME NEW r \in SUBSET Nat, NEW f \in SUBSET Nat, NEW g \in Grades
  PROVE  /\ File(r, f, g) \in FileRec /\ File(r, f, g).there /\ File(r, f, g).rows = r
         /\ File(r, f, g).floor = f /\ File(r, f, g).grade = g
BY DEF File, FileRec

LEMMA NoFileIs == NoFile \in FileRec /\ NoFile.there = FALSE
BY DEF NoFile, FileRec, Grades

LEMMA NoRunIs ==
  /\ NoRun \in RunRec /\ NoRun.pc = "idle" /\ NoRun.db = 0 /\ Over \in RunRec /\ Over.pc = "over" /\ Over.db = 0
<1>1. NoRun \in RunRec /\ NoRun.pc = "idle" /\ NoRun.db = 0
  BY NoFileIs DEF NoRun, RunRec
<1> QED BY <1>1 DEF Over, RunRec

LEMMA NoRunTells ==
  ASSUME dbs \in Seq(DbRec)
  PROVE  RunTells(NoRun) /\ RunTells(Over)
<1>1. 0 \in 0 .. Len(dbs)
  OBVIOUS
<1> QED BY <1>1, NoRunIs DEF RunTells

LEMMA BkFacts ==
  ASSUME BkInv
  PROVE  /\ dbs \in Seq(DbRec) /\ Len(dbs) \in Nat /\ mainAt \in Nat /\ walAt \in Nat /\ mainAt <= Len(dbs) /\ walAt <= Len(dbs)
         /\ written \in Nat /\ serve \in [pc : {"off", "open", "on"}, db : 0 .. Len(dbs)]
         /\ stamp \in Stamps /\ dir \in [Stamps -> FileRec] /\ placed \in [Stamps -> FileRec]
         /\ links \in BOOLEAN /\ aside \in [Stamps -> (0 .. Len(dbs)) \X (0 .. Len(dbs))] /\ overwritten \subseteq 1 .. Len(dbs)
         /\ (rs.pc # "idle" => rs.at \in Stamps)
         /\ bk \in [Backups -> RunRec] /\ \A b \in Backups : RunTells(bk[b])
         /\ DOMAIN rs = {"pc", "at", "file", "expect", "old", "left"} /\ rs.file \in FileRec
         /\ rs.pc \in {"idle", "inspect", "main", "wal", "place", "record", "row"}
         /\ \A d \in 1 .. Len(dbs) : /\ dbs[d] \in DbRec /\ dbs[d].main \in SUBSET Nat /\ dbs[d].wal \in SUBSET Nat
                                     /\ dbs[d].grade \in Grades
         /\ FilesTell /\ RestoreTells /\ DirTells /\ RowsAreSomewhere
<1>1. dbs \in Seq(DbRec) /\ mainAt \in 0 .. Len(dbs) /\ walAt \in 0 .. Len(dbs)
  BY DEF BkInv, BkTypes
<1>2. Len(dbs) \in Nat /\ mainAt \in Nat /\ walAt \in Nat /\ mainAt <= Len(dbs) /\ walAt <= Len(dbs)
  BY <1>1
<1>3. \A d \in 1 .. Len(dbs) : dbs[d] \in DbRec
  BY <1>1
<1>4. \A d \in 1 .. Len(dbs) : dbs[d].main \in SUBSET Nat /\ dbs[d].wal \in SUBSET Nat /\ dbs[d].grade \in Grades
  BY <1>3 DEF DbRec
<1> QED BY <1>1, <1>2, <1>3, <1>4 DEF BkInv, BkTypes

(* No database loses a row.                                                *)
RowsStay ==
  /\ dbs' \in Seq(DbRec) /\ Len(dbs') \in Nat /\ Len(dbs') >= Len(dbs)
  /\ \A d \in 1 .. Len(dbs) : Rows(d) \subseteq dbs'[d].main \union dbs'[d].wal

LEMMA StillRows ==
  ASSUME BkInv, dbs' = dbs
  PROVE  RowsStay
BY BkFacts DEF RowsStay, Rows

LEMMA NewerGrows ==
  ASSUME NEW P \in SUBSET Stamps, NEW Q \in SUBSET Stamps, P \subseteq Q, NEW n
  PROVE  /\ Cardinality({m \in P : m > n}) \in Nat /\ Cardinality({m \in Q : m > n}) \in Nat
         /\ Cardinality({m \in P : m > n}) <= Cardinality({m \in Q : m > n})
<1>1. IsFiniteSet(Stamps)
  BY BackupAssumption, FS_Interval DEF Stamps
<1>2. IsFiniteSet({m \in P : m > n}) /\ IsFiniteSet({m \in Q : m > n})
  BY <1>1, FS_Subset
<1>3. {m \in P : m > n} \subseteq {m \in Q : m > n}
  OBVIOUS
<1> QED BY <1>2, <1>3, FS_CardinalityType, FS_Subset

(* What a backup has in hand stays so.                                     *)
LEMMA RunKeeps ==
  ASSUME BkInv, RowsStay, links' = links, WasPlaced \subseteq WasPlaced', NEW x \in RunRec, RunTells(x)
  PROVE  RunTells(x)'
<1>1. (x.pc \notin {"idle", "open", "close", "over"} => x.at \in Stamps) /\ (x.pc = "rename" => ~links')
  BY DEF RunTells
<1>2. x.pc = "snapshot" => x.db \in 1 .. Len(dbs') /\ x.floor \subseteq dbs'[x.db].main \union dbs'[x.db].wal
  <2> SUFFICES ASSUME x.pc = "snapshot"
               PROVE  x.db \in 1 .. Len(dbs') /\ x.floor \subseteq dbs'[x.db].main \union dbs'[x.db].wal
    OBVIOUS
  <2>1. x.db \in 1 .. Len(dbs) /\ x.floor \subseteq Rows(x.db)
    BY DEF RunTells
  <2>2. x.db \in 1 .. Len(dbs')
    BY <2>1, BkFacts DEF RowsStay
  <2> QED BY <2>1, <2>2 DEF RowsStay
<1>3. x.pc \in {"inspect", "place", "rename"} => x.file.there /\ x.file.floor \subseteq x.file.rows
  BY DEF RunTells
<1>4. (x.pc \in {"list", "prune"} => Keep > 0) /\ x.db \in 0 .. Len(dbs')
  <2>1. x.db \in 0 .. Len(dbs)
    BY DEF RunTells
  <2> QED BY <2>1, BkFacts DEF RunTells, RowsStay
<1>5. x.pc = "prune" => x.names # {} /\ \A n \in x.names : Cardinality({m \in WasPlaced' : m > n}) >= Keep
  <2> SUFFICES ASSUME x.pc = "prune", NEW n \in x.names PROVE Cardinality({m \in WasPlaced' : m > n}) >= Keep
    BY DEF RunTells
  <2>1. Cardinality({m \in WasPlaced : m > n}) >= Keep
    BY DEF RunTells, Newer
  <2>2. PICK P \in SUBSET Stamps, Q \in SUBSET Stamps : P = WasPlaced /\ Q = WasPlaced'
    <3>1. WasPlaced \in SUBSET Stamps /\ WasPlaced' \in SUBSET Stamps
      BY DEF WasPlaced
    <3> QED BY <3>1
  <2>3. /\ Cardinality({m \in P : m > n}) \in Nat /\ Cardinality({m \in Q : m > n}) \in Nat
        /\ Cardinality({m \in P : m > n}) <= Cardinality({m \in Q : m > n})
    BY <2>2, NewerGrows
  <2> QED BY <2>1, <2>2, <2>3, BackupAssumption
<1> QED BY <1>1, <1>2, <1>3, <1>4, <1>5 DEF RunTells, Rows, Newer

LEMMA RunsStay ==
  ASSUME BkInv, RowsStay, links' = links, placed' = placed, bk' = bk
  PROVE  \A b \in Backups : RunTells(bk[b])'
<1> SUFFICES ASSUME NEW b \in Backups PROVE RunTells(bk[b])'
  OBVIOUS
<1>1. PICK x \in RunRec : x = bk[b] /\ RunTells(x)
  BY BkFacts
<1>2. WasPlaced' = WasPlaced
  BY DEF WasPlaced
<1>3. RunTells(x)'
  BY <1>1, <1>2, RunKeeps
<1> QED BY <1>1, <1>3 DEF RunTells, Rows, Newer

LEMMA RunsTurn ==
  ASSUME BkInv, RowsStay, links' = links, WasPlaced \subseteq WasPlaced', NEW b \in Backups, NEW x \in RunRec,
         Run(b, x), RunTells(x)'
  PROVE  bk' \in [Backups -> RunRec] /\ \A c \in Backups : RunTells(bk[c])'
<1>1. bk' = [bk EXCEPT ![b] = x] /\ bk \in [Backups -> RunRec]
  BY BkFacts DEF Run
<1>2. bk' \in [Backups -> RunRec] /\ bk'[b] = x /\ \A c \in Backups : c # b => bk'[c] = bk[c]
  BY <1>1
<1>3. ASSUME NEW c \in Backups PROVE RunTells(bk[c])'
  <2>1. CASE c = b
    BY <1>2, <2>1 DEF RunTells, Rows, Newer
  <2>2. CASE c # b
    <3>1. PICK y \in RunRec : y = bk[c] /\ y = bk'[c] /\ RunTells(y)
      BY <1>2, <2>2, BkFacts
    <3>2. RunTells(y)'
      BY <3>1, RunKeeps
    <3> QED BY <3>1, <3>2 DEF RunTells, Rows, Newer
  <2> QED BY <2>1, <2>2
<1> QED BY <1>2, <1>3

LEMMA DirStays ==
  ASSUME BkInv, UNCHANGED <<dir, placed, links>>
  PROVE  DirTells'
BY BkFacts DEF DirTells, CopiesAreWhole, WasPlaced

LEMMA RowsStayThere ==
  ASSUME BkInv, RowsStay, written' = written
  PROVE  RowsAreSomewhere'
<1> SUFFICES ASSUME NEW r \in 1 .. written PROVE \E d \in 1 .. Len(dbs') : r \in dbs'[d].main \union dbs'[d].wal
  BY DEF RowsAreSomewhere, Rows
<1>1. PICK d \in 1 .. Len(dbs) : r \in Rows(d)
  BY BkFacts DEF RowsAreSomewhere
<1>2. d \in 1 .. Len(dbs')
  BY BkFacts DEF RowsStay
<1> QED BY <1>1, <1>2 DEF RowsStay

(* A step that leaves the databases and their files alone.                 *)
LEMMA FilesStay ==
  ASSUME BkInv, UNCHANGED <<dbs, mainAt, walAt, aside, overwritten>>, serve'.pc # "off" => serve.pc # "off" /\ serve'.db = serve.db
  PROVE  FilesTell'
<1>1. FilesTell
  BY BkFacts
<1>2. \A d \in 1 .. Len(dbs') : Filed(d)' /\ (dbs'[d].wal # {} => Logged(d)')
  BY <1>1 DEF FilesTell, Filed, Logged
<1>3. serve'.pc # "off" => serve'.db # 0 /\ Logged(serve.db)'
  BY <1>1 DEF FilesTell, Logged
<1> QED BY <1>1, <1>2, <1>3 DEF FilesTell

LEMMA RestoreStays ==
  ASSUME BkInv, UNCHANGED <<dbs, mainAt, walAt, aside, rs>>
  PROVE  RestoreTells'
BY BkFacts DEF RestoreTells, HeadOf

LEMMA RestoreKeeps ==
  ASSUME BkInv, UNCHANGED <<mainAt, aside, rs>>, walAt' \in {0, walAt}, RowsStay,
         \A d \in 1 .. Len(dbs) : /\ dbs[d].main \subseteq dbs'[d].main
                                  /\ dbs[d].grade = "ok" => dbs'[d].grade = "ok"
  PROVE  RestoreTells'
<1>1. RestoreTells
  BY BkFacts
<1>2. walAt' \in {0, mainAt'} \/ rs'.pc = "wal"
  BY <1>1 DEF RestoreTells
<1>3. \A d \in 1 .. Len(dbs) : d \in 1 .. Len(dbs')
  BY BkFacts DEF RowsStay
<1>4. rs'.pc = "wal" => /\ mainAt' = 0 /\ rs'.old \in 1 .. Len(dbs') /\ walAt' \in {0, rs'.old}
                        /\ aside'[rs'.at][1] = rs'.old
  BY <1>1, <1>3 DEF RestoreTells
<1>5. (rs'.pc = "place" => mainAt' = 0) /\ (rs'.pc = "row" => rs'.old \in 1 .. Len(dbs'))
  BY <1>1, <1>3 DEF RestoreTells
<1>6. rs'.pc = "record" => mainAt' # 0 /\ rs'.file.rows \subseteq dbs'[mainAt'].main /\ dbs'[mainAt'].grade = "ok"
  <2> SUFFICES ASSUME rs.pc = "record"
               PROVE  mainAt # 0 /\ rs.file.rows \subseteq dbs'[mainAt].main /\ dbs'[mainAt].grade = "ok"
    OBVIOUS
  <2>1. mainAt # 0 /\ rs.file.rows \subseteq dbs[mainAt].main /\ dbs[mainAt].grade = "ok"
    BY <1>1 DEF RestoreTells
  <2>2. mainAt \in 1 .. Len(dbs)
    BY <2>1, BkFacts
  <2> QED BY <2>1, <2>2
<1>7. rs'.pc \in {"main", "wal", "place", "record"} =>
        rs'.file.grade = "ok" /\ (rs'.expect # 0 => HeadOf(rs'.file) = rs'.expect)
  BY <1>1 DEF RestoreTells
<1> QED BY <1>2, <1>4, <1>5, <1>6, <1>7 DEF RestoreTells, HeadOf

(* One database changes and loses nothing.                                 *)
LEMMA DbGrows ==
  ASSUME BkInv, NEW d \in 1 .. Len(dbs), NEW x \in DbRec, dbs' = [dbs EXCEPT ![d] = x],
         Rows(d) \subseteq x.main \union x.wal, dbs[d].main \subseteq x.main, dbs[d].grade = "ok" => x.grade = "ok"
  PROVE  /\ RowsStay /\ Len(dbs') = Len(dbs) /\ dbs'[d] = x
         /\ \A e \in 1 .. Len(dbs) : e # d => dbs'[e] = dbs[e]
         /\ \A e \in 1 .. Len(dbs) : dbs[e].main \subseteq dbs'[e].main /\ (dbs[e].grade = "ok" => dbs'[e].grade = "ok")
<1>1. /\ dbs' \in Seq(DbRec) /\ Len(dbs') = Len(dbs) /\ dbs'[d] = x
      /\ \A e \in 1 .. Len(dbs) : e # d => dbs'[e] = dbs[e]
  BY BkFacts, Changed
<1>2. \A e \in 1 .. Len(dbs) : Rows(e) \subseteq dbs'[e].main \union dbs'[e].wal
  BY <1>1 DEF Rows
<1>3. \A e \in 1 .. Len(dbs) : dbs[e].main \subseteq dbs'[e].main /\ (dbs[e].grade = "ok" => dbs'[e].grade = "ok")
  BY <1>1
<1>4. RowsStay
  BY <1>1, <1>2, BkFacts DEF RowsStay
<1> QED BY <1>1, <1>3, <1>4

(* What opening the path does when no restore is between its renames.      *)
OpenedWell ==
  /\ RowsStay /\ mainAt' \in 1 .. Len(dbs') /\ walAt' = mainAt'
  /\ mainAt # 0 => mainAt' = mainAt /\ Len(dbs') = Len(dbs)
  /\ mainAt = 0 => mainAt' = Len(dbs) + 1 /\ Len(dbs') = Len(dbs) + 1 /\ dbs'[Len(dbs) + 1].wal = {}
  /\ \A d \in 1 .. Len(dbs) : /\ dbs'[d].main = dbs[d].main /\ dbs'[d].wal = dbs[d].wal
                              /\ dbs[d].grade = "ok" => dbs'[d].grade = "ok"

LEMMA OpenedIs ==
  ASSUME BkInv, ~InRenames, NEW m \in BOOLEAN, Opened(m)
  PROVE  OpenedWell
<1>1. walAt \in {0, mainAt}
  BY BkFacts DEF RestoreTells, InRenames
<1>2. CASE mainAt = 0
  <2>1. dbs' = Append(dbs, Db({}, {}, "ok")) /\ mainAt' = Len(dbs) + 1 /\ walAt' = Len(dbs) + 1
    BY <1>1, <1>2 DEF Opened
  <2>2. Db({}, {}, "ok") \in DbRec /\ Db({}, {}, "ok").wal = {}
    BY DbIs DEF Grades
  <2>3. /\ dbs' \in Seq(DbRec) /\ Len(dbs') = Len(dbs) + 1 /\ dbs'[Len(dbs) + 1] = Db({}, {}, "ok")
        /\ \A e \in 1 .. Len(dbs) : dbs'[e] = dbs[e]
    BY <2>1, <2>2, Added, BkFacts
  <2>4. RowsStay
    BY <2>3, BkFacts DEF RowsStay, Rows
  <2>5. mainAt' \in 1 .. Len(dbs')
    BY <2>1, <2>3, BkFacts
  <2> QED BY <1>2, <2>1, <2>2, <2>3, <2>4, <2>5 DEF OpenedWell
<1>3. CASE mainAt # 0
  <2>1. mainAt \in 1 .. Len(dbs)
    BY <1>3, BkFacts
  <2>2. PICK g : g = (IF m /\ dbs[mainAt].grade = "old" THEN "ok" ELSE dbs[mainAt].grade)
    OBVIOUS
  <2>3. g \in Grades /\ (dbs[mainAt].grade = "ok" => g = "ok")
    BY <2>1, <2>2, BkFacts DEF Grades
  <2>4. dbs' = [dbs EXCEPT ![mainAt].grade = g] /\ mainAt' = mainAt /\ walAt' = mainAt
    BY <1>1, <1>3, <2>2 DEF Opened
  <2>5. PICK x : x = [dbs[mainAt] EXCEPT !.grade = g]
    OBVIOUS
  <2>6. x \in DbRec /\ x.main = dbs[mainAt].main /\ x.wal = dbs[mainAt].wal /\ x.grade = g
    BY <2>1, <2>3, <2>5, BkFacts DEF DbRec
  <2>7. dbs' = [dbs EXCEPT ![mainAt] = x]
    BY <2>4, <2>5
  <2>8. /\ RowsStay /\ Len(dbs') = Len(dbs) /\ dbs'[mainAt] = x
        /\ \A e \in 1 .. Len(dbs) : e # mainAt => dbs'[e] = dbs[e]
    BY <2>1, <2>3, <2>6, <2>7, DbGrows DEF Rows
  <2>9. \A d \in 1 .. Len(dbs) : /\ dbs'[d].main = dbs[d].main /\ dbs'[d].wal = dbs[d].wal
                                 /\ dbs[d].grade = "ok" => dbs'[d].grade = "ok"
    BY <2>3, <2>6, <2>8
  <2> QED BY <1>3, <2>1, <2>4, <2>8, <2>9 DEF OpenedWell
<1> QED BY <1>2, <1>3

LEMMA FilesOpen ==
  ASSUME BkInv, ~InRenames, OpenedWell, aside' = aside, overwritten' = overwritten, serve' = serve \/ serve'.db = mainAt'
  PROVE  FilesTell'
<1>1. walAt \in {0, mainAt}
  BY BkFacts DEF RestoreTells, InRenames
<1>2. FilesTell /\ Len(dbs) \in Nat /\ mainAt \in Nat /\ mainAt <= Len(dbs)
  BY BkFacts
<1>3. ASSUME NEW d \in 1 .. Len(dbs), Logged(d) PROVE Logged(d)'
  BY <1>1, <1>3 DEF Logged, OpenedWell
<1>4. ASSUME NEW d \in 1 .. Len(dbs') PROVE d \in 1 .. Len(dbs) \/ (mainAt = 0 /\ d = Len(dbs) + 1 /\ d = mainAt')
  BY <1>2 DEF OpenedWell, RowsStay
<1>5. ASSUME NEW d \in 1 .. Len(dbs') PROVE Filed(d)'
  BY <1>2, <1>4 DEF FilesTell, OpenedWell, Filed
<1>6. ASSUME NEW d \in 1 .. Len(dbs'), dbs'[d].wal # {} PROVE Logged(d)'
  BY <1>2, <1>3, <1>4, <1>6 DEF FilesTell, OpenedWell
<1>7. ASSUME serve'.pc # "off" PROVE serve'.db # 0 /\ Logged(serve.db)'
  <2>1. CASE serve' = serve
    <3>1. PICK d \in 1 .. Len(dbs) : d = serve.db /\ Logged(d)
      BY <1>2, <1>7, <2>1, BkFacts DEF FilesTell
    <3>2. Logged(d)'
      BY <1>3, <3>1
    <3> QED BY <2>1, <3>1, <3>2 DEF Logged
  <2>2. CASE serve'.db = mainAt'
    BY <2>2 DEF OpenedWell, Logged
  <2> QED BY <2>1, <2>2
<1>8. ASSUME NEW n \in Stamps
      PROVE  (aside'[n][1] # 0 => aside'[n][1] # mainAt') /\ aside'[n][2] \in {0, aside'[n][1]} \union overwritten'
  <2>1. /\ (aside[n][1] # 0 => aside[n][1] # mainAt) /\ aside[n][2] \in {0, aside[n][1]} \union overwritten
        /\ aside[n][1] \in 0 .. Len(dbs)
    BY <1>2, BkFacts DEF FilesTell
  <2> QED BY <1>2, <2>1 DEF OpenedWell, RowsStay
<1> QED BY <1>5, <1>6, <1>7, <1>8 DEF FilesTell

LEMMA RestoreOpened ==
  ASSUME BkInv, ~InRenames, OpenedWell, UNCHANGED <<aside, rs>>
  PROVE  RestoreTells'
<1>1. RestoreTells /\ rs.pc # "wal" /\ rs.pc # "place"
  BY BkFacts DEF InRenames
<1>2. \A d \in 1 .. Len(dbs) : d \in 1 .. Len(dbs')
  BY BkFacts DEF OpenedWell, RowsStay
<1>3. rs.pc = "record" => mainAt' # 0 /\ rs.file.rows \subseteq dbs'[mainAt'].main /\ dbs'[mainAt'].grade = "ok"
  <2> SUFFICES ASSUME rs.pc = "record"
               PROVE  mainAt' # 0 /\ rs.file.rows \subseteq dbs'[mainAt'].main /\ dbs'[mainAt'].grade = "ok"
    OBVIOUS
  <2>1. mainAt # 0 /\ rs.file.rows \subseteq dbs[mainAt].main /\ dbs[mainAt].grade = "ok"
    BY <1>1 DEF RestoreTells
  <2>2. mainAt \in 1 .. Len(dbs) /\ mainAt' = mainAt
    BY <2>1, BkFacts DEF OpenedWell
  <2> QED BY <2>1, <2>2 DEF OpenedWell
<1>4. rs.pc = "row" => rs.old \in 1 .. Len(dbs')
  BY <1>1, <1>2 DEF RestoreTells
<1>5. rs.pc \in {"main", "wal", "place", "record"} =>
        rs.file.grade = "ok" /\ (rs.expect # 0 => HeadOf(rs.file) = rs.expect)
  BY <1>1 DEF RestoreTells
<1>6. walAt' = mainAt'
  BY DEF OpenedWell
<1> QED BY <1>1, <1>3, <1>4, <1>5, <1>6 DEF RestoreTells, HeadOf

(* What serve does.                                                        *)
LEMMA ServeOpensOk ==
  ASSUME BkInv, ~Interrupted, ServeOpens
  PROVE  BkInv'
<1>1. ~InRenames /\ Opened(TRUE) /\ serve' = [pc |-> "open", db |-> mainAt'] /\ UNCHANGED <<aside, overwritten, links, written, stamp, dir, placed, bk, rs>>
  BY DEF ServeOpens
<1>2. OpenedWell
  BY <1>1, OpenedIs
<1>3. RowsStay
  BY <1>2 DEF OpenedWell
<1>4. FilesTell' /\ RestoreTells'
  BY <1>1, <1>2, FilesOpen, RestoreOpened
<1>5. DirTells' /\ RowsAreSomewhere' /\ \A b \in Backups : RunTells(bk[b])'
  BY <1>1, <1>3, DirStays, RowsStayThere, RunsStay
<1>6. BkTypes'
  BY <1>1, <1>2, <1>3, BkFacts DEF BkTypes, OpenedWell, RowsStay
<1> QED BY <1>4, <1>5, <1>6 DEF BkInv

LEMMA ServeListensOk ==
  ASSUME BkInv, ServeListens
  PROVE  BkInv'
<1>1. serve.pc = "open" /\ serve' = [serve EXCEPT !.pc = "on"] /\ UNCHANGED <<dbs, mainAt, walAt, aside, overwritten, links, written, stamp, dir, placed, bk, rs>>
  BY DEF ServeListens
<1>2. serve' \in [pc : {"off", "open", "on"}, db : 0 .. Len(dbs)] /\ serve'.db = serve.db
  BY <1>1, BkFacts
<1>3. RowsStay
  BY <1>1, StillRows
<1>4. FilesTell' /\ RestoreTells'
  BY <1>1, <1>2, FilesStay, RestoreStays
<1>5. DirTells' /\ RowsAreSomewhere' /\ \A b \in Backups : RunTells(bk[b])'
  BY <1>1, <1>3, DirStays, RowsStayThere, RunsStay
<1>6. BkTypes'
  BY <1>1, <1>2, BkFacts DEF BkTypes
<1> QED BY <1>4, <1>5, <1>6 DEF BkInv

LEMMA ServeDiesOk ==
  ASSUME BkInv, ServeDies
  PROVE  BkInv'
<1>1. serve' = [pc |-> "off", db |-> 0] /\ UNCHANGED <<dbs, mainAt, walAt, aside, overwritten, links, written, stamp, dir, placed, bk, rs>>
  BY DEF ServeDies
<1>2. serve' \in [pc : {"off", "open", "on"}, db : 0 .. Len(dbs)] /\ serve'.pc = "off"
  BY <1>1, BkFacts
<1>3. RowsStay
  BY <1>1, StillRows
<1>4. FilesTell' /\ RestoreTells'
  BY <1>1, <1>2, FilesStay, RestoreStays
<1>5. DirTells' /\ RowsAreSomewhere' /\ \A b \in Backups : RunTells(bk[b])'
  BY <1>1, <1>3, DirStays, RowsStayThere, RunsStay
<1>6. BkTypes'
  BY <1>1, <1>2, BkFacts DEF BkTypes
<1> QED BY <1>4, <1>5, <1>6 DEF BkInv

LEMMA ServeCommitsOk ==
  ASSUME BkInv, ServeCommits
  PROVE  BkInv'
<1>1. /\ serve.pc = "on" /\ written' = written + 1 /\ dbs' = [dbs EXCEPT ![serve.db].wal = @ \union {written + 1}]
      /\ UNCHANGED <<mainAt, walAt, aside, overwritten, links, serve, stamp, dir, placed, bk, rs>>
  BY DEF ServeCommits
<1>2. PICK d \in 1 .. Len(dbs) : d = serve.db /\ Logged(d)
  BY <1>1, BkFacts DEF FilesTell
<1>3. PICK x : x = [dbs[d] EXCEPT !.wal = @ \union {written + 1}]
  OBVIOUS
<1>4. x \in DbRec /\ x.main = dbs[d].main /\ x.wal = dbs[d].wal \union {written + 1} /\ x.grade = dbs[d].grade
  <2>1. PICK w \in SUBSET Nat : w = dbs[d].wal \union {written + 1}
    <3>1. dbs[d].wal \in SUBSET Nat /\ written + 1 \in Nat
      BY <1>2, BkFacts
    <3> QED BY <3>1
  <2>2. dbs[d] \in DbRec /\ x = [dbs[d] EXCEPT !.wal = w]
    BY <1>2, <1>3, <2>1, BkFacts
  <2> QED BY <2>1, <2>2 DEF DbRec
<1>5. dbs' = [dbs EXCEPT ![d] = x]
  BY <1>1, <1>2, <1>3
<1>6. /\ RowsStay /\ Len(dbs') = Len(dbs) /\ dbs'[d] = x
      /\ \A e \in 1 .. Len(dbs) : e # d => dbs'[e] = dbs[e]
      /\ \A e \in 1 .. Len(dbs) : dbs[e].main \subseteq dbs'[e].main /\ (dbs[e].grade = "ok" => dbs'[e].grade = "ok")
  <2>1. Rows(d) \subseteq x.main \union x.wal /\ dbs[d].main \subseteq x.main /\ x.grade = dbs[d].grade
    BY <1>4 DEF Rows
  <2> QED BY <1>4, <1>5, <2>1, DbGrows
<1>7. FilesTell'
  <2>1. FilesTell
    BY BkFacts
  <2>2. ASSUME NEW e \in 1 .. Len(dbs') PROVE Filed(e)' /\ (dbs'[e].wal # {} => Logged(e)')
    <3>1. e \in 1 .. Len(dbs) /\ (e = d \/ dbs'[e].wal = dbs[e].wal)
      BY <1>6, <2>2
    <3>2. Filed(e) /\ (dbs'[e].wal # {} => Logged(e))
      BY <1>2, <2>1, <3>1 DEF FilesTell
    <3> QED BY <1>1, <3>2 DEF Filed, Logged
  <2>3. serve'.pc # "off" => serve'.db # 0 /\ Logged(serve.db)'
    BY <1>1, <2>1 DEF FilesTell, Logged
  <2> QED BY <1>1, <2>1, <2>2, <2>3 DEF FilesTell
<1>8. RestoreTells'
  BY <1>1, <1>6, RestoreKeeps
<1>9. RowsAreSomewhere'
  <2> SUFFICES ASSUME NEW r \in 1 .. written + 1 PROVE \E e \in 1 .. Len(dbs') : r \in dbs'[e].main \union dbs'[e].wal
    BY <1>1 DEF RowsAreSomewhere, Rows
  <2>1. CASE r = written + 1
    BY <1>4, <1>6, <2>1
  <2>2. CASE r \in 1 .. written
    <3>1. PICK e \in 1 .. Len(dbs) : r \in Rows(e)
      BY <2>2, BkFacts DEF RowsAreSomewhere
    <3> QED BY <1>6, <3>1 DEF RowsStay
  <2>3. written \in Nat
    BY BkFacts
  <2>4. r = written + 1 \/ r \in 1 .. written
    BY ONLY <2>3, r \in 1 .. written + 1
  <2> QED BY <2>1, <2>2, <2>4
<1>10. DirTells' /\ \A b \in Backups : RunTells(bk[b])'
  BY <1>1, <1>6, DirStays, RunsStay
<1>11. BkTypes'
  BY <1>1, <1>6, BkFacts DEF BkTypes, RowsStay
<1> QED BY <1>7, <1>8, <1>9, <1>10, <1>11 DEF BkInv



(* The one that closes the database last folds its log in.                 *)
LEMMA CloseIs ==
  ASSUME BkInv, NEW d \in 0 .. Len(dbs), NEW D, Closed(d, D), UNCHANGED <<mainAt, aside, overwritten, rs>>,
         serve'.pc # "off" => serve.pc # "off" /\ serve'.db = serve.db /\ (mainAt = 0 \/ d # serve.db \/ d \in D)
  PROVE  /\ RowsStay /\ Len(dbs') = Len(dbs) /\ walAt' \in {0, walAt}
         /\ FilesTell' /\ RestoreTells'
<1>1. CASE ~(d = mainAt /\ d \notin D) \/ d = 0
  <2>1. UNCHANGED <<dbs, walAt>>
    <3>1. CASE ~(d = mainAt /\ d \notin D)
      BY <3>1 DEF Closed
    <3>2. CASE d = 0 /\ d = mainAt /\ d \notin D
      <4>1. dbs' = Checkpointed(d) /\ walAt' = IF walAt = d THEN 0 ELSE walAt
        BY <3>2 DEF Closed
      <4>2. dbs' = dbs
        BY <3>2, <4>1, BkFacts DEF Checkpointed
      <4> QED BY <3>2, <4>1, <4>2
    <3> QED BY <1>1, <3>1, <3>2
  <2>2. FilesTell' /\ RestoreTells'
    BY <2>1, FilesStay, RestoreStays
  <2> QED BY <2>1, <2>2, StillRows
<1>2. CASE d = mainAt /\ d \notin D /\ d # 0
  <2>1. d \in 1 .. Len(dbs) /\ dbs' = Checkpointed(d) /\ walAt' = IF walAt = d THEN 0 ELSE walAt
    BY <1>2, BkFacts DEF Closed
  <2>2. PICK x : x = Db(dbs[d].main \union dbs[d].wal, {}, dbs[d].grade)
    OBVIOUS
  <2>3. x \in DbRec /\ x.main = dbs[d].main \union dbs[d].wal /\ x.wal = {} /\ x.grade = dbs[d].grade
    <3>1. PICK m \in SUBSET Nat, w \in SUBSET Nat, g \in Grades : m = dbs[d].main \union dbs[d].wal /\ w = {} /\ g = dbs[d].grade
      BY <2>1, BkFacts
    <3>2. x = Db(m, w, g)
      BY <2>2, <3>1
    <3> QED BY <3>1, <3>2, DbIs
  <2>4. dbs' = [dbs EXCEPT ![d] = x]
    BY <2>1, <2>2 DEF Checkpointed
  <2>5. /\ RowsStay /\ Len(dbs') = Len(dbs) /\ dbs'[d] = x
        /\ \A e \in 1 .. Len(dbs) : e # d => dbs'[e] = dbs[e]
        /\ \A e \in 1 .. Len(dbs) : dbs[e].main \subseteq dbs'[e].main /\ (dbs[e].grade = "ok" => dbs'[e].grade = "ok")
    <3>1. Rows(d) \subseteq x.main \union x.wal /\ dbs[d].main \subseteq x.main /\ x.grade = dbs[d].grade
      BY <2>3 DEF Rows
    <3> QED BY <2>1, <2>3, <2>4, <3>1, DbGrows
  <2>6. walAt' \in {0, walAt} /\ (walAt # d => walAt' = walAt)
    BY <2>1
  <2>7. FilesTell
    BY BkFacts
  <2>8. ASSUME NEW e, e # d, Logged(e) PROVE Logged(e)'
    BY <2>6, <2>8 DEF Logged
  <2>9. FilesTell'
    <3>1. ASSUME NEW e \in 1 .. Len(dbs') PROVE Filed(e)' /\ (dbs'[e].wal # {} => Logged(e)')
      <4>1. e \in 1 .. Len(dbs)
        BY <2>5, <3>1
      <4>2. Filed(e)'
        BY <2>7, <4>1 DEF FilesTell, Filed
      <4>3. ASSUME dbs'[e].wal # {} PROVE Logged(e)'
        <5>1. e # d /\ dbs[e].wal # {}
          BY <2>3, <2>5, <4>1, <4>3
        <5> QED BY <2>7, <2>8, <4>1, <5>1 DEF FilesTell
      <4> QED BY <4>2, <4>3
    <3>2. serve'.pc # "off" => serve'.db # 0 /\ Logged(serve.db)'
      <4>1. PICK e : e = serve.db
        OBVIOUS
      <4>2. ASSUME serve'.pc # "off" PROVE e # 0 /\ Logged(e)' /\ serve'.db = e
        BY <1>2, <2>1, <2>7, <2>8, <4>1, <4>2 DEF FilesTell
      <4> QED BY <4>1, <4>2 DEF Logged
    <3> QED BY <2>7, <3>1, <3>2 DEF FilesTell
  <2>10. RestoreTells'
    BY <2>5, <2>6, RestoreKeeps
  <2> QED BY <2>5, <2>6, <2>9, <2>10
<1> QED BY <1>1, <1>2

LEMMA ServeStopsOk ==
  ASSUME BkInv, ServeStops
  PROVE  BkInv'
<1>1. /\ serve' = [pc |-> "off", db |-> 0]
      /\ UNCHANGED <<mainAt, aside, overwritten, links, written, stamp, dir, placed, bk, rs>>
  BY DEF ServeStops
<1>a. PICK d \in 0 .. Len(dbs) : \E D : Closed(d, D)
  <2>1. serve.db \in 0 .. Len(dbs)
    BY BkFacts
  <2> QED BY <2>1 DEF ServeStops
<1>2. PICK D : Closed(d, D)
  BY <1>a
<1>3. /\ RowsStay /\ Len(dbs') = Len(dbs) /\ walAt' \in {0, walAt} /\ FilesTell' /\ RestoreTells'
  <2>1. serve'.pc = "off"
    BY <1>1
  <2> QED BY <1>1, <1>2, <2>1, CloseIs
<1>4. DirTells' /\ RowsAreSomewhere' /\ \A b \in Backups : RunTells(bk[b])'
  BY <1>1, <1>3, DirStays, RowsStayThere, RunsStay
<1>5. serve' \in [pc : {"off", "open", "on"}, db : 0 .. Len(dbs)]
  BY <1>1, BkFacts
<1>6. BkTypes'
  BY <1>1, <1>3, <1>5, BkFacts DEF BkTypes, RowsStay
<1> QED BY <1>3, <1>4, <1>6 DEF BkInv

LEMMA SecondOk ==
  ASSUME BkInv, Second
  PROVE  BkInv'
<1>1. stamp < MaxStamp /\ stamp' = stamp + 1 /\ UNCHANGED <<dbs, mainAt, walAt, aside, overwritten, links, written, serve, dir, placed, bk, rs>>
  BY DEF Second
<1>2. stamp' \in Stamps
  BY <1>1, BkFacts, BackupAssumption DEF Stamps
<1>3. RowsStay
  BY <1>1, StillRows
<1>4. FilesTell' /\ RestoreTells'
  BY <1>1, FilesStay, RestoreStays
<1>5. DirTells' /\ RowsAreSomewhere' /\ \A b \in Backups : RunTells(bk[b])'
  BY <1>1, <1>3, DirStays, RowsStayThere, RunsStay
<1>6. BkTypes'
  BY <1>1, <1>2, BkFacts DEF BkTypes
<1> QED BY <1>4, <1>5, <1>6 DEF BkInv

LEMMA StutterOk ==
  ASSUME BkInv, UNCHANGED bkVars
  PROVE  BkInv'
<1>1. UNCHANGED <<dbs, mainAt, walAt, aside, overwritten, links, written, serve, stamp, dir, placed, bk, rs>>
  BY DEF bkVars
<1>2. RowsStay
  BY <1>1, StillRows
<1>3. FilesTell' /\ RestoreTells'
  BY <1>1, FilesStay, RestoreStays
<1>4. DirTells' /\ RowsAreSomewhere' /\ \A b \in Backups : RunTells(bk[b])'
  BY <1>1, <1>2, DirStays, RowsStayThere, RunsStay
<1>5. BkTypes'
  BY <1>1, BkFacts DEF BkTypes
<1> QED BY <1>3, <1>4, <1>5 DEF BkInv

(* What a backup does.                                                     *)
LEMMA RunOnly ==
  ASSUME BkInv, UNCHANGED <<dbs, mainAt, walAt, aside, overwritten, links, written, serve, stamp, dir, placed, rs>>,
         NEW b \in Backups, NEW x \in RunRec, Run(b, x), RunTells(x)
  PROVE  BkInv'
<1>1. RowsStay /\ WasPlaced' = WasPlaced
  BY StillRows DEF WasPlaced
<1>2. RunTells(x)'
  BY <1>1, RunKeeps
<1>3. bk' \in [Backups -> RunRec] /\ \A c \in Backups : RunTells(bk[c])'
  BY <1>1, <1>2, RunsTurn
<1>4. FilesTell' /\ RestoreTells'
  BY FilesStay, RestoreStays
<1>5. DirTells' /\ RowsAreSomewhere'
  BY <1>1, DirStays, RowsStayThere
<1>6. BkTypes'
  BY <1>3, BkFacts DEF BkTypes
<1> QED BY <1>3, <1>4, <1>5, <1>6 DEF BkInv

LEMMA BackupBeginsOk ==
  ASSUME BkInv, NEW b \in Backups, BackupBegins(b)
  PROVE  BkInv'
<1>1. PICK x : x = [NoRun EXCEPT !.pc = "open"]
  OBVIOUS
<1>2. x \in RunRec /\ x.pc = "open" /\ x.db = 0
  BY <1>1, NoRunIs DEF RunRec, NoRun
<1>3. RunTells(x)
  BY <1>2, BkFacts DEF RunTells
<1> QED BY <1>1, <1>2, <1>3, RunOnly DEF BackupBegins

LEMMA BackupOpensOk ==
  ASSUME BkInv, ~Interrupted, NEW b \in Backups, BackupOpens(b)
  PROVE  BkInv'
<1>1. /\ ~InRenames /\ Opened(FALSE) /\ UNCHANGED <<aside, overwritten, links, written, serve, stamp, dir, placed, rs>>
      /\ Run(b, IF ~Known(dbs'[mainAt'].grade) THEN [NoRun EXCEPT !.pc = "close", !.db = mainAt']
                ELSE [bk[b] EXCEPT !.pc = "snapshot", !.at = stamp, !.db = mainAt',
                                   !.floor = dbs'[mainAt'].main \union dbs'[mainAt'].wal])
  BY DEF BackupOpens
<1>2. OpenedWell
  BY <1>1, OpenedIs
<1>3. RowsStay
  BY <1>2 DEF OpenedWell
<1>4. FilesTell' /\ RestoreTells'
  BY <1>1, <1>2, FilesOpen, RestoreOpened
<1>5. DirTells' /\ RowsAreSomewhere'
  BY <1>1, <1>3, DirStays, RowsStayThere
<1>6. bk[b] \in RunRec /\ stamp \in Stamps
  BY BkFacts
<1>7. mainAt' \in 1 .. Len(dbs') /\ mainAt' \in Nat /\ dbs'[mainAt'].main \union dbs'[mainAt'].wal \in SUBSET Nat
  <2>1. mainAt' \in 1 .. Len(dbs') /\ dbs' \in Seq(DbRec) /\ Len(dbs') \in Nat
    BY <1>2 DEF OpenedWell, RowsStay
  <2>2. dbs'[mainAt'] \in DbRec /\ mainAt' \in Nat
    BY <2>1
  <2>3. dbs'[mainAt'].main \in SUBSET Nat /\ dbs'[mainAt'].wal \in SUBSET Nat
    BY <2>2 DEF DbRec
  <2> QED BY <2>1, <2>2, <2>3
<1>8. PICK m \in Nat, f \in SUBSET Nat : m = mainAt' /\ f = dbs'[mainAt'].main \union dbs'[mainAt'].wal
  BY <1>7
<1>9. PICK x \in RunRec : Run(b, x) /\ RunTells(x)'
  <2>1. CASE ~Known(dbs'[mainAt'].grade)
    <3>1. PICK x : x = [NoRun EXCEPT !.pc = "close", !.db = m]
      OBVIOUS
    <3>2. x \in RunRec /\ x.pc = "close" /\ x.db = m
      BY <3>1, NoRunIs DEF RunRec
    <3>3. RunTells(x)'
      BY <1>7, <1>8, <3>2 DEF RunTells
    <3>4. Run(b, x)
      BY <1>1, <1>8, <2>1, <3>1
    <3> QED BY <3>2, <3>3, <3>4
  <2>2. CASE Known(dbs'[mainAt'].grade)
    <3>1. PICK x : x = [bk[b] EXCEPT !.pc = "snapshot", !.at = stamp, !.db = m, !.floor = f]
      OBVIOUS
    <3>2. x \in RunRec /\ x.pc = "snapshot" /\ x.db = m /\ x.floor = f /\ x.at \in Stamps
      BY <1>6, <1>8, <3>1 DEF RunRec
    <3>3. RunTells(x)'
      BY <1>7, <1>8, <3>2 DEF RunTells, Rows
    <3>4. Run(b, x)
      BY <1>1, <1>8, <2>2, <3>1
    <3> QED BY <3>2, <3>3, <3>4
  <2> QED BY <2>1, <2>2
<1>10. bk' \in [Backups -> RunRec] /\ \A c \in Backups : RunTells(bk[c])'
  <2>1. WasPlaced' = WasPlaced
    BY <1>1 DEF WasPlaced
  <2> QED BY <1>1, <1>3, <1>9, <2>1, RunsTurn
<1>11. BkTypes'
  BY <1>1, <1>2, <1>3, <1>10, BkFacts DEF BkTypes, OpenedWell, RowsStay
<1> QED BY <1>4, <1>5, <1>10, <1>11 DEF BkInv

LEMMA BackupSnapshotsOk ==
  ASSUME BkInv, NEW b \in Backups, BackupSnapshots(b)
  PROVE  BkInv'
<1>1. bk[b] \in RunRec /\ bk[b].at \in Stamps /\ bk[b].db \in 1 .. Len(dbs) /\ bk[b].floor \subseteq Rows(bk[b].db)
  BY BkFacts DEF RunTells, BackupSnapshots
<1>2. PICK r \in SUBSET Nat, f \in SUBSET Nat, g \in Grades : r = Rows(bk[b].db) /\ f = bk[b].floor /\ g = dbs[bk[b].db].grade
  BY <1>1, BkFacts DEF RunRec, Rows
<1>3. PICK y \in FileRec : y = File(r, f, g) /\ y.there /\ y.floor = f /\ y.rows = r
  <2>1. /\ File(r, f, g) \in FileRec /\ File(r, f, g).there /\ File(r, f, g).rows = r
        /\ File(r, f, g).floor = f
    BY FileIs
  <2> QED BY <2>1
<1>4. PICK x : x = [bk[b] EXCEPT !.pc = "inspect", !.file = y]
  OBVIOUS
<1>5. x \in RunRec /\ x.pc = "inspect" /\ x.file = y /\ x.at \in Stamps /\ x.db \in 0 .. Len(dbs)
  <2>1. x \in RunRec /\ x.pc = "inspect" /\ x.file = y /\ x.at = bk[b].at /\ x.db = bk[b].db
    BY <1>1, <1>4 DEF RunRec
  <2> QED BY <1>1, <2>1, BkFacts
<1>6. RunTells(x)
  BY <1>1, <1>2, <1>3, <1>5 DEF RunTells
<1>7. Run(b, x) /\ UNCHANGED <<dbs, mainAt, walAt, aside, overwritten, links, written, serve, stamp, dir, placed, rs>>
  BY <1>2, <1>3, <1>4 DEF BackupSnapshots, Snapshot
<1> QED BY <1>5, <1>6, <1>7, RunOnly

LEMMA OverOnly ==
  ASSUME BkInv, UNCHANGED <<dbs, mainAt, walAt, aside, overwritten, links, written, serve, stamp, dir, placed, rs>>,
         NEW b \in Backups, Run(b, Over)
  PROVE  BkInv'
<1>1. Over \in RunRec /\ RunTells(Over)
  BY NoRunIs, NoRunTells, BkFacts
<1> QED BY <1>1, RunOnly

LEMMA DoneIs ==
  ASSUME BkInv, NEW b \in Backups
  PROVE  Finished(b) \in RunRec /\ RunTells(Finished(b))
<1>1. bk[b] \in RunRec /\ RunTells(bk[b])
  BY BkFacts
<1>2. Finished(b) \in RunRec /\ Finished(b).pc = "close" /\ Finished(b).db = bk[b].db
  BY <1>1 DEF Finished, RunRec
<1> QED BY <1>1, <1>2 DEF RunTells

LEMMA DoneOnly ==
  ASSUME BkInv, UNCHANGED <<dbs, mainAt, walAt, aside, overwritten, links, written, serve, stamp, dir, placed, rs>>,
         NEW b \in Backups, Run(b, Finished(b))
  PROVE  BkInv'
<1>1. PICK x \in RunRec : x = Finished(b) /\ RunTells(x)
  BY DoneIs
<1> QED BY <1>1, RunOnly

LEMMA BackupInspectsOk ==
  ASSUME BkInv, NEW b \in Backups, BackupInspects(b)
  PROVE  BkInv'
<1>1. UNCHANGED <<dbs, mainAt, walAt, aside, overwritten, links, written, serve, stamp, dir, placed, rs>> /\ bk[b].pc = "inspect"
  BY DEF BackupInspects
<1>2. CASE ~Integral(bk[b].file.grade)
  BY <1>1, <1>2, DoneOnly DEF BackupInspects
<1>3. CASE Integral(bk[b].file.grade)
  <2>1. PICK x : x = [bk[b] EXCEPT !.pc = "place"]
    OBVIOUS
  <2>2. /\ bk[b] \in RunRec /\ bk[b].at \in Stamps /\ bk[b].file.there /\ bk[b].file.floor \subseteq bk[b].file.rows
        /\ bk[b].db \in 0 .. Len(dbs)
    BY <1>1, BkFacts DEF RunTells
  <2>3. x \in RunRec /\ x.pc = "place" /\ x.file = bk[b].file /\ x.at \in Stamps /\ x.db \in 0 .. Len(dbs)
    BY <2>1, <2>2 DEF RunRec
  <2>4. RunTells(x)
    BY <2>2, <2>3 DEF RunTells
  <2> QED BY <1>1, <1>3, <2>1, <2>3, <2>4, RunOnly DEF BackupInspects
<1> QED BY <1>2, <1>3

LEMMA BackupCrashesOk ==
  ASSUME BkInv, NEW b \in Backups, BackupCrashes(b)
  PROVE  BkInv'
BY OverOnly DEF BackupCrashes

LEMMA FileKinds ==
  ASSUME NEW x \in RunRec
  PROVE  x.file \in FileRec /\ x.names \in SUBSET Stamps /\ x.at \in {0} \union Stamps
BY DEF RunRec

LEMMA PlacedIs ==
  ASSUME BkInv, NEW b \in Backups, bk[b].at \in Stamps
  PROVE  AfterPlacing(b) \in RunRec /\ RunTells(AfterPlacing(b))
<1>1. bk[b] \in RunRec /\ bk[b].db \in 0 .. Len(dbs)
  BY BkFacts DEF RunTells
<1>2. CASE Keep > 0
  <2>1. PICK x : x = [bk[b] EXCEPT !.pc = "list"]
    OBVIOUS
  <2>2. x \in RunRec /\ x.pc = "list" /\ x.at \in Stamps /\ x.db \in 0 .. Len(dbs)
    BY <1>1, <2>1 DEF RunRec
  <2>3. RunTells(x)
    BY <1>2, <2>2 DEF RunTells
  <2> QED BY <1>2, <2>1, <2>2, <2>3 DEF AfterPlacing
<1>3. CASE ~(Keep > 0)
  BY <1>3, DoneIs DEF AfterPlacing
<1> QED BY <1>2, <1>3

(* A copy comes to its name.                                               *)
LEMMA PlaceOk ==
  ASSUME BkInv, NEW b \in Backups, UNCHANGED <<dbs, mainAt, walAt, aside, overwritten, links, written, serve, stamp, rs>>,
         bk[b].pc \in {"place", "rename"}, Run(b, AfterPlacing(b)), dir' = [dir EXCEPT ![bk[b].at] = bk[b].file],
         placed' = IF dir[bk[b].at].there THEN placed ELSE [placed EXCEPT ![bk[b].at] = bk[b].file],
         dir[bk[b].at].there => ~links
  PROVE  BkInv'
<1>1. /\ bk[b] \in RunRec /\ bk[b].at \in Stamps /\ bk[b].file \in FileRec /\ bk[b].file.there
      /\ bk[b].file.floor \subseteq bk[b].file.rows
  BY BkFacts, FileKinds DEF RunTells
<1>2. PICK s \in Stamps, y \in FileRec : s = bk[b].at /\ y = bk[b].file /\ y.there /\ y.floor \subseteq y.rows
  BY <1>1
<1>3. DirTells /\ placed \in [Stamps -> FileRec] /\ dir \in [Stamps -> FileRec]
  BY BkFacts
<1>4. dir' = [dir EXCEPT ![s] = y] /\ placed' = IF dir[s].there THEN placed ELSE [placed EXCEPT ![s] = y]
  BY <1>2
<1>5. dir' \in [Stamps -> FileRec] /\ dir'[s] = y /\ \A n \in Stamps : n # s => dir'[n] = dir[n]
  BY <1>3, <1>4
<1>6. /\ placed' \in [Stamps -> FileRec] /\ placed'[s].there /\ (~dir[s].there => placed'[s] = y)
      /\ \A n \in Stamps : n # s => placed'[n] = placed[n]
  <2>1. CASE dir[s].there
    BY <1>3, <1>4, <2>1 DEF DirTells
  <2>2. CASE ~dir[s].there
    BY <1>2, <1>3, <1>4, <2>2
  <2> QED BY <2>1, <2>2
<1>7. WasPlaced \subseteq WasPlaced' /\ \A n \in WasPlaced' : n # s => n \in WasPlaced
  BY <1>6 DEF WasPlaced
<1>8. RowsStay
  BY StillRows
<1>9. PICK x \in RunRec : x = AfterPlacing(b) /\ RunTells(x)
  BY <1>1, PlacedIs
<1>10. RunTells(x)'
  BY <1>7, <1>8, <1>9, RunKeeps
<1>11. bk' \in [Backups -> RunRec] /\ \A c \in Backups : RunTells(bk[c])'
  BY <1>7, <1>8, <1>9, <1>10, RunsTurn
<1>12. ASSUME NEW n \in Stamps, dir'[n].there
       PROVE  placed'[n].there /\ dir'[n].floor \subseteq dir'[n].rows /\ (links' => dir'[n] = placed'[n])
  <2>1. CASE n = s
    BY <1>2, <1>5, <1>6, <2>1
  <2>2. CASE n # s
    <3>1. dir'[n] = dir[n] /\ placed'[n] = placed[n] /\ dir[n].there
      BY <1>5, <1>6, <1>12, <2>2
    <3>2. placed[n].there /\ dir[n].floor \subseteq dir[n].rows /\ (links => dir[n] = placed[n])
      BY <1>3, <3>1 DEF DirTells, CopiesAreWhole
    <3> QED BY <3>1, <3>2
  <2> QED BY <2>1, <2>2
<1>13. ASSUME NEW n \in WasPlaced', Cardinality({m \in WasPlaced' : m > n}) < Keep \/ Keep = 0
       PROVE  dir'[n].there
  <2>1. CASE n = s
    BY <1>2, <1>5, <2>1
  <2>2. CASE n # s
    <3>1. n \in WasPlaced /\ n \in Stamps
      BY <1>7, <2>2 DEF WasPlaced
    <3>2. PICK P \in SUBSET Stamps, Q \in SUBSET Stamps : P = WasPlaced /\ Q = WasPlaced'
      <4>1. WasPlaced \in SUBSET Stamps /\ WasPlaced' \in SUBSET Stamps
        BY DEF WasPlaced
      <4> QED BY <4>1
    <3>3. /\ Cardinality({m \in P : m > n}) \in Nat /\ Cardinality({m \in Q : m > n}) \in Nat
          /\ Cardinality({m \in P : m > n}) <= Cardinality({m \in Q : m > n})
      BY <1>7, <3>2, NewerGrows
    <3>4. Cardinality({m \in WasPlaced : m > n}) < Keep \/ Keep = 0
      BY <1>13, <3>2, <3>3, BackupAssumption
    <3>5. dir[n].there
      BY <1>3, <3>1, <3>4 DEF DirTells, CopiesAreWhole
    <3> QED BY <1>5, <2>2, <3>1, <3>5
  <2> QED BY <2>1, <2>2
<1>14. DirTells'
  BY <1>12, <1>13 DEF DirTells, CopiesAreWhole
<1>15. FilesTell' /\ RestoreTells' /\ RowsAreSomewhere'
  BY <1>8, FilesStay, RestoreStays, RowsStayThere
<1>16. BkTypes'
  BY <1>5, <1>6, <1>11, BkFacts DEF BkTypes
<1> QED BY <1>11, <1>14, <1>15, <1>16 DEF BkInv

LEMMA BackupPlacesOk ==
  ASSUME BkInv, NEW b \in Backups, BackupPlaces(b)
  PROVE  BkInv'
<1>1. bk[b].pc = "place" /\ UNCHANGED <<dbs, mainAt, walAt, aside, overwritten, links, written, serve, stamp, rs>>
  BY DEF BackupPlaces
<1>2. CASE dir[bk[b].at].there
  BY <1>1, <1>2, DoneOnly DEF BackupPlaces
<1>3. CASE ~dir[bk[b].at].there
  <2>1. /\ dir' = [dir EXCEPT ![bk[b].at] = bk[b].file] /\ placed' = [placed EXCEPT ![bk[b].at] = bk[b].file]
        /\ Run(b, AfterPlacing(b))
    BY <1>3 DEF BackupPlaces
  <2> QED BY <1>1, <1>3, <2>1, PlaceOk
<1> QED BY <1>2, <1>3

LEMMA BackupLooksOk ==
  ASSUME BkInv, NEW b \in Backups, BackupLooks(b)
  PROVE  BkInv'
<1>1. /\ UNCHANGED <<dbs, mainAt, walAt, aside, overwritten, links, written, serve, stamp, dir, placed, rs>>
      /\ bk[b].pc = "place" /\ ~links
  BY DEF BackupLooks
<1>2. CASE dir[bk[b].at].there
  BY <1>1, <1>2, DoneOnly DEF BackupLooks
<1>3. CASE ~dir[bk[b].at].there
  <2>1. PICK x : x = [bk[b] EXCEPT !.pc = "rename"]
    OBVIOUS
  <2>2. /\ bk[b] \in RunRec /\ bk[b].at \in Stamps /\ bk[b].file.there /\ bk[b].file.floor \subseteq bk[b].file.rows
        /\ bk[b].db \in 0 .. Len(dbs)
    BY <1>1, BkFacts DEF RunTells
  <2>3. x \in RunRec /\ x.pc = "rename" /\ x.file = bk[b].file /\ x.at \in Stamps /\ x.db \in 0 .. Len(dbs)
    BY <2>1, <2>2 DEF RunRec
  <2>4. RunTells(x)
    BY <1>1, <2>2, <2>3 DEF RunTells
  <2> QED BY <1>1, <1>3, <2>1, <2>3, <2>4, RunOnly DEF BackupLooks
<1> QED BY <1>2, <1>3

LEMMA BackupRenamesOk ==
  ASSUME BkInv, NEW b \in Backups, BackupRenames(b)
  PROVE  BkInv'
<1>1. ~links
  BY BkFacts DEF BackupRenames, RunTells
<1> QED BY <1>1, PlaceOk DEF BackupRenames

LEMMA BackupClosesOk ==
  ASSUME BkInv, NEW b \in Backups, BackupCloses(b)
  PROVE  BkInv'
<1>1. Run(b, Over) /\ UNCHANGED <<mainAt, aside, overwritten, links, written, serve, stamp, dir, placed, rs>>
  BY DEF BackupCloses
<1>a. PICK d \in 0 .. Len(dbs) : \E D : Closed(d, D) /\ serve.db \in D
  <2>1. bk[b].db \in 0 .. Len(dbs)
    BY BkFacts DEF RunTells
  <2> QED BY <2>1 DEF BackupCloses
<1>2. PICK D : Closed(d, D) /\ serve.db \in D
  BY <1>a
<1>3. /\ RowsStay /\ Len(dbs') = Len(dbs) /\ walAt' \in {0, walAt} /\ FilesTell' /\ RestoreTells'
  BY <1>1, <1>2, CloseIs
<1>4. WasPlaced' = WasPlaced
  BY <1>1 DEF WasPlaced
<1>5. Over \in RunRec /\ RunTells(Over)
  BY NoRunIs, NoRunTells, BkFacts
<1>6. RunTells(Over)'
  BY <1>1, <1>3, <1>4, <1>5, RunKeeps
<1>7. bk' \in [Backups -> RunRec] /\ \A c \in Backups : RunTells(bk[c])'
  BY <1>1, <1>3, <1>4, <1>5, <1>6, RunsTurn
<1>8. DirTells' /\ RowsAreSomewhere'
  BY <1>1, <1>3, DirStays, RowsStayThere
<1>9. BkTypes'
  BY <1>1, <1>3, <1>7, BkFacts DEF BkTypes, RowsStay
<1> QED BY <1>3, <1>7, <1>8, <1>9 DEF BkInv

(* The names a backup dooms have Keep newer ones that were put in place.   *)
LEMMA DoomedAreOld ==
  ASSUME BkInv, NEW n \in Doomed({m \in Stamps : dir[m].there})
  PROVE  n \in Stamps /\ Newer(n) >= Keep
<1>1. PICK P \in SUBSET Stamps, Q \in SUBSET Stamps : P = {m \in Stamps : dir[m].there} /\ Q = WasPlaced /\ P \subseteq Q
  <2>1. {m \in Stamps : dir[m].there} \subseteq WasPlaced /\ WasPlaced \in SUBSET Stamps
    BY BkFacts DEF DirTells, WasPlaced
  <2> QED BY <2>1
<1>2. n \in P /\ Cardinality({m \in P : m > n}) >= Keep
  BY <1>1 DEF Doomed
<1>3. /\ Cardinality({m \in P : m > n}) \in Nat /\ Cardinality({m \in Q : m > n}) \in Nat
      /\ Cardinality({m \in P : m > n}) <= Cardinality({m \in Q : m > n})
  BY <1>1, NewerGrows
<1>4. Cardinality({m \in Q : m > n}) >= Keep
  BY <1>2, <1>3, BackupAssumption
<1> QED BY <1>1, <1>2, <1>4 DEF Newer

LEMMA BackupListsOk ==
  ASSUME BkInv, NEW b \in Backups, BackupLists(b)
  PROVE  BkInv'
<1>1. UNCHANGED <<dbs, mainAt, walAt, aside, overwritten, links, written, serve, stamp, dir, placed, rs>> /\ bk[b].pc = "list"
  BY DEF BackupLists
<1>2. PICK D : D = Doomed({n \in Stamps : dir[n].there})
  OBVIOUS
<1>3. Run(b, IF D = {} THEN Finished(b) ELSE [bk[b] EXCEPT !.pc = "prune", !.names = D])
  BY <1>2 DEF BackupLists
<1>4. CASE D = {}
  BY <1>1, <1>3, <1>4, DoneOnly
<1>5. CASE D # {}
  <2>1. D \in SUBSET Stamps /\ \A n \in D : Newer(n) >= Keep
    BY <1>2, DoomedAreOld
  <2>2. bk[b] \in RunRec /\ bk[b].at \in Stamps /\ Keep > 0 /\ bk[b].db \in 0 .. Len(dbs)
    BY <1>1, BkFacts DEF RunTells
  <2>3. PICK x : x = [bk[b] EXCEPT !.pc = "prune", !.names = D]
    OBVIOUS
  <2>4. x \in RunRec /\ x.pc = "prune" /\ x.names = D /\ x.at \in Stamps /\ x.db \in 0 .. Len(dbs)
    BY <2>1, <2>2, <2>3 DEF RunRec
  <2>5. RunTells(x)
    BY <1>5, <2>1, <2>2, <2>4 DEF RunTells
  <2> QED BY <1>1, <1>3, <1>5, <2>3, <2>4, <2>5, RunOnly
<1> QED BY <1>4, <1>5

(* A set of seconds that has any has a first one.                          *)
LEMMA FirstOf ==
  ASSUME NEW T \in SUBSET Stamps, T # {}
  PROVE  Min(T) \in T
<1>1. T \in SUBSET Nat
  BY BackupAssumption DEF Stamps
<1>2. \E x \in T : \A y \in T : ~ (<<y, x>> \in OpToRel(<, Nat))
  BY <1>1, WFMin, NatLessThanWellFounded
<1>3. ASSUME NEW x \in T, NEW y \in T, ~ (<<y, x>> \in OpToRel(<, Nat))
      PROVE  x <= y
  BY <1>1, <1>3 DEF OpToRel
<1>4. \E x \in T : \A y \in T : x <= y
  BY <1>2, <1>3
<1> QED BY <1>4 DEF Min

LEMMA BackupPrunesOk ==
  ASSUME BkInv, NEW b \in Backups, BackupPrunes(b)
  PROVE  BkInv'
<1>1. bk[b].pc = "prune" /\ UNCHANGED <<dbs, mainAt, walAt, aside, overwritten, links, written, serve, stamp, placed, rs>>
  BY DEF BackupPrunes
<1>2. /\ bk[b] \in RunRec /\ bk[b].at \in Stamps /\ bk[b].names \in SUBSET Stamps /\ bk[b].names # {} /\ Keep > 0
      /\ bk[b].db \in 0 .. Len(dbs) /\ \A n \in bk[b].names : Newer(n) >= Keep
  BY <1>1, BkFacts, FileKinds DEF RunTells
<1>3. PICK n \in bk[b].names, R \in SUBSET Stamps : n = Min(bk[b].names) /\ R = bk[b].names \ {n} /\ n \in Stamps
  <2>1. PICK n : n = Min(bk[b].names)
    OBVIOUS
  <2>2. n \in bk[b].names
    BY <1>2, <2>1, FirstOf
  <2>3. n \in Stamps /\ bk[b].names \ {n} \in SUBSET Stamps
    BY <1>2, <2>2
  <2> QED BY <2>1, <2>2, <2>3
<1>4. /\ dir' = [dir EXCEPT ![n] = NoFile]
      /\ Run(b, IF dir[n].there /\ R # {} THEN [bk[b] EXCEPT !.names = R] ELSE Finished(b))
  BY <1>3 DEF BackupPrunes
<1>5. PICK x \in RunRec : Run(b, x) /\ RunTells(x)
  <2>1. CASE dir[n].there /\ R # {}
    <3>1. PICK x : x = [bk[b] EXCEPT !.names = R]
      OBVIOUS
    <3>2. x \in RunRec /\ x.pc = "prune" /\ x.names = R /\ x.at \in Stamps /\ x.db \in 0 .. Len(dbs)
      BY <1>1, <1>2, <3>1 DEF RunRec
    <3>3. RunTells(x)
      BY <1>2, <1>3, <2>1, <3>2 DEF RunTells
    <3> QED BY <1>4, <2>1, <3>1, <3>2, <3>3
  <2>2. CASE ~(dir[n].there /\ R # {})
    BY <1>4, <2>2, DoneIs
  <2> QED BY <2>1, <2>2
<1>6. RowsStay /\ WasPlaced' = WasPlaced
  BY <1>1, StillRows DEF WasPlaced
<1>7. RunTells(x)'
  BY <1>1, <1>5, <1>6, RunKeeps
<1>8. bk' \in [Backups -> RunRec] /\ \A c \in Backups : RunTells(bk[c])'
  BY <1>1, <1>5, <1>6, <1>7, RunsTurn
<1>9. dir' \in [Stamps -> FileRec] /\ dir'[n] = NoFile /\ \A k \in Stamps : k # n => dir'[k] = dir[k]
  BY <1>3, <1>4, NoFileIs, BkFacts
<1>10. DirTells
  BY BkFacts
<1>11. \A k \in Stamps : dir'[k].there => k # n
  BY <1>9, NoFileIs
<1>12. ASSUME NEW k \in Stamps, dir'[k].there
       PROVE  placed[k].there /\ dir'[k].floor \subseteq dir'[k].rows /\ (links => dir'[k] = placed[k])
  <2>1. dir'[k] = dir[k] /\ dir[k].there
    BY <1>9, <1>11, <1>12
  <2> QED BY <1>10, <2>1 DEF DirTells, CopiesAreWhole
<1>13. ASSUME NEW k \in WasPlaced, Cardinality({m \in WasPlaced : m > k}) < Keep \/ Keep = 0
       PROVE  dir'[k].there
  <2>1. k # n
    <3>1. Cardinality({m \in WasPlaced : m > n}) >= Keep
      BY <1>2 DEF Newer
    <3>2. PICK P \in SUBSET Stamps : P = WasPlaced
      <4>1. WasPlaced \in SUBSET Stamps
        BY DEF WasPlaced
      <4> QED BY <4>1
    <3>3. Cardinality({m \in P : m > n}) \in Nat
      BY NewerGrows
    <3>4. ~(Cardinality({m \in P : m > n}) < Keep \/ Keep = 0)
      BY <1>2, <3>1, <3>2, <3>3, BackupAssumption
    <3>5. Cardinality({m \in P : m > k}) < Keep \/ Keep = 0
      BY <1>13, <3>2
    <3> QED BY <3>4, <3>5
  <2>2. dir[k].there /\ k \in Stamps
    BY <1>10, <1>13 DEF DirTells, CopiesAreWhole, WasPlaced
  <2> QED BY <1>9, <2>1, <2>2
<1>14. DirTells'
  BY <1>1, <1>6, <1>12, <1>13 DEF DirTells, CopiesAreWhole
<1>15. FilesTell' /\ RestoreTells' /\ RowsAreSomewhere'
  BY <1>1, <1>6, FilesStay, RestoreStays, RowsStayThere
<1>16. BkTypes'
  BY <1>1, <1>8, <1>9, BkFacts DEF BkTypes
<1> QED BY <1>8, <1>14, <1>15, <1>16 DEF BkInv

(* What a restore does.                                                    *)
LEMMA NoRestoreIs ==
  ASSUME NEW n
  PROVE  DOMAIN NoRestore(n) = {"pc", "at", "file", "expect", "old", "left"} /\ NoRestore(n).file \in FileRec /\ NoRestore(n).pc = "idle"
BY NoFileIs DEF NoRestore

(* A step that changes only what the restore has in hand.                  *)
LEMMA RestoreOnly ==
  ASSUME BkInv, UNCHANGED <<dbs, mainAt, walAt, aside, overwritten, links, written, serve, stamp, dir, placed, bk>>,
         DOMAIN rs' = {"pc", "at", "file", "expect", "old", "left"}, rs'.file \in FileRec, rs'.pc # "idle" => rs'.at \in Stamps,
         rs'.pc \in {"idle", "inspect", "main", "wal", "place", "record", "row"}, RestoreTells'
  PROVE  BkInv'
<1>1. RowsStay
  BY StillRows
<1>2. FilesTell' /\ DirTells' /\ RowsAreSomewhere' /\ \A b \in Backups : RunTells(bk[b])'
  BY <1>1, FilesStay, DirStays, RowsStayThere, RunsStay
<1>3. BkTypes'
  BY BkFacts DEF BkTypes
<1> QED BY <1>2, <1>3 DEF BkInv

LEMMA RestoreCrashesOk ==
  ASSUME BkInv, ~Interrupted, RestoreCrashes
  PROVE  BkInv'
<1>1. /\ rs.pc # "wal" /\ rs' = NoRestore(rs.left)
      /\ UNCHANGED <<dbs, mainAt, walAt, aside, overwritten, links, written, serve, stamp, dir, placed, bk>>
  BY DEF RestoreCrashes
<1>2. DOMAIN rs' = {"pc", "at", "file", "expect", "old", "left"} /\ rs'.file \in FileRec /\ rs'.pc = "idle"
  BY <1>1, NoRestoreIs
<1>3. walAt \in {0, mainAt}
  BY <1>1, BkFacts DEF RestoreTells
<1>4. RestoreTells'
  BY <1>1, <1>2, <1>3 DEF RestoreTells
<1> QED BY <1>1, <1>2, <1>4, RestoreOnly

LEMMA RestoreStagesOk ==
  ASSUME BkInv, NEW f \in {dir[n] : n \in Stamps} \union Foreign, NEW e, RestoreStages(f, e)
  PROVE  BkInv'
<1>1. /\ rs.pc = "idle" /\ rs' = [NoRestore(rs.left - 1) EXCEPT !.pc = "inspect", !.at = stamp, !.file = f, !.expect = e]
      /\ UNCHANGED <<dbs, mainAt, walAt, aside, overwritten, links, written, serve, stamp, dir, placed, bk>>
  BY DEF RestoreStages
<1>2. f \in FileRec
  BY BkFacts, BackupAssumption
<1>3. DOMAIN rs' = {"pc", "at", "file", "expect", "old", "left"} /\ rs'.file \in FileRec /\ rs'.pc = "inspect" /\ rs'.at \in Stamps
  BY <1>1, <1>2, NoRestoreIs, BkFacts
<1>4. walAt \in {0, mainAt}
  BY <1>1, BkFacts DEF RestoreTells
<1>5. RestoreTells'
  BY <1>1, <1>3, <1>4 DEF RestoreTells
<1> QED BY <1>1, <1>3, <1>5, RestoreOnly

LEMMA RestoreInspectsOk ==
  ASSUME BkInv, RestoreInspects
  PROVE  BkInv'
<1>1. /\ rs.pc = "inspect" /\ UNCHANGED <<dbs, mainAt, walAt, aside, overwritten, links, written, serve, stamp, dir, placed, bk>>
  BY DEF RestoreInspects
<1>2. walAt \in {0, mainAt}
  BY <1>1, BkFacts DEF RestoreTells
<1>3. CASE Refused(rs.file, rs.expect)
  <2>1. rs' = NoRestore(rs.left)
    BY <1>3 DEF RestoreInspects
  <2>2. DOMAIN rs' = {"pc", "at", "file", "expect", "old", "left"} /\ rs'.file \in FileRec /\ rs'.pc = "idle"
    BY <2>1, NoRestoreIs
  <2>3. RestoreTells'
    BY <1>1, <1>2, <2>2 DEF RestoreTells
  <2> QED BY <1>1, <2>2, <2>3, RestoreOnly
<1>4. CASE ~Refused(rs.file, rs.expect)
  <2>1. rs' = [rs EXCEPT !.pc = "main", !.file.grade = IF @ = "old" THEN "ok" ELSE @]
    BY <1>4 DEF RestoreInspects
  <2>2. PICK g \in FileRec : g = [rs.file EXCEPT !.grade = IF @ = "old" THEN "ok" ELSE @] /\ g.grade = "ok" /\ g.rows = rs.file.rows
    <3>1. rs.file \in FileRec /\ rs.file.grade \in Grades
      BY BkFacts DEF FileRec
    <3>2. rs.file.grade \in {"ok", "old"}
      BY <1>4, <3>1 DEF Refused, Passes, Integral, Known, Drifted, Verified, Grades
    <3>3. PICK g : g = [rs.file EXCEPT !.grade = "ok"]
      OBVIOUS
    <3>4. g \in FileRec /\ g.grade = "ok" /\ g.rows = rs.file.rows
      BY <3>1, <3>3 DEF FileRec, Grades
    <3>5. g = [rs.file EXCEPT !.grade = IF @ = "old" THEN "ok" ELSE @]
      BY <3>2, <3>3
    <3> QED BY <3>4, <3>5
  <2>3. DOMAIN rs' = {"pc", "at", "file", "expect", "old", "left"} /\ rs'.file = g /\ rs'.pc = "main" /\ rs'.expect = rs.expect /\ rs'.at \in Stamps
    BY <1>1, <2>1, <2>2, BkFacts
  <2>4. rs.expect # 0 => HeadOf(rs.file) = rs.expect
    BY <1>4 DEF Refused
  <2>5. HeadOf(g) = HeadOf(rs.file)
    BY <2>2 DEF HeadOf
  <2>6. RestoreTells'
    BY <1>1, <1>2, <2>2, <2>3, <2>4, <2>5 DEF RestoreTells, HeadOf
  <2> QED BY <1>1, <2>2, <2>3, <2>6, RestoreOnly
<1> QED BY <1>3, <1>4

LEMMA RestoreMovesMainOk ==
  ASSUME BkInv, RestoreMovesMain
  PROVE  BkInv'
<1>1. rs.pc = "main" /\ UNCHANGED <<dbs, walAt, links, written, serve, stamp, dir, placed, bk>>
  BY DEF RestoreMovesMain
<1>2. walAt \in {0, mainAt} /\ rs.file.grade = "ok" /\ (rs.expect # 0 => HeadOf(rs.file) = rs.expect)
  BY <1>1, BkFacts DEF RestoreTells
<1>3. CASE mainAt = 0
  <2>1. UNCHANGED <<mainAt, aside, overwritten>> /\ rs' = [rs EXCEPT !.pc = "place"]
    BY <1>3 DEF RestoreMovesMain
  <2>2. /\ DOMAIN rs' = {"pc", "at", "file", "expect", "old", "left"} /\ rs'.file = rs.file /\ rs'.pc = "place"
        /\ rs'.expect = rs.expect /\ rs'.at \in Stamps
    BY <1>1, <2>1, BkFacts
  <2>3. RestoreTells'
    BY <1>1, <1>2, <1>3, <2>1, <2>2 DEF RestoreTells, HeadOf
  <2> QED BY <1>1, <2>1, <2>2, <2>3, RestoreOnly, BkFacts
<1>4. CASE mainAt # 0
  <2>1. /\ aside' = [aside EXCEPT ![rs.at] = <<mainAt, @[2]>>] /\ mainAt' = 0
        /\ overwritten' = overwritten \union ({aside[rs.at][1]} \ {0})
        /\ rs' = [rs EXCEPT !.pc = "wal", !.old = mainAt]
    BY <1>4 DEF RestoreMovesMain
  <2>2. PICK s \in Stamps : s = rs.at
    BY <1>1, BkFacts
  <2>3. /\ DOMAIN rs' = {"pc", "at", "file", "expect", "old", "left"} /\ rs'.file = rs.file /\ rs'.pc = "wal"
        /\ rs'.expect = rs.expect /\ rs'.old = mainAt /\ rs'.at = s
    BY <2>1, <2>2, BkFacts
  <2>4. mainAt \in 1 .. Len(dbs) /\ aside \in [Stamps -> (0 .. Len(dbs)) \X (0 .. Len(dbs))] /\ overwritten \subseteq 1 .. Len(dbs)
        /\ Len(dbs) \in Nat
    BY <1>4, BkFacts
  <2>5. PICK o \in 0 .. Len(dbs), w \in 0 .. Len(dbs) : aside[s] = <<o, w>>
    BY <2>2, <2>4
  <2>6. FilesTell
    BY BkFacts
  <2>7. /\ aside' \in [Stamps -> (0 .. Len(dbs)) \X (0 .. Len(dbs))] /\ aside'[s] = <<mainAt, w>>
        /\ \A n \in Stamps : n # s => aside'[n] = aside[n]
    <3>1. <<mainAt, w>> \in (0 .. Len(dbs)) \X (0 .. Len(dbs))
      BY <2>4, <2>5
    <3>2. aside' = [aside EXCEPT ![s] = <<mainAt, w>>]
      BY <2>1, <2>2, <2>5
    <3> QED BY <2>2, <2>4, <3>1, <3>2
  <2>8. overwritten' = overwritten \union ({o} \ {0}) /\ overwritten' \subseteq 1 .. Len(dbs)
    <3>1. overwritten' = overwritten \union ({o} \ {0})
      BY <2>1, <2>2, <2>5
    <3> QED BY <2>4, <2>5, <3>1
  <2>9. ASSUME NEW d \in 1 .. Len(dbs) PROVE Filed(d)'
    <3>1. CASE d = mainAt
      BY <2>2, <2>7, <3>1 DEF Filed
    <3>2. CASE d \in overwritten
      BY <2>8, <3>2 DEF Filed
    <3>3. CASE \E n \in Stamps : aside[n][1] = d
      <4>1. PICK n \in Stamps : aside[n][1] = d
        BY <3>3
      <4>2. CASE n = s
        BY <2>5, <2>8, <4>1, <4>2 DEF Filed
      <4>3. CASE n # s
        BY <2>7, <4>1, <4>3 DEF Filed
      <4> QED BY <4>2, <4>3
    <3> QED BY <2>6, <3>1, <3>2, <3>3 DEF FilesTell, Filed
  <2>10. ASSUME NEW d, Logged(d) PROVE Logged(d)'
    <3>1. CASE d = walAt \/ d \in overwritten
      BY <1>1, <2>8, <3>1 DEF Logged
    <3>2. CASE \E n \in Stamps : aside[n][2] = d
      <4>1. PICK n \in Stamps : aside[n][2] = d
        BY <3>2
      <4>2. aside'[n][2] = d
        BY <2>5, <2>7, <4>1
      <4> QED BY <4>2 DEF Logged
    <3> QED BY <2>10, <3>1, <3>2 DEF Logged
  <2>11. ASSUME NEW n \in Stamps
         PROVE  (aside'[n][1] # 0 => aside'[n][1] # mainAt') /\ aside'[n][2] \in {0, aside'[n][1]} \union overwritten'
    <3>1. aside[n][2] \in {0, aside[n][1]} \union overwritten
      BY <2>6 DEF FilesTell
    <3>2. CASE n = s
      BY <2>1, <2>5, <2>7, <2>8, <3>1, <3>2
    <3>3. CASE n # s
      BY <2>1, <2>7, <2>8, <3>1, <3>3
    <3> QED BY <3>2, <3>3
  <2>12. FilesTell'
    <3>1. \A d \in 1 .. Len(dbs') : Filed(d)' /\ (dbs'[d].wal # {} => Logged(d)')
      BY <1>1, <2>6, <2>9, <2>10 DEF FilesTell
    <3>2. serve'.pc # "off" => serve'.db # 0 /\ Logged(serve.db)'
      <4>1. PICK d : d = serve.db
        OBVIOUS
      <4>2. serve.pc # "off" => d # 0 /\ Logged(d)'
        BY <2>6, <2>10, <4>1 DEF FilesTell
      <4> QED BY <1>1, <4>1, <4>2 DEF Logged
    <3> QED BY <2>11, <3>1, <3>2 DEF FilesTell
  <2>13. RestoreTells'
    BY <1>1, <1>2, <2>1, <2>3, <2>4, <2>7 DEF RestoreTells, HeadOf
  <2>14. RowsStay
    BY <1>1, StillRows
  <2>15. DirTells' /\ RowsAreSomewhere' /\ \A b \in Backups : RunTells(bk[b])'
    BY <1>1, <2>14, DirStays, RowsStayThere, RunsStay
  <2>16. BkTypes'
    BY <1>1, <2>1, <2>2, <2>3, <2>7, <2>8, BkFacts DEF BkTypes
  <2> QED BY <2>12, <2>13, <2>15, <2>16 DEF BkInv
<1> QED BY <1>3, <1>4

LEMMA RestoreMovesLogOk ==
  ASSUME BkInv, RestoreMovesLog
  PROVE  BkInv'
<1>1. /\ rs.pc = "wal" /\ UNCHANGED <<dbs, mainAt, overwritten, links, written, serve, stamp, dir, placed, bk>>
      /\ aside' = (IF walAt = 0 THEN aside ELSE [aside EXCEPT ![rs.at] = <<@[1], walAt>>]) /\ walAt' = 0
      /\ rs' = [rs EXCEPT !.pc = "place"]
  BY DEF RestoreMovesLog, LogMoved
<1>2. /\ mainAt = 0 /\ rs.old \in 1 .. Len(dbs) /\ walAt \in {0, rs.old} /\ aside[rs.at][1] = rs.old
      /\ rs.file.grade = "ok" /\ (rs.expect # 0 => HeadOf(rs.file) = rs.expect)
  BY <1>1, BkFacts DEF RestoreTells
<1>3. PICK s \in Stamps : s = rs.at
  BY <1>1, BkFacts
<1>4. /\ DOMAIN rs' = {"pc", "at", "file", "expect", "old", "left"} /\ rs'.file = rs.file /\ rs'.pc = "place"
      /\ rs'.expect = rs.expect /\ rs'.at = s
  BY <1>1, <1>3, BkFacts
<1>5. FilesTell /\ aside \in [Stamps -> (0 .. Len(dbs)) \X (0 .. Len(dbs))] /\ Len(dbs) \in Nat
  BY BkFacts
<1>6. PICK o \in 0 .. Len(dbs), w \in 0 .. Len(dbs) : aside[s] = <<o, w>> /\ o = rs.old
  BY <1>2, <1>3, <1>5
<1>7. PICK v \in 0 .. Len(dbs) : v = IF walAt = 0 THEN w ELSE walAt
  BY <1>2, <1>6, BkFacts
<1>8. /\ aside' \in [Stamps -> (0 .. Len(dbs)) \X (0 .. Len(dbs))] /\ aside'[s] = <<o, v>>
      /\ \A n \in Stamps : n # s => aside'[n] = aside[n]
  <2>1. <<o, v>> \in (0 .. Len(dbs)) \X (0 .. Len(dbs))
    BY <1>6, <1>7
  <2>2. CASE walAt = 0
    BY <1>1, <1>3, <1>5, <1>6, <1>7, <2>2
  <2>3. CASE walAt # 0
    <3>1. aside' = [aside EXCEPT ![s] = <<o, v>>]
      BY <1>1, <1>3, <1>6, <1>7, <2>3
    <3> QED BY <1>3, <1>5, <2>1, <3>1
  <2> QED BY <2>2, <2>3
<1>9. w \in {0, o} \union overwritten /\ v \in {0, o} \union overwritten
  <2>1. aside[s][2] \in {0, aside[s][1]} \union overwritten
    BY <1>3, <1>5 DEF FilesTell
  <2>2. w \in {0, o} \union overwritten
    BY <1>6, <2>1
  <2> QED BY <1>2, <1>6, <1>7, <2>2
<1>10. ASSUME NEW d \in 1 .. Len(dbs) PROVE Filed(d)'
  <2>1. \A n \in Stamps : aside'[n][1] = aside[n][1]
    BY <1>6, <1>8
  <2>2. Filed(d)
    BY <1>5 DEF FilesTell
  <2> QED BY <1>1, <2>1, <2>2 DEF Filed
<1>11. ASSUME NEW d \in 1 .. Len(dbs), Logged(d) PROVE Logged(d)'
  <2>1. CASE d = walAt
    <3>1. aside'[s][2] = d
      BY <1>7, <1>8, <2>1, BkFacts
    <3> QED BY <3>1 DEF Logged
  <2>2. CASE d \in overwritten
    BY <1>1, <2>2 DEF Logged
  <2>3. CASE d # walAt /\ d \notin overwritten
    <3>1. PICK n \in Stamps : aside[n][2] = d
      BY <1>11, <2>3 DEF Logged
    <3>2. CASE n # s
      BY <1>8, <3>1, <3>2 DEF Logged
    <3>3. CASE n = s
      <4>1. w = d /\ d # 0 /\ d = o
        BY <1>6, <1>9, <2>3, <3>1, <3>3
      <4>2. walAt = 0
        BY <1>2, <1>6, <2>3, <4>1
      <4>3. aside'[s][2] = d
        BY <1>7, <1>8, <4>1, <4>2
      <4> QED BY <4>3 DEF Logged
    <3> QED BY <3>2, <3>3
  <2> QED BY <2>1, <2>2, <2>3
<1>12. FilesTell'
  <2>1. \A d \in 1 .. Len(dbs') : Filed(d)' /\ (dbs'[d].wal # {} => Logged(d)')
    BY <1>1, <1>5, <1>10, <1>11 DEF FilesTell
  <2>2. serve'.pc # "off" => serve'.db # 0 /\ Logged(serve.db)'
    <3>1. PICK d : d = serve.db
      OBVIOUS
    <3>2. serve.pc # "off" => d \in 1 .. Len(dbs) /\ Logged(d)
      BY <1>5, <3>1, BkFacts DEF FilesTell
    <3>3. serve.pc # "off" => d # 0 /\ Logged(d)'
      BY <1>11, <3>2
    <3> QED BY <1>1, <3>1, <3>3 DEF Logged
  <2>3. ASSUME NEW n \in Stamps
        PROVE  (aside'[n][1] # 0 => aside'[n][1] # mainAt') /\ aside'[n][2] \in {0, aside'[n][1]} \union overwritten'
    <3>1. mainAt' = 0 /\ overwritten' = overwritten
      BY <1>1, <1>2
    <3>2. CASE n = s
      BY <1>8, <1>9, <3>1, <3>2
    <3>3. CASE n # s
      BY <1>5, <1>8, <3>1, <3>3 DEF FilesTell
    <3> QED BY <3>2, <3>3
  <2> QED BY <2>1, <2>2, <2>3 DEF FilesTell
<1>13. RestoreTells'
  BY <1>1, <1>2, <1>4 DEF RestoreTells, HeadOf
<1>14. RowsStay
  BY <1>1, StillRows
<1>15. DirTells' /\ RowsAreSomewhere' /\ \A b \in Backups : RunTells(bk[b])'
  BY <1>1, <1>14, DirStays, RowsStayThere, RunsStay
<1>16. BkTypes'
  BY <1>1, <1>3, <1>4, <1>8, BkFacts DEF BkTypes
<1> QED BY <1>12, <1>13, <1>15, <1>16 DEF BkInv

LEMMA RestorePlacesOk ==
  ASSUME BkInv, RestorePlaces
  PROVE  BkInv'
<1>1. /\ rs.pc = "place" /\ dbs' = Append(dbs, Db(rs.file.rows, {}, rs.file.grade)) /\ mainAt' = Len(dbs) + 1
      /\ rs' = [rs EXCEPT !.pc = "record"] /\ UNCHANGED <<walAt, aside, overwritten, links, written, serve, stamp, dir, placed, bk>>
  BY DEF RestorePlaces
<1>2. /\ mainAt = 0 /\ walAt = 0 /\ rs.file.grade = "ok" /\ (rs.expect # 0 => HeadOf(rs.file) = rs.expect)
  BY <1>1, BkFacts DEF RestoreTells
<1>3. /\ DOMAIN rs' = {"pc", "at", "file", "expect", "old", "left"} /\ rs'.file = rs.file /\ rs'.pc = "record"
      /\ rs'.expect = rs.expect /\ rs'.at \in Stamps
  BY <1>1, BkFacts
<1>4. PICK x \in DbRec : x = Db(rs.file.rows, {}, rs.file.grade) /\ x.main = rs.file.rows /\ x.wal = {} /\ x.grade = "ok"
  <2>1. PICK m \in SUBSET Nat, w \in SUBSET Nat, g \in Grades : m = rs.file.rows /\ w = {} /\ g = rs.file.grade
    BY BkFacts DEF FileRec
  <2>2. Db(m, w, g) \in DbRec /\ Db(m, w, g).main = m /\ Db(m, w, g).wal = w /\ Db(m, w, g).grade = g
    BY ONLY m \in SUBSET Nat, w \in SUBSET Nat, g \in Grades DEF Db, DbRec
  <2> QED BY <1>2, <2>1, <2>2
<1>5. /\ dbs' \in Seq(DbRec) /\ Len(dbs') = Len(dbs) + 1 /\ dbs'[Len(dbs) + 1] = x
      /\ \A e \in 1 .. Len(dbs) : dbs'[e] = dbs[e]
  BY <1>1, <1>4, Added, BkFacts
<1>6. RowsStay
  BY <1>5, BkFacts DEF RowsStay, Rows
<1>7. FilesTell'
  <2>1. FilesTell /\ Len(dbs) \in Nat
    BY BkFacts
  <2>2. ASSUME NEW d \in 1 .. Len(dbs') PROVE d \in 1 .. Len(dbs) \/ d = Len(dbs) + 1
    BY <1>5, <2>1
  <2>3. ASSUME NEW d \in 1 .. Len(dbs') PROVE Filed(d)'
    BY <1>1, <1>2, <2>1, <2>2 DEF FilesTell, Filed
  <2>4. ASSUME NEW d \in 1 .. Len(dbs'), dbs'[d].wal # {} PROVE Logged(d)'
    BY <1>1, <1>4, <1>5, <2>1, <2>2, <2>4 DEF FilesTell, Logged
  <2>5. serve'.pc # "off" => serve'.db # 0 /\ Logged(serve.db)'
    BY <1>1, <2>1 DEF FilesTell, Logged
  <2>6. ASSUME NEW n \in Stamps
        PROVE  (aside'[n][1] # 0 => aside'[n][1] # mainAt') /\ aside'[n][2] \in {0, aside'[n][1]} \union overwritten'
    <3>1. aside[n][1] \in 0 .. Len(dbs) /\ aside[n][2] \in {0, aside[n][1]} \union overwritten
      BY <2>1, BkFacts DEF FilesTell
    <3> QED BY <1>1, <2>1, <3>1
  <2> QED BY <2>3, <2>4, <2>5, <2>6 DEF FilesTell
<1>8. RestoreTells'
  <2>1. mainAt' # 0 /\ rs'.file.rows \subseteq dbs'[mainAt'].main /\ dbs'[mainAt'].grade = "ok"
    BY <1>1, <1>3, <1>4, <1>5, BkFacts
  <2> QED BY <1>1, <1>2, <1>3, <2>1 DEF RestoreTells, HeadOf
<1>9. DirTells' /\ RowsAreSomewhere' /\ \A b \in Backups : RunTells(bk[b])'
  BY <1>1, <1>6, DirStays, RowsStayThere, RunsStay
<1>10. BkTypes'
  BY <1>1, <1>3, <1>5, BkFacts DEF BkTypes
<1> QED BY <1>7, <1>8, <1>9, <1>10 DEF BkInv

LEMMA RestoreOpensOk ==
  ASSUME BkInv, RestoreOpens
  PROVE  BkInv'
<1>1. /\ rs.pc = "record" /\ Opened(TRUE) /\ rs' = [rs EXCEPT !.pc = "row", !.old = mainAt']
      /\ UNCHANGED <<aside, overwritten, links, written, serve, stamp, dir, placed, bk>>
  BY DEF RestoreOpens
<1>2. ~InRenames
  BY <1>1 DEF InRenames
<1>3. OpenedWell
  BY <1>1, <1>2, OpenedIs
<1>4. RowsStay
  BY <1>3 DEF OpenedWell
<1>5. /\ DOMAIN rs' = {"pc", "at", "file", "expect", "old", "left"} /\ rs'.file = rs.file /\ rs'.pc = "row"
      /\ rs'.old = mainAt' /\ rs'.at \in Stamps
  BY <1>1, BkFacts
<1>6. RestoreTells'
  BY <1>3, <1>5 DEF RestoreTells, OpenedWell
<1>7. FilesTell'
  BY <1>1, <1>2, <1>3, FilesOpen
<1>8. DirTells' /\ RowsAreSomewhere' /\ \A b \in Backups : RunTells(bk[b])'
  BY <1>1, <1>4, DirStays, RowsStayThere, RunsStay
<1>9. BkTypes'
  BY <1>1, <1>3, <1>4, <1>5, BkFacts DEF BkTypes, OpenedWell, RowsStay
<1> QED BY <1>6, <1>7, <1>8, <1>9 DEF BkInv

LEMMA RestoreRecordsOk ==
  ASSUME BkInv, RestoreRecords
  PROVE  BkInv'
<1>1. /\ rs.pc = "row" /\ written' = written + 1 /\ rs' = NoRestore(rs.left)
      /\ dbs' = [dbs EXCEPT ![rs.old] = Db(@.main \union @.wal \union {written + 1}, {}, @.grade)]
      /\ walAt' = IF walAt = rs.old /\ rs.old \notin ByBackups(Backups) \union {serve.db} THEN 0 ELSE walAt
      /\ UNCHANGED <<mainAt, aside, overwritten, links, serve, stamp, dir, placed, bk>>
  BY DEF RestoreRecords
<1>2. PICK d \in 1 .. Len(dbs) : d = rs.old
  BY <1>1, BkFacts DEF RestoreTells
<1>3. PICK m \in SUBSET Nat, w \in SUBSET Nat, g \in Grades :
        m = dbs[d].main \union dbs[d].wal \union {written + 1} /\ w = {} /\ g = dbs[d].grade
  <2>1. dbs[d].main \in SUBSET Nat /\ dbs[d].wal \in SUBSET Nat /\ written + 1 \in Nat /\ dbs[d].grade \in Grades
    BY <1>2, BkFacts
  <2>2. dbs[d].main \union dbs[d].wal \union {written + 1} \in SUBSET Nat
    BY <2>1
  <2> QED BY <2>1, <2>2
<1>4. PICK x : x = Db(m, w, g)
  OBVIOUS
<1>5. x \in DbRec /\ x.main = m /\ x.wal = {} /\ x.grade = g
  <2>1. Db(m, w, g) \in DbRec /\ Db(m, w, g).main = m /\ Db(m, w, g).wal = w /\ Db(m, w, g).grade = g
    BY DbIs
  <2> QED BY <1>3, <1>4, <2>1
<1>6. dbs' = [dbs EXCEPT ![d] = x]
  BY <1>1, <1>2, <1>3, <1>4
<1>7. /\ RowsStay /\ Len(dbs') = Len(dbs) /\ dbs'[d] = x
      /\ \A e \in 1 .. Len(dbs) : e # d => dbs'[e] = dbs[e]
  <2>1. Rows(d) \subseteq x.main \union x.wal /\ dbs[d].main \subseteq x.main /\ x.grade = dbs[d].grade
    BY <1>3, <1>5 DEF Rows
  <2> QED BY <1>5, <1>6, <2>1, DbGrows
<1>8. walAt' \in {0, walAt} /\ (walAt # d \/ serve.db = d => walAt' = walAt)
  BY <1>1, <1>2
<1>9. FilesTell'
  <2>1. FilesTell
    BY BkFacts
  <2>2. ASSUME NEW e, e # d \/ serve.db = d, Logged(e) PROVE Logged(e)'
    BY <1>1, <1>8, <2>2 DEF Logged
  <2>3. ASSUME NEW e \in 1 .. Len(dbs') PROVE Filed(e)' /\ (dbs'[e].wal # {} => Logged(e)')
    <3>1. e \in 1 .. Len(dbs)
      BY <1>7, <2>3
    <3>2. Filed(e)'
      BY <1>1, <2>1, <3>1 DEF FilesTell, Filed
    <3>3. ASSUME dbs'[e].wal # {} PROVE Logged(e)'
      <4>1. e # d /\ dbs[e].wal # {}
        BY <1>5, <1>7, <3>1, <3>3
      <4> QED BY <2>1, <2>2, <3>1, <4>1 DEF FilesTell
    <3> QED BY <3>2, <3>3
  <2>4. serve'.pc # "off" => serve'.db # 0 /\ Logged(serve.db)'
    <3>1. PICK e : e = serve.db
      OBVIOUS
    <3>2. serve.pc # "off" => e # 0 /\ Logged(e)'
      BY <2>1, <2>2, <3>1 DEF FilesTell
    <3> QED BY <1>1, <3>1, <3>2 DEF Logged
  <2> QED BY <1>1, <2>1, <2>3, <2>4 DEF FilesTell
<1>10. DOMAIN rs' = {"pc", "at", "file", "expect", "old", "left"} /\ rs'.file \in FileRec /\ rs'.pc = "idle"
  BY <1>1, NoRestoreIs
<1>11. RestoreTells'
  <2>1. walAt \in {0, mainAt}
    BY <1>1, BkFacts DEF RestoreTells
  <2> QED BY <1>1, <1>8, <1>10, <2>1 DEF RestoreTells
<1>12. RowsAreSomewhere'
  <2> SUFFICES ASSUME NEW r \in 1 .. written + 1 PROVE \E e \in 1 .. Len(dbs') : r \in dbs'[e].main \union dbs'[e].wal
    BY <1>1 DEF RowsAreSomewhere, Rows
  <2>1. CASE r = written + 1
    BY <1>3, <1>5, <1>7, <2>1
  <2>2. CASE r \in 1 .. written
    <3>1. PICK e \in 1 .. Len(dbs) : r \in Rows(e)
      BY <2>2, BkFacts DEF RowsAreSomewhere
    <3> QED BY <1>7, <3>1 DEF RowsStay
  <2> QED BY <2>1, <2>2, BkFacts
<1>13. DirTells' /\ \A b \in Backups : RunTells(bk[b])'
  BY <1>1, <1>7, DirStays, RunsStay
<1>14. BkTypes'
  BY <1>1, <1>7, <1>8, <1>10, BkFacts DEF BkTypes, RowsStay
<1> QED BY <1>9, <1>11, <1>12, <1>13, <1>14 DEF BkInv

LEMMA BkInitHolds == BkInit => BkInv
<1> SUFFICES ASSUME BkInit PROVE BkInv
  OBVIOUS
<1>1. PICK g \in FirstGrades : dbs = << Db({1}, {}, g) >>
  BY DEF BkInit
<1>2. /\ mainAt = 1 /\ walAt = 0 /\ aside = [n \in Stamps |-> <<0, 0>>] /\ overwritten = {} /\ written = 1 /\ serve = [pc |-> "off", db |-> 0]
      /\ stamp = 1 /\ dir = [n \in Stamps |-> NoFile] /\ placed = [n \in Stamps |-> NoFile]
  BY DEF BkInit
<1>3. PICK p \in Plans : /\ links = p.links /\ bk = [b \in Backups |-> IF b \in p.backups THEN NoRun ELSE Over]
                         /\ rs = NoRestore(p.restores)
  BY DEF BkInit
<1>4. PICK x \in DbRec : x = Db({1}, {}, g) /\ x.main = {1} /\ x.wal = {}
  <2>1. PICK m \in SUBSET Nat, w \in SUBSET Nat, h \in Grades : m = {1} /\ w = {} /\ h = g
    <3>1. {1} \in SUBSET Nat /\ {} \in SUBSET Nat /\ g \in Grades
      BY BackupAssumption
    <3> QED BY <3>1
  <2>2. Db(m, w, h) \in DbRec /\ Db(m, w, h).main = m /\ Db(m, w, h).wal = w
    BY DbIs
  <2> QED BY <2>1, <2>2
<1>5. dbs \in Seq(DbRec) /\ Len(dbs) = 1 /\ dbs[1] = x
  BY <1>1, <1>4
<1>6. /\ DOMAIN rs = {"pc", "at", "file", "expect", "old", "left"} /\ rs.file \in FileRec /\ rs.pc = "idle"
  BY <1>3, NoRestoreIs
<1>7. bk \in [Backups -> RunRec] /\ \A b \in Backups : RunTells(bk[b])
  BY <1>3, <1>5, NoRunIs, NoRunTells
<1>8. /\ dir \in [Stamps -> FileRec] /\ placed \in [Stamps -> FileRec]
      /\ \A n \in Stamps : ~dir[n].there /\ ~placed[n].there
  BY <1>2, NoFileIs
<1>9. BkTypes
  <2>1. mainAt \in 0 .. Len(dbs) /\ walAt \in 0 .. Len(dbs) /\ written \in Nat
    BY <1>2, <1>5
  <2>2. serve \in [pc : {"off", "open", "on"}, db : 0 .. Len(dbs)]
    BY <1>2, <1>5
  <2>3. stamp \in Stamps /\ links \in BOOLEAN
    BY <1>2, <1>3, BackupAssumption DEF Stamps
  <2>4. aside \in [Stamps -> (0 .. Len(dbs)) \X (0 .. Len(dbs))] /\ overwritten \subseteq 1 .. Len(dbs)
    BY <1>2, <1>5
  <2> QED BY <1>5, <1>6, <1>7, <1>8, <2>1, <2>2, <2>3, <2>4 DEF BkTypes
<1>10. FilesTell
  BY <1>2, <1>4, <1>5 DEF FilesTell, Filed
<1>11. RestoreTells
  BY <1>2, <1>6 DEF RestoreTells
<1>12. DirTells
  BY <1>2, <1>8 DEF DirTells, CopiesAreWhole, WasPlaced
<1>13. RowsAreSomewhere
  <2>1. 1 \in 1 .. Len(dbs) /\ 1 \in Rows(1)
    BY <1>4, <1>5 DEF Rows
  <2> QED BY <1>2, <2>1 DEF RowsAreSomewhere
<1> QED BY <1>7, <1>9, <1>10, <1>11, <1>12, <1>13 DEF BkInv

LEMMA BackupStepOk ==
  ASSUME BkInv, ~Interrupted, NEW b \in Backups, Step(b)
  PROVE  BkInv'
BY BackupBeginsOk, BackupOpensOk, BackupSnapshotsOk, BackupInspectsOk, BackupPlacesOk, BackupLooksOk, BackupRenamesOk,
   BackupListsOk, BackupPrunesOk, BackupClosesOk, BackupCrashesOk DEF Step

LEMMA BkNextOk ==
  ASSUME BkInv, ~Interrupted, BkNext
  PROVE  BkInv'
<1>1. CASE ServeOpens \/ ServeListens \/ ServeCommits \/ ServeStops \/ ServeDies
  BY <1>1, ServeOpensOk, ServeListensOk, ServeCommitsOk, ServeStopsOk, ServeDiesOk
<1>2. CASE \E b \in Backups : Step(b)
  BY <1>2, BackupStepOk
<1>3. CASE \E f \in {dir[n] : n \in Stamps} \union Foreign, e \in {0} \union {HeadOf(dir[n]) : n \in Stamps} : RestoreStages(f, e)
  <2>1. PICK f \in {dir[n] : n \in Stamps} \union Foreign, e \in {0} \union {HeadOf(dir[n]) : n \in Stamps} : RestoreStages(f, e)
    BY <1>3
  <2> QED BY <2>1, RestoreStagesOk
<1>4. CASE RestoreInspects \/ RestoreMovesMain \/ RestoreMovesLog \/ RestorePlaces \/ RestoreOpens \/ RestoreRecords \/ RestoreCrashes
  BY <1>4, RestoreInspectsOk, RestoreMovesMainOk, RestoreMovesLogOk, RestorePlacesOk, RestoreOpensOk, RestoreRecordsOk,
     RestoreCrashesOk
<1>5. CASE Second
  BY <1>5, SecondOk
<1> QED BY <1>1, <1>2, <1>3, <1>4, <1>5 DEF BkNext

LEMMA CopiesFollow ==
  ASSUME BkInv
  PROVE  CopiesAreSound
<1>1. mainAt \in 0 .. Len(dbs) /\ walAt \in 0 .. Len(dbs) /\ serve.db \in 0 .. Len(dbs)
  BY DEF BkInv, BkTypes
<1>2. BkTypeOK
  BY <1>1, BkFacts DEF BkTypeOK
<1>3. CopiesAreWhole
  BY BkFacts DEF DirTells
<1>4. RestoredIsChecked
  BY BkFacts DEF RestoreTells, RestoredIsChecked
<1> QED BY <1>2, <1>3, <1>4 DEF CopiesAreSound

LEMMA RowsFollow ==
  ASSUME BkInv
  PROVE  NothingIsLost
<1> SUFFICES ASSUME NEW r \in 1 .. written
             PROVE  \/ \E p \in Files : (p[1] # 0 /\ r \in dbs[p[1]].main) \/ (p[2] # 0 /\ r \in dbs[p[2]].wal)
                    \/ \E d \in overwritten : r \in Rows(d)
  BY DEF NothingIsLost
<1>1. PICK d \in 1 .. Len(dbs) : r \in dbs[d].main \/ r \in dbs[d].wal
  BY BkFacts DEF RowsAreSomewhere, Rows
<1>2. d # 0 /\ FilesTell
  BY BkFacts
<1>3. /\ <<mainAt, walAt>> \in Files /\ <<mainAt, walAt>>[1] = mainAt /\ <<mainAt, walAt>>[2] = walAt
      /\ \A n \in Stamps : aside[n] \in Files
  BY DEF Files
<1>4. CASE d \in overwritten
  BY <1>1, <1>4 DEF Rows
<1>5. CASE d \notin overwritten /\ r \in dbs[d].main
  <2>1. PICK p \in Files : p[1] = d
    BY <1>2, <1>3, <1>5 DEF FilesTell, Filed
  <2> QED BY <1>2, <1>5, <2>1
<1>6. CASE d \notin overwritten /\ r \in dbs[d].wal
  <2>1. PICK p \in Files : p[2] = d
    BY <1>2, <1>3, <1>6 DEF FilesTell, Logged
  <2> QED BY <1>2, <1>6, <2>1
<1> QED BY <1>1, <1>4, <1>5, <1>6

(* Where nothing comes between the renames of a restore, the databases and *)
(* their logs stay where FilesTell says, and every run has in hand what it *)
(* should (openDatabase, runBackup, runRestoreFrom).                       *)
THEOREM BkInvAlways ==
  ASSUME ~Interrupted
  PROVE  BkSpec => []BkInv
<1>1. BkInit => BkInv
  BY BkInitHolds
<1>2. BkInv /\ [BkNext]_bkVars => BkInv'
  BY BkNextOk, StutterOk
<1> QED BY <1>1, <1>2, PTL DEF BkSpec

(* Every copy in the backup directory holds what was committed when its    *)
(* backup opened the database, the newest Keep ever put in place are there *)
(* and what a restore puts at the path is what its checks passed, for any  *)
(* number of backups beside each other, serve and a restore (Snapshot,     *)
(* placeNoReplace, pruneBackups, restoreVerdict).                          *)
THEOREM CopiesAreAlwaysSound ==
  ASSUME ~Interrupted
  PROVE  BkSpec => []CopiesAreSound
<1>1. BkInv => CopiesAreSound
  BY CopiesFollow
<1> QED BY <1>1, BkInvAlways, PTL

(* No row that was committed is lost: it is in a main file or a log, at    *)
(* the path or moved aside from it, but for the databases a restore kept   *)
(* under a name another of the same second took (runRestoreFrom).          *)
THEOREM NothingIsEverLost ==
  ASSUME ~Interrupted
  PROVE  BkSpec => []NothingIsLost
<1>1. BkInv => NothingIsLost
  BY RowsFollow
<1> QED BY <1>1, BkInvAlways, PTL
=============================================================================
