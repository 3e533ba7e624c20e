------------------------------- MODULE Audit -------------------------------
(***************************************************************************)
(* The audit trail: the hash-chained table (internal/audit/sqlite), the    *)
(* JSONL sink written after it (internal/audit/jsonl) and its readers      *)
(* (`mcp-gateway audit`, the management service).  Several callers in      *)
(* several OS processes share the database and the sink file.              *)
(*                                                                         *)
(* A hash is modelled by what it must be: an injective function of the     *)
(* predecessor's hash and the record, so the sequence of records up to it. *)
(***************************************************************************)
EXTENDS Integers, SequencesExt

CONSTANTS Callers,     \* goroutines that record
          HostOf,      \* [Callers -> OS process]
          Recs,        \* records that callers write: [who, ts]
          Unreadable,  \* a stored timestamp time.Parse refuses
          NoCaller, Kept,
          MaxRows,     \* bound: rows of the table, by focus
          MaxLegacy,   \* bound: rows from before the chain columns existed
          MaxBoots,    \* bound: process starts, by focus
          MaxBeats,    \* bound: heartbeats
          PageLimit    \* AuditQuery.Limit

Hosts == {HostOf[c] : c \in Callers}

ASSUME CallersAssumption == IsFiniteSet(Callers) /\ NoCaller \notin Callers
ASSUME RecsAssumption ==
  \A r \in Recs : r = [who |-> r.who, ts |-> r.ts] /\ r.ts \in Int /\ r.ts # Unreadable
ASSUME TrailBoundsAssumption ==
  /\ MaxLegacy \in Nat
  /\ \A f \in {"ship", "page", "expose"} : MaxRows[f] \in Nat /\ MaxLegacy <= MaxRows[f]
ASSUME PageAssumption == PageLimit \in Nat \ {0}   \* admin.Audit puts a default for a limit below 1

VARIABLES
  rows,    \* audit_records ORDER BY id: <<[id, rec, prev, hash, chained]>>
  meta,    \* audit_chain_meta: retroactive_boundary_id, -1 while there is no row
  legacy,  \* how many rows the database held before the chain existed
  host,    \* Hosts -> "off" | "checked" | "up": how far Migrate got
  lock,    \* the caller whose BEGIN IMMEDIATE holds the write lock
  call,    \* Callers -> [pc, rec, prev]
  sink,    \* the sink file's lines: <<[by, boot, rec, prev, hash, merged]>>
  tail,    \* how the file ends: a whole line, or a stump and whose it is
  mem,     \* Hosts -> Recorder.head, Recorder.emitted, and the boot they belong to
  beat,    \* heartbeats written: <<[by, boot, head, records, whole]>>
  fault,   \* what happened to the table behind the program's back
  pins,    \* heads an operator wrote down, with the records they stood for
  walk,    \* one reader paging through the trail
  focus    \* what this behaviour looks at: lines shipped (audit.siem configured),
           \* a reader paging, or a table that may be damaged; bounds the model

chainVars == <<rows, meta, legacy, host, lock, call>>
sinkVars  == <<sink, tail, mem, beat>>
auditVars == <<chainVars, sinkVars, fault, pins, walk, focus>>

Genesis == <<>>
ChainHashAlone(prev, r) == <<r>>
ChainHash(prev, r) == Append(prev, r)
ChainHead(t) == IF t = <<>> THEN Genesis ELSE t[Len(t)].hash
Records(t) == [i \in DOMAIN t |-> t[i].rec]
\* AUTOINCREMENT.  It never reuses an id, where this does once Damage has cut
\* the tail off; only the boundary of the back-fill is compared with ids.
NextId == IF rows = <<>> THEN 1 ELSE rows[Len(rows)].id + 1
Ships == focus = "ship"   \* auditRecorder wraps the table only if cfg.Audit.SIEM.Enabled()
Idle == [pc |-> "idle", rec |-> NoCaller, prev |-> Genesis]
Clean == [kind |-> "clean", by |-> NoCaller]

AuditInit ==
  /\ \E t \in UNION {[1..n -> Recs] : n \in 0..MaxLegacy} :
        /\ rows = [i \in DOMAIN t |->
                     [id |-> i, rec |-> t[i], prev |-> Genesis, hash |-> Genesis, chained |-> FALSE]]
        /\ legacy = Len(t)
  /\ meta = -1
  /\ host = [h \in Hosts |-> "off"]
  /\ lock = NoCaller
  /\ call = [c \in Callers |-> Idle]
  /\ sink = <<>> /\ tail = Clean /\ beat = <<>>
  /\ mem = [h \in Hosts |-> [boot |-> 0, head |-> Genesis, emitted |-> 0]]
  /\ fault = [kind |-> "none", at |-> 0]
  /\ focus \in {"ship", "page", "expose"}
  /\ pins = {}
  /\ walk = [pc |-> "no", before |-> 0, start |-> <<>>, seen |-> <<>>]

(* Starting a process: Migrate *)

\* Migrate looks for the meta row before it opens the backfill's transaction.
MigrateCheck(h) ==
  /\ host[h] = "off"
  /\ host' = [host EXCEPT ![h] = IF meta >= 0 THEN "up" ELSE "checked"]
  /\ mem' = [mem EXCEPT ![h] = [boot |-> @.boot + 1, head |-> Genesis, emitted |-> 0]]
  /\ FoldFunction(LAMBDA m, n : m.boot + n, 0, mem) < MaxBoots[focus]
  /\ UNCHANGED <<rows, meta, legacy, lock, call, sink, tail, beat, fault, pins, walk, focus>>

\* The rows without a hash are chained in id order after the last row that has one.
BackfillHeads(t) ==
  LET done == {i \in DOMAIN t : t[i].chained}
      head[i \in 0..Len(t)] ==
        IF i = 0 THEN IF done = {} THEN Genesis ELSE t[Max(done)].hash
        ELSE IF t[i].chained THEN head[i - 1] ELSE ChainHash(head[i - 1], t[i].rec)
  IN head

Backfilled(t) ==
  [i \in DOMAIN t |->
     IF t[i].chained THEN t[i]
     ELSE [t[i] EXCEPT !.prev = BackfillHeads(t)[i - 1], !.hash = BackfillHeads(t)[i],
                       !.chained = TRUE]]

LastBare(t) == LET bare == {i \in DOMAIN t : ~t[i].chained}
               IN IF bare = {} THEN 0 ELSE t[Max(bare)].id

\* One transaction: the backfill and the meta row, which is inserted once; the
\* process that comes second is refused by the key and does not start.
BackfillChain(h) ==
  /\ host[h] = "checked" /\ lock = NoCaller
  /\ IF meta >= 0
     THEN host' = [host EXCEPT ![h] = "off"] /\ UNCHANGED <<rows, meta>>
     ELSE /\ rows' = Backfilled(rows)
          /\ meta' = LastBare(rows)
          /\ host' = [host EXCEPT ![h] = "up"]
  /\ UNCHANGED <<legacy, lock, call, sinkVars, fault, pins, walk, focus>>

(* Recording: sqlite.RecordChained, then the sink *)


\* Mutant: the head is read without the write lock.
BeginDeferred(c, r) ==
  /\ host[HostOf[c]] = "up" /\ call[c].pc = "idle" /\ Len(rows) < MaxRows[focus]
  /\ lock' = c
  /\ call' = [call EXCEPT ![c] = [pc |-> "tx", rec |-> r, prev |-> ChainHead(rows)]]
  /\ UNCHANGED <<rows, meta, legacy, host, sinkVars, fault, pins, walk, focus>>

BeginImmediate(c, r) ==
  /\ host[HostOf[c]] = "up" /\ call[c].pc = "idle" /\ lock = NoCaller
  /\ Len(rows) < MaxRows[focus]
  /\ lock' = c
  /\ call' = [call EXCEPT ![c] = [pc |-> "tx", rec |-> r, prev |-> ChainHead(rows)]]
  /\ UNCHANGED <<rows, meta, legacy, host, sinkVars, fault, pins, walk, focus>>

Commit(c) ==
  /\ call[c].pc = "tx"
  /\ rows' = Append(rows, [id |-> NextId, rec |-> call[c].rec, prev |-> call[c].prev,
                           hash |-> ChainHash(call[c].prev, call[c].rec), chained |-> TRUE])
  /\ lock' = NoCaller
  /\ call' = [call EXCEPT ![c].pc = "stored"]
  /\ UNCHANGED <<meta, legacy, host, sinkVars, fault, pins, walk, focus>>


\* Mutants: the failed write is emitted all the same; the failed write stays in the table.
RollbackEmits(c) ==
  /\ call[c].pc = "tx" /\ lock' = NoCaller
  /\ call' = [call EXCEPT ![c].pc = "stored"]
  /\ UNCHANGED <<rows, meta, legacy, host, sinkVars, fault, pins, walk, focus>>
RollbackKeepsRow(c) ==
  /\ call[c].pc = "tx" /\ lock' = NoCaller
  /\ rows' = Append(rows, [id |-> NextId, rec |-> call[c].rec, prev |-> call[c].prev,
                           hash |-> ChainHash(call[c].prev, call[c].rec), chained |-> TRUE])
  /\ call' = [call EXCEPT ![c] = Idle]
  /\ UNCHANGED <<meta, legacy, host, sinkVars, fault, pins, walk, focus>>

\* The insert or the commit fails: ROLLBACK, the caller gets an error, nothing is emitted.
Rollback(c) ==
  /\ call[c].pc = "tx"
  /\ lock' = NoCaller
  /\ call' = [call EXCEPT ![c] = Idle]
  /\ UNCHANGED <<rows, meta, legacy, host, sinkVars, fault, pins, walk, focus>>


\* Mutant: the line links to the last line this process emitted.
LineFromMemory(c) == [by |-> HostOf[c], boot |-> mem[HostOf[c]].boot, rec |-> call[c].rec,
                      prev |-> mem[HostOf[c]].head, hash |-> ChainHash(call[c].prev, call[c].rec),
                      merged |-> tail]

Line(c) == [by |-> HostOf[c], boot |-> mem[HostOf[c]].boot, rec |-> call[c].rec,
            prev |-> call[c].prev, hash |-> ChainHash(call[c].prev, call[c].rec),
            merged |-> tail]


\* Mutant: the sink has no mutex.
SinkNeverBusy(h) == FALSE

\* FileSink.mu is held by a goroutine of this process that still has to end its stump.
SinkBusy(h) == tail.kind = "open" /\ HostOf[tail.by] = h

\* Without a sink the committed record is the whole call.
Return(c) ==
  /\ call[c].pc = "stored" /\ ~Ships
  /\ call' = [call EXCEPT ![c] = Idle]
  /\ UNCHANGED <<rows, meta, legacy, host, lock, sinkVars, fault, pins, walk, focus>>

CanEmit(c) == Ships /\ call[c].pc = "stored" /\ ~SinkBusy(HostOf[c])

EmitCopy(c) ==
  /\ CanEmit(c)
  /\ sink' = Append(sink, Line(c)) /\ tail' = Clean
  /\ call' = [call EXCEPT ![c].pc = "emitted"]
  /\ UNCHANGED <<rows, meta, legacy, host, lock, mem, beat, fault, pins, walk, focus>>


\* Mutant: a line that was not written is counted.
EmitFailsCounted(c) ==
  /\ CanEmit(c)
  /\ call' = [call EXCEPT ![c].pc = "emitted"]
  /\ UNCHANGED <<rows, meta, legacy, host, lock, sinkVars, fault, pins, walk, focus>>

\* Nothing was written: logged and swallowed.
EmitFails(c) ==
  /\ CanEmit(c)
  /\ call' = [call EXCEPT ![c] = Idle]
  /\ UNCHANGED <<rows, meta, legacy, host, lock, sinkVars, fault, pins, walk, focus>>

\* The write stopped partway.
EmitStump(c) ==
  /\ CanEmit(c)
  /\ tail' = [kind |-> "open", by |-> c]
  /\ call' = [call EXCEPT ![c].pc = "stump"]
  /\ UNCHANGED <<rows, meta, legacy, host, lock, sink, mem, beat, fault, pins, walk, focus>>

\* The newline that ends the stump, which may fail as well.
EndStump(c) ==
  /\ call[c].pc = "stump"
  /\ call' = [call EXCEPT ![c] = Idle]
  /\ \/ tail' = IF tail.by = c THEN Clean ELSE tail
     \/ tail' = IF tail.by = c THEN [tail EXCEPT !.kind = "dead"] ELSE tail
  /\ UNCHANGED <<rows, meta, legacy, host, lock, sink, mem, beat, fault, pins, walk, focus>>

\* jsonl.RecordChained takes mu only after Emit returned.
NoteEmitted(c) ==
  LET h == HostOf[c] IN
  /\ call[c].pc = "emitted"
  /\ mem' = [mem EXCEPT ![h].head = ChainHash(call[c].prev, call[c].rec), ![h].emitted = @ + 1]
  /\ call' = [call EXCEPT ![c] = Idle]
  /\ UNCHANGED <<rows, meta, legacy, host, lock, sink, tail, beat, fault, pins, walk, focus>>

\* The counters are read under mu and the line written after it: a record
\* emitted between the two is one the line does not report yet, as if it came
\* after.
Heartbeat(h) ==
  /\ Ships /\ host[h] = "up" /\ ~SinkBusy(h) /\ Len(beat) < MaxBeats
  /\ beat' = Append(beat, [by |-> h, boot |-> mem[h].boot, head |-> mem[h].head,
                           records |-> mem[h].emitted])
  /\ tail' = Clean
  /\ UNCHANGED <<chainVars, sink, mem, fault, pins, walk, focus>>

\* A process dies: its transaction rolls back, its calls end, its stump stays.
HostCrash(h) ==
  /\ host[h] # "off"
  /\ host' = [host EXCEPT ![h] = "off"]
  /\ lock' = IF lock # NoCaller /\ HostOf[lock] = h THEN NoCaller ELSE lock
  /\ call' = [c \in Callers |-> IF HostOf[c] = h THEN Idle ELSE call[c]]
  /\ tail' = IF SinkBusy(h) THEN [tail EXCEPT !.kind = "dead"] ELSE tail
  /\ UNCHANGED <<rows, meta, legacy, sink, mem, beat, fault, pins, walk, focus>>

(* Verifying *)


\* Mutant: a row is checked on its own.
LinkBrokenAlone(t, i) == t[i].hash # ChainHash(t[i].prev, t[i].rec)

\* VerifyChain walks the table in id order, comparing each row with the stored
\* hash before it; a timestamp it cannot read ends the walk there.
LinkBroken(t, i) ==
  \/ t[i].prev # IF i = 1 THEN Genesis ELSE t[i - 1].hash
  \/ t[i].hash # ChainHash(t[i].prev, t[i].rec)

VerifyChain(t) ==
  LET bad    == {i \in DOMAIN t : t[i].rec.ts = Unreadable}
      stop   == IF bad = {} THEN Len(t) ELSE Min(bad)
      broken == {i \in 1..stop : i \in bad \/ LinkBroken(t, i)}
  IN [count |-> stop,
      break |-> IF broken = {} THEN 0 ELSE Min(broken),
      head  |-> IF stop = 0 THEN Genesis ELSE t[stop].hash,
      retro |-> Cardinality({i \in (1..stop) \ bad : t[i].id <= meta})]

\* runAuditVerify with -expect-head.
RunAuditVerify(t, expectHead) ==
  VerifyChain(t).break = 0 /\ VerifyChain(t).head = expectHead

\* An operator verifies and writes the head down (once, to bound the model).
Pin ==
  /\ focus = "expose" /\ pins = {} /\ meta >= 0 /\ fault.kind = "none" /\ VerifyChain(rows).break = 0
  /\ pins' = {[head |-> VerifyChain(rows).head, recs |-> Records(rows)]}
  /\ UNCHANGED <<chainVars, sinkVars, fault, walk, focus>>

\* Rechained(t): every hash recomputed over what the rows now say.
Rechained(t) == [i \in DOMAIN t |-> [t[i] EXCEPT !.prev = SubSeq(Records(t), 1, i - 1),
                                                 !.hash = SubSeq(Records(t), 1, i)]]

\* Environment: one edit or deletion behind the program's back, with or without
\* the hashes after it recomputed; cutting the end off needs no recomputing.
Damage ==
  /\ focus = "expose" /\ fault.kind = "none" /\ meta >= 0 /\ lock = NoCaller
  /\ \E i \in DOMAIN rows :
       \/ \E r \in Recs \cup {[rows[i].rec EXCEPT !.ts = Unreadable]} :
             /\ r # rows[i].rec
             /\ LET edited == [rows EXCEPT ![i].rec = r] IN
                \/ rows' = edited /\ fault' = [kind |-> "plain", at |-> i]
                \/ /\ r.ts # Unreadable
                   /\ rows' = Rechained(edited) /\ fault' = [kind |-> "rechained", at |-> i]
       \/ LET cut == RemoveAt(rows, i) IN
          \/ rows' = cut /\ fault' = [kind |-> IF i = Len(rows) THEN "cut" ELSE "plain", at |-> i]
          \/ rows' = Rechained(cut) /\ fault' = [kind |-> "rechained", at |-> i]
  /\ UNCHANGED <<meta, legacy, host, lock, call, sinkVars, pins, walk, focus>>

(* Reading *)

\* The members of S as a sequence, each after those that precede it: a set of pairs.
InOrder(S, precedes) ==
  [k \in 1..Cardinality(S) |-> CHOOSE i \in S : Cardinality({j \in S : <<j, i>> \in precedes}) = k - 1]

\* A row's position: its id while the ids are 1..count, else its rank.
Contiguous(t) == t # <<>> => t[Len(t)].id = Len(t)
Position(t, i) == IF Contiguous(t) THEN t[i].id ELSE i


\* Mutant: the row next to the cursor's is left out.
BelowCursor(t, i, before) == before > 0 => Position(t, i) < before - 1
BeforeCursor(t, i, before) == before > 0 => Position(t, i) < before

\* Page: the newest rows before a position that match, and whether there are more.
Page(t, before, limit) ==
  LET all == {i \in DOMAIN t : BeforeCursor(t, i, before)}
      n   == IF Cardinality(all) < limit THEN Cardinality(all) ELSE limit
      newestFirst == InOrder(all, {p \in all \X all : p[1] > p[2]})
  IN [recs |-> [k \in 1..n |-> [pos |-> Position(t, newestFirst[k]), rec |-> t[newestFirst[k]].rec]],
      more |-> Cardinality(all) > n]

StartWalk ==
  /\ focus = "page" /\ walk.pc = "no" /\ meta >= 0
  /\ walk' = [walk EXCEPT !.pc = "reading", !.start = Records(rows)]
  /\ UNCHANGED <<chainVars, sinkVars, fault, pins, focus>>

\* admin.Audit: a page, and the position to ask before next (the oldest shown).
AuditPage ==
  LET p == Page(rows, walk.before, PageLimit) IN
  /\ walk.pc = "reading"
  /\ walk' = [walk EXCEPT !.seen = @ \o [k \in DOMAIN p.recs |-> p.recs[k].rec],
                          !.before = IF p.more /\ p.recs # <<>> THEN p.recs[Len(p.recs)].pos ELSE 0,
                          !.pc = IF p.more /\ p.recs # <<>> THEN "reading" ELSE "done"]
  /\ UNCHANGED <<chainVars, sinkVars, fault, pins, focus>>


\* Mutant: the rows in the order they were written.
ListAsWritten(t) == InOrder(DOMAIN t, {p \in (DOMAIN t) \X (DOMAIN t) : p[1] < p[2]})

\* List: the rows by timestamp, ties in the order they were written.
Before(t) == {p \in (DOMAIN t) \X (DOMAIN t) :
                \/ t[p[1]].rec.ts < t[p[2]].rec.ts
                \/ t[p[1]].rec.ts = t[p[2]].rec.ts /\ p[1] < p[2]}
List(t) == InOrder(DOMAIN t, Before(t))

\* auditFilter, reduced to one of its exact-match fields.
Matches(r, who) == r.who = who

\* runAudit: those that match, the last n of them (0 for all), newest first.
RunAudit(t, who, n) ==
  LET all == List(t)
      at  == {k \in DOMAIN all : Matches(t[all[k]].rec, who)}
      matching == [j \in 1..Cardinality(at) |-> all[InOrder(at, {p \in at \X at : p[1] < p[2]})[j]]]
      shown == IF n > 0 /\ Len(matching) > n
               THEN SubSeq(matching, Len(matching) - n + 1, Len(matching)) ELSE matching
  IN Reverse(shown)

AuditNext ==
  \/ \E h \in Hosts : MigrateCheck(h) \/ BackfillChain(h) \/ Heartbeat(h) \/ HostCrash(h)
  \/ \E c \in Callers, r \in Recs : BeginImmediate(c, r)
  \/ \E c \in Callers : Commit(c) \/ Rollback(c) \/ Return(c) \/ EmitCopy(c) \/ EmitFails(c) \/ EmitStump(c)
                       \/ EndStump(c) \/ NoteEmitted(c)
  \/ Pin \/ Damage \/ StartWalk \/ AuditPage

AuditSpec == AuditInit /\ [][AuditNext]_auditVars

(* Properties *)

AuditTypeOK ==
  /\ \A i \in DOMAIN rows : rows[i].id \in 1..(MaxRows[focus] + 1) /\ rows[i].chained \in BOOLEAN
  /\ meta \in -1..MaxLegacy
  /\ lock \in Callers \cup {NoCaller}
  /\ host \in [Hosts -> {"off", "checked", "up"}]
  /\ \A c \in Callers : call[c].pc \in {"idle", "tx", "stored", "stump", "emitted"}

Untouched == fault.kind = "none"

\* RecordChained and backfillChain: whatever the writers' interleaving, however many
\* processes migrate at once, a trail nobody touched verifies, its head stands for
\* every record in order, and the count of retroactively chained rows is exact.
ChainVerifies ==
  Untouched /\ meta >= 0 =>
    LET v == VerifyChain(rows) IN
    v = [count |-> Len(rows), break |-> 0, head |-> Records(rows), retro |-> legacy]

\* VerifyChain: an edit or an interior deletion that did not recompute the hashes
\* after it is reported, at its place, however much is appended later.
DamageIsFound ==
  fault.kind = "plain" => VerifyChain(rows).break = fault.at

\* runAuditVerify -expect-head: a trail that verifies with a head written down
\* earlier is, record for record, the trail of that moment -- re-chained or not.
HeadPinsTrail ==
  \A p \in pins : RunAuditVerify(rows, p.head) => Records(rows) = p.recs

\* jsonl.RecordChained: "nothing reaches the SIEM that is not already durable":
\* every line is a row of the table, with the row's own links.
LinesAreRows ==
  Untouched => \A k \in DOMAIN sink : \E i \in DOMAIN rows :
    /\ rows[i].rec = sink[k].rec /\ rows[i].prev = sink[k].prev /\ rows[i].hash = sink[k].hash

\* The sink's anchor: once every row written under the chain has its line, exactly one
\* hash is no other line's prev_hash, in whatever order lines were emitted, and it is
\* the head VerifyChain reports.
AnchorIsHead ==
  LET hashes == {sink[k].hash : k \in DOMAIN sink}
      anchors == hashes \ {sink[k].prev : k \in DOMAIN sink}
  IN Untouched /\ meta >= 0 /\ sink # <<>> /\ Len(sink) = Len(rows) - legacy
       => anchors = {VerifyChain(rows).head}

\* FileSink.write: a line that Emit reported written runs into a stump only if the newline
\* after the stump failed, or another process wrote between the stump and its newline.
StumpsCostOnlyThemselves ==
  \A k \in DOMAIN sink : sink[k].merged.kind = "open" => HostOf[sink[k].merged.by] # sink[k].by

\* Heartbeat: what it reports is never more than this boot really emitted, and its
\* head is the hash of a line this boot emitted.
HeartbeatIsHonest ==
  \A k \in DOMAIN beat :
    LET own == {j \in DOMAIN sink : sink[j].by = beat[k].by /\ sink[j].boot = beat[k].boot} IN
    /\ beat[k].records <= Cardinality(own)
    /\ IF beat[k].records = 0 THEN beat[k].head = Genesis
                              ELSE beat[k].head \in {sink[j].hash : j \in own}

\* admin.Audit and Page: following NextBefore shows every record the trail held when the
\* walk began exactly once, newest first, whatever is appended meanwhile.
WalkShowsEachOnce ==
  walk.pc = "done" =>
    \E more \in 0..(Len(walk.seen) - Len(walk.start)) :
       /\ Len(walk.seen) = Len(walk.start) + more
       /\ SubSeq(walk.seen, more + 1, Len(walk.seen)) = Reverse(walk.start)
       /\ Reverse(walk.seen) = SubSeq(Records(rows), 1, Len(walk.seen))

\* The matching records with the latest timestamps, a tie going to the later written, in
\* that order, and as many as were asked for.
ShowsNewest(t, who, n) ==
  LET s == RunAudit(t, who, n)
      match == {i \in DOMAIN t : t[i].rec.who = who}
      newer(i, j) == \/ t[i].rec.ts > t[j].rec.ts
                     \/ t[i].rec.ts = t[j].rec.ts /\ i > j
  IN /\ \A k \in DOMAIN s : s[k] \in match
     /\ Len(s) = IF n = 0 \/ Cardinality(match) < n THEN Cardinality(match) ELSE n
     /\ \A k \in DOMAIN s : Cardinality({i \in match : newer(i, s[k])}) = k - 1

\* runAudit: what is shown of a trail nobody touched are the newest that match.
RunAuditShowsNewest ==
  Untouched => \A who \in {r.who : r \in Recs}, n \in 0..2 : ShowsNewest(rows, who, n)

\* The trail implements the append-only log its callers rely on, as long as nobody
\* writes the table behind its back.
Trail == INSTANCE AuditLog WITH
  Entries <- Recs, NoEntry <- NoCaller,
  log <- IF focus # "expose" THEN Records(rows) ELSE <<>>,
  asked <- [c \in Callers |->
              IF focus = "expose" \/ call[c].pc = "idle" THEN NoCaller
              ELSE IF call[c].pc = "tx" THEN call[c].rec ELSE Kept]
ImplementsLog == Trail!Spec

(* The inductive invariant of the proofs *)

AnyRec == Recs \cup {[r EXCEPT !.ts = Unreadable] : r \in Recs}
Digest == Seq(AnyRec)
TrailRow == [id : Nat, rec : AnyRec, prev : Digest, hash : Digest, chained : BOOLEAN]
CallState == [pc : {"idle", "tx", "stored", "stump", "emitted"},
              rec : Recs \cup {NoCaller}, prev : Digest]
TailState == [kind : {"clean", "open", "dead"}, by : Callers \cup {NoCaller}]
SinkLine == [by : Hosts, boot : Nat, rec : Recs, prev : Digest, hash : Digest, merged : TailState]
Beat == [by : Hosts, boot : Nat, head : Digest, records : Nat]
Memory == [boot : Nat, head : Digest, emitted : Nat]

TrailTypes ==
  /\ focus \in {"ship", "page", "expose"}
  /\ rows \in Seq(TrailRow) /\ Len(rows) <= MaxRows[focus]
  /\ meta \in -1..MaxLegacy /\ legacy \in 0..MaxLegacy
  /\ host \in [Hosts -> {"off", "checked", "up"}]
  /\ lock \in Callers \cup {NoCaller}
  /\ call \in [Callers -> CallState]
  /\ sink \in Seq(SinkLine) /\ tail \in TailState /\ beat \in Seq(Beat)
  /\ mem \in [Hosts -> Memory]
  /\ fault \in [kind : {"none", "plain", "rechained", "cut"}, at : Nat]

\* Who holds the write lock, what it read under it, and who may record at all.
LockTells ==
  /\ \A h \in Hosts : host[h] = "up" => meta >= 0
  /\ \A c \in Callers :
       /\ call[c].pc = "tx" <=> lock = c
       /\ call[c].pc = "tx" => call[c].prev = ChainHead(rows) /\ Len(rows) < MaxRows[focus]
       /\ call[c].pc # "idle" => host[HostOf[c]] = "up" /\ call[c].rec \in Recs

\* Before the backfill the table is the legacy rows; after it every row of a table that
\* was not damaged, or whose hashes were recomputed, has the links of its prefix.
LinkedRow(i) == /\ rows[i].rec \in Recs
                /\ rows[i].prev = SubSeq(Records(rows), 1, i - 1)
                /\ rows[i].hash = SubSeq(Records(rows), 1, i)

RowsAreChained ==
  /\ meta = -1 => /\ Untouched /\ Len(rows) = legacy /\ sink = <<>>
                  /\ \A i \in 1..Len(rows) : ~rows[i].chained /\ rows[i].rec \in Recs
  /\ meta >= 0 /\ fault.kind # "plain" => \A i \in 1..Len(rows) : LinkedRow(i)

IdsTell ==
  /\ Untouched => \A i \in 1..Len(rows) : rows[i].id = i
  /\ \A i \in 1..Len(rows) : rows[i].id \in {i, i + 1}
  /\ Untouched /\ meta >= 0 => meta = legacy /\ legacy <= Len(rows)

\* The place of the damage is the first the walk stops at.
DamageStays ==
  fault.kind = "plain" =>
    /\ fault.at \in 1..Len(rows)
    /\ \A i \in 1..(fault.at - 1) : rows[i].rec.ts # Unreadable /\ ~LinkBroken(rows, i)
    /\ rows[fault.at].rec.ts = Unreadable \/ LinkBroken(rows, fault.at)

PinsTell == \A p \in pins : p.head = p.recs

\* The row a call wrote and the row a line copies, told by the length of the hash.
PlaceOf(c) == Len(call[c].prev) + 1
Place(k) == Len(sink[k].hash)

CopiesTell ==
  Untouched =>
    /\ \A c \in Callers : call[c].pc \in {"stored", "stump", "emitted"} =>
         /\ PlaceOf(c) \in (legacy + 1)..Len(rows)
         /\ rows[PlaceOf(c)].rec = call[c].rec /\ rows[PlaceOf(c)].prev = call[c].prev
    /\ \A k \in 1..Len(sink) :
         /\ Place(k) \in (legacy + 1)..Len(rows)
         /\ rows[Place(k)].rec = sink[k].rec /\ rows[Place(k)].prev = sink[k].prev
         /\ rows[Place(k)].hash = sink[k].hash

EachOnce ==
  Untouched =>
    /\ \A j, k \in 1..Len(sink) : j # k => Place(j) # Place(k)
    /\ \A c \in Callers, k \in 1..Len(sink) : call[c].pc = "stored" => PlaceOf(c) # Place(k)
    /\ \A c, d \in Callers : c # d /\ call[c].pc = "stored" /\ call[d].pc = "stored"
                               => PlaceOf(c) # PlaceOf(d)

\* What a process counts and remembers of the lines of its boot.
OwnLines(h, b) == {k \in 1..Len(sink) : sink[k].by = h /\ sink[k].boot = b}
Emitting(h) == {c \in Callers : HostOf[c] = h /\ call[c].pc = "emitted"}

MemoryTells ==
  /\ \A k \in 1..Len(sink) : sink[k].boot <= mem[sink[k].by].boot
  /\ \A h \in Hosts :
       LET own == OwnLines(h, mem[h].boot) IN
       /\ mem[h].emitted + Cardinality(Emitting(h)) <= Cardinality(own)
       /\ IF mem[h].emitted = 0 THEN mem[h].head = Genesis
                                ELSE \E k \in own : sink[k].hash = mem[h].head
       /\ \A c \in Emitting(h) :
            \E k \in own : sink[k].hash = ChainHash(call[c].prev, call[c].rec)

\* How far a walk came: it holds the rows from the newest of its first page down to the
\* cursor, and none that it was to show is above or below those it still has to read.
WalkTop == Len(walk.seen) + IF walk.before > 0 THEN walk.before - 1 ELSE 0

WalkTells ==
  /\ focus # "expose" => Untouched
  /\ DOMAIN walk = {"pc", "before", "start", "seen"} /\ walk.pc \in {"no", "reading", "done"}
  /\ walk.before \in Nat /\ walk.start \in Seq(AnyRec) /\ walk.seen \in Seq(AnyRec)
  /\ walk.pc = "no" => walk.before = 0 /\ walk.seen = <<>>
  /\ walk.pc = "done" => walk.before = 0
  /\ walk.pc # "no" =>
       /\ focus = "page" /\ Len(walk.start) <= Len(rows)
       /\ \A k \in 1..Len(walk.start) : walk.start[k] = rows[k].rec
       /\ walk.pc = "done" \/ walk.before > 0 =>
            /\ WalkTop \in Len(walk.start)..Len(rows)
            /\ \A k \in 1..Len(walk.seen) : walk.seen[k] = rows[WalkTop - k + 1].rec
       /\ walk.pc = "reading" /\ walk.before = 0 => walk.seen = <<>>

TrailInv == /\ TrailTypes /\ LockTells /\ RowsAreChained /\ IdsTell /\ DamageStays /\ PinsTell
            /\ CopiesTell /\ EachOnce /\ MemoryTells
            /\ StumpsCostOnlyThemselves /\ HeartbeatIsHonest

\* The chain proves what it is for: an untouched trail verifies, damage is found at its
\* place, and a head written down pins the trail (RecordChained, VerifyChain, Migrate).
ChainIsSound == AuditTypeOK /\ ChainVerifies /\ DamageIsFound /\ HeadPinsTrail

\* The JSONL copy and its heartbeats are of the table's rows and of nothing else, through
\* torn writes, failed writes and restarts (jsonl.RecordChained, FileSink.write, Heartbeat).
CopyIsSound == LinesAreRows /\ AnchorIsHead /\ StumpsCostOnlyThemselves /\ HeartbeatIsHonest

\* A reader is shown each record once and the newest first, in the console's walk and in
\* the command's listing (admin.Audit, Page, runAudit).
ReadersSeeAll == WalkShowsEachOnce /\ RunAuditShowsNewest
=============================================================================
