---------------------------- MODULE RecordsProofs ----------------------------
(***************************************************************************)
(* What the gateway leaves for others to read, for any callers, processes, *)
(* backends, requests and bounds.                                          *)
(*                                                                         *)
(* The audit trail: its chain and its copy, what VerifyChain says of any   *)
(* table at all, and that the trail implements AuditLog.  The events that  *)
(* are shipped to a destination that may be down: every one is accounted   *)
(* for and every loss admitted once.  The backends' health: what is told   *)
(* of them is what happened.                                               *)
(***************************************************************************)
EXTENDS Audit, Telemetry, Status, FiniteSetTheorems, SequenceTheorems, WellFoundedInduction, TLAPS

-----------------------------------------------------------------------------
(* Sequences, and sets of naturals.                                        *)

(* A set of naturals has a least element: induction by least               *)
(* counterexample.                                                         *)
LEMMA LeastPlace ==
  ASSUME NEW T \in SUBSET Nat, T # {}
  PROVE  \E n \in T : \A m \in T : n <= m
<1>1. \E x \in T : \A y \in T : ~ (<<y, x>> \in OpToRel(<, Nat))
  BY WFMin, NatLessThanWellFounded
<1>2. ASSUME NEW x \in T, NEW y \in T, ~ (<<y, x>> \in OpToRel(<, Nat))
      PROVE  x <= y
  BY <1>2 DEF OpToRel
<1> QED BY <1>1, <1>2

LEMMA MinIsLeast ==
  ASSUME NEW S \in SUBSET Nat, NEW x \in S, \A y \in S : x <= y
  PROVE  Min(S) = x
<1> DEFINE P(z) == \A y \in S : z <= y
<1>1. P(x)
  OBVIOUS
<1>2. Min(S) = CHOOSE z \in S : P(z)
  BY DEF Min
<1>3. \A z \in S : P(z) => z = x
  OBVIOUS
<1> HIDE DEF P
<1> QED BY <1>1, <1>2, <1>3

LEMMA MaxIsGreatest ==
  ASSUME NEW S \in SUBSET Nat, NEW x \in S, \A y \in S : x >= y
  PROVE  Max(S) = x
<1> DEFINE P(z) == \A y \in S : z >= y
<1>1. P(x)
  OBVIOUS
<1>2. Max(S) = CHOOSE z \in S : P(z)
  BY DEF Max
<1>3. \A z \in S : P(z) => z = x
  OBVIOUS
<1> HIDE DEF P
<1> QED BY <1>1, <1>2, <1>3

(* A prefix of a sequence: its length, its last element, and the whole.    *)
LEMMA PrefixFacts ==
  ASSUME NEW S, NEW s \in Seq(S)
  PROVE  /\ Len(s) \in Nat
         /\ SubSeq(s, 1, 0) = <<>>
         /\ SubSeq(s, 1, Len(s)) = s
         /\ \A i \in 0 .. Len(s) : SubSeq(s, 1, i) \in Seq(S) /\ Len(SubSeq(s, 1, i)) = i
         /\ \A i \in 1 .. Len(s) : SubSeq(s, 1, i) = Append(SubSeq(s, 1, i - 1), s[i])
<1>1. Len(s) \in Nat /\ \A i \in 1 .. Len(s) : s[i] \in S
  BY LenProperties, ElementOfSeq
<1>2. SubSeq(s, 1, 0) = <<>>
  BY SubSeqEmpty
<1>3. ASSUME NEW i \in 0 .. Len(s)
      PROVE  SubSeq(s, 1, i) \in Seq(S) /\ Len(SubSeq(s, 1, i)) = i
  <2>1. i \in Int /\ \A j \in 1 .. i : s[j] \in S
    BY <1>1
  <2>2. SubSeq(s, 1, i) \in Seq(S) /\ Len(SubSeq(s, 1, i)) = IF 1 <= i THEN i - 1 + 1 ELSE 0
    BY <2>1, SubSeqProperties
  <2> QED BY <2>2
<1>4. ASSUME NEW i \in 1 .. Len(s)
      PROVE  SubSeq(s, 1, i) = Append(SubSeq(s, 1, i - 1), s[i])
  <2>1. 1 \in 1 .. Len(s) /\ i - 1 \in 0 .. Len(s)
    BY <1>1
  <2>2. SubSeq(s, 1, i) = SubSeq(s, 1, i - 1) \o <<s[i]>>
    BY <2>1, SubSeqRecursiveSecond
  <2> QED BY <1>1, <1>3, <2>1, <2>2, AppendIsConcat
<1> QED
  BY <1>1, <1>2, <1>3, <1>4, SubSeqFull

(* Sequences that agree as far as n have the same prefixes that far.       *)
LEMMA SamePrefix ==
  ASSUME NEW S, NEW s \in Seq(S), NEW t \in Seq(S), NEW n \in Nat, n <= Len(s), n <= Len(t),
         \A j \in 1 .. n : s[j] = t[j]
  PROVE  SubSeq(s, 1, n) = SubSeq(t, 1, n)
<1>1. /\ \A i \in 1 .. n : s[i] \in S /\ t[i] \in S
  BY ElementOfSeq, LenProperties
<1>2. /\ SubSeq(s, 1, n) \in Seq(S) /\ Len(SubSeq(s, 1, n)) = (IF 1 <= n THEN n - 1 + 1 ELSE 0)
      /\ \A i \in 1 .. n - 1 + 1 : SubSeq(s, 1, n)[i] = s[1 + i - 1]
  BY <1>1, SubSeqProperties
<1>3. /\ SubSeq(t, 1, n) \in Seq(S) /\ Len(SubSeq(t, 1, n)) = (IF 1 <= n THEN n - 1 + 1 ELSE 0)
      /\ \A i \in 1 .. n - 1 + 1 : SubSeq(t, 1, n)[i] = t[1 + i - 1]
  BY <1>1, SubSeqProperties
<1>4. /\ Len(SubSeq(s, 1, n)) = n /\ Len(SubSeq(t, 1, n)) = n
      /\ \A i \in 1 .. n : SubSeq(s, 1, n)[i] = s[i] /\ SubSeq(t, 1, n)[i] = t[i]
  BY <1>2, <1>3
<1> QED BY <1>2, <1>3, <1>4, SeqEqual

LEMMA RecordsAreInOrder ==
  ASSUME NEW t \in Seq(TrailRow)
  PROVE  /\ Len(t) \in Nat /\ DOMAIN t = 1 .. Len(t)
         /\ \A i \in 1 .. Len(t) : t[i] \in TrailRow
         /\ Records(t) \in Seq(AnyRec) /\ Len(Records(t)) = Len(t)
         /\ \A i \in 1 .. Len(t) : Records(t)[i] = t[i].rec
<1>1. Len(t) \in Nat /\ DOMAIN t = 1 .. Len(t) /\ \A i \in 1 .. Len(t) : t[i] \in TrailRow
  BY LenProperties, ElementOfSeq
<1>2. Records(t) = [i \in 1 .. Len(t) |-> t[i].rec]
  BY <1>1 DEF Records
<1>3. \A i \in 1 .. Len(t) : t[i].rec \in AnyRec
  BY <1>1 DEF TrailRow
<1>4. Records(t) \in [1 .. Len(t) -> AnyRec]
  BY <1>2, <1>3
<1>5. Records(t) \in Seq(AnyRec)
  BY <1>1, <1>4, SeqDef
<1>6. Len(Records(t)) = Len(t)
  BY <1>1, <1>4, <1>5, LenProperties
<1> QED BY <1>1, <1>2, <1>5, <1>6

-----------------------------------------------------------------------------
(* What VerifyChain says of a table.                                       *)

SoundAt(t, i) == t[i].rec.ts # Unreadable /\ ~LinkBroken(t, i)

(* A row sound at its place is not where the walk stops.                   *)
LEMMA VerifyStops ==
  ASSUME NEW t \in Seq(TrailRow), NEW n \in 1 .. Len(t),
         \A i \in 1 .. (n - 1) : SoundAt(t, i), ~SoundAt(t, n)
  PROVE  VerifyChain(t).break = n
<1> DEFINE bad == {i \in DOMAIN t : t[i].rec.ts = Unreadable}
           stop == IF bad = {} THEN Len(t) ELSE Min(bad)
           broken == {i \in 1 .. stop : i \in bad \/ LinkBroken(t, i)}
<1>1. Len(t) \in Nat /\ DOMAIN t = 1 .. Len(t) /\ n \in Nat
  BY RecordsAreInOrder
<1>2. VerifyChain(t).break = IF broken = {} THEN 0 ELSE Min(broken)
  BY DEF VerifyChain
<1>3. \A i \in bad : i \in Nat /\ n <= i /\ i <= Len(t)
  BY <1>1 DEF SoundAt
<1>4. stop \in Nat /\ n <= stop /\ stop <= Len(t)
  <2>1. CASE bad = {}
    BY <1>1, <2>1
  <2>2. CASE bad # {}
    <3>0. bad \in SUBSET Nat
      BY <1>3
    <3> HIDE DEF bad
    <3>1. PICK m \in bad : \A k \in bad : m <= k
      BY <2>2, <3>0, LeastPlace
    <3>2. Min(bad) = m
      BY <3>0, <3>1, MinIsLeast
    <3> QED BY <1>3, <2>2, <3>1, <3>2
  <2> QED BY <2>1, <2>2
<1>5. n \in broken
  BY <1>1, <1>4 DEF SoundAt
<1>6. \A i \in broken : i \in Nat /\ n <= i
  <2> SUFFICES ASSUME NEW i \in broken PROVE i \in Nat /\ n <= i
    OBVIOUS
  <2>1. i \in Nat /\ 1 <= i /\ ~SoundAt(t, i)
    BY <1>4 DEF SoundAt
  <2> HIDE DEF broken, bad, stop
  <2> QED BY <1>1, <2>1
<1> HIDE DEF broken
<1>7. Min(broken) = n
  BY <1>5, <1>6, MinIsLeast
<1> QED BY <1>2, <1>5, <1>7

LEMMA VerifyPasses ==
  ASSUME NEW t \in Seq(TrailRow), \A i \in 1 .. Len(t) : SoundAt(t, i)
  PROVE  VerifyChain(t) = [count |-> Len(t), break |-> 0, head |-> ChainHead(t),
                           retro |-> Cardinality({i \in 1 .. Len(t) : t[i].id <= meta})]
<1> DEFINE bad == {i \in DOMAIN t : t[i].rec.ts = Unreadable}
           stop == IF bad = {} THEN Len(t) ELSE Min(bad)
           broken == {i \in 1 .. stop : i \in bad \/ LinkBroken(t, i)}
<1>1. Len(t) \in Nat /\ DOMAIN t = 1 .. Len(t) /\ (t = <<>> <=> Len(t) = 0)
  BY RecordsAreInOrder, EmptySeq
<1>2. bad = {}
  BY <1>1 DEF SoundAt
<1>3. stop = Len(t)
  BY <1>2
<1>4. broken = {}
  BY <1>2, <1>3 DEF SoundAt
<1>5. {i \in (1 .. stop) \ bad : t[i].id <= meta} = {i \in 1 .. Len(t) : t[i].id <= meta}
  BY <1>2, <1>3
<1>6. VerifyChain(t) = [count |-> stop, break |-> IF broken = {} THEN 0 ELSE Min(broken),
                        head |-> IF stop = 0 THEN Genesis ELSE t[stop].hash,
                        retro |-> Cardinality({i \in (1 .. stop) \ bad : t[i].id <= meta})]
  BY DEF VerifyChain
<1>7. (IF stop = 0 THEN Genesis ELSE t[stop].hash) = ChainHead(t)
  BY <1>1, <1>3 DEF ChainHead
<1> HIDE DEF bad, stop, broken
<1> QED BY <1>3, <1>4, <1>5, <1>6, <1>7

(* No break means every row is sound.                                      *)
LEMMA NoBreakIsSound ==
  ASSUME NEW t \in Seq(TrailRow), VerifyChain(t).break = 0
  PROVE  \A i \in 1 .. Len(t) : SoundAt(t, i)
<1> DEFINE T == {i \in 1 .. Len(t) : ~SoundAt(t, i)}
<1>1. ASSUME T # {} PROVE FALSE
  <2>1. T \in SUBSET Nat /\ Len(t) \in Nat
    BY RecordsAreInOrder
  <2>2. PICK n \in T : \A m \in T : n <= m
    <3> HIDE DEF T
    <3> QED BY <1>1, <2>1, LeastPlace
  <2>3. n \in 1 .. Len(t) /\ ~SoundAt(t, n)
    OBVIOUS
  <2>4. \A i \in 1 .. (n - 1) : SoundAt(t, i)
    <3> SUFFICES ASSUME NEW i \in 1 .. (n - 1), ~SoundAt(t, i) PROVE FALSE
      OBVIOUS
    <3>1. i \in 1 .. Len(t) /\ i < n
      BY <2>1, <2>3
    <3>2. i \in T
      BY <3>1
    <3> QED BY <2>1, <2>2, <3>1, <3>2
  <2>5. VerifyChain(t).break = n
    BY <2>3, <2>4, VerifyStops
  <2> QED BY <2>1, <2>3, <2>5
<1> QED BY <1>1

(* Sound links are the links of the prefixes: the hash stored at a place   *)
(* stands for every record up to it.                                       *)
LEMMA SoundIsLinked ==
  ASSUME NEW t \in Seq(TrailRow), \A i \in 1 .. Len(t) : SoundAt(t, i)
  PROVE  \A i \in 1 .. Len(t) : /\ t[i].hash = SubSeq(Records(t), 1, i)
                                /\ t[i].prev = SubSeq(Records(t), 1, i - 1)
<1> DEFINE R == Records(t)
           T == {i \in 1 .. Len(t) : ~ /\ t[i].hash = SubSeq(R, 1, i)
                                       /\ t[i].prev = SubSeq(R, 1, i - 1)}
<1>0. /\ R \in Seq(AnyRec) /\ Len(R) = Len(t) /\ Len(t) \in Nat
      /\ \A i \in 1 .. Len(t) : R[i] = t[i].rec
  BY RecordsAreInOrder
<1>1. /\ SubSeq(R, 1, 0) = <<>>
      /\ \A i \in 1 .. Len(t) : SubSeq(R, 1, i) = Append(SubSeq(R, 1, i - 1), R[i])
  <2> HIDE DEF R
  <2> QED BY <1>0, PrefixFacts
<1>2. ASSUME T # {} PROVE FALSE
  <2>1. T \in SUBSET Nat
    BY <1>0
  <2>2. PICK n \in T : \A m \in T : n <= m
    <3> HIDE DEF T
    <3> QED BY <1>2, <2>1, LeastPlace
  <2>3. n \in 1 .. Len(t) /\ n \in Nat
    BY <1>0
  <2>4. /\ t[n].prev = IF n = 1 THEN Genesis ELSE t[n - 1].hash
        /\ t[n].hash = Append(t[n].prev, t[n].rec)
    BY <2>3 DEF SoundAt, LinkBroken, ChainHash
  <2>5. t[n].prev = SubSeq(R, 1, n - 1)
    <3>1. CASE n = 1
      BY <1>1, <2>4, <3>1 DEF Genesis
    <3>2. CASE n # 1
      <4>1. n - 1 \in 1 .. Len(t) /\ n - 1 < n
        BY <1>0, <2>3, <3>2
      <4>2. n - 1 \notin T
        BY <2>2, <2>3, <4>1
      <4>3. t[n - 1].hash = SubSeq(R, 1, n - 1)
        BY <4>1, <4>2
      <4> QED BY <2>4, <3>2, <4>3
    <3> QED BY <3>1, <3>2
  <2>6. t[n].hash = SubSeq(R, 1, n)
    BY <1>0, <1>1, <2>3, <2>4, <2>5
  <2>7. n \notin T
    BY <2>5, <2>6
  <2> QED BY <2>7
<1> QED BY <1>2

(* A table that verifies is told by its head, whatever was done to it: the *)
(* head stands for every record, in order (VerifyChain, runAuditVerify).   *)
THEOREM VerifiedHeadTellsTheTrail ==
  ASSUME NEW t \in Seq(TrailRow), NEW h, RunAuditVerify(t, h)
  PROVE  Records(t) = h
<1>1. VerifyChain(t).break = 0 /\ VerifyChain(t).head = h
  BY DEF RunAuditVerify
<1>2. \A i \in 1 .. Len(t) : SoundAt(t, i)
  BY <1>1, NoBreakIsSound
<1>3. VerifyChain(t).head = ChainHead(t)
  <2> DEFINE retro == Cardinality({i \in 1 .. Len(t) : t[i].id <= meta})
  <2>1. VerifyChain(t) = [count |-> Len(t), break |-> 0, head |-> ChainHead(t), retro |-> retro]
    BY <1>2, VerifyPasses
  <2> HIDE DEF retro
  <2> QED BY <2>1
<1>4. ChainHead(t) = Records(t)
  <2>1. Records(t) \in Seq(AnyRec) /\ Len(Records(t)) = Len(t) /\ Len(t) \in Nat
    BY RecordsAreInOrder
  <2>2. CASE t = <<>>
    BY <2>1, <2>2, EmptySeq DEF ChainHead, Genesis
  <2>3. CASE t # <<>>
    <3>1. Len(t) \in 1 .. Len(t)
      BY <2>1, <2>3, EmptySeq
    <3>2. t[Len(t)].hash = SubSeq(Records(t), 1, Len(t))
      BY <1>2, <3>1, SoundIsLinked
    <3>3. SubSeq(Records(t), 1, Len(t)) = Records(t)
      BY <2>1, PrefixFacts
    <3> QED BY <2>3, <3>2, <3>3 DEF ChainHead
  <2> QED BY <2>2, <2>3
<1> QED BY <1>1, <1>3, <1>4

-----------------------------------------------------------------------------
(* The invariant holds at first.                                           *)

LEMMA EmptyIsDigest == Genesis \in Digest /\ <<>> \in Digest /\ Len(<<>>) = 0
BY EmptySeq DEF Genesis, Digest

LEMMA IdleIsCallState ==
  /\ Idle \in CallState /\ Idle.pc = "idle" /\ Idle.rec = NoCaller /\ Idle.prev = Genesis
BY EmptyIsDigest DEF Idle, CallState

LEMMA CleanIsTailState == Clean \in TailState /\ Clean.kind = "clean" /\ Clean.by = NoCaller
BY DEF Clean, TailState

LEMMA InitTrailInv == AuditInit => TrailInv
<1> SUFFICES ASSUME AuditInit PROVE TrailInv
  OBVIOUS
<1>1. PICK t \in UNION {[1..n -> Recs] : n \in 0..MaxLegacy} :
        /\ rows = [i \in DOMAIN t |->
                     [id |-> i, rec |-> t[i], prev |-> Genesis, hash |-> Genesis, chained |-> FALSE]]
        /\ legacy = Len(t)
  BY DEF AuditInit
<1>2. PICK n \in 0 .. MaxLegacy : t \in [1 .. n -> Recs]
  BY <1>1
<1>3. n \in Nat /\ t \in Seq(Recs) /\ Len(t) = n /\ legacy = n
  <2>1. n \in Nat
    BY TrailBoundsAssumption
  <2>2. t \in Seq(Recs)
    BY <1>2, <2>1, SeqDef
  <2> QED BY <1>1, <1>2, <2>1, <2>2, LenProperties
<1>4. /\ rows \in Seq(TrailRow) /\ Len(rows) = n
      /\ \A i \in 1 .. n : rows[i].id = i /\ rows[i].rec \in Recs /\ ~rows[i].chained
  <2> DEFINE r(i) == [id |-> i, rec |-> t[i], prev |-> Genesis, hash |-> Genesis, chained |-> FALSE]
  <2>1. rows = [i \in 1 .. n |-> r(i)]
    BY <1>1, <1>2
  <2>2. \A i \in 1 .. n : r(i) \in TrailRow /\ r(i).id = i /\ r(i).rec = t[i] /\ ~r(i).chained
    BY <1>2, EmptyIsDigest DEF TrailRow, AnyRec
  <2> HIDE DEF r
  <2>3. rows \in [1 .. n -> TrailRow]
    BY <2>1, <2>2
  <2>4. rows \in Seq(TrailRow)
    BY <1>3, <2>3, SeqDef
  <2>5. Len(rows) = n
    BY <1>3, <2>3, <2>4, LenProperties
  <2> QED BY <1>2, <2>1, <2>2, <2>4, <2>5
<1>5. TrailTypes
  <2>1. focus \in {"ship", "page", "expose"} /\ n <= MaxRows[focus]
    BY <1>3, TrailBoundsAssumption DEF AuditInit
  <2>2. call \in [Callers -> CallState]
    BY IdleIsCallState DEF AuditInit
  <2>3. mem \in [Hosts -> Memory]
    BY EmptyIsDigest DEF AuditInit, Memory
  <2>4. sink \in Seq(SinkLine) /\ beat \in Seq(Beat) /\ tail \in TailState
    BY EmptySeq, CleanIsTailState DEF AuditInit
  <2>5. fault \in [kind : {"none", "plain", "rechained", "cut"}, at : Nat]
    BY DEF AuditInit
  <2>6. meta \in -1 .. MaxLegacy /\ legacy \in 0 .. MaxLegacy
    BY <1>3, TrailBoundsAssumption DEF AuditInit
  <2>7. host \in [Hosts -> {"off", "checked", "up"}] /\ lock \in Callers \cup {NoCaller}
    BY DEF AuditInit
  <2> QED BY <1>4, <2>1, <2>2, <2>3, <2>4, <2>5, <2>6, <2>7 DEF TrailTypes
<1>6. /\ \A c \in Callers : call[c] = Idle
      /\ \A h \in Hosts : host[h] = "off" /\ mem[h].emitted = 0 /\ mem[h].head = Genesis
      /\ sink = <<>> /\ beat = <<>> /\ pins = {} /\ fault.kind = "none" /\ meta = -1
      /\ lock = NoCaller /\ Len(sink) = 0 /\ 1 .. Len(sink) = {} /\ DOMAIN sink = {} /\ DOMAIN beat = {}
  BY EmptySeq DEF AuditInit
<1>7. LockTells
  BY <1>6, IdleIsCallState, CallersAssumption DEF LockTells
<1>8. RowsAreChained /\ IdsTell /\ DamageStays /\ PinsTell
  BY <1>3, <1>4, <1>6 DEF RowsAreChained, IdsTell, DamageStays, PinsTell, Untouched
<1>9. CopiesTell /\ EachOnce
  BY <1>6, IdleIsCallState DEF CopiesTell, EachOnce
<1>10. MemoryTells
  <2>1. \A h \in Hosts : Emitting(h) = {}
    BY <1>6, IdleIsCallState DEF Emitting
  <2>2. \A h \in Hosts : OwnLines(h, mem[h].boot) = {}
    BY <1>6 DEF OwnLines
  <2>3. \A h \in Hosts : mem[h].emitted + Cardinality(Emitting(h)) <= Cardinality(OwnLines(h, mem[h].boot))
    <3>1. Cardinality({}) = 0
      BY FS_EmptySet
    <3>2. \A h \in Hosts : mem[h].emitted = 0
      BY <1>6
    <3>3. \A h \in Hosts : Cardinality(Emitting(h)) = 0 /\ Cardinality(OwnLines(h, mem[h].boot)) = 0
      BY <2>1, <2>2, <3>1
    <3> QED BY <3>2, <3>3
  <2> QED BY <1>6, <2>1, <2>3 DEF MemoryTells
<1>11. StumpsCostOnlyThemselves /\ HeartbeatIsHonest
  BY <1>6 DEF StumpsCostOnlyThemselves, HeartbeatIsHonest
<1> QED
  BY <1>5, <1>7, <1>8, <1>9, <1>10, <1>11 DEF TrailInv

-----------------------------------------------------------------------------
(* What a step that leaves a piece of the state alone carries over.        *)

LEMMA TableAside ==
  ASSUME TrailInv, UNCHANGED <<rows, meta, legacy, fault, pins>>, meta = -1 => sink' = sink
  PROVE  RowsAreChained' /\ IdsTell' /\ DamageStays' /\ PinsTell'
BY DEF TrailInv, RowsAreChained, IdsTell, DamageStays, PinsTell, Untouched, LinkedRow, LinkBroken

LEMMA CopyAside ==
  ASSUME TrailInv, UNCHANGED <<sink, beat>>
  PROVE  StumpsCostOnlyThemselves' /\ HeartbeatIsHonest'
BY DEF TrailInv, StumpsCostOnlyThemselves, HeartbeatIsHonest

LEMMA MemoryAside ==
  ASSUME TrailInv, UNCHANGED <<sink, mem>>, \A c \in Callers : call'[c].pc = "emitted" <=> call[c].pc = "emitted",
         \A c \in Callers : call'[c].prev = call[c].prev /\ call'[c].rec = call[c].rec
  PROVE  MemoryTells'
<1>1. \A h : Emitting(h)' = Emitting(h) /\ \A c \in Emitting(h) : c \in Callers
  BY DEF Emitting
<1>2. \A h, b : OwnLines(h, b)' = OwnLines(h, b)
  BY DEF OwnLines
<1> QED BY <1>1, <1>2 DEF TrailInv, MemoryTells

LEMMA CountsOfLines ==
  ASSUME TrailInv
  PROVE  /\ Len(sink) \in Nat /\ DOMAIN sink = 1 .. Len(sink)
         /\ \A S \in SUBSET (1 .. Len(sink)) : IsFiniteSet(S) /\ Cardinality(S) \in Nat
         /\ \A S \in SUBSET Callers : IsFiniteSet(S) /\ Cardinality(S) \in Nat
         /\ \A h \in Hosts : mem[h] \in Memory
<1>1. sink \in Seq(SinkLine) /\ mem \in [Hosts -> Memory]
  BY DEF TrailInv, TrailTypes
<1>2. Len(sink) \in Nat /\ DOMAIN sink = 1 .. Len(sink)
  BY <1>1, LenProperties
<1>3. IsFiniteSet(1 .. Len(sink))
  BY <1>2, FS_Interval
<1> QED BY <1>1, <1>2, <1>3, CallersAssumption, FS_Subset, FS_CardinalityType

(* A step of the calls with no line written: none of them comes to a row   *)
(* or a line it did not have.                                              *)
LEMMA CopiesAside ==
  ASSUME TrailInv, UNCHANGED <<rows, legacy, fault, sink>>,
         \A c \in Callers :
            /\ call'[c].pc \in {"stored", "emitted"} => call'[c] = call[c]
            /\ call'[c].pc = "stump" => /\ call[c].pc \in {"stored", "stump"}
                                        /\ call'[c].prev = call[c].prev /\ call'[c].rec = call[c].rec
  PROVE  CopiesTell' /\ EachOnce'
<1>1. \A c \in Callers :
            /\ call'[c].pc \in {"stored", "stump", "emitted"} =>
                  /\ call[c].pc \in {"stored", "stump", "emitted"} /\ PlaceOf(c)' = PlaceOf(c)
                  /\ call'[c].prev = call[c].prev /\ call'[c].rec = call[c].rec
            /\ call'[c].pc = "stored" => call[c].pc = "stored" /\ PlaceOf(c)' = PlaceOf(c)
  BY DEF PlaceOf
<1>2. \A k : Place(k)' = Place(k)
  BY DEF Place
<1>3. Untouched' <=> Untouched
  BY DEF Untouched
<1>4. CopiesTell'
  BY <1>1, <1>2, <1>3 DEF TrailInv, CopiesTell
<1>5. EachOnce'
  BY <1>1, <1>2, <1>3 DEF TrailInv, EachOnce
<1> QED BY <1>4, <1>5

LEMMA CallsAside ==
  ASSUME TrailInv, UNCHANGED <<rows, legacy, fault, sink, mem>>,
         \A c \in Callers :
            /\ call'[c].pc \in {"stored", "emitted"} => call'[c] = call[c]
            /\ call'[c].pc = "stump" => /\ call[c].pc \in {"stored", "stump"}
                                        /\ call'[c].prev = call[c].prev /\ call'[c].rec = call[c].rec
  PROVE  CopiesTell' /\ EachOnce' /\ MemoryTells'
<1>1. CopiesTell' /\ EachOnce'
  BY CopiesAside
<1>2. \A h \in Hosts : Emitting(h)' \subseteq Emitting(h) /\ \A c \in Emitting(h)' : call'[c] = call[c]
  BY DEF Emitting
<1>3. ASSUME NEW h \in Hosts
      PROVE  mem[h].emitted + Cardinality(Emitting(h)') <= Cardinality(OwnLines(h, mem[h].boot))
  <2>1. Emitting(h) \in SUBSET Callers /\ OwnLines(h, mem[h].boot) \in SUBSET (1 .. Len(sink))
    BY DEF Emitting, OwnLines
  <2>2. /\ IsFiniteSet(Emitting(h)) /\ Cardinality(Emitting(h)) \in Nat
        /\ Cardinality(OwnLines(h, mem[h].boot)) \in Nat /\ mem[h].emitted \in Nat
    BY <2>1, CountsOfLines DEF Memory
  <2>3. Emitting(h)' \in SUBSET Emitting(h)
    BY <1>2
  <2>4. Cardinality(Emitting(h)') <= Cardinality(Emitting(h)) /\ Cardinality(Emitting(h)') \in Nat
    <3> DEFINE E == Emitting(h)'
    <3>1. E \in SUBSET Emitting(h)
      BY <2>3
    <3> HIDE DEF E
    <3>2. IsFiniteSet(E) /\ Cardinality(E) <= Cardinality(Emitting(h)) /\ Cardinality(E) \in Nat
      BY <2>2, <3>1, FS_Subset, FS_CardinalityType
    <3> QED BY <3>2 DEF E
  <2>5. mem[h].emitted + Cardinality(Emitting(h)) <= Cardinality(OwnLines(h, mem[h].boot))
    BY DEF TrailInv, MemoryTells
  <2> QED BY <2>2, <2>4, <2>5
<1>4. \A h \in Hosts : OwnLines(h, mem[h].boot)' = OwnLines(h, mem[h].boot)
  BY DEF OwnLines
<1>5. MemoryTells'
  BY <1>2, <1>3, <1>4 DEF TrailInv, MemoryTells
<1> QED BY <1>1, <1>5

-----------------------------------------------------------------------------
(* Callers.                                                                *)

LEMMA CallMoves ==
  ASSUME TrailInv, NEW c \in Callers, NEW x \in CallState, call' = [call EXCEPT ![c] = x],
         UNCHANGED <<rows, meta, legacy, host, sink, mem, beat, fault, pins, focus>>,
         tail' \in TailState, lock' \in Callers \cup {NoCaller},
         x.pc = "tx" <=> lock' = c,
         \A d \in Callers : d # c => (lock' = d <=> lock = d),
         x.pc = "tx" => x.prev = ChainHead(rows) /\ Len(rows) < MaxRows[focus],
         x.pc # "idle" => host[HostOf[c]] = "up" /\ x.rec \in Recs,
         x.pc \notin {"stored", "emitted"},
         x.pc = "stump" => /\ call[c].pc = "stored"
                           /\ x.rec = call[c].rec /\ x.prev = call[c].prev
  PROVE  TrailInv'
<1>1. call' \in [Callers -> CallState] /\ call'[c] = x /\ \A d \in Callers : d # c => call'[d] = call[d]
  BY DEF TrailInv, TrailTypes
<1>2. TrailTypes'
  BY <1>1 DEF TrailInv, TrailTypes
<1>3. LockTells'
  <2>1. ChainHead(rows)' = ChainHead(rows)
    BY DEF ChainHead
  <2> QED BY <1>1, <2>1 DEF TrailInv, LockTells
<1>4. CopiesTell' /\ EachOnce' /\ MemoryTells'
  <2>1. \A d \in Callers :
            /\ call'[d].pc \in {"stored", "emitted"} => call'[d] = call[d]
            /\ call'[d].pc = "stump" => /\ call[d].pc \in {"stored", "stump"}
                                        /\ call'[d].prev = call[d].prev /\ call'[d].rec = call[d].rec
    BY <1>1
  <2> QED BY <2>1, CallsAside
<1> QED
  BY <1>2, <1>3, <1>4, TableAside, CopyAside DEF TrailInv

LEMMA CallFacts ==
  ASSUME TrailInv, NEW c \in Callers
  PROVE  /\ call[c] \in CallState /\ HostOf[c] \in Hosts
         /\ tail \in TailState /\ lock \in Callers \cup {NoCaller} /\ ChainHead(rows) \in Digest
         /\ call[c].pc = "tx" <=> lock = c
         /\ call[c].pc # "idle" => host[HostOf[c]] = "up" /\ call[c].rec \in Recs
<1>1. ChainHead(rows) \in Digest
  <2>1. rows \in Seq(TrailRow)
    BY DEF TrailInv, TrailTypes
  <2>2. rows # <<>> => rows[Len(rows)] \in TrailRow
    BY <2>1, EmptySeq, ElementOfSeq
  <2> QED BY <2>2, EmptyIsDigest DEF ChainHead, TrailRow
<1> QED BY <1>1 DEF TrailInv, TrailTypes, LockTells, Hosts

LEMMA CallStepsInv ==
  ASSUME TrailInv, NEW c \in Callers,
         \/ \E r \in Recs : BeginImmediate(c, r)
         \/ Rollback(c) \/ Return(c) \/ EmitFails(c) \/ EmitStump(c) \/ EndStump(c)
  PROVE  TrailInv'
<1>0. /\ call[c] \in CallState /\ HostOf[c] \in Hosts
      /\ tail \in TailState /\ lock \in Callers \cup {NoCaller} /\ ChainHead(rows) \in Digest
      /\ call[c].pc = "tx" <=> lock = c
      /\ call[c].pc # "idle" => host[HostOf[c]] = "up" /\ call[c].rec \in Recs
      /\ NoCaller \notin Callers /\ call \in [Callers -> CallState]
  BY CallFacts, CallersAssumption DEF TrailInv, TrailTypes
<1>1. ASSUME NEW r \in Recs, BeginImmediate(c, r) PROVE TrailInv'
  <2> DEFINE x == [pc |-> "tx", rec |-> r, prev |-> ChainHead(rows)]
  <2>1. x \in CallState /\ x.pc = "tx" /\ x.prev = ChainHead(rows) /\ x.rec = r
    BY <1>0 DEF CallState
  <2>2. /\ call' = [call EXCEPT ![c] = x] /\ lock = NoCaller /\ lock' = c
        /\ host[HostOf[c]] = "up" /\ Len(rows) < MaxRows[focus]
        /\ UNCHANGED <<rows, meta, legacy, host, sink, tail, mem, beat, fault, pins, focus>>
    BY <1>1 DEF BeginImmediate, sinkVars
  <2> HIDE DEF x
  <2> QED BY <1>0, <2>1, <2>2, CallMoves
<1>2. ASSUME Rollback(c) \/ Return(c) \/ EmitFails(c) \/ EndStump(c) PROVE TrailInv'
  <2>1. /\ call' = [call EXCEPT ![c] = Idle]
        /\ UNCHANGED <<rows, meta, legacy, host, sink, mem, beat, fault, pins, focus>>
    BY <1>2 DEF Rollback, Return, EmitFails, EndStump, sinkVars
  <2>2. tail' \in TailState
    BY <1>0, <1>2, CleanIsTailState DEF Rollback, Return, EmitFails, EndStump, sinkVars, TailState
  <2>3. /\ lock' # c /\ lock' \in Callers \cup {NoCaller}
        /\ \A d \in Callers : d # c => (lock' = d <=> lock = d)
    BY <1>0, <1>2 DEF Rollback, Return, EmitFails, EndStump, CanEmit
  <2> QED BY <2>1, <2>2, <2>3, IdleIsCallState, CallMoves
<1>3. ASSUME EmitStump(c) PROVE TrailInv'
  <2> DEFINE x == [call[c] EXCEPT !.pc = "stump"]
  <2>1. x \in CallState /\ x.pc = "stump" /\ x.prev = call[c].prev /\ x.rec = call[c].rec
    BY <1>0 DEF CallState
  <2>2. /\ call' = [call EXCEPT ![c] = x] /\ call[c].pc = "stored" /\ lock' = lock
        /\ UNCHANGED <<rows, meta, legacy, host, sink, mem, beat, fault, pins, focus>>
    BY <1>0, <1>3 DEF EmitStump, CanEmit, CallState
  <2>3. tail' \in TailState
    BY <1>3 DEF EmitStump, TailState
  <2> HIDE DEF x
  <2> QED BY <1>0, <2>1, <2>2, <2>3, CallMoves
<1> QED BY <1>1, <1>2, <1>3

(* A heartbeat fits the lines there are.                                   *)
BeatFits(b) ==
  /\ b.records <= Cardinality(OwnLines(b.by, b.boot))
  /\ IF b.records = 0 THEN b.head = Genesis
                      ELSE \E k \in OwnLines(b.by, b.boot) : sink[k].hash = b.head

LEMMA BeatsFit ==
  ASSUME DOMAIN sink = 1 .. Len(sink)
  PROVE  HeartbeatIsHonest <=> \A k \in DOMAIN beat : BeatFits(beat[k])
<1>1. \A h, b : {j \in DOMAIN sink : sink[j].by = h /\ sink[j].boot = b} = OwnLines(h, b)
  BY DEF OwnLines
<1> QED BY <1>1 DEF HeartbeatIsHonest, BeatFits

(* One line more: whose lines there are then.                              *)
LEMMA LineAdded ==
  ASSUME TrailInv, NEW l \in SinkLine, sink' = Append(sink, l), NEW n \in Nat, n = Len(sink) + 1
  PROVE  /\ sink' \in Seq(SinkLine) /\ Len(sink') = Len(sink) + 1 /\ Len(sink) \in Nat
         /\ DOMAIN sink' = 1 .. Len(sink')
         /\ sink'[n] = l /\ \A k \in 1 .. Len(sink) : sink'[k] = sink[k]
         /\ \A k \in 1 .. Len(sink') : k = n \/ k \in 1 .. Len(sink)
         /\ n \in 1 .. Len(sink')
         /\ \A h, b : OwnLines(h, b)' = IF l.by = h /\ l.boot = b THEN OwnLines(h, b) \cup {n}
                                        ELSE OwnLines(h, b)
         /\ \A h, b : /\ n \notin OwnLines(h, b)
                      /\ IsFiniteSet(OwnLines(h, b)) /\ Cardinality(OwnLines(h, b)) \in Nat
                      /\ Cardinality(OwnLines(h, b)') =
                            IF l.by = h /\ l.boot = b THEN Cardinality(OwnLines(h, b)) + 1
                            ELSE Cardinality(OwnLines(h, b))
<1>1. sink \in Seq(SinkLine) /\ Len(sink) \in Nat
  BY LenProperties DEF TrailInv, TrailTypes
<1>2. /\ sink' \in Seq(SinkLine) /\ Len(sink') = Len(sink) + 1
      /\ sink'[Len(sink) + 1] = l /\ \A k \in 1 .. Len(sink) : sink'[k] = sink[k]
  BY <1>1, AppendProperties
<1>3. DOMAIN sink' = 1 .. Len(sink')
  BY <1>2, LenProperties
<1>4. /\ \A k \in 1 .. Len(sink') : k = Len(sink) + 1 \/ k \in 1 .. Len(sink)
      /\ Len(sink) + 1 \in 1 .. Len(sink') /\ Len(sink) + 1 \notin 1 .. Len(sink)
      /\ \A k \in 1 .. Len(sink) : k \in 1 .. Len(sink')
  BY <1>1, <1>2
<1>5. ASSUME NEW h, NEW b
      PROVE  OwnLines(h, b)' = IF l.by = h /\ l.boot = b THEN OwnLines(h, b) \cup {Len(sink) + 1}
                               ELSE OwnLines(h, b)
  <2>1. OwnLines(h, b)' = {k \in 1 .. Len(sink') : sink'[k].by = h /\ sink'[k].boot = b}
    BY DEF OwnLines
  <2> QED BY <1>2, <1>4, <2>1 DEF OwnLines
<1>6. ASSUME NEW h, NEW b
      PROVE  /\ Len(sink) + 1 \notin OwnLines(h, b)
             /\ IsFiniteSet(OwnLines(h, b)) /\ Cardinality(OwnLines(h, b)) \in Nat
             /\ Cardinality(OwnLines(h, b)') =
                   IF l.by = h /\ l.boot = b THEN Cardinality(OwnLines(h, b)) + 1
                   ELSE Cardinality(OwnLines(h, b))
  <2>1. OwnLines(h, b) \in SUBSET (1 .. Len(sink))
    BY DEF OwnLines
  <2>2. IsFiniteSet(OwnLines(h, b)) /\ Cardinality(OwnLines(h, b)) \in Nat
    BY <2>1, CountsOfLines
  <2>3. Len(sink) + 1 \notin OwnLines(h, b)
    BY <1>4, <2>1
  <2>4. Cardinality(OwnLines(h, b) \cup {Len(sink) + 1}) = Cardinality(OwnLines(h, b)) + 1
    BY <2>2, <2>3, FS_AddElement
  <2> QED BY <1>5, <2>2, <2>3, <2>4
<1> QED BY <1>1, <1>2, <1>3, <1>4, <1>5, <1>6

(* The hash a call computed, and the row it is of.                         *)
LEMMA CallsHash ==
  ASSUME TrailInv, NEW c \in Callers, call[c].pc \in {"stored", "stump", "emitted"}
  PROVE  /\ ChainHash(call[c].prev, call[c].rec) \in Digest
         /\ Len(ChainHash(call[c].prev, call[c].rec)) = PlaceOf(c)
         /\ Untouched => rows[PlaceOf(c)].hash = ChainHash(call[c].prev, call[c].rec)
<1>1. call[c].prev \in Seq(AnyRec) /\ call[c].rec \in AnyRec /\ call[c].rec \in Recs
  <2>1. call[c].prev \in Digest /\ call[c].rec \in Recs
    BY CallFacts DEF CallState
  <2> QED BY <2>1 DEF Digest, AnyRec
<1>2. ChainHash(call[c].prev, call[c].rec) \in Digest /\ Len(ChainHash(call[c].prev, call[c].rec)) = PlaceOf(c)
  BY <1>1, AppendProperties DEF ChainHash, Digest, PlaceOf
<1>3. ASSUME Untouched PROVE rows[PlaceOf(c)].hash = ChainHash(call[c].prev, call[c].rec)
  <2> DEFINE p == PlaceOf(c)
             R == Records(rows)
  <2>1. /\ p \in (legacy + 1) .. Len(rows) /\ rows[p].rec = call[c].rec /\ rows[p].prev = call[c].prev
    BY <1>3 DEF TrailInv, CopiesTell
  <2>2. meta >= 0 /\ fault.kind # "plain"
    BY <1>3, CallFacts DEF TrailInv, LockTells, Untouched
  <2>3. rows \in Seq(TrailRow) /\ legacy \in Nat
    BY TrailBoundsAssumption DEF TrailInv, TrailTypes
  <2>4. /\ R \in Seq(AnyRec) /\ Len(R) = Len(rows) /\ Len(rows) \in Nat
        /\ \A i \in 1 .. Len(rows) : R[i] = rows[i].rec
    BY <2>3, RecordsAreInOrder
  <2>5. p \in 1 .. Len(rows)
    BY <2>1, <2>3, <2>4
  <2> HIDE DEF p, R
  <2>6. rows[p].hash = SubSeq(R, 1, p) /\ rows[p].prev = SubSeq(R, 1, p - 1)
    BY <2>2, <2>5 DEF TrailInv, RowsAreChained, LinkedRow, R
  <2>7. SubSeq(R, 1, p) = Append(SubSeq(R, 1, p - 1), R[p])
    BY <2>4, <2>5, PrefixFacts
  <2>8. rows[p].hash = Append(call[c].prev, call[c].rec)
    BY <2>1, <2>4, <2>5, <2>6, <2>7
  <2> QED BY <2>8 DEF p, ChainHash
<1> QED BY <1>2, <1>3

LEMMA EmitCopyInv ==
  ASSUME TrailInv, NEW c \in Callers, EmitCopy(c)
  PROVE  TrailInv'
<1> DEFINE h == HostOf[c]
           l == Line(c)
           x == [call[c] EXCEPT !.pc = "emitted"]
<1>0. /\ UNCHANGED <<rows, meta, legacy, host, lock, mem, beat, fault, pins, focus>>
      /\ call[c].pc = "stored" /\ call[c] \in CallState /\ h \in Hosts /\ call[c].rec \in Recs
      /\ host[h] = "up" /\ tail \in TailState /\ tail' = Clean /\ ~SinkBusy(h) /\ lock # c
      /\ call \in [Callers -> CallState] /\ sink' = Append(sink, l)
  BY CallFacts DEF EmitCopy, CanEmit, TrailInv, TrailTypes
<1>n. PICK n \in Nat : n = Len(sink) + 1
  BY CountsOfLines
<1>1. /\ l \in SinkLine /\ l.by = h /\ l.boot = mem[h].boot /\ l.rec = call[c].rec
      /\ l.prev = call[c].prev /\ l.hash = ChainHash(call[c].prev, call[c].rec) /\ l.merged = tail
  <2>1. ChainHash(call[c].prev, call[c].rec) \in Digest /\ mem[h] \in Memory
    BY <1>0, CallsHash, CountsOfLines
  <2> QED BY <1>0, <2>1 DEF Line, SinkLine, CallState, Memory
<1>2. /\ x \in CallState /\ x.pc = "emitted" /\ x.prev = call[c].prev /\ x.rec = call[c].rec
      /\ call' = [call EXCEPT ![c] = x]
  BY <1>0 DEF CallState, EmitCopy
<1> HIDE DEF l, x
<1>3. call' \in [Callers -> CallState] /\ call'[c] = x /\ \A d \in Callers : d # c => call'[d] = call[d]
  BY <1>0, <1>2
<1>4. /\ sink' \in Seq(SinkLine) /\ Len(sink') = Len(sink) + 1 /\ Len(sink) \in Nat
      /\ DOMAIN sink' = 1 .. Len(sink')
      /\ sink'[n] = l /\ \A k \in 1 .. Len(sink) : sink'[k] = sink[k]
      /\ \A k \in 1 .. Len(sink') : k = n \/ k \in 1 .. Len(sink)
      /\ n \in 1 .. Len(sink')
      /\ \A g, b : OwnLines(g, b)' = IF l.by = g /\ l.boot = b THEN OwnLines(g, b) \cup {n}
                                     ELSE OwnLines(g, b)
      /\ \A g, b : /\ n \notin OwnLines(g, b)
                   /\ IsFiniteSet(OwnLines(g, b)) /\ Cardinality(OwnLines(g, b)) \in Nat
                   /\ Cardinality(OwnLines(g, b)') =
                         IF l.by = g /\ l.boot = b THEN Cardinality(OwnLines(g, b)) + 1
                         ELSE Cardinality(OwnLines(g, b))
  BY <1>0, <1>n, <1>1, LineAdded
<1>5. TrailTypes'
  BY <1>0, <1>3, <1>4, CleanIsTailState DEF TrailInv, TrailTypes
<1>6. LockTells'
  <2>1. ChainHead(rows)' = ChainHead(rows)
    BY <1>0 DEF ChainHead
  <2> QED BY <1>0, <1>2, <1>3, <2>1 DEF TrailInv, LockTells
<1>7. RowsAreChained' /\ IdsTell' /\ DamageStays' /\ PinsTell'
  <2>1. meta # -1
    BY <1>0 DEF TrailInv, LockTells
  <2> QED BY <1>0, <2>1, TableAside
<1>8. CopiesTell' /\ EachOnce'
  <2>1. /\ PlaceOf(c)' = PlaceOf(c) /\ \A d \in Callers : d # c => PlaceOf(d)' = PlaceOf(d)
        /\ Place(n)' = PlaceOf(c) /\ \A k \in 1 .. Len(sink) : Place(k)' = Place(k)
    <3>1. Len(l.hash) = PlaceOf(c)
      BY <1>0, <1>1, CallsHash
    <3>2. Place(n)' = PlaceOf(c) /\ \A k \in 1 .. Len(sink) : Place(k)' = Place(k)
      BY <1>4, <3>1 DEF Place
    <3> QED BY <1>2, <1>3, <3>2 DEF PlaceOf
  <2>2. Untouched' <=> Untouched
    BY <1>0 DEF Untouched
  <2>3. Untouched => /\ PlaceOf(c) \in (legacy + 1) .. Len(rows)
                     /\ rows[PlaceOf(c)].rec = l.rec /\ rows[PlaceOf(c)].prev = l.prev
                     /\ rows[PlaceOf(c)].hash = l.hash
    BY <1>0, <1>1, CallsHash DEF TrailInv, CopiesTell
  <2>4. CopiesTell'
    <3> SUFFICES ASSUME Untouched
                 PROVE /\ \A d \in Callers : call'[d].pc \in {"stored", "stump", "emitted"} =>
                           /\ PlaceOf(d)' \in (legacy + 1) .. Len(rows)
                           /\ rows[PlaceOf(d)'].rec = call'[d].rec /\ rows[PlaceOf(d)'].prev = call'[d].prev
                       /\ \A k \in 1 .. Len(sink') :
                           /\ Place(k)' \in (legacy + 1) .. Len(rows)
                           /\ rows[Place(k)'].rec = sink'[k].rec /\ rows[Place(k)'].prev = sink'[k].prev
                           /\ rows[Place(k)'].hash = sink'[k].hash
      BY <1>0, <2>2 DEF CopiesTell
    <3>1. \A d \in Callers : call'[d].pc \in {"stored", "stump", "emitted"} =>
                           /\ PlaceOf(d)' \in (legacy + 1) .. Len(rows)
                           /\ rows[PlaceOf(d)'].rec = call'[d].rec /\ rows[PlaceOf(d)'].prev = call'[d].prev
      BY <1>0, <1>2, <1>3, <2>1 DEF TrailInv, CopiesTell
    <3>2. \A k \in 1 .. Len(sink') :
                           /\ Place(k)' \in (legacy + 1) .. Len(rows)
                           /\ rows[Place(k)'].rec = sink'[k].rec /\ rows[Place(k)'].prev = sink'[k].prev
                           /\ rows[Place(k)'].hash = sink'[k].hash
      BY <1>4, <2>1, <2>3 DEF TrailInv, CopiesTell
    <3> QED BY <3>1, <3>2
  <2>5. EachOnce'
    <3> SUFFICES ASSUME Untouched
                 PROVE /\ \A j, k \in 1 .. Len(sink') : j # k => Place(j)' # Place(k)'
                       /\ \A d \in Callers, k \in 1 .. Len(sink') :
                             call'[d].pc = "stored" => PlaceOf(d)' # Place(k)'
                       /\ \A d, e \in Callers : d # e /\ call'[d].pc = "stored" /\ call'[e].pc = "stored"
                             => PlaceOf(d)' # PlaceOf(e)'
      BY <2>2 DEF EachOnce
    <3>1. /\ \A j, k \in 1 .. Len(sink) : j # k => Place(j) # Place(k)
          /\ \A d \in Callers, k \in 1 .. Len(sink) : call[d].pc = "stored" => PlaceOf(d) # Place(k)
          /\ \A d, e \in Callers : d # e /\ call[d].pc = "stored" /\ call[e].pc = "stored"
                             => PlaceOf(d) # PlaceOf(e)
      BY DEF TrailInv, EachOnce
    <3>2. \A d \in Callers : call'[d].pc = "stored" => d # c /\ call[d].pc = "stored"
      BY <1>2, <1>3
    <3>3. \A k \in 1 .. Len(sink) : Place(k) # PlaceOf(c)
      BY <1>0, <3>1
    <3>4. \A j, k \in 1 .. Len(sink') : j # k => Place(j)' # Place(k)'
      BY <1>4, <2>1, <3>1, <3>3
    <3>5. \A d \in Callers, k \in 1 .. Len(sink') : call'[d].pc = "stored" => PlaceOf(d)' # Place(k)'
      BY <1>0, <1>4, <2>1, <3>1, <3>2
    <3>6. \A d, e \in Callers : d # e /\ call'[d].pc = "stored" /\ call'[e].pc = "stored"
                             => PlaceOf(d)' # PlaceOf(e)'
      BY <2>1, <3>1, <3>2
    <3> QED BY <3>4, <3>5, <3>6
  <2> QED BY <2>4, <2>5
<1>9. MemoryTells'
  <2>1. ASSUME NEW g \in Hosts, g # h
        PROVE  Emitting(g)' = Emitting(g) /\ OwnLines(g, mem[g].boot)' = OwnLines(g, mem[g].boot)
    BY <1>0, <1>1, <1>3, <1>4, <2>1 DEF Emitting
  <2>2. Emitting(h)' = Emitting(h) \cup {c} /\ c \notin Emitting(h)
    BY <1>0, <1>2, <1>3 DEF Emitting
  <2>3. OwnLines(h, mem[h].boot)' = OwnLines(h, mem[h].boot) \cup {n}
        /\ Cardinality(OwnLines(h, mem[h].boot)') = Cardinality(OwnLines(h, mem[h].boot)) + 1
    BY <1>0, <1>1, <1>4
  <2>4. Cardinality(Emitting(h)') = Cardinality(Emitting(h)) + 1 /\ Cardinality(Emitting(h)) \in Nat
    <3>1. IsFiniteSet(Emitting(h)) /\ Cardinality(Emitting(h)) \in Nat
      BY CountsOfLines DEF Emitting
    <3> QED BY <2>2, <3>1, FS_AddElement
  <2>5. ASSUME NEW g \in Hosts
        PROVE /\ mem[g].emitted + Cardinality(Emitting(g)') <= Cardinality(OwnLines(g, mem[g].boot)')
    <3>1. mem[g].emitted \in Nat /\ Cardinality(OwnLines(g, mem[g].boot)) \in Nat
      BY <1>4, CountsOfLines DEF Memory
    <3>2. mem[g].emitted + Cardinality(Emitting(g)) <= Cardinality(OwnLines(g, mem[g].boot))
      BY DEF TrailInv, MemoryTells
    <3>3. CASE g # h
      BY <2>1, <3>2, <3>3
    <3>4. CASE g = h
      <4>1. Cardinality(Emitting(g)') = Cardinality(Emitting(g)) + 1 /\ Cardinality(Emitting(g)) \in Nat
        BY <2>4, <3>4
      <4>2. Cardinality(OwnLines(g, mem[g].boot)') = Cardinality(OwnLines(g, mem[g].boot)) + 1
        BY <2>3, <3>4
      <4> QED BY <3>1, <3>2, <4>1, <4>2
    <3> QED BY <3>3, <3>4
  <2>6. ASSUME NEW g \in Hosts
        PROVE /\ OwnLines(g, mem[g].boot) \subseteq OwnLines(g, mem[g].boot)'
              /\ \A k \in OwnLines(g, mem[g].boot) : sink'[k] = sink[k]
    BY <1>0, <1>4 DEF OwnLines
  <2>7. ASSUME NEW g \in Hosts
        PROVE IF mem[g].emitted = 0 THEN mem[g].head = Genesis
              ELSE \E k \in OwnLines(g, mem[g].boot)' : sink'[k].hash = mem[g].head
    BY <2>6 DEF TrailInv, MemoryTells
  <2>8. ASSUME NEW g \in Hosts, NEW d \in Emitting(g)'
        PROVE \E k \in OwnLines(g, mem[g].boot)' : sink'[k].hash = ChainHash(call'[d].prev, call'[d].rec)
    <3>1. CASE d = c
      <4>1. g = h
        BY <3>1 DEF Emitting
      <4>2. n \in OwnLines(g, mem[g].boot)' /\ sink'[n].hash = ChainHash(call'[d].prev, call'[d].rec)
        BY <1>1, <1>2, <1>3, <1>4, <2>3, <3>1, <4>1
      <4> QED BY <4>2
    <3>2. CASE d # c
      <4>1. d \in Emitting(g) /\ call'[d] = call[d]
        BY <1>3, <3>2 DEF Emitting
      <4> QED BY <2>6, <4>1 DEF TrailInv, MemoryTells
    <3> QED BY <3>1, <3>2
  <2>9. \A k \in 1 .. Len(sink') : sink'[k].boot <= mem[sink'[k].by].boot
    <3>1. mem[h].boot <= mem[h].boot
      BY <1>0, CountsOfLines DEF Memory
    <3> QED BY <1>1, <1>4, <3>1 DEF TrailInv, MemoryTells
  <2> QED BY <1>0, <2>5, <2>7, <2>8, <2>9 DEF MemoryTells
<1>10. StumpsCostOnlyThemselves'
  <2>1. tail.kind = "open" => HostOf[tail.by] # h
    BY <1>0 DEF SinkBusy
  <2>2. DOMAIN sink = 1 .. Len(sink)
    BY CountsOfLines
  <2> QED BY <1>1, <1>4, <2>1, <2>2 DEF TrailInv, StumpsCostOnlyThemselves
<1>11. HeartbeatIsHonest'
  <2>1. DOMAIN sink = 1 .. Len(sink)
    BY CountsOfLines
  <2>2. \A k \in DOMAIN beat : BeatFits(beat[k]) /\ beat[k] \in Beat
    <3>1. \A k \in DOMAIN beat : beat[k] \in Beat
      BY LenProperties, ElementOfSeq DEF TrailInv, TrailTypes
    <3> QED BY <2>1, <3>1, BeatsFit DEF TrailInv
  <2>3. ASSUME NEW b \in Beat, BeatFits(b) PROVE BeatFits(b)'
    <3>1. /\ OwnLines(b.by, b.boot) \subseteq OwnLines(b.by, b.boot)'
          /\ \A k \in OwnLines(b.by, b.boot) : sink'[k] = sink[k]
      BY <1>4 DEF OwnLines
    <3>2. b.records \in Nat /\ Cardinality(OwnLines(b.by, b.boot)) \in Nat
      BY <1>4 DEF Beat
    <3>3. b.records <= Cardinality(OwnLines(b.by, b.boot)')
      BY <1>4, <2>3, <3>2 DEF BeatFits
    <3> QED BY <2>3, <3>1, <3>3 DEF BeatFits
  <2>4. \A k \in DOMAIN beat' : BeatFits(beat[k])'
    BY <1>0, <2>2, <2>3
  <2>5. HeartbeatIsHonest' <=> \A k \in DOMAIN beat' : BeatFits(beat[k])'
    <3>1. \A g, b : {j \in DOMAIN sink' : sink'[j].by = g /\ sink'[j].boot = b} = OwnLines(g, b)'
      BY <1>4 DEF OwnLines
    <3> QED BY <3>1 DEF HeartbeatIsHonest, BeatFits
  <2> QED BY <2>4, <2>5
<1> QED
  BY <1>5, <1>6, <1>7, <1>8, <1>9, <1>10, <1>11 DEF TrailInv

LEMMA NoteEmittedInv ==
  ASSUME TrailInv, NEW c \in Callers, NoteEmitted(c)
  PROVE  TrailInv'
<1> DEFINE h == HostOf[c]
           d == ChainHash(call[c].prev, call[c].rec)
           m == [mem[h] EXCEPT !.head = d, !.emitted = mem[h].emitted + 1]
<1>0. /\ UNCHANGED <<rows, meta, legacy, host, lock, sink, tail, beat, fault, pins, focus>>
      /\ call[c].pc = "emitted" /\ h \in Hosts /\ lock # c /\ d \in Digest /\ mem[h] \in Memory
      /\ call \in [Callers -> CallState] /\ mem \in [Hosts -> Memory] /\ call' = [call EXCEPT ![c] = Idle]
  BY CallFacts, CallsHash, CountsOfLines DEF NoteEmitted, TrailInv, TrailTypes
<1>1. /\ m \in Memory /\ m.head = d /\ m.emitted = mem[h].emitted + 1 /\ m.boot = mem[h].boot
      /\ mem' = [mem EXCEPT ![h] = m]
  BY <1>0 DEF Memory, NoteEmitted
<1> HIDE DEF m, d
<1>2. /\ call' \in [Callers -> CallState] /\ call'[c].pc = "idle"
      /\ \A e \in Callers : e # c => call'[e] = call[e]
  BY <1>0, IdleIsCallState
<1>3. mem' \in [Hosts -> Memory] /\ mem'[h] = m /\ \A g \in Hosts : g # h => mem'[g] = mem[g]
  BY <1>0, <1>1
<1>4. TrailTypes'
  BY <1>0, <1>2, <1>3 DEF TrailInv, TrailTypes
<1>5. LockTells'
  <2>1. ChainHead(rows)' = ChainHead(rows)
    BY <1>0 DEF ChainHead
  <2> QED BY <1>0, <1>2, <2>1 DEF TrailInv, LockTells
<1>6. CopiesTell' /\ EachOnce'
  BY <1>0, <1>2, CopiesAside
<1>7. MemoryTells'
  <2>1. \A g \in Hosts : mem'[g].boot = mem[g].boot /\ OwnLines(g, mem[g].boot)' = OwnLines(g, mem[g].boot)
    BY <1>0, <1>1, <1>3 DEF OwnLines
  <2>2. /\ c \in Emitting(h) /\ Emitting(h)' = Emitting(h) \ {c}
        /\ \A g \in Hosts : g # h => Emitting(g)' = Emitting(g)
        /\ \A g \in Hosts : \A e \in Emitting(g)' : e \in Emitting(g) /\ call'[e] = call[e]
    BY <1>0, <1>2 DEF Emitting
  <2>3. ASSUME NEW g \in Hosts
        PROVE  mem'[g].emitted + Cardinality(Emitting(g)') <= Cardinality(OwnLines(g, mem[g].boot))
    <3>1. /\ IsFiniteSet(Emitting(g)) /\ Cardinality(Emitting(g)) \in Nat /\ mem[g].emitted \in Nat
          /\ Cardinality(OwnLines(g, mem[g].boot)) \in Nat
      BY CountsOfLines DEF Emitting, OwnLines, Memory
    <3>2. mem[g].emitted + Cardinality(Emitting(g)) <= Cardinality(OwnLines(g, mem[g].boot))
      BY DEF TrailInv, MemoryTells
    <3>3. CASE g # h
      BY <1>3, <2>2, <3>2, <3>3
    <3>4. CASE g = h
      <4>1. Cardinality(Emitting(g)') = Cardinality(Emitting(g)) - 1
        BY <2>2, <3>1, <3>4, FS_RemoveElement
      <4>2. mem'[g].emitted = mem[g].emitted + 1
        BY <1>1, <1>3, <3>4
      <4> QED BY <3>1, <3>2, <4>1, <4>2
    <3> QED BY <3>3, <3>4
  <2>4. ASSUME NEW g \in Hosts
        PROVE IF mem'[g].emitted = 0 THEN mem'[g].head = Genesis
              ELSE \E k \in OwnLines(g, mem[g].boot) : sink[k].hash = mem'[g].head
    <3>1. CASE g # h
      BY <1>3, <3>1 DEF TrailInv, MemoryTells
    <3>2. CASE g = h
      <4>1. mem[h].emitted + 1 # 0
        BY <1>0 DEF Memory
      <4>2. \E k \in OwnLines(h, mem[h].boot) : sink[k].hash = d
        BY <1>0, <2>2 DEF TrailInv, MemoryTells, d
      <4> QED BY <1>1, <1>3, <3>2, <4>1, <4>2
    <3> QED BY <3>1, <3>2
  <2>5. \A g \in Hosts : \A e \in Emitting(g)' : \E k \in OwnLines(g, mem[g].boot) :
           sink[k].hash = ChainHash(call'[e].prev, call'[e].rec)
    BY <2>2 DEF TrailInv, MemoryTells
  <2>6. \A k \in 1 .. Len(sink) : sink[k].by \in Hosts
    <3>1. \A k \in 1 .. Len(sink) : sink[k] \in SinkLine
      BY ElementOfSeq DEF TrailInv, TrailTypes
    <3> QED BY <3>1 DEF SinkLine
  <2> QED BY <1>0, <2>1, <2>3, <2>4, <2>5, <2>6 DEF TrailInv, MemoryTells
<1> QED
  BY <1>0, <1>4, <1>5, <1>6, <1>7, TableAside, CopyAside DEF TrailInv

-----------------------------------------------------------------------------
(* Processes and readers.                                                  *)

LEMMA HeartbeatInv ==
  ASSUME TrailInv, NEW h \in Hosts, Heartbeat(h)
  PROVE  TrailInv'
<1> DEFINE b == [by |-> h, boot |-> mem[h].boot, head |-> mem[h].head, records |-> mem[h].emitted]
<1>0. /\ UNCHANGED <<rows, meta, legacy, host, lock, call, sink, mem, fault, pins, focus>>
      /\ beat' = Append(beat, b) /\ tail' = Clean /\ beat \in Seq(Beat)
  BY DEF Heartbeat, chainVars, TrailInv, TrailTypes
<1>1. /\ b \in Beat /\ b.by = h /\ b.boot = mem[h].boot /\ b.head = mem[h].head
      /\ b.records = mem[h].emitted
  BY CountsOfLines DEF Beat, Memory
<1> HIDE DEF b
<1>2. /\ beat' \in Seq(Beat) /\ Len(beat') = Len(beat) + 1 /\ beat'[Len(beat) + 1] = b
      /\ \A k \in 1 .. Len(beat) : beat'[k] = beat[k]
      /\ Len(beat) \in Nat /\ DOMAIN beat = 1 .. Len(beat)
  BY <1>0, <1>1, AppendProperties, LenProperties
<1>3. DOMAIN beat' = 1 .. Len(beat')
  BY <1>2, LenProperties
<1>4. TrailTypes'
  BY <1>0, <1>2, CleanIsTailState DEF TrailInv, TrailTypes
<1>5. LockTells'
  BY <1>0 DEF TrailInv, LockTells, ChainHead
<1>6. CopiesTell' /\ EachOnce' /\ MemoryTells'
  BY <1>0, CallsAside
<1>7. StumpsCostOnlyThemselves'
  BY <1>0 DEF TrailInv, StumpsCostOnlyThemselves
<1>8. HeartbeatIsHonest'
  <2>1. DOMAIN sink = 1 .. Len(sink)
    BY CountsOfLines
  <2>2. \A k \in DOMAIN beat : BeatFits(beat[k])
    BY <2>1, BeatsFit DEF TrailInv
  <2>3. BeatFits(b)
    <3>1. OwnLines(h, mem[h].boot) \in SUBSET (1 .. Len(sink)) /\ Emitting(h) \in SUBSET Callers
      BY DEF OwnLines, Emitting
    <3>2. /\ Cardinality(OwnLines(h, mem[h].boot)) \in Nat /\ Cardinality(Emitting(h)) \in Nat
          /\ mem[h].emitted \in Nat
      BY <3>1, CountsOfLines DEF Memory
    <3>3. mem[h].emitted + Cardinality(Emitting(h)) <= Cardinality(OwnLines(h, mem[h].boot))
      BY DEF TrailInv, MemoryTells
    <3>4. mem[h].emitted <= Cardinality(OwnLines(h, mem[h].boot))
      BY <3>2, <3>3
    <3> QED BY <1>1, <3>4 DEF TrailInv, MemoryTells, BeatFits
  <2>4. \A k \in DOMAIN beat' : BeatFits(beat'[k])
    <3>1. \A k \in DOMAIN beat' : k = Len(beat) + 1 \/ k \in DOMAIN beat
      BY <1>2, <1>3
    <3> QED BY <1>2, <2>2, <2>3, <3>1
  <2>5. \A g, z : {j \in DOMAIN sink' : sink'[j].by = g /\ sink'[j].boot = z} = OwnLines(g, z)
    BY <1>0, <2>1 DEF OwnLines
  <2>6. ASSUME NEW k \in DOMAIN beat'
        PROVE  LET own == {j \in DOMAIN sink' : sink'[j].by = beat'[k].by /\ sink'[j].boot = beat'[k].boot} IN
               /\ beat'[k].records <= Cardinality(own)
               /\ IF beat'[k].records = 0 THEN beat'[k].head = Genesis
                                          ELSE beat'[k].head \in {sink'[j].hash : j \in own}
    <3>1. BeatFits(beat'[k])
      BY <2>4, <2>6
    <3>2. {j \in DOMAIN sink' : sink'[j].by = beat'[k].by /\ sink'[j].boot = beat'[k].boot}
            = OwnLines(beat'[k].by, beat'[k].boot)
      BY <2>5
    <3>3. sink' = sink
      BY <1>0
    <3> QED BY <3>1, <3>2, <3>3 DEF BeatFits
  <2> QED BY <2>6 DEF HeartbeatIsHonest
<1> QED
  BY <1>0, <1>4, <1>5, <1>6, <1>7, <1>8, TableAside DEF TrailInv

LEMMA HostCrashInv ==
  ASSUME TrailInv, NEW h \in Hosts, HostCrash(h)
  PROVE  TrailInv'
<1>0. /\ UNCHANGED <<rows, meta, legacy, sink, mem, beat, fault, pins, focus>>
      /\ host' = [host EXCEPT ![h] = "off"]
      /\ lock' = IF lock # NoCaller /\ HostOf[lock] = h THEN NoCaller ELSE lock
      /\ call' = [c \in Callers |-> IF HostOf[c] = h THEN Idle ELSE call[c]]
      /\ call \in [Callers -> CallState] /\ host \in [Hosts -> {"off", "checked", "up"}]
      /\ lock \in Callers \cup {NoCaller} /\ tail \in TailState
  BY DEF HostCrash, TrailInv, TrailTypes
<1>1. /\ call' \in [Callers -> CallState]
      /\ \A c \in Callers : /\ HostOf[c] = h => call'[c] = Idle
                            /\ HostOf[c] # h => call'[c] = call[c]
  BY <1>0, IdleIsCallState
<1>2. lock' \in Callers \cup {NoCaller}
  BY <1>0
<1>3. tail' \in TailState
  BY <1>0 DEF HostCrash, TailState
<1>4. TrailTypes'
  BY <1>0, <1>1, <1>2, <1>3 DEF TrailInv, TrailTypes
<1>5. LockTells'
  <2>1. ChainHead(rows)' = ChainHead(rows)
    BY <1>0 DEF ChainHead
  <2>2. \A g \in Hosts : host'[g] = "up" => host[g] = "up"
    BY <1>0
  <2>3. ASSUME NEW c \in Callers
        PROVE /\ call'[c].pc = "tx" <=> lock' = c
              /\ call'[c].pc = "tx" => call'[c].prev = ChainHead(rows) /\ Len(rows) < MaxRows[focus]
              /\ call'[c].pc # "idle" => host'[HostOf[c]] = "up" /\ call'[c].rec \in Recs
    <3>1. HostOf[c] \in Hosts /\ c # NoCaller
      BY CallersAssumption DEF Hosts
    <3>2. CASE HostOf[c] = h
      BY <1>0, <1>1, <3>1, <3>2, IdleIsCallState
    <3>3. CASE HostOf[c] # h
      BY <1>0, <1>1, <3>1, <3>3 DEF TrailInv, LockTells
    <3> QED BY <3>2, <3>3
  <2> QED BY <1>0, <2>1, <2>2, <2>3 DEF TrailInv, LockTells
<1>6. CopiesTell' /\ EachOnce' /\ MemoryTells'
  BY <1>0, <1>1, IdleIsCallState, CallsAside
<1> QED
  BY <1>0, <1>4, <1>5, <1>6, TableAside, CopyAside DEF TrailInv

LEMMA ReadersInv ==
  ASSUME TrailInv, StartWalk \/ AuditPage
  PROVE  TrailInv'
<1>0. UNCHANGED <<rows, meta, legacy, host, lock, call, sink, tail, mem, beat, fault, pins, focus>>
  BY DEF StartWalk, AuditPage, chainVars, sinkVars
<1>1. TrailTypes' /\ LockTells'
  BY <1>0 DEF TrailInv, TrailTypes, LockTells, ChainHead
<1>2. CopiesTell' /\ EachOnce' /\ MemoryTells'
  BY <1>0, CallsAside
<1> QED BY <1>0, <1>1, <1>2, TableAside, CopyAside DEF TrailInv

(* What an operator writes down stands for the records of that moment.     *)
LEMMA PinInv ==
  ASSUME TrailInv, Pin
  PROVE  TrailInv'
<1>0. /\ UNCHANGED <<rows, meta, legacy, host, lock, call, sink, tail, mem, beat, fault, focus>>
      /\ VerifyChain(rows).break = 0
      /\ pins' = {[head |-> VerifyChain(rows).head, recs |-> Records(rows)]}
      /\ rows \in Seq(TrailRow)
  BY DEF Pin, chainVars, sinkVars, TrailInv, TrailTypes
<1>1. RunAuditVerify(rows, VerifyChain(rows).head)
  BY <1>0 DEF RunAuditVerify
<1>2. Records(rows) = VerifyChain(rows).head
  BY <1>0, <1>1, VerifiedHeadTellsTheTrail
<1>3. PinsTell'
  BY <1>0, <1>2 DEF PinsTell
<1>4. TrailTypes' /\ LockTells'
  BY <1>0 DEF TrailInv, TrailTypes, LockTells, ChainHead
<1>5. CopiesTell' /\ EachOnce' /\ MemoryTells'
  BY <1>0, CallsAside
<1>6. RowsAreChained' /\ IdsTell' /\ DamageStays'
  BY <1>0 DEF TrailInv, RowsAreChained, IdsTell, DamageStays, Untouched, LinkedRow, LinkBroken
<1> QED BY <1>0, <1>3, <1>4, <1>5, <1>6, CopyAside DEF TrailInv

LEMMA MigrateCheckInv ==
  ASSUME TrailInv, NEW h \in Hosts, MigrateCheck(h)
  PROVE  TrailInv'
<1> DEFINE m == [boot |-> mem[h].boot + 1, head |-> Genesis, emitted |-> 0]
<1>0. /\ UNCHANGED <<rows, meta, legacy, lock, call, sink, tail, beat, fault, pins, focus>>
      /\ host[h] = "off" /\ host' = [host EXCEPT ![h] = IF meta >= 0 THEN "up" ELSE "checked"]
      /\ mem' = [mem EXCEPT ![h] = m]
      /\ mem \in [Hosts -> Memory] /\ host \in [Hosts -> {"off", "checked", "up"}]
  BY DEF MigrateCheck, TrailInv, TrailTypes
<1>1. m \in Memory /\ m.boot = mem[h].boot + 1 /\ m.head = Genesis /\ m.emitted = 0 /\ mem[h].boot \in Nat
  BY CountsOfLines, EmptyIsDigest DEF Memory
<1> HIDE DEF m
<1>2. mem' \in [Hosts -> Memory] /\ mem'[h] = m /\ \A g \in Hosts : g # h => mem'[g] = mem[g]
  BY <1>0, <1>1
<1>3. /\ host' \in [Hosts -> {"off", "checked", "up"}] /\ (host'[h] = "up" => meta >= 0)
      /\ \A g \in Hosts : g # h => host'[g] = host[g]
  BY <1>0
<1>4. TrailTypes'
  BY <1>0, <1>2, <1>3 DEF TrailInv, TrailTypes
<1>5. \A c \in Callers : HostOf[c] = h => call[c].pc = "idle"
  BY <1>0 DEF TrailInv, LockTells
<1>6. LockTells'
  <2>1. ChainHead(rows)' = ChainHead(rows)
    BY <1>0 DEF ChainHead
  <2>2. \A c \in Callers : HostOf[c] \in Hosts
    BY DEF Hosts
  <2> QED BY <1>0, <1>3, <1>5, <2>1, <2>2 DEF TrailInv, LockTells
<1>7. CopiesTell' /\ EachOnce'
  BY <1>0, CopiesAside
<1>8. MemoryTells'
  <2>0. \A k \in 1 .. Len(sink) : sink[k].by \in Hosts /\ sink[k].boot \in Nat
    <3>1. \A k \in 1 .. Len(sink) : sink[k] \in SinkLine
      BY ElementOfSeq DEF TrailInv, TrailTypes
    <3> QED BY <3>1 DEF SinkLine
  <2>1. \A k \in 1 .. Len(sink) : sink[k].boot <= mem[sink[k].by].boot
    BY DEF TrailInv, MemoryTells
  <2>2. \A k \in 1 .. Len(sink) : sink[k].by = h => sink[k].boot # mem[h].boot + 1
    BY <1>1, <2>0, <2>1
  <2>3. OwnLines(h, mem[h].boot + 1) = {}
    BY <2>2 DEF OwnLines
  <2>4. Emitting(h) = {} /\ \A g \in Hosts : Emitting(g)' = Emitting(g)
    BY <1>0, <1>5 DEF Emitting
  <2>5. Cardinality(OwnLines(h, mem[h].boot + 1)) = 0 /\ Cardinality(Emitting(h)) = 0
    BY <2>3, <2>4, FS_EmptySet
  <2>6. \A g, b : OwnLines(g, b)' = OwnLines(g, b)
    BY <1>0 DEF OwnLines
  <2>7. \A k \in 1 .. Len(sink) : sink[k].boot <= mem'[sink[k].by].boot
    <3> SUFFICES ASSUME NEW k \in 1 .. Len(sink) PROVE sink[k].boot <= mem'[sink[k].by].boot
      OBVIOUS
    <3>1. CASE sink[k].by # h
      BY <1>2, <2>0, <2>1, <3>1
    <3>2. CASE sink[k].by = h
      <4>1. mem'[sink[k].by].boot = mem[h].boot + 1 /\ sink[k].boot <= mem[h].boot
        BY <1>1, <1>2, <2>1, <3>2
      <4> QED BY <1>1, <2>0, <4>1
    <3> QED BY <3>1, <3>2
  <2>8. ASSUME NEW g \in Hosts
        PROVE LET own == OwnLines(g, mem'[g].boot) IN
              /\ mem'[g].emitted + Cardinality(Emitting(g)) <= Cardinality(own)
              /\ IF mem'[g].emitted = 0 THEN mem'[g].head = Genesis
                                        ELSE \E k \in own : sink[k].hash = mem'[g].head
              /\ \A c \in Emitting(g) :
                   \E k \in own : sink[k].hash = ChainHash(call[c].prev, call[c].rec)
    <3>1. CASE g # h
      BY <1>2, <3>1 DEF TrailInv, MemoryTells
    <3>2. CASE g = h
      <4>1. /\ mem'[g].emitted = 0 /\ Cardinality(Emitting(g)) = 0 /\ mem'[g].head = Genesis
            /\ Cardinality(OwnLines(g, mem'[g].boot)) = 0 /\ Emitting(g) = {}
        BY <1>1, <1>2, <2>4, <2>5, <3>2
      <4>2. mem'[g].emitted + Cardinality(Emitting(g)) <= Cardinality(OwnLines(g, mem'[g].boot))
        BY <4>1
      <4> QED BY <4>1, <4>2
    <3> QED BY <3>1, <3>2
  <2> QED BY <1>0, <2>4, <2>6, <2>7, <2>8 DEF MemoryTells
<1> QED
  BY <1>0, <1>4, <1>6, <1>7, <1>8, TableAside, CopyAside DEF TrailInv

(* The backfill of a table without a chained row computes the hash of      *)
(* every prefix.                                                           *)
LEMMA BackfillIsPrefix ==
  ASSUME NEW t \in Seq(TrailRow), \A i \in 1 .. Len(t) : ~t[i].chained
  PROVE  \A i \in 0 .. Len(t) : BackfillHeads(t)[i] = SubSeq(Records(t), 1, i)
<1> DEFINE R == Records(t)
           done == {i \in DOMAIN t : t[i].chained}
           first == IF done = {} THEN Genesis ELSE t[Max(done)].hash
           F(g, i) == IF i = 0 THEN first
                      ELSE IF t[i].chained THEN g[i - 1] ELSE ChainHash(g[i - 1], t[i].rec)
           w == [i \in 0 .. Len(t) |-> SubSeq(R, 1, i)]
           B == BackfillHeads(t)
<1>0. /\ R \in Seq(AnyRec) /\ Len(R) = Len(t) /\ Len(t) \in Nat /\ DOMAIN t = 1 .. Len(t)
      /\ \A i \in 1 .. Len(t) : R[i] = t[i].rec
  BY RecordsAreInOrder
<1>1. /\ SubSeq(R, 1, 0) = <<>>
      /\ \A i \in 1 .. Len(t) : SubSeq(R, 1, i) = Append(SubSeq(R, 1, i - 1), R[i])
  <2> HIDE DEF R
  <2> QED BY <1>0, PrefixFacts
<1>2. first = <<>>
  BY <1>0 DEF Genesis
<1>3. B = CHOOSE g : g = [i \in 0 .. Len(t) |-> F(g, i)]
  BY DEF BackfillHeads
<1>4. w = [i \in 0 .. Len(t) |-> F(w, i)]
  <2>1. ASSUME NEW i \in 0 .. Len(t) PROVE w[i] = F(w, i)
    <3>1. CASE i = 0
      <4>1. w[i] = <<>>
        BY <1>0, <1>1, <3>1
      <4> HIDE DEF w, first
      <4> QED BY <1>2, <3>1, <4>1
    <3>2. CASE i # 0
      <4>1. i \in 1 .. Len(t) /\ i - 1 \in 0 .. Len(t)
        BY <1>0, <3>2
      <4>2. w[i] = SubSeq(R, 1, i) /\ w[i - 1] = SubSeq(R, 1, i - 1)
        BY <4>1
      <4> HIDE DEF w, first, R
      <4> QED BY <1>0, <1>1, <3>2, <4>1, <4>2 DEF ChainHash
    <3> QED BY <3>1, <3>2
  <2>2. w = [i \in 0 .. Len(t) |-> w[i]]
    OBVIOUS
  <2> HIDE DEF w, F
  <2> QED BY <2>1, <2>2
<1>5. B = [i \in 0 .. Len(t) |-> F(B, i)]
  <2> HIDE DEF B, w, F
  <2> QED BY <1>3, <1>4
<1>6. /\ B[0] = <<>>
      /\ \A i \in 1 .. Len(t) : B[i] = Append(B[i - 1], R[i])
  <2>1. \A i \in 0 .. Len(t) : B[i] = F(B, i)
    <3> HIDE DEF F, B
    <3> QED BY <1>5
  <2>2. 0 \in 0 .. Len(t)
    BY <1>0
  <2>3. B[0] = first
    <3> HIDE DEF B, first
    <3> QED BY <2>1, <2>2
  <2>4. ASSUME NEW i \in 1 .. Len(t) PROVE B[i] = Append(B[i - 1], R[i])
    <3>1. i \in 0 .. Len(t) /\ i # 0
      BY <1>0
    <3> HIDE DEF B, first, R
    <3> QED BY <1>0, <2>1, <3>1 DEF ChainHash
  <2> QED BY <1>2, <2>3, <2>4
<1> DEFINE T == {i \in 0 .. Len(t) : B[i] # SubSeq(R, 1, i)}
<1> HIDE DEF B, R, F, w, first, done
<1>7. ASSUME T # {} PROVE FALSE
  <2>1. T \in SUBSET Nat
    BY <1>0
  <2>2. PICK n \in T : \A m \in T : n <= m
    <3> HIDE DEF T
    <3> QED BY <1>7, <2>1, LeastPlace
  <2>3. n \in 0 .. Len(t) /\ n \in Nat /\ B[n] # SubSeq(R, 1, n)
    BY <1>0
  <2>4. n # 0
    BY <1>1, <1>6, <2>3
  <2>5. n \in 1 .. Len(t) /\ n - 1 \in 0 .. Len(t) /\ n - 1 < n
    BY <1>0, <2>3, <2>4
  <2>6. n - 1 \notin T
    BY <2>2, <2>3, <2>5
  <2>7. B[n - 1] = SubSeq(R, 1, n - 1)
    BY <2>5, <2>6
  <2> QED BY <1>1, <1>6, <2>3, <2>5, <2>7
<1> QED BY <1>7 DEF B, R

LEMMA BackfillChainInv ==
  ASSUME TrailInv, NEW h \in Hosts, BackfillChain(h)
  PROVE  TrailInv'
<1>0. /\ UNCHANGED <<legacy, lock, call, sink, tail, mem, beat, fault, pins, focus>>
      /\ host[h] = "checked" /\ lock = NoCaller
      /\ rows \in Seq(TrailRow) /\ Len(rows) <= MaxRows[focus]
      /\ host \in [Hosts -> {"off", "checked", "up"}] /\ legacy \in 0 .. MaxLegacy
      /\ meta \in -1 .. MaxLegacy
  BY DEF BackfillChain, sinkVars, TrailInv, TrailTypes
<1>1. CASE meta >= 0
  <2>1. /\ host' = [host EXCEPT ![h] = "off"] /\ UNCHANGED <<rows, meta>>
    BY <1>1 DEF BackfillChain
  <2>2. TrailTypes'
    BY <1>0, <2>1 DEF TrailInv, TrailTypes
  <2>3. \A g \in Hosts : (g # h => host'[g] = host[g]) /\ (host'[g] = "up" => host[g] = "up")
    BY <1>0, <2>1
  <2>4. LockTells'
    <3>1. \A c \in Callers : HostOf[c] \in Hosts /\ (call[c].pc # "idle" => HostOf[c] # h)
      BY <1>0 DEF Hosts, TrailInv, LockTells
    <3>2. ChainHead(rows)' = ChainHead(rows)
      BY <2>1 DEF ChainHead
    <3> QED BY <1>0, <2>1, <2>3, <3>1, <3>2 DEF TrailInv, LockTells
  <2>5. CopiesTell' /\ EachOnce' /\ MemoryTells'
    BY <1>0, <2>1, CallsAside
  <2> QED
    BY <1>0, <2>1, <2>2, <2>4, <2>5, TableAside, CopyAside DEF TrailInv
<1>2. CASE ~(meta >= 0)
  <2> DEFINE n == Len(rows)
             R == Records(rows)
             H == BackfillHeads(rows)
             row(i) == [rows[i] EXCEPT !.prev = H[i - 1], !.hash = H[i], !.chained = TRUE]
  <2>1. /\ rows' = Backfilled(rows) /\ meta' = LastBare(rows)
        /\ host' = [host EXCEPT ![h] = "up"]
    BY <1>2 DEF BackfillChain
  <2>2. /\ meta = -1 /\ Untouched /\ n = legacy /\ sink = <<>>
        /\ \A i \in 1 .. n : ~rows[i].chained /\ rows[i].rec \in Recs /\ rows[i].id = i
    <3>1. meta = -1
      BY <1>0, <1>2, TrailBoundsAssumption
    <3> QED BY <3>1 DEF TrailInv, RowsAreChained, IdsTell
  <2>3. \A c \in Callers : call[c].pc = "idle"
    <3>1. \A c \in Callers : HostOf[c] \in Hosts
      BY DEF Hosts
    <3> QED BY <1>2, <3>1 DEF TrailInv, LockTells
  <2>4. /\ n \in Nat /\ DOMAIN rows = 1 .. n /\ \A i \in 1 .. n : rows[i] \in TrailRow
        /\ R \in Seq(AnyRec) /\ Len(R) = n /\ \A i \in 1 .. n : R[i] = rows[i].rec
    BY <1>0, RecordsAreInOrder
  <2>5. \A i \in 0 .. n : H[i] = SubSeq(R, 1, i) /\ H[i] \in Digest
    <3>1. \A i \in 0 .. n : H[i] = SubSeq(R, 1, i)
      BY <1>0, <2>2, BackfillIsPrefix
    <3> HIDE DEF R, H, row
    <3>2. \A i \in 0 .. n : SubSeq(R, 1, i) \in Seq(AnyRec)
      BY <2>4, PrefixFacts
    <3> QED BY <3>1, <3>2 DEF Digest
  <2>6. rows' = [i \in 1 .. n |-> row(i)]
    BY <2>1, <2>2, <2>4 DEF Backfilled
  <2>7. \A i \in 1 .. n : /\ row(i) \in TrailRow /\ row(i).id = i /\ row(i).rec = rows[i].rec
                          /\ row(i).prev = H[i - 1] /\ row(i).hash = H[i]
    <3>1. \A i \in 1 .. n : i - 1 \in 0 .. n /\ i \in 0 .. n
      BY <2>4
    <3> HIDE DEF H, R
    <3> QED BY <2>2, <2>4, <2>5, <3>1 DEF TrailRow
  <2> HIDE DEF row, H, R
  <2>8. rows' \in [1 .. n -> TrailRow]
    BY <2>6, <2>7
  <2>9. rows' \in Seq(TrailRow)
    BY <2>4, <2>8, SeqDef
  <2>10. Len(rows') = n
    BY <2>4, <2>8, <2>9, LenProperties
  <2>11. Records(rows') = R
    <3>1. DOMAIN rows' = 1 .. n
      BY <2>8
    <3> QED BY <2>4, <2>6, <2>7, <3>1 DEF Records, R
  <2>12. meta' = legacy
    <3> DEFINE bare == {i \in DOMAIN rows : ~rows[i].chained}
    <3>1. bare = 1 .. n
      BY <2>2, <2>4
    <3>2. LastBare(rows) = IF bare = {} THEN 0 ELSE rows[Max(bare)].id
      BY DEF LastBare
    <3> HIDE DEF bare
    <3>3. CASE n = 0
      BY <2>1, <2>2, <3>1, <3>2, <3>3
    <3>4. CASE n # 0
      <4>1. n \in bare /\ \A y \in bare : n >= y
        BY <2>4, <3>1, <3>4
      <4>2. Max(bare) = n
        BY <2>4, <3>1, <4>1, MaxIsGreatest
      <4> QED BY <2>1, <2>2, <3>1, <3>2, <4>1, <4>2
    <3> QED BY <3>3, <3>4
  <2>13. TrailTypes'
    <3>1. meta' \in -1 .. MaxLegacy
      BY <1>0, <2>12, TrailBoundsAssumption
    <3> QED BY <1>0, <2>1, <2>9, <2>10, <3>1 DEF TrailInv, TrailTypes
  <2>14. LockTells'
    <3>1. meta' >= 0
      BY <1>0, <2>12, TrailBoundsAssumption
    <3> QED BY <1>0, <2>3, <3>1 DEF TrailInv, LockTells
  <2>15. RowsAreChained' /\ IdsTell' /\ DamageStays' /\ PinsTell'
    <3>1. legacy \in Nat /\ meta' # -1
      BY <1>0, <2>12, TrailBoundsAssumption
    <3>2. \A i \in 1 .. n : rows'[i] = row(i) /\ i - 1 \in 0 .. n /\ i \in 0 .. n
      BY <2>4, <2>6
    <3>3. \A i \in 1 .. n : /\ rows'[i].rec \in Recs /\ rows'[i].id = i
                            /\ rows'[i].prev = SubSeq(R, 1, i - 1) /\ rows'[i].hash = SubSeq(R, 1, i)
      <4> SUFFICES ASSUME NEW i \in 1 .. n
                   PROVE  /\ rows'[i].rec \in Recs /\ rows'[i].id = i
                          /\ rows'[i].prev = SubSeq(R, 1, i - 1) /\ rows'[i].hash = SubSeq(R, 1, i)
        OBVIOUS
      <4>1. /\ rows'[i].id = i /\ rows'[i].rec = rows[i].rec
            /\ rows'[i].prev = H[i - 1] /\ rows'[i].hash = H[i]
        BY <2>7, <3>2
      <4>2. rows[i].rec \in Recs
        BY <2>2
      <4>3. H[i - 1] = SubSeq(R, 1, i - 1) /\ H[i] = SubSeq(R, 1, i)
        BY <2>5, <3>2
      <4> QED BY <4>1, <4>2, <4>3
    <3>4. RowsAreChained'
      BY <2>10, <2>11, <3>1, <3>3 DEF RowsAreChained, LinkedRow
    <3>5. IdsTell'
      BY <1>0, <2>2, <2>4, <2>10, <2>12, <3>3 DEF IdsTell
    <3>6. DamageStays' /\ PinsTell'
      BY <1>0, <2>2 DEF TrailInv, PinsTell, DamageStays, Untouched
    <3> QED BY <3>4, <3>5, <3>6
  <2>16. CopiesTell' /\ EachOnce'
    <3>1. sink' = <<>> /\ 1 .. Len(sink') = {}
      BY <1>0, <2>2
    <3> QED BY <1>0, <2>3, <3>1 DEF CopiesTell, EachOnce
  <2>17. MemoryTells'
    BY <1>0, MemoryAside
  <2> QED
    BY <1>0, <2>13, <2>14, <2>15, <2>16, <2>17, CopyAside DEF TrailInv
<1> QED BY <1>1, <1>2

-----------------------------------------------------------------------------
(* The table: what a commit appends, and what damage does to it.           *)

(* Tables that agree as far as n have the same prefixes that far.          *)
LEMMA SameRecords ==
  ASSUME NEW t \in Seq(TrailRow), NEW u \in Seq(TrailRow), NEW n \in Nat, n <= Len(t), n <= Len(u),
         \A j \in 1 .. n : t[j].rec = u[j].rec
  PROVE  \A i \in 0 .. n : SubSeq(Records(t), 1, i) = SubSeq(Records(u), 1, i)
<1> DEFINE R == Records(t)
           Q == Records(u)
<1>1. /\ R \in Seq(AnyRec) /\ Len(R) = Len(t) /\ Len(t) \in Nat
      /\ \A i \in 1 .. Len(t) : R[i] = t[i].rec
  BY RecordsAreInOrder
<1>2. /\ Q \in Seq(AnyRec) /\ Len(Q) = Len(u) /\ Len(u) \in Nat
      /\ \A i \in 1 .. Len(u) : Q[i] = u[i].rec
  BY RecordsAreInOrder
<1> HIDE DEF R, Q
<1>3. ASSUME NEW i \in 0 .. n PROVE SubSeq(R, 1, i) = SubSeq(Q, 1, i)
  <2>1. i \in Nat /\ i <= Len(R) /\ i <= Len(Q) /\ \A j \in 1 .. i : R[j] = Q[j]
    BY <1>1, <1>2
  <2> QED BY <1>1, <1>2, <2>1, SamePrefix
<1> QED BY <1>3 DEF R, Q

(* A row that has the links of its prefix is sound at its place.           *)
LEMMA LinkedIsSound ==
  ASSUME TrailInv, \A i \in 1 .. Len(rows) : LinkedRow(i)
  PROVE  \A i \in 1 .. Len(rows) : SoundAt(rows, i)
<1> DEFINE R == Records(rows)
<1>1. /\ R \in Seq(AnyRec) /\ Len(R) = Len(rows) /\ Len(rows) \in Nat
      /\ \A i \in 1 .. Len(rows) : R[i] = rows[i].rec
  BY RecordsAreInOrder DEF TrailInv, TrailTypes
<1>2. \A i \in 1 .. Len(rows) : /\ rows[i].rec \in Recs /\ rows[i].hash = SubSeq(R, 1, i)
                                /\ rows[i].prev = SubSeq(R, 1, i - 1)
  BY DEF LinkedRow
<1> HIDE DEF R
<1>3. /\ SubSeq(R, 1, 0) = <<>>
      /\ \A i \in 1 .. Len(rows) : SubSeq(R, 1, i) = Append(SubSeq(R, 1, i - 1), R[i])
  BY <1>1, PrefixFacts
<1>4. ASSUME NEW i \in 1 .. Len(rows) PROVE SoundAt(rows, i)
  <2>1. rows[i].rec.ts # Unreadable
    BY <1>2, RecsAssumption
  <2>2. rows[i].hash = ChainHash(rows[i].prev, rows[i].rec)
    BY <1>1, <1>2, <1>3 DEF ChainHash
  <2>3. rows[i].prev = IF i = 1 THEN Genesis ELSE rows[i - 1].hash
    <3>1. CASE i = 1
      BY <1>2, <1>3, <3>1 DEF Genesis
    <3>2. CASE i # 1
      <4>1. i - 1 \in 1 .. Len(rows)
        BY <1>1, <3>2
      <4> QED BY <1>2, <3>2, <4>1
    <3> QED BY <3>1, <3>2
  <2> QED BY <2>1, <2>2, <2>3 DEF SoundAt, LinkBroken
<1> QED BY <1>4

(* The head of a linked table stands for all of it.                        *)
LEMMA LinkedHead ==
  ASSUME TrailInv, \A i \in 1 .. Len(rows) : LinkedRow(i)
  PROVE  ChainHead(rows) = Records(rows)
<1>1. Records(rows) \in Seq(AnyRec) /\ Len(Records(rows)) = Len(rows) /\ Len(rows) \in Nat
      /\ rows \in Seq(TrailRow)
  BY RecordsAreInOrder DEF TrailInv, TrailTypes
<1>2. CASE rows = <<>>
  BY <1>1, <1>2, EmptySeq DEF ChainHead, Genesis
<1>3. CASE rows # <<>>
  <2>1. Len(rows) \in 1 .. Len(rows)
    BY <1>1, <1>3, EmptySeq
  <2>2. rows[Len(rows)].hash = SubSeq(Records(rows), 1, Len(rows))
    BY <2>1 DEF LinkedRow
  <2>3. SubSeq(Records(rows), 1, Len(rows)) = Records(rows)
    BY <1>1, PrefixFacts
  <2> QED BY <1>3, <2>2, <2>3 DEF ChainHead
<1> QED BY <1>2, <1>3

LEMMA RecordsOfAppend ==
  ASSUME NEW t \in Seq(TrailRow), NEW r \in TrailRow
  PROVE  Records(Append(t, r)) = Append(Records(t), r.rec)
<1> DEFINE u == Append(t, r)
           R == Records(t)
           Q == Records(u)
<1>1. /\ R \in Seq(AnyRec) /\ Len(R) = Len(t) /\ Len(t) \in Nat
      /\ \A i \in 1 .. Len(t) : R[i] = t[i].rec
  BY RecordsAreInOrder
<1>2. /\ u \in Seq(TrailRow) /\ Len(u) = Len(t) + 1 /\ u[Len(t) + 1] = r
      /\ \A i \in 1 .. Len(t) : u[i] = t[i]
  BY AppendProperties
<1> HIDE DEF u
<1>3. /\ Q \in Seq(AnyRec) /\ Len(Q) = Len(u) /\ \A i \in 1 .. Len(u) : Q[i] = u[i].rec
  BY <1>2, RecordsAreInOrder
<1>4. r.rec \in AnyRec
  BY DEF TrailRow
<1> HIDE DEF R, Q
<1>5. /\ Append(R, r.rec) \in Seq(AnyRec) /\ Len(Append(R, r.rec)) = Len(R) + 1
      /\ Append(R, r.rec)[Len(R) + 1] = r.rec /\ \A i \in 1 .. Len(R) : Append(R, r.rec)[i] = R[i]
  BY <1>1, <1>4, AppendProperties
<1>6. \A i \in 1 .. Len(Q) : Q[i] = Append(R, r.rec)[i]
  <2> SUFFICES ASSUME NEW i \in 1 .. Len(Q) PROVE Q[i] = Append(R, r.rec)[i]
    OBVIOUS
  <2>1. i \in 1 .. Len(t) \/ i = Len(t) + 1
    BY <1>1, <1>2, <1>3
  <2> QED BY <1>1, <1>2, <1>3, <1>5, <2>1
<1>7. Q = Append(R, r.rec)
  BY <1>1, <1>2, <1>3, <1>5, <1>6, SeqEqual
<1> QED BY <1>7 DEF Q, R, u

LEMMA CommitInv ==
  ASSUME TrailInv, NEW c \in Callers, Commit(c)
  PROVE  TrailInv'
<1> DEFINE r == [id |-> NextId, rec |-> call[c].rec, prev |-> call[c].prev,
                 hash |-> ChainHash(call[c].prev, call[c].rec), chained |-> TRUE]
           x == [call[c] EXCEPT !.pc = "stored"]
           R == Records(rows)
<1>0. /\ UNCHANGED <<meta, legacy, host, sink, tail, mem, beat, fault, pins, focus>>
      /\ call[c].pc = "tx" /\ lock = c /\ lock' = NoCaller /\ rows' = Append(rows, r)
      /\ call[c].prev = ChainHead(rows) /\ Len(rows) < MaxRows[focus] /\ meta >= 0
      /\ host[HostOf[c]] = "up" /\ call[c].rec \in Recs /\ call[c] \in CallState
      /\ call \in [Callers -> CallState] /\ rows \in Seq(TrailRow) /\ legacy \in Nat
      /\ MaxRows[focus] \in Nat
  BY SMTT(30), CallFacts, TrailBoundsAssumption DEF Commit, sinkVars, TrailInv, TrailTypes, LockTells
<1>1. /\ x \in CallState /\ x.pc = "stored" /\ x.prev = call[c].prev /\ x.rec = call[c].rec
      /\ call' = [call EXCEPT ![c] = x]
  BY <1>0 DEF CallState, Commit
<1> HIDE DEF x
<1>2. call' \in [Callers -> CallState] /\ call'[c] = x /\ \A d \in Callers : d # c => call'[d] = call[d]
  BY <1>0, <1>1
<1>3. /\ Len(rows) \in Nat /\ \A i \in 1 .. Len(rows) : rows[i] \in TrailRow
      /\ R \in Seq(AnyRec) /\ Len(R) = Len(rows)
  BY <1>0, RecordsAreInOrder
<1>n. PICK n \in Nat : n = Len(rows) + 1
  BY <1>3
<1>4. NextId \in {n, n + 1} /\ (Untouched => NextId = n)
  <2>1. CASE rows = <<>>
    BY <1>n, <2>1, EmptySeq DEF NextId
  <2>2. CASE rows # <<>>
    <3>1. Len(rows) \in 1 .. Len(rows)
      BY <1>0, <1>3, <2>2, EmptySeq
    <3>2. rows[Len(rows)].id \in {Len(rows), Len(rows) + 1} /\ (Untouched => rows[Len(rows)].id = Len(rows))
      BY <3>1 DEF TrailInv, IdsTell
    <3> QED BY <1>3, <1>n, <2>2, <3>2 DEF NextId
  <2> QED BY <2>1, <2>2
<1>5. /\ call[c].prev \in Seq(AnyRec) /\ call[c].rec \in AnyRec
      /\ ChainHash(call[c].prev, call[c].rec) \in Digest
      /\ Len(ChainHash(call[c].prev, call[c].rec)) = Len(call[c].prev) + 1
  <2>1. call[c].prev \in Seq(AnyRec) /\ call[c].rec \in AnyRec
    BY <1>0 DEF CallState, Digest, AnyRec
  <2> QED BY <2>1, AppendProperties DEF ChainHash, Digest
<1>6. /\ r \in TrailRow /\ r.id = NextId /\ r.rec = call[c].rec /\ r.prev = call[c].prev
      /\ r.hash = ChainHash(call[c].prev, call[c].rec)
  <2>1. NextId \in Nat /\ call[c].prev \in Digest
    BY <1>4, <1>5 DEF Digest
  <2> QED BY <1>5, <2>1 DEF TrailRow
<1> HIDE DEF r
<1>7. /\ rows' \in Seq(TrailRow) /\ Len(rows') = n /\ rows'[n] = r
      /\ \A i \in 1 .. Len(rows) : rows'[i] = rows[i]
      /\ \A i \in 1 .. n : i = n \/ i \in 1 .. Len(rows)
      /\ \A i \in 1 .. Len(rows) : i \in 1 .. n
      /\ n \in 1 .. n
  <2>1. /\ rows' \in Seq(TrailRow) /\ Len(rows') = Len(rows) + 1 /\ rows'[Len(rows) + 1] = r
        /\ \A i \in 1 .. Len(rows) : rows'[i] = rows[i]
    BY <1>0, <1>6, AppendProperties
  <2> QED BY <1>3, <1>n, <2>1
<1>8. \A i \in 0 .. Len(rows) : SubSeq(Records(rows)', 1, i) = SubSeq(R, 1, i)
  <2>1. Len(rows) <= Len(rows') /\ Len(rows) <= Len(rows)
    BY <1>3, <1>7, <1>n
  <2>2. \A j \in 1 .. Len(rows) : rows'[j].rec = rows[j].rec
    BY <1>7
  <2> QED BY <1>0, <1>3, <1>7, <2>1, <2>2, SameRecords
<1>9. TrailTypes'
  <2>1. Len(rows') <= MaxRows[focus]
    BY <1>0, <1>3, <1>7, <1>n
  <2> QED BY <1>0, <1>2, <1>7, <2>1 DEF TrailInv, TrailTypes
<1>10. LockTells'
  <2>1. \A d \in Callers : call'[d].pc # "tx"
    BY <1>0, <1>1, <1>2 DEF TrailInv, LockTells
  <2>2. \A d \in Callers : call'[d].pc # "idle" => host[HostOf[d]] = "up" /\ call'[d].rec \in Recs
    BY <1>0, <1>1, <1>2 DEF TrailInv, LockTells
  <2>3. \A d \in Callers : lock' # d
    BY <1>0, CallersAssumption
  <2> QED BY <1>0, <2>1, <2>2, <2>3 DEF TrailInv, LockTells
<1>11. ASSUME fault.kind # "plain"
       PROVE  call[c].prev = R /\ Len(call[c].prev) = Len(rows) /\ \A i \in 1 .. Len(rows) : LinkedRow(i)
  <2>1. \A i \in 1 .. Len(rows) : LinkedRow(i)
    BY <1>0, <1>11 DEF TrailInv, RowsAreChained
  <2>2. ChainHead(rows) = R
    BY <2>1, LinkedHead
  <2> QED BY <1>0, <1>3, <2>1, <2>2
<1>12. RowsAreChained'
  <2>1. ASSUME fault.kind # "plain", NEW i \in 1 .. n PROVE LinkedRow(i)'
    <3>0. Records(rows') = Append(R, call[c].rec)
      BY <1>0, <1>6, RecordsOfAppend
    <3>1. CASE i \in 1 .. Len(rows)
      <4>1. LinkedRow(i) /\ i - 1 \in 0 .. Len(rows) /\ i \in 0 .. Len(rows)
        BY <1>3, <1>11, <2>1, <3>1
      <4>2. rows'[i] = rows[i]
        BY <1>7, <3>1
      <4> QED BY <1>8, <4>1, <4>2 DEF LinkedRow
    <3>2. CASE i = n
      <4>1. n - 1 \in 0 .. Len(rows) /\ n - 1 = Len(rows) /\ SubSeq(R, 1, Len(rows)) = R
        BY <1>3, <1>n, PrefixFacts
      <4>2. SubSeq(Records(rows'), 1, n - 1) = R
        BY <1>8, <4>1
      <4>3. SubSeq(Records(rows'), 1, n) = Records(rows')
        <5>1. Records(rows') \in Seq(AnyRec) /\ Len(Records(rows')) = n
          BY <1>7, RecordsAreInOrder
        <5> QED BY <5>1, PrefixFacts
      <4>4. rows'[i].prev = R /\ rows'[i].hash = Append(R, call[c].rec) /\ rows'[i].rec \in Recs
        BY <1>0, <1>6, <1>7, <1>11, <2>1, <3>2 DEF ChainHash
      <4> QED BY <3>0, <3>2, <4>2, <4>3, <4>4 DEF LinkedRow
    <3> QED BY <1>7, <3>1, <3>2
  <2>2. meta' # -1
    BY <1>0
  <2> QED BY <1>0, <1>7, <2>1, <2>2 DEF RowsAreChained
<1>13. IdsTell'
  <2>1. \A i \in 1 .. n : rows'[i].id \in {i, i + 1}
    BY <1>4, <1>6, <1>7 DEF TrailInv, IdsTell
  <2>2. Untouched => \A i \in 1 .. n : rows'[i].id = i
    BY <1>4, <1>6, <1>7 DEF TrailInv, IdsTell
  <2>3. Untouched => meta = legacy /\ legacy <= Len(rows')
    <3>1. Untouched => meta = legacy /\ legacy <= Len(rows)
      BY <1>0 DEF TrailInv, IdsTell
    <3> QED BY <1>0, <1>3, <1>7, <1>n, <3>1
  <2>4. Untouched' <=> Untouched
    BY <1>0 DEF Untouched
  <2> QED BY <1>0, <1>7, <2>1, <2>2, <2>3, <2>4 DEF IdsTell
<1>14. DamageStays' /\ PinsTell'
  <2>1. PinsTell'
    BY <1>0 DEF TrailInv, PinsTell
  <2>2. ASSUME fault.kind = "plain"
        PROVE  /\ fault.at \in 1 .. Len(rows')
               /\ \A i \in 1 .. (fault.at - 1) : rows'[i].rec.ts # Unreadable /\ ~LinkBroken(rows', i)
               /\ rows'[fault.at].rec.ts = Unreadable \/ LinkBroken(rows', fault.at)
    <3>1. /\ fault.at \in 1 .. Len(rows)
          /\ \A i \in 1 .. (fault.at - 1) : rows[i].rec.ts # Unreadable /\ ~LinkBroken(rows, i)
          /\ rows[fault.at].rec.ts = Unreadable \/ LinkBroken(rows, fault.at)
      BY <2>2 DEF TrailInv, DamageStays
    <3>2. ASSUME NEW i \in 1 .. Len(rows) PROVE LinkBroken(rows', i) <=> LinkBroken(rows, i)
      <4>1. i # 1 => i - 1 \in 1 .. Len(rows)
        BY <1>3
      <4> QED BY <1>7, <4>1 DEF LinkBroken
    <3>3. \A i \in 1 .. (fault.at - 1) : i \in 1 .. Len(rows)
      BY <1>3, <3>1
    <3> QED BY <1>7, <3>1, <3>2, <3>3
  <2> QED BY <1>0, <2>1, <2>2 DEF DamageStays
<1>15. CopiesTell' /\ EachOnce'
  <2>1. Untouched' <=> Untouched
    BY <1>0 DEF Untouched
  <2>2. /\ \A d \in Callers : d # c => PlaceOf(d)' = PlaceOf(d)
        /\ \A k : Place(k)' = Place(k)
    BY <1>0, <1>2 DEF PlaceOf, Place
  <2>3. Untouched => PlaceOf(c)' = n /\ n \in (legacy + 1) .. n
    <3>1. ASSUME Untouched PROVE PlaceOf(c)' = n
      <4>1. Len(call'[c].prev) = Len(rows)
        BY <1>1, <1>2, <1>11, <3>1 DEF Untouched
      <4> QED BY <1>n, <4>1 DEF PlaceOf
    <3>2. Untouched => legacy <= Len(rows)
      BY <1>0 DEF TrailInv, IdsTell
    <3> QED BY <1>0, <1>3, <1>n, <3>1, <3>2
  <2>4. \A p \in (legacy + 1) .. Len(rows) : p \in (legacy + 1) .. n /\ p \in 1 .. Len(rows) /\ p # n
    BY <1>0, <1>3, <1>n
  <2>5. CopiesTell'
    <3> SUFFICES ASSUME Untouched
                 PROVE /\ \A d \in Callers : call'[d].pc \in {"stored", "stump", "emitted"} =>
                           /\ PlaceOf(d)' \in (legacy + 1) .. n
                           /\ rows'[PlaceOf(d)'].rec = call'[d].rec /\ rows'[PlaceOf(d)'].prev = call'[d].prev
                       /\ \A k \in 1 .. Len(sink) :
                           /\ Place(k)' \in (legacy + 1) .. n
                           /\ rows'[Place(k)'].rec = sink[k].rec /\ rows'[Place(k)'].prev = sink[k].prev
                           /\ rows'[Place(k)'].hash = sink[k].hash
      BY <1>0, <1>7, <2>1 DEF CopiesTell
    <3>1. ASSUME NEW d \in Callers, call'[d].pc \in {"stored", "stump", "emitted"}
          PROVE  /\ PlaceOf(d)' \in (legacy + 1) .. n
                 /\ rows'[PlaceOf(d)'].rec = call'[d].rec /\ rows'[PlaceOf(d)'].prev = call'[d].prev
      <4>1. CASE d = c
        BY <1>1, <1>2, <1>6, <1>7, <2>3, <4>1
      <4>2. CASE d # c
        <5>1. /\ PlaceOf(d) \in (legacy + 1) .. Len(rows)
              /\ rows[PlaceOf(d)].rec = call[d].rec /\ rows[PlaceOf(d)].prev = call[d].prev
          BY <1>2, <3>1, <4>2 DEF TrailInv, CopiesTell
        <5> QED BY <1>2, <1>7, <2>2, <2>4, <4>2, <5>1
      <4> QED BY <4>1, <4>2
    <3>2. ASSUME NEW k \in 1 .. Len(sink)
          PROVE  /\ Place(k)' \in (legacy + 1) .. n
                 /\ rows'[Place(k)'].rec = sink[k].rec /\ rows'[Place(k)'].prev = sink[k].prev
                 /\ rows'[Place(k)'].hash = sink[k].hash
      <4>1. /\ Place(k) \in (legacy + 1) .. Len(rows)
            /\ rows[Place(k)].rec = sink[k].rec /\ rows[Place(k)].prev = sink[k].prev
            /\ rows[Place(k)].hash = sink[k].hash
        BY DEF TrailInv, CopiesTell
      <4> QED BY <1>7, <2>2, <2>4, <4>1
    <3> QED BY <3>1, <3>2
  <2>6. EachOnce'
    <3> SUFFICES ASSUME Untouched
                 PROVE /\ \A j, k \in 1 .. Len(sink) : j # k => Place(j)' # Place(k)'
                       /\ \A d \in Callers, k \in 1 .. Len(sink) :
                             call'[d].pc = "stored" => PlaceOf(d)' # Place(k)'
                       /\ \A d, e \in Callers : d # e /\ call'[d].pc = "stored" /\ call'[e].pc = "stored"
                             => PlaceOf(d)' # PlaceOf(e)'
      BY <1>0, <2>1 DEF EachOnce
    <3>1. /\ \A j, k \in 1 .. Len(sink) : j # k => Place(j) # Place(k)
          /\ \A d \in Callers, k \in 1 .. Len(sink) : call[d].pc = "stored" => PlaceOf(d) # Place(k)
          /\ \A d, e \in Callers : d # e /\ call[d].pc = "stored" /\ call[e].pc = "stored"
                             => PlaceOf(d) # PlaceOf(e)
      BY DEF TrailInv, EachOnce
    <3>2. /\ \A k \in 1 .. Len(sink) : Place(k) # n
          /\ \A d \in Callers : call[d].pc = "stored" => PlaceOf(d) # n
      BY <2>4 DEF TrailInv, CopiesTell
    <3>3. PlaceOf(c)' = n
      BY <2>3
    <3>4. \A d \in Callers, k \in 1 .. Len(sink) : call'[d].pc = "stored" => PlaceOf(d)' # Place(k)'
      BY <1>2, <2>2, <3>1, <3>2, <3>3
    <3>5. \A d, e \in Callers : d # e /\ call'[d].pc = "stored" /\ call'[e].pc = "stored"
                             => PlaceOf(d)' # PlaceOf(e)'
      BY <1>2, <2>2, <3>1, <3>2, <3>3
    <3> QED BY <2>2, <3>1, <3>4, <3>5
  <2> QED BY <2>5, <2>6
<1>16. MemoryTells'
  <2>1. \A d \in Callers : /\ call'[d].pc = "emitted" <=> call[d].pc = "emitted"
                           /\ call'[d].prev = call[d].prev /\ call'[d].rec = call[d].rec
    BY <1>0, <1>1, <1>2
  <2> QED BY <1>0, <2>1, MemoryAside
<1> QED
  BY <1>0, <1>9, <1>10, <1>12, <1>13, <1>14, <1>15, <1>16, CopyAside DEF TrailInv

(* A table without its row i.                                              *)
LEMMA RowsCut ==
  ASSUME NEW t \in Seq(TrailRow), NEW i \in 1 .. Len(t)
  PROVE  /\ RemoveAt(t, i) \in Seq(TrailRow) /\ Len(RemoveAt(t, i)) = Len(t) - 1
         /\ \A j \in 1 .. (i - 1) : RemoveAt(t, i)[j] = t[j]
         /\ \A j \in i .. (Len(t) - 1) : RemoveAt(t, i)[j] = t[j + 1]
<1> DEFINE a == SubSeq(t, 1, i - 1)
           b == SubSeq(t, i + 1, Len(t))
<1>0. Len(t) \in Nat /\ i \in Nat /\ 1 <= i /\ i <= Len(t) /\ \A j \in 1 .. Len(t) : t[j] \in TrailRow
  BY RecordsAreInOrder
<1>1. /\ a \in Seq(TrailRow) /\ Len(a) = i - 1 /\ \A j \in 1 .. (i - 1) : a[j] = t[j]
  <2>1. i - 1 \in Int /\ 1 \in Int /\ \A j \in 1 .. (i - 1) : t[j] \in TrailRow
    BY <1>0
  <2>2. /\ a \in Seq(TrailRow) /\ Len(a) = IF 1 <= i - 1 THEN i - 1 - 1 + 1 ELSE 0
        /\ \A j \in 1 .. (i - 1) - 1 + 1 : a[j] = t[1 + j - 1]
    BY <2>1, SubSeqProperties
  <2> HIDE DEF a
  <2>3. Len(a) = i - 1
    BY <1>0, <2>2
  <2>4. \A j \in 1 .. (i - 1) : j \in 1 .. (i - 1) - 1 + 1 /\ 1 + j - 1 = j
    BY <1>0
  <2> QED BY <2>2, <2>3, <2>4
<1>2. /\ b \in Seq(TrailRow) /\ Len(b) = Len(t) - i /\ \A j \in 1 .. (Len(t) - i) : b[j] = t[i + j]
  <2>1. i + 1 \in Int /\ Len(t) \in Int /\ \A j \in (i + 1) .. Len(t) : t[j] \in TrailRow
    BY <1>0
  <2>2. /\ b \in Seq(TrailRow) /\ Len(b) = IF i + 1 <= Len(t) THEN Len(t) - (i + 1) + 1 ELSE 0
        /\ \A j \in 1 .. Len(t) - (i + 1) + 1 : b[j] = t[(i + 1) + j - 1]
    BY <2>1, SubSeqProperties
  <2> HIDE DEF b
  <2>3. Len(b) = Len(t) - i
    BY <1>0, <2>2
  <2>4. \A j \in 1 .. (Len(t) - i) : j \in 1 .. Len(t) - (i + 1) + 1 /\ (i + 1) + j - 1 = i + j
    BY <1>0
  <2> QED BY <2>2, <2>3, <2>4
<1>3. RemoveAt(t, i) = a \o b
  BY DEF RemoveAt
<1> HIDE DEF a, b
<1>4. /\ a \o b \in Seq(TrailRow) /\ Len(a \o b) = Len(a) + Len(b)
      /\ \A j \in 1 .. Len(a) + Len(b) : (a \o b)[j] = IF j <= Len(a) THEN a[j] ELSE b[j - Len(a)]
  BY <1>1, <1>2, ConcatProperties
<1>5. Len(a \o b) = Len(t) - 1
  BY <1>0, <1>1, <1>2, <1>4
<1>6. \A j \in 1 .. (i - 1) : (a \o b)[j] = t[j]
  BY <1>0, <1>1, <1>2, <1>4
<1>7. ASSUME NEW j \in i .. (Len(t) - 1) PROVE (a \o b)[j] = t[j + 1]
  <2>1. j \in 1 .. Len(a) + Len(b) /\ ~(j <= Len(a)) /\ j - Len(a) = j - i + 1
    BY <1>0, <1>1, <1>2
  <2>2. j - i + 1 \in 1 .. (Len(t) - i) /\ i + (j - i + 1) = j + 1
    BY <1>0
  <2> QED BY <1>2, <1>4, <2>1, <2>2
<1> QED BY <1>3, <1>4, <1>5, <1>6, <1>7

(* Recomputing every hash gives each row the links of its prefix.          *)
LEMMA RechainedRows ==
  ASSUME NEW t \in Seq(TrailRow)
  PROVE  /\ Rechained(t) \in Seq(TrailRow) /\ Len(Rechained(t)) = Len(t)
         /\ Records(Rechained(t)) = Records(t)
         /\ \A i \in 1 .. Len(t) : /\ Rechained(t)[i].id = t[i].id /\ Rechained(t)[i].rec = t[i].rec
                                   /\ Rechained(t)[i].prev = SubSeq(Records(t), 1, i - 1)
                                   /\ Rechained(t)[i].hash = SubSeq(Records(t), 1, i)
<1> DEFINE R == Records(t)
           u == Rechained(t)
           row(i) == [t[i] EXCEPT !.prev = SubSeq(R, 1, i - 1), !.hash = SubSeq(R, 1, i)]
<1>1. /\ Len(t) \in Nat /\ DOMAIN t = 1 .. Len(t) /\ \A i \in 1 .. Len(t) : t[i] \in TrailRow
      /\ R \in Seq(AnyRec) /\ Len(R) = Len(t) /\ \A i \in 1 .. Len(t) : R[i] = t[i].rec
  BY RecordsAreInOrder
<1>2. u = [i \in 1 .. Len(t) |-> row(i)]
  BY <1>1 DEF Rechained
<1> HIDE DEF R
<1>3. \A i \in 0 .. Len(t) : SubSeq(R, 1, i) \in Digest
  BY <1>1, PrefixFacts DEF Digest
<1>4. \A i \in 1 .. Len(t) : /\ row(i) \in TrailRow /\ row(i).id = t[i].id /\ row(i).rec = t[i].rec
                             /\ row(i).prev = SubSeq(R, 1, i - 1) /\ row(i).hash = SubSeq(R, 1, i)
  <2>1. \A i \in 1 .. Len(t) : SubSeq(R, 1, i - 1) \in Digest /\ SubSeq(R, 1, i) \in Digest
    <3>1. \A i \in 1 .. Len(t) : i - 1 \in 0 .. Len(t) /\ i \in 0 .. Len(t)
      BY <1>1
    <3> QED BY <1>3, <3>1
  <2> QED BY <1>1, <2>1 DEF TrailRow
<1> HIDE DEF row, u
<1>5. u \in [1 .. Len(t) -> TrailRow]
  BY <1>2, <1>4
<1>6. u \in Seq(TrailRow)
  BY <1>1, <1>5, SeqDef
<1>7. Len(u) = Len(t) /\ DOMAIN u = 1 .. Len(t)
  BY <1>1, <1>5, <1>6, LenProperties
<1>8. Records(u) = R
  BY <1>1, <1>2, <1>4, <1>7 DEF Records, R
<1> QED BY <1>2, <1>4, <1>6, <1>7, <1>8 DEF u, R

(* What must be true of a damaged table for the invariant to go on.        *)
LEMMA DamagedInv ==
  ASSUME TrailInv, fault.kind = "none", meta >= 0, lock = NoCaller,
         UNCHANGED <<meta, legacy, host, lock, call, sink, tail, mem, beat, pins, focus>>,
         rows' \in Seq(TrailRow), Len(rows') <= Len(rows),
         \A i \in 1 .. Len(rows') : rows'[i].id \in {i, i + 1},
         fault' \in [kind : {"plain", "rechained", "cut"}, at : Nat],
         fault'.kind # "plain" => \A i \in 1 .. Len(rows') : LinkedRow(i)',
         DamageStays'
  PROVE  TrailInv'
<1>0. fault'.kind # "none" /\ fault' \in [kind : {"none", "plain", "rechained", "cut"}, at : Nat] /\ ~Untouched'
  BY DEF Untouched
<1>1. Len(rows') <= MaxRows[focus]
  <2>1. /\ Len(rows) \in Nat /\ Len(rows) <= MaxRows[focus] /\ MaxRows[focus] \in Nat
    BY RecordsAreInOrder, TrailBoundsAssumption DEF TrailInv, TrailTypes
  <2>2. Len(rows') \in Nat
    BY LenProperties
  <2> QED BY <2>1, <2>2
<1>2. TrailTypes'
  BY <1>0, <1>1 DEF TrailInv, TrailTypes
<1>3. LockTells'
  BY CallersAssumption DEF TrailInv, LockTells
<1>4. RowsAreChained' /\ IdsTell' /\ PinsTell' /\ CopiesTell' /\ EachOnce'
  BY <1>0 DEF TrailInv, RowsAreChained, IdsTell, PinsTell, CopiesTell, EachOnce
<1>5. MemoryTells'
  BY MemoryAside
<1> QED BY <1>2, <1>3, <1>4, <1>5, CopyAside DEF TrailInv

LEMMA DamageInv ==
  ASSUME TrailInv, Damage
  PROVE  TrailInv'
<1> DEFINE n == Len(rows)
           R == Records(rows)
<1>0. /\ fault.kind = "none" /\ meta >= 0 /\ lock = NoCaller /\ rows \in Seq(TrailRow)
      /\ UNCHANGED <<meta, legacy, host, lock, call, sink, tail, mem, beat, pins, focus>>
  BY DEF Damage, sinkVars, TrailInv, TrailTypes
<1>1. /\ n \in Nat /\ DOMAIN rows = 1 .. n /\ \A i \in 1 .. n : rows[i] \in TrailRow
      /\ R \in Seq(AnyRec) /\ Len(R) = n /\ \A i \in 1 .. n : R[i] = rows[i].rec
  BY <1>0, RecordsAreInOrder
<1>2. \A i \in 1 .. n : LinkedRow(i) /\ rows[i].id = i
  BY <1>0 DEF TrailInv, RowsAreChained, IdsTell, Untouched
<1>3. \A i \in 1 .. n : /\ rows[i].rec \in Recs /\ rows[i].prev = SubSeq(R, 1, i - 1)
                        /\ rows[i].hash = SubSeq(R, 1, i)
  BY <1>2 DEF LinkedRow
<1>4. \A i \in 1 .. n : SoundAt(rows, i)
  BY <1>2, LinkedIsSound
<1>5. PICK i \in 1 .. n :
       \/ \E r \in Recs \cup {[rows[i].rec EXCEPT !.ts = Unreadable]} :
             /\ r # rows[i].rec
             /\ LET edited == [rows EXCEPT ![i].rec = r] IN
                \/ rows' = edited /\ fault' = [kind |-> "plain", at |-> i]
                \/ /\ r.ts # Unreadable
                   /\ rows' = Rechained(edited) /\ fault' = [kind |-> "rechained", at |-> i]
       \/ LET cut == RemoveAt(rows, i) IN
          \/ rows' = cut /\ fault' = [kind |-> IF i = Len(rows) THEN "cut" ELSE "plain", at |-> i]
          \/ rows' = Rechained(cut) /\ fault' = [kind |-> "rechained", at |-> i]
  BY <1>1 DEF Damage
<1>6. i \in Nat /\ 1 <= i /\ i <= n /\ i \in 0 .. n /\ i - 1 \in 0 .. n
  BY <1>1
<1> HIDE DEF R
<1>7. ASSUME NEW r \in Recs \cup {[rows[i].rec EXCEPT !.ts = Unreadable]}, r # rows[i].rec,
             LET edited == [rows EXCEPT ![i].rec = r] IN
                \/ rows' = edited /\ fault' = [kind |-> "plain", at |-> i]
                \/ /\ r.ts # Unreadable
                   /\ rows' = Rechained(edited) /\ fault' = [kind |-> "rechained", at |-> i]
      PROVE  TrailInv'
  <2> DEFINE e == [rows[i] EXCEPT !.rec = r]
             t == [rows EXCEPT ![i] = e]
  <2>1. r \in AnyRec /\ (r.ts # Unreadable => r \in Recs)
    <3>1. [rows[i].rec EXCEPT !.ts = Unreadable].ts = Unreadable
      BY <1>3, RecsAssumption
    <3>2. [rows[i].rec EXCEPT !.ts = Unreadable] \in AnyRec
      BY <1>3 DEF AnyRec
    <3> QED BY <3>1, <3>2 DEF AnyRec
  <2>2. /\ e \in TrailRow /\ e.rec = r /\ e.id = rows[i].id /\ e.prev = rows[i].prev /\ e.hash = rows[i].hash
    BY <1>1, <2>1 DEF TrailRow
  <2>3. /\ rows' = t /\ fault' = [kind |-> "plain", at |-> i]
        \/ /\ r.ts # Unreadable
           /\ rows' = Rechained(t) /\ fault' = [kind |-> "rechained", at |-> i]
    BY <1>7
  <2> HIDE DEF e
  <2>4. /\ t \in Seq(TrailRow) /\ Len(t) = n /\ t[i] = e /\ \A j \in 1 .. n : j # i => t[j] = rows[j]
    BY <1>0, <1>1, <2>2, ExceptSeq
  <2> HIDE DEF t
  <2>5. \A j \in 1 .. n : t[j].id = j
    BY <1>2, <2>2, <2>4
  <2>6. CASE rows' = t /\ fault' = [kind |-> "plain", at |-> i]
    <3>1. \A j \in 1 .. (i - 1) : /\ j \in 1 .. n /\ j # i /\ rows'[j] = rows[j]
                                  /\ (j # 1 => rows'[j - 1] = rows[j - 1])
      <4>1. \A j \in 1 .. (i - 1) : j \in 1 .. n /\ j # i /\ (j # 1 => j - 1 \in 1 .. n /\ j - 1 # i)
        BY <1>1, <1>6
      <4> QED BY <2>4, <2>6, <4>1
    <3>2. \A j \in 1 .. (i - 1) : rows'[j].rec.ts # Unreadable /\ ~LinkBroken(rows', j)
      BY <1>4, <3>1 DEF SoundAt, LinkBroken
    <3>3. LinkBroken(rows', i)
      <4>1. rows[i].hash = Append(rows[i].prev, rows[i].rec)
        BY <1>4 DEF SoundAt, LinkBroken, ChainHash
      <4>2. Append(rows[i].prev, rows[i].rec) # Append(rows[i].prev, r)
        <5>1. rows[i].prev \in Seq(AnyRec) /\ rows[i].rec \in AnyRec
          BY <1>1 DEF TrailRow, Digest
        <5>2. /\ Append(rows[i].prev, rows[i].rec)[Len(rows[i].prev) + 1] = rows[i].rec
              /\ Append(rows[i].prev, r)[Len(rows[i].prev) + 1] = r
          BY <2>1, <5>1, AppendProperties
        <5> QED BY <1>7, <5>2
      <4>3. rows'[i].rec = r /\ rows'[i].prev = rows[i].prev /\ rows'[i].hash = rows[i].hash
        BY <2>2, <2>4, <2>6
      <4> QED BY <4>1, <4>2, <4>3 DEF LinkBroken, ChainHash
    <3>4. fault'.kind = "plain" /\ fault'.at = i
          /\ fault' \in [kind : {"plain", "rechained", "cut"}, at : Nat]
      BY <1>6, <2>6
    <3>5. DamageStays'
      BY <2>4, <2>6, <3>2, <3>3, <3>4 DEF DamageStays
    <3>6. Len(rows') <= n
      BY <1>1, <2>4, <2>6
    <3>7. \A j \in 1 .. Len(rows') : rows'[j].id \in {j, j + 1}
      BY <2>4, <2>5, <2>6
    <3>8. rows' \in Seq(TrailRow)
      BY <2>4, <2>6
    <3> QED BY <1>0, <3>4, <3>5, <3>6, <3>7, <3>8, DamagedInv
  <2>7. CASE /\ r.ts # Unreadable /\ rows' = Rechained(t) /\ fault' = [kind |-> "rechained", at |-> i]
    <3>1. /\ rows' \in Seq(TrailRow) /\ Len(rows') = n /\ Records(rows') = Records(t)
          /\ \A j \in 1 .. n : /\ rows'[j].id = t[j].id /\ rows'[j].rec = t[j].rec
                               /\ rows'[j].prev = SubSeq(Records(t), 1, j - 1)
                               /\ rows'[j].hash = SubSeq(Records(t), 1, j)
      BY <2>4, <2>7, RechainedRows
    <3>2. \A j \in 1 .. n : t[j].rec \in Recs
      BY <1>3, <2>1, <2>2, <2>4, <2>7
    <3>3. \A j \in 1 .. Len(rows') : LinkedRow(j)'
      BY <3>1, <3>2 DEF LinkedRow
    <3>4. fault'.kind = "rechained" /\ fault' \in [kind : {"plain", "rechained", "cut"}, at : Nat]
      BY <1>6, <2>7
    <3>5. DamageStays'
      BY <3>4 DEF DamageStays
    <3>6. Len(rows') <= n
      BY <1>1, <3>1
    <3>7. \A j \in 1 .. Len(rows') : rows'[j].id \in {j, j + 1}
      BY <2>5, <3>1
    <3> QED BY <1>0, <3>1, <3>3, <3>4, <3>5, <3>6, <3>7, DamagedInv
  <2> QED BY <2>3, <2>6, <2>7
<1>8. ASSUME LET cut == RemoveAt(rows, i) IN
          \/ rows' = cut /\ fault' = [kind |-> IF i = Len(rows) THEN "cut" ELSE "plain", at |-> i]
          \/ rows' = Rechained(cut) /\ fault' = [kind |-> "rechained", at |-> i]
      PROVE  TrailInv'
  <2> DEFINE t == RemoveAt(rows, i)
  <2>1. /\ t \in Seq(TrailRow) /\ Len(t) = n - 1
        /\ \A j \in 1 .. (i - 1) : t[j] = rows[j]
        /\ \A j \in i .. (n - 1) : t[j] = rows[j + 1]
    BY <1>0, RowsCut
  <2>2. \/ rows' = t /\ fault' = [kind |-> IF i = n THEN "cut" ELSE "plain", at |-> i]
        \/ rows' = Rechained(t) /\ fault' = [kind |-> "rechained", at |-> i]
    BY <1>8
  <2> HIDE DEF t
  <2>3. \A j \in 1 .. (n - 1) : /\ j \in 1 .. n /\ j + 1 \in 1 .. n
                                /\ j \in 1 .. (i - 1) \/ j \in i .. (n - 1)
    BY <1>1, <1>6
  <2>4. \A j \in 1 .. (n - 1) : t[j].id \in {j, j + 1} /\ t[j].rec \in Recs
    BY <1>2, <1>3, <2>1, <2>3
  <2>5. n - 1 <= n
    BY <1>1
  <2>6. CASE rows' = t /\ i = n /\ fault' = [kind |-> "cut", at |-> i]
    <3>1. fault'.kind = "cut" /\ fault' \in [kind : {"plain", "rechained", "cut"}, at : Nat]
      BY <1>6, <2>6
    <3>2. \A j \in 1 .. (n - 1) : t[j] = rows[j]
      BY <2>1, <2>6
    <3>3. \A j \in 0 .. (n - 1) : SubSeq(Records(t), 1, j) = SubSeq(Records(rows), 1, j)
      <4>1. n - 1 \in Nat /\ n - 1 <= Len(t) /\ n - 1 <= Len(rows)
        BY <1>1, <1>6, <2>1
      <4> QED BY <1>0, <2>1, <3>2, <4>1, SameRecords
    <3>4. ASSUME NEW j \in 1 .. (n - 1) PROVE LinkedRow(j)'
      <4>1. j \in 1 .. n /\ j - 1 \in 0 .. (n - 1) /\ j \in 0 .. (n - 1)
        BY <1>1
      <4>2. rows'[j] = rows[j] /\ Records(rows') = Records(t)
        BY <2>6, <3>2
      <4>3. SubSeq(Records(rows'), 1, j) = SubSeq(R, 1, j) /\ SubSeq(Records(rows'), 1, j - 1) = SubSeq(R, 1, j - 1)
        BY <3>3, <4>1, <4>2 DEF R
      <4> QED BY <1>3, <4>1, <4>2, <4>3 DEF LinkedRow
    <3>5. DamageStays'
      BY <3>1 DEF DamageStays
    <3> QED BY <1>0, <2>1, <2>4, <2>5, <2>6, <3>1, <3>4, <3>5, DamagedInv
  <2>7. CASE rows' = t /\ i # n /\ fault' = [kind |-> "plain", at |-> i]
    <3>1. fault'.kind = "plain" /\ fault'.at = i /\ fault' \in [kind : {"plain", "rechained", "cut"}, at : Nat]
      BY <1>6, <2>7
    <3>2. i \in 1 .. (n - 1) /\ i \in i .. (n - 1)
      <4>1. i # n
        BY <2>7
      <4> HIDE DEF n
      <4> QED BY <1>1, <1>6, <4>1
    <3>3. \A j \in 1 .. (i - 1) : /\ j \in 1 .. n /\ rows'[j] = rows[j]
                                  /\ (j # 1 => rows'[j - 1] = rows[j - 1])
      <4>1. \A j \in 1 .. (i - 1) : j \in 1 .. n /\ (j # 1 => j - 1 \in 1 .. (i - 1))
        BY <1>1, <1>6
      <4> QED BY <2>1, <2>7, <4>1
    <3>4. \A j \in 1 .. (i - 1) : rows'[j].rec.ts # Unreadable /\ ~LinkBroken(rows', j)
      BY <1>4, <3>3 DEF SoundAt, LinkBroken
    <3>5. LinkBroken(rows', i)
      <4>1. rows'[i].prev = SubSeq(R, 1, i)
        <5>1. rows'[i] = rows[i + 1] /\ i + 1 \in 1 .. n /\ (i + 1) - 1 = i
          BY <2>1, <2>3, <2>7, <3>2
        <5> QED BY <1>3, <5>1
      <4>2. Len(SubSeq(R, 1, i)) = i /\ Len(SubSeq(R, 1, i - 1)) = i - 1 /\ Len(<<>>) = 0
        BY <1>1, <1>6, PrefixFacts
      <4>3. CASE i = 1
        <5>1. i # 0
          BY <4>3
        <5>2. SubSeq(R, 1, i) # <<>>
          BY <4>2, <5>1
        <5> QED BY <4>1, <4>3, <5>2 DEF LinkBroken, Genesis
      <4>4. CASE i # 1
        <5>1. rows'[i - 1].hash = SubSeq(R, 1, i - 1)
          <6>1. i - 1 \in 1 .. (i - 1) /\ i - 1 \in 1 .. n
            BY <1>1, <1>6, <4>4
          <6> QED BY <1>3, <2>1, <2>7, <6>1
        <5>2. i # i - 1
          BY <1>6
        <5>3. SubSeq(R, 1, i) # SubSeq(R, 1, i - 1)
          BY <4>2, <5>2
        <5> QED BY <4>1, <4>4, <5>1, <5>3 DEF LinkBroken
      <4> QED BY <4>3, <4>4
    <3>6. DamageStays'
      BY <2>1, <2>7, <3>1, <3>2, <3>4, <3>5 DEF DamageStays
    <3> QED BY <1>0, <2>1, <2>4, <2>5, <2>7, <3>1, <3>6, DamagedInv
  <2>8. CASE rows' = Rechained(t) /\ fault' = [kind |-> "rechained", at |-> i]
    <3>1. /\ rows' \in Seq(TrailRow) /\ Len(rows') = n - 1 /\ Records(rows') = Records(t)
          /\ \A j \in 1 .. (n - 1) : /\ rows'[j].id = t[j].id /\ rows'[j].rec = t[j].rec
                                     /\ rows'[j].prev = SubSeq(Records(t), 1, j - 1)
                                     /\ rows'[j].hash = SubSeq(Records(t), 1, j)
      BY <2>1, <2>8, RechainedRows
    <3>2. \A j \in 1 .. Len(rows') : LinkedRow(j)'
      BY <2>4, <3>1 DEF LinkedRow
    <3>3. fault'.kind = "rechained" /\ fault' \in [kind : {"plain", "rechained", "cut"}, at : Nat]
      BY <1>6, <2>8
    <3>4. DamageStays'
      BY <3>3 DEF DamageStays
    <3>5. \A j \in 1 .. Len(rows') : rows'[j].id \in {j, j + 1}
      BY <2>4, <3>1
    <3> QED BY <1>0, <2>5, <3>1, <3>2, <3>3, <3>4, <3>5, DamagedInv
  <2> QED BY <2>2, <2>6, <2>7, <2>8
<1> QED BY <1>5, <1>7, <1>8

-----------------------------------------------------------------------------
(* The invariant, and what the runs check of it.                           *)

LEMMA NextTrailInv == TrailInv /\ [AuditNext]_auditVars => TrailInv'
<1> SUFFICES ASSUME TrailInv, [AuditNext]_auditVars PROVE TrailInv'
  OBVIOUS
<1>1. ASSUME NEW h \in Hosts, MigrateCheck(h) \/ BackfillChain(h) \/ Heartbeat(h) \/ HostCrash(h)
      PROVE  TrailInv'
  BY <1>1, MigrateCheckInv, BackfillChainInv, HeartbeatInv, HostCrashInv
<1>2. ASSUME NEW c \in Callers, NEW r \in Recs, BeginImmediate(c, r) PROVE TrailInv'
  BY <1>2, CallStepsInv
<1>3. ASSUME NEW c \in Callers,
             \/ Commit(c) \/ Rollback(c) \/ Return(c) \/ EmitCopy(c) \/ EmitFails(c) \/ EmitStump(c)
             \/ EndStump(c) \/ NoteEmitted(c)
      PROVE  TrailInv'
  BY <1>3, CommitInv, CallStepsInv, EmitCopyInv, NoteEmittedInv
<1>4. ASSUME Pin \/ Damage \/ StartWalk \/ AuditPage PROVE TrailInv'
  BY <1>4, PinInv, DamageInv, ReadersInv
<1>5. ASSUME UNCHANGED auditVars PROVE TrailInv'
  <2>0. UNCHANGED <<rows, meta, legacy, host, lock, call, sink, tail, mem, beat, fault, pins, focus>>
    BY <1>5 DEF auditVars, chainVars, sinkVars
  <2>1. TrailTypes' /\ LockTells'
    BY <2>0 DEF TrailInv, TrailTypes, LockTells, ChainHead
  <2>2. CopiesTell' /\ EachOnce' /\ MemoryTells'
    BY <2>0, CallsAside
  <2> QED BY <2>0, <2>1, <2>2, TableAside, CopyAside DEF TrailInv
<1> QED BY <1>1, <1>2, <1>3, <1>4, <1>5 DEF AuditNext

(* Every behaviour of the trail keeps the inductive invariant: the lock and *)
(* what was read under it, the links, the place of damage, the copies and  *)
(* the counts of every process.                                            *)
THEOREM TrailInvAlways == AuditSpec => []TrailInv
<1>1. AuditInit => TrailInv
  BY InitTrailInv
<1>2. TrailInv /\ [AuditNext]_auditVars => TrailInv'
  BY NextTrailInv
<1> QED BY <1>1, <1>2, PTL DEF AuditSpec

(* An untouched trail verifies, to the last record and with the exact      *)
(* count of retroactively chained rows.                                    *)
LEMMA TrailVerifies == TrailInv => ChainVerifies
<1> SUFFICES ASSUME TrailInv, Untouched, meta >= 0
             PROVE  VerifyChain(rows) = [count |-> Len(rows), break |-> 0, head |-> Records(rows),
                                         retro |-> legacy]
  BY DEF ChainVerifies
<1>1. \A i \in 1 .. Len(rows) : LinkedRow(i) /\ rows[i].id = i
  BY DEF TrailInv, RowsAreChained, IdsTell, Untouched
<1>2. /\ rows \in Seq(TrailRow) /\ Len(rows) \in Nat /\ legacy \in Nat /\ legacy <= Len(rows) /\ meta = legacy
  BY RecordsAreInOrder, TrailBoundsAssumption DEF TrailInv, TrailTypes, IdsTell
<1>3. \A i \in 1 .. Len(rows) : SoundAt(rows, i)
  BY <1>1, LinkedIsSound
<1>4. ChainHead(rows) = Records(rows)
  BY <1>1, LinkedHead
<1>5. {i \in 1 .. Len(rows) : rows[i].id <= meta} = 1 .. legacy
  BY <1>1, <1>2
<1>6. Cardinality(1 .. legacy) = legacy
  <2>1. Cardinality(1 .. legacy) = IF 1 > legacy THEN 0 ELSE legacy - 1 + 1
    BY <1>2, FS_Interval
  <2> QED BY <1>2, <2>1
<1> QED BY <1>2, <1>3, <1>4, <1>5, <1>6, VerifyPasses

LEMMA TrailFindsDamage == TrailInv => DamageIsFound
<1> SUFFICES ASSUME TrailInv, fault.kind = "plain" PROVE VerifyChain(rows).break = fault.at
  BY DEF DamageIsFound
<1>1. /\ fault.at \in 1 .. Len(rows) /\ \A i \in 1 .. (fault.at - 1) : SoundAt(rows, i)
      /\ ~SoundAt(rows, fault.at) /\ rows \in Seq(TrailRow)
  BY DEF TrailInv, TrailTypes, DamageStays, SoundAt
<1> QED BY <1>1, VerifyStops

LEMMA TrailIsPinned == TrailInv => HeadPinsTrail
BY VerifiedHeadTellsTheTrail DEF TrailInv, TrailTypes, PinsTell, HeadPinsTrail

LEMMA TrailIsTyped == TrailInv => AuditTypeOK
<1> SUFFICES ASSUME TrailInv PROVE AuditTypeOK
  OBVIOUS
<1>1. ASSUME NEW i \in DOMAIN rows
      PROVE  rows[i].id \in 1 .. (MaxRows[focus] + 1) /\ rows[i].chained \in BOOLEAN
  <2>1. /\ i \in 1 .. Len(rows) /\ Len(rows) \in Nat /\ rows[i] \in TrailRow
        /\ Len(rows) <= MaxRows[focus] /\ MaxRows[focus] \in Nat
    BY RecordsAreInOrder, TrailBoundsAssumption DEF TrailInv, TrailTypes
  <2>2. rows[i].id \in {i, i + 1}
    BY <2>1 DEF TrailInv, IdsTell
  <2>3. rows[i].id \in 1 .. (MaxRows[focus] + 1)
    BY <2>1, <2>2
  <2> QED BY <2>1, <2>3 DEF TrailRow
<1>2. \A c \in Callers : call[c].pc \in {"idle", "tx", "stored", "stump", "emitted"}
  BY CallFacts DEF CallState
<1> QED BY <1>1, <1>2 DEF AuditTypeOK, TrailInv, TrailTypes

(* Whatever the writers' interleaving, crashes and processes that migrate  *)
(* at once: an untouched trail verifies, damage is found at its place      *)
(* however much is appended later, and a head written down pins the trail. *)
THEOREM TrailIsSound == AuditSpec => []ChainIsSound
<1>1. TrailInv => ChainIsSound
  BY TrailVerifies, TrailFindsDamage, TrailIsPinned, TrailIsTyped DEF ChainIsSound
<1> QED BY <1>1, TrailInvAlways, PTL

(* When there are as many lines as rows under the chain, every such row    *)
(* has its line.                                                           *)
LEMMA EveryRowHasItsLine ==
  ASSUME TrailInv, Untouched, meta >= 0, Len(sink) = Len(rows) - legacy
  PROVE  \A i \in (legacy + 1) .. Len(rows) : \E k \in 1 .. Len(sink) : Place(k) = i
<1> DEFINE S == 1 .. Len(sink)
           T == (legacy + 1) .. Len(rows)
           f == [k \in S |-> Place(k)]
<1>1. Len(sink) \in Nat /\ Len(rows) \in Nat /\ legacy \in Nat /\ legacy <= Len(rows)
  BY CountsOfLines, RecordsAreInOrder, TrailBoundsAssumption DEF TrailInv, TrailTypes, IdsTell
<1>2. \A k \in S : Place(k) \in T
  BY DEF TrailInv, CopiesTell
<1>3. \A j, k \in S : j # k => Place(j) # Place(k)
  BY DEF TrailInv, EachOnce
<1>4. f \in Injection(S, T)
  BY <1>2, <1>3 DEF Injection, IsInjective
<1>5. IsFiniteSet(T) /\ Cardinality(S) = Len(sink) /\ Cardinality(T) = Len(rows) - legacy
  <2>1. 1 \in Int /\ Len(sink) \in Int /\ legacy + 1 \in Int /\ Len(rows) \in Int
    BY <1>1
  <2>2. Cardinality(S) = IF 1 > Len(sink) THEN 0 ELSE Len(sink) - 1 + 1
    BY <2>1, FS_Interval
  <2>3. IsFiniteSet(T)
    BY <2>1, FS_Interval
  <2>4. Cardinality(T) = IF legacy + 1 > Len(rows) THEN 0 ELSE Len(rows) - (legacy + 1) + 1
    BY <2>1, FS_Interval
  <2> HIDE DEF S, T
  <2> QED BY <1>1, <2>2, <2>3, <2>4
<1>6. Cardinality(S) = Cardinality(T)
  BY <1>5
<1> HIDE DEF f, S, T
<1>7. f \in Surjection(S, T)
  BY <1>4, <1>5, <1>6, FS_Injection
<1>8. \A i \in T : \E k \in S : f[k] = i
  BY <1>7 DEF Surjection
<1> QED BY <1>8 DEF f, S, T

LEMMA TrailAnchors == TrailInv => AnchorIsHead
<1> DEFINE hashes == {sink[k].hash : k \in DOMAIN sink}
           prevs == {sink[k].prev : k \in DOMAIN sink}
           R == Records(rows)
           n == Len(rows)
<1> SUFFICES ASSUME TrailInv, Untouched, meta >= 0, sink # <<>>, Len(sink) = Len(rows) - legacy
             PROVE  hashes \ prevs = {VerifyChain(rows).head}
  BY DEF AnchorIsHead
<1>1. VerifyChain(rows).head = R
  BY TrailVerifies DEF ChainVerifies
<1>2. /\ n \in Nat /\ legacy \in Nat /\ DOMAIN sink = 1 .. Len(sink) /\ Len(sink) \in Nat /\ Len(sink) # 0
      /\ R \in Seq(AnyRec) /\ Len(R) = n
  <2>1. sink \in Seq(SinkLine) /\ rows \in Seq(TrailRow) /\ legacy \in Nat
    BY TrailBoundsAssumption DEF TrailInv, TrailTypes
  <2> QED BY <2>1, CountsOfLines, RecordsAreInOrder, EmptySeq
<1>3. n >= legacy + 1
  BY <1>2
<1>4. \A i \in 1 .. n : rows[i].hash = SubSeq(R, 1, i) /\ rows[i].prev = SubSeq(R, 1, i - 1)
  BY DEF TrailInv, RowsAreChained, LinkedRow, Untouched
<1>5. \A k \in 1 .. Len(sink) : /\ Place(k) \in (legacy + 1) .. n
                                /\ sink[k].hash = rows[Place(k)].hash /\ sink[k].prev = rows[Place(k)].prev
  BY DEF TrailInv, CopiesTell
<1>6. \A i \in (legacy + 1) .. n : \E k \in 1 .. Len(sink) : Place(k) = i
  BY EveryRowHasItsLine
<1> HIDE DEF R
<1>7. /\ SubSeq(R, 1, n) = R
      /\ \A i \in 0 .. n : Len(SubSeq(R, 1, i)) = i
  BY <1>2, PrefixFacts
<1>8. \A k \in 1 .. Len(sink) : /\ Place(k) \in 1 .. n
                                /\ sink[k].hash = SubSeq(R, 1, Place(k)) /\ sink[k].prev = SubSeq(R, 1, Place(k) - 1)
  <2>1. \A i \in (legacy + 1) .. n : i \in 1 .. n
    BY <1>2
  <2> QED BY <1>4, <1>5, <2>1
<1>9. R \in hashes
  <2>1. n \in (legacy + 1) .. n
    BY <1>2, <1>3
  <2>2. PICK k \in 1 .. Len(sink) : Place(k) = n
    BY <1>6, <2>1
  <2> QED BY <1>2, <1>7, <1>8, <2>2
<1>10. R \notin prevs
  <2> SUFFICES ASSUME NEW k \in 1 .. Len(sink), R = sink[k].prev PROVE FALSE
    BY <1>2
  <2>1. Place(k) \in 1 .. n /\ R = SubSeq(R, 1, Place(k) - 1)
    BY <1>8
  <2>2. Place(k) - 1 \in 0 .. n /\ Place(k) - 1 # n
    BY <1>2, <2>1
  <2>3. Len(SubSeq(R, 1, Place(k) - 1)) = Place(k) - 1
    BY <1>7, <2>2
  <2> QED BY <1>2, <2>1, <2>2, <2>3
<1>11. ASSUME NEW x \in hashes, x # R PROVE x \in prevs
  <2>1. PICK k \in 1 .. Len(sink) : x = sink[k].hash
    BY <1>2
  <2>2. x = SubSeq(R, 1, Place(k)) /\ Place(k) \in (legacy + 1) .. n
    BY <1>5, <1>8, <2>1
  <2>3. Place(k) # n
    BY <1>7, <1>11, <2>2
  <2>4. Place(k) + 1 \in (legacy + 1) .. n /\ Place(k) \in Nat
    BY <1>2, <2>2, <2>3
  <2>5. PICK j \in 1 .. Len(sink) : Place(j) = Place(k) + 1
    BY <1>6, <2>4
  <2>6. Place(j) - 1 = Place(k)
    BY <2>4, <2>5
  <2>7. sink[j].prev = x
    BY <1>8, <2>2, <2>6
  <2> QED BY <1>2, <2>7
<1> HIDE DEF hashes, prevs
<1> QED BY <1>1, <1>9, <1>10, <1>11

LEMMA TrailCopies == TrailInv => LinesAreRows
<1> SUFFICES ASSUME TrailInv, Untouched, NEW k \in DOMAIN sink
             PROVE \E i \in DOMAIN rows : /\ rows[i].rec = sink[k].rec /\ rows[i].prev = sink[k].prev
                                          /\ rows[i].hash = sink[k].hash
  BY DEF LinesAreRows
<1>1. /\ k \in 1 .. Len(sink) /\ DOMAIN rows = 1 .. Len(rows) /\ Len(rows) \in Nat /\ legacy \in Nat
  BY CountsOfLines, RecordsAreInOrder, TrailBoundsAssumption DEF TrailInv, TrailTypes
<1>2. /\ Place(k) \in (legacy + 1) .. Len(rows)
      /\ rows[Place(k)].rec = sink[k].rec /\ rows[Place(k)].prev = sink[k].prev
      /\ rows[Place(k)].hash = sink[k].hash
  BY <1>1 DEF TrailInv, CopiesTell
<1>3. Place(k) \in DOMAIN rows
  BY <1>1, <1>2
<1> QED BY <1>2, <1>3

(* The JSONL copy: lines are rows, in whatever order and after whatever    *)
(* failures they were emitted; a complete copy is anchored at the head;    *)
(* stumps cost only themselves; heartbeats claim no more than was emitted. *)
THEOREM TrailCopyIsSound == AuditSpec => []CopyIsSound
<1>1. TrailInv => CopyIsSound
  BY TrailCopies, TrailAnchors DEF CopyIsSound, TrailInv
<1> QED BY <1>1, TrailInvAlways, PTL

-----------------------------------------------------------------------------
(* The refinement.                                                         *)

LEMMA BackfillKeepsRecords ==
  ASSUME NEW t \in Seq(TrailRow)
  PROVE  Records(Backfilled(t)) = Records(t)
<1> DEFINE row(i) == IF t[i].chained THEN t[i]
                     ELSE [t[i] EXCEPT !.prev = BackfillHeads(t)[i - 1], !.hash = BackfillHeads(t)[i],
                                       !.chained = TRUE]
<1>1. Len(t) \in Nat /\ DOMAIN t = 1 .. Len(t) /\ \A i \in 1 .. Len(t) : t[i] \in TrailRow
  BY RecordsAreInOrder
<1>2. Backfilled(t) = [i \in 1 .. Len(t) |-> row(i)]
  BY <1>1 DEF Backfilled
<1>3. \A i \in 1 .. Len(t) : row(i).rec = t[i].rec
  BY <1>1 DEF TrailRow
<1> HIDE DEF row
<1>4. DOMAIN Backfilled(t) = 1 .. Len(t) /\ \A i \in 1 .. Len(t) : Backfilled(t)[i].rec = t[i].rec
  BY <1>2, <1>3
<1> QED BY <1>1, <1>4 DEF Records

(* The abstract state: what the log holds, what each caller is asking.     *)
LogNow == IF focus # "expose" THEN Records(rows) ELSE <<>>
AskedNow == [c \in Callers |->
              IF focus = "expose" \/ call[c].pc = "idle" THEN NoCaller
              ELSE IF call[c].pc = "tx" THEN call[c].rec ELSE Kept]

LEMMA InitMaps == AuditInit => Trail!Init
<1> SUFFICES ASSUME AuditInit PROVE LogNow \in Seq(Recs) /\ AskedNow = [c \in Callers |-> NoCaller]
  BY DEF Trail!Init, LogNow, AskedNow
<1>0. TrailInv
  BY InitTrailInv
<1>1. AskedNow = [c \in Callers |-> NoCaller]
  BY IdleIsCallState DEF AuditInit, AskedNow
<1>2. Records(rows) \in Seq(Recs)
  <2>1. meta = -1
    BY DEF AuditInit
  <2>2. \A i \in 1 .. Len(rows) : rows[i].rec \in Recs
    BY <1>0, <2>1 DEF TrailInv, RowsAreChained
  <2>3. /\ Len(rows) \in Nat /\ DOMAIN rows = 1 .. Len(rows)
    BY <1>0, RecordsAreInOrder DEF TrailInv, TrailTypes
  <2>4. Records(rows) \in [1 .. Len(rows) -> Recs]
    BY <2>2, <2>3 DEF Records
  <2> QED BY <2>3, <2>4, SeqDef
<1>3. <<>> \in Seq(Recs)
  BY EmptySeq
<1> QED BY <1>1, <1>2, <1>3 DEF LogNow

(* Every step of the trail is a step of the log, or none.                  *)
LEMMA StepMaps ==
  ASSUME TrailInv, [AuditNext]_auditVars
  PROVE  \/ UNCHANGED <<LogNow, AskedNow>>
         \/ \E c \in Callers, e \in Recs : /\ AskedNow[c] = NoCaller
                                           /\ AskedNow' = [AskedNow EXCEPT ![c] = e] /\ UNCHANGED LogNow
         \/ \E c \in Callers : /\ AskedNow[c] \in Recs /\ LogNow' = Append(LogNow, AskedNow[c])
                               /\ AskedNow' = [AskedNow EXCEPT ![c] = Kept]
         \/ \E C \in SUBSET Callers :
              /\ AskedNow' = [c \in Callers |-> IF c \in C THEN NoCaller ELSE AskedNow[c]]
              /\ UNCHANGED LogNow
<1> DEFINE A(x) == IF x.pc = "idle" THEN NoCaller ELSE IF x.pc = "tx" THEN x.rec ELSE Kept
<1>0. focus' = focus /\ rows \in Seq(TrailRow)
  BY DEF AuditNext, auditVars, MigrateCheck, BackfillChain, Heartbeat, HostCrash, BeginImmediate, Commit,
         Rollback, Return, EmitCopy, EmitFails, EmitStump, EndStump, NoteEmitted, Pin, Damage,
         StartWalk, AuditPage, TrailInv, TrailTypes
<1>1. CASE focus = "expose"
  BY <1>0, <1>1 DEF LogNow, AskedNow
<1>2. CASE focus # "expose"
  <2>1. /\ LogNow = Records(rows) /\ LogNow' = Records(rows')
        /\ AskedNow = [d \in Callers |-> A(call[d])] /\ AskedNow' = [d \in Callers |-> A(call'[d])]
    BY <1>0, <1>2 DEF LogNow, AskedNow
  <2>2. A(Idle) = NoCaller
    BY IdleIsCallState
  <2>3. call \in [Callers -> CallState]
    BY DEF TrailInv, TrailTypes
  <2> HIDE DEF A
  <2>4. ASSUME UNCHANGED call, Records(rows') = Records(rows) PROVE UNCHANGED <<LogNow, AskedNow>>
    BY <2>1, <2>4
  <2>5. ASSUME NEW h \in Hosts, MigrateCheck(h) \/ BackfillChain(h) \/ Heartbeat(h)
        PROVE  UNCHANGED <<LogNow, AskedNow>>
    <3>1. UNCHANGED call
      BY <2>5 DEF MigrateCheck, BackfillChain, Heartbeat, chainVars
    <3>2. rows' = rows \/ rows' = Backfilled(rows)
      BY <2>5 DEF MigrateCheck, BackfillChain, Heartbeat, chainVars
    <3>3. Records(rows') = Records(rows)
      BY <1>0, <3>2, BackfillKeepsRecords
    <3> QED BY <2>4, <3>1, <3>3
  <2>6. ASSUME NEW h \in Hosts, HostCrash(h)
        PROVE  \E C \in SUBSET Callers :
                 /\ AskedNow' = [c \in Callers |-> IF c \in C THEN NoCaller ELSE AskedNow[c]]
                 /\ UNCHANGED LogNow
    <3> DEFINE C == {c \in Callers : HostOf[c] = h}
    <3>1. /\ call' = [c \in Callers |-> IF HostOf[c] = h THEN Idle ELSE call[c]] /\ rows' = rows
      BY <2>6 DEF HostCrash
    <3>2. AskedNow' = [c \in Callers |-> IF c \in C THEN NoCaller ELSE AskedNow[c]]
      BY <2>1, <2>2, <3>1
    <3>3. UNCHANGED LogNow
      BY <2>1, <3>1
    <3> QED BY <3>2, <3>3
  <2>7. ASSUME NEW c \in Callers, NEW r \in Recs, BeginImmediate(c, r)
        PROVE  \E d \in Callers, e \in Recs : /\ AskedNow[d] = NoCaller
                      /\ AskedNow' = [AskedNow EXCEPT ![d] = e] /\ UNCHANGED LogNow
    <3> DEFINE x == [pc |-> "tx", rec |-> r, prev |-> ChainHead(rows)]
    <3>1. call' = [call EXCEPT ![c] = x] /\ rows' = rows /\ call[c].pc = "idle"
      BY <2>7 DEF BeginImmediate
    <3>2. A(x) = r /\ A(call[c]) = NoCaller
      BY <3>1 DEF A
    <3> HIDE DEF x
    <3>3. AskedNow' = [AskedNow EXCEPT ![c] = r]
      BY <2>1, <2>3, <3>1, <3>2
    <3>4. AskedNow[c] = NoCaller /\ UNCHANGED LogNow
      BY <2>1, <3>1, <3>2
    <3> QED BY <3>3, <3>4
  <2>8. ASSUME NEW c \in Callers, Commit(c)
        PROVE  \E d \in Callers : /\ AskedNow[d] \in Recs /\ LogNow' = Append(LogNow, AskedNow[d])
                               /\ AskedNow' = [AskedNow EXCEPT ![d] = Kept]
    <3> DEFINE x == [call[c] EXCEPT !.pc = "stored"]
               r == [id |-> NextId, rec |-> call[c].rec, prev |-> call[c].prev,
                     hash |-> ChainHash(call[c].prev, call[c].rec), chained |-> TRUE]
    <3>1. call' = [call EXCEPT ![c] = x] /\ rows' = Append(rows, r) /\ call[c].pc = "tx" /\ call[c] \in CallState
      BY <2>3, <2>8 DEF Commit
    <3>2. A(call[c]) = call[c].rec /\ A(x) = Kept
      BY <3>1 DEF A, CallState
    <3>3. r.rec = call[c].rec /\ r \in TrailRow /\ call[c].rec \in Recs
      <4>1. TrailInv'
        BY <2>8, CommitInv
      <4>2. rows' \in Seq(TrailRow)
        BY <4>1 DEF TrailInv, TrailTypes
      <4>3. r \in TrailRow
        <5>1. NextId \in Nat
          <6>1. rows # <<>> => rows[Len(rows)] \in TrailRow
            BY <1>0, EmptySeq, ElementOfSeq
          <6> QED BY <6>1 DEF NextId, TrailRow
        <5>2. call[c].rec \in Recs /\ call[c].prev \in Digest
          BY <3>1, CallFacts DEF CallState
        <5>3. call[c].rec \in AnyRec /\ ChainHash(call[c].prev, call[c].rec) \in Digest
          BY <5>2, AppendProperties DEF AnyRec, Digest, ChainHash
        <5> QED BY <5>1, <5>2, <5>3 DEF TrailRow
      <4> QED BY <3>1, <4>3, CallFacts
    <3> HIDE DEF x, r
    <3>4. Records(rows') = Append(Records(rows), call[c].rec)
      BY <1>0, <3>1, <3>3, RecordsOfAppend
    <3>5. AskedNow' = [AskedNow EXCEPT ![c] = Kept]
      BY <2>1, <2>3, <3>1, <3>2
    <3>6. AskedNow[c] = call[c].rec
      BY <2>1, <3>2
    <3> QED BY <2>1, <3>3, <3>4, <3>5, <3>6
  <2>9. ASSUME NEW c \in Callers, Rollback(c) \/ Return(c) \/ EmitFails(c) \/ EndStump(c) \/ NoteEmitted(c)
        PROVE  \E C \in SUBSET Callers :
                 /\ AskedNow' = [d \in Callers |-> IF d \in C THEN NoCaller ELSE AskedNow[d]]
                 /\ UNCHANGED LogNow
    <3>1. call' = [call EXCEPT ![c] = Idle] /\ rows' = rows
      BY <2>9 DEF Rollback, Return, EmitFails, EndStump, NoteEmitted
    <3>2. AskedNow' = [d \in Callers |-> IF d \in {c} THEN NoCaller ELSE AskedNow[d]]
      BY <2>1, <2>2, <2>3, <3>1
    <3>3. UNCHANGED LogNow
      BY <2>1, <3>1
    <3> QED BY <3>2, <3>3
  <2>10. ASSUME NEW c \in Callers, EmitCopy(c) \/ EmitStump(c)
         PROVE  UNCHANGED <<LogNow, AskedNow>>
    <3>1. PICK p \in {"emitted", "stump"} : call' = [call EXCEPT ![c] = [call[c] EXCEPT !.pc = p]]
      BY <2>10 DEF EmitCopy, EmitStump
    <3>2. rows' = rows /\ call[c].pc = "stored" /\ call[c] \in CallState
      BY <2>3, <2>10 DEF EmitCopy, EmitStump, CanEmit
    <3>3. A([call[c] EXCEPT !.pc = p]) = A(call[c])
      BY <3>2 DEF A, CallState
    <3>4. AskedNow' = AskedNow
      BY <2>1, <2>3, <3>1, <3>3
    <3> QED BY <2>1, <3>2, <3>4
  <2>11. ASSUME Pin \/ Damage \/ StartWalk \/ AuditPage \/ UNCHANGED auditVars
         PROVE  UNCHANGED <<LogNow, AskedNow>>
    <3>1. UNCHANGED <<call, rows>>
      BY <1>2, <2>11 DEF Pin, Damage, StartWalk, AuditPage, auditVars, chainVars
    <3> QED BY <2>4, <3>1
  <2> QED BY <2>5, <2>6, <2>7, <2>8, <2>9, <2>10, <2>11 DEF AuditNext
<1> QED BY <1>1, <1>2

(* The trail implements the append-only log its callers rely on: each      *)
(* record enters once, whole, at the end, at one instant of its call.      *)
THEOREM TrailImplementsLog == AuditSpec => ImplementsLog
<1>1. AuditInit => Trail!Init
  BY InitMaps
<1>2. TrailInv /\ [AuditNext]_auditVars => [Trail!Next]_(Trail!logVars)
  <2> SUFFICES ASSUME TrailInv, [AuditNext]_auditVars PROVE [Trail!Next]_(Trail!logVars)
    OBVIOUS
  <2> QED BY StepMaps DEF Trail!Next, Trail!logVars, Trail!Ask, Trail!Store, Trail!End, LogNow, AskedNow
<1> QED BY <1>1, <1>2, TrailInvAlways, PTL DEF AuditSpec, ImplementsLog, Trail!Spec

-----------------------------------------------------------------------------
(* The readers: a sorting by ranks, the walk of the pages, the listing.    *)

(* What a sorting gives, whatever strict total order it sorts by: every    *)
(* member at one place, the place told by how many precede it.             *)
LEMMA InOrderIs ==
  ASSUME NEW S, IsFiniteSet(S), NEW R,
         \A i, j, k \in S : <<i, j>> \in R /\ <<j, k>> \in R => <<i, k>> \in R,
         \A i \in S : <<i, i>> \notin R,
         \A i, j \in S : i # j => <<i, j>> \in R \/ <<j, i>> \in R
  PROVE  /\ Cardinality(S) \in Nat
         /\ InOrder(S, R) \in [1 .. Cardinality(S) -> S]
         /\ \A i \in S : \E k \in 1 .. Cardinality(S) : InOrder(S, R)[k] = i
         /\ \A k \in 1 .. Cardinality(S) : Cardinality({j \in S : <<j, InOrder(S, R)[k]>> \in R}) = k - 1
         /\ \A j, k \in 1 .. Cardinality(S) : j < k <=> <<InOrder(S, R)[j], InOrder(S, R)[k]>> \in R
<1> DEFINE n == Cardinality(S)
           below(i) == {j \in S : <<j, i>> \in R}
           rank == [i \in S |-> Cardinality(below(i))]
           s == InOrder(S, R)
<1>1. n \in Nat
  BY FS_CardinalityType
<1>2. ASSUME NEW i \in S
      PROVE  IsFiniteSet(below(i)) /\ Cardinality(below(i)) \in Nat /\ Cardinality(below(i)) <= n - 1
  <2>1. IsFiniteSet(S \ {i}) /\ Cardinality(S \ {i}) = n - 1
    BY FS_RemoveElement
  <2>2. below(i) \in SUBSET (S \ {i})
    OBVIOUS
  <2> HIDE DEF below, n
  <2>3. IsFiniteSet(below(i)) /\ Cardinality(below(i)) <= n - 1
    BY <2>1, <2>2, FS_Subset
  <2> QED BY <2>3, FS_CardinalityType
<1>3. ASSUME NEW i \in S, NEW j \in S, <<i, j>> \in R
      PROVE  Cardinality(below(i)) < Cardinality(below(j))
  <2>1. below(i) \in SUBSET below(j) /\ below(i) # below(j)
    <3>1. below(i) \subseteq below(j)
      BY <1>3
    <3>2. i \in below(j) /\ i \notin below(i)
      BY <1>3
    <3> HIDE DEF below
    <3> QED BY <3>1, <3>2
  <2>2. IsFiniteSet(below(j)) /\ Cardinality(below(i)) \in Nat /\ Cardinality(below(j)) \in Nat
    BY <1>2
  <2> HIDE DEF below
  <2>3. Cardinality(below(i)) <= Cardinality(below(j)) /\ Cardinality(below(i)) # Cardinality(below(j))
    BY <2>1, <2>2, FS_Subset
  <2> QED BY <2>2, <2>3
<1> HIDE DEF below
<1>4. rank \in [S -> 0 .. n - 1] /\ \A i, j \in S : i # j => rank[i] # rank[j]
  <2>1. \A i \in S : rank[i] \in 0 .. n - 1
    BY <1>1, <1>2
  <2>2. ASSUME NEW i \in S, NEW j \in S, i # j PROVE rank[i] # rank[j]
    <3>1. <<i, j>> \in R \/ <<j, i>> \in R
      BY <2>2
    <3>2. Cardinality(below(i)) \in Nat /\ Cardinality(below(j)) \in Nat
      BY <1>2
    <3>3. Cardinality(below(i)) < Cardinality(below(j)) \/ Cardinality(below(j)) < Cardinality(below(i))
      BY <1>3, <3>1
    <3> QED BY <3>2, <3>3
  <2> QED BY <2>1, <2>2
<1>5. \A v \in 0 .. n - 1 : \E i \in S : rank[i] = v
  <2>1. IsFiniteSet(0 .. n - 1) /\ Cardinality(0 .. n - 1) = n
    <3>1. PICK b : b = n - 1
      OBVIOUS
    <3>2. 0 \in Int /\ b \in Int
      BY <1>1, <3>1
    <3>3. IsFiniteSet(0 .. b) /\ Cardinality(0 .. b) = IF 0 > b THEN 0 ELSE b - 0 + 1
      BY <3>2, FS_Interval
    <3> QED BY <1>1, <3>1, <3>3
  <2>2. rank \in Injection(S, 0 .. n - 1)
    BY <1>4 DEF Injection, IsInjective
  <2> HIDE DEF rank
  <2>3. rank \in Surjection(S, 0 .. n - 1)
    BY <2>1, <2>2, FS_Injection
  <2> QED BY <2>3 DEF Surjection
<1>6. ASSUME NEW k \in 1 .. n PROVE s[k] \in S /\ rank[s[k]] = k - 1
  <2> DEFINE P(i) == Cardinality({j \in S : <<j, i>> \in R}) = k - 1
  <2>1. s[k] = CHOOSE i \in S : P(i)
    BY DEF InOrder
  <2>2. k - 1 \in 0 .. n - 1
    BY <1>1
  <2>3. PICK i \in S : rank[i] = k - 1
    BY <1>5, <2>2
  <2>4. P(i)
    BY <2>3 DEF below
  <2>5. \A x \in S : P(x) => rank[x] = k - 1
    BY DEF below
  <2> HIDE DEF P, s, rank
  <2> QED BY <2>1, <2>4, <2>5
<1>7. s \in [1 .. n -> S]
  <2> DEFINE c(k) == CHOOSE i \in S : Cardinality({j \in S : <<j, i>> \in R}) = k - 1
  <2>1. s = [k \in 1 .. n |-> c(k)]
    BY DEF InOrder
  <2> HIDE DEF s, rank, c
  <2>2. \A k \in 1 .. n : c(k) \in S
    BY <1>6, <2>1
  <2> QED BY <2>1, <2>2
<1>8. ASSUME NEW i \in S PROVE \E k \in 1 .. n : s[k] = i
  <2>1. rank[i] \in 0 .. n - 1
    BY <1>4
  <2> HIDE DEF s, rank
  <2>2. PICK k : k = rank[i] + 1
    OBVIOUS
  <2>3. k \in 1 .. n /\ k - 1 = rank[i]
    BY <1>1, <2>1, <2>2
  <2>4. s[k] = i
    BY <1>4, <1>6, <2>3
  <2> QED BY <2>3, <2>4
<1>9. ASSUME NEW k \in 1 .. n PROVE Cardinality({j \in S : <<j, s[k]>> \in R}) = k - 1
  <2> HIDE DEF s
  <2> QED BY <1>6 DEF below
<1>10. ASSUME NEW j \in 1 .. n, NEW k \in 1 .. n PROVE j < k <=> <<s[j], s[k]>> \in R
  <2>1. /\ \A x, y \in S : <<x, y>> \in R => rank[x] < rank[y]
    BY <1>3
  <2> HIDE DEF s, rank
  <2>2. s[j] \in S /\ s[k] \in S /\ rank[s[j]] = j - 1 /\ rank[s[k]] = k - 1
    BY <1>6
  <2>3. s[j] = s[k] => j = k
    BY <1>1, <2>2
  <2>4. j # k => s[j] # s[k]
    BY <2>3
  <2>5. <<s[j], s[k]>> \in R => j < k
    BY <2>1, <2>2
  <2>6. <<s[k], s[j]>> \in R => k < j
    BY <2>1, <2>2
  <2> QED BY <2>2, <2>4, <2>5, <2>6
<1> HIDE DEF s, rank
<1> QED BY <1>1, <1>7, <1>8, <1>9, <1>10 DEF s

(* The same for the rows of a part of a table, newest first: the k-th is   *)
(* the k-th from the end.                                                  *)
LEMMA NewestFirst ==
  ASSUME NEW m \in Nat
  PROVE  /\ Cardinality(1 .. m) = m
         /\ \A k \in 1 .. m :
              InOrder(1 .. m, {p \in (1 .. m) \X (1 .. m) : p[1] > p[2]})[k] = m - k + 1
<1> DEFINE S == 1 .. m
           R == {p \in S \X S : p[1] > p[2]}
           s == InOrder(S, R)
<1>1. IsFiniteSet(S) /\ Cardinality(S) = m
  BY FS_Interval
<1>2. \A i, j \in S : <<i, j>> \in R <=> i > j
  OBVIOUS
<1> HIDE DEF R
<1>3. /\ \A i, j, k \in S : <<i, j>> \in R /\ <<j, k>> \in R => <<i, k>> \in R
      /\ \A i \in S : <<i, i>> \notin R
      /\ \A i, j \in S : i # j => <<i, j>> \in R \/ <<j, i>> \in R
  BY <1>2
<1> HIDE DEF S
<1>4. /\ s \in [1 .. m -> S]
      /\ \A k \in 1 .. m : Cardinality({j \in S : <<j, s[k]>> \in R}) = k - 1
  BY <1>1, <1>3, InOrderIs
<1>5. ASSUME NEW k \in 1 .. m PROVE s[k] = m - k + 1
  <2>1. PICK i : i = s[k]
    OBVIOUS
  <2>2. i \in S /\ Cardinality({j \in S : <<j, i>> \in R}) = k - 1
    BY <1>4, <2>1
  <2>3. {j \in S : <<j, i>> \in R} = (i + 1) .. m
    BY <1>2, <2>2 DEF S
  <2>4. i \in 1 .. m
    BY <2>2 DEF S
  <2>5. Cardinality((i + 1) .. m) = m - i
    <3>1. PICK a : a = i + 1
      OBVIOUS
    <3>2. a \in Int /\ m \in Int
      BY <2>4, <3>1
    <3>3. Cardinality(a .. m) = IF a > m THEN 0 ELSE m - a + 1
      BY <3>2, FS_Interval
    <3> QED BY <2>4, <3>1, <3>3
  <2>6. m - i = k - 1
    BY <2>2, <2>3, <2>5
  <2> HIDE DEF s
  <2> QED BY <2>1, <2>4, <2>6
<1> HIDE DEF s
<1> QED BY <1>1, <1>5 DEF S, R, s

(* A page that shows the rows m, m - 1, ... of a table, n of them.         *)
PageShows(q, t, m, n) ==
  /\ DOMAIN q.recs = 1 .. n /\ Len(q.recs) = n
  /\ \A k \in 1 .. n : q.recs[k].pos = m - k + 1 /\ q.recs[k].rec = t[m - k + 1].rec
  /\ q.more <=> m > n

(* A page of a table whose ids are its positions: the newest rows before   *)
(* the cursor, newest first, and whether any is left.                      *)
LEMMA PageIs ==
  ASSUME NEW t \in Seq(TrailRow), NEW len \in Nat, Len(t) = len, \A i \in 1 .. len : t[i].id = i,
         NEW before \in Nat, NEW limit \in Nat, NEW m \in 0 .. len, NEW n \in Nat,
         m = (IF before > 0 THEN before - 1 ELSE len), n = (IF m < limit THEN m ELSE limit)
  PROVE  PageShows(Page(t, before, limit), t, m, n)
<1> DEFINE all == {i \in DOMAIN t : BeforeCursor(t, i, before)}
           c   == IF Cardinality(all) < limit THEN Cardinality(all) ELSE limit
           order(S) == InOrder(S, {p \in S \X S : p[1] > p[2]})
           newestFirst == order(all)
           shown(k) == [pos |-> Position(t, newestFirst[k]), rec |-> t[newestFirst[k]].rec]
<1>1. DOMAIN t = 1 .. len
  BY RecordsAreInOrder
<1>2. \A i \in 1 .. len : Position(t, i) = i
  <2>1. t # <<>> => len \in 1 .. len
    BY EmptySeq
  <2> QED BY <2>1 DEF Position, Contiguous
<1>3. all = 1 .. m
  <2>1. \A i \in 1 .. len : BeforeCursor(t, i, before) <=> (before > 0 => i < before)
    BY <1>2 DEF BeforeCursor
  <2>2. all = {i \in 1 .. len : before > 0 => i < before}
    BY <1>1, <2>1
  <2> HIDE DEF all
  <2> QED BY <1>1, <2>2
<1>4. Page(t, before, limit) = [recs |-> [k \in 1 .. c |-> shown(k)], more |-> Cardinality(all) > c]
  BY DEF Page
<1>5. m \in Nat
  BY <1>1
<1>6. Cardinality(all) = m /\ \A k \in 1 .. m : newestFirst[k] = m - k + 1
  <2>1. Cardinality(1 .. m) = m /\ \A k \in 1 .. m : order(1 .. m)[k] = m - k + 1
    BY <1>5, NewestFirst
  <2> HIDE DEF order, all
  <2> QED BY <1>3, <2>1
<1>7. c = n
  BY <1>6
<1>8. \A k \in 1 .. n : shown(k) = [pos |-> m - k + 1, rec |-> t[m - k + 1].rec]
  <2> SUFFICES ASSUME NEW k \in 1 .. n PROVE shown(k) = [pos |-> m - k + 1, rec |-> t[m - k + 1].rec]
    OBVIOUS
  <2>1. k \in 1 .. m /\ m - k + 1 \in 1 .. len
    BY <1>1, <1>5
  <2>2. newestFirst[k] = m - k + 1
    BY <1>6, <2>1
  <2> HIDE DEF newestFirst
  <2> QED BY <1>2, <2>1, <2>2
<1> HIDE DEF all, c, newestFirst, shown
<1>9. PICK q : q = Page(t, before, limit)
  OBVIOUS
<1>10. q.recs = [k \in 1 .. n |-> shown(k)] /\ (q.more <=> m > n)
  <2>1. PICK f : f = [k \in 1 .. c |-> shown(k)]
    OBVIOUS
  <2>2. q = [recs |-> f, more |-> Cardinality(all) > c]
    BY <1>4, <1>9, <2>1
  <2>3. q.recs = f
    BY <2>2
  <2>4. q.more <=> Cardinality(all) > c
    BY <2>2
  <2>5. f = [k \in 1 .. n |-> shown(k)]
    BY <1>7, <2>1
  <2>6. Cardinality(all) > c <=> m > n
    BY <1>6, <1>7
  <2> QED BY <2>3, <2>4, <2>5, <2>6
<1>11. DOMAIN q.recs = 1 .. n /\ \A k \in 1 .. n : q.recs[k].pos = m - k + 1 /\ q.recs[k].rec = t[m - k + 1].rec
  <2>1. PICK f : f = [k \in 1 .. n |-> shown(k)]
    OBVIOUS
  <2>2. DOMAIN f = 1 .. n /\ \A k \in 1 .. n : f[k] = shown(k)
    BY <2>1
  <2>3. \A k \in 1 .. n : shown(k).pos = m - k + 1 /\ shown(k).rec = t[m - k + 1].rec
    BY <1>8
  <2> QED BY <1>10, <2>1, <2>2, <2>3
<1>12. Len(q.recs) = n
  <2>1. PICK X : X = {shown(k) : k \in 1 .. n}
    OBVIOUS
  <2>2. q.recs \in [1 .. n -> X]
    BY <1>10, <2>1
  <2>3. q.recs \in Seq(X)
    BY <2>2, SeqDef
  <2>4. DOMAIN q.recs = 1 .. Len(q.recs) /\ Len(q.recs) \in Nat
    BY <2>3, LenProperties
  <2> QED BY <1>11, <2>4
<1> QED BY <1>9, <1>10, <1>11, <1>12 DEF PageShows

(* While nobody may damage it a table only grows, record by record.        *)
LEMMA RowsStay ==
  ASSUME TrailInv, [AuditNext]_auditVars, focus # "expose"
  PROVE  /\ focus' = focus /\ fault' = fault /\ Len(rows) <= Len(rows')
         /\ rows \in Seq(TrailRow) /\ rows' \in Seq(TrailRow)
         /\ \A k \in 1 .. Len(rows) : rows'[k].rec = rows[k].rec
<1>1. focus' = focus /\ fault' = fault
  BY DEF AuditNext, auditVars, chainVars, sinkVars, MigrateCheck, BackfillChain, Heartbeat, HostCrash,
         BeginImmediate, Commit, Rollback, Return, EmitCopy, EmitFails, EmitStump, EndStump, NoteEmitted,
         Pin, Damage, StartWalk, AuditPage
<1>2. TrailInv'
  BY NextTrailInv
<1>3. rows \in Seq(TrailRow) /\ rows' \in Seq(TrailRow)
  BY <1>2 DEF TrailInv, TrailTypes
<1>4. PICK t \in Seq(TrailRow), u \in Seq(TrailRow) : t = rows /\ u = rows'
  BY <1>3
<1>5. LogNow = Records(t) /\ LogNow' = Records(u)
  BY <1>1, <1>4 DEF LogNow
<1>6. Records(u) = Records(t) \/ \E e \in Recs : Records(u) = Append(Records(t), e)
  BY <1>5, StepMaps
<1>7. /\ Records(t) \in Seq(AnyRec) /\ Len(Records(t)) = Len(t) /\ Len(t) \in Nat
      /\ \A k \in 1 .. Len(t) : Records(t)[k] = t[k].rec
      /\ Records(u) \in Seq(AnyRec) /\ Len(Records(u)) = Len(u) /\ Len(u) \in Nat
      /\ \A k \in 1 .. Len(u) : Records(u)[k] = u[k].rec
  BY RecordsAreInOrder
<1>8. Len(t) <= Len(u) /\ \A k \in 1 .. Len(t) : Records(u)[k] = Records(t)[k]
  <2>1. CASE Records(u) = Records(t)
    BY <1>7, <2>1
  <2>2. ASSUME NEW e \in Recs, Records(u) = Append(Records(t), e)
        PROVE  Len(t) <= Len(u) /\ \A k \in 1 .. Len(t) : Records(u)[k] = Records(t)[k]
    <3>1. e \in AnyRec
      BY DEF AnyRec
    <3> QED BY <1>7, <2>2, <3>1, AppendProperties
  <2> QED BY <1>6, <2>1, <2>2
<1>9. \A k \in 1 .. Len(t) : k \in 1 .. Len(u)
  BY <1>7, <1>8
<1>10. \A k \in 1 .. Len(t) : u[k].rec = t[k].rec
  BY <1>7, <1>8, <1>9
<1> QED BY <1>1, <1>4, <1>8, <1>10

LEMMA InitWalk == AuditInit => WalkTells
<1> SUFFICES ASSUME AuditInit PROVE WalkTells
  OBVIOUS
<1>1. walk = [pc |-> "no", before |-> 0, start |-> <<>>, seen |-> <<>>] /\ Untouched
  BY DEF AuditInit, Untouched
<1>2. <<>> \in Seq(AnyRec)
  BY EmptySeq
<1> QED BY <1>1, <1>2 DEF WalkTells

(* What is appended while a reader is between two pages does not move what *)
(* it has seen or has still to see.                                        *)
LEMMA WalkAside ==
  ASSUME TrailInv, [AuditNext]_auditVars, WalkTells, walk' = walk
  PROVE  WalkTells'
<1>1. focus' = focus
  BY DEF AuditNext, auditVars, chainVars, sinkVars, MigrateCheck, BackfillChain, Heartbeat, HostCrash,
         BeginImmediate, Commit, Rollback, Return, EmitCopy, EmitFails, EmitStump, EndStump, NoteEmitted,
         Pin, Damage, StartWalk, AuditPage
<1>2. focus # "expose" => Untouched'
  BY RowsStay DEF WalkTells, Untouched
<1>3. WalkTop' = WalkTop
  BY DEF WalkTop
<1>4. walk.pc # "no" => focus # "expose"
  BY DEF WalkTells
<1>5. ASSUME walk.pc # "no"
      PROVE  /\ Len(walk.start) <= Len(rows')
             /\ \A k \in 1 .. Len(walk.start) : walk.start[k] = rows'[k].rec
             /\ walk.pc = "done" \/ walk.before > 0 =>
                  /\ WalkTop \in Len(walk.start) .. Len(rows')
                  /\ \A k \in 1 .. Len(walk.seen) : walk.seen[k] = rows'[WalkTop - k + 1].rec
  <2>1. PICK t \in Seq(TrailRow), u \in Seq(TrailRow) :
             t = rows /\ u = rows' /\ Len(t) <= Len(u) /\ \A k \in 1 .. Len(t) : u[k].rec = t[k].rec
    BY <1>4, <1>5, RowsStay
  <2>2. PICK a, b, top : a = walk.start /\ b = walk.seen /\ top = WalkTop
    OBVIOUS
  <2>3. Len(a) \in Nat /\ Len(b) \in Nat /\ Len(t) \in Nat /\ Len(u) \in Nat
    BY <2>1, <2>2, LenProperties DEF WalkTells
  <2>4. /\ Len(a) <= Len(t) /\ \A k \in 1 .. Len(a) : a[k] = t[k].rec
        /\ walk.pc = "done" \/ walk.before > 0 =>
                  /\ top \in Len(a) .. Len(t)
                  /\ \A k \in 1 .. Len(b) : b[k] = t[top - k + 1].rec
    BY <1>5, <2>1, <2>2 DEF WalkTells
  <2>5. Len(a) <= Len(u) /\ \A k \in 1 .. Len(a) : a[k] = u[k].rec
    BY <2>1, <2>3, <2>4
  <2>6. ASSUME walk.pc = "done" \/ walk.before > 0
        PROVE  top \in Len(a) .. Len(u) /\ \A k \in 1 .. Len(b) : b[k] = u[top - k + 1].rec
    <3>1. top >= Len(b)
      BY <2>2, <2>3 DEF WalkTop, WalkTells
    <3>2. \A k \in 1 .. Len(b) : top - k + 1 \in 1 .. Len(t)
      BY <2>3, <2>4, <2>6, <3>1
    <3>3. top \in Len(a) .. Len(u)
      BY <2>1, <2>3, <2>4, <2>6
    <3>4. \A k \in 1 .. Len(b) : u[top - k + 1].rec = t[top - k + 1].rec
      BY <2>1, <3>2
    <3> QED BY <2>4, <2>6, <3>3, <3>4
  <2> QED BY <2>1, <2>2, <2>5, <2>6
<1> QED BY <1>1, <1>2, <1>3, <1>5 DEF WalkTells

LEMMA StartWalkTells ==
  ASSUME TrailInv, WalkTells, StartWalk
  PROVE  WalkTells'
<1>1. /\ walk' = [walk EXCEPT !.pc = "reading", !.start = Records(rows)]
      /\ rows' = rows /\ fault' = fault /\ focus' = focus /\ focus = "page" /\ walk.pc = "no"
  BY DEF StartWalk, chainVars
<1>2. PICK t \in Seq(TrailRow) : t = rows
  BY DEF TrailInv, TrailTypes
<1>3. PICK r : r = Records(t)
  OBVIOUS
<1>4. r \in Seq(AnyRec) /\ Len(r) = Len(t) /\ Len(t) \in Nat /\ \A k \in 1 .. Len(t) : r[k] = t[k].rec
  BY <1>3, RecordsAreInOrder
<1>5. /\ DOMAIN walk' = {"pc", "before", "start", "seen"} /\ walk'.pc = "reading" /\ walk'.start = r
      /\ walk'.before = 0 /\ walk'.seen = <<>>
  BY <1>1, <1>2, <1>3 DEF WalkTells
<1>6. <<>> \in Seq(AnyRec)
  BY EmptySeq
<1>7. (focus # "expose" => Untouched)'
  BY <1>1 DEF WalkTells, Untouched
<1> QED BY <1>1, <1>2, <1>4, <1>5, <1>6, <1>7 DEF WalkTells

(* A page goes on where the last one stopped: the rows seen stay the ones  *)
(* from the newest of the first page downwards, none left out.             *)
LEMMA AuditPageTells ==
  ASSUME TrailInv, WalkTells, AuditPage
  PROVE  WalkTells'
<1>1. PICK p, w, w1 : p = Page(rows, walk.before, PageLimit) /\ w = walk /\ w1 = walk'
  OBVIOUS
<1>2. /\ rows' = rows /\ fault' = fault /\ focus' = focus
      /\ w1 = [w EXCEPT !.seen = @ \o [k \in DOMAIN p.recs |-> p.recs[k].rec],
                        !.before = IF p.more /\ p.recs # <<>> THEN p.recs[Len(p.recs)].pos ELSE 0,
                        !.pc = IF p.more /\ p.recs # <<>> THEN "reading" ELSE "done"]
      /\ w.pc = "reading"
  BY <1>1 DEF AuditPage, chainVars
<1>3. PICK t \in Seq(TrailRow) : t = rows
  BY DEF TrailInv, TrailTypes
<1>4. PICK len : len = Len(t)
  OBVIOUS
<1>5. len \in Nat /\ \A k \in 1 .. len : t[k].rec \in AnyRec
  BY <1>4, RecordsAreInOrder DEF TrailRow
<1>6. /\ DOMAIN w = {"pc", "before", "start", "seen"} /\ w.before \in Nat /\ w.start \in Seq(AnyRec)
      /\ w.seen \in Seq(AnyRec) /\ focus = "page" /\ Len(w.start) <= len
      /\ \A k \in 1 .. Len(w.start) : w.start[k] = t[k].rec
  BY <1>1, <1>2, <1>3, <1>4 DEF WalkTells
<1>7. Untouched /\ \A i \in 1 .. len : t[i].id = i
  BY <1>3, <1>4, <1>6 DEF WalkTells, TrailInv, IdsTell
<1>8. PICK L : L = Len(w.seen)
  OBVIOUS
<1>9. PICK a : a = Len(w.start)
  OBVIOUS
<1>10. L \in Nat /\ a \in Nat /\ a <= len
  BY <1>6, <1>8, <1>9, LenProperties
<1>11. PICK m : m = IF w.before > 0 THEN w.before - 1 ELSE len
  OBVIOUS
<1>12. /\ m \in Nat /\ a <= L + m /\ L + m <= len
       /\ \A k \in 1 .. L : w.seen[k] = t[L + m - k + 1].rec
  <2>1. CASE w.before > 0
    <3>1. WalkTop = L + m
      BY <1>1, <1>8, <1>11, <2>1 DEF WalkTop
    <3>2. WalkTop \in a .. len /\ \A k \in 1 .. L : w.seen[k] = t[WalkTop - k + 1].rec
      BY <1>1, <1>2, <1>3, <1>4, <1>8, <1>9, <2>1 DEF WalkTells
    <3>3. m \in Nat
      BY <1>6, <1>11, <2>1
    <3> QED BY <1>10, <3>1, <3>2, <3>3
  <2>2. CASE ~(w.before > 0)
    <3>1. w.before = 0
      BY <1>6, <2>2
    <3>2. w.seen = <<>>
      BY <1>1, <1>2, <3>1 DEF WalkTells
    <3>3. L = 0
      BY <1>8, <3>2, EmptySeq
    <3>4. m = len
      BY <1>11, <2>2
    <3> QED BY <1>5, <1>10, <3>3, <3>4
  <2> QED BY <2>1, <2>2
<1>13. PageLimit \in Nat /\ PageLimit > 0
  BY PageAssumption
<1>14. PICK n : n = IF m < PageLimit THEN m ELSE PageLimit
  OBVIOUS
<1>15. n \in Nat /\ n <= m /\ m \in 0 .. len /\ (m > n => n > 0)
  BY <1>5, <1>10, <1>12, <1>13, <1>14
<1>16. /\ DOMAIN p.recs = 1 .. n /\ Len(p.recs) = n
       /\ \A k \in 1 .. n : p.recs[k].pos = m - k + 1 /\ p.recs[k].rec = t[m - k + 1].rec
       /\ p.more <=> m > n
  <2>1. PICK b : b = w.before
    OBVIOUS
  <2>2. b \in Nat /\ m = (IF b > 0 THEN b - 1 ELSE len) /\ n = (IF m < PageLimit THEN m ELSE PageLimit)
    BY <1>6, <1>11, <1>14, <2>1
  <2>3. p = Page(t, b, PageLimit)
    BY <1>1, <1>3, <2>1
  <2>4. Len(t) = len /\ len \in Nat /\ n \in Nat /\ m \in 0 .. len /\ PageLimit \in Nat
    BY <1>4, <1>5, <1>13, <1>15
  <2>5. PageShows(Page(t, b, PageLimit), t, m, n)
    BY <1>7, <2>2, <2>4, PageIs
  <2> QED BY <2>3, <2>5 DEF PageShows
<1>17. PICK f : f = [k \in 1 .. n |-> t[m - k + 1].rec]
  OBVIOUS
<1>18. f = [k \in DOMAIN p.recs |-> p.recs[k].rec]
  BY <1>16, <1>17
<1>19. f \in Seq(AnyRec) /\ Len(f) = n /\ \A k \in 1 .. n : f[k] = t[m - k + 1].rec
  <2>1. \A k \in 1 .. n : t[m - k + 1].rec \in AnyRec
    <3>1. \A k \in 1 .. n : m - k + 1 \in 1 .. len
      BY <1>5, <1>15
    <3> QED BY <1>5, <3>1
  <2>2. f \in [1 .. n -> AnyRec]
    BY <1>17, <2>1
  <2>3. f \in Seq(AnyRec)
    BY <1>15, <2>2, SeqDef
  <2> QED BY <1>15, <1>17, <2>2, <2>3, LenProperties
<1>20. PICK seen : seen = w.seen \o f
  OBVIOUS
<1>21. /\ seen \in Seq(AnyRec) /\ Len(seen) = L + n
       /\ \A k \in 1 .. L + n : seen[k] = IF k <= L THEN w.seen[k] ELSE f[k - L]
  <2>1. PICK b : b = w.seen
    OBVIOUS
  <2>2. b \in Seq(AnyRec) /\ Len(b) = L
    BY <1>6, <1>8, <2>1
  <2>3. /\ b \o f \in Seq(AnyRec) /\ Len(b \o f) = Len(b) + Len(f)
        /\ \A k \in 1 .. Len(b) + Len(f) : (b \o f)[k] = IF k <= Len(b) THEN b[k] ELSE f[k - Len(b)]
    BY <1>19, <2>2, ConcatProperties
  <2> QED BY <1>19, <1>20, <2>1, <2>2, <2>3
<1>22. \A k \in 1 .. L + n : seen[k] = t[L + m - k + 1].rec
  <2> SUFFICES ASSUME NEW k \in 1 .. L + n PROVE seen[k] = t[L + m - k + 1].rec
    OBVIOUS
  <2>1. CASE k <= L
    <3>1. k \in 1 .. L
      BY <1>10, <2>1
    <3> QED BY <1>12, <1>21, <2>1, <3>1
  <2>2. CASE ~(k <= L)
    <3>1. k - L \in 1 .. n /\ m - (k - L) + 1 = L + m - k + 1
      BY <1>10, <1>12, <1>15, <2>2
    <3>2. PICK j : j = k - L
      OBVIOUS
    <3>3. f[j] = t[m - j + 1].rec
      BY <1>19, <3>1, <3>2
    <3>4. seen[k] = f[j]
      BY <1>21, <2>2, <3>2
    <3> QED BY <3>1, <3>2, <3>3, <3>4
  <2> QED BY <2>1, <2>2
<1>23. p.more /\ p.recs # <<>> <=> m > n
  <2>1. ASSUME m > n PROVE p.recs # <<>>
    <3>1. 1 \in DOMAIN p.recs
      BY <1>15, <1>16, <2>1
    <3> QED BY <3>1
  <2> QED BY <1>16, <2>1
<1>24. /\ DOMAIN w1 = {"pc", "before", "start", "seen"} /\ w1.seen = seen /\ w1.start = w.start
       /\ w1.before = (IF p.more /\ p.recs # <<>> THEN p.recs[Len(p.recs)].pos ELSE 0)
       /\ w1.pc = (IF p.more /\ p.recs # <<>> THEN "reading" ELSE "done")
  BY <1>2, <1>6, <1>18, <1>20
<1>25. /\ w1.pc = (IF m > n THEN "reading" ELSE "done")
       /\ w1.before = IF m > n THEN m - n + 1 ELSE 0
  <2>1. m > n => n \in 1 .. n
    BY <1>15
  <2>2. m > n => p.recs[Len(p.recs)].pos = m - n + 1
    BY <1>16, <2>1
  <2> QED BY <1>23, <1>24, <2>2
<1>26. w1.before \in Nat /\ (m > n <=> w1.before > 0) /\ (~(m > n) => w1.before = 0 /\ n = m)
  BY <1>12, <1>15, <1>25
<1>27. L + n + (IF w1.before > 0 THEN w1.before - 1 ELSE 0) = L + m
  BY <1>10, <1>12, <1>15, <1>25, <1>26
<1>28. WalkTop' = L + m
  BY <1>1, <1>21, <1>24, <1>27 DEF WalkTop
<1>29. Untouched'
  BY <1>2, <1>7 DEF Untouched
<1>30. L + m \in a .. len
  BY <1>5, <1>10, <1>12
<1>31. /\ Len(w1.start) <= Len(rows')
       /\ \A k \in 1 .. Len(w1.start) : w1.start[k] = rows'[k].rec
  BY <1>2, <1>3, <1>4, <1>6, <1>24
<1>32. /\ WalkTop' \in Len(w1.start) .. Len(rows')
       /\ \A k \in 1 .. Len(w1.seen) : w1.seen[k] = rows'[WalkTop' - k + 1].rec
  <2>1. WalkTop' \in Len(w1.start) .. Len(rows')
    BY <1>2, <1>3, <1>4, <1>9, <1>24, <1>28, <1>30
  <2>2. \A k \in 1 .. Len(seen) : seen[k] = t[WalkTop' - k + 1].rec
    <3>1. PICK top : top = WalkTop'
      OBVIOUS
    <3>2. top = L + m /\ Len(seen) = L + n
      BY <1>21, <1>28, <3>1
    <3>3. L \in Nat /\ m \in Nat /\ n \in Nat
      BY <1>10, <1>12, <1>15
    <3>4. \A k \in 1 .. Len(seen) : seen[k] = t[top - k + 1].rec
      BY <1>22, <3>2, <3>3
    <3> QED BY <3>1, <3>4
  <2> QED BY <1>2, <1>3, <1>24, <2>1, <2>2
<1>33. /\ w1.pc \in {"no", "reading", "done"} /\ w1.pc # "no" /\ (w1.pc = "done" => w1.before = 0)
       /\ w1.pc = "reading" => w1.before # 0
  BY <1>25, <1>26
<1>34. w1.start \in Seq(AnyRec) /\ w1.seen \in Seq(AnyRec) /\ w1.before \in Nat /\ focus' = "page"
  BY <1>2, <1>6, <1>21, <1>24, <1>26
<1> QED BY <1>1, <1>24, <1>29, <1>31, <1>32, <1>33, <1>34 DEF WalkTells

LEMMA NextWalk == TrailInv /\ WalkTells /\ [AuditNext]_auditVars => WalkTells'
<1> SUFFICES ASSUME TrailInv, WalkTells, [AuditNext]_auditVars PROVE WalkTells'
  OBVIOUS
<1>1. StartWalk \/ AuditPage \/ walk' = walk
  BY DEF AuditNext, auditVars, chainVars, sinkVars, MigrateCheck, BackfillChain, Heartbeat, HostCrash,
         BeginImmediate, Commit, Rollback, Return, EmitCopy, EmitFails, EmitStump, EndStump, NoteEmitted,
         Pin, Damage
<1> QED BY <1>1, StartWalkTells, AuditPageTells, WalkAside

(* A reader that pages while others record holds, at every moment, an      *)
(* unbroken run of the trail from the newest row of its first page down to *)
(* its cursor (admin.Audit, Page).                                         *)
THEOREM WalkIsUnbroken == AuditSpec => []WalkTells
<1>1. AuditInit => WalkTells
  BY InitWalk
<1>2. TrailInv /\ WalkTells /\ [AuditNext]_auditVars => WalkTells'
  BY NextWalk
<1> QED BY <1>1, <1>2, TrailInvAlways, PTL DEF AuditSpec

LEMMA ReverseIs ==
  ASSUME NEW S, NEW s \in Seq(S)
  PROVE  /\ Reverse(s) \in Seq(S) /\ Len(Reverse(s)) = Len(s) /\ DOMAIN Reverse(s) = 1 .. Len(s)
         /\ \A k \in 1 .. Len(s) : Reverse(s)[k] = s[Len(s) - k + 1]
<1>1. PICK n : n = Len(s)
  OBVIOUS
<1>2. n \in Nat /\ \A k \in 1 .. n : s[k] \in S
  BY <1>1, LenProperties, ElementOfSeq
<1>3. \A k \in 1 .. n : n - k + 1 \in 1 .. n
  BY <1>2
<1>4. Reverse(s) = [k \in 1 .. n |-> s[n - k + 1]]
  BY <1>1 DEF Reverse
<1>5. Reverse(s) \in [1 .. n -> S]
  BY <1>2, <1>3, <1>4
<1>6. Reverse(s) \in Seq(S)
  BY <1>2, <1>5, SeqDef
<1>7. Len(Reverse(s)) = n
  BY <1>2, <1>5, <1>6, LenProperties
<1> QED BY <1>1, <1>4, <1>6, <1>7

(* A part of a sequence: its length and its elements.                      *)
IsPart(u, s, S, i, n) == u \in Seq(S) /\ Len(u) = n /\ \A k \in 1 .. n : u[k] = s[i + k]

LEMMA PartIs ==
  ASSUME NEW S, NEW s \in Seq(S), NEW i \in Nat, NEW n \in Nat, i + n <= Len(s)
  PROVE  IsPart(SubSeq(s, i + 1, i + n), s, S, i, n)
<1>1. PICK a, b : a = i + 1 /\ b = i + n
  OBVIOUS
<1>2. a \in Int /\ b \in Int /\ b - a + 1 = n /\ \A k \in 1 .. n : a + k - 1 = i + k
  BY <1>1
<1>3. \A k \in a .. b : s[k] \in S
  <2>1. Len(s) \in Nat
    BY LenProperties
  <2>2. \A k \in a .. b : k \in 1 .. Len(s)
    BY <1>1, <2>1
  <2> QED BY <2>2, ElementOfSeq
<1>4. /\ SubSeq(s, a, b) \in Seq(S) /\ Len(SubSeq(s, a, b)) = (IF a <= b THEN b - a + 1 ELSE 0)
      /\ \A k \in 1 .. b - a + 1 : SubSeq(s, a, b)[k] = s[a + k - 1]
  BY <1>2, <1>3, SubSeqProperties
<1>5. (IF a <= b THEN b - a + 1 ELSE 0) = n
  BY <1>1
<1>6. \A k \in 1 .. n : SubSeq(s, a, b)[k] = s[i + k]
  BY <1>2, <1>4
<1>7. IsPart(SubSeq(s, a, b), s, S, i, n)
  BY <1>4, <1>5, <1>6 DEF IsPart
<1> QED BY <1>1, <1>7

LEMMA WalkEnds == TrailInv /\ WalkTells => WalkShowsEachOnce
<1> SUFFICES ASSUME TrailInv, WalkTells, walk.pc = "done"
             PROVE  \E more \in 0 .. (Len(walk.seen) - Len(walk.start)) :
                      /\ Len(walk.seen) = Len(walk.start) + more
                      /\ SubSeq(walk.seen, more + 1, Len(walk.seen)) = Reverse(walk.start)
                      /\ Reverse(walk.seen) = SubSeq(Records(rows), 1, Len(walk.seen))
  BY DEF WalkShowsEachOnce
<1>1. PICK t \in Seq(TrailRow) : t = rows
  BY DEF TrailInv, TrailTypes
<1>2. PICK r, a, s : r = Records(t) /\ a = walk.start /\ s = walk.seen
  OBVIOUS
<1>3. /\ r \in Seq(AnyRec) /\ Len(r) = Len(t) /\ Len(t) \in Nat
      /\ \A k \in 1 .. Len(t) : r[k] = t[k].rec
  BY <1>2, RecordsAreInOrder
<1>4. a \in Seq(AnyRec) /\ s \in Seq(AnyRec) /\ WalkTop = Len(s)
  <2>1. a \in Seq(AnyRec) /\ s \in Seq(AnyRec) /\ walk.before = 0
    BY <1>2 DEF WalkTells
  <2>2. Len(s) \in Nat
    BY <2>1, LenProperties
  <2> QED BY <1>2, <2>1, <2>2 DEF WalkTop
<1>5. Len(a) \in Nat /\ Len(s) \in Nat
  BY <1>4, LenProperties
<1>6. /\ Len(a) <= Len(s) /\ Len(s) <= Len(r)
      /\ \A k \in 1 .. Len(a) : a[k] = t[k].rec
      /\ \A k \in 1 .. Len(s) : s[k] = t[Len(s) - k + 1].rec
  <2>1. /\ WalkTop \in Len(a) .. Len(t)
        /\ \A k \in 1 .. Len(a) : a[k] = t[k].rec
        /\ \A k \in 1 .. Len(s) : s[k] = t[WalkTop - k + 1].rec
    BY <1>1, <1>2 DEF WalkTells
  <2> QED BY <1>3, <1>4, <1>5, <2>1
<1>7. /\ \A k \in 1 .. Len(a) : a[k] = r[k]
      /\ \A k \in 1 .. Len(s) : s[k] = r[Len(s) - k + 1]
  <2>1. \A k \in 1 .. Len(a) : k \in 1 .. Len(t)
    BY <1>3, <1>5, <1>6
  <2>2. \A k \in 1 .. Len(s) : Len(s) - k + 1 \in 1 .. Len(t)
    BY <1>3, <1>5, <1>6
  <2> QED BY <1>3, <1>6, <2>1, <2>2
<1>8. PICK more : more = Len(s) - Len(a)
  OBVIOUS
<1>9. more \in 0 .. (Len(s) - Len(a)) /\ Len(s) = Len(a) + more
  BY <1>5, <1>6, <1>8
<1>10. SubSeq(s, more + 1, Len(s)) = Reverse(a)
  <2>1. /\ Reverse(a) \in Seq(AnyRec) /\ Len(Reverse(a)) = Len(a)
        /\ \A k \in 1 .. Len(a) : Reverse(a)[k] = a[Len(a) - k + 1]
    BY <1>4, ReverseIs
  <2>2. PICK u : u = SubSeq(s, more + 1, more + Len(a))
    OBVIOUS
  <2>3. more \in Nat /\ more + Len(a) = Len(s)
    BY <1>5, <1>9
  <2>4. u \in Seq(AnyRec) /\ Len(u) = Len(a) /\ \A k \in 1 .. Len(a) : u[k] = s[more + k]
    <3>1. IsPart(u, s, AnyRec, more, Len(a))
      BY <1>4, <1>5, <2>2, <2>3, PartIs
    <3> QED BY <3>1 DEF IsPart
  <2>5. ASSUME NEW k \in 1 .. Len(a) PROVE u[k] = Reverse(a)[k]
    <3>1. /\ more + k \in 1 .. Len(s) /\ Len(s) - (more + k) + 1 = Len(a) - k + 1
          /\ Len(a) - k + 1 \in 1 .. Len(a)
      BY <1>5, <2>3
    <3>2. PICK i, j : i = more + k /\ j = Len(a) - k + 1
      OBVIOUS
    <3>3. s[i] = r[Len(s) - i + 1] /\ Len(s) - i + 1 = j
      BY <1>7, <3>1, <3>2
    <3>4. s[i] = r[j] /\ a[j] = r[j]
      BY <1>7, <3>1, <3>2, <3>3
    <3> QED BY <2>1, <2>4, <3>2, <3>4
  <2>6. u = Reverse(a)
    BY <2>1, <2>4, <2>5, SeqEqual
  <2> QED BY <2>2, <2>3, <2>6
<1>11. Reverse(s) = SubSeq(r, 1, Len(s))
  <2>1. /\ Reverse(s) \in Seq(AnyRec) /\ Len(Reverse(s)) = Len(s)
        /\ \A k \in 1 .. Len(s) : Reverse(s)[k] = s[Len(s) - k + 1]
    BY <1>4, ReverseIs
  <2>2. PICK u : u = SubSeq(r, 0 + 1, 0 + Len(s))
    OBVIOUS
  <2>3. u \in Seq(AnyRec) /\ Len(u) = Len(s) /\ \A k \in 1 .. Len(s) : u[k] = r[0 + k]
    <3>1. 0 \in Nat /\ 0 + Len(s) <= Len(r)
      BY <1>5, <1>6
    <3>2. IsPart(u, r, AnyRec, 0, Len(s))
      BY <1>3, <1>5, <2>2, <3>1, PartIs
    <3> QED BY <3>2 DEF IsPart
  <2>4. ASSUME NEW k \in 1 .. Len(s) PROVE Reverse(s)[k] = u[k]
    <3>1. Len(s) - k + 1 \in 1 .. Len(s) /\ Len(s) - (Len(s) - k + 1) + 1 = k /\ 0 + k = k
      BY <1>5
    <3>2. PICK j : j = Len(s) - k + 1
      OBVIOUS
    <3>3. s[j] = r[k]
      BY <1>7, <3>1, <3>2
    <3> QED BY <2>1, <2>3, <3>1, <3>2, <3>3
  <2>5. u = Reverse(s)
    BY <2>1, <2>3, <2>4, SeqEqual
  <2>6. 0 + 1 = 1 /\ 0 + Len(s) = Len(s)
    BY <1>5
  <2> QED BY <2>2, <2>5, <2>6
<1> QED BY <1>1, <1>2, <1>9, <1>10, <1>11

(* How many places of a listing without repetition are after a given one.  *)
After(f, p, c) == {f[q] : q \in (p + 1) .. c}

LEMMA CountAfter ==
  ASSUME NEW M, NEW c \in Nat, NEW f \in [1 .. c -> M], \A j, k \in 1 .. c : j # k => f[j] # f[k],
         NEW p \in 1 .. c
  PROVE  Cardinality(After(f, p, c)) = c - p
<1> DEFINE Q == (p + 1) .. c
           T == {f[q] : q \in Q}
           g == [q \in Q |-> f[q]]
<1>1. PICK a : a = p + 1
  OBVIOUS
<1>2. a \in Int /\ c \in Int
  BY <1>1
<1>3. IsFiniteSet(a .. c) /\ Cardinality(a .. c) = IF a > c THEN 0 ELSE c - a + 1
  BY <1>2, FS_Interval
<1>4. IsFiniteSet(Q) /\ Cardinality(Q) = c - p
  BY <1>1, <1>3
<1>5. \A q \in Q : q \in 1 .. c
  OBVIOUS
<1> HIDE DEF Q
<1>6. g \in [Q -> T] /\ (\A j, k \in Q : g[j] = g[k] => j = k) /\ \A x \in T : \E q \in Q : g[q] = x
  BY <1>5
<1> HIDE DEF T, g
<1>7. g \in Bijection(Q, T)
  BY <1>6 DEF Bijection, Injection, Surjection, IsInjective
<1>8. ExistsBijection(Q, T)
  BY <1>7 DEF ExistsBijection
<1>9. Cardinality(T) = Cardinality(Q)
  BY <1>4, <1>8, FS_Bijection
<1> QED BY <1>4, <1>9 DEF T, Q, After

LEMMA CountAll ==
  ASSUME NEW M, NEW c \in Nat, NEW f \in [1 .. c -> M], \A j, k \in 1 .. c : j # k => f[j] # f[k],
         \A x \in M : \E k \in 1 .. c : f[k] = x
  PROVE  Cardinality(M) = c
<1>1. f \in Bijection(1 .. c, M)
  BY DEF Bijection, Injection, Surjection, IsInjective
<1>2. ExistsBijection(1 .. c, M)
  BY <1>1 DEF ExistsBijection
<1> QED BY <1>2, FS_CountingElements

(* List orders the rows of a table by timestamp and then by position.      *)
LEMMA ListIs ==
  ASSUME NEW t, NEW len \in Nat, DOMAIN t = 1 .. len, \A i \in 1 .. len : t[i].rec.ts \in Int
  PROVE  /\ List(t) \in [1 .. len -> 1 .. len]
         /\ \A i \in 1 .. len : \E k \in 1 .. len : List(t)[k] = i
         /\ \A j, k \in 1 .. len : j < k <=> <<List(t)[j], List(t)[k]>> \in Before(t)
         /\ \A i, j \in 1 .. len : <<i, j>> \in Before(t) <=>
              (t[i].rec.ts < t[j].rec.ts \/ (t[i].rec.ts = t[j].rec.ts /\ i < j))
<1> DEFINE D == 1 .. len
           R == Before(t)
<1>1. IsFiniteSet(D) /\ Cardinality(D) = len
  BY FS_Interval
<1>2. \A i, j \in D : <<i, j>> \in R <=>
         (t[i].rec.ts < t[j].rec.ts \/ (t[i].rec.ts = t[j].rec.ts /\ i < j))
  BY DEF Before
<1>3. PICK x : x = [i \in D |-> t[i].rec.ts]
  OBVIOUS
<1>4. \A i \in D : x[i] \in Int /\ x[i] = t[i].rec.ts
  BY <1>3
<1> HIDE DEF R
<1>5. ASSUME NEW i \in D, NEW j \in D
      PROVE  <<i, j>> \in R <=> (x[i] < x[j] \/ (x[i] = x[j] /\ i < j))
  <2>1. x[i] = t[i].rec.ts /\ x[j] = t[j].rec.ts
    BY <1>4
  <2> QED BY <1>2, <2>1
<1>6. /\ \A i, j, k \in D : <<i, j>> \in R /\ <<j, k>> \in R => <<i, k>> \in R
      /\ \A i \in D : <<i, i>> \notin R
      /\ \A i, j \in D : i # j => <<i, j>> \in R \/ <<j, i>> \in R
  BY <1>4, <1>5
<1> HIDE DEF D
<1>7. /\ InOrder(D, R) \in [1 .. len -> D]
      /\ \A i \in D : \E k \in 1 .. len : InOrder(D, R)[k] = i
      /\ \A j, k \in 1 .. len : j < k <=> <<InOrder(D, R)[j], InOrder(D, R)[k]>> \in R
  BY <1>1, <1>6, InOrderIs
<1>8. List(t) = InOrder(D, R)
  BY DEF List, R, D
<1> QED BY <1>2, <1>7, <1>8 DEF R, D

(* Places in increasing order.                                             *)
Ascending(at) == InOrder(at, {p \in at \X at : p[1] < p[2]})

LEMMA PlacesInOrder ==
  ASSUME NEW at, IsFiniteSet(at), at \subseteq Int
  PROVE  /\ Cardinality(at) \in Nat /\ Ascending(at) \in [1 .. Cardinality(at) -> at]
         /\ \A k \in at : \E j \in 1 .. Cardinality(at) : Ascending(at)[j] = k
         /\ \A j, k \in 1 .. Cardinality(at) : j < k <=> Ascending(at)[j] < Ascending(at)[k]
<1> DEFINE R == {p \in at \X at : p[1] < p[2]}
           o == InOrder(at, R)
<1>1. \A i, j \in at : <<i, j>> \in R <=> i < j
  OBVIOUS
<1> HIDE DEF R
<1>2. /\ \A i, j, k \in at : <<i, j>> \in R /\ <<j, k>> \in R => <<i, k>> \in R
      /\ \A i \in at : <<i, i>> \notin R
      /\ \A i, j \in at : i # j => <<i, j>> \in R \/ <<j, i>> \in R
  BY <1>1
<1>3. /\ Cardinality(at) \in Nat /\ o \in [1 .. Cardinality(at) -> at]
      /\ \A k \in at : \E j \in 1 .. Cardinality(at) : o[j] = k
      /\ \A j, k \in 1 .. Cardinality(at) : j < k <=> <<o[j], o[k]>> \in R
  BY <1>2, InOrderIs
<1> HIDE DEF o
<1>4. \A j, k \in 1 .. Cardinality(at) : j < k <=> o[j] < o[k]
  <2> SUFFICES ASSUME NEW j \in 1 .. Cardinality(at), NEW k \in 1 .. Cardinality(at)
               PROVE  j < k <=> o[j] < o[k]
    OBVIOUS
  <2>1. o[j] \in at /\ o[k] \in at
    BY <1>3
  <2> QED BY <1>1, <1>3, <2>1
<1> QED BY <1>3, <1>4 DEF R, o, Ascending

(* What a command's listing picks out of the ordered rows: every row that  *)
(* matches, once, in the order of List.                                    *)
MatchesOf(t, who) ==
  LET all == List(t)
      at  == {k \in DOMAIN all : Matches(t[all[k]].rec, who)}
  IN  [j \in 1 .. Cardinality(at) |-> all[InOrder(at, {p \in at \X at : p[1] < p[2]})[j]]]

(* f lists the members of M, each once, in the order of R.                 *)
Lists(f, M, R, c) ==
  /\ f \in [1 .. c -> M] /\ \A i \in M : \E j \in 1 .. c : f[j] = i
  /\ \A j, k \in 1 .. c : j < k <=> <<f[j], f[k]>> \in R

LEMMA MatchesOfIs ==
  ASSUME NEW t, NEW len \in Nat, DOMAIN t = 1 .. len, \A i \in 1 .. len : t[i].rec.ts \in Int, NEW who,
         NEW M, M = {i \in 1 .. len : t[i].rec.who = who}
  PROVE  \E c \in Nat : Lists(MatchesOf(t, who), M, Before(t), c)
<1>1. PICK all : all = List(t)
  OBVIOUS
<1>2. /\ all \in [1 .. len -> 1 .. len] /\ \A i \in 1 .. len : \E k \in 1 .. len : all[k] = i
      /\ \A j, k \in 1 .. len : j < k <=> <<all[j], all[k]>> \in Before(t)
  BY <1>1, ListIs
<1>3. PICK at : at = {k \in 1 .. len : t[all[k]].rec.who = who}
  OBVIOUS
<1>4. at = {k \in DOMAIN all : Matches(t[all[k]].rec, who)}
  BY <1>2, <1>3 DEF Matches
<1>5. at \subseteq 1 .. len /\ at \subseteq Int
  BY <1>3
<1>6. IsFiniteSet(at)
  <2>1. IsFiniteSet(1 .. len)
    BY FS_Interval
  <2> QED BY <1>5, <2>1, FS_Subset
<1>7. PICK o, c : o = InOrder(at, {p \in at \X at : p[1] < p[2]}) /\ c = Cardinality(at)
  OBVIOUS
<1>8. /\ c \in Nat /\ o \in [1 .. c -> at] /\ \A k \in at : \E j \in 1 .. c : o[j] = k
      /\ \A j, k \in 1 .. c : j < k <=> o[j] < o[k]
  <2>1. o = Ascending(at)
    BY <1>7 DEF Ascending
  <2> QED BY <1>5, <1>6, <1>7, <2>1, PlacesInOrder
<1>9. PICK f : f = MatchesOf(t, who)
  OBVIOUS
<1>10. f = [j \in 1 .. c |-> all[o[j]]]
  <2> DEFINE S(l) == {k \in DOMAIN l : Matches(t[l[k]].rec, who)}
             G(l, a) == [j \in 1 .. Cardinality(a) |-> l[InOrder(a, {p \in a \X a : p[1] < p[2]})[j]]]
             H(l, b, n) == [j \in 1 .. n |-> l[b[j]]]
  <2>1. f = G(List(t), S(List(t)))
    BY <1>9 DEF MatchesOf
  <2>2. at = S(all)
    BY <1>4
  <2>3. \A l, a : G(l, a) = H(l, InOrder(a, {p \in a \X a : p[1] < p[2]}), Cardinality(a))
    OBVIOUS
  <2> HIDE DEF S, G, H
  <2>4. f = G(all, at)
    BY <1>1, <2>1, <2>2
  <2>5. f = H(all, o, c)
    BY <1>7, <2>3, <2>4
  <2> QED BY <2>5 DEF H
<1>11. \A j \in 1 .. c : o[j] \in at /\ o[j] \in 1 .. len /\ all[o[j]] \in M
  <2> SUFFICES ASSUME NEW j \in 1 .. c PROVE o[j] \in at /\ o[j] \in 1 .. len /\ all[o[j]] \in M
    OBVIOUS
  <2>1. o[j] \in at
    BY <1>8
  <2>2. PICK k : k = o[j]
    OBVIOUS
  <2>3. k \in 1 .. len /\ t[all[k]].rec.who = who
    BY <1>3, <2>1, <2>2
  <2>4. all[k] \in 1 .. len
    BY <1>2, <2>3
  <2>5. all[k] \in M
    BY <2>3, <2>4
  <2> QED BY <2>1, <2>2, <2>3, <2>5
<1>12. f \in [1 .. c -> M]
  BY <1>10, <1>11
<1>13. ASSUME NEW i \in M PROVE \E j \in 1 .. c : f[j] = i
  <2>1. i \in 1 .. len /\ t[i].rec.who = who
    OBVIOUS
  <2>2. PICK k \in 1 .. len : all[k] = i
    BY <1>2, <2>1
  <2>3. k \in at
    BY <1>3, <2>1, <2>2
  <2>4. PICK j \in 1 .. c : o[j] = k
    BY <1>8, <2>3
  <2>5. f[j] = i
    BY <1>10, <2>2, <2>4
  <2> QED BY <2>5
<1>14. ASSUME NEW j \in 1 .. c, NEW k \in 1 .. c
       PROVE  j < k <=> <<f[j], f[k]>> \in Before(t)
  <2>1. PICK x \in 1 .. len, y \in 1 .. len : x = o[j] /\ y = o[k]
    BY <1>11
  <2>2. f[j] = all[x] /\ f[k] = all[y]
    BY <1>10, <2>1
  <2>3. j < k <=> x < y
    BY <1>8, <2>1
  <2>4. x < y <=> <<all[x], all[y]>> \in Before(t)
    BY <1>2
  <2> QED BY <2>2, <2>3, <2>4
<1>15. Lists(f, M, Before(t), c)
  BY <1>12, <1>13, <1>14 DEF Lists
<1> QED BY <1>8, <1>9, <1>15

(* The listing of a command, for every table whose timestamps can be read, *)
(* every filter and every number asked for.                                *)
LEMMA RunAuditIs ==
  ASSUME NEW t \in Seq(TrailRow), NEW len \in Nat, DOMAIN t = 1 .. len,
         \A i \in 1 .. len : t[i].rec.ts \in Int, NEW who, NEW n \in Nat
  PROVE  ShowsNewest(t, who, n)
<1>1. PICK M : M = {i \in 1 .. len : t[i].rec.who = who}
  OBVIOUS
<1>2. PICK f : f = MatchesOf(t, who)
  OBVIOUS
<1>0. PICK c \in Nat : Lists(f, M, Before(t), c)
  BY <1>1, <1>2, MatchesOfIs
<1>3. /\ c \in Nat /\ f \in [1 .. c -> M] /\ \A i \in M : \E j \in 1 .. c : f[j] = i
      /\ \A j, k \in 1 .. c : j < k <=> <<f[j], f[k]>> \in Before(t)
  BY <1>0 DEF Lists
<1>4. \A i, j \in 1 .. len : <<i, j>> \in Before(t) <=>
              (t[i].rec.ts < t[j].rec.ts \/ (t[i].rec.ts = t[j].rec.ts /\ i < j))
  BY ListIs
<1>5. \A j, k \in 1 .. c : j # k => f[j] # f[k]
  <2> SUFFICES ASSUME NEW j \in 1 .. c, NEW k \in 1 .. c, j # k PROVE f[j] # f[k]
    OBVIOUS
  <2>1. f[j] \in 1 .. len /\ f[k] \in 1 .. len
    BY <1>1, <1>3
  <2>2. \A i \in 1 .. len : <<i, i>> \notin Before(t)
    BY <1>4
  <2>3. <<f[j], f[k]>> \in Before(t) \/ <<f[k], f[j]>> \in Before(t)
    BY <1>3
  <2> QED BY <2>1, <2>2, <2>3
<1>6. Cardinality(M) = c
  BY <1>3, <1>5, CountAll
<1>7. f \in Seq(M) /\ Len(f) = c
  <2>1. f \in Seq(M)
    BY <1>3, SeqDef
  <2> QED BY <1>3, <2>1, LenProperties
<1>8. PICK z : z = IF n > 0 /\ c > n THEN n ELSE c
  OBVIOUS
<1>9. z \in Nat /\ z <= c /\ z = IF n = 0 \/ c < n THEN c ELSE n
  BY <1>3, <1>8
<1>10. PICK shown : shown = IF n > 0 /\ c > n THEN SubSeq(f, c - n + 1, c) ELSE f
  OBVIOUS
<1>11. PICK s : s = RunAudit(t, who, n)
  OBVIOUS
<1>12. s = Reverse(shown)
  <2> DEFINE H(g, b, e) == Reverse(IF n > 0 /\ b > n THEN SubSeq(g, e - n + 1, b) ELSE g)
  <2>1. RunAudit(t, who, n) = H(MatchesOf(t, who), Len(MatchesOf(t, who)), Len(MatchesOf(t, who)))
    BY DEF RunAudit, MatchesOf
  <2>2. Reverse(shown) = H(f, c, c)
    BY <1>10
  <2> HIDE DEF H
  <2> QED BY <1>2, <1>7, <1>11, <2>1, <2>2
<1>13. shown \in Seq(M) /\ Len(shown) = z /\ \A k \in 1 .. z : shown[k] = f[c - z + k]
  <2>1. CASE n > 0 /\ c > n
    <3>1. PICK i : i = c - n
      OBVIOUS
    <3>2. i \in Nat /\ i + n = c /\ i + n <= Len(f) /\ z = n /\ i = c - z
      BY <1>3, <1>7, <1>8, <2>1, <3>1
    <3>3. PICK u : u = SubSeq(f, i + 1, i + n)
      OBVIOUS
    <3>4. u \in Seq(M) /\ Len(u) = n /\ \A k \in 1 .. n : u[k] = f[i + k]
      <4>1. i \in Nat /\ n \in Nat /\ i + n <= Len(f) /\ f \in Seq(M)
        BY <1>7, <3>2
      <4>2. IsPart(SubSeq(f, i + 1, i + n), f, M, i, n)
        BY ONLY <4>1, PartIs
      <4> QED BY <3>3, <4>2 DEF IsPart
    <3>5. shown = u
      BY <1>10, <2>1, <3>1, <3>2, <3>3
    <3> QED BY <3>2, <3>4, <3>5
  <2>2. CASE ~(n > 0 /\ c > n)
    <3>1. shown = f /\ z = c
      BY <1>8, <1>10, <2>2
    <3>2. \A k \in 1 .. c : c - c + k = k
      BY <1>3
    <3> QED BY <1>7, <3>1, <3>2
  <2> QED BY <2>1, <2>2
<1>14. /\ DOMAIN s = 1 .. z /\ Len(s) = z /\ \A k \in 1 .. z : s[k] = f[c - k + 1]
  <2>1. /\ DOMAIN s = 1 .. z /\ Len(s) = z /\ \A k \in 1 .. z : s[k] = shown[z - k + 1]
    BY <1>12, <1>13, ReverseIs
  <2>2. ASSUME NEW k \in 1 .. z PROVE s[k] = f[c - k + 1]
    <3>1. PICK j : j = z - k + 1
      OBVIOUS
    <3>2. j \in 1 .. z /\ c - z + j = c - k + 1
      BY <1>3, <1>9, <3>1
    <3> QED BY <1>13, <2>1, <3>1, <3>2
  <2> QED BY <2>1, <2>2
<1> DEFINE newer(i, j) == t[i].rec.ts > t[j].rec.ts \/ (t[i].rec.ts = t[j].rec.ts /\ i > j)
<1>15. ASSUME NEW k \in 1 .. z
       PROVE  s[k] \in M /\ Cardinality({i \in M : newer(i, s[k])}) = k - 1
  <2>1. PICK p : p = c - k + 1
    OBVIOUS
  <2>2. p \in 1 .. c /\ c - p = k - 1
    BY <1>3, <1>9, <2>1
  <2>3. s[k] = f[p] /\ f[p] \in M
    BY <1>3, <1>14, <2>1, <2>2
  <2>4. \A i \in M : newer(i, f[p]) <=> <<f[p], i>> \in Before(t)
    <3>1. \A i \in M : i \in 1 .. len
      BY <1>1
    <3>2. ASSUME NEW i \in M PROVE newer(i, f[p]) <=> <<f[p], i>> \in Before(t)
      <4>1. PICK j \in 1 .. len : j = f[p]
        BY <2>3, <3>1
      <4>2. i \in 1 .. len /\ t[i].rec.ts \in Int /\ t[j].rec.ts \in Int
        BY <3>1
      <4>3. newer(i, j) <=> <<j, i>> \in Before(t)
        BY <1>4, <4>2
      <4> QED BY <4>1, <4>3
    <3> QED BY <3>2
  <2> HIDE DEF newer
  <2>5. {i \in M : newer(i, f[p])} = After(f, p, c)
    <3>1. ASSUME NEW i \in M, newer(i, f[p]) PROVE i \in After(f, p, c)
      <4>1. PICK q \in 1 .. c : f[q] = i
        BY <1>3
      <4>2. p < q
        BY <1>3, <2>2, <2>4, <3>1, <4>1
      <4>3. q \in (p + 1) .. c
        BY <2>2, <4>2
      <4> QED BY <4>1, <4>3 DEF After
    <3>2. ASSUME NEW q \in (p + 1) .. c PROVE f[q] \in M /\ newer(f[q], f[p])
      <4>1. q \in 1 .. c /\ p < q
        BY <2>2
      <4>2. f[q] \in M /\ <<f[p], f[q]>> \in Before(t)
        BY <1>3, <2>2, <4>1
      <4> QED BY <2>4, <4>2
    <3> QED BY <3>1, <3>2 DEF After
  <2>6. Cardinality(After(f, p, c)) = c - p
    <3>1. c \in Nat /\ f \in [1 .. c -> M] /\ p \in 1 .. c
      BY <1>3, <2>2
    <3> QED BY ONLY <1>5, <3>1, CountAfter
  <2> QED BY <2>2, <2>3, <2>5, <2>6
<1>16. M = {i \in DOMAIN t : t[i].rec.who = who}
  BY <1>1
<1>17. \A k \in DOMAIN s : s[k] \in M
  BY <1>14, <1>15
<1>18. Len(s) = IF n = 0 \/ Cardinality(M) < n THEN Cardinality(M) ELSE n
  BY <1>6, <1>9, <1>14
<1>19. \A k \in DOMAIN s : Cardinality({i \in M : newer(i, s[k])}) = k - 1
  BY <1>14, <1>15
<1> QED BY <1>11, <1>16, <1>17, <1>18, <1>19 DEF ShowsNewest

LEMMA TrailIsListed ==
  ASSUME TrailInv, Untouched, NEW who, NEW n \in Nat
  PROVE  ShowsNewest(rows, who, n)
<1>1. PICK t \in Seq(TrailRow) : t = rows
  BY DEF TrailInv, TrailTypes
<1>2. Len(t) \in Nat /\ DOMAIN t = 1 .. Len(t)
  BY RecordsAreInOrder
<1>3. \A i \in 1 .. Len(t) : t[i].rec \in Recs
  <2>1. meta = -1 \/ meta >= 0
    BY TrailBoundsAssumption DEF TrailInv, TrailTypes
  <2> QED BY <1>1, <2>1 DEF TrailInv, RowsAreChained, LinkedRow, Untouched
<1>4. \A i \in 1 .. Len(t) : t[i].rec.ts \in Int
  BY <1>3, RecsAssumption
<1>5. ShowsNewest(t, who, n)
  BY <1>2, <1>4, RunAuditIs
<1> QED BY <1>1, <1>5

(* Of a trail nobody touched, a command shows the matching records with    *)
(* the latest timestamps, newest first and as many as were asked for, for  *)
(* every filter and every count (runAudit).                                *)
THEOREM ListingShowsNewest ==
  AuditSpec => [](Untouched => \A who : \A n \in Nat : ShowsNewest(rows, who, n))
<1>1. TrailInv => (Untouched => \A who : \A n \in Nat : ShowsNewest(rows, who, n))
  BY TrailIsListed
<1> QED BY <1>1, TrailInvAlways, PTL

(* A reader is shown each record once and the newest first, whatever is    *)
(* recorded between two pages and whatever the timestamps (admin.Audit,    *)
(* Page, runAudit).                                                        *)
THEOREM ReadersAlwaysSeeAll == AuditSpec => []ReadersSeeAll
<1>1. TrailInv /\ WalkTells => WalkShowsEachOnce
  BY WalkEnds
<1>2. TrailInv => RunAuditShowsNewest
  <2>1. \A n \in 0 .. 2 : n \in Nat
    OBVIOUS
  <2> QED BY <2>1, TrailIsListed DEF RunAuditShowsNewest
<1>3. TrailInv /\ WalkTells => ReadersSeeAll
  BY <1>1, <1>2 DEF ReadersSeeAll
<1> QED BY <1>3, TrailInvAlways, WalkIsUnbroken, PTL

-----------------------------------------------------------------------------
(* The events shipped to a destination.                                    *)

EmType == [pc : {"idle", "stored", "noting"}, ts : 0 .. MaxClock]
StType == [degraded : BOOLEAN, gapStart : 0 .. MaxClock, lastWriteAt : 0 .. MaxClock,
           announced : [Counted -> Nat]]
GType  == [start : 0 .. MaxClock, announced : [Counted -> Nat]]
LpType == [pc : LoopPlaces, w : BOOLEAN, retry : BOOLEAN, hand : 0 .. MaxClock,
           g : GType, now : [Counted -> Nat]]
GapType == [start : 0 .. MaxClock, events : SUBSET Instants, counts : [Counted -> Nat]]

(* What has been admitted of a counter: the message is out before the      *)
(* counter is announced.                                                   *)
SoFar(k) == IF lp.pc = "announce" THEN lp.now[k] ELSE st.announced[k]

(* The running totals of the gap messages end there.                       *)
Totals(k, msgs, total) ==
  \E w \in [0 .. Len(msgs) -> Nat] :
    /\ w[0] = 0 /\ \A i \in 1 .. Len(msgs) : w[i] = w[i - 1] + msgs[i].counts[k]
    /\ w[Len(msgs)] = total

Running == \A k \in Counted : Totals(k, gaps, SoFar(k)) /\ SoFar(k) <= Len(lost[k])

Kernel ==
  /\ TelTypes /\ TelemetryTypeOK /\ MadeIsEmitted /\ LoopTells /\ GapTells /\ RaceTells
  /\ EventsAccounted /\ Running /\ WindowCoversLoss

LEMMA Clock == MaxClock \in Nat /\ MaxClock >= 1 /\ Buffer \in Nat /\ MaxEvents \in Nat /\ Instants = 1 .. MaxClock
BY TelemetryAssumption DEF Instants

(* What a sequence of messages admits is the last of its running totals.   *)
LEMMA TotalsTell ==
  ASSUME NEW msgs \in Seq(GapType), NEW k \in Counted, NEW total, Totals(k, msgs, total)
  PROVE  AdmittedOf(k, msgs) = total
<1>1. PICK w \in [0 .. Len(msgs) -> Nat] :
        /\ w[0] = 0 /\ \A i \in 1 .. Len(msgs) : w[i] = w[i - 1] + msgs[i].counts[k]
        /\ w[Len(msgs)] = total
  BY DEF Totals
<1> DEFINE n == Len(msgs)
           F(g, i) == IF i = 0 THEN 0 ELSE g[i - 1] + msgs[i].counts[k]
           B == CHOOSE g : g = [i \in 0 .. n |-> F(g, i)]
<1>2. n \in Nat
  OBVIOUS
<1>3. AdmittedOf(k, msgs) = B[n]
  BY DEF AdmittedOf
<1>4. w = [i \in 0 .. n |-> F(w, i)]
  <2>1. ASSUME NEW i \in 0 .. n PROVE w[i] = F(w, i)
    BY <1>1, <1>2
  <2>2. w = [i \in 0 .. n |-> w[i]]
    OBVIOUS
  <2> HIDE DEF F
  <2> QED BY <2>1, <2>2
<1>5. B = [i \in 0 .. n |-> F(B, i)]
  <2> DEFINE P(g) == g = [i \in 0 .. n |-> F(g, i)]
  <2>1. P(w)
    BY <1>4
  <2>2. B = CHOOSE g : P(g)
    OBVIOUS
  <2> HIDE DEF P, B
  <2>3. P(B)
    BY <2>1, <2>2
  <2> QED BY <2>3 DEF P
<1> HIDE DEF B
<1>6. \A i \in 0 .. n : B[i] = F(B, i)
  <2> HIDE DEF F
  <2> QED BY <1>5
<1>7. \A i \in 0 .. n : B[i] = w[i]
  <2> DEFINE T == {i \in 0 .. n : B[i] # w[i]}
  <2> SUFFICES ASSUME T # {} PROVE FALSE
    OBVIOUS
  <2>1. T \in SUBSET Nat
    BY <1>2
  <2>2. PICK i \in T : \A j \in T : i <= j
    BY <2>1, LeastPlace
  <2>3. i \in 0 .. n /\ B[i] # w[i]
    OBVIOUS
  <2>4. i # 0
    BY <1>1, <1>2, <1>6, <2>3
  <2>5. i \in 1 .. n /\ i - 1 \in 0 .. n /\ ~(i <= i - 1)
    BY <1>2, <2>3, <2>4
  <2>6. B[i - 1] = w[i - 1]
    BY <2>2, <2>5
  <2>7. B[i] = B[i - 1] + msgs[i].counts[k]
    BY <1>6, <2>3, <2>4
  <2> QED BY <1>1, <2>3, <2>5, <2>6, <2>7
<1> QED BY <1>1, <1>2, <1>3, <1>7

LEMMA TotalsGrow ==
  ASSUME NEW msgs \in Seq(GapType), NEW m \in GapType, NEW k \in Counted, NEW total \in Nat,
         Totals(k, msgs, total)
  PROVE  Totals(k, Append(msgs, m), total + m.counts[k])
<1>1. PICK w \in [0 .. Len(msgs) -> Nat] :
        /\ w[0] = 0 /\ \A i \in 1 .. Len(msgs) : w[i] = w[i - 1] + msgs[i].counts[k]
        /\ w[Len(msgs)] = total
  BY DEF Totals
<1>2. PICK n \in Nat : n = Len(msgs)
  OBVIOUS
<1>3. Len(Append(msgs, m)) = n + 1 /\ Append(msgs, m)[n + 1] = m /\ \A i \in 1 .. n : Append(msgs, m)[i] = msgs[i]
  BY <1>2
<1>4. m.counts[k] \in Nat
  BY DEF GapType
<1> DEFINE v == [i \in 0 .. n + 1 |-> IF i = n + 1 THEN total + m.counts[k] ELSE w[i]]
<1>5. v \in [0 .. n + 1 -> Nat]
  <2>1. \A i \in 0 .. n + 1 : i # n + 1 => i \in 0 .. n
    BY <1>2
  <2> QED BY <1>2, <1>4, <2>1
<1>6. \A i \in 0 .. n : v[i] = w[i]
  BY <1>2
<1>7. v[n + 1] = total + m.counts[k]
  BY <1>2
<1> HIDE DEF v
<1>8. ASSUME NEW i \in 1 .. n + 1 PROVE v[i] = v[i - 1] + Append(msgs, m)[i].counts[k]
  <2>1. CASE i = n + 1
    <3>1. i - 1 = n /\ n \in 0 .. n
      BY <1>2, <2>1
    <3> QED BY <1>1, <1>2, <1>3, <1>6, <1>7, <2>1, <3>1
  <2>2. CASE i # n + 1
    <3>1. i \in 1 .. n /\ i \in 0 .. n /\ i - 1 \in 0 .. n
      BY <1>2, <2>2
    <3> QED BY <1>1, <1>2, <1>3, <1>6, <3>1
  <2> QED BY <2>1, <2>2
<1>9. v[0] = 0
  <2>1. 0 \in 0 .. n
    BY <1>2
  <2> QED BY <1>1, <1>6, <2>1
<1> QED BY <1>3, <1>5, <1>7, <1>8, <1>9 DEF Totals

(* What sendGap counts on while nobody loses an event meanwhile.           *)
RaceStill ==
  /\ InGap => \A e \in Emitters : em[e].pc # "noting"
  /\ lp.pc \in {"widen", "announce"} => \A k \in Counted : lp.now[k] = Len(lost[k])
  /\ lp.pc = "clear" => \A k \in Counted : st.announced[k] = Len(lost[k])

LossStamped ==
  \A k \in Counted : \A i \in (st.announced[k] + 1) .. Len(lost[k]) : Stamped(lost[k][i])

LEMMA RaceParts == RaceTells <=> (~raced => RaceStill /\ LossStamped)
BY DEF RaceTells, RaceStill, LossStamped

(* The reasons are told apart, and each has its count.                     *)
LEMMA Counts ==
  ASSUME lost \in [Reasons -> Seq(Instants)]
  PROVE  /\ \A r \in Reasons : lost[r] \in Seq(Instants) /\ Len(lost[r]) \in Nat
         /\ "full" \in Reasons /\ "write" \in Reasons /\ "oversize" \in Reasons /\ "closing" \in Reasons
         /\ "full" \in Counted /\ "write" \in Counted /\ "oversize" \in Counted
         /\ Counted \subseteq Reasons /\ "closing" \notin Counted
BY DEF Reasons, Counted

LEMMA KernelInit == TelInit => Kernel
<1> SUFFICES ASSUME TelInit PROVE Kernel
  OBVIOUS
<1> USE Clock DEF TelInit
<1>1. NoDrops \in [Counted -> Nat] /\ \A k \in Counted : NoDrops[k] = 0
  BY DEF NoDrops
<1>2. StartedAt \in Instants
  BY DEF StartedAt
<1>3. lost \in [Reasons -> Seq(Instants)] /\ \A r \in Reasons : lost[r] = <<>> /\ Len(lost[r]) = 0
  OBVIOUS
<1>4. TelTypes
  <2>1. lp \in LpType
    BY <1>1 DEF LpType, GType, NoGap, LoopPlaces
  <2>2. st \in StType
    BY <1>1 DEF StType
  <2>3. em \in [Emitters -> EmType]
    BY DEF EmType
  <2>4. gaps \in Seq(GapType) /\ ch \in Seq(Instants)
    OBVIOUS
  <2>5. wall \in Instants /\ made \in Nat /\ emitted \in Nat /\ written \in Nat /\ raced \in BOOLEAN
    BY <1>2
  <2> HIDE DEF TelInit
  <2> QED BY <1>3, <2>1, <2>2, <2>3, <2>4, <2>5 DEF TelTypes, LpType, GType, StType, EmType, GapType
<1>5. TelemetryTypeOK
  BY DEF TelemetryTypeOK
<1>6. MadeIsEmitted
  <2>1. Storing = {}
    BY DEF Storing
  <2>2. IsFiniteSet(Storing) /\ Cardinality(Storing) = 0
    BY <2>1, FS_EmptySet
  <2> QED BY <2>2 DEF MadeIsEmitted
<1>7. LoopTells
  BY DEF LoopTells
<1>8. GapTells
  BY <1>1, <1>3, Counts DEF GapTells
<1>9. RaceTells
  <2>1. ASSUME NEW k \in Counted PROVE (st.announced[k] + 1) .. Len(lost[k]) = {}
    <3>1. Len(lost[k]) = 0
      BY <1>3, Counts
    <3> QED BY <1>1, <3>1
  <2> QED BY <1>1, <1>3, <2>1 DEF RaceTells, InGap
<1>10. EventsAccounted
  BY <1>3, Counts DEF EventsAccounted
<1>11. Running
  <2>1. ASSUME NEW k \in Counted PROVE Totals(k, gaps, SoFar(k)) /\ SoFar(k) <= Len(lost[k])
    <3>1. SoFar(k) = 0
      BY <1>1 DEF SoFar
    <3>2. Len(lost[k]) = 0
      BY <1>3, Counts
    <3> DEFINE w == [i \in 0 .. 0 |-> 0]
    <3>3. w \in [0 .. Len(gaps) -> Nat]
      OBVIOUS
    <3>4. w[0] = 0 /\ (\A i \in 1 .. Len(gaps) : w[i] = w[i - 1] + gaps[i].counts[k]) /\ w[Len(gaps)] = 0
      OBVIOUS
    <3> HIDE DEF w
    <3>5. Totals(k, gaps, 0)
      <4> HIDE DEF TelInit
      <4> QED BY <3>3, <3>4 DEF Totals
    <3> QED BY <3>1, <3>2, <3>5
  <2> QED BY <2>1 DEF Running
<1>12. WindowCoversLoss
  BY DEF WindowCoversLoss
<1> QED BY <1>4, <1>5, <1>6, <1>7, <1>8, <1>9, <1>10, <1>11, <1>12 DEF Kernel

(* A step that moves no event: what it must keep to.                       *)
LEMMA Quiet ==
  ASSUME Kernel,
         UNCHANGED <<em, made, emitted, ch, lost, firstDropAt, written, gaps>>,
         wall' \in Instants, lp' \in LpType, st' \in StType, raced' \in BOOLEAN,
         closer' \in {"no", "waiting", "returned"}, hint' \in 0 .. MaxClock,
         raced => raced', st'.announced = st.announced, lp'.hand = lp.hand,
         lp.pc = "announce" <=> lp'.pc = "announce", lp.pc = "announce" => lp'.now = lp.now,
         LoopTells', GapTells', ~raced' => RaceStill'
  PROVE  Kernel'
<1>1. TelTypes'
  BY DEF Kernel, TelTypes, LpType, GType, StType, EmType, GapType
<1>2. TelemetryTypeOK'
  BY DEF Kernel, TelemetryTypeOK, StType
<1>3. MadeIsEmitted'
  BY DEF Kernel, MadeIsEmitted, Storing
<1>4. RaceTells'
  <2>1. LossStamped => LossStamped'
    BY DEF LossStamped, Stamped
  <2>2. ~raced' => RaceStill' /\ LossStamped'
    BY <2>1, RaceParts DEF Kernel
  <2> QED BY <2>2 DEF RaceTells, RaceStill, LossStamped
<1>5. EventsAccounted'
  BY DEF Kernel, EventsAccounted
<1>6. Running'
  <2>1. ASSUME NEW k \in Counted PROVE SoFar(k)' = SoFar(k)
    BY DEF SoFar
  <2> QED BY <2>1 DEF Kernel, Running, Totals
<1>7. WindowCoversLoss'
  BY DEF Kernel, WindowCoversLoss
<1> QED BY <1>1, <1>2, <1>3, <1>4, <1>5, <1>6, <1>7 DEF Kernel

LEMMA KernelTypes ==
  ASSUME Kernel
  PROVE  /\ wall \in Instants /\ made \in Nat /\ emitted \in Nat /\ written \in Nat
         /\ em \in [Emitters -> EmType] /\ ch \in Seq(Instants) /\ lost \in [Reasons -> Seq(Instants)]
         /\ st \in StType /\ lp \in LpType /\ gaps \in Seq(GapType) /\ raced \in BOOLEAN
         /\ closer \in {"no", "waiting", "returned"} /\ hint \in 0 .. MaxClock
         /\ firstDropAt \in 0 .. MaxClock
         /\ LoopTells /\ GapTells /\ RaceTells /\ EventsAccounted /\ Running /\ WindowCoversLoss
         /\ (~raced => RaceStill) /\ (~raced => LossStamped)
BY RaceParts DEF Kernel, TelTypes, TelemetryTypeOK, EmType, StType, GType, LpType, GapType

LEMMA FailureNoted ==
  ASSUME st \in StType
  PROVE  /\ NoteFailure(st) \in StType /\ NoteFailure(st).announced = st.announced
         /\ NoteFailure(st).degraded
<1>1. CASE st.degraded
  BY <1>1 DEF NoteFailure
<1>2. CASE ~st.degraded
  <2> DEFINE since == IF st.lastWriteAt # 0 THEN st.lastWriteAt ELSE StartedAt
  <2>1. since \in 0 .. MaxClock
    BY Clock DEF StType, StartedAt
  <2>2. NoteFailure(st) = [st EXCEPT !.degraded = TRUE, !.gapStart = since]
    BY <1>2 DEF NoteFailure
  <2> HIDE DEF since
  <2> QED BY <2>1, <2>2 DEF StType
<1> QED BY <1>1, <1>2

LEMMA Recovered ==
  ASSUME NEW s \in StType
  PROVE  MarkRecovered(s) \in StType /\ MarkRecovered(s).announced = s.announced
<1>1. 0 \in 0 .. MaxClock
  BY Clock
<1> QED BY <1>1 DEF MarkRecovered, StType

(* A step of the loop that changes nothing but its place, its connection   *)
(* and its timer.                                                          *)
LEMMA LoopTurns ==
  ASSUME Kernel, LoopTop \/ Dialled \/ DialFails \/ RetryFires \/ SelectQuit \/ DrainGivesUp \/ LoopDone
  PROVE  Kernel'
<1> USE KernelTypes, Clock
<1>1. /\ lp' \in LpType /\ lp'.hand = lp.hand /\ lp'.w = lp.w /\ lp'.now = lp.now /\ lp'.g = lp.g
      /\ lp.pc \in {"top", "dial", "select", "drain", "discard"}
      /\ lp'.pc \in {"top", "dial", "gap", "select", "drain", "discard", "done"}
      /\ (lp'.pc \in {"dial", "gap"} => ~lp.w)
  <2>1. lp.pc = "dial" => ~lp.w
    BY DEF LoopTells
  <2> QED BY <2>1 DEF LpType, LoopPlaces, LoopTop, Dialled, DialFails, RetryFires, SelectQuit, DrainGivesUp, LoopDone
<1>2. st' \in StType /\ st'.announced = st.announced /\ (st.degraded => st'.degraded)
  BY FailureNoted DEF LoopTop, Dialled, DialFails, RetryFires, SelectQuit, DrainGivesUp, LoopDone, StType
<1>3. UNCHANGED <<em, made, emitted, ch, lost, firstDropAt, written, gaps, wall, closer, hint, raced>>
  BY DEF LoopTop, Dialled, DialFails, RetryFires, SelectQuit, DrainGivesUp, LoopDone, LoopUnchanged, emitVars
<1>4. LoopTells'
  BY <1>1 DEF LoopTells
<1>5. GapTells'
  BY <1>1, <1>2, <1>3 DEF GapTells
<1>6. RaceStill'
  BY <1>1, <1>3 DEF RaceStill, InGap
<1> QED BY <1>1, <1>2, <1>3, <1>4, <1>5, <1>6, Quiet

LEMMA SendGapKeeps == ASSUME Kernel, SendGap PROVE Kernel'
<1> USE KernelTypes, Clock
<1>0. lp.pc = "gap" /\ ~lp.w
  BY DEF SendGap, LoopTells
<1>1. /\ lp' \in LpType /\ lp'.hand = lp.hand /\ lp'.now = lp.now
      /\ lp'.pc \in {"select", "drops"}
      /\ (lp'.pc = "select" => ~st.degraded)
      /\ (lp'.pc = "drops" => ~lp'.w /\ lp'.g.announced = st.announced)
  <2>1. CASE ~st.degraded
    <3>1. lp' = [lp EXCEPT !.pc = "select", !.w = TRUE]
      BY <2>1 DEF SendGap
    <3> QED BY <2>1, <3>1 DEF LpType, LoopPlaces
  <2>2. CASE st.degraded
    <3> DEFINE g == [start |-> st.gapStart, announced |-> st.announced]
    <3>1. lp' = [lp EXCEPT !.pc = "drops", !.g = g]
      BY <2>2 DEF SendGap
    <3>2. g \in GType /\ g.announced = st.announced
      BY DEF GType, StType
    <3> HIDE DEF g
    <3> QED BY <1>0, <2>2, <3>1, <3>2 DEF LpType, LoopPlaces
  <2> QED BY <2>1, <2>2
<1>2. UNCHANGED <<em, made, emitted, ch, lost, firstDropAt, written, gaps, wall, closer, hint, st>>
  BY DEF SendGap, LoopUnchanged, emitVars
<1>3. /\ raced' \in BOOLEAN /\ (raced => raced')
      /\ (lp'.pc = "drops" /\ ~raced' => \A e \in Emitters : em[e].pc # "noting")
  <2>1. CASE ~st.degraded
    <3>1. raced' = raced /\ lp' = [lp EXCEPT !.pc = "select", !.w = TRUE]
      BY <2>1 DEF SendGap
    <3>2. lp'.pc = "select"
      BY <3>1 DEF LpType
    <3> QED BY <3>1, <3>2
  <2>2. CASE st.degraded
    <3>1. raced' = (raced \/ \E e \in Emitters : em[e].pc = "noting")
      BY <2>2 DEF SendGap
    <3> QED BY <3>1
  <2> QED BY <2>1, <2>2
<1>4. LoopTells'
  BY <1>0, <1>1 DEF LoopTells
<1>5. GapTells'
  BY <1>0, <1>1, <1>2 DEF GapTells
<1>6. ~raced' => RaceStill'
  BY <1>1, <1>2, <1>3 DEF RaceStill, InGap
<1> QED BY <1>0, <1>1, <1>2, <1>3, <1>4, <1>5, <1>6, Quiet

LEMMA ReadDropsKeeps == ASSUME Kernel, ReadDrops PROVE Kernel'
<1> USE KernelTypes, Clock
<1>0. [k \in Counted |-> Len(lost[k])] \in [Counted -> Nat]
  BY Counts
<1>1. /\ lp' \in LpType /\ lp'.hand = lp.hand /\ lp'.g = lp.g /\ lp'.w = lp.w
      /\ lp.pc = "drops" /\ lp'.pc = "widen" /\ (\A k \in Counted : lp'.now[k] = Len(lost[k]))
  BY <1>0 DEF LpType, LoopPlaces, ReadDrops
<1>2. UNCHANGED <<em, made, emitted, ch, lost, firstDropAt, written, gaps, wall, closer, hint, st, raced>>
  BY DEF ReadDrops, LoopUnchanged, emitVars
<1>4. LoopTells'
  BY <1>1 DEF LoopTells
<1>5. GapTells'
  BY <1>1, <1>2, Counts DEF GapTells
<1>6. ~raced' => RaceStill'
  BY <1>1, <1>2 DEF RaceStill, InGap
<1> QED BY <1>1, <1>2, <1>4, <1>5, <1>6, Quiet

LEMMA NothingLostKeeps == ASSUME Kernel, NothingLost PROVE Kernel'
<1> USE KernelTypes, Clock
<1>1. /\ lp' \in LpType /\ lp'.hand = lp.hand /\ lp'.w = lp.w
      /\ lp.pc = "widen" /\ lp'.pc = "clear" /\ lp.now = lp.g.announced
  BY DEF LpType, LoopPlaces, NothingLost
<1>2. UNCHANGED <<em, made, emitted, ch, lost, firstDropAt, written, gaps, wall, closer, hint, st, raced>>
  BY DEF NothingLost, LoopUnchanged, emitVars
<1>4. LoopTells'
  BY <1>1 DEF LoopTells
<1>5. GapTells'
  BY <1>1, <1>2 DEF GapTells
<1>6. ~raced' => RaceStill'
  BY <1>1, <1>2 DEF RaceStill, InGap, GapTells
<1> QED BY <1>1, <1>2, <1>4, <1>5, <1>6, Quiet

LEMMA GapFailsKeeps == ASSUME Kernel, GapFails PROVE Kernel'
<1> USE KernelTypes, Clock
<1>1. /\ lp' \in LpType /\ lp'.hand = lp.hand /\ lp'.w = lp.w
      /\ lp.pc = "widen" /\ lp'.pc = "top"
  BY DEF LpType, LoopPlaces, GapFails
<1>2. UNCHANGED <<em, made, emitted, ch, lost, firstDropAt, written, gaps, wall, closer, hint, raced>>
  BY DEF GapFails, LoopUnchanged, emitVars
<1>3. st' \in StType /\ st'.announced = st.announced /\ st'.degraded
  BY FailureNoted DEF GapFails
<1>4. LoopTells'
  BY <1>1 DEF LoopTells
<1>5. GapTells'
  BY <1>1, <1>2, <1>3 DEF GapTells, LoopTells
<1>6. RaceStill'
  BY <1>1, <1>2 DEF RaceStill, InGap
<1> QED BY <1>1, <1>2, <1>3, <1>4, <1>5, <1>6, Quiet

LEMMA OutsideKeeps == ASSUME Kernel, WallTick \/ Close \/ BudgetSpent \/ CloseReturns PROVE Kernel'
<1> USE KernelTypes, Clock
<1>1. UNCHANGED <<em, made, emitted, ch, lost, firstDropAt, written, gaps, st, lp, raced>>
  BY DEF WallTick, Close, BudgetSpent, CloseReturns, loopVars, emitVars
<1>2. RecoverFrom \in 0 .. MaxClock
  BY DEF RecoverFrom, StType, StartedAt, Earliest
<1>3. wall' \in Instants /\ closer' \in {"no", "waiting", "returned"} /\ hint' \in 0 .. MaxClock
  BY <1>2 DEF WallTick, Close, BudgetSpent, CloseReturns, loopVars, emitVars
<1>4. LoopTells' /\ GapTells'
  BY <1>1 DEF LoopTells, GapTells
<1>5. ~raced' => RaceStill'
  BY <1>1 DEF RaceStill, InGap
<1> QED BY <1>1, <1>3, <1>4, <1>5, Quiet

(* The window of a gap message reaches back to every loss it admits, when  *)
(* nobody was losing an event meanwhile.                                   *)
LEMMA WindowReaches ==
  ASSUME Kernel, lp.pc = "widen", ~raced, NEW ts \in Admitted
  PROVE  GapStart <= ts
<1> USE KernelTypes, Clock
<1>1. PICK k \in Counted : ts \in {lost[k][i] : i \in (lp.g.announced[k] + 1) .. lp.now[k]}
  BY DEF Admitted
<1>2. PICK i \in (lp.g.announced[k] + 1) .. lp.now[k] : ts = lost[k][i]
  BY <1>1
<1>3. i \in (st.announced[k] + 1) .. Len(lost[k])
  BY <1>2 DEF GapTells, RaceStill
<1>4. Stamped(ts)
  BY <1>2, <1>3 DEF LossStamped
<1>5. \A e \in Emitters : em[e].pc # "noting"
  BY DEF RaceStill, InGap
<1>6. firstDropAt # 0 /\ firstDropAt <= ts
  BY <1>4, <1>5 DEF Stamped
<1>7. ts \in Instants
  <2>1. lost[k] \in Seq(Instants) /\ st.announced[k] \in Nat
    BY Counts DEF StType
  <2>2. i \in 1 .. Len(lost[k])
    BY <1>3, <2>1
  <2> QED BY SMTT(30), <1>2, <2>1, <2>2
<1>8. lp.g.start \in 0 .. MaxClock
  BY DEF LpType, GType
<1>9. GapStart = IF lp.g.start = 0 \/ firstDropAt < lp.g.start THEN firstDropAt ELSE lp.g.start
  BY <1>6 DEF GapStart, Earliest
<1> QED BY <1>6, <1>7, <1>8, <1>9

LEMMA GapWrittenKeeps == ASSUME Kernel, GapWritten PROVE Kernel'
<1> USE KernelTypes, Clock
<1> DEFINE m == [start |-> GapStart, events |-> Admitted,
                 counts |-> [k \in Counted |-> lp.now[k] - lp.g.announced[k]]]
<1>1. /\ lp' \in LpType /\ lp'.hand = lp.hand /\ lp'.w = lp.w /\ lp'.g = lp.g /\ lp'.now = lp.now
      /\ lp.pc = "widen" /\ lp'.pc = "announce" /\ gaps' = Append(gaps, m)
  BY DEF LpType, LoopPlaces, GapWritten
<1>2. UNCHANGED <<em, made, emitted, ch, lost, firstDropAt, written, wall, closer, hint, st, raced>>
  BY DEF GapWritten, LoopUnchanged, emitVars
<1>3. ASSUME NEW k \in Counted
      PROVE  /\ lp.now[k] \in Nat /\ lp.g.announced[k] \in Nat /\ lp.g.announced[k] = st.announced[k]
             /\ lp.g.announced[k] <= lp.now[k] /\ lp.now[k] <= Len(lost[k])
             /\ lost[k] \in Seq(Instants)
  BY <1>1, Counts DEF LpType, GType, GapTells
<1>4. Admitted \subseteq Instants
  <2>1. ASSUME NEW k \in Counted, NEW i \in (lp.g.announced[k] + 1) .. lp.now[k] PROVE lost[k][i] \in Instants
    <3>1. /\ lost[k] \in Seq(Instants) /\ lp.now[k] \in Nat /\ lp.g.announced[k] \in Nat
          /\ lp.now[k] <= Len(lost[k])
      BY <1>3
    <3> HIDE KernelTypes DEF m
    <3>2. i \in 1 .. Len(lost[k])
      BY <3>1
    <3> QED BY <3>1, <3>2
  <2> QED BY <2>1 DEF Admitted
<1>5. GapStart \in 0 .. MaxClock
  BY DEF GapStart, Earliest, LpType, GType
<1>6. m \in GapType /\ m.start = GapStart /\ m.events = Admitted
      /\ \A k \in Counted : m.counts[k] = lp.now[k] - st.announced[k]
  <2> DEFINE c == [k \in Counted |-> lp.now[k] - lp.g.announced[k]]
  <2>1. c \in [Counted -> Nat] /\ \A k \in Counted : c[k] = lp.now[k] - st.announced[k]
    BY <1>3
  <2>2. m = [start |-> GapStart, events |-> Admitted, counts |-> c]
    OBVIOUS
  <2> HIDE DEF c, m
  <2> QED BY <1>4, <1>5, <2>1, <2>2 DEF GapType
<1> HIDE DEF m
<1>7. TelTypes'
  <2>1. gaps' \in Seq(GapType)
    BY <1>1, <1>6
  <2> QED BY <1>1, <1>2, <2>1 DEF TelTypes, LpType, GType, StType, EmType, GapType
<1>8. TelemetryTypeOK'
  BY <1>2 DEF Kernel, TelemetryTypeOK
<1>9. MadeIsEmitted'
  BY <1>2 DEF Kernel, MadeIsEmitted, Storing
<1>10. LoopTells'
  BY <1>1 DEF LoopTells
<1>11. GapTells'
  BY <1>1, <1>2 DEF GapTells
<1>12. RaceTells'
  BY <1>1, <1>2 DEF RaceTells, InGap, Stamped
<1>13. EventsAccounted'
  BY <1>1, <1>2 DEF EventsAccounted
<1>14. Running'
  <2>1. ASSUME NEW k \in Counted PROVE Totals(k, gaps', SoFar(k)') /\ SoFar(k)' <= Len(lost'[k])
    <3>1. SoFar(k)' = lp.now[k] /\ SoFar(k) = st.announced[k]
      BY <1>1 DEF SoFar
    <3>2. Totals(k, gaps, st.announced[k]) /\ st.announced[k] \in Nat
      BY <3>1 DEF Running, StType
    <3>3. Totals(k, Append(gaps, m), st.announced[k] + m.counts[k])
      BY <1>6, <3>2, TotalsGrow
    <3>4. st.announced[k] + m.counts[k] = lp.now[k]
      BY <1>3, <1>6, <3>2
    <3> QED BY <1>1, <1>2, <1>3, <3>1, <3>3, <3>4
  <2> QED BY <2>1 DEF Running, Totals
<1>15. WindowCoversLoss'
  <2> SUFFICES ASSUME ~raced', NEW i \in DOMAIN gaps', NEW ts \in gaps'[i].events PROVE gaps'[i].start <= ts
    BY DEF WindowCoversLoss
  <2>1. CASE i \in DOMAIN gaps
    <3>1. gaps'[i] = gaps[i]
      BY <1>1, <2>1
    <3> QED BY <1>2, <2>1, <3>1 DEF WindowCoversLoss
  <2>2. CASE i \notin DOMAIN gaps
    <3>1. gaps'[i] = m
      BY <1>1, <2>2
    <3> QED BY <1>1, <1>2, <1>6, <3>1, WindowReaches
  <2> QED BY <2>1, <2>2
<1> QED BY <1>7, <1>8, <1>9, <1>10, <1>11, <1>12, <1>13, <1>14, <1>15 DEF Kernel

LEMMA AnnounceKeeps == ASSUME Kernel, Announce PROVE Kernel'
<1> USE KernelTypes, Clock
<1>1. /\ lp' \in LpType /\ lp'.hand = lp.hand /\ lp'.w = lp.w /\ lp'.g = lp.g /\ lp'.now = lp.now
      /\ lp.pc = "announce" /\ lp'.pc = "clear"
  BY DEF LpType, LoopPlaces, Announce
<1>2. st' \in StType /\ st'.announced = lp.now
  BY DEF StType, LpType, Announce, Announced
<1>3. UNCHANGED <<em, made, emitted, ch, lost, firstDropAt, written, wall, closer, hint, raced, gaps>>
  BY DEF Announce, LoopUnchanged, emitVars
<1>4. ASSUME NEW k \in Counted
      PROVE  /\ lp.now[k] \in Nat /\ st.announced[k] \in Nat /\ st.announced[k] <= lp.now[k]
             /\ lp.now[k] <= Len(lost[k]) /\ (~raced => lp.now[k] = Len(lost[k])) /\ Len(lost[k]) \in Nat
  BY <1>1, Counts DEF LpType, GType, StType, GapTells, RaceStill
<1>5. TelTypes'
  BY <1>1, <1>2, <1>3 DEF TelTypes, LpType, GType, StType, EmType, GapType
<1>6. TelemetryTypeOK'
  BY <1>2, <1>3 DEF Kernel, TelemetryTypeOK, StType
<1>7. MadeIsEmitted'
  BY <1>3 DEF Kernel, MadeIsEmitted, Storing
<1>8. LoopTells'
  BY <1>1 DEF LoopTells
<1>9. GapTells'
  BY <1>1, <1>2, <1>3, <1>4 DEF GapTells
<1>10. RaceTells'
  <2> SUFFICES ASSUME ~raced' PROVE RaceStill' /\ LossStamped'
    BY DEF RaceTells, RaceStill, LossStamped
  <2>1. RaceStill'
    BY <1>1, <1>2, <1>3, <1>4 DEF RaceStill, InGap
  <2>2. ASSUME NEW k \in Counted PROVE (st'.announced[k] + 1) .. Len(lost'[k]) = {}
    BY <1>2, <1>3, <1>4
  <2> QED BY <2>1, <2>2 DEF LossStamped
<1>11. EventsAccounted'
  BY <1>1, <1>3 DEF EventsAccounted
<1>12. Running'
  <2>1. ASSUME NEW k \in Counted PROVE SoFar(k)' = SoFar(k)
    BY <1>1, <1>2 DEF SoFar
  <2> QED BY <1>3, <2>1 DEF Running, Totals
<1>13. WindowCoversLoss'
  BY <1>3 DEF WindowCoversLoss
<1> QED BY <1>5, <1>6, <1>7, <1>8, <1>9, <1>10, <1>11, <1>12, <1>13 DEF Kernel

LEMMA ClearKeeps == ASSUME Kernel, ClearAndRecover PROVE Kernel'
<1> USE KernelTypes, Clock
<1>1. /\ lp' \in LpType /\ lp'.hand = lp.hand /\ lp'.w /\ lp'.now = lp.now
      /\ lp.pc = "clear" /\ lp'.pc = "select"
  BY DEF LpType, LoopPlaces, ClearAndRecover
<1>2. st' \in StType /\ st'.announced = st.announced
  BY Recovered DEF ClearAndRecover
<1>3. UNCHANGED <<em, made, emitted, ch, lost, written, wall, closer, hint, raced, gaps>> /\ firstDropAt' = 0
  BY DEF ClearAndRecover, LoopUnchanged, emitVars
<1>5. TelTypes'
  BY <1>1, <1>2, <1>3 DEF TelTypes, LpType, GType, StType, EmType, GapType
<1>6. TelemetryTypeOK'
  BY <1>2, <1>3 DEF Kernel, TelemetryTypeOK, StType
<1>7. MadeIsEmitted'
  BY <1>3 DEF Kernel, MadeIsEmitted, Storing
<1>8. LoopTells'
  BY <1>1 DEF LoopTells
<1>9. GapTells'
  BY <1>1, <1>2, <1>3 DEF GapTells
<1>10. RaceTells'
  <2> SUFFICES ASSUME ~raced' PROVE RaceStill' /\ LossStamped'
    BY DEF RaceTells, RaceStill, LossStamped
  <2>1. RaceStill'
    BY <1>1 DEF RaceStill, InGap
  <2>2. ASSUME NEW k \in Counted PROVE (st'.announced[k] + 1) .. Len(lost'[k]) = {}
    <3>1. st.announced[k] = Len(lost[k]) /\ Len(lost[k]) \in Nat
      BY <1>1, <1>3, Counts DEF RaceStill
    <3> QED BY <1>2, <1>3, <3>1
  <2> QED BY <2>1, <2>2 DEF LossStamped
<1>11. EventsAccounted'
  BY <1>1, <1>3 DEF EventsAccounted
<1>12. Running'
  <2>1. ASSUME NEW k \in Counted PROVE SoFar(k)' = SoFar(k)
    BY <1>1, <1>2 DEF SoFar
  <2> QED BY <1>3, <2>1 DEF Running, Totals
<1>13. WindowCoversLoss'
  BY <1>3 DEF WindowCoversLoss
<1> QED BY <1>5, <1>6, <1>7, <1>8, <1>9, <1>10, <1>11, <1>12, <1>13 DEF Kernel

(* A step of the loop that moves an event, outside sendGap.                *)
LEMMA Moves ==
  ASSUME Kernel,
         UNCHANGED <<em, made, emitted, gaps, wall, closer, hint, raced>>,
         lp' \in LpType, st' \in StType, st'.announced = st.announced, written' \in Nat,
         ch' \in Seq(Instants), Len(ch') <= Len(ch), lost' \in [Reasons -> Seq(Instants)],
         \A k \in Counted : Len(lost[k]) <= Len(lost'[k]),
         firstDropAt' \in 0 .. MaxClock, ~InGap, ~InGap',
         LoopTells', GapTells', EventsAccounted', ~raced => LossStamped'
  PROVE  Kernel'
<1> USE KernelTypes, Clock
<1>1. TelTypes'
  BY DEF TelTypes, LpType, GType, StType, EmType, GapType
<1>2. TelemetryTypeOK'
  <2>1. Len(ch') <= Buffer
    <3>1. Len(ch) <= Buffer /\ Len(ch) \in Nat /\ Len(ch') \in Nat
      BY DEF Kernel, TelemetryTypeOK
    <3> HIDE KernelTypes
    <3> QED BY <3>1
  <2> QED BY <2>1 DEF Kernel, TelemetryTypeOK, StType
<1>3. MadeIsEmitted'
  BY DEF Kernel, MadeIsEmitted, Storing
<1>4. RaceTells'
  <2>1. RaceStill'
    BY DEF RaceStill, InGap
  <2> QED BY <2>1 DEF RaceTells, RaceStill, LossStamped
<1>5. Running'
  <2>1. ASSUME NEW k \in Counted PROVE Totals(k, gaps', SoFar(k)') /\ SoFar(k)' <= Len(lost'[k])
    <3>1. SoFar(k)' = SoFar(k) /\ SoFar(k) = st.announced[k]
      BY DEF SoFar, InGap
    <3>2. /\ st.announced[k] <= Len(lost[k]) /\ Len(lost[k]) <= Len(lost'[k]) /\ st.announced[k] \in Nat
          /\ lost[k] \in Seq(Instants) /\ lost'[k] \in Seq(Instants)
      BY Counts DEF GapTells, StType
    <3>3. Len(lost[k]) \in Nat /\ Len(lost'[k]) \in Nat
      BY <3>2
    <3>4. st.announced[k] <= Len(lost'[k])
      <4> HIDE KernelTypes
      <4> QED BY <3>2, <3>3
    <3> QED BY <3>1, <3>4 DEF Running
  <2> QED BY <2>1 DEF Running, Totals
<1>6. WindowCoversLoss'
  BY DEF WindowCoversLoss
<1> QED BY <1>1, <1>2, <1>3, <1>4, <1>5, <1>6 DEF Kernel

LEMMA IncTells ==
  ASSUME NEW l \in [Reasons -> Seq(Instants)], NEW r \in Reasons, NEW v \in Instants
  PROVE  /\ Inc(l, r, v) \in [Reasons -> Seq(Instants)]
         /\ Inc(l, r, v)[r] = Append(l[r], v) /\ Len(Inc(l, r, v)[r]) = Len(l[r]) + 1
         /\ \A s \in Reasons : s # r => Inc(l, r, v)[s] = l[s]
BY DEF Inc

LEMMA EarliestTells ==
  ASSUME NEW c \in 0 .. MaxClock, NEW v \in Instants
  PROVE  /\ Earliest(c, v) \in 0 .. MaxClock /\ Earliest(c, v) # 0 /\ Earliest(c, v) <= v
         /\ (c # 0 => Earliest(c, v) <= c)
BY Clock DEF Earliest

(* The stamp is moved back to a loss as it is counted.                     *)
LEMMA StampFollows ==
  ASSUME Kernel, LossStamped, NEW r \in Counted, NEW v \in Instants,
         lost' = Inc(lost, r, v), firstDropAt' = Earliest(firstDropAt, v), em' = em,
         st'.announced = st.announced
  PROVE  LossStamped'
<1> SUFFICES ASSUME NEW k \in Counted, NEW i \in (st.announced[k] + 1) .. Len(lost'[k]),
                    NEW ts, ts = lost'[k][i]
             PROVE  Stamped(ts)'
  BY DEF LossStamped, Stamped
<1>1. /\ lost \in [Reasons -> Seq(Instants)] /\ firstDropAt \in 0 .. MaxClock
      /\ st.announced[k] \in Nat /\ k \in Reasons /\ r \in Reasons
  BY KernelTypes, Counts DEF StType
<1>2. lost[k] \in Seq(Instants) /\ Len(lost[k]) \in Nat /\ lost'[k] \in Seq(Instants)
  BY <1>1, IncTells
<1>3. firstDropAt' \in Nat /\ firstDropAt' # 0 /\ firstDropAt' <= v /\ (firstDropAt # 0 => firstDropAt' <= firstDropAt)
  BY <1>1, EarliestTells
<1>4. CASE k = r /\ i = Len(lost[k]) + 1
  <2>1. lost'[k] = Append(lost[k], v)
    BY <1>1, <1>4, IncTells
  <2>2. lost'[k][i] = v
    BY <1>2, <1>4, <2>1, AppendProperties
  <2> QED BY <1>3, <2>2 DEF Stamped
<1>5. CASE ~(k = r /\ i = Len(lost[k]) + 1)
  <2>1. i \in 1 .. Len(lost[k]) /\ i \in (st.announced[k] + 1) .. Len(lost[k])
    <3>1. CASE k = r
      <4>1. Len(lost'[k]) = Len(lost[k]) + 1
        BY <1>1, <3>1, IncTells
      <4> QED BY <1>1, <1>2, <1>5, <3>1, <4>1
    <3>2. CASE k # r
      <4>1. lost'[k] = lost[k]
        BY <1>1, <3>2, IncTells
      <4> QED BY <1>1, <1>2, <4>1
    <3> QED BY <3>1, <3>2
  <2>2. lost'[k][i] = lost[k][i]
    <3>1. CASE k = r
      <4>1. lost'[k] = Append(lost[k], v)
        BY <1>1, <3>1, IncTells
      <4> QED BY <1>2, <2>1, <4>1
    <3>2. CASE k # r
      BY <1>1, <3>2, IncTells
    <3> QED BY <3>1, <3>2
  <2>3. Stamped(lost[k][i]) /\ lost[k][i] \in Instants
    BY <1>2, <2>1 DEF LossStamped
  <2>4. CASE firstDropAt # 0 /\ firstDropAt <= lost[k][i]
    <3>1. firstDropAt' <= lost[k][i]
      BY <1>1, <1>3, <2>3, <2>4, Clock
    <3> QED BY <1>3, <2>2, <3>1 DEF Stamped
  <2>5. CASE \E e \in Emitters : em[e].pc = "noting" /\ em[e].ts = lost[k][i]
    BY <2>2, <2>5 DEF Stamped
  <2> QED BY <2>3, <2>4, <2>5 DEF Stamped
<1> QED BY <1>4, <1>5

(* How many events were lost for a reason.                                 *)
Losses(r) == Len(lost[r])

LEMMA AccountsTold ==
  EventsAccounted <=>
    emitted = written + Losses("full") + Losses("write") + Losses("oversize") + Losses("closing")
                + Len(ch) + (IF lp.hand = 0 THEN 0 ELSE 1)
BY DEF EventsAccounted, Losses

LEMMA CountNats ==
  ASSUME Kernel
  PROVE  /\ Losses("full") \in Nat /\ Losses("write") \in Nat /\ Losses("oversize") \in Nat
         /\ Losses("closing") \in Nat /\ Len(ch) \in Nat /\ emitted \in Nat /\ written \in Nat
         /\ \A k \in Counted : Len(lost[k]) \in Nat
BY KernelTypes, Counts DEF Losses

LEMMA HeadTells ==
  ASSUME NEW q \in Seq(Instants), q # <<>>
  PROVE  /\ Head(q) \in Instants /\ Head(q) \in 0 .. MaxClock /\ Head(q) # 0
         /\ Tail(q) \in Seq(Instants) /\ Len(Tail(q)) = Len(q) - 1 /\ Len(q) \in Nat
BY Clock

LEMMA TakeKeeps == ASSUME Kernel, Take \/ DrainTake PROVE Kernel'
<1>0. ch \in Seq(Instants) /\ lp \in LpType /\ LoopTells /\ GapTells /\ EventsAccounted /\ (~raced => LossStamped)
  BY KernelTypes
<1>1. /\ ch # <<>> /\ ch' = Tail(ch) /\ lp.w /\ lp.pc \in {"select", "drain"}
      /\ UNCHANGED <<em, made, emitted, gaps, wall, closer, hint, raced, st, lost, firstDropAt, written>>
  BY DEF Take, DrainTake, LoopUnchanged, emitVars
<1>2. /\ Head(ch) \in 0 .. MaxClock /\ Head(ch) # 0 /\ ch' \in Seq(Instants)
      /\ Len(ch') = Len(ch) - 1 /\ Len(ch) \in Nat
  BY <1>0, <1>1, HeadTells
<1>3. lp' \in LpType /\ lp'.hand = Head(ch) /\ lp'.w /\ lp'.pc \in {"send", "drainsend"}
  <2>1. CASE Take
    <3>1. lp' = [lp EXCEPT !.pc = "send", !.hand = Head(ch)]
      BY <2>1 DEF Take
    <3> QED BY <1>0, <1>1, <1>2, <3>1 DEF LpType, LoopPlaces
  <2>2. CASE DrainTake
    <3>1. lp' = [lp EXCEPT !.pc = "drainsend", !.hand = Head(ch)]
      BY <2>2 DEF DrainTake
    <3> QED BY <1>0, <1>1, <1>2, <3>1 DEF LpType, LoopPlaces
  <2> QED BY <2>1, <2>2
<1>4. LoopTells'
  BY <1>2, <1>3 DEF LoopTells
<1>5. GapTells'
  BY <1>0, <1>1, <1>3 DEF GapTells
<1>6. EventsAccounted'
  <2>1. lp.hand = 0
    BY <1>0, <1>1 DEF LoopTells
  <2>2. emitted = written + Losses("full") + Losses("write") + Losses("oversize") + Losses("closing") + Len(ch) + 0
    BY <1>0, <2>1, AccountsTold
  <2>3. emitted = written + Losses("full") + Losses("write") + Losses("oversize") + Losses("closing") + Len(ch') + 1
    BY <1>2, <2>2, CountNats
  <2>4. lp'.hand # 0
    BY <1>2, <1>3
  <2> QED BY <1>1, <2>3, <2>4 DEF EventsAccounted, Losses
<1>7. LossStamped => LossStamped'
  BY <1>1 DEF LossStamped, Stamped
<1>8. ~InGap /\ ~InGap'
  BY <1>1, <1>3 DEF InGap
<1>9. Len(ch') <= Len(ch) /\ \A k \in Counted : Len(lost[k]) <= Len(lost'[k])
  BY <1>1, <1>2, CountNats
<1> QED BY <1>0, <1>1, <1>2, <1>3, <1>4, <1>5, <1>6, <1>7, <1>8, <1>9, KernelTypes, Moves

LEMMA DiscardKeeps == ASSUME Kernel, Discard PROVE Kernel'
<1>0. /\ ch \in Seq(Instants) /\ LoopTells /\ GapTells /\ EventsAccounted /\ (~raced => LossStamped)
      /\ lost \in [Reasons -> Seq(Instants)]
  BY KernelTypes
<1>1. /\ ch # <<>> /\ ch' = Tail(ch) /\ lp.pc = "discard" /\ lost' = Inc(lost, "closing", Head(ch))
      /\ UNCHANGED <<em, made, emitted, gaps, wall, closer, hint, raced, st, lp, firstDropAt, written>>
  BY DEF Discard, CountDiscarded, LoopUnchanged, emitVars
<1>2. Head(ch) \in Instants /\ ch' \in Seq(Instants) /\ Len(ch') = Len(ch) - 1 /\ Len(ch) \in Nat
  BY <1>0, <1>1, HeadTells
<1>3. /\ lost' \in [Reasons -> Seq(Instants)] /\ Len(lost'["closing"]) = Len(lost["closing"]) + 1
      /\ \A k \in Counted : lost'[k] = lost[k]
  <2>1. "closing" \in Reasons /\ Counted \subseteq Reasons /\ "closing" \notin Counted
    BY DEF Reasons, Counted
  <2>2. Inc(lost, "closing", Head(ch)) \in [Reasons -> Seq(Instants)]
    BY <1>0, <1>2, <2>1, IncTells
  <2>3. Len(Inc(lost, "closing", Head(ch))["closing"]) = Len(lost["closing"]) + 1
    BY <1>0, <1>2, <2>1, IncTells
  <2>4. \A k \in Counted : Inc(lost, "closing", Head(ch))[k] = lost[k]
    <3>1. \A r \in Reasons : r # "closing" => Inc(lost, "closing", Head(ch))[r] = lost[r]
      BY <1>0, <1>2, <2>1, IncTells
    <3> QED BY <2>1, <3>1
  <2> QED BY <1>1, <2>2, <2>3, <2>4
<1>4. LoopTells'
  BY <1>0, <1>1 DEF LoopTells
<1>5. GapTells'
  <2>1. "write" \in Counted
    BY DEF Counted
  <2> QED BY <1>0, <1>1, <1>3, <2>1 DEF GapTells
<1>6. EventsAccounted'
  <2>3. lost'["full"] = lost["full"] /\ lost'["write"] = lost["write"] /\ lost'["oversize"] = lost["oversize"]
    BY <1>3 DEF Counted
  <2>4. lp.hand = 0
    BY <1>0, <1>1 DEF LoopTells
  <2>5. emitted = written + Losses("full") + Losses("write") + Losses("oversize") + Losses("closing") + Len(ch) + 0
    BY <1>0, <2>4, AccountsTold
  <2>6. emitted = written + Losses("full") + Losses("write") + Losses("oversize") + (Losses("closing") + 1) + Len(ch') + 0
    BY <1>2, <2>5, CountNats
  <2>7. Losses("closing")' = Losses("closing") + 1
    BY <1>3 DEF Losses
  <2>8. Losses("full")' = Losses("full") /\ Losses("write")' = Losses("write") /\ Losses("oversize")' = Losses("oversize")
    BY <2>3 DEF Losses
  <2>9. emitted' = written' + Losses("full")' + Losses("write")' + Losses("oversize")' + Losses("closing")' + Len(ch') + 0
    BY <1>1, <2>6, <2>7, <2>8
  <2> QED BY <1>1, <2>4, <2>9 DEF EventsAccounted, Losses
<1>7. LossStamped => LossStamped'
  <2> SUFFICES ASSUME LossStamped, NEW k \in Counted, NEW i \in (st'.announced[k] + 1) .. Len(lost'[k]),
                      NEW ts, ts = lost'[k][i]
               PROVE  Stamped(ts)'
    BY DEF LossStamped, Stamped
  <2>1. lost'[k] = lost[k] /\ st' = st
    BY <1>1, <1>3
  <2>2. Stamped(ts)
    BY <2>1 DEF LossStamped, Stamped
  <2> QED BY <1>1, <2>2 DEF Stamped
<1>8. ~InGap /\ ~InGap'
  BY <1>1 DEF InGap
<1>9. Len(ch') <= Len(ch) /\ \A k \in Counted : Len(lost[k]) <= Len(lost'[k])
  BY <1>1, <1>2, <1>3, CountNats
<1> QED BY <1>0, <1>1, <1>2, <1>3, <1>4, <1>5, <1>6, <1>7, <1>8, <1>9, KernelTypes, Moves

(* The loop sends the event in its hand, on a connection whose losses are  *)
(* all admitted.                                                           *)
LEMMA Sending ==
  ASSUME Kernel, lp.pc \in {"send", "drainsend"}
  PROVE  /\ lp.hand \in Instants /\ lp.hand # 0 /\ lp.w /\ ~InGap
         /\ st.announced["write"] = Len(lost["write"])
         /\ emitted = written + Losses("full") + Losses("write") + Losses("oversize") + Losses("closing") + Len(ch) + 1
         /\ st.announced \in [Counted -> Nat] /\ \A k \in Counted : st.announced[k] <= Len(lost[k])
<1>1. /\ lp \in LpType /\ LoopTells /\ GapTells /\ EventsAccounted /\ st \in StType
  BY KernelTypes
<1>2. lp.hand # 0 /\ lp.w
  BY <1>1 DEF LoopTells
<1>3. lp.hand \in Instants
  BY <1>1, <1>2, Clock DEF LpType
<1>4. st.announced["write"] = Len(lost["write"])
  BY <1>1, <1>2 DEF GapTells
<1>5. emitted = written + Losses("full") + Losses("write") + Losses("oversize") + Losses("closing") + Len(ch) + 1
  BY <1>1, <1>2, AccountsTold
<1>6. st.announced \in [Counted -> Nat] /\ \A k \in Counted : st.announced[k] <= Len(lost[k])
  BY <1>1 DEF StType, GapTells
<1> QED BY <1>2, <1>3, <1>4, <1>5, <1>6 DEF InGap

LEMMA HandEmptied ==
  ASSUME NEW l \in LpType, NEW after \in {"top", "drain", "discard"}
  PROVE  /\ [l EXCEPT !.pc = after, !.hand = 0] \in LpType
         /\ [l EXCEPT !.pc = after, !.hand = 0].hand = 0 /\ [l EXCEPT !.pc = after, !.hand = 0].w = l.w
         /\ [l EXCEPT !.pc = after, !.hand = 0].pc = after
<1>1. 0 \in 0 .. MaxClock /\ after \in LoopPlaces
  BY Clock DEF LoopPlaces
<1> QED BY <1>1 DEF LpType

LEMMA SentKeeps ==
  ASSUME Kernel, lp.pc \in {"send", "drainsend"}, NEW after \in {"top", "drain"}, Sent(after)
  PROVE  Kernel'
<1>0. /\ lp \in LpType /\ st \in StType /\ GapTells /\ wall \in Instants /\ ch \in Seq(Instants)
      /\ lost \in [Reasons -> Seq(Instants)] /\ firstDropAt \in 0 .. MaxClock /\ written \in Nat
      /\ (~raced => LossStamped)
  BY KernelTypes
<1>1. /\ written' = written + 1 /\ st' = NoteWritten(st) /\ lp' = [lp EXCEPT !.pc = after, !.hand = 0]
      /\ UNCHANGED <<em, made, emitted, gaps, wall, closer, hint, raced, lost, firstDropAt, ch>>
  BY DEF Sent, LoopUnchanged, emitVars
<1>2. lp' \in LpType /\ lp'.hand = 0 /\ lp'.w = lp.w /\ lp'.pc = after
  BY ZenonT(40), <1>0, <1>1, HandEmptied
<1>3. st' \in StType /\ st'.announced = st.announced
  <2>0. wall \in 0 .. MaxClock
    BY <1>0, Clock
  <2>1. [st EXCEPT !.lastWriteAt = wall] \in StType
    BY <1>0, <2>0 DEF StType
  <2>2. [st EXCEPT !.lastWriteAt = wall].announced = st.announced
    BY <1>0 DEF StType
  <2> QED BY <1>1, <2>1, <2>2, Recovered DEF NoteWritten
<1>4. LoopTells'
  BY <1>2 DEF LoopTells
<1>5. GapTells'
  BY <1>1, <1>2, <1>3, Sending DEF GapTells
<1>6. EventsAccounted'
  <2>1. emitted = (written + 1) + Losses("full") + Losses("write") + Losses("oversize") + Losses("closing") + Len(ch) + 0
    BY SMTT(30), Sending, CountNats
  <2> QED BY <1>1, <1>2, <2>1 DEF EventsAccounted, Losses
<1>7. LossStamped => LossStamped'
  BY <1>1, <1>3 DEF LossStamped, Stamped
<1>8. ~InGap /\ ~InGap'
  BY <1>2, Sending DEF InGap
<1>9. Len(ch') <= Len(ch) /\ \A k \in Counted : Len(lost[k]) <= Len(lost'[k])
  BY <1>1, CountNats
<1> QED BY <1>0, <1>1, <1>2, <1>3, <1>4, <1>5, <1>6, <1>7, <1>8, <1>9, Moves

(* The event in hand is lost for a reason the gap message counts.          *)
LEMMA HandLost ==
  ASSUME Kernel, lp.pc \in {"send", "drainsend"}, NEW r \in {"write", "oversize"},
         lost' = Inc(lost, r, lp.hand), firstDropAt' = Earliest(firstDropAt, lp.hand),
         UNCHANGED <<em, made, emitted, gaps, wall, closer, hint, raced, ch, written>>,
         lp' \in LpType, lp'.hand = 0, lp'.pc \in {"top", "drain", "discard"},
         st' \in StType, st'.announced = st.announced,
         r = "write" => ~lp'.w /\ st'.degraded, r = "oversize" => lp'.w = lp.w
  PROVE  Kernel'
<1>0. /\ ch \in Seq(Instants) /\ lost \in [Reasons -> Seq(Instants)] /\ firstDropAt \in 0 .. MaxClock
      /\ written \in Nat /\ (~raced => LossStamped)
  BY KernelTypes
<1>1. lp.hand \in Instants
  BY Sending
<1>2. r \in Reasons /\ r \in Counted
  BY DEF Reasons, Counted
<1>3. /\ lost' \in [Reasons -> Seq(Instants)] /\ Len(lost'[r]) = Len(lost[r]) + 1
      /\ \A s \in Reasons : s # r => lost'[s] = lost[s]
  BY <1>0, <1>1, <1>2, IncTells
<1>4. firstDropAt' \in 0 .. MaxClock
  BY <1>0, <1>1, EarliestTells
<1>5. ASSUME NEW k \in Counted PROVE Len(lost[k]) <= Len(lost'[k]) /\ Len(lost[k]) \in Nat /\ Len(lost'[k]) \in Nat
  <2>1. k \in Reasons /\ Len(lost[k]) \in Nat
    BY CountNats DEF Reasons
  <2>2. CASE k = r
    BY <1>3, <2>1, <2>2
  <2>3. CASE k # r
    BY <1>3, <2>1, <2>3
  <2> QED BY <2>2, <2>3
<1>6. LoopTells'
  BY DEF LoopTells
<1>7. GapTells'
  <2>1. ASSUME NEW k \in Counted PROVE st.announced[k] <= Len(lost'[k])
    <3>1. st.announced[k] \in Nat /\ st.announced[k] <= Len(lost[k])
      BY Sending
    <3>2. Len(lost[k]) <= Len(lost'[k]) /\ Len(lost[k]) \in Nat /\ Len(lost'[k]) \in Nat
      BY <1>5
    <3>3. \A x, y, z \in Nat : x <= y /\ y <= z => x <= z
      OBVIOUS
    <3> QED BY <3>1, <3>2, <3>3
  <2>2. CASE r = "write"
    BY <2>1, <2>2 DEF GapTells
  <2>3. CASE r = "oversize"
    <3>1. lost'["write"] = lost["write"]
      BY <1>3, <2>3, Counts, <1>0
    <3> QED BY <2>1, <2>3, <3>1, Sending DEF GapTells
  <2> QED BY <2>2, <2>3
<1>8. EventsAccounted'
  <2>1. Losses(r)' = Losses(r) + 1 /\ \A s \in Reasons : s # r => Losses(s)' = Losses(s)
    BY <1>3 DEF Losses
  <2>2. CASE r = "write"
    <3>1. emitted = written + Losses("full") + (Losses("write") + 1) + Losses("oversize") + Losses("closing") + Len(ch) + 0
      BY Sending, CountNats
    <3>2. Losses("full")' = Losses("full") /\ Losses("oversize")' = Losses("oversize") /\ Losses("closing")' = Losses("closing")
      BY <2>1, <2>2 DEF Reasons, Counted
    <3>3. emitted = written + Losses("full")' + Losses("write")' + Losses("oversize")' + Losses("closing")' + Len(ch) + 0
      BY <2>1, <2>2, <3>1, <3>2
    <3> QED BY <3>3 DEF EventsAccounted, Losses
  <2>3. CASE r = "oversize"
    <3>1. emitted = written + Losses("full") + Losses("write") + (Losses("oversize") + 1) + Losses("closing") + Len(ch) + 0
      BY Sending, CountNats
    <3>2. Losses("full")' = Losses("full") /\ Losses("write")' = Losses("write") /\ Losses("closing")' = Losses("closing")
      BY <2>1, <2>3 DEF Reasons, Counted
    <3>3. emitted = written + Losses("full")' + Losses("write")' + Losses("oversize")' + Losses("closing")' + Len(ch) + 0
      BY <2>1, <2>3, <3>1, <3>2
    <3> QED BY <3>3 DEF EventsAccounted, Losses
  <2> QED BY <2>2, <2>3
<1>9. ~raced => LossStamped'
  BY <1>0, <1>1, <1>2, StampFollows
<1>10. ~InGap /\ ~InGap'
  BY Sending DEF InGap
<1>11. Len(ch') <= Len(ch)
  BY CountNats
<1> QED BY <1>0, <1>3, <1>4, <1>5, <1>6, <1>7, <1>8, <1>9, <1>10, <1>11, Moves

LEMMA OversizeKeeps ==
  ASSUME Kernel, lp.pc \in {"send", "drainsend"}, NEW after \in {"top", "drain"}, Oversize(after)
  PROVE  Kernel'
<1>0. lp \in LpType /\ st \in StType
  BY KernelTypes
<1>1. /\ lost' = Inc(lost, "oversize", lp.hand) /\ firstDropAt' = Earliest(firstDropAt, lp.hand)
      /\ lp' = [lp EXCEPT !.pc = after, !.hand = 0]
      /\ UNCHANGED <<em, made, emitted, gaps, wall, closer, hint, raced, ch, written, st>>
  BY DEF Oversize, LoopUnchanged, emitVars
<1>2. lp' \in LpType /\ lp'.hand = 0 /\ lp'.w = lp.w /\ lp'.pc = after
  BY ZenonT(40), <1>0, <1>1, HandEmptied
<1> QED BY <1>0, <1>1, <1>2, HandLost

LEMMA WriteFailsKeeps ==
  ASSUME Kernel, lp.pc \in {"send", "drainsend"}, NEW after \in {"top", "discard"}, EventWriteFails(after)
  PROVE  Kernel'
<1>0. lp \in LpType /\ st \in StType
  BY KernelTypes
<1>1. /\ lost' = Inc(lost, "write", lp.hand) /\ firstDropAt' = Earliest(firstDropAt, lp.hand)
      /\ lp' = [[lp EXCEPT !.hand = 0, !.w = FALSE, !.retry = TRUE] EXCEPT !.pc = after]
      /\ st' = NoteFailure(st)
      /\ UNCHANGED <<em, made, emitted, gaps, wall, closer, hint, raced, ch, written>>
  BY DEF EventWriteFails, ClosedAfterError, LoopUnchanged, emitVars
<1>2. lp' \in LpType /\ lp'.hand = 0 /\ ~lp'.w /\ lp'.pc = after
  <2>1. 0 \in 0 .. MaxClock /\ after \in LoopPlaces
    BY Clock DEF LoopPlaces
  <2> QED BY <1>0, <1>1, <2>1 DEF LpType
<1>3. st' \in StType /\ st'.announced = st.announced /\ st'.degraded
  BY <1>0, <1>1, FailureNoted
<1> QED BY <1>1, <1>2, <1>3, HandLost

(* A request goroutine turns; the loop and what it wrote stand still.      *)
LEMMA EmitterTurns ==
  ASSUME Kernel, UNCHANGED <<wall, written, st, lp, gaps, closer, hint>>,
         em' \in [Emitters -> EmType], made' \in Nat, emitted' \in Nat, emitted' <= made', made' <= MaxEvents,
         ch' \in Seq(Instants), Len(ch') <= Buffer, lost' \in [Reasons -> Seq(Instants)],
         \A k \in Counted : Len(lost[k]) <= Len(lost'[k]), Len(lost'["write"]) = Len(lost["write"]),
         firstDropAt' \in 0 .. MaxClock, raced' \in BOOLEAN, raced => raced',
         MadeIsEmitted', EventsAccounted', ~raced' => RaceStill' /\ LossStamped'
  PROVE  Kernel'
<1> USE KernelTypes, Clock
<1>0. ASSUME NEW k \in Counted
      PROVE  Len(lost[k]) <= Len(lost'[k]) /\ Len(lost[k]) \in Nat /\ Len(lost'[k]) \in Nat
  BY SMTT(30), Counts
<1>00. \A x, y, z \in Nat : x <= y /\ y <= z => x <= z
  OBVIOUS
<1>1. TelTypes'
  BY DEF TelTypes, LpType, GType, StType, EmType, GapType
<1>2. TelemetryTypeOK'
  <2>1. \A e \in Emitters : em'[e].pc \in {"idle", "stored", "noting"}
    BY DEF EmType
  <2> QED BY <2>1 DEF Kernel, TelemetryTypeOK, StType
<1>3. LoopTells'
  BY DEF LoopTells
<1>4. GapTells'
  <2>1. \A k \in Counted : st.announced[k] \in Nat /\ lp.now[k] \in Nat
    BY DEF StType, LpType
  <2>2. \A k \in Counted : st.announced[k] <= Len(lost'[k])
    BY <1>0, <1>00, <2>1 DEF GapTells
  <2>3. \A k \in Counted : lp.now[k] <= Len(lost[k]) => lp.now[k] <= Len(lost'[k])
    BY <1>0, <1>00, <2>1
  <2> HIDE KernelTypes
  <2>4. GapTells
    BY KernelTypes
  <2> QED BY <2>2, <2>3, <2>4 DEF GapTells
<1>5. RaceTells'
  BY DEF RaceTells, RaceStill, LossStamped
<1>6. Running'
  <2>1. ASSUME NEW k \in Counted PROVE Totals(k, gaps', SoFar(k)') /\ SoFar(k)' <= Len(lost'[k])
    <3>1. SoFar(k)' = SoFar(k) /\ SoFar(k) \in Nat
      BY DEF SoFar, StType, LpType
    <3>2. Totals(k, gaps, SoFar(k)) /\ SoFar(k) <= Len(lost[k])
      BY DEF Running
    <3> QED BY <1>0, <1>00, <3>1, <3>2
  <2> QED BY <2>1 DEF Running, Totals
<1>7. WindowCoversLoss'
  BY DEF WindowCoversLoss
<1> QED BY <1>1, <1>2, <1>3, <1>4, <1>5, <1>6, <1>7 DEF Kernel

LEMMA StoreKeeps == ASSUME Kernel, NEW e \in Emitters, StoreRecord(e) PROVE Kernel'
<1>0. /\ em \in [Emitters -> EmType] /\ wall \in Instants /\ made \in Nat /\ emitted \in Nat
      /\ ch \in Seq(Instants) /\ lost \in [Reasons -> Seq(Instants)] /\ firstDropAt \in 0 .. MaxClock
      /\ raced \in BOOLEAN /\ (~raced => RaceStill) /\ (~raced => LossStamped) /\ EventsAccounted
  BY KernelTypes
<1>1. /\ em[e].pc = "idle" /\ made < MaxEvents /\ made' = made + 1
      /\ em' = [em EXCEPT ![e] = [pc |-> "stored", ts |-> wall]]
      /\ UNCHANGED <<wall, written, st, lp, gaps, closer, hint, emitted, ch, lost, firstDropAt, raced>>
  BY DEF StoreRecord, loopVars
<1>2. /\ em' \in [Emitters -> EmType] /\ em'[e].pc = "stored" /\ em'[e].ts = wall
      /\ \A f \in Emitters : f # e => em'[f] = em[f]
  <2>1. [pc |-> "stored", ts |-> wall] \in EmType
    BY <1>0, Clock DEF EmType
  <2> QED BY <1>0, <1>1, <2>1
<1>3. IsFiniteSet(Storing) /\ made = emitted + Cardinality(Storing) /\ Cardinality(Storing) \in Nat
      /\ (\A f \in Emitters : em[f].pc # "idle" => em[f].ts \in Instants)
      /\ emitted <= made /\ Len(ch) <= Buffer
  BY FS_CardinalityType DEF Kernel, MadeIsEmitted, TelemetryTypeOK
<1>4. MadeIsEmitted'
  <2>1. Storing' = Storing \cup {e} /\ e \notin Storing
    BY <1>1, <1>2 DEF Storing
  <2>2. IsFiniteSet(Storing') /\ Cardinality(Storing') = Cardinality(Storing) + 1
    BY <1>3, <2>1, FS_AddElement
  <2>3. made' = emitted' + Cardinality(Storing')
    BY <1>0, <1>1, <1>3, <2>2
  <2>4. \A f \in Emitters : em'[f].pc # "idle" => em'[f].ts \in Instants
    BY <1>0, <1>2, <1>3
  <2> QED BY <2>2, <2>3, <2>4 DEF MadeIsEmitted
<1>5. EventsAccounted'
  BY <1>0, <1>1 DEF EventsAccounted
<1>6. \A f \in Emitters : em'[f].pc = "noting" <=> em[f].pc = "noting"
  BY <1>1, <1>2
<1>7. \A f \in Emitters : em[f].pc = "noting" => em'[f].ts = em[f].ts
  BY <1>1, <1>2
<1>8. RaceStill => RaceStill'
  BY <1>1, <1>6 DEF RaceStill, InGap
<1>9. LossStamped => LossStamped'
  BY <1>1, <1>6, <1>7 DEF LossStamped, Stamped
<1>10. made' \in Nat /\ emitted' <= made' /\ made' <= MaxEvents
  BY <1>0, <1>1, <1>3, Clock
<1>11. \A k \in Counted : Len(lost[k]) <= Len(lost'[k])
  BY <1>1, CountNats
<1> QED BY <1>0, <1>1, <1>2, <1>3, <1>4, <1>5, <1>8, <1>9, <1>10, <1>11, EmitterTurns

(* An event stored is emitted: the goroutine no longer holds it.           *)
LEMMA EmitFacts ==
  ASSUME Kernel, NEW e \in Emitters, em[e].pc = "stored", made' = made, emitted' = emitted + 1,
         NEW p \in {"idle", "noting"}, em' = [em EXCEPT ![e].pc = p]
  PROVE  /\ MadeIsEmitted' /\ emitted' \in Nat /\ made' \in Nat /\ emitted' <= made' /\ made' <= MaxEvents
         /\ em' \in [Emitters -> EmType] /\ em[e].ts \in Instants
         /\ em'[e].pc = p /\ em'[e].ts = em[e].ts /\ \A f \in Emitters : f # e => em'[f] = em[f]
<1>0. em \in [Emitters -> EmType] /\ made \in Nat /\ emitted \in Nat
  BY KernelTypes
<1>1. /\ em' \in [Emitters -> EmType] /\ em'[e].pc = p /\ em'[e].ts = em[e].ts
      /\ \A f \in Emitters : f # e => em'[f] = em[f]
  BY <1>0 DEF EmType
<1>2. IsFiniteSet(Storing) /\ made = emitted + Cardinality(Storing) /\ made <= MaxEvents
      /\ (\A f \in Emitters : em[f].pc # "idle" => em[f].ts \in Instants)
  BY DEF Kernel, MadeIsEmitted, TelemetryTypeOK
<1>3. Storing' = Storing \ {e} /\ e \in Storing
  BY <1>1 DEF Storing
<1>4. /\ IsFiniteSet(Storing') /\ Cardinality(Storing') = Cardinality(Storing) - 1
      /\ Cardinality(Storing) \in Nat /\ Cardinality(Storing') \in Nat
  <2>1. IsFiniteSet(Storing \ {e}) /\ Cardinality(Storing \ {e}) = Cardinality(Storing) - 1
    BY <1>2, <1>3, FS_RemoveElement
  <2>2. Cardinality(Storing) \in Nat /\ Cardinality(Storing \ {e}) \in Nat
    BY <1>2, <2>1, FS_CardinalityType
  <2> QED BY <1>3, <2>1, <2>2
<1>5. made' = emitted' + Cardinality(Storing') /\ emitted' \in Nat /\ emitted' <= made'
  BY <1>0, <1>2, <1>4
<1>6. \A f \in Emitters : em'[f].pc # "idle" => em'[f].ts \in Instants
  BY <1>1, <1>2
<1>7. em[e].ts \in Instants
  BY <1>2
<1> QED BY <1>0, <1>1, <1>2, <1>4, <1>5, <1>6, <1>7 DEF MadeIsEmitted

LEMMA EmitQueued ==
  ASSUME Kernel, NEW e \in Emitters, Emit(e), Len(ch) < Buffer
  PROVE  Kernel'
<1>0. /\ ch \in Seq(Instants) /\ lost \in [Reasons -> Seq(Instants)] /\ firstDropAt \in 0 .. MaxClock
      /\ raced \in BOOLEAN /\ (~raced => RaceStill) /\ (~raced => LossStamped) /\ EventsAccounted
  BY KernelTypes
<1>1. /\ em[e].pc = "stored" /\ emitted' = emitted + 1 /\ ch' = Append(ch, em[e].ts)
      /\ em' = [em EXCEPT ![e].pc = "idle"]
      /\ UNCHANGED <<wall, written, st, lp, gaps, closer, hint, made, lost, firstDropAt, raced>>
  BY DEF Emit, loopVars
<1>2. /\ MadeIsEmitted' /\ emitted' \in Nat /\ made' \in Nat /\ emitted' <= made' /\ made' <= MaxEvents
      /\ em' \in [Emitters -> EmType] /\ em[e].ts \in Instants
      /\ em'[e].pc = "idle" /\ \A f \in Emitters : f # e => em'[f] = em[f]
  BY <1>1, EmitFacts
<1>3. ch' \in Seq(Instants) /\ Len(ch') = Len(ch) + 1 /\ Len(ch) \in Nat
  BY <1>0, <1>1, <1>2
<1>4. Len(ch') <= Buffer
  BY <1>3, Clock
<1>5. EventsAccounted'
  <2>1. PICK h \in {0, 1} : h = IF lp.hand = 0 THEN 0 ELSE 1
    OBVIOUS
  <2>2. emitted = written + Losses("full") + Losses("write") + Losses("oversize") + Losses("closing") + Len(ch) + h
    BY <1>0, <2>1, AccountsTold
  <2>3. emitted' = written + Losses("full") + Losses("write") + Losses("oversize") + Losses("closing") + Len(ch') + h
    BY SMTT(30), <1>1, <1>3, <2>2, CountNats
  <2> QED BY <1>1, <2>1, <2>3 DEF EventsAccounted, Losses
<1>6. \A f \in Emitters : (em'[f].pc = "noting" <=> em[f].pc = "noting") /\ (em[f].pc = "noting" => em'[f].ts = em[f].ts)
  BY <1>1, <1>2
<1>7. RaceStill => RaceStill'
  BY <1>1, <1>6 DEF RaceStill, InGap
<1>8. LossStamped => LossStamped'
  BY <1>1, <1>6 DEF LossStamped, Stamped
<1>9. \A k \in Counted : Len(lost[k]) <= Len(lost'[k])
  BY <1>1, CountNats
<1> QED BY <1>0, <1>1, <1>2, <1>3, <1>4, <1>5, <1>7, <1>8, <1>9, EmitterTurns

LEMMA EmitLost ==
  ASSUME Kernel, NEW e \in Emitters, Emit(e), ~(Len(ch) < Buffer)
  PROVE  Kernel'
<1>0. /\ ch \in Seq(Instants) /\ lost \in [Reasons -> Seq(Instants)] /\ firstDropAt \in 0 .. MaxClock
      /\ raced \in BOOLEAN /\ (~raced => LossStamped) /\ EventsAccounted /\ st \in StType
  BY KernelTypes
<1>1. /\ em[e].pc = "stored" /\ emitted' = emitted + 1 /\ lost' = Inc(lost, "full", em[e].ts)
      /\ em' = [em EXCEPT ![e].pc = "noting"] /\ raced' = (raced \/ InGap)
      /\ UNCHANGED <<wall, written, st, lp, gaps, closer, hint, made, ch, firstDropAt>>
  BY DEF Emit, loopVars
<1>2. /\ MadeIsEmitted' /\ emitted' \in Nat /\ made' \in Nat /\ emitted' <= made' /\ made' <= MaxEvents
      /\ em' \in [Emitters -> EmType] /\ em[e].ts \in Instants
      /\ em'[e].pc = "noting" /\ em'[e].ts = em[e].ts /\ \A f \in Emitters : f # e => em'[f] = em[f]
  BY <1>1, EmitFacts
<1>3. PICK v \in Instants : v = em[e].ts
  BY <1>2
<1>4. PICK full \in Reasons : full = "full"
  BY DEF Reasons, Counted
<1>5. /\ lost' \in [Reasons -> Seq(Instants)] /\ lost'[full] = Append(lost[full], v)
      /\ Len(lost'[full]) = Len(lost[full]) + 1
      /\ \A s \in Reasons : s # full => lost'[s] = lost[s]
  BY <1>0, <1>1, <1>3, <1>4, IncTells
<1>6. ASSUME NEW k \in Counted PROVE Len(lost[k]) <= Len(lost'[k])
  <2>1. k \in Reasons /\ Len(lost[k]) \in Nat
    BY CountNats DEF Reasons
  <2>2. CASE k = full
    BY <1>5, <2>1, <2>2
  <2>3. CASE k # full
    BY <1>5, <2>1, <2>3
  <2> QED BY <2>2, <2>3
<1>7. lost'["write"] = lost["write"] /\ lost'["oversize"] = lost["oversize"] /\ lost'["closing"] = lost["closing"]
  BY <1>4, <1>5 DEF Reasons, Counted
<1>8. EventsAccounted'
  <2>1. PICK h \in {0, 1} : h = IF lp.hand = 0 THEN 0 ELSE 1
    OBVIOUS
  <2>2. emitted = written + Losses("full") + Losses("write") + Losses("oversize") + Losses("closing") + Len(ch) + h
    BY <1>0, <2>1, AccountsTold
  <2>3. emitted' = written + (Losses("full") + 1) + Losses("write") + Losses("oversize") + Losses("closing") + Len(ch) + h
    BY SMTT(30), <1>1, <2>2, CountNats
  <2>4. Losses("full")' = Losses("full") + 1
    BY <1>4, <1>5 DEF Losses
  <2>5. Losses("write")' = Losses("write") /\ Losses("oversize")' = Losses("oversize") /\ Losses("closing")' = Losses("closing")
    BY <1>7 DEF Losses
  <2>6. emitted' = written + Losses("full")' + Losses("write")' + Losses("oversize")' + Losses("closing")' + Len(ch) + h
    BY <2>3, <2>4, <2>5
  <2> QED BY <1>1, <2>1, <2>6 DEF EventsAccounted, Losses
<1>9. raced' \in BOOLEAN /\ (raced => raced') /\ (~raced' => ~raced /\ ~InGap)
  BY <1>1
<1>10. ~raced' => RaceStill'
  BY <1>1, <1>9 DEF RaceStill, InGap
<1>11. ASSUME LossStamped PROVE LossStamped'
  <2> SUFFICES ASSUME NEW k \in Counted, NEW i \in (st.announced[k] + 1) .. Len(lost'[k]), NEW ts, ts = lost'[k][i]
               PROVE  Stamped(ts)'
    BY <1>1 DEF LossStamped, Stamped
  <2>1. k \in Reasons /\ lost[k] \in Seq(Instants) /\ Len(lost[k]) \in Nat /\ st.announced[k] \in Nat
    BY <1>0, Counts DEF StType
  <2>2. CASE k = full /\ i = Len(lost[k]) + 1
    <3>1. ts = v
      BY <1>5, <2>1, <2>2
    <3> QED BY <1>2, <1>3, <3>1 DEF Stamped
  <2>3. CASE ~(k = full /\ i = Len(lost[k]) + 1)
    <3>1. i \in (st.announced[k] + 1) .. Len(lost[k]) /\ i \in 1 .. Len(lost[k])
      <4>1. CASE k = full
        BY <1>5, <2>1, <2>3, <4>1
      <4>2. CASE k # full
        BY <1>5, <2>1, <4>2
      <4> QED BY <4>1, <4>2
    <3>2. ts = lost[k][i]
      <4>1. CASE k = full
        BY <1>5, <2>1, <3>1, <4>1
      <4>2. CASE k # full
        BY <1>5, <2>1, <4>2
      <4> QED BY <4>1, <4>2
    <3>3. Stamped(ts)
      BY <1>11, <3>1, <3>2 DEF LossStamped
    <3> QED BY <1>1, <1>2, <3>3 DEF Stamped
  <2> QED BY <2>2, <2>3
<1> QED BY <1>0, <1>1, <1>2, <1>5, <1>6, <1>7, <1>8, <1>9, <1>10, <1>11, EmitterTurns DEF Kernel, TelemetryTypeOK

LEMMA NoteKeeps == ASSUME Kernel, NEW e \in Emitters, NoteDrop(e) PROVE Kernel'
<1>0. /\ ch \in Seq(Instants) /\ lost \in [Reasons -> Seq(Instants)] /\ firstDropAt \in 0 .. MaxClock
      /\ em \in [Emitters -> EmType] /\ emitted \in Nat /\ made \in Nat
      /\ raced \in BOOLEAN /\ (~raced => LossStamped) /\ EventsAccounted /\ st \in StType
  BY KernelTypes
<1>1. /\ em[e].pc = "noting" /\ firstDropAt' = Earliest(firstDropAt, em[e].ts)
      /\ em' = [em EXCEPT ![e].pc = "idle"] /\ raced' = (raced \/ InGap)
      /\ UNCHANGED <<wall, written, st, lp, gaps, closer, hint, made, emitted, ch, lost>>
  BY DEF NoteDrop, loopVars
<1>2. /\ em' \in [Emitters -> EmType] /\ em'[e].pc = "idle" /\ \A f \in Emitters : f # e => em'[f] = em[f]
  BY <1>0, <1>1 DEF EmType
<1>3. /\ IsFiniteSet(Storing) /\ made = emitted + Cardinality(Storing) /\ made <= MaxEvents /\ emitted <= made
      /\ (\A f \in Emitters : em[f].pc # "idle" => em[f].ts \in Instants) /\ Len(ch) <= Buffer
  BY DEF Kernel, MadeIsEmitted, TelemetryTypeOK
<1>4. MadeIsEmitted'
  <2>1. Storing' = Storing
    BY <1>1, <1>2 DEF Storing
  <2>2. \A f \in Emitters : em'[f].pc # "idle" => em'[f].ts \in Instants
    BY <1>2, <1>3
  <2> QED BY <1>1, <1>3, <2>1, <2>2 DEF MadeIsEmitted
<1>5. EventsAccounted'
  BY <1>0, <1>1 DEF EventsAccounted
<1>6. PICK v \in Instants : v = em[e].ts
  BY <1>1, <1>3
<1>7. /\ firstDropAt' \in 0 .. MaxClock /\ firstDropAt' # 0 /\ firstDropAt' <= v
      /\ (firstDropAt # 0 => firstDropAt' <= firstDropAt)
  BY <1>0, <1>1, <1>6, EarliestTells
<1>8. raced' \in BOOLEAN /\ (raced => raced') /\ (~raced' => ~raced /\ ~InGap)
  BY <1>1
<1>9. ~raced' => RaceStill'
  BY <1>1, <1>8 DEF RaceStill, InGap
<1>10. ASSUME LossStamped PROVE LossStamped'
  <2> SUFFICES ASSUME NEW k \in Counted, NEW i \in (st.announced[k] + 1) .. Len(lost[k]), NEW ts, ts = lost[k][i]
               PROVE  Stamped(ts)'
    BY <1>1 DEF LossStamped, Stamped
  <2>1. Stamped(ts)
    BY <1>10 DEF LossStamped
  <2>2. lost[k] \in Seq(Instants) /\ Len(lost[k]) \in Nat /\ st.announced[k] \in Nat
    BY <1>0, Counts DEF StType
  <2>3. i \in 1 .. Len(lost[k])
    BY <2>2
  <2>4. ts \in Nat
    BY <2>2, <2>3, Clock
  <2>5. CASE firstDropAt # 0 /\ firstDropAt <= ts
    <3>1. firstDropAt' <= ts
      BY <1>0, <1>7, <2>4, <2>5, Clock
    <3> QED BY <1>7, <3>1 DEF Stamped
  <2>6. ASSUME NEW f \in Emitters, em[f].pc = "noting" /\ em[f].ts = ts PROVE Stamped(ts)'
    <3>1. CASE f = e
      BY <1>6, <1>7, <2>6, <3>1 DEF Stamped
    <3>2. CASE f # e
      BY <1>2, <2>6, <3>2 DEF Stamped
    <3> QED BY <3>1, <3>2
  <2> QED BY <2>1, <2>5, <2>6 DEF Stamped
<1>11. \A k \in Counted : Len(lost[k]) <= Len(lost'[k])
  BY <1>1, CountNats
<1> QED BY <1>0, <1>1, <1>2, <1>3, <1>4, <1>5, <1>7, <1>8, <1>9, <1>10, <1>11, EmitterTurns

LEMMA KernelNext == Kernel /\ [TelNext]_telVars => Kernel'
<1> SUFFICES ASSUME Kernel, [TelNext]_telVars PROVE Kernel'
  OBVIOUS
<1>1. CASE WallTick \/ Close \/ BudgetSpent \/ CloseReturns
  BY <1>1, OutsideKeeps
<1>2. ASSUME NEW e \in Emitters, StoreRecord(e) \/ Emit(e) \/ NoteDrop(e) PROVE Kernel'
  BY <1>2, StoreKeeps, EmitQueued, EmitLost, NoteKeeps
<1>3. CASE LoopStep
  <2>1. CASE LoopTop \/ Dialled \/ DialFails \/ RetryFires \/ SelectQuit \/ DrainGivesUp \/ LoopDone
    BY <2>1, LoopTurns
  <2>2. CASE SendGap \/ ReadDrops \/ NothingLost \/ GapFails
    BY <2>2, SendGapKeeps, ReadDropsKeeps, NothingLostKeeps, GapFailsKeeps
  <2>3. CASE GapWritten \/ Announce \/ ClearAndRecover
    BY <2>3, GapWrittenKeeps, AnnounceKeeps, ClearKeeps
  <2>4. CASE Take \/ DrainTake \/ Discard
    BY <2>4, TakeKeeps, DiscardKeeps
  <2>5. CASE Send
    BY <2>5, SentKeeps, OversizeKeeps, WriteFailsKeeps DEF Send
  <2>6. CASE DrainSend
    BY <2>6, SentKeeps, OversizeKeeps, WriteFailsKeeps DEF DrainSend
  <2> QED BY <1>3, <2>1, <2>2, <2>3, <2>4, <2>5, <2>6 DEF LoopStep
<1>4. CASE UNCHANGED telVars
  <2>1. UNCHANGED <<em, made, emitted, ch, lost, firstDropAt, written, gaps, wall, lp, st, raced, closer, hint>>
    BY <1>4 DEF telVars, emitVars, loopVars
  <2>2. LoopTells' /\ GapTells'
    BY <2>1, KernelTypes DEF LoopTells, GapTells
  <2>3. ~raced' => RaceStill'
    BY <2>1, KernelTypes DEF RaceStill, InGap
  <2> QED BY <2>1, <2>2, <2>3, KernelTypes, Quiet
<1> QED BY <1>1, <1>2, <1>3, <1>4 DEF TelNext

(* The GELF sink's bookkeeping: who holds each event, what the counters,   *)
(* the stamp and the loop's place tell of each other, and what the gap     *)
(* messages have admitted (Emit, sendGap, announced, noteDrop, loop,       *)
(* drain), at every instant.                                               *)
THEOREM KernelAlways == TelSpec => []Kernel
<1>1. TelInit => Kernel
  BY KernelInit
<1>2. Kernel /\ [TelNext]_telVars => Kernel'
  BY KernelNext
<1> QED BY <1>1, <1>2, PTL DEF TelSpec

(* Every event Emit took is shipped, held or counted, and every loss is    *)
(* admitted once, before anything else is written on the connection and in *)
(* a window that reaches back to it: for any number of request goroutines, *)
(* any queue and any failures of the destination (sendGap, announced,      *)
(* widenToFirstDrop, loop).                                                *)
THEOREM LossAlwaysAdmitted == TelSpec => []LossIsAdmitted
<1>1. Kernel => LossIsAdmitted
  <2> SUFFICES ASSUME Kernel PROVE LossIsAdmitted
    OBVIOUS
  <2>1. TelemetryTypeOK /\ EventsAccounted /\ WindowCoversLoss /\ GapTells /\ Running /\ gaps \in Seq(GapType)
    BY KernelTypes DEF Kernel
  <2>2. GapGoesFirst
    BY <2>1 DEF GapGoesFirst, GapTells
  <2>3. LossAdmittedOnce
    <3> SUFFICES ASSUME NEW k \in Counted
                 PROVE  /\ AdmittedOf(k, gaps) = IF lp.pc = "announce" THEN lp.now[k] ELSE st.announced[k]
                        /\ AdmittedOf(k, gaps) <= Len(lost[k])
      BY DEF LossAdmittedOnce
    <3>1. Totals(k, gaps, SoFar(k)) /\ SoFar(k) <= Len(lost[k])
      BY <2>1 DEF Running
    <3>2. AdmittedOf(k, gaps) = SoFar(k)
      BY <2>1, <3>1, TotalsTell
    <3> QED BY <3>1, <3>2 DEF SoFar
  <2> QED BY <2>1, <2>2, <2>3 DEF LossIsAdmitted
<1> QED BY <1>1, KernelAlways, PTL

-----------------------------------------------------------------------------
(* The lives of the backends, and what is told of them.                    *)

(* An empty report is a report.                                            *)
LEMMA NoReportIs ==
  /\ NoReport \in Reports /\ NoReport.pc = "idle" /\ NoReport.events = {} /\ NoReport.round = FALSE
  /\ Unknown \in Lives /\ Unknown.known = FALSE /\ Unknown.live = FALSE
  /\ 0 \in 0 .. MaxDials /\ 1 \in 0 .. MaxDials /\ 0 \in 0 .. MaxListed /\ 1 \in 0 .. MaxListed
<1>1. 0 \in 0 .. MaxDials /\ 1 \in 0 .. MaxDials /\ 0 \in 0 .. MaxListed /\ 1 \in 0 .. MaxListed
  BY StatusAssumption
<1> QED BY <1>1 DEF NoReport, Reports, Unknown, Lives

(* What an observation leaves of a backend.                                *)
LEMMA ObservedIs ==
  ASSUME lives \in [Backends -> Lives], NEW b \in Backends, NEW live \in BOOLEAN,
         NEW cause \in {"", "not_listed", "held_back", "not_brought_up", "process_gone"}
  PROVE  /\ observeLive(b, live, cause) \in Lives
         /\ observeLive(b, live, cause).known = TRUE /\ observeLive(b, live, cause).live = live
         /\ live => observeLive(b, live, cause).cause = ""
BY DEF observeLive, Life, Lives

(* The rows under way that are of one backend.                             *)
LEMMA PendingIs ==
  ASSUME NEW b
  PROVE  \A e : e \in Unwritten(b) <=> e.backend = b /\ \E q \in Reporters : e \in report[q].events
BY DEF Unwritten

(* A report that takes no rows up and has none to begin with.              *)
LEMMA FlightStands ==
  ASSUME report \in [Reporters -> Reports], NEW r \in Reporters, NEW x, Becomes(r, x), report[r].events = {},
         x.events = {}
  PROVE  \A q \in Reporters : report'[q].events = report[q].events
BY DEF Becomes

(* Nothing is told while the rows, the trail and the lives stand.          *)
LEMMA TellingStands ==
  ASSUME LastChangeIsTold, \A q \in Reporters : report'[q].events = report[q].events,
         UNCHANGED <<lives, doubtful, healthTrail>>
  PROVE  LastChangeIsTold'
<1>1. ASSUME NEW b \in Backends PROVE Unwritten(b)' = Unwritten(b) /\ StateOf(b)' = StateOf(b)
  BY DEF Unwritten, StateOf
<1> QED BY <1>1 DEF LastChangeIsTold

LEMMA NoLater == \A n \in Nat : n <= n /\ n + 1 \in Nat /\ n <= n + 1
OBVIOUS

(* The reports, after one of them has gone a step.                         *)
LEMMA ReportsStep ==
  ASSUME StatTypes, RowsAreOrderly, CopiesAreOfThePast, NEW r \in Reporters, NEW x \in Reports, Becomes(r, x),
         x.pc # "rows" => x.events = {}, x.pc = "out" => x.of \in Backends, running \/ running',
         UNCHANGED running \/ running',
         refreshed' \in Nat, refreshed <= refreshed', x.round /\ x.pc = "write" => x.at <= refreshed'
  PROVE  /\ report' \in [Reporters -> Reports]
         /\ \A q \in Reporters : /\ report'[q].pc # "rows" => report'[q].events = {}
                                 /\ ~running' => report'[q] = NoReport
                                 /\ report'[q].pc = "out" => report'[q].of \in Backends
                                 /\ report'[q].round /\ report'[q].pc = "write" => report'[q].at <= refreshed'
<1>1. report \in [Reporters -> Reports] /\ report' = [report EXCEPT ![r] = x]
  BY DEF StatTypes, Becomes
<1>2. report' \in [Reporters -> Reports]
  BY <1>1
<1>3. ASSUME NEW q \in Reporters
      PROVE  /\ report'[q].pc # "rows" => report'[q].events = {}
             /\ ~running' => report'[q] = NoReport
             /\ report'[q].pc = "out" => report'[q].of \in Backends
             /\ report'[q].round /\ report'[q].pc = "write" => report'[q].at <= refreshed'
  <2>1. CASE q = r
    BY <1>1, <2>1
  <2>2. CASE q # r
    <3>1. report'[q] = report[q] /\ report[q] \in Reports
      BY <1>1, <2>2
    <3>2. report[q].round /\ report[q].pc = "write" => report[q].at <= refreshed
      BY DEF CopiesAreOfThePast
    <3>3. report[q].at \in Nat /\ refreshed \in Nat
      BY <3>1 DEF Reports, StatTypes
    <3>4. report[q].at <= refreshed => report[q].at <= refreshed'
      BY <3>3
    <3> QED BY <3>1, <3>2, <3>4 DEF RowsAreOrderly, StatTypes
  <2> QED BY <2>1, <2>2
<1> QED BY <1>2, <1>3

(* An observation: what changed is told by the rows it leaves, and a       *)
(* backend with no row under way before is in no doubt.                    *)
LEMMA ObservationIsTold ==
  ASSUME StatTypes, RowsAreOrderly, LastChangeIsTold, NEW r \in Reporters, NEW x \in Reports, Observes(r, x),
         report[r].events = {}, UNCHANGED healthTrail,
         \A e \in x.events : e.backend \in Backends,
         \A e, f \in x.events : e.backend = f.backend => e = f,
         \A b \in Backends : lives'[b].known =>
            \/ \E e \in x.events : e.backend = b /\ e.says = (IF lives'[b].live THEN "up" ELSE "down")
            \/ /\ lives[b].known /\ lives'[b].live = lives[b].live
               /\ \A e \in x.events : e.backend # b
  PROVE  /\ LastChangeIsTold' /\ doubtful' \subseteq Backends
         /\ \A b \in Backends \ doubtful' : \A p, q \in Reporters :
              \A e \in report'[p].events, f \in report'[q].events : e.backend = b /\ f.backend = b => p = q /\ e = f
<1> DEFINE Has(b) == \E e \in x.events : e.backend = b
<1>1. report \in [Reporters -> Reports] /\ doubtful \subseteq Backends
  BY DEF StatTypes
<1>2. \A q \in Reporters : report'[q] = IF q = r THEN x ELSE report[q]
  BY <1>1 DEF Observes, Becomes
<1>3. doubtful' = (doubtful \ {e.backend : e \in x.events})
                    \union {b \in {e.backend : e \in x.events} : Unwritten(b) # {}}
  BY DEF Observes
<1>4. doubtful' \subseteq Backends /\ \A b \in Backends : /\ Has(b) => (b \notin doubtful' <=> Unwritten(b) = {})
                                                          /\ ~Has(b) => (b \notin doubtful' <=> b \notin doubtful)
  BY <1>1, <1>3
<1>5. ASSUME NEW b \in Backends
      PROVE  \A e : e \in Unwritten(b)' <=> (e \in x.events /\ e.backend = b) \/ e \in Unwritten(b)
  <2>1. \A e : e \in Unwritten(b)' <=> e.backend = b /\ \E q \in Reporters : e \in report'[q].events
    BY DEF Unwritten
  <2> QED BY <1>2, <2>1, PendingIs
<1>6. ASSUME NEW b \in Backends, lives'[b].known, b \notin doubtful'
      PROVE  IF Unwritten(b)' = {} THEN healthTrail'[b] = StateOf(b)' ELSE \A e \in Unwritten(b)' : e.says = StateOf(b)'
  <2>1. StateOf(b)' = (IF lives'[b].live THEN "up" ELSE "down")
    BY DEF StateOf
  <2>2. CASE Has(b)
    <3>1. PICK e \in x.events : e.backend = b /\ e.says = StateOf(b)'
      BY <1>6, <2>1, <2>2
    <3>2. Unwritten(b) = {}
      BY <1>4, <1>6, <2>2
    <3>3. \A f \in Unwritten(b)' : f = e
      BY <1>5, <3>1, <3>2
    <3>4. Unwritten(b)' # {}
      BY <1>5, <3>1
    <3> QED BY <3>1, <3>3, <3>4
  <2>3. CASE ~Has(b)
    <3>1. lives[b].known /\ StateOf(b)' = StateOf(b)
      BY <1>6, <2>3 DEF StateOf
    <3>2. Unwritten(b)' = Unwritten(b)
      <4>1. \A e \in x.events : e.backend # b
        BY <2>3
      <4>2. \A e : e \in Unwritten(b)' <=> e \in Unwritten(b)
        BY <1>5, <4>1
      <4> QED BY <4>2
    <3>3. b \notin doubtful
      BY <1>4, <1>6, <2>3
    <3> QED BY <3>1, <3>2, <3>3 DEF LastChangeIsTold
  <2> QED BY <2>2, <2>3
<1>7. ASSUME NEW b \in Backends \ doubtful', NEW p \in Reporters, NEW q \in Reporters,
             NEW e \in report'[p].events, NEW f \in report'[q].events, e.backend = b, f.backend = b
      PROVE  p = q /\ e = f
  <2>1. CASE Has(b)
    <3>1. \A k \in Reporters : \A g \in report[k].events : g.backend # b
      BY <1>4, <2>1, PendingIs
    <3>2. p = r /\ q = r
      BY <1>2, <1>7, <3>1
    <3> QED BY <1>2, <1>7, <3>2
  <2>2. CASE ~Has(b)
    <3>1. p # r /\ q # r
      BY <1>2, <1>7, <2>2
    <3>2. e \in report[p].events /\ f \in report[q].events /\ b \notin doubtful
      BY <1>2, <1>4, <2>2, <3>1
    <3> QED BY <1>7, <3>2 DEF RowsAreOrderly
  <2> QED BY <2>1, <2>2
<1>8. LastChangeIsTold'
  BY <1>6 DEF LastChangeIsTold
<1> HIDE DEF Has
<1> QED BY <1>4, <1>7, <1>8

LEMMA StatInitInv == StatInit => StatInv
<1> SUFFICES ASSUME StatInit PROVE StatInv
  OBVIOUS
<1>1. \A r \in Reporters : report[r] = NoReport /\ report[r].events = {}
  BY NoReportIs DEF StatInit
<1>2. StatTypes
  <2>1. store \in [health : [Backends -> Lives], listed : [Backends -> 0 .. MaxListed], last : Nat, found : BOOLEAN]
    BY NoReportIs DEF StatInit, Nothing
  <2>2. lists \in [Backends -> 0 .. MaxListed] /\ unlisted \in [Backends -> 0 .. MaxDials]
    BY NoReportIs DEF StatInit
  <2>3. lives \in [Backends -> Lives] /\ report \in [Reporters -> Reports] /\ healthTrail \in [Backends -> {"none", "up", "down", "removed"}]
    BY NoReportIs DEF StatInit
  <2>4. \A r \in Reporters : report[r].pc # "out"
    BY NoReportIs DEF StatInit
  <2> QED BY <2>1, <2>2, <2>3, <2>4 DEF StatInit, StatTypes
<1>3. StatTypeOK
  BY NoReportIs DEF StatInit, StatTypeOK
<1>4. RowsAreOrderly
  BY <1>1, NoReportIs DEF StatInit, RowsAreOrderly
<1>5. CopiesAreOfThePast
  BY NoReportIs DEF StatInit, CopiesAreOfThePast, Nothing
<1>6. LastChangeIsTold
  BY NoReportIs DEF StatInit, LastChangeIsTold
<1> QED BY <1>2, <1>3, <1>4, <1>5, <1>6 DEF StatInv

(* The world moves.                                                        *)
LEMMA WorldKeeps ==
  ASSUME StatInv, UNCHANGED <<running, memory, report, doubtful, healthTrail, refreshed>>,
         clock' \in Nat, clock <= clock', entries' \subseteq Backends, alive' \subseteq Backends,
         lists' \in [Backends -> 0 .. MaxListed], frozen' \in BOOLEAN, store'.last = store.last,
         store' \in [health : [Backends -> Lives], listed : [Backends -> 0 .. MaxListed], last : Nat, found : BOOLEAN]
  PROVE  StatInv'
<1>1. StatTypes'
  BY DEF StatInv, StatTypes, memory
<1>2. StatTypeOK'
  BY DEF StatInv, StatTypeOK, memory, Lost
<1>3. RowsAreOrderly'
  BY DEF StatInv, RowsAreOrderly, memory
<1>4. CopiesAreOfThePast'
  <2>1. clock \in Nat /\ refreshed \in Nat /\ refreshed <= clock
    BY DEF StatInv, StatTypes, CopiesAreOfThePast
  <2>2. refreshed <= clock'
    BY <2>1
  <2> QED BY <2>2 DEF StatInv, CopiesAreOfThePast
<1>5. LastChangeIsTold'
  BY TellingStands DEF StatInv, memory
<1> QED BY <1>1, <1>2, <1>3, <1>4, <1>5 DEF StatInv

(* A report goes a step and observes nothing.                              *)
LEMMA QuietStep ==
  ASSUME StatInv, NEW r \in Reporters, NEW x \in Reports, Becomes(r, x), report[r].events = {}, x.events = {},
         x.pc = "out" => x.of \in Backends, running, dirty' \subseteq Backends,
         UNCHANGED <<clock, world, running, conn, gone, unlisted, heldBack, lives, listing, doubtful, healthTrail>>,
         refreshed' \in Nat, refreshed <= refreshed', refreshed' <= clock,
         x.round /\ x.pc = "write" => x.at <= refreshed', store'.last <= refreshed',
         store' \in [health : [Backends -> Lives], listed : [Backends -> 0 .. MaxListed], last : Nat, found : BOOLEAN]
  PROVE  StatInv'
<1>1. StatTypes /\ RowsAreOrderly /\ CopiesAreOfThePast /\ report \in [Reporters -> Reports]
  BY DEF StatInv, StatTypes
<1>2. /\ report' \in [Reporters -> Reports]
      /\ \A q \in Reporters : /\ report'[q].pc # "rows" => report'[q].events = {}
                              /\ ~running' => report'[q] = NoReport
                              /\ report'[q].pc = "out" => report'[q].of \in Backends
                              /\ report'[q].round /\ report'[q].pc = "write" => report'[q].at <= refreshed'
  BY <1>1, ReportsStep
<1>3. \A q \in Reporters : report'[q].events = report[q].events
  BY <1>1, FlightStands
<1>4. StatTypes'
  BY <1>1, <1>2 DEF StatTypes, world
<1>5. StatTypeOK'
  BY DEF StatInv, StatTypeOK, Lost
<1>6. RowsAreOrderly'
  BY <1>1, <1>2, <1>3 DEF RowsAreOrderly
<1>7. CopiesAreOfThePast'
  BY <1>2 DEF CopiesAreOfThePast
<1>8. LastChangeIsTold'
  BY <1>3, TellingStands DEF StatInv
<1> QED BY <1>4, <1>5, <1>6, <1>7, <1>8 DEF StatInv

(* A report observes.                                                      *)
LEMMA ObserveStep ==
  ASSUME StatInv, NEW r \in Reporters, NEW x \in Reports, Observes(r, x), report[r].events = {},
         x.pc # "rows" => x.events = {}, x.pc \notin {"out", "write"}, running',
         UNCHANGED <<clock, world, healthTrail, store, refreshed>>,
         \A e, f \in x.events : e.backend = f.backend => e = f,
         conn' \in [Backends -> 0 .. MaxDials], gone' \in [Backends -> 0 .. MaxDials],
         unlisted' \in [Backends -> 0 .. MaxDials], heldBack' \in BOOLEAN, lives' \in [Backends -> Lives],
         listing' \in [Backends -> 0 .. MaxListed], dirty' \subseteq Backends,
         \A b \in Backends : lives'[b].live =>
            /\ conn'[b] # 0 /\ gone'[b] # conn'[b] /\ unlisted'[b] # conn'[b]
            /\ lives'[b].cause = "" /\ lives'[b].known,
         \A b \in Backends : lives'[b].known =>
            \/ \E e \in x.events : e.backend = b /\ e.says = (IF lives'[b].live THEN "up" ELSE "down")
            \/ /\ lives[b].known /\ lives'[b].live = lives[b].live
               /\ \A e \in x.events : e.backend # b
  PROVE  StatInv'
<1>1. StatTypes /\ RowsAreOrderly /\ CopiesAreOfThePast /\ LastChangeIsTold /\ refreshed \in Nat
  BY DEF StatInv, StatTypes
<1>11. \A e \in x.events : e.backend \in Backends
  BY DEF Reports, Events
<1>2. /\ LastChangeIsTold' /\ doubtful' \subseteq Backends
      /\ \A b \in Backends \ doubtful' : \A p, q \in Reporters :
           \A e \in report'[p].events, f \in report'[q].events : e.backend = b /\ f.backend = b => p = q /\ e = f
  BY <1>1, <1>11, ObservationIsTold
<1>3. refreshed' \in Nat /\ refreshed <= refreshed'
  <2>1. refreshed' = refreshed
    OBVIOUS
  <2> QED BY <1>1, <2>1, NoLater, Zenon
<1>4. /\ report' \in [Reporters -> Reports]
      /\ \A q \in Reporters : /\ report'[q].pc # "rows" => report'[q].events = {}
                              /\ ~running' => report'[q] = NoReport
                              /\ report'[q].pc = "out" => report'[q].of \in Backends
                              /\ report'[q].round /\ report'[q].pc = "write" => report'[q].at <= refreshed'
  BY <1>1, <1>3, ReportsStep DEF Observes
<1>5. StatTypes'
  <2>1. running' \in BOOLEAN
    OBVIOUS
  <2> QED BY <1>1, <1>2, <1>4, <2>1 DEF StatTypes, world
<1>6. StatTypeOK'
  BY DEF StatTypeOK, Lost
<1>7. RowsAreOrderly'
  BY <1>2, <1>4 DEF RowsAreOrderly
<1>8. CopiesAreOfThePast'
  BY <1>1, <1>4 DEF CopiesAreOfThePast
<1> QED BY <1>2, <1>5, <1>6, <1>7, <1>8 DEF StatInv

(* A row is written, or fails to be.                                       *)
LEMMA RowLeaves ==
  ASSUME StatInv, NEW r \in Reporters, NEW e \in report[r].events, WriteRow(r, e) \/ RowFails(r, e)
  PROVE  StatInv'
<1> DEFINE x == Told1(r, e)
<1>1. StatTypes /\ RowsAreOrderly /\ CopiesAreOfThePast /\ refreshed \in Nat /\ report \in [Reporters -> Reports]
      /\ doubtful \subseteq Backends /\ healthTrail \in [Backends -> {"none", "up", "down", "removed"}]
  BY DEF StatInv, StatTypes
<1>2. /\ Becomes(r, x) /\ running /\ report[r].pc = "rows"
      /\ UNCHANGED <<clock, world, running, memory, store, refreshed>>
  BY DEF WriteRow, RowFails
<1>3. report[r] \in Reports
  BY <1>1
<1>4. x \in Reports /\ x.pc = "rows" /\ x.events = report[r].events \ {e}
  BY <1>2, <1>3 DEF Reports, Told1
<1>5. e.backend \in Backends /\ e.says \in {"none", "up", "down", "removed"}
  BY <1>3 DEF Reports, Events
<1> HIDE DEF x
<1>6. refreshed' \in Nat /\ refreshed <= refreshed'
  BY <1>1, <1>2, NoLater, Zenon
<1>7. /\ report' \in [Reporters -> Reports]
      /\ \A q \in Reporters : /\ report'[q].pc # "rows" => report'[q].events = {}
                              /\ ~running' => report'[q] = NoReport
                              /\ report'[q].pc = "out" => report'[q].of \in Backends
                              /\ report'[q].round /\ report'[q].pc = "write" => report'[q].at <= refreshed'
  BY <1>1, <1>2, <1>4, <1>6, ReportsStep
<1>8. /\ \A q \in Reporters : report'[q].events = IF q = r THEN report[r].events \ {e} ELSE report[q].events
      /\ \A q \in Reporters : report'[q].events \subseteq report[q].events
  BY <1>1, <1>2, <1>4 DEF Becomes
<1>9. /\ doubtful \subseteq doubtful' /\ doubtful' \subseteq Backends
      /\ healthTrail' \in [Backends -> {"none", "up", "down", "removed"}]
      /\ \A b \in Backends : b # e.backend => healthTrail'[b] = healthTrail[b]
      /\ e.backend \notin doubtful' => healthTrail'[e.backend] = e.says
  BY <1>1, <1>5 DEF WriteRow, RowFails
<1>10. StatTypes'
  BY <1>1, <1>2, <1>7, <1>9 DEF StatTypes, world, memory
<1>11. StatTypeOK'
  BY <1>2 DEF StatInv, StatTypeOK, Lost, memory
<1>12. RowsAreOrderly'
  <2>1. \A b \in Backends \ doubtful' : \A p, q \in Reporters :
          \A c \in report'[p].events, f \in report'[q].events : c.backend = b /\ f.backend = b => p = q /\ c = f
    BY <1>1, <1>8, <1>9 DEF RowsAreOrderly
  <2>2. \A b \in Backends : ~lives'[b].known => ~lives'[b].live
    BY <1>1, <1>2 DEF RowsAreOrderly, memory
  <2> QED BY <1>7, <2>1, <2>2 DEF RowsAreOrderly
<1>13. CopiesAreOfThePast'
  BY <1>1, <1>2, <1>7 DEF CopiesAreOfThePast
<1>14. ASSUME NEW b \in Backends, lives[b].known, b \notin doubtful'
       PROVE  IF Unwritten(b)' = {} THEN healthTrail'[b] = StateOf(b) ELSE \A f \in Unwritten(b)' : f.says = StateOf(b)
  <2>1. b \notin doubtful
    BY <1>9, <1>14
  <2>2. IF Unwritten(b) = {} THEN healthTrail[b] = StateOf(b) ELSE \A f \in Unwritten(b) : f.says = StateOf(b)
    BY <1>14, <2>1 DEF StatInv, LastChangeIsTold
  <2>3. \A f : f \in Unwritten(b)' <=> f.backend = b /\ \E q \in Reporters : f \in report'[q].events
    BY DEF Unwritten
  <2>4. \A f : f \in Unwritten(b) <=> f.backend = b /\ \E q \in Reporters : f \in report[q].events
    BY PendingIs
  <2>5. CASE e.backend = b
    <3>1. e \in Unwritten(b)
      BY <2>4, <2>5
    <3>2. e.says = StateOf(b)
      BY <2>2, <3>1
    <3>3. Unwritten(b)' = {}
      <4>1. ASSUME NEW f \in Unwritten(b)' PROVE FALSE
        <5>1. PICK q \in Reporters : f \in report'[q].events /\ f.backend = b
          BY <2>3
        <5>2. f \in report[q].events
          BY <1>8, <5>1
        <5>3. q = r /\ f = e
          BY <1>1, <2>1, <2>5, <5>1, <5>2 DEF RowsAreOrderly
        <5> QED BY <1>8, <5>1, <5>3
      <4> QED BY <4>1
    <3> QED BY <1>9, <1>14, <2>5, <3>2, <3>3
  <2>6. CASE e.backend # b
    <3>1. \A f : f.backend = b => f # e
      BY <2>6
    <3>2. Unwritten(b)' = Unwritten(b)
      BY <1>8, <2>3, <2>4, <3>1
    <3> QED BY <1>9, <2>2, <2>6, <3>2
  <2> QED BY <2>5, <2>6
<1>15. LastChangeIsTold'
  BY <1>2, <1>14 DEF LastChangeIsTold, memory, StateOf
<1> QED BY <1>10, <1>11, <1>12, <1>13, <1>15 DEF StatInv

(* The steps of a report after its rows.                                   *)
LEMMA CopyKeeps ==
  ASSUME StatInv, NEW r \in Reporters, Copy(r)
  PROVE  StatInv'
<1> DEFINE known == {<<b, lives[b]>> : b \in {c \in Backends : lives[c].known}}
           fresh == {<<b, listing[b]>> : b \in dirty}
           x == [report[r] EXCEPT !.pc = "write", !.at = clock, !.health = known, !.listed = fresh]
<1>1. /\ clock \in Nat /\ refreshed \in Nat /\ refreshed <= clock /\ report[r] \in Reports
      /\ lives \in [Backends -> Lives] /\ dirty \subseteq Backends /\ listing \in [Backends -> 0 .. MaxListed]
      /\ store.last <= refreshed /\ store.last \in Nat
      /\ store \in [health : [Backends -> Lives], listed : [Backends -> 0 .. MaxListed], last : Nat, found : BOOLEAN]
  BY DEF StatInv, StatTypes, StatTypeOK, CopiesAreOfThePast
<1>2. /\ Becomes(r, x) /\ running /\ report[r].events = {}
      /\ refreshed' = IF report[r].round THEN clock ELSE refreshed
      /\ UNCHANGED <<clock, left, world, running, memory, doubtful, healthTrail, store>>
  BY DEF Copy
<1>3. report[r].events = {}
  BY <1>2
<1>4. known \subseteq Backends \X Lives /\ fresh \subseteq Backends \X (0 .. MaxListed)
  BY <1>1
<1> HIDE DEF known, fresh
<1>5. x \in Reports /\ x.pc = "write" /\ x.events = {} /\ x.round = report[r].round /\ x.at = clock
  BY <1>1, <1>3, <1>4 DEF Reports
<1> HIDE DEF x
<1>6. refreshed' \in Nat /\ refreshed <= refreshed' /\ refreshed' <= clock /\ store.last <= refreshed'
  BY <1>1, <1>2
<1>7. x.round /\ x.pc = "write" => x.at <= refreshed'
  BY <1>1, <1>2, <1>5
<1>8. dirty' \subseteq Backends /\ store' = store
      /\ UNCHANGED <<clock, world, running, conn, gone, unlisted, heldBack, lives, listing, doubtful, healthTrail>>
  BY <1>1, <1>2 DEF memory
<1> QED BY <1>1, <1>2, <1>3, <1>5, <1>6, <1>7, <1>8, QuietStep

LEMMA Next1Is ==
  ASSUME NEW r
  PROVE  /\ Next1(r) \in Reports /\ Next1(r).pc \notin {"write", "rows", "out"} /\ Next1(r).events = {}
<1>1. [NoReport EXCEPT !.pc = "refresh"] \in Reports /\ [NoReport EXCEPT !.pc = "refresh"].pc = "refresh"
      /\ [NoReport EXCEPT !.pc = "refresh"].events = {}
  BY NoReportIs DEF Reports
<1> QED BY <1>1, NoReportIs DEF Next1

LEMMA WriteStateKeeps ==
  ASSUME StatInv, NEW r \in Reporters, WriteState(r)
  PROVE  StatInv'
<1> DEFINE x == [report[r] EXCEPT !.pc = "clear", !.health = {}]
<1>1. /\ clock \in Nat /\ refreshed \in Nat /\ refreshed <= clock /\ report[r] \in Reports /\ dirty \subseteq Backends
      /\ store.last <= refreshed /\ store.last \in Nat /\ store.found \in BOOLEAN
      /\ store.listed \in [Backends -> 0 .. MaxListed]
  BY DEF StatInv, StatTypes, StatTypeOK, CopiesAreOfThePast
<1>2. /\ Becomes(r, x) /\ running /\ report[r].pc = "write"
      /\ UNCHANGED <<clock, left, world, running, memory, doubtful, healthTrail, refreshed>>
  BY DEF WriteState
<1>3. report[r].events = {} /\ (report[r].round => report[r].at <= refreshed)
  BY <1>2 DEF StatInv, RowsAreOrderly, CopiesAreOfThePast
<1>4. x \in Reports /\ x.pc = "clear" /\ x.events = {}
  BY <1>1, <1>3 DEF Reports
<1> HIDE DEF x
<1>5. report[r].health \subseteq Backends \X Lives /\ report[r].listed \subseteq Backends \X (0 .. MaxListed)
      /\ report[r].at \in Nat /\ report[r].round \in BOOLEAN
  BY <1>1 DEF Reports
<1>6. ASSUME NEW b \in Backends PROVE HealthRows(r, b) \in Lives
  <2>1. CASE \E l \in report[r].health : l[1] = b
    <3>1. (CHOOSE l \in report[r].health : l[1] = b) \in report[r].health
      BY <2>1
    <3> QED BY <1>5, <2>1, <3>1 DEF HealthRows
  <2>2. CASE ~\E l \in report[r].health : l[1] = b
    BY <2>2, NoReportIs DEF HealthRows
  <2> QED BY <2>1, <2>2
<1>7. ASSUME NEW b \in Backends
      PROVE  (IF \E l \in report[r].listed : l[1] = b
              THEN (CHOOSE l \in report[r].listed : l[1] = b)[2] ELSE store.listed[b]) \in 0 .. MaxListed
  <2>1. CASE \E l \in report[r].listed : l[1] = b
    <3>1. (CHOOSE l \in report[r].listed : l[1] = b) \in report[r].listed
      BY <2>1
    <3> QED BY <1>5, <2>1, <3>1
  <2>2. CASE ~\E l \in report[r].listed : l[1] = b
    BY <1>1, <2>2
  <2> QED BY <2>1, <2>2
<1> DEFINE h == [b \in Backends |-> HealthRows(r, b)]
           d == [b \in Backends |-> IF \E l \in report[r].listed : l[1] = b
                                    THEN (CHOOSE l \in report[r].listed : l[1] = b)[2] ELSE store.listed[b]]
           last == IF SaysRound(r) THEN report[r].at ELSE store.last
           found == store.found \/ SaysRound(r)
<1>8. store' = [health |-> h, listed |-> d, last |-> last, found |-> found]
  BY DEF WriteState
<1>9. h \in [Backends -> Lives] /\ d \in [Backends -> 0 .. MaxListed]
  BY <1>6, <1>7
<1>10. last \in Nat /\ last <= refreshed
  BY <1>1, <1>3, <1>5 DEF SaysRound
<1>11. found \in BOOLEAN
  OBVIOUS
<1> HIDE DEF h, d, last, found
<1>12. /\ store' \in [health : [Backends -> Lives], listed : [Backends -> 0 .. MaxListed], last : Nat, found : BOOLEAN]
       /\ store'.last <= refreshed
  BY <1>8, <1>9, <1>10, <1>11
<1>13. /\ dirty' \subseteq Backends /\ refreshed' = refreshed
       /\ UNCHANGED <<clock, world, running, conn, gone, unlisted, heldBack, lives, listing, doubtful, healthTrail>>
  BY <1>1, <1>2 DEF memory
<1> QED BY <1>1, <1>2, <1>3, <1>4, <1>12, <1>13, NoLater, QuietStep

(* A report ends, or a call does.                                          *)
LEMMA ReportEnds ==
  ASSUME StatInv, NEW r \in Reporters, NEW x \in Reports, Becomes(r, x), running, report[r].pc # "rows",
         x.events = {}, x.pc # "write", x.pc = "out" => x.of \in Backends, dirty' \subseteq Backends,
         UNCHANGED <<clock, world, running, conn, gone, unlisted, heldBack, lives, listing, doubtful, healthTrail,
                     store, refreshed>>
  PROVE  StatInv'
<1>1. /\ refreshed \in Nat /\ refreshed <= clock /\ store.last <= refreshed
      /\ store \in [health : [Backends -> Lives], listed : [Backends -> 0 .. MaxListed], last : Nat, found : BOOLEAN]
  BY DEF StatInv, StatTypes, CopiesAreOfThePast
<1>2. report[r].events = {}
  BY DEF StatInv, RowsAreOrderly
<1>3. refreshed' = refreshed /\ store' = store
  OBVIOUS
<1>4. refreshed' \in Nat /\ refreshed <= refreshed' /\ refreshed' <= clock /\ store'.last <= refreshed'
  BY <1>1, <1>3, NoLater, Zenon
<1> QED BY <1>1, <1>2, <1>3, <1>4, QuietStep

LEMMA EndsKeep ==
  ASSUME StatInv, NEW r \in Reporters, StoreWriteFails(r) \/ Clear(r)
  PROVE  StatInv'
<1>1. Next1(r) \in Reports /\ Next1(r).pc \notin {"write", "rows", "out"} /\ Next1(r).events = {}
  BY Next1Is
<1>2. /\ Becomes(r, Next1(r)) /\ running /\ report[r].pc # "rows" /\ dirty' \subseteq dirty
      /\ UNCHANGED <<clock, world, running, conn, gone, unlisted, heldBack, lives, listing, doubtful, healthTrail,
                     store, refreshed>>
  BY DEF StoreWriteFails, Clear, memory
<1>3. dirty' \subseteq Backends
  BY <1>2 DEF StatInv, StatTypeOK
<1> QED BY <1>1, <1>2, <1>3, ReportEnds

LEMMA CallsKeep ==
  ASSUME StatInv, NEW c \in Calls, NEW b \in Backends, CallOut(c, b) \/ CallBack(c)
  PROVE  StatInv'
<1>1. c \in Reporters /\ conn[b] \in 0 .. MaxDials /\ dirty \subseteq Backends
  BY DEF Reporters, StatInv, StatTypeOK
<1>2. CASE CallOut(c, b)
  <2> DEFINE x == [NoReport EXCEPT !.pc = "out", !.of = b, !.via = conn[b]]
  <2>1. x \in Reports /\ x.pc = "out" /\ x.of = b /\ x.events = {}
    BY <1>1, NoReportIs DEF Reports
  <2>2. /\ Becomes(c, x) /\ running /\ report[c].pc # "rows"
        /\ UNCHANGED <<clock, world, running, conn, gone, unlisted, heldBack, lives, listing, doubtful, healthTrail,
                       store, refreshed, dirty>>
    BY <1>2 DEF CallOut, memory
  <2> HIDE DEF x
  <2> QED BY <1>1, <2>1, <2>2, ReportEnds
<1>3. CASE CallBack(c)
  <2>1. /\ Becomes(c, NoReport) /\ running /\ report[c].pc # "rows"
        /\ UNCHANGED <<clock, world, running, conn, gone, unlisted, heldBack, lives, listing, doubtful, healthTrail,
                       store, refreshed, dirty>>
    BY <1>3 DEF CallBack, memory
  <2> QED BY <1>1, <2>1, NoReportIs, ReportEnds
<1> QED BY <1>2, <1>3

(* Whatever the environment does.                                          *)
LEMMA EnvironmentKeeps ==
  ASSUME StatInv, Disagrees \/ ClockTick \/ \E b \in Backends : Dies(b) \/ Recovers(b) \/ ListsOther(b) \/ Deregistered(b) \/ Forget(b)
  PROVE  StatInv'
<1>1. /\ clock \in Nat /\ entries \subseteq Backends /\ alive \subseteq Backends /\ frozen \in BOOLEAN
      /\ lists \in [Backends -> 0 .. MaxListed]
      /\ store \in [health : [Backends -> Lives], listed : [Backends -> 0 .. MaxListed], last : Nat, found : BOOLEAN]
  BY DEF StatInv, StatTypes
<1>2. UNCHANGED <<running, memory, report, doubtful, healthTrail, refreshed>>
  BY DEF Disagrees, ClockTick, Dies, Recovers, ListsOther, Deregistered, Forget
<1>3. clock' \in Nat /\ clock <= clock'
  <2>1. clock' = clock \/ clock' = clock + 1
    BY DEF Disagrees, ClockTick, Dies, Recovers, ListsOther, Deregistered, Forget
  <2>2. \A n \in Nat : n + 1 \in Nat /\ n <= n + 1 /\ n <= n
    BY NoLater
  <2> QED BY <1>1, <2>1, <2>2, Zenon
<1>4. entries' \subseteq Backends /\ alive' \subseteq Backends /\ frozen' \in BOOLEAN
  <2>1. entries' \subseteq Backends
    BY <1>1 DEF Disagrees, ClockTick, Dies, Recovers, ListsOther, Deregistered, Forget, world
  <2>2. alive' \subseteq Backends
    BY <1>1 DEF Disagrees, ClockTick, Dies, Recovers, ListsOther, Deregistered, Forget, world
  <2>3. frozen' = ~frozen \/ frozen' = frozen
    BY DEF Disagrees, ClockTick, Dies, Recovers, ListsOther, Deregistered, Forget, world
  <2>4. frozen' \in BOOLEAN
    BY <1>1, <2>3
  <2> QED BY <2>1, <2>2, <2>4
<1>5. lists' \in [Backends -> 0 .. MaxListed]
  <2>1. ASSUME NEW b \in Backends, ListsOther(b) PROVE lists' \in [Backends -> 0 .. MaxListed]
    <3>1. lists[b] \in 0 .. MaxListed /\ lists[b] < MaxListed /\ lists' = [lists EXCEPT ![b] = lists[b] + 1]
      BY <1>1, <2>1 DEF ListsOther
    <3>2. lists[b] + 1 \in 0 .. MaxListed
      BY <3>1, StatusAssumption
    <3> QED BY <1>1, <3>1, <3>2
  <2>2. CASE UNCHANGED lists
    BY <1>1, <2>2
  <2> QED BY <2>1, <2>2 DEF Disagrees, ClockTick, Dies, Recovers, Deregistered, Forget, world
<1>6. /\ store' \in [health : [Backends -> Lives], listed : [Backends -> 0 .. MaxListed], last : Nat, found : BOOLEAN]
      /\ store'.last = store.last
  <2>1. ASSUME NEW b \in Backends, Forget(b)
        PROVE  /\ store' \in [health : [Backends -> Lives], listed : [Backends -> 0 .. MaxListed], last : Nat, found : BOOLEAN]
               /\ store'.last = store.last
    <3>1. store' = [store EXCEPT !.health = [store.health EXCEPT ![b] = Unknown], !.listed = [store.listed EXCEPT ![b] = 0]]
      BY <1>1, <2>1 DEF Forget
    <3>2. [store.health EXCEPT ![b] = Unknown] \in [Backends -> Lives]
          /\ [store.listed EXCEPT ![b] = 0] \in [Backends -> 0 .. MaxListed]
      BY <1>1, NoReportIs
    <3> QED BY <1>1, <3>1, <3>2
  <2>2. CASE UNCHANGED store
    BY <1>1, <2>2
  <2> QED BY <2>1, <2>2 DEF Disagrees, ClockTick, Dies, Recovers, ListsOther, Deregistered
<1> QED BY <1>2, <1>3, <1>4, <1>5, <1>6, WorldKeeps

LEMMA CrashKeeps ==
  ASSUME StatInv, Crash
  PROVE  StatInv'
<1>1. \A r \in Reporters : report'[r] = NoReport
  BY DEF Crash
<1>2. \A r \in Reporters : report'[r].events = {}
  BY <1>1, NoReportIs
<1>3. StatTypes'
  <2>1. report' \in [Reporters -> Reports] /\ \A r \in Reporters : report'[r].pc # "out"
    BY <1>1, NoReportIs DEF Crash
  <2>2. lives' \in [Backends -> Lives] /\ unlisted' \in [Backends -> 0 .. MaxDials]
    BY NoReportIs DEF Crash
  <2>3. running' \in BOOLEAN /\ heldBack' \in BOOLEAN /\ UNCHANGED <<clock, world, doubtful, healthTrail, store, refreshed>>
    BY DEF Crash
  <2> QED BY <2>1, <2>2, <2>3 DEF StatInv, StatTypes, world
<1>4. StatTypeOK'
  <2>1. \A b \in Backends : lives'[b].live = FALSE
    BY NoReportIs DEF Crash
  <2>2. conn' \in [Backends -> 0 .. MaxDials] /\ gone' \in [Backends -> 0 .. MaxDials]
        /\ listing' \in [Backends -> 0 .. MaxListed] /\ dirty' \subseteq Backends
    BY NoReportIs DEF Crash
  <2> QED BY <2>1, <2>2 DEF StatTypeOK
<1>5. RowsAreOrderly'
  <2>1. \A b \in Backends : lives'[b].live = FALSE
    BY NoReportIs DEF Crash
  <2> QED BY <1>1, <1>2, <2>1, NoReportIs DEF RowsAreOrderly
<1>6. CopiesAreOfThePast'
  <2>1. \A r \in Reporters : report'[r].round = FALSE
    BY <1>1, NoReportIs
  <2>2. UNCHANGED <<clock, store, refreshed>>
    BY DEF Crash
  <2> QED BY <2>1, <2>2 DEF StatInv, CopiesAreOfThePast
<1>7. LastChangeIsTold'
  <2>1. \A b \in Backends : lives'[b].known = FALSE
    BY NoReportIs DEF Crash
  <2> QED BY <2>1 DEF LastChangeIsTold
<1> QED BY <1>3, <1>4, <1>5, <1>6, <1>7 DEF StatInv

(* What EventsOf leaves.                                                   *)
LEMMA EventIs ==
  ASSUME StatTypes, NEW b \in Backends, NEW says \in {"up", "down", "removed"}
  PROVE  /\ Event(b, says) \in Events /\ Event(b, says).backend = b
         /\ Event(b, says).says = says
BY DEF Event, Events

(* settleHealth.                                                           *)
LEMMA SettledKeeps ==
  ASSUME StatInv, NEW now \in [Backends -> 0 .. MaxDials], NEW news \in [Backends -> 0 .. MaxDials],
         NEW still \in BOOLEAN, Settled(now, news, still), running', report["round"].events = {},
         UNCHANGED <<clock, world, gone, healthTrail, store, refreshed>>,
         listing' \in [Backends -> 0 .. MaxListed], dirty' \subseteq Backends
  PROVE  StatInv'
<1> DEFINE live(b) == (now[b] > 0 /\ gone[b] # now[b]) /\ news[b] # now[b]
           cause(b) == IF now[b] > 0 /\ gone[b] # now[b] THEN "not_listed"
                       ELSE IF still THEN "held_back" ELSE "not_brought_up"
           parted == {b \in Backends \ entries : lives[b].known}
           changed == {b \in entries : Told(b, live(b))}
           events == {Event(b, IF live(b) THEN "up" ELSE "down") : b \in changed}
                       \union {Event(b, "removed") : b \in parted}
           x == [NoReport EXCEPT !.pc = "rows", !.events = events, !.round = ~running]
<1>1. StatTypes /\ entries \subseteq Backends /\ lives \in [Backends -> Lives] /\ "round" \in Reporters
      /\ gone \in [Backends -> 0 .. MaxDials]
  BY DEF StatInv, StatTypes, StatTypeOK, Reporters
<1>2. /\ conn' = now /\ unlisted' = news /\ heldBack' = still /\ Observes("round", x)
      /\ lives' = [b \in Backends |-> IF b \in entries THEN observeLive(b, live(b), cause(b)) ELSE Unknown]
  BY DEF Settled, EventsOf
<1>3. /\ \A b \in Backends : live(b) \in BOOLEAN
      /\ \A b \in Backends : cause(b) \in {"", "not_listed", "held_back", "not_brought_up", "process_gone"}
  OBVIOUS
<1>4. \A b \in Backends : live(b) => now[b] # 0 /\ gone[b] # now[b] /\ news[b] # now[b]
  <2>1. \A b \in Backends : now[b] \in Nat
    BY StatusAssumption
  <2> QED BY <2>1
<1>5. /\ events \subseteq Events /\ \A e, f \in events : e.backend = f.backend => e = f
      /\ \A b \in changed : Event(b, IF live(b) THEN "up" ELSE "down") \in events
      /\ \A b \in entries \ changed : \A e \in events : e.backend # b
  <2>1. \A b \in changed : /\ Event(b, IF live(b) THEN "up" ELSE "down") \in Events
                           /\ Event(b, IF live(b) THEN "up" ELSE "down").backend = b
    BY <1>1, EventIs
  <2>2. \A b \in parted : Event(b, "removed") \in Events /\ Event(b, "removed").backend = b
    BY <1>1, EventIs
  <2>3. changed \intersect parted = {}
    OBVIOUS
  <2> HIDE DEF live, cause, changed, parted
  <2>4. \A e \in events : (e.backend \in changed /\ e = Event(e.backend, IF live(e.backend) THEN "up" ELSE "down"))
                           \/ (e.backend \in parted /\ e = Event(e.backend, "removed"))
    BY <2>1, <2>2
  <2>5. \A e, f \in events : e.backend = f.backend => e = f
    BY <2>3, <2>4
  <2>6. \A b \in entries \ changed : b \notin parted
    BY DEF parted
  <2>7. \A b \in entries \ changed : \A e \in events : e.backend # b
    BY <2>4, <2>6
  <2> QED BY <2>1, <2>2, <2>5, <2>7
<1> HIDE DEF live, cause, events
<1>6. x \in Reports /\ x.pc = "rows" /\ x.events = events
  <2>1. (~running) \in BOOLEAN
    OBVIOUS
  <2> QED BY <1>5, <2>1, NoReportIs DEF Reports
<1> HIDE DEF x
<1>7. ASSUME NEW b \in Backends
      PROVE  /\ lives'[b] \in Lives
             /\ b \in entries => /\ lives'[b].known = TRUE /\ lives'[b].live = live(b)
                                 /\ live(b) => lives'[b].cause = ""
             /\ b \notin entries => lives'[b] = Unknown
  BY <1>1, <1>2, <1>3, NoReportIs, ObservedIs
<1>8. lives' \in [Backends -> Lives]
  BY <1>2, <1>7
<1>9. ASSUME NEW b \in Backends, lives'[b].live
      PROVE  /\ conn'[b] # 0 /\ gone'[b] # conn'[b] /\ unlisted'[b] # conn'[b]
             /\ lives'[b].cause = "" /\ lives'[b].known
  <2>1. b \in entries
    BY <1>7, <1>9, NoReportIs
  <2> QED BY <1>2, <1>4, <1>7, <1>9, <2>1
<1>10. ASSUME NEW b \in Backends, lives'[b].known
       PROVE  \/ \E e \in x.events : e.backend = b /\ e.says = (IF lives'[b].live THEN "up" ELSE "down")
              \/ /\ lives[b].known /\ lives'[b].live = lives[b].live
                 /\ \A e \in x.events : e.backend # b
  <2>1. b \in entries
    BY <1>7, <1>10, NoReportIs
  <2>2. CASE b \in changed
    <3>1. Event(b, IF live(b) THEN "up" ELSE "down") \in events
      BY <1>5, <2>2
    <3>2. /\ Event(b, IF live(b) THEN "up" ELSE "down").backend = b
          /\ Event(b, IF live(b) THEN "up" ELSE "down").says = (IF live(b) THEN "up" ELSE "down")
      BY <1>1, EventIs
    <3> QED BY <1>6, <1>7, <2>1, <3>1, <3>2
  <2>3. CASE b \notin changed
    <3>1. lives[b].known /\ lives[b].live = live(b)
      BY <2>1, <2>3 DEF Told
    <3> QED BY <1>5, <1>6, <1>7, <2>1, <2>3, <3>1
  <2> QED BY <2>2, <2>3
<1>11. conn' \in [Backends -> 0 .. MaxDials] /\ unlisted' \in [Backends -> 0 .. MaxDials]
       /\ heldBack' \in BOOLEAN /\ gone' \in [Backends -> 0 .. MaxDials]
  BY <1>1, <1>2
<1>13. /\ x.pc # "rows" => x.events = {}
       /\ x.pc \notin {"out", "write"} /\ \A e, f \in x.events : e.backend = f.backend => e = f
  BY <1>5, <1>6
<1> HIDE DEF x
<1> QED BY <1>1, <1>2, <1>6, <1>8, <1>9, <1>10, <1>11, <1>13, ObserveStep

LEMMA ReconcileKeeps ==
  ASSUME StatInv, NEW up \in SUBSET Backends, Reconcile(up)
  PROVE  StatInv'
<1> DEFINE now == [b \in Backends |-> IF b \in up THEN conn[b] + 1 ELSE IF b \notin entries THEN 0 ELSE conn[b]]
           news == Adopted(up, now)
<1>1. /\ conn \in [Backends -> 0 .. MaxDials] /\ unlisted \in [Backends -> 0 .. MaxDials] /\ frozen \in BOOLEAN
      /\ listing \in [Backends -> 0 .. MaxListed] /\ dirty \subseteq Backends
  BY DEF StatInv, StatTypes, StatTypeOK
<1>2. /\ running /\ report["round"].pc = "idle" /\ Settled(now, news, frozen)
      /\ \A b \in up : conn[b] < MaxDials
      /\ UNCHANGED <<clock, left, world, running, gone, listing, dirty, healthTrail, store, refreshed>>
  BY DEF Reconcile
<1>3. report["round"].events = {} /\ running'
  BY <1>2 DEF StatInv, RowsAreOrderly, Reporters
<1>4. \A b \in up : conn[b] + 1 \in 0 .. MaxDials
  BY <1>1, <1>2, StatusAssumption
<1>5. now \in [Backends -> 0 .. MaxDials]
  BY <1>1, <1>4, NoReportIs
<1>6. news \in [Backends -> 0 .. MaxDials]
  BY <1>1, <1>5 DEF Adopted
<1> HIDE DEF now, news
<1>7. listing' \in [Backends -> 0 .. MaxListed] /\ dirty' \subseteq Backends
  BY <1>1, <1>2
<1> QED BY <1>1, <1>2, <1>3, <1>5, <1>6, <1>7, SettledKeeps

LEMMA ConnectKeeps ==
  ASSUME StatInv, NEW up \in SUBSET Backends, Connect(up)
  PROVE  StatInv'
<1> DEFINE now == [b \in Backends |-> IF b \in up THEN 1 ELSE 0]
           news == [b \in Backends |-> 0]
<1>1. /\ lists \in [Backends -> 0 .. MaxListed] /\ store.listed \in [Backends -> 0 .. MaxListed]
  BY DEF StatInv, StatTypes
<1>2. /\ ~running /\ running' = TRUE /\ Settled(now, news, FALSE) /\ listing' = Loaded(up) /\ dirty' = up
      /\ UNCHANGED <<clock, left, world, gone, healthTrail, store, refreshed>>
  BY DEF Connect
<1>3. report["round"].events = {}
  BY <1>2, NoReportIs DEF StatInv, RowsAreOrderly, Reporters
<1>4. now \in [Backends -> 0 .. MaxDials] /\ news \in [Backends -> 0 .. MaxDials]
  BY NoReportIs
<1> HIDE DEF now, news
<1>5. listing' \in [Backends -> 0 .. MaxListed] /\ dirty' \subseteq Backends
  BY <1>1, <1>2 DEF Loaded
<1>6. running' /\ FALSE \in BOOLEAN
  BY <1>2
<1> QED BY <1>2, <1>3, <1>4, <1>5, <1>6, SettledKeeps

(* Refresh: the dead are told, and those listed for the first time.        *)
LEMMA RefreshKeeps ==
  ASSUME StatInv, NEW missed \in SUBSET Backends, Refresh(missed)
  PROVE  StatInv'
<1> DEFINE asked == {b \in Backends : ~Lost(b)}
           dead  == asked \ alive
           seen  == asked \ (dead \union missed)
           first == FirstListed(seen)
           reason == IF heldBack THEN "held_back" ELSE "process_gone"
           changed == {b \in dead \union first : Told(b, b \in first)}
           events == {Event(b, IF b \in first THEN "up" ELSE "down") : b \in changed}
           x == [NoReport EXCEPT !.pc = "rows", !.round = TRUE, !.events = events]
<1>1. /\ StatTypes /\ lives \in [Backends -> Lives] /\ conn \in [Backends -> 0 .. MaxDials]
      /\ gone \in [Backends -> 0 .. MaxDials] /\ unlisted \in [Backends -> 0 .. MaxDials]
      /\ lists \in [Backends -> 0 .. MaxListed] /\ listing \in [Backends -> 0 .. MaxListed] /\ dirty \subseteq Backends
      /\ heldBack \in BOOLEAN /\ "round" \in Reporters
  BY DEF StatInv, StatTypes, StatTypeOK, Reporters
<1>2. /\ running /\ report["round"].pc = "refresh" /\ Observes("round", x)
      /\ gone' = [b \in Backends |-> IF b \in dead THEN conn[b] ELSE gone[b]]
      /\ unlisted' = [b \in Backends |-> IF b \in seen THEN 0 ELSE unlisted[b]]
      /\ lives' = [b \in Backends |-> IF b \in first THEN observeLive(b, TRUE, "")
                                      ELSE IF b \in dead THEN observeLive(b, FALSE, reason) ELSE lives[b]]
      /\ listing' = [b \in Backends |-> IF b \in seen THEN lists[b] ELSE listing[b]]
      /\ dirty' = dirty \union seen
      /\ UNCHANGED <<clock, world, running, conn, heldBack, healthTrail, store, refreshed>>
  BY DEF Refresh, EventsOf
<1>3. /\ dead \subseteq Backends /\ seen \subseteq Backends /\ first \subseteq seen /\ dead \intersect seen = {}
      /\ \A b \in dead \union seen : conn[b] # 0 /\ gone[b] # conn[b]
  BY DEF FirstListed, Lost
<1>4. reason \in {"", "not_listed", "held_back", "not_brought_up", "process_gone"}
  OBVIOUS
<1>5. /\ events \subseteq Events /\ \A e, f \in events : e.backend = f.backend => e = f
      /\ \A b \in changed : Event(b, IF b \in first THEN "up" ELSE "down") \in events
      /\ \A b \in Backends \ changed : \A e \in events : e.backend # b
  <2>1. \A b \in changed : /\ Event(b, IF b \in first THEN "up" ELSE "down") \in Events
                           /\ Event(b, IF b \in first THEN "up" ELSE "down").backend = b
    BY <1>1, <1>3, EventIs
  <2> HIDE DEF changed, first
  <2> QED BY <2>1
<1> HIDE DEF asked, dead, seen, first, reason, events
<1>6. x \in Reports /\ x.pc = "rows" /\ x.events = events
  BY <1>5, NoReportIs DEF Reports
<1> HIDE DEF x
<1>7. ASSUME NEW b \in Backends
      PROVE  /\ lives'[b] \in Lives
             /\ b \in first => lives'[b].known = TRUE /\ lives'[b].live = TRUE /\ lives'[b].cause = ""
             /\ b \in dead => lives'[b].known = TRUE /\ lives'[b].live = FALSE
             /\ b \notin dead \union first => lives'[b] = lives[b]
  BY <1>1, <1>2, <1>3, <1>4, ObservedIs
<1>8. lives' \in [Backends -> Lives]
  BY <1>2, <1>7
<1>9. ASSUME NEW b \in Backends, lives'[b].live
      PROVE  /\ conn'[b] # 0 /\ gone'[b] # conn'[b] /\ unlisted'[b] # conn'[b]
             /\ lives'[b].cause = "" /\ lives'[b].known
  <2>1. b \notin dead
    BY <1>7, <1>9
  <2>2. conn' = conn /\ gone'[b] = gone[b] /\ (unlisted'[b] = 0 \/ unlisted'[b] = unlisted[b])
        /\ (b \in seen => unlisted'[b] = 0)
    BY <1>2, <2>1
  <2>3. CASE b \in first
    BY <1>3, <1>7, <2>2, <2>3
  <2>4. CASE b \notin first
    <3>1. lives[b].live /\ lives'[b] = lives[b]
      BY <1>7, <1>9, <2>1, <2>4
    <3>2. conn[b] # 0 /\ gone[b] # conn[b] /\ unlisted[b] # conn[b] /\ lives[b].cause = "" /\ lives[b].known
      BY <3>1 DEF StatInv, StatTypeOK, Lost, RowsAreOrderly
    <3> QED BY <2>2, <3>1, <3>2
  <2> QED BY <2>3, <2>4
<1>10. ASSUME NEW b \in Backends, lives'[b].known
       PROVE  \/ \E e \in x.events : e.backend = b /\ e.says = (IF lives'[b].live THEN "up" ELSE "down")
              \/ /\ lives[b].known /\ lives'[b].live = lives[b].live
                 /\ \A e \in x.events : e.backend # b
  <2>1. CASE b \in changed
    <3>1. Event(b, IF b \in first THEN "up" ELSE "down") \in events
      BY <1>5, <2>1
    <3>2. /\ Event(b, IF b \in first THEN "up" ELSE "down").backend = b
          /\ Event(b, IF b \in first THEN "up" ELSE "down").says = (IF b \in first THEN "up" ELSE "down")
      BY <1>1, EventIs
    <3>3. (IF lives'[b].live THEN "up" ELSE "down") = (IF b \in first THEN "up" ELSE "down")
      <4>1. CASE b \in first
        BY <1>7, <4>1
      <4>2. CASE b \notin first
        <5>1. b \in dead
          BY <2>1, <4>2
        <5> QED BY <1>7, <4>2, <5>1
      <4> QED BY <4>1, <4>2
    <3> QED BY <1>6, <3>1, <3>2, <3>3
  <2>2. CASE b \notin changed
    <3>1. lives[b].known /\ lives'[b].live = lives[b].live
      <4>1. CASE b \in first
        BY <1>7, <2>2, <4>1 DEF Told
      <4>2. CASE b \in dead /\ b \notin first
        <5>1. ~Told(b, b \in first) /\ (b \in first) = FALSE
          BY <2>2, <4>2
        <5>2. ~Told(b, FALSE)
          BY <5>1
        <5> QED BY <1>7, <4>2, <5>2 DEF Told
      <4>3. CASE b \notin dead \union first
        BY <1>7, <1>10, <4>3
      <4> QED BY <4>1, <4>2, <4>3
    <3> QED BY <1>5, <1>6, <2>2, <3>1
  <2> QED BY <2>1, <2>2
<1>11. /\ conn' \in [Backends -> 0 .. MaxDials] /\ gone' \in [Backends -> 0 .. MaxDials]
       /\ unlisted' \in [Backends -> 0 .. MaxDials] /\ heldBack' \in BOOLEAN
       /\ listing' \in [Backends -> 0 .. MaxListed] /\ dirty' \subseteq Backends
  BY <1>1, <1>2, <1>3, NoReportIs
<1>12. /\ x.pc # "rows" => x.events = {}
       /\ x.pc \notin {"out", "write"} /\ \A e, f \in x.events : e.backend = f.backend => e = f
  BY <1>2, <1>5, <1>6
<1>13. report["round"].events = {} /\ running'
  BY <1>1, <1>2 DEF StatInv, RowsAreOrderly
<1> HIDE DEF changed
<1> QED BY <1>1, <1>2, <1>6, <1>8, <1>9, <1>10, <1>11, <1>12, <1>13, ObserveStep

(* A call marks the connection it went over, if it is still the one.       *)
LEMMA MarkGoneKeeps ==
  ASSUME StatInv, NEW c \in Calls, MarkGone(c)
  PROVE  StatInv'
<1> DEFINE b == report[c].of
           mine == report[c].via = conn[b]
           reason == IF heldBack THEN "held_back" ELSE "process_gone"
           events == IF mine /\ lives[b].known THEN EventsOf({b}, LAMBDA y : FALSE) ELSE {}
           x == IF events = {} THEN NoReport ELSE [NoReport EXCEPT !.pc = "rows", !.events = events]
<1>1. /\ StatTypes /\ lives \in [Backends -> Lives] /\ conn \in [Backends -> 0 .. MaxDials]
      /\ gone \in [Backends -> 0 .. MaxDials] /\ unlisted \in [Backends -> 0 .. MaxDials]
      /\ listing \in [Backends -> 0 .. MaxListed] /\ dirty \subseteq Backends /\ heldBack \in BOOLEAN /\ c \in Reporters
  BY DEF StatInv, StatTypes, StatTypeOK, Reporters
<1>2. /\ running /\ report[c].pc = "out" /\ Observes(c, x)
      /\ gone' = IF mine THEN [gone EXCEPT ![b] = conn[b]] ELSE gone
      /\ lives' = IF mine /\ lives[b].known THEN [lives EXCEPT ![b] = observeLive(b, FALSE, reason)] ELSE lives
      /\ UNCHANGED <<clock, left, world, running, conn, unlisted, heldBack, listing, dirty, healthTrail, store, refreshed>>
  BY DEF MarkGone
<1>3. b \in Backends
  BY <1>1, <1>2 DEF StatTypes
<1>4. reason \in {"", "not_listed", "held_back", "not_brought_up", "process_gone"}
  OBVIOUS
<1>5. Event(b, "down") \in Events /\ Event(b, "down").backend = b /\ Event(b, "down").says = "down"
  BY <1>1, <1>3, EventIs
<1>6. /\ mine /\ lives[b].known /\ lives[b].live => events = {Event(b, "down")}
      /\ ~(mine /\ lives[b].known /\ lives[b].live) => events = {}
  <2>1. \A y : Told(y, FALSE) <=> ~lives[y].known \/ lives[y].live # FALSE
    BY DEF Told
  <2>2. lives[b].live \in BOOLEAN
    BY <1>1, <1>3 DEF Lives
  <2>3. EventsOf({b}, LAMBDA y : FALSE) = {Event(y, "down") : y \in {z \in {b} : Told(z, FALSE)}}
    BY DEF EventsOf
  <2> QED BY <2>1, <2>2, <2>3
<1> HIDE DEF events
<1>7. events \subseteq Events /\ (\A e, f \in events : e = f) /\ \A e \in events : e.backend = b /\ e.says = "down"
  BY <1>5, <1>6
<1>8. x \in Reports /\ x.pc \in {"rows", "idle"} /\ x.events = events /\ (x.pc # "rows" => x.events = {})
  BY <1>7, NoReportIs DEF Reports
<1> HIDE DEF x
<1>9. /\ observeLive(b, FALSE, reason) \in Lives /\ observeLive(b, FALSE, reason).known = TRUE
      /\ observeLive(b, FALSE, reason).live = FALSE
  BY <1>1, <1>3, <1>4, ObservedIs
<1>10. /\ lives' \in [Backends -> Lives] /\ gone' \in [Backends -> 0 .. MaxDials]
       /\ \A d \in Backends : lives'[d].live => lives[d].live /\ lives'[d] = lives[d] /\ (d = b => ~mine)
       /\ \A d \in Backends : gone'[d] # gone[d] => d = b /\ mine
  <2>1. CASE mine /\ lives[b].known
    BY <1>1, <1>2, <1>3, <1>9, <2>1
  <2>2. CASE ~(mine /\ lives[b].known)
    <3>1. lives[b].live => lives[b].known
      BY <1>3 DEF StatInv, RowsAreOrderly
    <3> QED BY <1>1, <1>2, <1>3, <2>2, <3>1
  <2> QED BY <2>1, <2>2
<1>11. ASSUME NEW d \in Backends, lives'[d].live
       PROVE  /\ conn'[d] # 0 /\ gone'[d] # conn'[d] /\ unlisted'[d] # conn'[d]
              /\ lives'[d].cause = "" /\ lives'[d].known
  <2>1. lives[d].live /\ lives'[d] = lives[d] /\ gone'[d] = gone[d]
    BY <1>10, <1>11
  <2>2. conn[d] # 0 /\ gone[d] # conn[d] /\ unlisted[d] # conn[d] /\ lives[d].cause = "" /\ lives[d].known
    BY <2>1 DEF StatInv, StatTypeOK, Lost, RowsAreOrderly
  <2> QED BY <1>2, <2>1, <2>2
<1>12. ASSUME NEW d \in Backends, lives'[d].known
       PROVE  \/ \E e \in x.events : e.backend = d /\ e.says = (IF lives'[d].live THEN "up" ELSE "down")
              \/ /\ lives[d].known /\ lives'[d].live = lives[d].live
                 /\ \A e \in x.events : e.backend # d
  <2>1. CASE d = b /\ mine /\ lives[b].known
    <3>1. lives'[b].live = FALSE
      BY <1>1, <1>2, <1>3, <1>9, <2>1
    <3>2. CASE lives[b].live
      BY <1>5, <1>6, <1>8, <2>1, <3>1, <3>2
    <3>3. CASE ~lives[b].live
      <4>1. lives[b].live = FALSE
        BY <1>1, <1>3, <3>3 DEF Lives
      <4> QED BY <1>6, <1>8, <2>1, <3>1, <3>3, <4>1
    <3> QED BY <3>2, <3>3
  <2>2. CASE ~(d = b /\ mine /\ lives[b].known)
    <3>1. lives'[d] = lives[d]
      BY <1>1, <1>2, <1>3, <2>2
    <3>2. \A e \in x.events : e.backend # d
      BY <1>6, <1>7, <1>8, <2>2
    <3> QED BY <1>12, <3>1, <3>2
  <2> QED BY <2>1, <2>2
<1>13. /\ conn' \in [Backends -> 0 .. MaxDials] /\ unlisted' \in [Backends -> 0 .. MaxDials] /\ heldBack' \in BOOLEAN
       /\ listing' \in [Backends -> 0 .. MaxListed] /\ dirty' \subseteq Backends
  BY <1>1, <1>2
<1>14. /\ x.pc \notin {"out", "write"} /\ \A e, f \in x.events : e.backend = f.backend => e = f
  BY <1>2, <1>7, <1>8
<1>15. report[c].events = {} /\ running'
  BY <1>1, <1>2 DEF StatInv, RowsAreOrderly
<1> HIDE DEF b, mine, reason
<1> QED BY <1>1, <1>2, <1>8, <1>10, <1>11, <1>12, <1>13, <1>14, <1>15, ObserveStep

LEMMA StatNextInv == StatInv /\ [StatNext]_statVars => StatInv'
<1> SUFFICES ASSUME StatInv, [StatNext]_statVars PROVE StatInv'
  OBVIOUS
<1>1. ASSUME NEW r \in Reporters, Step(r) \/ StoreWriteFails(r) \/ \E e \in report[r].events : RowFails(r, e)
      PROVE  StatInv'
  BY <1>1, RowLeaves, CopyKeeps, WriteStateKeeps, EndsKeep DEF Step
<1>2. ASSUME NEW S \in SUBSET Backends, Reconcile(S) \/ Refresh(S) \/ Connect(S) PROVE StatInv'
  BY <1>2, ReconcileKeeps, RefreshKeeps, ConnectKeeps
<1>3. ASSUME NEW c \in Calls, MarkGone(c) PROVE StatInv'
  BY <1>3, MarkGoneKeeps
<1>4. ASSUME NEW c \in Calls, NEW b \in Backends, CallOut(c, b) PROVE StatInv'
  BY <1>4, CallsKeep
<1>5. ASSUME NEW c \in Calls, CallBack(c) PROVE StatInv'
  <2>1. report[c].of \in Backends
    BY <1>5 DEF CallBack, StatInv, StatTypes, Reporters
  <2> QED BY <1>5, <2>1, CallsKeep
<1>6. CASE UNCHANGED statVars
  <2>1. /\ UNCHANGED <<running, memory, report, doubtful, healthTrail, refreshed>> /\ clock' = clock /\ store' = store
        /\ entries' = entries /\ alive' = alive /\ lists' = lists /\ frozen' = frozen
    BY <1>6 DEF statVars, memory
  <2>2. /\ clock \in Nat /\ entries \subseteq Backends /\ alive \subseteq Backends /\ frozen \in BOOLEAN
        /\ lists \in [Backends -> 0 .. MaxListed]
        /\ store \in [health : [Backends -> Lives], listed : [Backends -> 0 .. MaxListed], last : Nat, found : BOOLEAN]
    BY DEF StatInv, StatTypes
  <2>3. clock <= clock'
    BY <2>1, <2>2, NoLater
  <2> QED BY <2>1, <2>2, <2>3, WorldKeeps
<1> QED BY <1>1, <1>2, <1>3, <1>4, <1>5, <1>6, CrashKeeps, EnvironmentKeeps DEF StatNext

(* The bookkeeping of the backends' lives, at every instant: reports hold  *)
(* their rows until they are written or lost, no copy is of the future,    *)
(* and the last row of a backend says what it is once a change was         *)
(* reported alone, for any backends and any calls that report beside a     *)
(* round (observeLive, settleHealth, markGone, persistHealth).             *)
THEOREM StatInvAlways == StatSpec => []StatInv
BY StatInitInv, StatNextInv, PTL DEF StatSpec

(* The trail's last row of a backend says what it is, but after a row that *)
(* failed or rows of two reports at once and only until the next change; a *)
(* gateway whose rounds hang is not taken for running, for any interval    *)
(* and any grace (observeLive, writeHealthEvents, serveState).             *)
THEOREM StatusIsAlwaysTrue == StatSpec => []StatusIsTrue
<1>1. StatInv => StatusIsTrue
  <2> SUFFICES ASSUME StatInv PROVE StatusIsTrue
    OBVIOUS
  <2>1. ASSUME serveState = "running" PROVE clock - refreshed <= 2 * Interval + Grace
    <3>1. /\ clock \in Nat /\ refreshed \in Nat /\ store.last \in Nat /\ store.last <= refreshed
          /\ Interval \in Nat /\ Grace \in Nat
      BY StatusAssumption DEF StatInv, StatTypes, CopiesAreOfThePast
    <3>2. ~(clock - store.last > 2 * Interval + Grace)
      BY <2>1 DEF serveState
    <3> QED BY <3>1, <3>2
  <2> QED BY <2>1 DEF StatInv, StatusIsTrue, StalledRoundIsNoticed
<1> QED BY <1>1, StatInvAlways, PTL
==============================================================================
