----------------------------- MODULE EdgeProofs -----------------------------
(***************************************************************************)
(* What holds at the edge of the gateway for any callers and any limits.   *)
(* The limiter of rejected requests: its rows are bounded, its drops are   *)
(* told, and its markers are paid for, whatever is evicted from its table. *)
(* The verifier and the policy: keys are kept and fetches paced, and roles *)
(* mean what they say.  The endpoint: what an answer tells, and that every *)
(* call leaves its row.  The translated API: what a call may address, and  *)
(* what a document is charged and named.                                   *)
(***************************************************************************)
EXTENDS AuthLimit, Access, Endpoint, RestApi, FiniteSetTheorems, WellFoundedInduction, TLAPS

LEMMA Limits ==
  /\ MaxNow \in Nat /\ MaxAttempts \in Nat /\ SourceRate \in Nat /\ SourceBurst \in Nat
  /\ GlobalRate \in Nat /\ GlobalBurst \in Nat /\ MarkerWindow \in Nat /\ MaxSources \in Nat
  /\ Never \in Nat /\ Never = MaxNow + 1 /\ NewBucket \in Bucket
BY LimitsAssumption DEF Never, NewBucket, Bucket

LEMMA Products ==
  ASSUME NEW a \in Nat, NEW b \in Nat, NEW r \in Nat
  PROVE  /\ a * r \in Nat /\ (a + b) * r = a * r + b * r /\ r * a = a * r
         /\ a <= b => a * r <= b * r
<1>1. a * r \in Nat /\ (a + b) * r = a * r + b * r /\ r * a = a * r
  BY SMT
<1>2. ASSUME a <= b PROVE a * r <= b * r
  <2>1. PICK c \in Nat : b = a + c
    <3>1. b - a \in Nat /\ b = a + (b - a)
      BY <1>2
    <3> QED BY <3>1
  <2>2. c * r \in Nat /\ (a + c) * r = a * r + c * r
    BY SMT
  <2> QED BY <1>1, <2>1, <2>2
<1> QED BY <1>1, <1>2

LEMMA MinTwo ==
  ASSUME NEW a \in Nat, NEW b \in Nat
  PROVE  /\ Min({a, b}) \in Nat /\ Min({a, b}) <= a /\ Min({a, b}) <= b
         /\ Min({a, b}) = a \/ Min({a, b}) = b
<1> DEFINE Least(x) == x \in {a, b} /\ \A y \in {a, b} : x =< y
<1>1. \E x : Least(x)
  <2>1. CASE a <= b
    <3>1. Least(a)
      BY <2>1
    <3> QED BY <3>1
  <2>2. CASE ~(a <= b)
    <3>1. Least(b)
      BY <2>2
    <3> QED BY <3>1
  <2> QED BY <2>1, <2>2
<1>2. Min({a, b}) = CHOOSE x : Least(x)
  BY DEF Min
<1>3. Least(Min({a, b}))
  <2> HIDE DEF Least
  <2> QED BY <1>1, <1>2
<1> QED BY <1>3

(* A bucket after the ticks since its last use have been credited.         *)
LEMMA FilledIs ==
  ASSUME now \in Nat, NEW b \in Bucket, NEW rate \in Nat, NEW burst \in Nat,
         b.last \in 0 .. now \/ b.last = Never
  PROVE  /\ Filled(b, rate, burst) \in Nat /\ Filled(b, rate, burst) <= burst
         /\ \/ Filled(b, rate, burst) = burst
            \/ /\ b.last # Never
               /\ Filled(b, rate, burst) = b.tokens + (now - b.last) * rate
         /\ b.last # Never => Filled(b, rate, burst) <= b.tokens + (now - b.last) * rate
<1>1. CASE b.last = Never
  BY <1>1 DEF Filled
<1>2. CASE b.last # Never
  <2>1. b.last \in Nat /\ now - b.last \in Nat /\ b.tokens \in Nat
    BY <1>2 DEF Bucket
  <2>2. (now - b.last) * rate \in Nat
    BY <2>1, Products
  <2>3. b.tokens + (now - b.last) * rate \in Nat
    BY <2>1, <2>2
  <2>4. Filled(b, rate, burst) = Min({burst, b.tokens + (now - b.last) * rate})
    BY <1>2 DEF Filled
  <2> QED BY <1>2, <2>3, <2>4, MinTwo
<1> QED BY <1>1, <1>2

LEMMA TakenIs ==
  ASSUME now \in Nat, NEW b \in Bucket, NEW rate \in Nat, NEW burst \in Nat,
         b.last \in 0 .. now \/ b.last = Never
  PROVE  /\ Taken(b, rate, burst) \in Bucket /\ Taken(b, rate, burst).last = now
         /\ Taken(b, rate, burst).marker = b.marker
         /\ Filled(b, rate, burst) >= 1 => Taken(b, rate, burst).tokens = Filled(b, rate, burst) - 1
         /\ ~(Filled(b, rate, burst) >= 1) => Taken(b, rate, burst).tokens = 0
         /\ Taken(b, rate, burst).tokens \in Nat /\ Taken(b, rate, burst).tokens <= burst
<1> DEFINE t == Filled(b, rate, burst)
<1>1. t \in Nat /\ t <= burst
  BY FilledIs
<1>2. Taken(b, rate, burst) = [b EXCEPT !.tokens = IF t >= 1 THEN t - 1 ELSE t, !.last = now, !.seen = now]
  BY DEF Taken
<1> HIDE DEF t
<1>3. (IF t >= 1 THEN t - 1 ELSE t) \in Nat /\ (IF t >= 1 THEN t - 1 ELSE t) = (IF t >= 1 THEN t - 1 ELSE 0)
      /\ (IF t >= 1 THEN t - 1 ELSE t) <= burst
  BY <1>1
<1>4. PICK k \in Nat : k = (IF t >= 1 THEN t - 1 ELSE t)
  BY <1>3
<1>5. Taken(b, rate, burst) = [b EXCEPT !.tokens = k, !.last = now, !.seen = now]
  BY <1>2, <1>4
<1>6. /\ Taken(b, rate, burst) \in Bucket /\ Taken(b, rate, burst).last = now
      /\ Taken(b, rate, burst).marker = b.marker /\ Taken(b, rate, burst).tokens = k
  BY <1>5 DEF Bucket
<1> QED BY <1>3, <1>4, <1>6 DEF t

-----------------------------------------------------------------------------
(* The table of sources.                                                   *)

LEMMA AuthFacts ==
  ASSUME AuthInv
  PROVE  /\ now \in Nat /\ now <= MaxNow /\ now # Never
         /\ attempts \in Nat /\ admitted \in Nat /\ sourceMarks \in Nat
         /\ \A s \in DOMAIN sources : /\ sources[s] \in Bucket /\ sources[s].tokens <= SourceBurst
                                      /\ sources[s].last \in 0 .. now /\ s \in Sources
         /\ global \in Bucket /\ (global.last \in 0 .. now \/ global.last = Never)
<1>1. AuthTypeOK /\ GlobalPays /\ MarkersAreRows
  BY DEF AuthInv
<1>2. now \in Nat /\ now <= MaxNow /\ now # Never
  BY <1>1, Limits DEF AuthTypeOK
<1>3. attempts \in Nat /\ admitted \in Nat /\ sourceMarks \in Nat
  BY <1>1, Limits DEF AuthTypeOK
<1>4. \A s \in DOMAIN sources : /\ sources[s] \in Bucket /\ sources[s].tokens <= SourceBurst
                                /\ sources[s].last \in 0 .. now /\ s \in Sources
  BY <1>1 DEF AuthTypeOK, MarkersAreRows
<1>5. global \in Bucket /\ (global.last \in 0 .. now \/ global.last = Never)
  BY <1>1 DEF AuthTypeOK, GlobalPays
<1> QED BY <1>2, <1>3, <1>4, <1>5

(* Whatever evict threw out, the table is the rest of the old one.         *)
LEMMA EvictedIs ==
  ASSUME AuthInv, NEW s \in Sources, NEW table \in Evicted(s)
  PROVE  /\ DOMAIN table \subseteq DOMAIN sources /\ IsFiniteSet(DOMAIN table)
         /\ Cardinality(DOMAIN table) \in Nat /\ Cardinality(DOMAIN table) <= MaxSources
         /\ \A w \in DOMAIN table : table[w] = sources[w]
         /\ s \in DOMAIN sources => s \in DOMAIN table
<1>1. /\ DOMAIN table \subseteq DOMAIN sources /\ \A w \in DOMAIN table : table[w] = sources[w]
      /\ s \in DOMAIN sources => s \in DOMAIN table
  BY DEF Evicted
<1>2. IsFiniteSet(DOMAIN sources) /\ Cardinality(DOMAIN sources) <= MaxSources
  BY DEF AuthInv, AuthTypeOK
<1>3. IsFiniteSet(DOMAIN table) /\ Cardinality(DOMAIN table) <= Cardinality(DOMAIN sources)
  BY <1>1, <1>2, FS_Subset
<1>4. Cardinality(DOMAIN table) \in Nat /\ Cardinality(DOMAIN sources) \in Nat
  BY <1>2, <1>3, FS_CardinalityType
<1> QED BY <1>1, <1>2, <1>3, <1>4, Limits

(* The bucket a source is charged from: its own, or a new one.             *)
LEMMA BucketIs ==
  ASSUME AuthInv, NEW s \in Sources, NEW table \in Evicted(s)
  PROVE  LET b == BucketIn(table, s) IN
         /\ b \in Bucket /\ (b.last \in 0 .. now \/ b.last = Never)
         /\ s \in DOMAIN table => s \in DOMAIN sources /\ b = sources[s] /\ b.last # Never
         /\ s \notin DOMAIN table => b.last = Never /\ b.marker = Never
<1>1. CASE s \in DOMAIN table
  <2>1. s \in DOMAIN sources /\ BucketIn(table, s) = sources[s]
    BY <1>1, EvictedIs DEF BucketIn
  <2>2. sources[s] \in Bucket /\ sources[s].last \in 0 .. now
    BY <2>1, AuthFacts
  <2>3. sources[s].last # Never
    BY <2>2, AuthFacts, Limits
  <2> QED BY <1>1, <2>1, <2>2, <2>3
<1>2. CASE s \notin DOMAIN table
  BY <1>2, Limits DEF BucketIn, NewBucket
<1> QED BY <1>1, <1>2

LEMMA ChargedIs ==
  ASSUME AuthInv, NEW s \in Sources, NEW table \in Evicted(s)
  PROVE  LET t == Charged(table, s)
             b == BucketIn(table, s)
         IN  /\ DOMAIN t \subseteq Sources /\ IsFiniteSet(DOMAIN t) /\ Cardinality(DOMAIN t) <= MaxSources
             /\ t \in [DOMAIN t -> Bucket]
             /\ \A w \in DOMAIN t : w # s => w \in DOMAIN sources /\ t[w] = sources[w]
             /\ s \in DOMAIN t <=> Kept(table, s)
             /\ s \in DOMAIN t => t[s] = Taken(b, SourceRate, SourceBurst)
<1> DEFINE b == BucketIn(table, s)
           c == Taken(b, SourceRate, SourceBurst)
<1>1. b \in Bucket /\ (b.last \in 0 .. now \/ b.last = Never)
  BY BucketIs
<1>2. c \in Bucket
  BY <1>1, TakenIs, AuthFacts, Limits
<1> HIDE DEF c
<1>3. \A w \in DOMAIN table : w \in DOMAIN sources /\ table[w] = sources[w] /\ w \in Sources /\ table[w] \in Bucket
  BY EvictedIs, AuthFacts
<1>4. CASE Kept(table, s)
  <2>1. Charged(table, s) = [w \in DOMAIN table \union {s} |-> IF w = s THEN c ELSE table[w]]
    BY <1>4 DEF Charged, c
  <2>2. DOMAIN Charged(table, s) = DOMAIN table \union {s}
    BY <2>1
  <2>3. IsFiniteSet(DOMAIN table \union {s}) /\ Cardinality(DOMAIN table \union {s}) <= MaxSources
    <3>1. /\ IsFiniteSet(DOMAIN table \union {s})
          /\ Cardinality(DOMAIN table \union {s}) =
               IF s \in DOMAIN table THEN Cardinality(DOMAIN table) ELSE Cardinality(DOMAIN table) + 1
      BY EvictedIs, FS_AddElement
    <3>2. Cardinality(DOMAIN table) \in Nat /\ Cardinality(DOMAIN table) <= MaxSources
      BY EvictedIs
    <3>3. s \in DOMAIN table \/ Cardinality(DOMAIN table) < MaxSources
      BY <1>4 DEF Kept
    <3> QED BY <3>1, <3>2, <3>3, Limits
  <2> QED BY <1>2, <1>3, <1>4, <2>1, <2>2, <2>3 DEF c
<1>5. CASE ~Kept(table, s)
  <2>1. Charged(table, s) = table /\ s \notin DOMAIN table
    BY <1>5 DEF Charged, Kept
  <2>2. table \in [DOMAIN table -> Bucket]
    <3>1. sources \in [DOMAIN sources -> Bucket]
      BY DEF AuthInv
    <3>2. table = [w \in DOMAIN table |-> table[w]]
      BY <3>1 DEF Evicted
    <3> QED BY <1>3, <3>2
  <2> QED BY <1>3, <1>5, <2>1, <2>2, EvictedIs
<1> QED BY <1>4, <1>5

(* A charge is covered by one attempt more; and a bucket that refuses with *)
(* its marker due was charged a burst already.                             *)
LEMMA ChargeCovers ==
  ASSUME AuthInv, NEW s \in Sources, NEW table \in Evicted(s), NEW n \in Nat,
         s \in DOMAIN sources => Covered(sources[s], n)
  PROVE  LET b == BucketIn(table, s)
             c == Taken(b, SourceRate, SourceBurst)
         IN  /\ Covered(c, n + 1)
             /\ ~HasToken(b, SourceRate, SourceBurst) /\ MarkerDue(c.marker) => SourceBurst <= n /\ c.tokens = 0
<1> DEFINE b == BucketIn(table, s)
           c == Taken(b, SourceRate, SourceBurst)
           f == Filled(b, SourceRate, SourceBurst)
<1>1. /\ b \in Bucket /\ (b.last \in 0 .. now \/ b.last = Never)
      /\ s \in DOMAIN table => s \in DOMAIN sources /\ b = sources[s] /\ b.last # Never
      /\ s \notin DOMAIN table => b.last = Never /\ b.marker = Never
  BY BucketIs
<1>2. now \in Nat /\ now # Never
  BY AuthFacts
<1> HIDE DEF b
<1>3. /\ c \in Bucket /\ c.last = now /\ c.marker = b.marker
      /\ (f >= 1 => c.tokens = f - 1) /\ (~(f >= 1) => c.tokens = 0) /\ c.tokens \in Nat
  BY <1>1, <1>2, TakenIs, Limits
<1>4. /\ f \in Nat /\ f <= SourceBurst
      /\ f = SourceBurst \/ (b.last # Never /\ f = b.tokens + (now - b.last) * SourceRate)
  BY <1>1, <1>2, FilledIs, Limits
<1>5. HasToken(b, SourceRate, SourceBurst) <=> f >= 1
  BY DEF HasToken
<1> HIDE DEF c, f
<1>6. \/ SourceBurst <= n + f
      \/ /\ b.marker # Never /\ b.marker \in Nat /\ now - b.marker \in Nat
         /\ (now - b.marker) * SourceRate <= n + f
  <2>1. CASE f = SourceBurst
    BY <2>1, Limits
  <2>2. CASE f # SourceBurst
    <3>1. /\ b.last \in 0 .. now /\ f = b.tokens + (now - b.last) * SourceRate
          /\ s \in DOMAIN sources /\ b = sources[s] /\ b.tokens \in Nat
      BY <1>1, <1>4, <2>2 DEF Bucket
    <3>2. now - b.last \in Nat /\ b.last \in Nat
      BY <1>2, <3>1
    <3>3. PICK flow \in Nat : flow = (now - b.last) * SourceRate
      BY <3>2, Products, Limits
    <3>4. CASE SourceBurst <= n + b.tokens
      BY <3>1, <3>3, <3>4, Limits
    <3>5. CASE b.marker # Never /\ (b.last - b.marker) * SourceRate <= n + b.tokens
      <4>1. b.marker \in 0 .. b.last
        BY <3>1, <3>5 DEF AuthInv, MarkersAreRows
      <4>2. b.last - b.marker \in Nat /\ now - b.marker \in Nat /\ b.marker \in Nat
            /\ now - b.marker = (now - b.last) + (b.last - b.marker)
        BY <1>2, <3>2, <4>1
      <4>3. PICK old \in Nat : old = (b.last - b.marker) * SourceRate
        BY <4>2, Products, Limits
      <4>4. (now - b.marker) * SourceRate = flow + old
        <5>1. ((now - b.last) + (b.last - b.marker)) * SourceRate
                = (now - b.last) * SourceRate + (b.last - b.marker) * SourceRate
          BY <3>2, <4>2, Products, Limits
        <5> QED BY <3>3, <4>2, <4>3, <5>1
      <4>5. old <= n + b.tokens
        BY <3>5, <4>3
      <4>6. flow + old <= n + f
        BY <3>1, <3>3, <4>5
      <4> QED BY <3>5, <4>2, <4>4, <4>6
    <3> QED BY <3>1, <3>4, <3>5 DEF Covered
  <2> QED BY <2>1, <2>2
<1>7. n + f <= (n + 1) + c.tokens
  BY <1>3, <1>4
<1>8. Covered(c, n + 1)
  <2>1. CASE SourceBurst <= n + f
    BY <1>3, <1>4, <1>7, <2>1, Limits DEF Covered
  <2>2. CASE b.marker # Never /\ b.marker \in Nat /\ now - b.marker \in Nat /\ (now - b.marker) * SourceRate <= n + f
    <3>1. PICK g \in Nat : g = (now - b.marker) * SourceRate
      BY <2>2, Products, Limits
    <3>2. g <= (n + 1) + c.tokens
      BY <1>3, <1>4, <1>7, <2>2, <3>1
    <3> QED BY <1>3, <2>2, <3>1, <3>2 DEF Covered
  <2> QED BY <1>6, <2>1, <2>2
<1>9. ASSUME f = 0, MarkerDue(c.marker) PROVE SourceBurst <= n /\ c.tokens = 0
  <2>1. CASE SourceBurst <= n + f
    BY <1>3, <1>9, <2>1, Limits
  <2>2. CASE b.marker # Never /\ b.marker \in Nat /\ now - b.marker \in Nat /\ (now - b.marker) * SourceRate <= n + f
    <3>1. now - b.marker >= MarkerWindow
      BY <1>3, <1>9, <2>2 DEF MarkerDue
    <3>2. MarkerWindow * SourceRate <= (now - b.marker) * SourceRate
      BY <2>2, <3>1, Products, Limits
    <3>3. PICK g \in Nat : g = (now - b.marker) * SourceRate
      BY <2>2, Products, Limits
    <3>4. PICK m \in Nat : m = MarkerWindow * SourceRate
      BY Products, Limits
    <3>5. SourceBurst <= m /\ m <= g /\ g <= n
      BY <1>9, <2>2, <3>2, <3>3, <3>4, WindowAssumption
    <3> QED BY <1>3, <1>9, <3>5, Limits
  <2> QED BY <1>6, <2>1, <2>2
<1>10. ~HasToken(b, SourceRate, SourceBurst) => f = 0
  BY <1>4, <1>5
<1> QED BY <1>8, <1>9, <1>10 DEF b, c

-----------------------------------------------------------------------------
(* The invariant, step by step.                                            *)

LEMMA AuthInitInv == AuthInit => AuthInv
<1> SUFFICES ASSUME AuthInit PROVE AuthInv
  OBVIOUS
<1>1. DOMAIN sources = {} /\ sources \in [{} -> Bucket]
  BY DEF AuthInit
<1>2. IsFiniteSet({}) /\ Cardinality({}) = 0
  BY FS_EmptySet
<1>3. /\ now = 0 /\ attempts = 0 /\ admitted = 0 /\ sourceMarks = 0 /\ global = NewBucket
      /\ globalMarker = Never /\ dropped = {} /\ marks = {}
  BY DEF AuthInit
<1>4. global \in Bucket /\ global.tokens = 0 /\ global.last = Never
  BY <1>3, Limits DEF NewBucket
<1>5. AuthTypeOK
  BY <1>1, <1>2, <1>3, <1>4, Limits DEF AuthTypeOK
<1>6. GlobalPays /\ MarkersAreRows /\ DropIsAnnounced /\ admitted + sourceMarks <= attempts
  BY <1>1, <1>3, <1>4 DEF GlobalPays, MarkersAreRows, DropIsAnnounced
<1>7. Ledger
  <2> DEFINE paid == [s \in Sources |-> {}]
  <2>1. paid \in [Sources -> SUBSET (1 .. attempts)] /\ {} \in SUBSET (1 .. attempts)
    OBVIOUS
  <2>2. 0 * (SourceBurst + 1) = 0
    BY Limits
  <2>3. Shared(paid, {})
    BY <1>1, <1>2, <1>3, <2>2 DEF Shared
  <2> HIDE DEF paid
  <2> QED BY <2>1, <2>3 DEF Ledger
<1> QED BY <1>1, <1>2, <1>5, <1>6, <1>7 DEF AuthInv

LEMMA PassTimeInv ==
  ASSUME AuthInv, PassTime
  PROVE  AuthInv'
<1>1. /\ UNCHANGED <<sources, global, globalMarker, dropped, admitted, sourceMarks, marks, attempts>>
      /\ now < MaxNow /\ now' = now + 1 /\ now \in Nat /\ MaxNow \in Nat
  BY AuthFacts, Limits DEF PassTime
<1>2. now' \in 0 .. MaxNow /\ \A x \in 0 .. now : x \in 0 .. now'
  BY <1>1
<1>3. AuthTypeOK'
  BY <1>1, <1>2 DEF AuthInv, AuthTypeOK
<1>4. GlobalPays' /\ DropIsAnnounced'
  BY <1>1, <1>2 DEF AuthInv, GlobalPays, DropIsAnnounced
<1>5. MarkersAreRows'
  BY <1>1, <1>2 DEF AuthInv, MarkersAreRows
<1>6. Ledger'
  <2>1. \A b, n : Covered(b, n)' <=> Covered(b, n)
    BY DEF Covered
  <2> QED BY <1>1, <2>1 DEF AuthInv, Ledger, Shared
<1> QED BY <1>1, <1>3, <1>4, <1>5, <1>6 DEF AuthInv

(* The table after a request: the source's bucket is charged, and marked   *)
(* when its row was asked for.                                             *)
Marking(s, table, mark) ==
  /\ now' = now /\ attempts' = attempts + 1 /\ marks \subseteq marks'
  /\ mark => /\ Kept(table, s) /\ ~HasToken(BucketIn(table, s), SourceRate, SourceBurst)
             /\ MarkerDue(Taken(BucketIn(table, s), SourceRate, SourceBurst).marker)
             /\ [who |-> s, at |-> now] \in marks'
  /\ sources' = IF mark THEN [Charged(table, s) EXCEPT ![s].marker = now] ELSE Charged(table, s)
  /\ sourceMarks' = IF mark THEN sourceMarks + 1 ELSE sourceMarks

LEMMA TableStep ==
  ASSUME AuthInv, NEW s \in Sources, NEW table \in Evicted(s), NEW mark \in BOOLEAN, Marking(s, table, mark)
  PROVE  /\ DOMAIN sources' \subseteq Sources /\ IsFiniteSet(DOMAIN sources')
         /\ Cardinality(DOMAIN sources') <= MaxSources
         /\ sources' \in [DOMAIN sources' -> Bucket]
         /\ \A w \in DOMAIN sources' : w # s => w \in DOMAIN sources /\ sources'[w] = sources[w]
         /\ s \in DOMAIN sources' =>
              /\ sources'[s].tokens = Taken(BucketIn(table, s), SourceRate, SourceBurst).tokens
              /\ sources'[s].tokens \in Nat /\ sources'[s].tokens <= SourceBurst
              /\ sources'[s].last = now
              /\ sources'[s].marker = IF mark THEN now ELSE BucketIn(table, s).marker
<1> DEFINE t == Charged(table, s)
           c == Taken(BucketIn(table, s), SourceRate, SourceBurst)
<1>1. /\ DOMAIN t \subseteq Sources /\ IsFiniteSet(DOMAIN t) /\ Cardinality(DOMAIN t) <= MaxSources
      /\ t \in [DOMAIN t -> Bucket]
      /\ \A w \in DOMAIN t : w # s => w \in DOMAIN sources /\ t[w] = sources[w]
      /\ s \in DOMAIN t <=> Kept(table, s)
      /\ s \in DOMAIN t => t[s] = c
  BY ChargedIs
<1>2. /\ c \in Bucket /\ c.last = now /\ c.marker = BucketIn(table, s).marker
      /\ c.tokens \in Nat /\ c.tokens <= SourceBurst
  BY BucketIs, TakenIs, AuthFacts, Limits
<1>3. now \in Nat
  BY AuthFacts
<1>4. /\ sources' = IF mark THEN [t EXCEPT ![s].marker = now] ELSE t
      /\ mark => Kept(table, s)
  BY DEF Marking
<1> HIDE DEF t, c
<1>5. CASE ~mark
  BY <1>1, <1>2, <1>4, <1>5 DEF c
<1>6. CASE mark
  <2>1. s \in DOMAIN t /\ sources' = [t EXCEPT ![s] = [c EXCEPT !.marker = now]]
    BY <1>1, <1>4, <1>6
  <2>2. /\ [c EXCEPT !.marker = now] \in Bucket /\ [c EXCEPT !.marker = now].marker = now
        /\ [c EXCEPT !.marker = now].tokens = c.tokens /\ [c EXCEPT !.marker = now].last = c.last
    BY <1>2, <1>3 DEF Bucket
  <2>3. PICK d \in Bucket : d = [c EXCEPT !.marker = now]
    BY <2>2
  <2>4. DOMAIN sources' = DOMAIN t /\ sources'[s] = d /\ (\A w \in DOMAIN t : w # s => sources'[w] = t[w])
        /\ sources' \in [DOMAIN t -> Bucket]
    BY <1>1, <2>1, <2>3
  <2> QED BY <1>1, <1>2, <1>6, <2>2, <2>3, <2>4 DEF c
<1> QED BY <1>5, <1>6

LEMMA MarkersStep ==
  ASSUME AuthInv, NEW s \in Sources, NEW table \in Evicted(s), NEW mark \in BOOLEAN, Marking(s, table, mark)
  PROVE  \A w \in DOMAIN sources' :
           /\ sources'[w].last \in 0 .. now'
           /\ \/ sources'[w].marker = Never
              \/ /\ sources'[w].marker \in 0 .. sources'[w].last
                 /\ [who |-> w, at |-> sources'[w].marker] \in marks'
<1>0. now' = now /\ now \in Nat /\ marks \subseteq marks' /\ (mark => [who |-> s, at |-> now] \in marks')
  BY AuthFacts DEF Marking
<1> SUFFICES ASSUME NEW w \in DOMAIN sources'
             PROVE  /\ sources'[w].last \in 0 .. now
                    /\ \/ sources'[w].marker = Never
                       \/ /\ sources'[w].marker \in 0 .. sources'[w].last
                          /\ [who |-> w, at |-> sources'[w].marker] \in marks'
  BY <1>0
<1>1. CASE w # s
  <2>1. w \in DOMAIN sources /\ sources'[w] = sources[w]
    BY <1>1, TableStep
  <2> QED BY <1>0, <2>1 DEF AuthInv, MarkersAreRows
<1>2. CASE w = s
  <2>1. sources'[s].last = now /\ sources'[s].marker = IF mark THEN now ELSE BucketIn(table, s).marker
    BY <1>2, TableStep
  <2>2. CASE mark
    <3>1. sources'[s].marker = now /\ now \in 0 .. now
      BY <1>0, <2>1, <2>2
    <3> QED BY <1>0, <1>2, <2>1, <2>2, <3>1
  <2>3. CASE ~mark
    <3>1. sources'[s].marker = BucketIn(table, s).marker /\ now \in 0 .. now
      BY <1>0, <2>1, <2>3
    <3>2. CASE s \in DOMAIN table
      <4>1. s \in DOMAIN sources /\ BucketIn(table, s) = sources[s]
        BY <3>2, BucketIs
      <4>2. /\ sources[s].last \in 0 .. now
            /\ \/ sources[s].marker = Never
               \/ sources[s].marker \in 0 .. sources[s].last /\ [who |-> s, at |-> sources[s].marker] \in marks
        BY <4>1 DEF AuthInv, MarkersAreRows
      <4>3. sources[s].marker \in 0 .. sources[s].last => sources[s].marker \in 0 .. now
        BY <1>0, <4>2
      <4> QED BY <1>0, <1>2, <2>1, <3>1, <4>1, <4>2, <4>3
    <3>3. CASE s \notin DOMAIN table
      BY <1>2, <2>1, <3>1, <3>3, BucketIs
    <3> QED BY <3>2, <3>3
  <2> QED BY <2>2, <2>3
<1> QED BY <1>1, <1>2

(* The attempt goes to the source's share, or, with the share, to the      *)
(* marker it pays for.                                                     *)
LEMMA LedgerStep ==
  ASSUME AuthInv, NEW s \in Sources, NEW table \in Evicted(s), NEW mark \in BOOLEAN, Marking(s, table, mark)
  PROVE  Ledger'
<1>1. PICK paid \in [Sources -> SUBSET (1 .. attempts)], spent \in SUBSET (1 .. attempts) : Shared(paid, spent)
  BY DEF AuthInv, Ledger
<1>2. PICK k \in Nat : k = attempts + 1 /\ attempts \in Nat
  BY AuthFacts
<1>3. attempts' = k /\ k \notin 1 .. attempts /\ k \in 1 .. k /\ 1 .. attempts \subseteq 1 .. k
  BY <1>2 DEF Marking
<1>4. IsFiniteSet(1 .. attempts)
  BY <1>2, FS_Interval, SMT
<1>5. \A w \in Sources : IsFiniteSet(paid[w]) /\ Cardinality(paid[w]) \in Nat
  BY <1>4, FS_Subset, FS_CardinalityType
<1>6. IsFiniteSet(spent) /\ Cardinality(spent) \in Nat
  BY <1>4, FS_Subset, FS_CardinalityType
<1>7. PICK n \in Nat : n = Cardinality(paid[s])
  BY <1>5
<1>8. /\ Covered(Taken(BucketIn(table, s), SourceRate, SourceBurst), n + 1)
      /\ mark => SourceBurst <= n /\ Taken(BucketIn(table, s), SourceRate, SourceBurst).tokens = 0
  <2>1. s \in DOMAIN sources => Covered(sources[s], n)
    BY <1>1, <1>7 DEF Shared
  <2> QED BY <2>1, ChargeCovers DEF Marking
<1>9. /\ \A w \in DOMAIN sources' : w # s => w \in DOMAIN sources /\ w \in Sources /\ sources'[w] = sources[w]
      /\ s \in DOMAIN sources' =>
              /\ sources'[s].tokens = Taken(BucketIn(table, s), SourceRate, SourceBurst).tokens
              /\ sources'[s].last = now
              /\ sources'[s].marker = IF mark THEN now ELSE BucketIn(table, s).marker
  BY TableStep, AuthFacts
<1>10. now \in Nat /\ now # Never /\ sourceMarks \in Nat
  BY AuthFacts
<1>11. ASSUME NEW w \in DOMAIN sources', w # s PROVE Covered(sources[w], Cardinality(paid[w]))'
  BY <1>1, <1>9, <1>11 DEF Shared, Covered
<1>12. CASE ~mark
  <2>0. spent \in SUBSET (1 .. k)
    BY <1>3
  <2>1. PICK more \in [Sources -> SUBSET (1 .. k)] :
           more[s] = paid[s] \cup {k} /\ \A w \in Sources : w # s => more[w] = paid[w]
    <3> DEFINE m == [paid EXCEPT ![s] = paid[s] \cup {k}]
    <3>1. m \in [Sources -> SUBSET (1 .. k)] /\ m[s] = paid[s] \cup {k} /\ \A w \in Sources : w # s => m[w] = paid[w]
      BY <1>3
    <3> HIDE DEF m
    <3> QED BY <3>1
  <2>2. Cardinality(paid[s] \cup {k}) = n + 1
    <3>1. k \notin paid[s]
      BY <1>3
    <3> QED BY <1>5, <1>7, <3>1, FS_AddElement
  <2>3. (\A w \in Sources : more[w] \cap spent = {}) /\ (\A w, r \in Sources : w # r => more[w] \cap more[r] = {})
    <3>1. k \notin spent /\ \A w \in Sources : k \notin paid[w]
      BY <1>3
    <3> QED BY <1>1, <2>1, <3>1 DEF Shared
  <2>4. sourceMarks' = sourceMarks
    BY <1>12 DEF Marking
  <2>5. s \in DOMAIN sources' => Covered(sources[s], n + 1)'
    <3>1. s \in DOMAIN sources' => sources'[s].marker = BucketIn(table, s).marker
      BY <1>9, <1>12
    <3>2. /\ Taken(BucketIn(table, s), SourceRate, SourceBurst).marker = BucketIn(table, s).marker
          /\ Taken(BucketIn(table, s), SourceRate, SourceBurst).last = now
      BY BucketIs, TakenIs, AuthFacts, Limits, SMTT(30)
    <3> QED BY <1>8, <1>9, <3>1, <3>2 DEF Covered
  <2>6. \A w \in DOMAIN sources' : Covered(sources[w], Cardinality(more[w]))'
    BY <1>9, <1>11, <2>1, <2>2, <2>5
  <2>7. Shared(more, spent)'
    BY <1>1, <2>3, <2>4, <2>6 DEF Shared
  <2> QED BY <1>3, <2>0, <2>7 DEF Ledger
<1>13. CASE mark
  <2>0. PICK more \in SUBSET (1 .. k) : more = (spent \cup paid[s]) \cup {k}
    BY <1>3
  <2>1. PICK less \in [Sources -> SUBSET (1 .. k)] :
           less[s] = {} /\ \A w \in Sources : w # s => less[w] = paid[w]
    <3> DEFINE m == [paid EXCEPT ![s] = {}]
    <3>1. m \in [Sources -> SUBSET (1 .. k)] /\ m[s] = {} /\ \A w \in Sources : w # s => m[w] = paid[w]
      BY <1>3
    <3> HIDE DEF m
    <3> QED BY <3>1
  <2>2. Cardinality(more) = Cardinality(spent) + n + 1
    <3>1. spent \cap paid[s] = {}
      BY <1>1 DEF Shared
    <3>2. /\ IsFiniteSet(spent \cup paid[s])
          /\ Cardinality(spent \cup paid[s]) = Cardinality(spent) + n - Cardinality(spent \cap paid[s])
      BY <1>5, <1>6, <1>7, FS_Union
    <3>3. Cardinality(spent \cap paid[s]) = 0
      BY <3>1, FS_EmptySet
    <3>4. k \notin spent \cup paid[s]
      BY <1>3
    <3>5. Cardinality(more) = Cardinality(spent \cup paid[s]) + 1
      BY <2>0, <3>2, <3>4, FS_AddElement
    <3>6. Cardinality(spent) + n - 0 = Cardinality(spent) + n
      BY <1>6
    <3> QED BY <3>2, <3>3, <3>5, <3>6
  <2>3. (\A w \in Sources : less[w] \cap more = {}) /\ (\A w, r \in Sources : w # r => less[w] \cap less[r] = {})
    <3>1. \A w \in Sources : k \notin paid[w]
      BY <1>3
    <3> QED BY <1>1, <2>0, <2>1, <3>1 DEF Shared
  <2>4. sourceMarks' * (SourceBurst + 1) <= Cardinality(more)
    <3>1. sourceMarks' = sourceMarks + 1
      BY <1>13 DEF Marking
    <3>2. PICK x \in Nat : x = sourceMarks * (SourceBurst + 1)
      BY <1>10, Limits, Products
    <3>3. (sourceMarks + 1) * (SourceBurst + 1) = x + (SourceBurst + 1)
      <4>1. SourceBurst + 1 \in Nat /\ 1 \in Nat
        BY Limits
      <4>2. (sourceMarks + 1) * (SourceBurst + 1) = sourceMarks * (SourceBurst + 1) + 1 * (SourceBurst + 1)
        BY <1>10, <4>1, Products
      <4>3. 1 * (SourceBurst + 1) = SourceBurst + 1
        BY Limits
      <4> QED BY <3>2, <4>2, <4>3
    <3>4. x <= Cardinality(spent)
      BY <1>1, <3>2 DEF Shared
    <3>5. SourceBurst <= n
      BY <1>8, <1>13
    <3>6. x + (SourceBurst + 1) <= Cardinality(spent) + n + 1
      BY <1>6, <3>4, <3>5, Limits
    <3> QED BY <2>2, <3>1, <3>3, <3>6
  <2>5. s \in DOMAIN sources' => Covered(sources[s], 0)'
    <3> SUFFICES ASSUME s \in DOMAIN sources' PROVE Covered(sources[s], 0)'
      OBVIOUS
    <3>1. sources'[s].marker = now /\ sources'[s].last = now /\ sources'[s].tokens = 0
      BY <1>8, <1>9, <1>13
    <3>2. (now - now) * SourceRate = 0
      BY <1>10, Limits
    <3> QED BY <1>10, <3>1, <3>2 DEF Covered
  <2>6. \A w \in DOMAIN sources' : Covered(sources[w], Cardinality(less[w]))'
    <3>1. Cardinality({}) = 0
      BY FS_EmptySet
    <3> QED BY <1>9, <1>11, <2>1, <2>5, <3>1
  <2>7. Shared(less, more)'
    BY <2>3, <2>4, <2>6 DEF Shared
  <2> QED BY <1>3, <2>1, <2>7 DEF Ledger
<1> QED BY <1>12, <1>13

(* The ceiling: what is admitted is taken from what has flowed in.         *)
LEMMA GlobalStep ==
  ASSUME AuthInv, now' = now, global' = Taken(global, GlobalRate, GlobalBurst),
         \/ admitted' = admitted + 1 /\ HasToken(global, GlobalRate, GlobalBurst)
         \/ admitted' = admitted
  PROVE  GlobalPays' /\ global' \in Bucket /\ global'.tokens <= GlobalBurst
<1> DEFINE f == Filled(global, GlobalRate, GlobalBurst)
<1>1. now \in Nat /\ now # Never /\ admitted \in Nat /\ global \in Bucket
      /\ (global.last \in 0 .. now \/ global.last = Never)
  BY AuthFacts
<1>2. /\ f \in Nat /\ f <= GlobalBurst
      /\ global.last # Never => f <= global.tokens + (now - global.last) * GlobalRate
  BY <1>1, FilledIs, Limits
<1>3. /\ global' \in Bucket /\ global'.last = now /\ global'.tokens \in Nat /\ global'.tokens <= GlobalBurst
      /\ (f >= 1 => global'.tokens = f - 1) /\ (~(f >= 1) => global'.tokens = 0)
  BY <1>1, TakenIs, Limits
<1>4. HasToken(global, GlobalRate, GlobalBurst) <=> f >= 1
  BY DEF HasToken
<1> HIDE DEF f
<1>5. PICK flowed \in Nat : flowed = GlobalRate * now
  BY <1>1, Products, Limits
<1>6. admitted + f <= GlobalBurst + flowed
  <2>1. CASE global.last = Never
    <3>1. admitted = 0
      BY <1>1, <2>1, Limits DEF AuthInv, GlobalPays, AuthTypeOK
    <3> QED BY <1>2, <1>5, <3>1, Limits
  <2>2. CASE global.last # Never
    <3>1. global.last \in Nat /\ now - global.last \in Nat /\ global.tokens \in Nat
      BY <1>1, <2>2 DEF Bucket
    <3>2. PICK since \in Nat : since = (now - global.last) * GlobalRate
      BY <3>1, Products, Limits
    <3>3. PICK old \in Nat : old = GlobalRate * global.last
      BY <3>1, Products, Limits
    <3>4. flowed = since + old
      <4>1. ((now - global.last) + global.last) * GlobalRate
              = (now - global.last) * GlobalRate + global.last * GlobalRate
        BY <3>1, Products, Limits
      <4>2. (now - global.last) + global.last = now
        BY <1>1, <3>1
      <4>3. GlobalRate * now = now * GlobalRate /\ GlobalRate * global.last = global.last * GlobalRate
        BY <1>1, <3>1, Products, Limits
      <4> QED BY <1>5, <3>2, <3>3, <4>1, <4>2, <4>3
    <3>5. admitted + global.tokens <= GlobalBurst + old
      BY <2>2, <3>3 DEF AuthInv, GlobalPays
    <3>6. f <= global.tokens + since
      BY <1>2, <2>2, <3>2
    <3> QED BY <1>1, <1>2, <3>1, <3>4, <3>5, <3>6, Limits
  <2> QED BY <2>1, <2>2
<1>7. admitted' + global'.tokens <= GlobalBurst + flowed
  BY <1>1, <1>2, <1>3, <1>4, <1>6, Limits
<1>8. global'.last \in 0 .. now'
  BY <1>1, <1>3
<1>9. admitted' + global'.tokens <= GlobalBurst + GlobalRate * global'.last
  BY <1>3, <1>5, <1>7
<1> QED BY <1>3, <1>8, <1>9 DEF GlobalPays

(* An attempt that is not written falls in the window of a row.            *)
LEMMA DropTold ==
  ASSUME AuthInv, NEW s \in Sources, NEW who \in {s, "global"}, NEW at, at # Never,
         at \in 0 .. now, [who |-> who, at |-> at] \in marks, ~MarkerDue(at), Drop(s)
  PROVE  DropIsAnnounced'
<1>1. now \in Nat /\ dropped' = dropped \union {[source |-> s, at |-> now]} /\ marks' = marks
  BY AuthFacts DEF Drop
<1>2. at <= now /\ now - at < MarkerWindow
  BY <1>1, Limits DEF MarkerDue
<1>3. PICK m \in marks : m.at = at /\ m.who = who
  BY SMT
<1> QED BY <1>1, <1>2, <1>3 DEF AuthInv, DropIsAnnounced

LEMMA RequestInv ==
  ASSUME AuthInv, NEW s \in Sources, RecordAuthFailure(s)
  PROVE  AuthInv'
<1>1. PICK table \in Evicted(s) : Admit(s, table) \/ OverSource(s, table) \/ OverGlobal(s, table)
  BY DEF RecordAuthFailure
<1>2. attempts < MaxAttempts /\ attempts' = attempts + 1 /\ now' = now
  BY DEF RecordAuthFailure
<1>3. /\ now \in Nat /\ now <= MaxNow /\ now # Never /\ attempts \in Nat /\ admitted \in Nat /\ sourceMarks \in Nat
      /\ admitted + sourceMarks <= attempts
  BY AuthFacts DEF AuthInv
<1>4. AuthTypeOK /\ MarkersAreRows /\ DropIsAnnounced /\ GlobalPays
  BY DEF AuthInv
<1> DEFINE Whole(mark) ==
      /\ Marking(s, table, mark)
      /\ admitted' \in Nat /\ sourceMarks' \in Nat /\ admitted' + sourceMarks' <= attempts + 1
      /\ global' \in Bucket /\ global'.tokens <= GlobalBurst /\ GlobalPays'
      /\ globalMarker' # Never => globalMarker' \in 0 .. now /\ [who |-> "global", at |-> globalMarker'] \in marks'
      /\ globalMarker' \in 0 .. Never
      /\ dropped' \subseteq [source : Sources, at : 0 .. MaxNow]
      /\ marks' \subseteq [who : Sources \union {"global"}, at : 0 .. MaxNow]
      /\ DropIsAnnounced'
<1>5. ASSUME NEW mark \in BOOLEAN, Whole(mark) PROVE AuthInv'
  <2>1. /\ DOMAIN sources' \subseteq Sources /\ IsFiniteSet(DOMAIN sources')
        /\ Cardinality(DOMAIN sources') <= MaxSources
        /\ sources' \in [DOMAIN sources' -> Bucket]
        /\ \A w \in DOMAIN sources' : w # s => w \in DOMAIN sources /\ sources'[w] = sources[w]
        /\ s \in DOMAIN sources' => sources'[s].tokens <= SourceBurst
    BY <1>5, TableStep
  <2>2. \A w \in DOMAIN sources' : sources'[w] \in Bucket /\ sources'[w].tokens <= SourceBurst
    BY <2>1, AuthFacts
  <2>3. {admitted', sourceMarks', attempts'} \subseteq 0 .. MaxAttempts
    <3>1. admitted' \in Nat /\ sourceMarks' \in Nat /\ admitted' + sourceMarks' <= attempts + 1
      BY <1>5
    <3>2. attempts + 1 <= MaxAttempts /\ attempts' = attempts + 1 /\ attempts \in Nat
      BY <1>2, <1>3, Limits
    <3>3. admitted' \in 0 .. MaxAttempts /\ sourceMarks' \in 0 .. MaxAttempts /\ attempts' \in 0 .. MaxAttempts
      <4>1. \A x, y, z, m \in Nat : x + y <= z + 1 /\ z + 1 <= m => x \in 0 .. m /\ y \in 0 .. m /\ z + 1 \in 0 .. m
        OBVIOUS
      <4>2. MaxAttempts \in Nat
        BY Limits
      <4> QED BY <3>1, <3>2, <4>1, <4>2
    <3> QED BY <3>3
  <2>4. now' \in 0 .. MaxNow
    BY <1>2, <1>3, Limits
  <2>5. AuthTypeOK'
    BY <1>5, <2>1, <2>2, <2>3, <2>4 DEF AuthTypeOK
  <2>6. MarkersAreRows'
    <3>1. \A w \in DOMAIN sources' :
           /\ sources'[w].last \in 0 .. now'
           /\ \/ sources'[w].marker = Never
              \/ /\ sources'[w].marker \in 0 .. sources'[w].last
                 /\ [who |-> w, at |-> sources'[w].marker] \in marks'
      BY <1>5, MarkersStep
    <3> QED BY <1>2, <1>5, <3>1 DEF MarkersAreRows
  <2>7. Ledger'
    BY <1>5, LedgerStep
  <2>8. (admitted + sourceMarks <= attempts)'
    BY <1>2, <1>5
  <2> QED BY <1>5, <2>1, <2>5, <2>6, <2>7, <2>8 DEF AuthInv
<1>6. CASE Admit(s, table)
  <2>1. /\ sources' = Charged(table, s) /\ UNCHANGED <<globalMarker, dropped, sourceMarks, marks>>
        /\ admitted' = admitted + 1 /\ HasToken(global, GlobalRate, GlobalBurst)
        /\ global' = Taken(global, GlobalRate, GlobalBurst)
    BY <1>6 DEF Admit
  <2>2. Marking(s, table, FALSE)
    BY <1>2, <2>1 DEF Marking
  <2>3. global' \in Bucket /\ global'.tokens <= GlobalBurst /\ GlobalPays'
    BY <1>2, <2>1, GlobalStep
  <2>4. DropIsAnnounced'
    BY <1>4, <2>1 DEF DropIsAnnounced
  <2>5. /\ globalMarker' # Never => globalMarker' \in 0 .. now /\ [who |-> "global", at |-> globalMarker'] \in marks'
        /\ globalMarker' \in 0 .. Never
        /\ dropped' \subseteq [source : Sources, at : 0 .. MaxNow]
        /\ marks' \subseteq [who : Sources \union {"global"}, at : 0 .. MaxNow]
    BY <1>4, <2>1 DEF MarkersAreRows, AuthTypeOK
  <2>6. admitted' \in Nat /\ sourceMarks' \in Nat /\ admitted' + sourceMarks' <= attempts + 1
    BY <1>3, <2>1
  <2>7. Whole(FALSE)
    BY <2>2, <2>3, <2>4, <2>5, <2>6
  <2> QED BY <1>5, <2>7
<1>7. [who |-> s, at |-> now] \in [who : Sources \union {"global"}, at : 0 .. MaxNow]
      /\ [who |-> "global", at |-> now] \in [who : Sources \union {"global"}, at : 0 .. MaxNow]
      /\ [source |-> s, at |-> now] \in [source : Sources, at : 0 .. MaxNow]
  <2>1. now \in 0 .. MaxNow
    BY <1>3, Limits
  <2> QED BY <2>1
<1>8. CASE OverSource(s, table)
  <2> DEFINE c == Taken(BucketIn(table, s), SourceRate, SourceBurst)
             due == MarkerDue(c.marker)
  <2>1. ~SourceAllows(table, s) /\ Kept(table, s) /\ ~HasToken(BucketIn(table, s), SourceRate, SourceBurst)
    BY <1>8 DEF OverSource, SourceAllows
  <2>2. s \in DOMAIN Charged(table, s) /\ Charged(table, s)[s] = c
    BY <2>1, ChargedIs
  <2>3. /\ sources' = IF due THEN [Charged(table, s) EXCEPT ![s].marker = now] ELSE Charged(table, s)
        /\ sourceMarks' = IF due THEN sourceMarks + 1 ELSE sourceMarks
        /\ IF due THEN Mark(s) ELSE Drop(s)
        /\ UNCHANGED <<global, globalMarker, admitted>>
    BY <1>8, <2>2 DEF OverSource
  <2>4. c.marker = BucketIn(table, s).marker
    BY BucketIs, TakenIs, AuthFacts, Limits
  <2>5. global' \in Bucket /\ global'.tokens <= GlobalBurst /\ GlobalPays'
    BY <1>2, <1>4, <2>3 DEF GlobalPays, AuthTypeOK
  <2>6. admitted' \in Nat /\ sourceMarks' \in Nat /\ admitted' + sourceMarks' <= attempts + 1
    BY <1>3, <2>3
  <2>7. CASE due
    <3>1. marks' = marks \union {[who |-> s, at |-> now]} /\ dropped' = dropped
      BY <2>3, <2>7 DEF Mark
    <3>2. Marking(s, table, TRUE)
      BY <1>2, <2>1, <2>3, <2>7, <3>1 DEF Marking
    <3>3. DropIsAnnounced'
      BY <1>4, <3>1 DEF DropIsAnnounced
    <3>4. /\ globalMarker' # Never => globalMarker' \in 0 .. now /\ [who |-> "global", at |-> globalMarker'] \in marks'
          /\ globalMarker' \in 0 .. Never
          /\ dropped' \subseteq [source : Sources, at : 0 .. MaxNow]
          /\ marks' \subseteq [who : Sources \union {"global"}, at : 0 .. MaxNow]
      BY <1>4, <1>7, <2>3, <3>1 DEF MarkersAreRows, AuthTypeOK
    <3>5. Whole(TRUE)
      BY <2>5, <2>6, <3>2, <3>3, <3>4
    <3> QED BY <1>5, <3>5
  <2>8. CASE ~due
    <3>1. marks' = marks /\ dropped' = dropped \union {[source |-> s, at |-> now]} /\ Drop(s)
      BY <2>3, <2>8 DEF Drop
    <3>2. Marking(s, table, FALSE)
      BY <1>2, <2>3, <2>8, <3>1 DEF Marking
    <3>3. DropIsAnnounced'
      <4>1. c.marker # Never
        BY <2>8 DEF MarkerDue
      <4>2. s \in DOMAIN sources /\ c.marker = sources[s].marker
        BY <2>4, <4>1, BucketIs
      <4>3. /\ sources[s].last \in 0 .. now /\ sources[s].marker \in 0 .. sources[s].last
            /\ [who |-> s, at |-> sources[s].marker] \in marks
        BY <1>4, <4>1, <4>2 DEF MarkersAreRows
      <4>4. sources[s].marker \in 0 .. now
        BY <1>3, <4>3
      <4> QED BY <2>8, <3>1, <4>1, <4>2, <4>3, <4>4, DropTold
    <3>4. /\ globalMarker' # Never => globalMarker' \in 0 .. now /\ [who |-> "global", at |-> globalMarker'] \in marks'
          /\ globalMarker' \in 0 .. Never
          /\ dropped' \subseteq [source : Sources, at : 0 .. MaxNow]
          /\ marks' \subseteq [who : Sources \union {"global"}, at : 0 .. MaxNow]
      BY <1>4, <1>7, <2>3, <3>1 DEF MarkersAreRows, AuthTypeOK
    <3>5. Whole(FALSE)
      BY <2>5, <2>6, <3>2, <3>3, <3>4
    <3> QED BY <1>5, <3>5
  <2> QED BY <2>7, <2>8
<1>9. CASE OverGlobal(s, table)
  <2>1. /\ sources' = Charged(table, s) /\ global' = Taken(global, GlobalRate, GlobalBurst)
        /\ IF MarkerDue(globalMarker) THEN globalMarker' = now /\ Mark("global")
                                      ELSE Drop(s) /\ UNCHANGED globalMarker
        /\ UNCHANGED <<admitted, sourceMarks>>
    BY <1>9 DEF OverGlobal
  <2>2. global' \in Bucket /\ global'.tokens <= GlobalBurst /\ GlobalPays'
    BY <1>2, <2>1, GlobalStep
  <2>3. admitted' \in Nat /\ sourceMarks' \in Nat /\ admitted' + sourceMarks' <= attempts + 1
    BY <1>3, <2>1
  <2>4. CASE MarkerDue(globalMarker)
    <3>1. marks' = marks \union {[who |-> "global", at |-> now]} /\ dropped' = dropped /\ globalMarker' = now
      BY <2>1, <2>4 DEF Mark
    <3>2. Marking(s, table, FALSE)
      BY <1>2, <2>1, <3>1 DEF Marking
    <3>3. DropIsAnnounced'
      BY <1>4, <3>1 DEF DropIsAnnounced
    <3>4. now \in 0 .. now /\ now \in 0 .. Never
      BY <1>3, Limits
    <3>5. /\ globalMarker' # Never => globalMarker' \in 0 .. now /\ [who |-> "global", at |-> globalMarker'] \in marks'
          /\ globalMarker' \in 0 .. Never
          /\ dropped' \subseteq [source : Sources, at : 0 .. MaxNow]
          /\ marks' \subseteq [who : Sources \union {"global"}, at : 0 .. MaxNow]
      BY <1>4, <1>7, <3>1, <3>4 DEF AuthTypeOK
    <3>6. Whole(FALSE)
      BY <2>2, <2>3, <3>2, <3>3, <3>5
    <3> QED BY <1>5, <3>6
  <2>5. CASE ~MarkerDue(globalMarker)
    <3>1. /\ marks' = marks /\ dropped' = dropped \union {[source |-> s, at |-> now]} /\ Drop(s)
          /\ globalMarker' = globalMarker
      BY <2>1, <2>5 DEF Drop
    <3>2. Marking(s, table, FALSE)
      BY <1>2, <2>1, <3>1 DEF Marking
    <3>3. DropIsAnnounced'
      <4>1. globalMarker # Never
        BY <2>5 DEF MarkerDue
      <4>2. globalMarker \in 0 .. now /\ [who |-> "global", at |-> globalMarker] \in marks
        BY <1>4, <4>1 DEF MarkersAreRows
      <4> QED BY <2>5, <3>1, <4>1, <4>2, DropTold
    <3>4. /\ globalMarker' # Never => globalMarker' \in 0 .. now /\ [who |-> "global", at |-> globalMarker'] \in marks'
          /\ globalMarker' \in 0 .. Never
          /\ dropped' \subseteq [source : Sources, at : 0 .. MaxNow]
          /\ marks' \subseteq [who : Sources \union {"global"}, at : 0 .. MaxNow]
      BY <1>4, <1>7, <3>1 DEF MarkersAreRows, AuthTypeOK
    <3>5. Whole(FALSE)
      BY <2>2, <2>3, <3>2, <3>3, <3>4
    <3> QED BY <1>5, <3>5
  <2> QED BY <2>4, <2>5
<1> QED BY <1>1, <1>6, <1>8, <1>9

-----------------------------------------------------------------------------
(* The limiter's theorems.                                                 *)

(* The inductive invariant holds of every run of the limiter, for any      *)
(* sources and any limits whose marker window refills a source's bucket.   *)
THEOREM AuthInvAlways == AuthSpec => []AuthInv
<1>1. AuthInv /\ [AuthNext]_limitVars => AuthInv'
  <2> SUFFICES ASSUME AuthInv, [AuthNext]_limitVars PROVE AuthInv'
    OBVIOUS
  <2>1. ASSUME NEW s \in Sources, RecordAuthFailure(s) PROVE AuthInv'
    BY <2>1, RequestInv
  <2>2. CASE PassTime
    BY <2>2, PassTimeInv
  <2>3. CASE UNCHANGED limitVars
    <3>1. \A b, n : Covered(b, n)' <=> Covered(b, n)
      BY DEF Covered
    <3>2. Ledger'
      BY <2>3, <3>1 DEF limitVars, AuthInv, Ledger, Shared
    <3>3. AuthTypeOK' /\ GlobalPays' /\ MarkersAreRows' /\ DropIsAnnounced'
      BY <2>3 DEF limitVars, AuthInv, AuthTypeOK, GlobalPays, MarkersAreRows, DropIsAnnounced
    <3> QED BY <2>3, <3>2, <3>3 DEF limitVars, AuthInv
  <2> QED BY <2>1, <2>2, <2>3 DEF AuthNext
<1> QED BY <1>1, AuthInitInv, PTL DEF AuthSpec

(* However many addresses reject how many requests, and whatever is        *)
(* evicted: the rows stay under the global bucket, no attempt is dropped   *)
(* outside the window of a flood row, and a source's flood row costs a     *)
(* whole burst (classify, evict, markSource, markGlobal).                  *)
THEOREM FloodAlwaysBoundedAndTold == AuthSpec => []FloodIsBoundedAndTold
<1>1. AuthInv => FloodIsBoundedAndTold
  <2> SUFFICES ASSUME AuthInv PROVE FloodIsBoundedAndTold
    OBVIOUS
  <2>1. now \in Nat /\ now # Never /\ attempts \in Nat /\ admitted \in Nat /\ sourceMarks \in Nat /\ global \in Bucket
    BY AuthFacts
  <2>2. RowsBounded
    <3>1. PICK flowed \in Nat : flowed = GlobalRate * now
      BY <2>1, Products, Limits
    <3>2. CASE global.last = Never
      <4>1. admitted = 0
        BY <2>1, <3>2, Limits DEF AuthInv, GlobalPays, AuthTypeOK
      <4> QED BY <3>1, <4>1, Limits DEF RowsBounded
    <3>3. CASE global.last # Never
      <4>1. global.last \in Nat /\ global.last <= now /\ global.tokens \in Nat
        BY <2>1, <3>3 DEF AuthInv, GlobalPays, Bucket
      <4>2. PICK old \in Nat : old = GlobalRate * global.last
        BY <4>1, Products, Limits
      <4>3. old <= flowed
        <5>1. global.last * GlobalRate <= now * GlobalRate
          BY <2>1, <4>1, Products, Limits
        <5>2. GlobalRate * now = now * GlobalRate /\ GlobalRate * global.last = global.last * GlobalRate
          BY <2>1, <4>1, Products, Limits
        <5> QED BY <3>1, <4>2, <5>1, <5>2
      <4>4. admitted + global.tokens <= GlobalBurst + old
        BY <3>3, <4>2 DEF AuthInv, GlobalPays
      <4>5. admitted <= GlobalBurst + flowed
        BY <2>1, <4>1, <4>3, <4>4, Limits
      <4> QED BY <3>1, <4>5 DEF RowsBounded
    <3> QED BY <3>2, <3>3
  <2>3. MarkersCostABurst
    <3>1. PICK paid \in [Sources -> SUBSET (1 .. attempts)], spent \in SUBSET (1 .. attempts) : Shared(paid, spent)
      BY DEF AuthInv, Ledger
    <3>2. 1 \in Int /\ attempts \in Int
      BY <2>1
    <3>3. IsFiniteSet(1 .. attempts) /\ Cardinality(1 .. attempts) = attempts
      <4>1. /\ IsFiniteSet(1 .. attempts)
            /\ Cardinality(1 .. attempts) = IF 1 > attempts THEN 0 ELSE attempts - 1 + 1
        BY <3>2, FS_Interval
      <4> QED BY <2>1, <4>1
    <3>4. IsFiniteSet(spent) /\ Cardinality(spent) <= attempts
      BY <3>3, FS_Subset
    <3>5. Cardinality(spent) \in Nat
      BY <3>4, FS_CardinalityType
    <3>6. PICK x \in Nat : x = sourceMarks * (SourceBurst + 1)
      BY <2>1, Limits, Products
    <3>7. x <= Cardinality(spent)
      BY <3>1, <3>6 DEF Shared
    <3>8. x <= attempts
      BY <2>1, <3>4, <3>5, <3>7
    <3> QED BY <3>6, <3>8 DEF MarkersCostABurst
  <2> QED BY <2>2, <2>3 DEF AuthInv, FloodIsBoundedAndTold
<1> QED BY <1>1, AuthInvAlways, PTL

-----------------------------------------------------------------------------
(* The token verifier and the role policy.                                 *)

Slots == {NoReq} \union {Refused(t) : t \in Tokens} \union {Undecided(t) : t \in Tokens}
           \union {Known(t) : t \in {u \in Tokens : SubjectHolds(u)}}

LEMMA SlotPhases ==
  /\ NoReq.phase = "none"
  /\ \A t : Refused(t).phase = "refused" /\ Undecided(t).phase = "keys" /\ Undecided(t).token = t
            /\ Known(t).phase = "known" /\ Known(t).id = Identity(t)
BY DEF NoReq, Refused, Undecided, Known

(* A token judged is refused or its bearer known.                          *)
LEMMA JudgedIsSlot ==
  ASSUME NEW t \in Tokens, NEW keys
  PROVE  Judged(t, keys) \in Slots
<1>1. CASE t.key \in keys /\ SubjectHolds(t)
  BY <1>1 DEF Judged, Slots, Known
<1>2. CASE ~(t.key \in keys /\ SubjectHolds(t))
  BY <1>2 DEF Judged, Slots
<1> QED BY <1>1, <1>2

LEMMA ResumeTypes ==
  ASSUME req \in [Clients -> Slots], NEW keys, Resume(keys)
  PROVE  req' \in [Clients -> Slots]
<1>1. ASSUME NEW c \in Clients PROVE (IF c \in AwaitingKeys THEN Judged(req[c].token, keys) ELSE req[c]) \in Slots
  <2>1. CASE c \in AwaitingKeys
    <3>1. req[c].phase = "keys" /\ req[c] \in Slots
      BY <2>1 DEF AwaitingKeys
    <3>2. req[c].token \in Tokens
      BY <3>1, SlotPhases DEF Slots
    <3> QED BY <2>1, <3>2, JudgedIsSlot
  <2>2. CASE c \notin AwaitingKeys
    BY <2>2
  <2> QED BY <2>1, <2>2
<1> QED BY <1>1 DEF Resume

LEMMA AccessInitInv == AccessInit => AccessInv
<1> SUFFICES ASSUME AccessInit PROVE AccessInv
  OBVIOUS
<1>1. req \in [Clients -> Slots]
  BY DEF AccessInit, Slots
<1>2. AccessTypes
  <2>1. published \subseteq Keys
    BY DEF AccessInit
  <2>2. fetch \in [on : BOOLEAN, keys : SUBSET Keys]
    BY DEF AccessInit, NoFetch
  <2> QED BY <1>1, <2>1, <2>2, IntervalAssumption DEF AccessInit, AccessTypes, Slots
<1>3. KeysWereServed
  BY DEF KeysWereServed, AccessInit, NoFetch
<1> QED BY <1>2, <1>3, IntervalAssumption DEF AccessInit, AccessInv

LEMMA AccessNextInv == AccessInv /\ [AccessNext]_accessVars => AccessInv'
<1> SUFFICES ASSUME AccessInv, [AccessNext]_accessVars PROVE AccessInv'
  OBVIOUS
<1>0. /\ req \in [Clients -> Slots] /\ config \in Configs /\ policy \in Policies \union {EmptyPolicy}
      /\ published \subseteq Keys /\ retired \subseteq Keys /\ cached \subseteq Keys
      /\ fetch \in [on : BOOLEAN, keys : SUBSET Keys]
      /\ age \in 0..RefetchInterval /\ idle \in 0..RefetchInterval /\ age <= idle
      /\ cached \union fetch.keys \subseteq published \union retired
      /\ (fetch.on => cached \cap published \subseteq fetch.keys)
      /\ (policy = EmptyPolicy \/ NewPolicy(policy)) /\ RefetchInterval \in Nat
  BY IntervalAssumption DEF AccessInv, AccessTypes, Slots, KeysWereServed
<1>1. ASSUME NEW c \in Clients, NEW t \in Tokens, Verify(c, t) PROVE AccessInv'
  <2>1. UNCHANGED <<config, published, retired, cached, fetch, age, idle, policy>>
    BY <1>1 DEF Verify
  <2>2. req' \in [Clients -> Slots]
    <3> DEFINE s == IF ~t.compact \/ ~ClaimsHold(t) THEN Refused(t)
                    ELSE IF t.key \in cached THEN Judged(t, cached)
                    ELSE [phase |-> "keys", token |-> t]
    <3>1. Refused(t) \in Slots /\ [phase |-> "keys", token |-> t] \in Slots
      BY DEF Slots, Undecided
    <3>2. s \in Slots
      BY <3>1, JudgedIsSlot
    <3>3. req' = [req EXCEPT ![c] = s]
      BY <1>1 DEF Verify
    <3> HIDE DEF s
    <3> QED BY <1>0, <3>2, <3>3
  <2> QED BY <1>0, <2>1, <2>2 DEF AccessInv, AccessTypes, Slots, KeysWereServed
<1>2. CASE StartFetch
  <2>1. /\ fetch' = [on |-> TRUE, keys |-> published] /\ idle' = 0 /\ age' = 0
        /\ UNCHANGED <<config, published, retired, cached, req, policy>>
    BY <1>2 DEF StartFetch, TakeSlot
  <2>2. fetch' \in [on : BOOLEAN, keys : SUBSET Keys] /\ fetch'.keys = published
    BY <1>0, <2>1
  <2>3. KeysWereServed'
    BY <1>0, <2>1, <2>2 DEF KeysWereServed
  <2> QED BY <1>0, <2>1, <2>2, <2>3 DEF AccessInv, AccessTypes, Slots
<1>3. CASE FetchLimited
  <2>1. UNCHANGED <<config, published, retired, cached, fetch, age, idle, policy>>
    BY <1>3 DEF FetchLimited, Limited
  <2>2. req' \in [Clients -> Slots]
    BY <1>0, <1>3, ResumeTypes DEF FetchLimited
  <2> QED BY <1>0, <2>1, <2>2 DEF AccessInv, AccessTypes, Slots, KeysWereServed
<1>4. CASE FetchDone
  <2>1. /\ cached' = fetch.keys /\ fetch' = NoFetch
        /\ UNCHANGED <<config, published, retired, age, idle, policy>>
    BY <1>4 DEF FetchDone
  <2>2. req' \in [Clients -> Slots]
    BY <1>0, <1>4, ResumeTypes DEF FetchDone
  <2>3. fetch' \in [on : BOOLEAN, keys : SUBSET Keys] /\ ~fetch'.on /\ fetch'.keys = {}
    BY <2>1 DEF NoFetch
  <2>4. KeysWereServed'
    BY <1>0, <2>1, <2>3 DEF KeysWereServed
  <2> QED BY <1>0, <2>1, <2>2, <2>3, <2>4 DEF AccessInv, AccessTypes, Slots
<1>5. CASE FetchFailed
  <2>1. fetch' = NoFetch /\ UNCHANGED <<config, published, retired, cached, age, idle, policy>>
    BY <1>5 DEF FetchFailed, KeptAfterError
  <2>2. req' \in [Clients -> Slots]
    BY <1>0, <1>5, ResumeTypes DEF FetchFailed
  <2>3. fetch' \in [on : BOOLEAN, keys : SUBSET Keys] /\ ~fetch'.on /\ fetch'.keys = {}
    BY <2>1 DEF NoFetch
  <2>4. KeysWereServed'
    BY <1>0, <2>1, <2>3 DEF KeysWereServed
  <2> QED BY <1>0, <2>1, <2>2, <2>3, <2>4 DEF AccessInv, AccessTypes, Slots
<1>6. CASE Rotate
  <2>1. PICK k \in Keys \ (published \union retired), keep \in SUBSET published :
          published' = keep \union {k} /\ retired' = retired \union (published \ keep)
    BY <1>6 DEF Rotate
  <2>2. UNCHANGED <<config, cached, fetch, age, idle, req, policy>>
    BY <1>6 DEF Rotate
  <2>3. KeysWereServed'
    BY <1>0, <2>1, <2>2 DEF KeysWereServed
  <2> QED BY <1>0, <2>1, <2>2, <2>3 DEF AccessInv, AccessTypes, Slots
<1>7. CASE SlotTick
  <2>1. UNCHANGED <<config, published, retired, cached, fetch, req, policy>>
    BY <1>7 DEF SlotTick
  <2>2. age' \in 0..RefetchInterval /\ idle' \in 0..RefetchInterval /\ age' <= idle'
    BY <1>0, <1>7 DEF SlotTick
  <2> QED BY <1>0, <2>1, <2>2 DEF AccessInv, AccessTypes, Slots, KeysWereServed
<1>8. ASSUME NEW p \in Policies, Load(p) PROVE AccessInv'
  <2>1. /\ NewPolicy(p) /\ policy' = p
        /\ UNCHANGED <<config, published, retired, cached, fetch, age, idle, req>>
    BY <1>8 DEF Load
  <2> QED BY <1>0, <2>1 DEF AccessInv, AccessTypes, Slots, KeysWereServed
<1>9. CASE UNCHANGED accessVars
  BY <1>0, <1>9 DEF accessVars, AccessInv, AccessTypes, Slots, KeysWereServed
<1> QED BY <1>1, <1>2, <1>3, <1>4, <1>5, <1>6, <1>7, <1>8, <1>9 DEF AccessNext

(* The verifier's and the policy's bookkeeping, for any clients, tokens,   *)
(* keys and policies: a caller is known by a token that was judged, a key  *)
(* is one the provider served, every request for keys took the limiter's   *)
(* slot, and only a policy NewPolicy accepts is in force.                  *)
THEOREM AccessInvAlways == AccessSpec => []AccessInv
BY AccessInitInv, AccessNextInv, PTL DEF AccessSpec

(* A grant's key has one part: the tools under it are the ones whose first *)
(* part it is.                                                             *)
LEMMA GrantIsHome ==
  ASSUME NEW b \in Seq(STRING) \ {<< >>}, NEW name \in Seq(STRING) \ {<< >>},
         ValidBackend(b), Under(b, name)
  PROVE  b = <<name[1]>>
<1>1. Len(b) \in Nat /\ Len(b) # 0 /\ Len(b) <= 1
  BY DEF ValidBackend, HasSeparator
<1>2. Len(b) = 1
  <2>1. \A n \in Nat : n # 0 /\ n <= 1 => n = 1
    OBVIOUS
  <2> QED BY <1>1, <2>1, Zenon
<1>3. SubSeq(b, 1, 1) = SubSeq(name, 1, 1) /\ Len(name) \in Nat /\ Len(name) > 1
  BY <1>2 DEF Under, IsPrefix
<1>4. SubSeq(b, 1, 1)[1] = b[1] /\ SubSeq(name, 1, 1)[1] = name[1]
  BY <1>2, <1>3
<1>5. b[1] = name[1]
  BY <1>3, <1>4
<1> QED BY <1>2, <1>5

(* A caller may do what one of its roles was written to let it do, for any *)
(* policy that can be loaded and any caller: a grant reaches only its own  *)
(* backend, and what changes something was named by a role that carries    *)
(* the capability (Allows, AuthorizeNonRead, validateGrants).              *)
THEOREM RolesAlwaysMeanWhatTheySay == AccessSpec => []RolesMeanWhatTheySay
<1>1. AccessInv => RolesMeanWhatTheySay
  <2> SUFFICES ASSUME AccessInv PROVE RolesMeanWhatTheySay
    OBVIOUS
  <2>1. AccessTypeOK
    <3>1. ASSUME NEW c \in Clients
          PROVE  /\ req[c].phase \in {"none", "keys", "known", "refused"}
                 /\ req[c].phase = "known" => ValidateSubject(req[c].id.sub)
      <4>1. req[c] \in Slots
        BY DEF AccessInv, AccessTypes, Slots
      <4>2. \A t \in Tokens : SubjectHolds(t) => ValidateSubject(Known(t).id.sub)
        BY DEF SubjectHolds, Known, Identity
      <4> QED BY <4>1, <4>2, SlotPhases DEF Slots
    <3> QED BY <3>1 DEF AccessTypeOK, AccessInv, AccessTypes
  <2>2. GrantsStayHome
    <3> SUFFICES ASSUME NEW i \in DOMAIN policy.roles, NEW name \in Advertised,
                        Allows(policy.roles[i], name), name \notin policy.roles[i].tools
                 PROVE  <<name[1]>> \in DOMAIN policy.roles[i].grants
      BY DEF GrantsStayHome
    <3>1. policy # EmptyPolicy
      BY DEF EmptyPolicy
    <3>2. policy \in Policies /\ NewPolicy(policy)
      BY <3>1 DEF AccessInv, AccessTypes
    <3>3. PICK b \in DOMAIN policy.roles[i].grants : Under(b, name)
      BY DEF Allows
    <3>4. ValidBackend(b)
      BY <3>2 DEF NewPolicy, ValidateRole, validateGrants
    <3>5. b \in Seq(STRING) \ {<< >>} /\ name \in Seq(STRING) \ {<< >>}
      BY <3>2, NamesAssumption
    <3> QED BY <3>3, <3>4, <3>5, GrantIsHome
  <2>3. NonReadIsNamed
    BY DEF NonReadIsNamed, AuthorizeNonRead, AllowedTools, RolesFor, Allows, AllowsExplicitly
  <2> QED BY <2>1, <2>2, <2>3 DEF RolesMeanWhatTheySay
<1> QED BY <1>1, AccessInvAlways, PTL

(* The identity provider is asked at most once per interval, and a key the *)
(* verifier knows is kept while the provider serves it, for any number of  *)
(* callers and keys and whatever fails (RoundTrip, the key set's cache).   *)
THEOREM KeysAreAlwaysKept == AccessSpec => KeysAreKept
<1>1. AccessInv /\ [AccessNext]_accessVars => [~fetch.on /\ fetch'.on => idle >= RefetchInterval]_accessVars
  <2> SUFFICES ASSUME AccessInv, AccessNext, ~fetch.on, fetch'.on PROVE idle >= RefetchInterval
    OBVIOUS
  <2>1. age \in Nat /\ idle \in Nat /\ age <= idle /\ RefetchInterval \in Nat
    BY IntervalAssumption DEF AccessInv, AccessTypes
  <2>2. StartFetch
    BY DEF AccessNext, Verify, FetchLimited, FetchDone, FetchFailed, Rotate, SlotTick, Load, NoFetch
  <2>3. age >= RefetchInterval
    BY <2>2 DEF StartFetch, TakeSlot
  <2> QED BY <2>1, <2>3
<1>2. AccessInv /\ [AccessNext]_accessVars => [cached \cap published \subseteq cached']_accessVars
  <2> SUFFICES ASSUME AccessInv, AccessNext PROVE cached \cap published \subseteq cached'
    OBVIOUS
  <2>1. CASE FetchDone
    BY <2>1 DEF FetchDone, AccessInv, KeysWereServed
  <2>2. CASE ~FetchDone
    <3>1. UNCHANGED cached
      BY <2>2 DEF AccessNext, Verify, StartFetch, FetchLimited, FetchFailed, KeptAfterError, Rotate, SlotTick, Load
    <3> QED BY <3>1
  <2> QED BY <2>1, <2>2
<1>3. AccessSpec => FetchesPaced
  BY <1>1, AccessInvAlways, PTL DEF AccessSpec, FetchesPaced
<1>4. AccessSpec => KnownKeysSurvive
  BY <1>2, AccessInvAlways, PTL DEF AccessSpec, KnownKeysSurvive
<1> QED BY <1>3, <1>4, PTL DEF KeysAreKept

-----------------------------------------------------------------------------
(* The MCP endpoint.                                                       *)

(* What an answer may tell, and what it leaves behind.                     *)
Fit(a) ==
  a.what \notin {"none", "unauthenticated"} /\ a.asked \notin {<< >>, NoName} =>
    /\ a.what \notin {"unknown tool", "account refused", "service unavailable", "internal"} =>
         a.asked \in a.served \/ a.seen
    /\ a.what = "unknown tool" => ~a.seen
    /\ a.rows = << >> => a.what = "service unavailable"
    /\ a.source = Proxy

AllFit == \A r \in Requests : Fit(answer[r])

LEMMA FitTells ==
  AllFit <=> GuessesLearnNothing /\ PulledIsSaid /\ CallsLeaveRows /\ SourceIsTheProxys
BY DEF AllFit, Fit, GuessesLearnNothing, PulledIsSaid, CallsLeaveRows, SourceIsTheProxys, Answered

LEMMA EndInvParts == EndInv <=> EndTypeOK /\ EndTypes /\ Remembered /\ AllFit
BY FitTells DEF EndInv, AnswersFitTheCaller, CallsAreTraceable

(* The table answers as the lists the subject got would.                   *)
LEMMA ListedIsRecent ==
  ASSUME EndTypeOK, Remembered, NEW c \in Callers, NEW n
  PROVE  wasListed(c, n) <=> Recent(c, n)
<1>1. clock \in Nat /\ Retention \in Nat
  BY EndpointAssumption DEF EndTypeOK
<1>2. CASE c \notin DOMAIN listed
  BY <1>2 DEF wasListed, Recent, Remembered
<1>3. CASE c \in DOMAIN listed
  <2>1. ASSUME wasListed(c, n) PROVE Recent(c, n)
    BY <1>3, <2>1 DEF wasListed, Recent, Remembered
  <2>2. ASSUME Recent(c, n) PROVE wasListed(c, n)
    <3>1. n \in DOMAIN shown[c] /\ clock - shown[c][n] <= Retention
      BY <2>2 DEF Recent
    <3>2. shown[c][n] \in Nat /\ (n \in DOMAIN listed[c].names \/ clock - shown[c][n] > Retention)
      BY <1>3, <3>1 DEF Remembered
    <3>3. n \in DOMAIN listed[c].names
      BY <1>1, <3>1, <3>2
    <3> QED BY <1>3, <3>1, <3>3 DEF wasListed, Remembered
  <2> QED BY <2>1, <2>2
<1> QED BY <1>2, <1>3

LEMMA TablesStand ==
  ASSUME EndTypeOK, Remembered, UNCHANGED <<clock, tool, grants, barred, listed, shown>>
  PROVE  EndTypeOK' /\ Remembered'
BY DEF EndTypeOK, Remembered

(* A request is answered.                                                  *)
LEMMA SayKeeps ==
  ASSUME EndTypes, AllFit, NEW r \in Requests, request[r] \in InFlight, NEW what \in Told, NEW rows \in Rows,
         Say(r, what, rows),
         request[r].asked \notin {<< >>, NoName} /\ what # "unauthenticated" =>
           /\ what \notin {"unknown tool", "account refused", "service unavailable", "internal"} =>
                request[r].asked \in request[r].served \/ Recent(request[r].caller, request[r].asked)
           /\ what = "unknown tool" => ~Recent(request[r].caller, request[r].asked)
           /\ rows = << >> => what = "service unavailable"
  PROVE  EndTypes' /\ AllFit'
<1> DEFINE a == [what |-> what, caller |-> request[r].caller, asked |-> request[r].asked,
                 served |-> request[r].served, source |-> request[r].source, rows |-> rows,
                 seen |-> Recent(request[r].caller, request[r].asked)]
<1>1. request' = [request EXCEPT ![r] = Ready] /\ answer' = [answer EXCEPT ![r] = a]
  BY DEF Say
<1>2. Recent(request[r].caller, request[r].asked) \in BOOLEAN
  BY DEF Recent
<1>3. a \in Given
  BY <1>2 DEF Given, InFlight
<1>4. Fit(a)
  <2>1. request[r].source = Proxy
    BY DEF InFlight
  <2> QED BY <2>1 DEF Fit
<1> HIDE DEF a
<1>5. EndTypes'
  <2>1. request' \in [Requests -> {Ready} \union InFlight] /\ answer' \in [Requests -> {NoAnswer} \union Given]
    BY <1>1, <1>3 DEF EndTypes
  <2>2. ASSUME NEW q \in Requests, request'[q].phase = "method" PROVE StatusTool \in request'[q].served
    <3>1. Ready.phase # "method"
      BY DEF Ready
    <3> QED BY <1>1, <2>2, <3>1 DEF EndTypes
  <2> QED BY <2>1, <2>2 DEF EndTypes
<1>6. AllFit'
  <2>1. ASSUME NEW q \in Requests PROVE Fit(answer'[q])
    <3>1. CASE q = r
      BY <1>1, <1>4, <3>1 DEF EndTypes
    <3>2. CASE q # r
      BY <1>1, <3>2 DEF EndTypes, AllFit
    <3> QED BY <3>1, <3>2
  <2> QED BY <2>1 DEF AllFit, Fit
<1> QED BY <1>5, <1>6

(* A sequence over a set is one over any larger set.                       *)
LEMMA SeqMonotone ==
  ASSUME NEW S, NEW T, S \subseteq T, NEW f \in Seq(S)
  PROVE  f \in Seq(T)
OBVIOUS

(* An entry appended is the last one.                                      *)
LEMMA AppendedIsLast ==
  ASSUME NEW S, NEW f \in Seq(S), NEW p, NEW m \in Nat, m = Len(f)
  PROVE  DOMAIN (f \o <<p>>) = 1 .. (m + 1) /\ (f \o <<p>>)[m + 1] = p
<1> DEFINE T == S \union {p}
<1>1. <<p>> \in Seq(T) /\ Len(<<p>>) = 1 /\ <<p>>[1] = p
  OBVIOUS
<1>2. f \in Seq(T)
  BY Zenon, SeqMonotone
<1> HIDE DEF T
<1>3. f \o <<p>> \in Seq(T) /\ Len(f \o <<p>>) = m + 1
  BY <1>1, <1>2
<1>4. DOMAIN (f \o <<p>>) = 1 .. (m + 1)
  BY <1>3
<1>5. (f \o <<p>>)[m + 1] = p
  BY <1>1, <1>2
<1> QED BY <1>4, <1>5

(* The rightmost entry is the proxy's own.                                 *)
LEMMA ProxyIsLast ==
  ASSUME NEW f \in Seq(STRING)
  PROVE  sourceAddress(f \o <<Proxy>>) = Proxy
<1> DEFINE g == f \o <<Proxy>>
           named == {i \in DOMAIN g : g[i] # ""}
           last == CHOOSE i \in named : \A j \in named : j <= i
<1>1. PICK m \in Nat : m = Len(f)
  OBVIOUS
<1>2. Proxy # ""
  BY Zenon DEF Proxy
<1>3. DOMAIN g = 1 .. (m + 1) /\ g[m + 1] = Proxy
  BY <1>1, AppendedIsLast, Zenon
<1>4. sourceAddress(g) = IF named = {} THEN Proxy ELSE g[last]
  BY Zenon DEF sourceAddress
<1> HIDE DEF g
<1>5. m + 1 \in DOMAIN g
  BY <1>3
<1>6. m + 1 \in named /\ named \subseteq DOMAIN g
  BY <1>2, <1>3, <1>5, Zenon
<1> HIDE DEF named
<1>7. \A i \in named : i \in Int /\ i <= m + 1
  BY <1>3, <1>6
<1>8. last \in named /\ \A j \in named : j <= last
  BY <1>6, <1>7
<1> HIDE DEF last
<1>9. last = m + 1
  BY <1>6, <1>7, <1>8
<1>10. sourceAddress(g) = Proxy
  BY <1>3, <1>4, <1>6, <1>9, Zenon
<1> QED BY <1>10 DEF g

LEMMA EndInitInv == EndInit => EndInv
<1> SUFFICES ASSUME EndInit PROVE EndInv
  OBVIOUS
<1>1. DOMAIN listed = {} /\ \A c \in Callers : DOMAIN shown[c] = {}
  BY DEF EndInit
<1>2. IsFiniteSet(DOMAIN listed) /\ Cardinality(DOMAIN listed) = 0
  BY <1>1, FS_EmptySet
<1>3. EndTypeOK
  BY <1>1, <1>2, EndpointAssumption DEF EndInit, EndTypeOK
<1>4. EndTypes
  BY DEF EndInit, EndTypes, Ready
<1>5. Remembered
  BY <1>1, <1>2 DEF EndInit, Remembered
<1>6. AllFit
  BY DEF EndInit, AllFit, Fit, NoAnswer
<1> QED BY <1>3, <1>4, <1>5, <1>6, EndInvParts

(* What evictOldest leaves.                                                *)
LEMMA EvictKeeps ==
  ASSUME EndTypeOK, Remembered, NEW s \in Callers, NEW table \in Tables(s)
  PROVE  /\ DOMAIN table \subseteq DOMAIN listed /\ IsFiniteSet(DOMAIN table)
         /\ \A x \in DOMAIN table : table[x] = listed[x]
         /\ s \in DOMAIN listed => s \in DOMAIN table
         /\ Cardinality(DOMAIN table) <= MaxListed
         /\ s \notin DOMAIN table => Cardinality(DOMAIN table) + 1 <= MaxListed
<1>1. MaxListed \in Nat /\ MaxListed # 0 /\ IsFiniteSet(DOMAIN listed) /\ Cardinality(DOMAIN listed) <= MaxListed
  BY EndpointAssumption DEF EndTypeOK, Remembered
<1>2. Cardinality(DOMAIN listed) \in Nat
  BY <1>1, FS_CardinalityType
<1>3. CASE Room(s)
  <2>1. table = listed
    BY <1>3 DEF Tables
  <2>2. s \notin DOMAIN listed => Cardinality(DOMAIN listed) < MaxListed
    BY <1>3 DEF Room
  <2> QED BY <1>1, <1>2, <2>1, <2>2
<1>4. CASE ~Room(s)
  <2>1. PICK o \in Oldest : table = OnlyNames(listed, DOMAIN listed \ {o})
    BY <1>4 DEF Tables
  <2>2. s \notin DOMAIN listed /\ o \in DOMAIN listed
    BY <1>4, <2>1 DEF Room, Oldest
  <2>3. DOMAIN table = DOMAIN listed \ {o} /\ \A x \in DOMAIN table : table[x] = listed[x]
    BY <2>1 DEF OnlyNames
  <2>4. IsFiniteSet(DOMAIN table) /\ Cardinality(DOMAIN table) = Cardinality(DOMAIN listed) - 1
    BY <1>1, <2>2, <2>3, FS_RemoveElement
  <2> QED BY <1>1, <1>2, <2>2, <2>3, <2>4
<1> QED BY <1>3, <1>4

(* A list that is remembered.                                              *)
LEMMA RememberKeeps ==
  ASSUME EndTypeOK, Remembered, NEW s \in Callers, NEW names, remember(s, names),
         UNCHANGED <<clock, tool, grants, barred>>
  PROVE  EndTypeOK' /\ Remembered'
<1>1. clock \in Nat /\ clock' = clock /\ Retention \in Nat /\ MaxListed \in Nat
  BY EndpointAssumption DEF EndTypeOK
<1>2. PICK table \in Tables(s) :
        /\ shown' = [c \in Callers |-> IF c = s THEN Stamped(shown[c], names)
                                       ELSE IF c \in DOMAIN table THEN shown[c] ELSE << >>]
        /\ listed' = [x \in DOMAIN table \union {s} |->
               IF x = s THEN [names |-> Stamped(KeptNames(table, s), names), last |-> clock] ELSE table[x]]
  BY DEF remember
<1>3. /\ DOMAIN table \subseteq DOMAIN listed /\ IsFiniteSet(DOMAIN table)
      /\ \A x \in DOMAIN table : table[x] = listed[x]
      /\ s \in DOMAIN listed => s \in DOMAIN table
      /\ Cardinality(DOMAIN table) <= MaxListed
      /\ s \notin DOMAIN table => Cardinality(DOMAIN table) + 1 <= MaxListed
  BY EvictKeeps
<1> DEFINE kept == KeptNames(table, s)
<1>4. /\ DOMAIN listed' = DOMAIN table \union {s}
      /\ listed'[s].names = Stamped(kept, names) /\ listed'[s].last = clock
      /\ \A x \in DOMAIN table \ {s} : listed'[x] = listed[x]
  BY <1>2, <1>3
<1>5. /\ DOMAIN shown' = Callers /\ shown'[s] = Stamped(shown[s], names)
      /\ \A c \in DOMAIN table \ {s} : c \in Callers => shown'[c] = shown[c]
      /\ \A c \in Callers \ (DOMAIN table \union {s}) : shown'[c] = << >>
  BY <1>2
<1>6. IsFiniteSet(DOMAIN listed') /\ Cardinality(DOMAIN listed') <= MaxListed
  <2>1. CASE s \in DOMAIN table
    <3>1. DOMAIN table \union {s} = DOMAIN table
      BY <2>1
    <3> QED BY <1>3, <1>4, <3>1
  <2>2. CASE s \notin DOMAIN table
    BY ZenonT(40), <1>3, <1>4, <2>2, FS_AddElement
  <2> QED BY <2>1, <2>2
<1>7. EndTypeOK'
  <2>1. DOMAIN listed' \subseteq Callers
    BY <1>3, <1>4 DEF EndTypeOK
  <2>2. ASSUME NEW c \in DOMAIN listed' PROVE listed'[c].last <= clock
    <3>1. CASE c = s
      BY <1>1, <1>4, <3>1
    <3>2. CASE c # s
      BY <1>3, <1>4, <3>2 DEF EndTypeOK
    <3> QED BY <3>1, <3>2
  <2> QED BY <1>1, <1>6, <2>1, <2>2 DEF EndTypeOK
<1>8. /\ \A n \in DOMAIN kept : n \in DOMAIN shown[s] /\ kept[n] = shown[s][n]
      /\ \A n \in DOMAIN shown[s] : /\ shown[s][n] \in Nat /\ shown[s][n] <= clock
                                    /\ n \in DOMAIN kept \/ clock - shown[s][n] > Retention
  <2>1. CASE s \notin DOMAIN table
    <3>1. kept = << >> /\ DOMAIN shown[s] = {}
      BY <1>3, <2>1 DEF KeptNames, Remembered
    <3> QED BY <3>1
  <2>2. CASE s \in DOMAIN table
    <3>1. /\ DOMAIN kept = {n \in DOMAIN listed[s].names : clock - listed[s].names[n] <= Retention}
          /\ \A n \in DOMAIN kept : kept[n] = listed[s].names[n]
      BY <1>3, <2>2 DEF KeptNames, OnlyNames
    <3> HIDE DEF kept
    <3>2. ASSUME NEW n \in DOMAIN kept PROVE n \in DOMAIN shown[s] /\ kept[n] = shown[s][n]
      BY <1>3, <2>2, <3>1 DEF Remembered
    <3>3. ASSUME NEW n \in DOMAIN shown[s]
          PROVE  /\ shown[s][n] \in Nat /\ shown[s][n] <= clock
                 /\ n \in DOMAIN kept \/ clock - shown[s][n] > Retention
      <4>1. /\ shown[s][n] \in Nat /\ shown[s][n] <= clock
            /\ n \in DOMAIN listed[s].names \/ clock - shown[s][n] > Retention
            /\ n \in DOMAIN listed[s].names => listed[s].names[n] = shown[s][n]
        BY <1>3, <2>2 DEF Remembered
      <4> QED BY <1>1, <3>1, <4>1
    <3> QED BY <3>2, <3>3
  <2> QED BY <2>1, <2>2
<1> HIDE DEF kept
<1>9. /\ DOMAIN listed'[s].names = DOMAIN kept \union names /\ DOMAIN shown'[s] = DOMAIN shown[s] \union names
      /\ \A n \in DOMAIN kept \union names : listed'[s].names[n] = IF n \in names THEN clock ELSE kept[n]
      /\ \A n \in DOMAIN shown[s] \union names : shown'[s][n] = IF n \in names THEN clock ELSE shown[s][n]
  BY <1>4, <1>5 DEF Stamped
<1>10. Remembered'
  <2>1. ASSUME NEW c \in Callers \ DOMAIN listed' PROVE DOMAIN shown'[c] = {}
    BY <1>4, <1>5
  <2>2. ASSUME NEW c \in DOMAIN listed'
        PROVE  /\ listed'[c].last \in Nat
               /\ \A n \in DOMAIN listed'[c].names :
                    n \in DOMAIN shown'[c] /\ listed'[c].names[n] = shown'[c][n]
               /\ \A n \in DOMAIN shown'[c] :
                    /\ shown'[c][n] \in Nat /\ shown'[c][n] <= clock
                    /\ n \in DOMAIN listed'[c].names \/ clock - shown'[c][n] > Retention
    <3>1. CASE c = s
      <4>1. ASSUME NEW n \in DOMAIN listed'[s].names
            PROVE  n \in DOMAIN shown'[s] /\ listed'[s].names[n] = shown'[s][n]
        BY <1>8, <1>9
      <4>2. ASSUME NEW n \in DOMAIN shown'[s]
            PROVE  /\ shown'[s][n] \in Nat /\ shown'[s][n] <= clock
                   /\ n \in DOMAIN listed'[s].names \/ clock - shown'[s][n] > Retention
        <5>1. CASE n \in names
          BY <1>1, <1>9, <5>1
        <5>2. CASE n \notin names
          BY <1>8, <1>9, <5>2
        <5> QED BY <5>1, <5>2
      <4> QED BY <1>1, <1>4, <3>1, <4>1, <4>2
    <3>2. CASE c # s
      <4>1. c \in DOMAIN listed /\ c \in Callers /\ listed'[c] = listed[c] /\ shown'[c] = shown[c]
        BY <1>3, <1>4, <1>5, <3>2 DEF EndTypeOK
      <4> QED BY <4>1 DEF Remembered
    <3> QED BY <3>1, <3>2
  <2> QED BY <1>1, <1>5, <1>6, <2>1, <2>2 DEF Remembered
<1> QED BY <1>7, <1>10

LEMMA Busy ==
  ASSUME EndTypes, NEW r \in Requests, request[r].phase # "ready"
  PROVE  request[r] \in InFlight
BY DEF EndTypes, Ready

(* The rows the handlers leave.                                            *)
LEMMA RowsLeft ==
  /\ \A row \in Row("denied") \union {<<"ended">>} : row \in Rows /\ row # << >>
  /\ \A row \in Row("failed") : <<"allowed">> \o row \in Rows /\ <<"allowed">> \o row # << >>
  /\ << >> \in Rows /\ <<"auth">> \in Rows /\ <<"auth">> # << >>
  /\ <<"logged">> \in Rows /\ <<"logged">> # << >>
  /\ <<"allowed">> \in Rows /\ <<"allowed">> # << >> /\ <<"lost">> \in Rows /\ <<"lost">> # << >>
<1> DEFINE Outcomes == {"auth", "denied", "allowed", "failed", "lost", "ended", "logged"}
<1>1. \A o \in Outcomes : <<o>> \in Seq(Outcomes) /\ <<o>> # << >>
  OBVIOUS
<1>2. \A o \in Outcomes, p \in Outcomes : <<o>> \o <<p>> \in Seq(Outcomes) /\ Len(<<o>> \o <<p>>) = 2
  OBVIOUS
<1>3. "auth" \in Outcomes /\ "denied" \in Outcomes /\ "allowed" \in Outcomes /\ "failed" \in Outcomes
      /\ "lost" \in Outcomes /\ "ended" \in Outcomes /\ "logged" \in Outcomes
  OBVIOUS
<1>4. Rows = Seq(Outcomes) /\ << >> \in Seq(Outcomes)
  BY DEF Rows
<1> HIDE DEF Outcomes
<1>5. \A q : Len(q) = 2 => q # << >>
  OBVIOUS
<1> QED BY <1>1, <1>2, <1>3, <1>4, <1>5 DEF Row

(* The handlers that answer and leave the tables alone.                    *)
LEMMA AnswerKeeps ==
  ASSUME EndInv, NEW r \in Requests, request[r].phase # "ready", NEW what \in Told, NEW rows \in Rows,
         Say(r, what, rows), UNCHANGED <<Env, listed, shown>>,
         request[r].asked \notin {<< >>, NoName} /\ what # "unauthenticated" =>
           /\ what \notin {"unknown tool", "account refused", "service unavailable", "internal"} =>
                request[r].asked \in request[r].served \/ Recent(request[r].caller, request[r].asked)
           /\ what = "unknown tool" => ~Recent(request[r].caller, request[r].asked)
           /\ rows = << >> => what = "service unavailable"
  PROVE  EndInv'
<1>1. EndTypeOK /\ EndTypes /\ Remembered /\ AllFit
  BY EndInvParts
<1>2. EndTypeOK' /\ Remembered'
  BY <1>1, TablesStand DEF Env
<1>3. request[r] \in InFlight
  BY <1>1, Busy
<1>4. EndTypes' /\ AllFit'
  BY <1>1, <1>3, SayKeeps
<1>5. (EndTypeOK /\ EndTypes /\ Remembered /\ AllFit)'
  BY <1>2, <1>4
<1> QED BY <1>5, EndInvParts, PTL

(* The handlers that take the request a step further.                      *)
LEMMA StepKeeps ==
  ASSUME EndInv, NEW r \in Requests, NEW q \in InFlight, q.phase = "method" => StatusTool \in q.served,
         request' = [request EXCEPT ![r] = q],
         answer' = answer \/ answer' = [answer EXCEPT ![r] = NoAnswer],
         UNCHANGED <<clock, tool, grants, barred, listed, shown>>
  PROVE  EndInv'
<1>1. EndTypeOK /\ EndTypes /\ Remembered /\ AllFit
  BY EndInvParts
<1>2. EndTypeOK' /\ Remembered'
  BY <1>1, TablesStand
<1>3. EndTypes'
  BY <1>1 DEF EndTypes
<1>4. AllFit'
  <2>1. Fit(NoAnswer)
    BY DEF Fit, NoAnswer
  <2>2. ASSUME NEW p \in Requests PROVE Fit(answer'[p])
    BY <1>1, <2>1 DEF AllFit, EndTypes
  <2> QED BY <2>2 DEF AllFit, Fit
<1>5. (EndTypeOK /\ EndTypes /\ Remembered /\ AllFit)'
  BY <1>2, <1>3, <1>4
<1> QED BY <1>5, EndInvParts, PTL

LEMMA ArrivalKeeps ==
  ASSUME EndInv, NEW r \in Requests, NEW c \in Callers, NEW asked \in Askable, NEW f \in Forwarded,
         ServeHTTP(r, c, asked, f)
  PROVE  EndInv'
<1> DEFINE q == [phase |-> "authenticate", caller |-> c, asked |-> asked, served |-> {},
                 source |-> sourceAddress(f \o <<Proxy>>)]
<1>1. sourceAddress(f \o <<Proxy>>) = Proxy
  BY ProxyIsLast, EndpointAssumption
<1>2. q \in InFlight /\ q.phase # "method"
  BY <1>1 DEF InFlight
<1>3. /\ request' = [request EXCEPT ![r] = q] /\ answer' = [answer EXCEPT ![r] = NoAnswer]
      /\ UNCHANGED <<clock, tool, grants, barred, listed, shown>>
  BY DEF ServeHTTP
<1> HIDE DEF q
<1> QED BY <1>2, <1>3, StepKeeps

LEMMA AuthenticateKeeps ==
  ASSUME EndInv, NEW r \in Requests, authenticate(r)
  PROVE  EndInv'
<1>1. request[r].phase = "authenticate" /\ UNCHANGED <<Env, listed, shown>>
  BY DEF authenticate
<1>2. ASSUME NEW row \in Row("denied") \union {<<"ended">>}, NEW what \in {"account refused", "internal"},
             Say(r, what, row)
      PROVE  EndInv'
  <2>1. row \in Rows /\ row # << >> /\ what \in Told
    BY RowsLeft DEF Told
  <2> QED BY <1>1, <1>2, <2>1, AnswerKeeps
<1>3. CASE /\ request' = [request EXCEPT ![r].phase = "tools"] /\ UNCHANGED answer
  <2> DEFINE q == [request[r] EXCEPT !.phase = "tools"]
  <2>1. request[r] \in InFlight
    BY <1>1, Busy, EndInvParts
  <2>2. q \in InFlight /\ q.phase # "method"
    BY <2>1 DEF InFlight
  <2>3. request' = [request EXCEPT ![r] = q]
    BY <1>3
  <2> HIDE DEF q
  <2> QED BY <1>1, <1>3, <2>2, <2>3, StepKeeps DEF Env
<1> QED BY <1>2, <1>3 DEF authenticate

LEMMA ServerKeeps ==
  ASSUME EndInv, NEW r \in Requests, getServer(r)
  PROVE  EndInv'
<1>1. request[r].phase = "tools" /\ UNCHANGED <<Env, listed, shown>>
  BY DEF getServer
<1>2. CASE Say(r, "service unavailable", << >>)
  <2>1. << >> \in Rows /\ "service unavailable" \in Told
    BY RowsLeft DEF Told
  <2> QED BY <1>1, <1>2, <2>1, AnswerKeeps
<1>3. CASE /\ request' = [request EXCEPT ![r].phase = "method",
                ![r].served = (Visible(request[r].caller) \ Unservable) \union {StatusTool}]
           /\ UNCHANGED answer
  <2> DEFINE srv == (Visible(request[r].caller) \ Unservable) \union {StatusTool}
             q == [request[r] EXCEPT !.phase = "method", !.served = srv]
  <2>1. request[r] \in InFlight /\ request \in [Requests -> {Ready} \union InFlight] /\ grants \in [Callers -> SUBSET Tools]
    BY <1>1, Busy, EndInvParts DEF EndTypeOK, EndTypes
  <2>2. srv \subseteq Tools \union {StatusTool} /\ StatusTool \in srv
    BY <2>1 DEF Visible, InFlight
  <2>3. q \in InFlight /\ q.served = srv
    BY <2>1, <2>2 DEF InFlight
  <2>4. request' = [request EXCEPT ![r] = q]
    BY <1>3, <2>1
  <2> HIDE DEF q
  <2> QED BY <1>1, <1>3, <2>2, <2>3, <2>4, StepKeeps DEF Env
<1> QED BY <1>2, <1>3 DEF getServer

LEMMA ListKeeps ==
  ASSUME EndInv, NEW r \in Requests, listTools(r)
  PROVE  EndInv'
<1>1. EndTypeOK /\ EndTypes /\ Remembered /\ AllFit
  BY EndInvParts
<1>2. /\ request[r].phase = "method" /\ request[r].asked = << >> /\ UNCHANGED Env
      /\ remember(request[r].caller, request[r].served \ {StatusTool}) /\ Say(r, "listed", << >>)
  BY DEF listTools, Method
<1>3. request[r] \in InFlight /\ request[r].caller \in Callers
  BY <1>1, <1>2, Busy DEF InFlight
<1>4. EndTypeOK' /\ Remembered'
  BY <1>1, <1>2, <1>3, RememberKeeps DEF Env
<1>5. "listed" \in Told /\ << >> \in Rows
  BY RowsLeft DEF Told
<1>6. EndTypes' /\ AllFit'
  BY <1>1, <1>2, <1>3, <1>5, SayKeeps
<1>7. (EndTypeOK /\ EndTypes /\ Remembered /\ AllFit)'
  BY <1>4, <1>6
<1> QED BY <1>7, EndInvParts, PTL

(* A name this server does not serve is told by what the caller was shown. *)
LEMMA UnservedKeeps ==
  ASSUME EndInv, NEW r \in Requests, recordUnservedToolCalls(r)
  PROVE  EndInv'
<1> DEFINE what == IF wasListed(request[r].caller, request[r].asked) THEN "pulled" ELSE "unknown tool"
<1>1. request[r].phase = "method" /\ UNCHANGED <<Env, listed, shown>>
  BY DEF recordUnservedToolCalls, Method
<1>2. PICK row \in Row("denied") : Say(r, what, row)
  BY DEF recordUnservedToolCalls, unservedRow
<1>3. row \in Rows /\ row # << >> /\ what \in Told
  BY RowsLeft DEF Told
<1>4. request[r].caller \in Callers
  BY <1>1, Busy, EndInvParts DEF InFlight
<1>5. wasListed(request[r].caller, request[r].asked) <=> Recent(request[r].caller, request[r].asked)
  BY <1>4, EndInvParts, ListedIsRecent
<1>6. /\ what # "unknown tool" => Recent(request[r].caller, request[r].asked)
      /\ what = "unknown tool" => ~Recent(request[r].caller, request[r].asked)
  BY <1>5
<1> HIDE DEF what
<1> QED BY <1>1, <1>2, <1>3, <1>6, AnswerKeeps

LEMMA DispatchKeeps ==
  ASSUME EndInv, NEW r \in Requests, dispatchTool(r)
  PROVE  EndInv'
<1>1. /\ request[r].phase = "method" /\ request[r].asked \in request[r].served
      /\ UNCHANGED <<Env, listed, shown>>
  BY DEF dispatchTool, Method
<1>2. request[r].caller \in Callers
  BY <1>1, Busy, EndInvParts DEF InFlight
<1>3. wasListed(request[r].caller, request[r].asked) <=> Recent(request[r].caller, request[r].asked)
  BY <1>2, EndInvParts, ListedIsRecent
<1>4. ASSUME NEW what \in Told, NEW row \in Rows, row # << >>, Say(r, what, row),
             what = "unknown tool" => ~Recent(request[r].caller, request[r].asked)
      PROVE  EndInv'
  BY <1>1, <1>4, AnswerKeeps
<1>5. Errors(r) \subseteq {"unknown tool", "forbidden", "quarantined", "internal"} \union Honest
  BY DEF Errors
<1>6. ASSUME NEW err \in Errors(r)
      PROVE  /\ Rejection(r, err) \in Told
             /\ Rejection(r, err) = "unknown tool" => ~Recent(request[r].caller, request[r].asked)
             /\ honestResult(err) => err \in Told /\ err # "unknown tool"
  <2>1. classify(err) \in {"unknown tool", "forbidden", "quota exhausted", "concurrency limited", "internal"}
    BY DEF classify
  <2> QED BY <1>3, <2>1 DEF Rejection, Told, Honest, honestResult
<1>7. ASSUME NEW err \in Errors(r), NEW row \in Row("denied"),
             Say(r, IF honestResult(err) THEN err ELSE Rejection(r, err), row)
      PROVE  EndInv'
  <2>1. row \in Rows /\ row # << >>
    BY RowsLeft
  <2> DEFINE what == IF honestResult(err) THEN err ELSE Rejection(r, err)
  <2>2. what \in Told /\ (what = "unknown tool" => ~Recent(request[r].caller, request[r].asked))
    BY <1>6
  <2>3. Say(r, what, row)
    BY <1>7
  <2> HIDE DEF what
  <2> QED BY <1>4, <2>1, <2>2, <2>3
<1>8. ASSUME NEW err \in AfterSend, NEW row \in Row("failed"),
             Say(r, err, <<"allowed">> \o row)
      PROVE  EndInv'
  <2>1. err \in Told /\ err # "unknown tool" /\ <<"allowed">> \o row \in Rows /\ <<"allowed">> \o row # << >>
    BY RowsLeft DEF Told, Honest, AfterSend
  <2> QED BY <1>4, <1>8, <2>1
<1>9. ASSUME NEW what \in {"result", "internal"}, Say(r, what, <<"allowed">>) PROVE EndInv'
  <2>1. what \in Told /\ what # "unknown tool" /\ <<"allowed">> \in Rows /\ <<"allowed">> # << >>
    BY RowsLeft DEF Told
  <2> QED BY <1>4, <1>9, <2>1
<1> QED BY <1>7, <1>8, <1>9 DEF dispatchTool

(* What the rest of the gateway does, a restart among it.                  *)
LEMMA ChangeKeeps ==
  ASSUME EndInv, Change
  PROVE  EndInv'
<1>1. EndTypeOK /\ EndTypes /\ Remembered /\ AllFit
  BY EndInvParts
<1>2. CASE UNCHANGED <<listed, shown, request, answer>>
  <2>1. tool' \in [Tools -> {"served", "held", "gone"}]
    BY <1>1 DEF Change, EndTypeOK
  <2>2. grants' \in [Callers -> SUBSET Tools]
    BY <1>1 DEF Change, EndTypeOK
  <2>3. barred' \subseteq Callers /\ clock' = clock
    BY <1>1 DEF Change, EndTypeOK
  <2>4. (EndTypeOK /\ EndTypes /\ Remembered /\ AllFit)'
    BY <1>1, <1>2, <2>1, <2>2, <2>3 DEF EndTypeOK, EndTypes, Remembered, AllFit, Fit
  <2> QED BY <2>4, EndInvParts, PTL
<1>3. CASE /\ listed' = << >> /\ shown' = [c \in Callers |-> << >>] /\ request' = [r \in Requests |-> Ready]
           /\ answer' = [r \in Requests |-> NoAnswer] /\ UNCHANGED <<clock, tool, grants, barred>>
  <2>1. DOMAIN listed' = {} /\ \A c \in Callers : DOMAIN shown'[c] = {}
    BY <1>3
  <2>2. IsFiniteSet(DOMAIN listed') /\ Cardinality(DOMAIN listed') = 0
    BY <2>1, FS_EmptySet
  <2>3. EndTypeOK'
    BY <1>1, <1>3, <2>1, <2>2, EndpointAssumption DEF EndTypeOK
  <2>4. EndTypes'
    BY <1>3 DEF EndTypes, Ready
  <2>5. Remembered'
    BY <1>3, <2>1, <2>2 DEF Remembered
  <2>6. AllFit'
    BY <1>3 DEF AllFit, Fit, NoAnswer
  <2>7. (EndTypeOK /\ EndTypes /\ Remembered /\ AllFit)'
    BY <2>3, <2>4, <2>5, <2>6
  <2> QED BY <2>7, EndInvParts, PTL
<1> QED BY <1>2, <1>3 DEF Change

LEMMA PassKeeps ==
  ASSUME EndInv, Pass
  PROVE  EndInv'
<1>1. EndTypeOK /\ EndTypes /\ Remembered /\ AllFit
  BY EndInvParts
<1>2. clock \in Nat /\ clock' = clock + 1 /\ Retention \in Nat
  BY <1>1, EndpointAssumption DEF Pass, EndTypeOK
<1>3. UNCHANGED <<tool, grants, barred, listed, request, answer, shown>>
  BY DEF Pass
<1>4. EndTypes' /\ AllFit'
  BY <1>1, <1>3 DEF EndTypes, AllFit, Fit
<1>5. EndTypeOK'
  <2>1. ASSUME NEW c \in DOMAIN listed PROVE listed[c].last <= clock + 1
    <3>1. listed[c].last <= clock /\ listed[c].last \in Nat
      BY <1>1 DEF EndTypeOK, Remembered
    <3> QED BY <1>2, <3>1
  <2> QED BY <1>1, <1>2, <1>3, <2>1 DEF EndTypeOK
<1>6. Remembered'
  <2>1. ASSUME NEW c \in DOMAIN listed, NEW n \in DOMAIN shown[c]
        PROVE  /\ shown[c][n] \in Nat /\ shown[c][n] <= clock + 1
               /\ n \in DOMAIN listed[c].names \/ (clock + 1) - shown[c][n] > Retention
    <3>1. /\ shown[c][n] \in Nat /\ shown[c][n] <= clock
          /\ n \in DOMAIN listed[c].names \/ clock - shown[c][n] > Retention
      BY <1>1 DEF Remembered
    <3> QED BY <1>2, <3>1
  <2> QED BY <1>1, <1>2, <1>3, <2>1 DEF Remembered
<1>7. (EndTypeOK /\ EndTypes /\ Remembered /\ AllFit)'
  BY <1>4, <1>5, <1>6
<1> QED BY <1>7, EndInvParts, PTL

LEMMA EndNextInv == EndInv /\ [EndNext]_endVars => EndInv'
<1> SUFFICES ASSUME EndInv, [EndNext]_endVars PROVE EndInv'
  OBVIOUS
<1>1. ASSUME NEW r \in Requests, NEW c \in Callers, NEW asked \in Askable, NEW f \in Forwarded,
             ServeHTTP(r, c, asked, f)
      PROVE  EndInv'
  BY <1>1, ArrivalKeeps
<1>2. ASSUME NEW r \in Requests, serveMetadata(r) PROVE EndInv'
  <2>1. EndTypeOK /\ EndTypes /\ Remembered /\ AllFit
    BY EndInvParts
  <2>2. answer' = [answer EXCEPT ![r] = NoAnswer] /\ UNCHANGED <<Env, listed, shown, request>>
    BY <1>2 DEF serveMetadata
  <2>3. EndTypeOK' /\ Remembered'
    BY <2>1, <2>2, TablesStand DEF Env
  <2>4. EndTypes'
    BY <2>1, <2>2 DEF EndTypes
  <2>5. AllFit'
    <3>1. Fit(NoAnswer)
      BY DEF Fit, NoAnswer
    <3>2. ASSUME NEW p \in Requests PROVE Fit(answer'[p])
      BY <2>1, <2>2, <3>1 DEF AllFit, EndTypes
    <3> QED BY <3>2 DEF AllFit, Fit
  <2>6. (EndTypeOK /\ EndTypes /\ Remembered /\ AllFit)'
    BY <2>3, <2>4, <2>5
  <2> QED BY <2>6, EndInvParts, PTL
<1>3. ASSUME NEW r \in Requests, rejectUnauthenticated(r) PROVE EndInv'
  <2>1. /\ request[r].phase = "authenticate" /\ Say(r, "unauthenticated", <<"auth">>)
        /\ UNCHANGED <<Env, listed, shown>>
    BY <1>3 DEF rejectUnauthenticated
  <2>2. "unauthenticated" \in Told /\ <<"auth">> \in Rows
    BY RowsLeft DEF Told
  <2> QED BY <2>1, <2>2, AnswerKeeps
<1>4. ASSUME NEW r \in Requests, authenticate(r) PROVE EndInv'
  BY <1>4, AuthenticateKeeps
<1>5. ASSUME NEW r \in Requests, getServer(r) PROVE EndInv'
  BY <1>5, ServerKeeps
<1>6. ASSUME NEW r \in Requests, listTools(r) PROVE EndInv'
  BY <1>6, ListKeeps
<1>7. ASSUME NEW r \in Requests, recordUnservedToolCalls(r) PROVE EndInv'
  BY <1>7, UnservedKeeps
<1>8. ASSUME NEW r \in Requests, gatteStatusHandler(r) PROVE EndInv'
  <2>1. /\ request[r].phase = "method" /\ request[r].asked = StatusTool /\ UNCHANGED <<Env, listed, shown>>
    BY <1>8 DEF gatteStatusHandler, Method
  <2>2. PICK report \in GatteStatus : Say(r, report.what, report.rows)
    BY <1>8 DEF gatteStatusHandler
  <2>3. /\ report.what \in Told /\ report.what # "unknown tool"
        /\ report.rows \in Rows /\ report.rows # << >>
    <3>1. \/ report.what = "status" /\ report.rows = <<"allowed">>
          \/ report.what = "internal" /\ report.rows = <<"lost">>
      BY DEF GatteStatus
    <3>2. report.what \in Told /\ report.what # "unknown tool"
      BY <3>1 DEF Told
    <3>3. report.rows \in Rows /\ report.rows # << >>
      BY <3>1, RowsLeft
    <3> QED BY <3>2, <3>3
  <2>4. request[r].asked \in request[r].served
    BY <2>1, EndInvParts DEF EndTypes
  <2> QED BY <2>1, <2>2, <2>3, <2>4, AnswerKeeps
<1>9. ASSUME NEW r \in Requests, dispatchTool(r) PROVE EndInv'
  BY <1>9, DispatchKeeps
<1>10. ASSUME NEW r \in Requests, RecordPanic(r) PROVE EndInv'
  <2>1. request[r].phase # "ready" /\ UNCHANGED <<Env, listed, shown>>
    BY <1>10 DEF RecordPanic
  <2>2. PICK row \in Row("denied") : Say(r, "internal", row)
    BY <1>10 DEF RecordPanic
  <2>3. "internal" \in Told /\ row \in Rows /\ row # << >>
    BY RowsLeft DEF Told
  <2> QED BY <2>1, <2>2, <2>3, AnswerKeeps
<1>11. ASSUME NEW r \in Requests, leaveToSDK(r) PROVE EndInv'
  <2>1. /\ request[r].phase = "method" /\ request[r].asked = NoName /\ Say(r, "invalid params", << >>)
        /\ UNCHANGED <<Env, listed, shown>>
    BY <1>11 DEF leaveToSDK, Method
  <2>2. "invalid params" \in Told /\ << >> \in Rows
    BY RowsLeft DEF Told
  <2> QED BY <2>1, <2>2, AnswerKeeps
<1>12. ASSUME NEW r \in Requests, containRequestPanic(r) PROVE EndInv'
  <2>1. /\ request[r].phase = "authenticate" /\ Say(r, "internal", <<"logged">>)
        /\ UNCHANGED <<Env, listed, shown>>
    BY <1>12 DEF containRequestPanic
  <2>2. "internal" \in Told /\ <<"logged">> \in Rows /\ <<"logged">> # << >>
    BY RowsLeft DEF Told
  <2> QED BY <2>1, <2>2, AnswerKeeps
<1>13. CASE UNCHANGED endVars
  <2>1. EndTypeOK /\ EndTypes /\ Remembered /\ AllFit
    BY EndInvParts
  <2>2. (EndTypeOK /\ EndTypes /\ Remembered /\ AllFit)'
    BY <1>13, <2>1, TablesStand DEF endVars, EndTypes, AllFit, Fit
  <2> QED BY <2>2, EndInvParts, PTL
<1> QED BY <1>1, <1>2, <1>3, <1>4, <1>5, <1>6, <1>7, <1>8, <1>9, <1>10, <1>11, <1>12, <1>13,
        ChangeKeeps, PassKeeps DEF EndNext

(* The table of listings agrees with what its subjects were shown, and     *)
(* every answer given fits, in every reachable state of the endpoint, for  *)
(* any number of requests, callers and tools, any retention and any size   *)
(* of the table (httpapi.go, listed.go).                                   *)
THEOREM EndInvAlways == EndSpec => []EndInv
<1>1. EndInit => EndInv
  BY EndInitInv
<1>2. EndInv /\ [EndNext]_endVars => EndInv'
  BY EndNextInv
<1> QED BY <1>1, <1>2, PTL DEF EndSpec

(* Every call is answered for, whatever ends it and whatever a client      *)
(* forwards: its caller learns the truth about the tools this caller was   *)
(* offered and about no other, and its row names the address the proxy saw *)
(* (rejectCall, pulledError, listed, recordUnservedToolCalls,              *)
(* sourceAddress).                                                         *)
THEOREM CallsAreAlwaysAnsweredFor == EndSpec => []CallsAreAnsweredFor
<1>1. EndInv => CallsAreAnsweredFor
  BY DEF EndInv, CallsAreAnsweredFor
<1> QED BY <1>1, EndInvAlways, PTL

-----------------------------------------------------------------------------
(* The calls of a translated API.                                          *)

(* While nothing is registered nothing is called and nothing is sent.      *)
LEMMA NothingBefore ==
  ASSUME CallsInv, entry = NoEntry
  PROVE  sent = {} /\ \A c \in Calls : calls[c].pc = "idle"
<1>1. \A args : ~Declared(args)
  BY DEF Declared, NoEntry
<1> QED BY <1>1 DEF CallsInv, CallHolds, SentHolds

(* A step that touches neither the entry nor the wire.                     *)
LEMMA EntryAside ==
  ASSUME CallsInv, UNCHANGED entry, NothingYet', DOMAIN calls' = Calls,
         \A c \in Calls : calls'[c] = calls[c] \/ CallHolds(c)',
         sent' = sent \/ SentHolds',
         answered' = answered \/ (EchoIsMasked' /\ WholeOrRefused')
  PROVE  CallsInv'
<1>1. FrozenDials'
  BY DEF CallsInv, FrozenDials, DialOK, Registers, Decodes, Validate, Valid, SlotOK, In, AtSlot, IsControlHeader, ControlHeaders, Fold, Lower, Safe
<1>2. \A args : Declared(args)' = Declared(args)
  BY DEF Declared, Props
<1>3. \A c \in Calls : CallHolds(c)'
  <2> SUFFICES ASSUME NEW c \in Calls, calls'[c] = calls[c] PROVE CallHolds(c)'
    OBVIOUS
  <2>1. CallHolds(c)
    BY DEF CallsInv
  <2> QED BY <1>2, <2>1 DEF CallHolds, Declared, Props
<1>4. SentHolds'
  BY <1>2 DEF CallsInv, SentHolds, Declared, Props
<1>5. EchoIsMasked' /\ WholeOrRefused'
  BY DEF CallsInv, EchoIsMasked, WholeOrRefused
<1> QED BY <1>1, <1>3, <1>4, <1>5 DEF CallsInv

(* A call goes on: the others are as they were.                            *)
LEMMA CallMoves ==
  ASSUME CallsInv, UNCHANGED <<in, entry>>, NEW c \in Calls, NEW r, Becomes(c, r),
         IsCall(r),
         r.at = "home", r.pc # "idle" => Declared(r.args),
         sent' = sent \/ SentHolds',
         answered' = answered \/ (EchoIsMasked' /\ WholeOrRefused')
  PROVE  CallsInv'
<1>1. DOMAIN calls = Calls
  BY DEF CallsInv
<1>2. DOMAIN calls' = Calls /\ calls'[c] = r /\ \A k \in Calls : k # c => calls'[k] = calls[k]
  BY <1>1 DEF Becomes
<1>3. CallHolds(c)'
  BY <1>2 DEF CallHolds, Declared, Props
<1>4. NothingYet'
  BY DEF CallsInv, NothingYet
<1>5. \A k \in Calls : calls'[k] = calls[k] \/ CallHolds(k)'
  <2> SUFFICES ASSUME NEW k \in Calls, calls'[k] # calls[k] PROVE CallHolds(k)'
    OBVIOUS
  <2>1. k = c
    BY <1>2
  <2> QED BY <1>3, <2>1
<1> QED BY <1>2, <1>4, <1>5, EntryAside

LEMMA WaitingIs == IsCall(Waiting) /\ Waiting.at = "home" /\ Waiting.pc = "idle"
BY DEF Waiting, IsCall

(* A call ends.                                                            *)
LEMMA CallEnds ==
  ASSUME CallsInv, UNCHANGED <<in, entry, sent>>, NEW c \in Calls, Becomes(c, Waiting),
         answered' = answered \/ (EchoIsMasked' /\ WholeOrRefused')
  PROVE  CallsInv'
BY WaitingIs, CallMoves

LEMMA CallIs ==
  ASSUME CallsInv, NEW c \in Calls
  PROVE  /\ IsCall(calls[c]) /\ calls[c].at = "home"
         /\ (calls[c].pc # "idle" => Declared(calls[c].args))
BY DEF CallsInv, CallHolds

LEMMA CallKeeps ==
  ASSUME CallsInv, NEW c \in Calls, NEW d \in entry.ops, NEW args, Call(c, d, args)
  PROVE  CallsInv'
<1> DEFINE r == [calls[c] EXCEPT !.pc = "resolve", !.op = d.name, !.args = args]
<1>1. IsCall(r) /\ r.args = args /\ r.at = "home"
  BY CallIs DEF IsCall
<1>2. Becomes(c, r) /\ sent' = {} /\ answered' = {} /\ UNCHANGED <<in, entry>> /\ args \subseteq Props(d)
  BY DEF Call
<1>3. Declared(args)
  BY <1>2 DEF Declared
<1>4. SentHolds' /\ EchoIsMasked' /\ WholeOrRefused'
  BY <1>2 DEF SentHolds, EchoIsMasked, WholeOrRefused
<1> HIDE DEF r
<1> QED BY <1>1, <1>2, <1>3, <1>4, CallMoves

LEMMA ResolveKeeps ==
  ASSUME CallsInv, NEW c \in Calls, Resolve(c)
  PROVE  CallsInv'
<1>1. UNCHANGED <<in, entry, sent, answered>> /\ calls[c].pc = "resolve"
  BY DEF Resolve
<1>2. CASE Becomes(c, Waiting)
  BY <1>1, <1>2, CallEnds
<1>3. ASSUME NEW v, Becomes(c, [calls[c] EXCEPT !.pc = "lookup", !.cred = v])
      PROVE  CallsInv'
  <2> DEFINE r == [calls[c] EXCEPT !.pc = "lookup", !.cred = v]
  <2>1. IsCall(r) /\ r.args = calls[c].args /\ r.at = "home"
    BY CallIs DEF IsCall
  <2>2. Declared(calls[c].args) /\ Becomes(c, r)
    BY <1>1, <1>3, CallIs
  <2> HIDE DEF r
  <2> QED BY <1>1, <2>1, <2>2, CallMoves
<1> QED BY <1>2, <1>3 DEF Resolve

LEMMA LookupKeeps ==
  ASSUME CallsInv, NEW c \in Calls, NEW found, Lookup(c, found)
  PROVE  CallsInv'
<1> DEFINE r == [calls[c] EXCEPT !.pc = "dial", !.addrs = found]
<1>1. IsCall(r) /\ r.args = calls[c].args /\ r.at = "home"
  BY CallIs DEF IsCall
<1>2. Declared(calls[c].args) /\ Becomes(c, r) /\ UNCHANGED <<in, entry, sent, answered>>
  BY CallIs DEF Lookup
<1> HIDE DEF r
<1> QED BY <1>1, <1>2, CallMoves

LEMMA ConnectKeeps ==
  ASSUME CallsInv, NEW c \in Calls, Connect(c)
  PROVE  CallsInv'
<1>1. UNCHANGED <<in, entry, answered>> /\ calls[c].pc = "dial"
  BY DEF Connect
<1>2. CASE Becomes(c, Waiting) /\ UNCHANGED sent
  BY <1>1, <1>2, CallEnds
<1>3. ASSUME NEW a \in calls[c].addrs, \A b \in calls[c].addrs : ~refuseAddr(b),
             sent' = {[origin |-> calls[c].at, addr |-> a, cred |-> calls[c].cred, args |-> calls[c].args]},
             Becomes(c, [calls[c] EXCEPT !.pc = "answer", !.addrs = {}])
      PROVE  CallsInv'
  <2> DEFINE r == [calls[c] EXCEPT !.pc = "answer", !.addrs = {}]
  <2>1. IsCall(r) /\ r.args = calls[c].args /\ r.at = "home"
    BY CallIs DEF IsCall
  <2>2. Declared(calls[c].args) /\ Becomes(c, r)
    BY <1>1, <1>3, CallIs
  <2>3. SentHolds'
    <3> SUFFICES ASSUME NEW s \in sent'
                 PROVE  Declared(s.args)' /\ s.origin = "home" /\ ~refuseAddr(s.addr)
      BY DEF SentHolds, refuseAddr
    <3>1. s.origin = calls[c].at /\ s.addr = a /\ s.args = calls[c].args
      BY <1>3
    <3>2. Declared(s.args)
      BY <2>2, <3>1
    <3>3. Declared(s.args)'
      BY <1>1, <3>2 DEF Declared, Props
    <3> QED BY <1>3, <3>1, <3>3, CallIs
  <2> HIDE DEF r
  <2> QED BY <1>1, <2>1, <2>2, <2>3, CallMoves
<1> QED BY <1>2, <1>3 DEF Connect

LEMMA RedirectKeeps ==
  ASSUME CallsInv, NEW c \in Calls, NEW a, Redirect(c, a)
  PROVE  CallsInv'
<1>1. UNCHANGED <<in, entry, sent, answered>> /\ calls[c].pc = "answer"
  BY DEF Redirect
<1>2. CASE Becomes(c, Waiting)
  BY <1>1, <1>2, CallEnds
<1>3. Declared(calls[c].args)
  BY <1>1, CallIs
<1>4. CASE Becomes(c, [calls[c] EXCEPT !.pc = "read"])
  <2> DEFINE r == [calls[c] EXCEPT !.pc = "read"]
  <2>1. IsCall(r) /\ r.args = calls[c].args /\ r.at = "home"
    BY CallIs DEF IsCall
  <2>2. Becomes(c, r)
    BY <1>4
  <2> HIDE DEF r
  <2> QED BY <1>1, <1>3, <2>1, <2>2, CallMoves
<1>5. CASE SameOrigin(a.redirect) /\ Becomes(c, [calls[c] EXCEPT !.pc = "lookup", !.at = a.redirect, !.hops = @ + 1])
  <2> DEFINE r == [calls[c] EXCEPT !.pc = "lookup", !.at = a.redirect, !.hops = @ + 1]
  <2>1. IsCall(r) /\ r.args = calls[c].args /\ r.at = a.redirect
    BY CallIs DEF IsCall
  <2>2. Becomes(c, r) /\ a.redirect = "home"
    BY <1>5 DEF SameOrigin
  <2> HIDE DEF r
  <2> QED BY <1>1, <1>3, <2>1, <2>2, CallMoves
<1> QED BY <1>2, <1>4, <1>5 DEF Redirect

LEMMA RestAnswerKeeps ==
  ASSUME CallsInv, NEW c \in Calls, NEW a, Answer(c, a)
  PROVE  CallsInv'
<1>1. UNCHANGED <<in, entry, sent>> /\ Becomes(c, Waiting)
  BY DEF Answer
<1>0. PICK x : x = [call |-> c, echo |-> Mask(c, IF a.echoes THEN calls[c].cred ELSE 0), used |-> calls[c].cred,
                   error |-> a.failed \/ ~ReadBody(a.bytes).fits, of |-> a.bytes,
                   bytes |-> IF a.failed \/ ~ReadBody(a.bytes).fits THEN 0 ELSE ReadBody(a.bytes).bytes]
  OBVIOUS
<1>2. /\ answered' = {x} /\ x.echo = Mask(c, IF a.echoes THEN calls[c].cred ELSE 0)
      /\ x.used = calls[c].cred /\ (a.failed \/ ~ReadBody(a.bytes).fits => x.error)
      /\ x.of = a.bytes
      /\ x.bytes = IF a.failed \/ ~ReadBody(a.bytes).fits THEN 0 ELSE ReadBody(a.bytes).bytes
  BY <1>0 DEF Answer
<1>3. EchoIsMasked'
  BY <1>2 DEF EchoIsMasked, Mask
<1>4. ReadBody(a.bytes).bytes = a.bytes
  BY DEF ReadBody
<1>5. WholeOrRefused'
  BY <1>2, <1>4 DEF WholeOrRefused
<1> QED BY <1>1, <1>3, <1>5, CallEnds

LEMMA FreezeKeeps ==
  ASSUME CallsInv, Freeze
  PROVE  CallsInv'
<1>1. entry = NoEntry /\ UNCHANGED <<up, credential, calls, sent, answered>>
  BY DEF CallsInv, NothingYet, Freeze
<1>2. sent = {} /\ \A c \in Calls : calls[c].pc = "idle"
  BY <1>1, NothingBefore
<1>3. DOMAIN calls' = Calls /\ \A c \in Calls : CallHolds(c)'
  BY <1>1, <1>2 DEF CallsInv, CallHolds
<1>4. SentHolds' /\ EchoIsMasked' /\ WholeOrRefused'
  BY <1>1, <1>2 DEF CallsInv, SentHolds, EchoIsMasked, WholeOrRefused
<1>5. CASE UNCHANGED entry
  <2>1. NothingYet'
    BY <1>1, <1>5 DEF NothingYet
  <2>2. FrozenDials'
    BY <1>1, <1>5 DEF FrozenDials
  <2> QED BY <1>3, <1>4, <2>1, <2>2 DEF CallsInv
<1>6. ASSUME NEW ops, ops = Named(in.drafts), Decodes(ops, in.auth),
             Registers([auth |-> in.auth, env |-> in.opts.env]), entry' = Frozen(ops), in' = [in EXCEPT !.pc = "done"]
      PROVE  CallsInv'
  <2>1. entry'.ops = ops /\ entry'.auth = in.auth /\ entry'.env = in.opts.env
    BY <1>6 DEF Frozen
  <2>2. Registers(entry)'
    BY <1>6, <2>1 DEF Registers
  <2>3. Decodes(entry'.ops, entry'.auth)
    BY <1>6, <2>1
  <2>4. FrozenDials'
    BY <2>2, <2>3 DEF FrozenDials, DialOK, Decodes, Validate, Valid, SlotOK, In, AtSlot, IsControlHeader, ControlHeaders, Fold, Lower, Safe
  <2>5. NothingYet'
    BY <1>6 DEF NothingYet
  <2> QED BY <1>3, <1>4, <2>4, <2>5 DEF CallsInv
<1> QED BY <1>5, <1>6 DEF Freeze

(* The ingestion, the dial and a rotation touch no call.                   *)
LEMMA AsideKeeps ==
  ASSUME CallsInv, UNCHANGED <<entry, calls, sent, answered>>, in' = in \/ entry = NoEntry
  PROVE  CallsInv'
<1>1. NothingYet'
  BY DEF CallsInv, NothingYet
<1> QED BY <1>1, EntryAside DEF CallsInv

LEMMA CallsStep ==
  ASSUME CallsInv, RestNext
  PROVE  CallsInv'
<1>1. ASSUME NEW d \in Documents, NEW o \in IngestOptions, Begin(d, o) PROVE CallsInv'
  BY <1>1, AsideKeeps DEF Begin
<1>2. CASE EnterPath
  <2>1. entry = NoEntry /\ UNCHANGED <<entry, calls, sent, answered>>
    BY <1>2 DEF EnterPath, CallsInv, NothingYet
  <2> QED BY <2>1, AsideKeeps
<1>3. CASE EachMethod
  <2>1. entry = NoEntry /\ UNCHANGED <<entry, calls, sent, answered>>
    BY <1>3 DEF EachMethod, CallsInv, NothingYet
  <2> QED BY <2>1, AsideKeeps
<1>4. CASE Dial
  BY <1>4, AsideKeeps DEF Dial
<1>5. ASSUME NEW v \in 0 .. MaxRotate, Rotated(v) PROVE CallsInv'
  BY <1>5, AsideKeeps DEF Rotated
<1> QED BY <1>1, <1>2, <1>3, <1>4, <1>5, FreezeKeeps, CallKeeps, ResolveKeeps, ConnectKeeps, LookupKeeps,
           RedirectKeeps, RestAnswerKeeps DEF RestNext

LEMMA CallsInit == RestInit => CallsInv
<1> SUFFICES ASSUME RestInit PROVE CallsInv
  OBVIOUS
<1>1. in.pc = "none" /\ entry = NoEntry /\ sent = {} /\ answered = {} /\ calls = [c \in Calls |-> Waiting]
  BY DEF RestInit
<1>2. \A c \in Calls : CallHolds(c)
  BY <1>1, WaitingIs DEF CallHolds
<1> QED BY <1>1, <1>2 DEF CallsInv, NothingYet, FrozenDials, SentHolds, EchoIsMasked, WholeOrRefused

(* A call under way is of an operation that was frozen, validated against  *)
(* the place the credential is put in, and is at the registered origin;    *)
(* what an entry froze can be dialled (Ingest, buildRequest,               *)
(* checkRedirect), at every instant.                                       *)
THEOREM CallsInvAlways == RestSpec => []CallsInv
<1>1. CallsInv /\ UNCHANGED restVars => CallsInv'
  BY AsideKeeps DEF restVars
<1>2. CallsInv /\ [RestNext]_restVars => CallsInv'
  BY <1>1, CallsStep
<1> QED BY <1>2, CallsInit, PTL DEF RestSpec

(* An argument that a validated operation declares is not at the slot.     *)
LEMMA SlotKept ==
  ASSUME CallsInv, NEW args, Declared(args), NEW a \in args
  PROVE  /\ a.in = "header" /\ entry.auth.kind \in {"bearer", "header"} => Fold(a.name) # CredentialHeader
         /\ a.in = "query" /\ entry.auth.kind = "query" => Lower(a.name) # Lower(entry.auth.name)
<1>1. PICK d \in entry.ops : args \subseteq Props(d)
  BY DEF Declared
<1>2. entry # NoEntry
  <2>1. NoEntry.ops = {}
    BY DEF NoEntry
  <2>2. entry.ops # {}
    BY <1>1
  <2> QED BY <2>1, <2>2
<1>3. Valid(d, entry.auth)
  BY <1>1, <1>2 DEF CallsInv, FrozenDials, DialOK, Decodes, Validate
<1>4. CASE a \in d.params
  <2>1. ~AtSlot(entry.auth, a)
    BY <1>3, <1>4 DEF Valid
  <2> QED BY <2>1 DEF AtSlot, CredentialHeader
<1>5. CASE a = [in |-> "body", name |-> "body"]
  <2>1. a.in = "body"
    BY <1>5
  <2> QED BY <2>1
<1> QED BY <1>1, <1>4, <1>5 DEF Props

(* The credential of an entry goes to that entry's origin, in the slot the *)
(* gateway chose, and does not come back; results are whole: for any       *)
(* document, any number of calls, whatever the name of the host resolves   *)
(* to and the API answers, and whenever the credential is rotated          *)
(* (checkRedirect, dialPinned, serialize, readBody).                       *)
THEOREM CallsAreAlwaysContained == RestSpec => []CallsAreContained
<1>1. CallsInv => CallsAreContained
  <2> SUFFICES ASSUME CallsInv PROVE CallsAreContained
    OBVIOUS
  <2>1. SlotIsOurs
    <3> SUFFICES ASSUME NEW s \in sent, NEW a \in s.args
                 PROVE  /\ a.in = "header" /\ entry.auth.kind \in {"bearer", "header"} => Fold(a.name) # CredentialHeader
                        /\ a.in = "query" /\ entry.auth.kind = "query" => Lower(a.name) # Lower(entry.auth.name)
      BY DEF SlotIsOurs
    <3>1. Declared(s.args)
      BY DEF CallsInv, SentHolds
    <3> QED BY <3>1, SlotKept
  <2>2. CredentialStaysHome
    BY DEF CallsInv, SentHolds, CredentialStaysHome
  <2>3. NothingInside
    BY DEF CallsInv, SentHolds, NothingInside, refuseAddr
  <2> QED BY <2>1, <2>2, <2>3 DEF CallsInv, CallsAreContained
<1> QED BY <1>1, CallsInvAlways, PTL

-----------------------------------------------------------------------------
(* The translation of a document: sums.                                    *)

(* A set of naturals has a least element: induction by least               *)
(* counterexample.                                                         *)
LEMMA LeastOne ==
  ASSUME NEW T \in SUBSET Nat, T # {}
  PROVE  \E n \in T : \A m \in T : n <= m
<1>1. \E x \in T : \A y \in T : ~ (<<y, x>> \in OpToRel(<, Nat))
  BY WFMin, NatLessThanWellFounded
<1>2. ASSUME NEW x \in T, NEW y \in T, ~ (<<y, x>> \in OpToRel(<, Nat))
      PROVE  x <= y
  BY <1>2 DEF OpToRel
<1> QED BY <1>1, <1>2

(* The running sums of a sequence.                                         *)
Runs(f, v, n) == f = [k \in 0 .. n |-> IF k = 0 THEN 0 ELSE f[k - 1] + v[k]]

LEMMA RunsExist ==
  ASSUME NEW v \in Seq(Nat)
  PROVE  \E f \in [0 .. Len(v) -> Nat] : Runs(f, v, Len(v))
<1> DEFINE Q(n) == \E f \in [0 .. n -> Nat] : Runs(f, v, n)
<1> DEFINE T == {n \in 0 .. Len(v) : ~Q(n)}
<1>1. Len(v) \in Nat /\ \A k \in 1 .. Len(v) : v[k] \in Nat
  OBVIOUS
<1>2. Q(0)
  <2> DEFINE f == [k \in 0 .. 0 |-> 0]
  <2>1. f \in [0 .. 0 -> Nat] /\ Runs(f, v, 0)
    BY DEF Runs
  <2> HIDE DEF f
  <2> QED BY <2>1
<1>3. ASSUME NEW n \in 1 .. Len(v), Q(n - 1) PROVE Q(n)
  <2>1. PICK f \in [0 .. n - 1 -> Nat] : Runs(f, v, n - 1)
    BY <1>3
  <2>2. n \in Nat /\ n - 1 \in 0 .. n - 1 /\ v[n] \in Nat
    BY <1>1
  <2>3. PICK x \in Nat : x = f[n - 1] + v[n]
    BY <2>1, <2>2
  <2> DEFINE g == [k \in 0 .. n |-> IF k = n THEN x ELSE f[k]]
  <2>4. g \in [0 .. n -> Nat]
    BY <2>2
  <2>5. ASSUME NEW k \in 0 .. n PROVE g[k] = IF k = 0 THEN 0 ELSE g[k - 1] + v[k]
    <3>1. CASE k = n
      <4>1. g[n] = x /\ g[n - 1] = f[n - 1] /\ n # 0
        BY <2>2
      <4> QED BY <2>3, <3>1, <4>1
    <3>2. CASE k # n
      <4>1. k \in 0 .. n - 1 /\ g[k] = f[k]
        BY <2>2, <3>2
      <4>2. f[k] = IF k = 0 THEN 0 ELSE f[k - 1] + v[k]
        BY <2>1, <4>1 DEF Runs
      <4>3. k # 0 => g[k - 1] = f[k - 1]
        BY <2>2, <4>1
      <4> QED BY <4>1, <4>2, <4>3
    <3> QED BY <3>1, <3>2
  <2>6. Runs(g, v, n)
    BY <2>4, <2>5 DEF Runs
  <2> HIDE DEF g
  <2> QED BY <2>4, <2>6
<1>4. T = {}
  <2> SUFFICES ASSUME T # {} PROVE FALSE
    OBVIOUS
  <2> HIDE DEF Q
  <2>0. T \in SUBSET Nat
    BY <1>1
  <2>1. PICK n \in T : \A m \in T : n <= m
    <3> HIDE DEF T
    <3> QED BY <2>0, LeastOne
  <2>2. n \in 0 .. Len(v) /\ ~Q(n)
    BY <2>1
  <2>3. n # 0
    BY <1>2, <2>2
  <2>4. n \in 1 .. Len(v) /\ n - 1 \in 0 .. Len(v) /\ ~(n <= n - 1)
    BY <1>1, <2>2, <2>3
  <2>5. Q(n - 1)
    BY <2>1, <2>4
  <2> QED BY <1>3, <2>2, <2>4, <2>5
<1> QED BY <1>1, <1>4

LEMMA RunsAgree ==
  ASSUME NEW n \in Nat, NEW m \in Nat, NEW v, NEW w, NEW f, NEW g,
         n <= m, \A k \in 1 .. n : v[k] = w[k],
         Runs(f, v, n), Runs(g, w, m)
  PROVE  \A k \in 0 .. n : f[k] = g[k]
<1> DEFINE T == {k \in 0 .. n : f[k] # g[k]}
<1> SUFFICES ASSUME T # {} PROVE FALSE
  OBVIOUS
<1>0. T \in SUBSET Nat
  OBVIOUS
<1>1. PICK k \in T : \A j \in T : k <= j
  <2> HIDE DEF T
  <2> QED BY <1>0, LeastOne
<1>2. k \in 0 .. n /\ k \in 0 .. m /\ f[k] # g[k]
  BY <1>1
<1>3. f[k] = IF k = 0 THEN 0 ELSE f[k - 1] + v[k]
  BY <1>2 DEF Runs
<1>4. g[k] = IF k = 0 THEN 0 ELSE g[k - 1] + w[k]
  BY <1>2 DEF Runs
<1>5. k # 0 /\ v[k] = w[k]
  BY <1>2, <1>3, <1>4
<1>6. k - 1 \in 0 .. n /\ ~(k - 1 \in T)
  BY <1>1, <1>2, <1>5
<1>7. f[k - 1] = g[k - 1]
  BY <1>6
<1> QED BY <1>2, <1>3, <1>4, <1>5, <1>7

LEMMA SumIs ==
  ASSUME NEW v \in Seq(Nat)
  PROVE  \E f \in [0 .. Len(v) -> Nat] : Runs(f, v, Len(v)) /\ SumOf(v) = f[Len(v)]
<1>1. PICK f \in [0 .. Len(v) -> Nat] : Runs(f, v, Len(v))
  BY RunsExist
<1>2. Runs(CHOOSE g : Runs(g, v, Len(v)), v, Len(v))
  BY <1>1
<1>3. PICK g : g = CHOOSE h : Runs(h, v, Len(v))
  OBVIOUS
<1>4. SumOf(v) = g[Len(v)]
  BY <1>3 DEF SumOf, Runs
<1>5. \A k \in 0 .. Len(v) : g[k] = f[k]
  BY <1>1, <1>2, <1>3, RunsAgree
<1>6. SumOf(v) = f[Len(v)]
  BY <1>4, <1>5
<1> QED BY <1>1, <1>6

(* A sum of naturals is one, and a further term is added to it.            *)
LEMMA SumType == ASSUME NEW v \in Seq(Nat) PROVE SumOf(v) \in Nat
<1>1. PICK f \in [0 .. Len(v) -> Nat] : SumOf(v) = f[Len(v)]
  BY SumIs
<1> QED BY <1>1

LEMMA SumEmpty == SumOf(<<>>) = 0
<1>1. <<>> \in Seq(Nat) /\ Len(<<>>) = 0
  OBVIOUS
<1>2. PICK f : Runs(f, <<>>, 0) /\ SumOf(<<>>) = f[0]
  BY <1>1, SumIs
<1>3. f[0] = 0
  BY <1>2 DEF Runs
<1> QED BY <1>2, <1>3

LEMMA SumAppend ==
  ASSUME NEW v \in Seq(Nat), NEW x \in Nat, NEW w \in Seq(Nat), w = Append(v, x)
  PROVE  SumOf(w) = SumOf(v) + x
<1>1. PICK n \in Nat : n = Len(v)
  OBVIOUS
<1>2. Len(w) = n + 1 /\ w[n + 1] = x /\ \A k \in 1 .. n : v[k] = w[k]
  BY <1>1
<1>3. PICK f : Runs(f, v, n) /\ SumOf(v) = f[n]
  BY <1>1, SumIs
<1>4. PICK g : Runs(g, w, n + 1) /\ SumOf(w) = g[n + 1]
  BY <1>2, SumIs
<1>5. g[n + 1] = g[n] + w[n + 1]
  <2>1. n + 1 \in 0 .. n + 1 /\ n + 1 # 0 /\ (n + 1) - 1 = n
    OBVIOUS
  <2>2. g[n + 1] = g[(n + 1) - 1] + w[n + 1]
    BY <1>4, <2>1 DEF Runs
  <2> QED BY <2>1, <2>2
<1>6. \A k \in 0 .. n : f[k] = g[k]
  <2>1. PICK m \in Nat : m = n + 1 /\ n <= m
    OBVIOUS
  <2>2. Runs(f, v, n) /\ Runs(g, w, m)
    BY <1>3, <1>4, <2>1
  <2> QED BY ONLY <1>2, <2>1, <2>2, n \in Nat, m \in Nat, RunsAgree
<1> QED BY <1>2, <1>3, <1>4, <1>5, <1>6

(* Where the parameters stop being served: past the last, or at the first  *)
(* that has no JSON form or does not translate.                            *)
LEMMA ServedIs ==
  ASSUME NEW ps, Len(ps) \in Nat
  PROVE  Served(ps) \in 0 .. Len(ps) /\ \A k \in 1 .. Served(ps) : ~BadParam(ps[k])
<1> DEFINE I == {i \in 1 .. Len(ps) : BadParam(ps[i])}
<1> DEFINE P(x) == \A y \in I : x <= y
<1>1. FirstBad(ps) = IF I # {} THEN CHOOSE x \in I : P(x) ELSE 0
  BY DEF FirstBad, SelectInSeq, Min
<1>2. I \in SUBSET Nat
  OBVIOUS
<1>3. CASE I = {}
  <2>1. \A k \in 1 .. Len(ps) : ~BadParam(ps[k])
    BY <1>3
  <2>2. Served(ps) = Len(ps)
    BY <1>1, <1>3 DEF Served
  <2> QED BY <2>1, <2>2
<1>4. CASE I # {}
  <2>1. \E x \in I : P(x)
    <3> HIDE DEF I
    <3> QED BY <1>2, <1>4, LeastOne
  <2>2. FirstBad(ps) \in I /\ P(FirstBad(ps))
    <3> HIDE DEF I, P
    <3> QED BY <1>1, <1>4, <2>1
  <2>3. FirstBad(ps) \in 1 .. Len(ps)
    BY <2>2
  <2>4. Served(ps) = FirstBad(ps) - 1
    BY <2>3 DEF Served
  <2>5. ASSUME NEW k \in 1 .. Served(ps) PROVE ~BadParam(ps[k])
    <3>1. k \in 1 .. Len(ps) /\ ~(FirstBad(ps) <= k)
      BY <2>3, <2>4
    <3> QED BY <2>2, <3>1
  <2> QED BY <2>3, <2>4, <2>5
<1> QED BY <1>3, <1>4

LEMMA ParamsAre ==
  ASSUME NEW ps, IsParams(ps)
  PROVE  Len(ps) \in Nat /\ DOMAIN ps = 1 .. Len(ps)
BY DEF IsParams

(* What a list of parameters costs, and what it visits, is a number.       *)
LEMMA ParamsCostType ==
  ASSUME NEW ps, IsParams(ps)
  PROVE  ParamsCost(ps) \in Nat /\ ParamsNodes(ps) \in Nat
<1>1. Len(ps) \in Nat /\ DOMAIN ps = 1 .. Len(ps)
  BY ParamsAre
<1>2. Served(ps) \in 0 .. Len(ps) /\ \A k \in 1 .. Served(ps) : ~BadParam(ps[k])
  BY <1>1, ServedIs
<1>3. PICK n \in Nat : n = Served(ps)
  BY <1>1, <1>2
<1>4. \A k \in 1 .. n : /\ Expansion(ps[k].schema).cost + ps[k].text \in Nat
                        /\ Expansion(ps[k].schema).nodes \in Nat
  <2> SUFFICES ASSUME NEW k \in 1 .. n
               PROVE  /\ Expansion(ps[k].schema).cost + ps[k].text \in Nat
                      /\ Expansion(ps[k].schema).nodes \in Nat
    OBVIOUS
  <2>1. ~BadParam(ps[k]) /\ k \in DOMAIN ps
    BY <1>1, <1>2, <1>3
  <2>2. ps[k].schema \in DOMAIN Schemas /\ ps[k].text \in Nat
    BY <2>1 DEF BadParam, IsParams
  <2>3. Expansion(ps[k].schema).cost \in Nat /\ Expansion(ps[k].schema).nodes \in Nat
    BY <2>2, CostAssumption
  <2> QED BY <2>2, <2>3
<1> DEFINE v == [k \in 1 .. n |-> Expansion(ps[k].schema).cost + ps[k].text]
<1> DEFINE w == [k \in 1 .. n |-> Expansion(ps[k].schema).nodes]
<1>5. v \in Seq(Nat) /\ w \in Seq(Nat)
  BY <1>4
<1>6. ParamsCost(ps) = SumOf(v) /\ ParamsNodes(ps) = SumOf(w)
  BY <1>3 DEF ParamsCost, ParamsNodes
<1> HIDE DEF v, w
<1> QED BY <1>5, <1>6, SumType

LEMMA DeclaresFinite ==
  ASSUME NEW ps, IsParams(ps), NEW from
  PROVE  IsFiniteSet(Declares(from, ps))
<1>1. Len(ps) \in Nat /\ DOMAIN ps = 1 .. Len(ps)
  BY ParamsAre
<1>2. IsFiniteSet(DOMAIN ps)
  BY <1>1, FS_Interval
<1> DEFINE f == [k \in DOMAIN ps |-> [from |-> from, at |-> k, in |-> ps[k].in, name |-> ps[k].name]]
<1>3. f \in Surjection(DOMAIN ps, Declares(from, ps))
  BY DEF Surjection, Declares
<1> HIDE DEF f
<1> QED BY <1>2, <1>3, FS_Surjection

(* The parameters of an operation, its own and the ones it inherits, are   *)
(* as many as the places they take when no two take one.                   *)
LEMMA OurParamsCount ==
  ASSUME NEW inherited, NEW own, IsParams(inherited), IsParams(own), NEW auth, NEW kept,
         kept = OurParams(mergeParams(inherited, own), auth)
  PROVE  /\ Cardinality(kept) \in Nat
         /\ (~ \E p, q \in kept : p # q /\ SameParam(p, q))
            => Cardinality({[in |-> p.in, name |-> p.name] : p \in kept}) = Cardinality(kept)
<1>1. IsFiniteSet(Declares("operation", own) \union Declares("path", inherited))
  BY DeclaresFinite, FS_Union
<1>2. kept \subseteq Declares("operation", own) \union Declares("path", inherited)
  BY DEF OurParams, mergeParams
<1>3. IsFiniteSet(kept)
  BY <1>1, <1>2, FS_Subset
<1> DEFINE places == {[in |-> p.in, name |-> p.name] : p \in kept}
<1>4. ASSUME ~ \E p, q \in kept : p # q /\ SameParam(p, q)
      PROVE  Cardinality(places) = Cardinality(kept)
  <2> DEFINE f == [p \in kept |-> [in |-> p.in, name |-> p.name]]
  <2>1. f \in Surjection(kept, places)
    BY DEF Surjection
  <2>2. f \in [kept -> places]
    OBVIOUS
  <2>3. ASSUME NEW p \in kept, NEW q \in kept, f[p] = f[q] PROVE p = q
    <3>1. p.in = q.in /\ p.name = q.name
      BY <2>3
    <3> QED BY <1>4, <3>1 DEF SameParam
  <2>4. f \in Injection(kept, places)
    <3> HIDE DEF f, places
    <3> QED BY <2>2, <2>3 DEF Injection, IsInjective
  <2> HIDE DEF f, places
  <2> QED BY <1>3, <2>1, <2>4, FS_Surjection
<1> QED BY <1>3, <1>4, FS_CardinalityType

(* The path under a key of the document.                                   *)
LEMMA PathAtIs ==
  ASSUME NEW doc \in Documents, ~doc.keyTwice, NEW i \in DOMAIN doc.paths
  PROVE  PathAt(doc, doc.paths[i].key) = doc.paths[i]
<1>1. \A p \in Range(doc.paths) : p.key = doc.paths[i].key => p = doc.paths[i]
  BY DocumentsAssumption DEF Range
<1>2. doc.paths[i] \in Range(doc.paths)
  BY DEF Range
<1>3. PICK key : key = doc.paths[i].key
  OBVIOUS
<1>4. PathAt(doc, key) \in Range(doc.paths) /\ PathAt(doc, key).key = key
  BY <1>2, <1>3 DEF PathAt
<1> QED BY <1>1, <1>3, <1>4

(* While a path is open, what the reading stands on.                       *)
LEMMA PathOpen ==
  ASSUME ReadingInv, in.pc = "op"
  PROVE  /\ in.doc \in Documents /\ ~in.doc.keyTwice
         /\ in.i \in DOMAIN in.doc.paths /\ IsPath(Path) /\ Path = in.doc.paths[in.i]
         /\ in.total \in Nat /\ in.pathBytes = ParamsCost(Path.params) /\ in.pathBytes \in Nat
         /\ in.nodes \in Nat /\ Len(in.drafts) \in Nat /\ in.nodes <= MaxSchemaNodes + Len(in.drafts)
<1>1. in.doc \in Documents /\ ~in.doc.keyTwice /\ DraftsHold /\ PlaceHolds
  BY DEF ReadingInv, Reading
<1>2. in.doc.paths \in Seq(Range(in.doc.paths)) /\ \A i \in DOMAIN in.doc.paths : IsPath(in.doc.paths[i])
  BY <1>1, DocumentsAssumption
<1>3. in.i \in DOMAIN in.doc.paths
  BY <1>1, <1>2 DEF PlaceHolds
<1>4. IsPath(Path) /\ Path = in.doc.paths[in.i]
  BY <1>2, <1>3 DEF Path
<1>5. in.pathBytes = ParamsCost(Path.params)
  BY <1>1 DEF PlaceHolds
<1>6. in.pathBytes \in Nat
  BY <1>4, <1>5, ParamsCostType DEF IsPath
<1> QED BY <1>1, <1>3, <1>4, <1>5, <1>6 DEF DraftsHold

(* What an operation charges, stage by stage, is a number.                 *)
LEMMA BytesAre ==
  ASSUME ReadingInv, in.pc = "op", NEW op, IsOperation(op)
  PROVE  /\ OwnBytes(op) \in Nat /\ KeyedBytes(op) \in Nat /\ BodyBytes(op) \in Nat
         /\ Cardinality(KeptParams(op)) \in Nat
<1>1. in.pathBytes \in Nat /\ IsParams(Path.params)
  BY PathOpen DEF IsPath
<1>2. IsParams(op.params)
  BY DEF IsOperation
<1>3. ParamsCost(op.params) \in Nat
  BY <1>2, ParamsCostType
<1>4. OwnBytes(op) \in Nat
  BY <1>1, <1>3 DEF OwnBytes, StartBytes
<1>5. Cardinality(KeptParams(op)) \in Nat
  BY <1>1, <1>2, OurParamsCount DEF KeptParams
<1>6. KeyedBytes(op) \in Nat
  BY <1>4, <1>5 DEF KeyedBytes
<1>7. JSONBody(op) => Expansion(op.body).cost \in Nat /\ op.text \in Nat
  BY CostAssumption DEF IsOperation, JSONBody
<1>8. BodyBytes(op) \in Nat
  BY <1>6, <1>7 DEF BodyBytes
<1> QED BY <1>4, <1>5, <1>6, <1>8

(* The schemas a document has visited once the parameters of an operation  *)
(* are read are within the budget, or no more than before.                 *)
LEMMA OwnNodesFit ==
  ASSUME ReadingInv, in.pc = "op", NEW op, IsOperation(op), ~Exhausted(ParamsNodes(op.params))
  PROVE  OwnNodes(op) \in Nat /\ OwnNodes(op) <= MaxSchemaNodes + Len(in.drafts)
<1>1. PICK had \in Nat : had = in.nodes
  BY PathOpen
<1>2. PICK n \in Nat : n = ParamsNodes(op.params)
  BY ParamsCostType DEF IsOperation
<1>3. PICK d \in Nat : d = Len(in.drafts)
  BY PathOpen
<1>4. had <= MaxSchemaNodes + d
  BY <1>1, <1>3, PathOpen
<1>5. ~(n > 0 /\ had + n > MaxSchemaNodes)
  BY <1>1, <1>2 DEF Exhausted
<1>6. OwnNodes(op) = had + n
  BY <1>1, <1>2 DEF OwnNodes
<1> QED BY <1>3, <1>4, <1>5, <1>6, BudgetAssumption

(* And once its body is translated.                                        *)
LEMMA BodyNodesFit ==
  ASSUME ReadingInv, in.pc = "op", NEW op, IsOperation(op), ~Exhausted(ParamsNodes(op.params)),
         JSONBody(op) => translateSchema(op.body, OwnNodes(op))
  PROVE  BodyNodes(op) \in Nat /\ BodyNodes(op) <= MaxSchemaNodes + Len(in.drafts)
<1>1. PICK own \in Nat : own = OwnNodes(op)
  BY OwnNodesFit
<1>2. PICK d \in Nat : d = Len(in.drafts)
  BY PathOpen
<1>3. own <= MaxSchemaNodes + d
  BY <1>1, <1>2, OwnNodesFit
<1>4. CASE JSONBody(op)
  <2>1. PICK n \in Nat : n = Expansion(op.body).nodes
    BY <1>4, CostAssumption DEF IsOperation, JSONBody
  <2>2. BodyNodes(op) = own + n
    BY <1>1, <1>4, <2>1 DEF BodyNodes
  <2>3. own + n <= MaxSchemaNodes
    BY <1>1, <1>4, <2>1 DEF translateSchema
  <2> QED BY <1>2, <2>2, <2>3, BudgetAssumption
<1>5. CASE ~JSONBody(op)
  <2>1. BodyNodes(op) = own + 0
    BY <1>1, <1>5 DEF BodyNodes
  <2> QED BY <1>2, <1>3, <2>1
<1> QED BY <1>4, <1>5

LEMMA SumOneMore ==
  ASSUME NEW l \in Nat, NEW x \in Nat, NEW v \in Seq(Nat), NEW w \in Seq(Nat), Len(v) = l, Len(w) = l + 1,
         \A j \in 1 .. l : w[j] = v[j], w[l + 1] = x
  PROVE  SumOf(w) = SumOf(v) + x
<1>1. Append(v, x) \in Seq(Nat) /\ Len(Append(v, x)) = l + 1
  OBVIOUS
<1>2. ASSUME NEW j \in 1 .. l + 1 PROVE w[j] = Append(v, x)[j]
  <2>1. CASE j = l + 1
    BY <2>1
  <2>2. CASE j # l + 1
    <3>1. j \in 1 .. l
      BY <2>2
    <3> QED BY <3>1
  <2> QED BY <2>1, <2>2
<1>3. w = Append(v, x)
  BY <1>1, <1>2
<1> QED BY <1>3, SumAppend

(* What the outputs before the one that is tried have visited: nothing     *)
(* when it is the first, and within the budget when it is not.             *)
LEMMA OutNodesFit ==
  ASSUME NEW outs \in Seq({"none"} \union DOMAIN Schemas), NEW spent \in Nat, NEW k \in Tried(outs, spent)
  PROVE  /\ OutNodes(outs, k - 1) \in Nat
         /\ k = 1 => OutNodes(outs, k - 1) = 0
         /\ k # 1 => spent + OutNodes(outs, k - 1) <= MaxSchemaNodes
<1>1. PICK S : S = {"none"} \union DOMAIN Schemas
  OBVIOUS
<1>2. outs \in Seq(S)
  BY <1>1
<1>3. k \in 1 .. Len(outs) /\ Len(outs) \in Nat
  BY <1>2 DEF Tried
<1>4. \A j \in 1 .. k - 1 : ~Dropped(outs, j, spent)
  BY DEF Tried
<1>5. ASSUME NEW j \in 1 .. k - 1 PROVE Expansion(outs[j]).nodes \in Nat
  <2>1. outs[j] \in S /\ outs[j] # "none"
    <3>1. j \in 1 .. Len(outs)
      BY <1>3
    <3> QED BY <1>2, <1>4, <1>5, <3>1 DEF Dropped
  <2> QED BY <1>1, <2>1, CostAssumption
<1> DEFINE w == [j \in 1 .. k - 1 |-> Expansion(outs[j]).nodes]
<1>6. w \in Seq(Nat) /\ OutNodes(outs, k - 1) = SumOf(w)
  <2>1. k - 1 \in Nat
    BY <1>3
  <2> QED BY <1>5, <2>1 DEF OutNodes
<1>7. OutNodes(outs, k - 1) \in Nat
  <2> HIDE DEF w
  <2> QED BY <1>6, SumType
<1>8. ASSUME k = 1 PROVE OutNodes(outs, k - 1) = 0
  <2>1. w = <<>>
    BY <1>8
  <2> QED BY <1>6, <2>1, SumEmpty
<1>9. ASSUME k # 1 PROVE spent + OutNodes(outs, k - 1) <= MaxSchemaNodes
  <2>1. PICK l \in Nat : k = l + 2
    <3>1. k - 2 \in Nat /\ k = (k - 2) + 2
      BY <1>3, <1>9
    <3> QED BY <3>1
  <2>2. PICK n \in Nat : n = Expansion(outs[l + 1]).nodes
    BY <1>5, <2>1
  <2>3. PICK v : v = [j \in 1 .. l |-> Expansion(outs[j]).nodes]
    OBVIOUS
  <2>4. k - 1 = l + 1 /\ (l + 1) - 1 = l
    BY <2>1
  <2>5. PICK u : u = [j \in 1 .. l + 1 |-> Expansion(outs[j]).nodes]
    OBVIOUS
  <2>6. SumOf(u) = SumOf(v) + n /\ SumOf(v) \in Nat /\ w = u
    <3>1. \A j \in 1 .. l + 1 : Expansion(outs[j]).nodes \in Nat
      BY <1>5, <2>4
    <3>2. v \in Seq(Nat) /\ Len(v) = l /\ u \in Seq(Nat) /\ Len(u) = l + 1
      BY ONLY <2>3, <2>5, <3>1, l \in Nat
    <3>3. (\A j \in 1 .. l : u[j] = v[j]) /\ u[l + 1] = n
      BY ONLY <2>2, <2>3, <2>5, l \in Nat
    <3>4. SumOf(u) = SumOf(v) + n
      BY ONLY <3>2, <3>3, l \in Nat, n \in Nat, SumOneMore
    <3>5. SumOf(v) \in Nat
      BY ONLY <3>2, SumType
    <3>6. w = u
      BY ONLY <2>4, <2>5
    <3> QED BY ONLY <3>4, <3>5, <3>6
  <2>7. OutNodes(outs, (l + 1) - 1) = SumOf(v)
    BY ONLY <2>3, <2>4 DEF OutNodes
  <2>8. translateSchema(outs[l + 1], spent + OutNodes(outs, (l + 1) - 1))
    <3>1. l + 1 \in 1 .. k - 1
      BY <2>4
    <3> QED BY <1>4, <3>1 DEF Dropped
  <2>9. PICK sum \in Nat : sum = SumOf(v)
    BY <2>6
  <2>10. spent + sum + n <= MaxSchemaNodes
    BY <2>2, <2>7, <2>8, <2>9 DEF translateSchema
  <2> HIDE DEF w
  <2>11. OutNodes(outs, k - 1) = sum + n
    BY <1>6, <2>6, <2>9
  <2> QED BY <2>10, <2>11
<1> QED BY <1>7, <1>8, <1>9

(* A schema is visited to the end of the budget, or one further when there *)
(* is none left.                                                           *)
LEMMA VisitedFits ==
  ASSUME NEW n \in DOMAIN Schemas, NEW spent \in Nat, NEW v \in Visited(n, spent)
  PROVE  (v \in Nat /\ v <= MaxSchemaNodes + 1) \/ v = spent + 1
<1>1. PICK all \in Nat : all = Expansion(n).nodes
  BY CostAssumption
<1>2. PICK k \in Nat : v = Reached(spent, k)
  <2>1. PICK k \in IF Expansion(n).ok THEN {all} ELSE 1 .. all : v = Reached(spent, k)
    BY <1>1 DEF Visited
  <2>2. k \in Nat
    <3>1. CASE Expansion(n).ok
      BY <3>1
    <3>2. CASE ~Expansion(n).ok
      BY <3>2
    <3> QED BY <3>1, <3>2
  <2> QED BY <2>1, <2>2
<1> QED BY <1>2, BudgetAssumption DEF Reached

(* What a document has visited after the operation that is drafted.        *)
LEMMA NodesAfterFit ==
  ASSUME NEW op, IsOperation(op), NEW m, NEW d \in Nat,
         BodyNodes(op) \in Nat, BodyNodes(op) <= MaxSchemaNodes + d, NEW n \in NodesAfter(op, m)
  PROVE  n \in Nat /\ n <= MaxSchemaNodes + (d + 1)
<1>1. PICK spent \in Nat : spent = BodyNodes(op)
  OBVIOUS
<1>2. PICK outs \in Seq({"none"} \union DOMAIN Schemas) : outs = Outs(op, m)
  <2>1. PICK S : S = {"none"} \union DOMAIN Schemas
    OBVIOUS
  <2>2. PICK outs \in Seq(S) : outs = op.outs
    BY <2>1 DEF IsOperation
  <2>3. Outs(op, m) \in Seq(S)
    <3>1. <<>> \in Seq(S)
      BY ONLY TRUE
    <3> QED BY <2>2, <3>1 DEF Outs
  <2> QED BY <2>1, <2>3
<1>3. n = spent \/ \E k \in LastTried(outs, spent) : LET had == spent + OutNodes(outs, k - 1) IN
        n \in IF outs[k] = "none" THEN {had} ELSE Visited(outs[k], had)
  BY <1>1, <1>2 DEF NodesAfter
<1>4. spent <= MaxSchemaNodes + d
  BY <1>1
<1>5. CASE n = spent
  BY <1>4, <1>5, BudgetAssumption
<1>6. ASSUME NEW k \in LastTried(outs, spent),
             n \in IF outs[k] = "none" THEN {spent + OutNodes(outs, k - 1)}
                   ELSE Visited(outs[k], spent + OutNodes(outs, k - 1))
      PROVE  n \in Nat /\ n <= MaxSchemaNodes + (d + 1)
  <2>1. k \in Tried(outs, spent)
    BY DEF LastTried
  <2>2. PICK had : had = spent + OutNodes(outs, k - 1)
    OBVIOUS
  <2>3. had \in Nat /\ had <= MaxSchemaNodes + d
    <3>1. PICK out \in Nat : out = OutNodes(outs, k - 1)
      BY <2>1, OutNodesFit
    <3>2. k # 1 => spent + out <= MaxSchemaNodes
      BY <2>1, <3>1, OutNodesFit
    <3>3. k = 1 => out = 0
      BY <2>1, <3>1, OutNodesFit
    <3>4. had = spent + out
      BY <2>2, <3>1
    <3> QED BY ONLY <1>4, <3>2, <3>3, <3>4, out \in Nat, spent \in Nat, d \in Nat, BudgetAssumption
  <2>4. CASE outs[k] = "none"
    <3>1. n = had
      BY <1>6, <2>2, <2>4
    <3> QED BY <2>3, <3>1, BudgetAssumption
  <2>5. CASE outs[k] # "none"
    <3>1. n \in Visited(outs[k], had)
      BY <1>6, <2>2, <2>5
    <3>2. outs[k] \in DOMAIN Schemas
      <4>1. PICK S : S = {"none"} \union DOMAIN Schemas
        OBVIOUS
      <4>2. outs \in Seq(S) /\ k \in DOMAIN outs
        BY <2>1, <4>1 DEF Tried
      <4>3. outs[k] \in S
        BY <4>2
      <4> QED BY <2>5, <4>1, <4>3
    <3>3. (n \in Nat /\ n <= MaxSchemaNodes + 1) \/ n = had + 1
      BY <2>3, <3>1, <3>2, VisitedFits
    <3> QED BY <2>3, <3>3, BudgetAssumption
  <2> QED BY <2>4, <2>5
<1> QED BY <1>3, <1>5, <1>6

(* An agreed output is translated, and was tried.                          *)
LEMMA AgreedIs ==
  ASSUME NEW op, IsOperation(op), NEW m, Agreed(op, m)
  PROVE  /\ Expansion(op.outs[1]).cost \in Nat
         /\ 1 \in Candidates(op, m) /\ translateSchema(op.outs[1], BodyNodes(op) + OutNodes(op.outs, 1 - 1))
<1>1. Outs(op, m) = op.outs /\ op.outs # <<>> /\ \A k \in DOMAIN op.outs : ~Dropped(op.outs, k, BodyNodes(op))
  BY DEF Agreed, Outs
<1>2. 1 \in DOMAIN op.outs /\ op.outs[1] \in {"none"} \union DOMAIN Schemas
  <2>1. PICK S : S = {"none"} \union DOMAIN Schemas
    OBVIOUS
  <2>2. PICK outs \in Seq(S) : outs = op.outs
    BY <2>1 DEF IsOperation
  <2>3. 1 \in DOMAIN outs /\ outs[1] \in S
    BY <1>1, <2>2
  <2> QED BY <2>1, <2>2, <2>3
<1>3. op.outs[1] # "none" /\ translateSchema(op.outs[1], BodyNodes(op) + OutNodes(op.outs, 1 - 1))
  BY <1>1, <1>2 DEF Dropped
<1>4. 1 \in Tried(op.outs, BodyNodes(op))
  BY <1>2 DEF Tried
<1> QED BY <1>1, <1>2, <1>3, <1>4, CostAssumption DEF Candidates

(* What an operation that is drafted has charged was within the budgets.   *)
LEMMA AllBytesFit ==
  ASSUME ReadingInv, in.pc = "op", NEW op, IsOperation(op), NEW m,
         ~Over(BodyBytes(op)), ~Overruns(op, m)
  PROVE  /\ AllBytes(op, m) \in Nat /\ AllBytes(op, m) <= MaxDefinition
         /\ in.total + AllBytes(op, m) <= MaxSet
<1>1. BodyBytes(op) \in Nat /\ in.total \in Nat
  BY BytesAre, PathOpen
<1>2. AllBytes(op, m) \in Nat /\ ~Over(AllBytes(op, m))
  <2>1. CASE Agreed(op, m)
    <3>1. AllBytes(op, m) = BodyBytes(op) + Expansion(op.outs[1]).cost
      BY <2>1 DEF AllBytes, OutBytes
    <3>2. ~OverWith(op, 1)
      BY <2>1, AgreedIs DEF Overruns
    <3> QED BY <1>1, <2>1, <3>1, <3>2, AgreedIs DEF OverWith
  <2>2. CASE ~Agreed(op, m)
    <3>1. AllBytes(op, m) = BodyBytes(op)
      BY <1>1, <2>2 DEF AllBytes, OutBytes
    <3> QED BY <1>1, <3>1
  <2> QED BY <2>1, <2>2
<1> QED BY <1>1, <1>2, BudgetAssumption DEF Over

(* The ways an operation is taken, as conditions in order.                 *)
LEMMA OperationIs ==
  ASSUME NEW op, NEW m, NEW r, r = Operation(op, m)
  PROVE  \/ r.is = "refuse"
         \/ (r.is = "skip" /\ r.nodes = in.nodes)
         \/ (r.is = "skip" /\ r.nodes = OwnNodes(op) /\ ~Exhausted(ParamsNodes(op.params)))
         \/ /\ r = [is |-> "draft", bytes |-> AllBytes(op, m), draft |-> Draft(op, m)]
            /\ ~Exhausted(ParamsNodes(op.params)) /\ ~HasTwice(op) /\ op.body # "other"
            /\ JSONBody(op) => translateSchema(op.body, OwnNodes(op))
            /\ ~Over(BodyBytes(op)) /\ ~Overruns(op, m)
<1>1. PICK c1 : c1 = (op.body # "" /\ Safe(m))
  OBVIOUS
<1>2. PICK c2 : c2 = (Over(OwnBytes(op)) \/ Exhausted(ParamsNodes(op.params)) \/ Invalid(op.params))
  OBVIOUS
<1>3. PICK c3 : c3 = Unserved(op.params)
  OBVIOUS
<1>4. PICK c4 : c4 = (Over(KeyedBytes(op)) \/ HasTwice(op))
  OBVIOUS
<1>5. PICK c5 : c5 = (op.body = "other")
  OBVIOUS
<1>6. PICK c6 : c6 = (JSONBody(op) /\ ~translateSchema(op.body, OwnNodes(op)))
  OBVIOUS
<1>7. PICK c7 : c7 = (Over(BodyBytes(op)) \/ Overruns(op, m) \/ Size(op, m) > MaxDefinition)
  OBVIOUS
<1>8. PICK d : d = [is |-> "draft", bytes |-> AllBytes(op, m), draft |-> Draft(op, m)]
  OBVIOUS
<1>9. PICK s1 : s1 = [is |-> "skip", bytes |-> StartBytes, nodes |-> in.nodes]
  OBVIOUS
<1>10. PICK s2 : s2 = [is |-> "skip", bytes |-> OwnBytes(op), nodes |-> OwnNodes(op)]
  OBVIOUS
<1>11. PICK s3 : s3 = [is |-> "skip", bytes |-> KeyedBytes(op), nodes |-> OwnNodes(op)]
  OBVIOUS
<1>12. PICK no : no = [is |-> "refuse"]
  OBVIOUS
<1>13. r = IF c1 THEN s1 ELSE IF c2 THEN no ELSE IF c3 THEN s2 ELSE IF c4 THEN no ELSE IF c5 THEN s3
           ELSE IF c6 THEN no ELSE IF c7 THEN no ELSE d
  BY ONLY r = Operation(op, m), <1>1, <1>2, <1>3, <1>4, <1>5, <1>6, <1>7, <1>8, <1>9, <1>10, <1>11, <1>12
     DEF Operation, Skipped, NotTaken
<1>14. \/ r = s1 \/ r = no \/ (r = s2 /\ ~c2) \/ (r = s3 /\ ~c2)
       \/ (r = d /\ ~c2 /\ ~c4 /\ ~c5 /\ ~c6 /\ ~c7)
  BY ONLY <1>13
<1>15. CASE r = s1
  BY <1>9, <1>15
<1>16. CASE r = no
  BY <1>12, <1>16
<1>17. CASE (r = s2 \/ r = s3) /\ ~c2
  <2>1. ~Exhausted(ParamsNodes(op.params))
    BY ONLY <1>2, <1>17
  <2>2. r.is = "skip" /\ r.nodes = OwnNodes(op)
    BY ONLY <1>10, <1>11, <1>17
  <2> QED BY ONLY <2>1, <2>2
<1>19. CASE r = d /\ ~c2 /\ ~c4 /\ ~c5 /\ ~c6 /\ ~c7
  BY <1>2, <1>4, <1>5, <1>6, <1>7, <1>8, <1>19
<1> QED BY <1>14, <1>15, <1>16, <1>17, <1>19

(* A skipped operation leaves the count of schemas within its bound.       *)
LEMMA SkipMade ==
  ASSUME ReadingInv, in.pc = "op", NEW m \in DOMAIN Path.ops,
         NEW r, r = Operation(Path.ops[m], m), r.is = "skip"
  PROVE  r.nodes \in Nat /\ r.nodes <= MaxSchemaNodes + Len(in.drafts)
<1>1. PICK op : op = Path.ops[m]
  OBVIOUS
<1>2. IsOperation(op)
  BY <1>1, PathOpen DEF IsPath
<1>3. r.nodes = in.nodes \/ (r.nodes = OwnNodes(op) /\ ~Exhausted(ParamsNodes(op.params)))
  BY <1>1, OperationIs
<1> QED BY <1>2, <1>3, PathOpen, OwnNodesFit

(* A draft is an operation of the document, and has paid what it owes.     *)
LEMMA DraftMade ==
  ASSUME ReadingInv, in.pc = "op", NEW m \in DOMAIN Path.ops,
         NEW r, r = Operation(Path.ops[m], m), r.is # "refuse", r.is # "skip"
  PROVE  /\ r.bytes \in Nat /\ r.draft.bytes = r.bytes /\ in.total + r.bytes <= MaxSet
         /\ DraftHolds(in.doc, r.draft)
         /\ \A n \in NodesAfter(Path.ops[m], m) : n \in Nat /\ n <= MaxSchemaNodes + (Len(in.drafts) + 1)
<1>1. PICK op : op = Path.ops[m]
  OBVIOUS
<1>2. /\ in.doc \in Documents /\ ~in.doc.keyTwice /\ in.i \in DOMAIN in.doc.paths
      /\ IsPath(Path) /\ Path = in.doc.paths[in.i]
      /\ in.pathBytes = ParamsCost(Path.params) /\ in.pathBytes \in Nat
  BY PathOpen
<1>3. IsOperation(op) /\ IsParams(Path.params) /\ IsParams(op.params)
  BY <1>1, <1>2 DEF IsPath, IsOperation
<1>5. /\ r = [is |-> "draft", bytes |-> AllBytes(op, m), draft |-> Draft(op, m)]
      /\ ~Exhausted(ParamsNodes(op.params)) /\ ~HasTwice(op) /\ op.body # "other"
      /\ JSONBody(op) => translateSchema(op.body, OwnNodes(op))
      /\ ~Over(BodyBytes(op)) /\ ~Overruns(op, m)
  BY <1>1, OperationIs
<1>6. /\ AllBytes(op, m) \in Nat /\ AllBytes(op, m) <= MaxDefinition
      /\ in.total + AllBytes(op, m) <= MaxSet
  BY <1>3, <1>5, AllBytesFit
<1>7. PICK d : d = Draft(op, m)
  OBVIOUS
<1>8. /\ d.id = op.id /\ d.method = m /\ d.path = Path.key /\ d.bytes = AllBytes(op, m)
      /\ d.params = {[in |-> p.in, name |-> p.name] : p \in KeptParams(op)}
      /\ d.body = (op.body # "") /\ d.output = Agreed(op, m)
  BY <1>7 DEF Draft
<1>9. FromDocument(in.doc, d)
  BY <1>1, <1>2, <1>8 DEF FromDocument
<1>10. PathAt(in.doc, d.path) = Path
  BY <1>2, <1>8, PathAtIs
<1>11. Cardinality(d.params) = Cardinality(KeptParams(op))
  <2>1. PICK kept : kept = KeptParams(op)
    OBVIOUS
  <2>2. PICK inherited : inherited = Path.params
    OBVIOUS
  <2>3. PICK own : own = op.params
    OBVIOUS
  <2>4. PICK auth : auth = in.auth
    OBVIOUS
  <2>5. kept = OurParams(mergeParams(inherited, own), auth)
    BY <2>1, <2>2, <2>3, <2>4 DEF KeptParams
  <2>6. ~ \E p, q \in kept : p # q /\ SameParam(p, q)
    BY <1>5, <2>1 DEF HasTwice
  <2>7. IsParams(inherited) /\ IsParams(own)
    BY <1>3, <2>2, <2>3
  <2>8. Cardinality({[in |-> p.in, name |-> p.name] : p \in kept}) = Cardinality(kept)
    BY ONLY <2>5, <2>6, <2>7, OurParamsCount
  <2> QED BY <1>8, <2>1, <2>8
<1>12. Owes(in.doc, d)
  <2>1. PICK paths \in Nat : paths = ParamsCost(Path.params)
    BY <1>2
  <2>2. PICK mine \in Nat : mine = ParamsCost(op.params)
    BY <1>3, ParamsCostType
  <2>3. PICK n \in Nat : n = Cardinality(KeptParams(op))
    BY <1>3, BytesAre
  <2>4. PICK bod \in Nat : bod = IF JSONBody(op) THEN Expansion(op.body).cost + op.text ELSE 0
    <3>1. JSONBody(op) => Expansion(op.body).cost \in Nat /\ op.text \in Nat
      BY <1>3, CostAssumption DEF IsOperation, JSONBody
    <3> QED BY <3>1
  <2>5. PICK out \in Nat : out = IF Agreed(op, m) THEN Expansion(op.outs[1]).cost ELSE 0
    BY <1>3, AgreedIs
  <2>6. OwnBytes(op) = paths + mine
    BY <1>2, <2>1, <2>2 DEF OwnBytes, StartBytes
  <2>7. AllBytes(op, m) = paths + mine + n + bod + out
    BY <2>3, <2>4, <2>5, <2>6 DEF KeyedBytes, BodyBytes, AllBytes, OutBytes
  <2>8. bod = IF d.body THEN Expansion(op.body).cost + op.text ELSE 0
    BY <1>5, <1>8, <2>4 DEF JSONBody
  <2>9. out = IF d.output THEN Expansion(op.outs[1]).cost ELSE 0
    BY <1>8, <2>5
  <2>10. Path.ops[d.method] = op
    BY <1>1, <1>8
  <2> QED BY <1>8, <1>10, <1>11, <2>1, <2>2, <2>3, <2>7, <2>8, <2>9, <2>10 DEF Owes
<1>13. DraftHolds(in.doc, d)
  BY <1>6, <1>8, <1>9, <1>12 DEF DraftHolds
<1>14. r.bytes = AllBytes(op, m) /\ r.draft = d
  BY <1>5, <1>7
<1>15. \A n \in NodesAfter(op, m) : n \in Nat /\ n <= MaxSchemaNodes + (Len(in.drafts) + 1)
  <2>1. PICK k \in Nat : k = Len(in.drafts)
    BY PathOpen
  <2>2. BodyNodes(op) \in Nat /\ BodyNodes(op) <= MaxSchemaNodes + k
    BY <1>3, <1>5, <2>1, BodyNodesFit
  <2> QED BY <1>3, <2>1, <2>2, NodesAfterFit
<1> QED BY <1>1, <1>6, <1>8, <1>13, <1>14, <1>15

-----------------------------------------------------------------------------
(* The reading of a document, step by step.                                *)

LEMMA MethodsAre == Len(Methods) = 6
BY DEF Methods

LEMMA ReadingSame == ASSUME ReadingInv, UNCHANGED in PROVE ReadingInv'
BY DEF ReadingInv, Reading, IsReading, DraftsHold, PlaceHolds, Path

LEMMA RefusedKeeps == ASSUME Refuse PROVE ReadingInv'
<1>1. in'.pc = "refused"
  BY DEF Refuse
<1> QED BY <1>1 DEF ReadingInv, Reading

(* The reading moves on, and what was drafted stays.                       *)
LEMMA ReadingMoves ==
  ASSUME ReadingInv, Reading, IsReading', Reading', PlaceHolds',
         in'.doc = in.doc, in'.drafts = in.drafts, in'.total = in.total,
         in'.nodes \in Nat, in'.nodes <= MaxSchemaNodes + Len(in.drafts)
  PROVE  ReadingInv'
<1>1. in.doc \in Documents /\ ~in.doc.keyTwice /\ DraftsHold
  BY DEF ReadingInv
<1>2. DraftsHold'
  BY <1>1 DEF DraftsHold
<1> QED BY <1>1, <1>2 DEF ReadingInv, Reading

LEMMA BeginReads ==
  ASSUME NEW doc \in Documents, NEW o, Begin(doc, o)
  PROVE  ReadingInv'
<1>1. CASE in' = [pc |-> "refused"]
  BY <1>1, RefusedKeeps DEF Refuse
<1>2. CASE /\ parseDocument(doc)
           /\ in' = [pc |-> "path", doc |-> doc, opts |-> o, auth |-> Auth(doc, o),
                     i |-> 1, m |-> 1, pathBytes |-> 0, opBytes |-> 0, total |-> 0, nodes |-> 0,
                     drafts |-> <<>>, skipped |-> {}]
  <2>1. /\ in'.pc = "path" /\ in'.doc = doc /\ in'.i = 1 /\ in'.m = 1 /\ in'.total = 0 /\ in'.nodes = 0
        /\ in'.drafts = <<>> /\ IsReading'
    BY <1>2 DEF IsReading
  <2>2. ~doc.keyTwice
    BY <1>2 DEF parseDocument, mapping
  <2>3. Len(doc.paths) \in Nat
    BY DocumentsAssumption
  <2>4. PlaceHolds'
    BY <2>1, <2>3, MethodsAre DEF PlaceHolds
  <2>5. DraftsHold'
    <3>1. [k \in DOMAIN in'.drafts |-> in'.drafts[k].bytes] = <<>>
      BY <2>1
    <3>2. in'.drafts \in Seq(Range(in'.drafts)) /\ Len(in'.drafts) = 0 /\ DOMAIN in'.drafts = {}
      BY <2>1
    <3> QED BY <2>1, <3>1, <3>2, SumEmpty, BudgetAssumption DEF DraftsHold
  <2> QED BY <2>1, <2>2, <2>4, <2>5 DEF ReadingInv, Reading
<1> QED BY <1>1, <1>2 DEF Begin

LEMMA ReadingIs ==
  ASSUME ReadingInv, Reading
  PROVE  /\ IsReading /\ in.doc \in Documents /\ Len(in.doc.paths) \in Nat
         /\ in.i \in 1 .. Len(in.doc.paths) + 1 /\ in.m \in 1 .. 6
         /\ DraftsHold /\ PlaceHolds /\ ~in.doc.keyTwice
         /\ in.nodes \in Nat /\ Len(in.drafts) \in Nat /\ in.nodes <= MaxSchemaNodes + Len(in.drafts)
<1>1. IsReading /\ in.doc \in Documents /\ DraftsHold /\ PlaceHolds /\ ~in.doc.keyTwice
  BY DEF ReadingInv
<1>2. Len(in.doc.paths) \in Nat
  BY <1>1, DocumentsAssumption
<1>3. in.nodes \in Nat /\ Len(in.drafts) \in Nat /\ in.nodes <= MaxSchemaNodes + Len(in.drafts)
  BY <1>1 DEF DraftsHold
<1> QED BY <1>1, <1>2, <1>3, MethodsAre DEF PlaceHolds

LEMMA EnterPathReads ==
  ASSUME ReadingInv, EnterPath
  PROVE  ReadingInv'
<1>1. in.pc = "path" /\ in.i <= Len(in.doc.paths) /\ Reading
  BY DEF EnterPath, Reading
<1>2. /\ IsReading /\ in.doc \in Documents /\ Len(in.doc.paths) \in Nat
      /\ in.i \in 1 .. Len(in.doc.paths) + 1 /\ in.m \in 1 .. 6
      /\ in.nodes \in Nat /\ Len(in.drafts) \in Nat /\ in.nodes <= MaxSchemaNodes + Len(in.drafts)
  BY <1>1, ReadingIs
<1>3. CASE in' = [in EXCEPT !.i = @ + 1]
  <2>1. /\ in'.pc = "path" /\ in'.i = in.i + 1 /\ in'.m = in.m /\ IsReading'
        /\ in'.doc = in.doc /\ in'.drafts = in.drafts /\ in'.total = in.total /\ in'.nodes = in.nodes
    BY <1>1, <1>2, <1>3 DEF IsReading
  <2>2. PlaceHolds'
    BY <1>1, <1>2, <2>1, MethodsAre DEF PlaceHolds
  <2>3. Reading'
    BY <2>1 DEF Reading
  <2> QED BY <1>1, <1>2, <2>1, <2>2, <2>3, ReadingMoves
<1>4. CASE Refuse
  BY <1>4, RefusedKeeps
<1>5. CASE /\ ~Exhausted(ParamsNodes(Path.params))
           /\ in' = [in EXCEPT !.pc = "op", !.m = 1, !.pathBytes = ParamsCost(Path.params),
                               !.nodes = @ + ParamsNodes(Path.params)]
  <2>1. /\ in'.pc = "op" /\ in'.i = in.i /\ in'.m = 1 /\ IsReading'
        /\ in'.pathBytes = ParamsCost(Path.params) /\ in'.nodes = in.nodes + ParamsNodes(Path.params)
        /\ in'.doc = in.doc /\ in'.drafts = in.drafts /\ in'.total = in.total
    BY <1>1, <1>2, <1>5 DEF IsReading
  <2>2. Path' = Path
    BY <2>1 DEF Path
  <2>3. PlaceHolds'
    BY <1>1, <1>2, <2>1, <2>2, MethodsAre DEF PlaceHolds
  <2>4. Reading'
    BY <2>1 DEF Reading
  <2>5. in'.nodes \in Nat /\ in'.nodes <= MaxSchemaNodes + Len(in.drafts)
    <3>1. IsParams(Path.params)
      <4>1. in.i \in DOMAIN in.doc.paths /\ IsPath(in.doc.paths[in.i])
        BY <1>1, <1>2, DocumentsAssumption
      <4> QED BY <4>1 DEF Path, IsPath
    <3>2. PICK n \in Nat : n = ParamsNodes(Path.params)
      BY <3>1, ParamsCostType
    <3>3. PICK had \in Nat : had = in.nodes
      BY <1>2
    <3>4. PICK d \in Nat : d = Len(in.drafts)
      BY <1>2
    <3>5. had <= MaxSchemaNodes + d /\ ~(n > 0 /\ had + n > MaxSchemaNodes)
      BY <1>2, <1>5, <3>2, <3>3, <3>4 DEF Exhausted
    <3>6. in'.nodes = had + n
      BY <2>1, <3>2, <3>3
    <3> QED BY <3>4, <3>5, <3>6, BudgetAssumption
  <2> QED BY <1>1, <2>1, <2>3, <2>4, <2>5, ReadingMoves
<1> QED BY <1>3, <1>4, <1>5 DEF EnterPath

(* The next method of a path, or the next path.                            *)
OnFrom(x) ==
  /\ DOMAIN x = DOMAIN in /\ x.doc = in.doc /\ x.drafts = in.drafts /\ x.total = in.total
  /\ x.pathBytes = in.pathBytes /\ x.nodes = in.nodes
  /\ \/ x.pc = "path" /\ x.i = in.i + 1 /\ x.m = in.m
     \/ x.pc = "op" /\ x.i = in.i /\ x.m = in.m + 1 /\ in.m # Len(Methods)

LEMMA NextFrom ==
  ASSUME IsReading, in.pc = "op", NEW x,
         x = IF in.m = Len(Methods) THEN [in EXCEPT !.pc = "path", !.i = @ + 1] ELSE [in EXCEPT !.m = @ + 1]
  PROVE  OnFrom(x)
BY DEF OnFrom, IsReading

(* From there the place holds.                                             *)
LEMMA OnPlace ==
  ASSUME ReadingInv, in.pc = "op", NEW x, OnFrom(x), DOMAIN in' = DOMAIN x,
         in'.pc = x.pc, in'.i = x.i, in'.m = x.m, in'.doc = x.doc, in'.pathBytes = x.pathBytes
  PROVE  IsReading' /\ Reading' /\ PlaceHolds' /\ in'.doc = in.doc
<1>1. Reading
  BY DEF Reading
<1>2. /\ IsReading /\ Len(in.doc.paths) \in Nat /\ in.i \in 1 .. Len(in.doc.paths) + 1 /\ in.m \in 1 .. 6
      /\ PlaceHolds
  BY <1>1, ReadingIs
<1>3. in.i <= Len(in.doc.paths) /\ in.pathBytes = ParamsCost(Path.params)
  BY <1>2 DEF PlaceHolds
<1>4. CASE x.pc = "path" /\ x.i = in.i + 1 /\ x.m = in.m
  <2>1. in'.pc = "path" /\ in'.i = in.i + 1 /\ in'.m = in.m /\ in'.doc = in.doc
    BY <1>4 DEF OnFrom
  <2>2. PlaceHolds'
    BY <1>2, <1>3, <2>1, MethodsAre DEF PlaceHolds
  <2> QED BY <1>2, <2>1, <2>2 DEF OnFrom, IsReading, Reading
<1>5. CASE x.pc = "op" /\ x.i = in.i /\ x.m = in.m + 1 /\ in.m # Len(Methods)
  <2>1. in'.pc = "op" /\ in'.i = in.i /\ in'.m = in.m + 1 /\ in'.doc = in.doc /\ in'.pathBytes = in.pathBytes
    BY <1>5 DEF OnFrom
  <2>2. Path' = Path
    BY <2>1 DEF Path
  <2>3. in'.m \in 1 .. 6
    BY <1>2, <1>5, <2>1, MethodsAre
  <2>4. PlaceHolds'
    BY <1>2, <1>3, <2>1, <2>2, <2>3, MethodsAre DEF PlaceHolds
  <2> QED BY <1>2, <2>1, <2>4 DEF OnFrom, IsReading, Reading
<1> QED BY <1>4, <1>5 DEF OnFrom

(* The operations go on with nothing drafted.                              *)
LEMMA OnMoves ==
  ASSUME ReadingInv, in.pc = "op", NEW x, OnFrom(x), DOMAIN in' = DOMAIN x,
         in'.pc = x.pc, in'.i = x.i, in'.m = x.m, in'.doc = x.doc, in'.pathBytes = x.pathBytes,
         in'.drafts = x.drafts, in'.total = x.total,
         in'.nodes \in Nat, in'.nodes <= MaxSchemaNodes + Len(in.drafts)
  PROVE  ReadingInv'
<1>1. IsReading' /\ Reading' /\ PlaceHolds' /\ in'.doc = in.doc
  BY OnPlace
<1>2. in'.drafts = in.drafts /\ in'.total = in.total /\ Reading
  BY DEF OnFrom, Reading
<1> QED BY <1>1, <1>2, ReadingMoves

(* One more draft, with what it charges.                                   *)
LEMMA DraftsGrow ==
  ASSUME ReadingInv, Reading, NEW d, DraftHolds(in.doc, d), in.total + d.bytes <= MaxSet,
         Len(in.drafts) < MaxOperations,
         in'.doc = in.doc, in'.drafts = Append(in.drafts, d), in'.total = in.total + d.bytes,
         in'.nodes \in Nat, in'.nodes <= MaxSchemaNodes + (Len(in.drafts) + 1)
  PROVE  DraftsHold'
<1>1. DraftsHold
  BY ReadingIs
<1>2. PICK S : S = Range(in.drafts) \union {d}
  OBVIOUS
<1>3. PICK ds \in Seq(S) : ds = in.drafts
  <2>1. in.drafts \in Seq(Range(in.drafts)) /\ Range(in.drafts) \subseteq S
    BY <1>1, <1>2 DEF DraftsHold
  <2>2. in.drafts \in Seq(S)
    BY <2>1
  <2> QED BY <2>2
<1>4. d \in S
  BY <1>2
<1>5. PICK n \in Nat : n = Len(ds)
  BY <1>3
<1>6. PICK es \in Seq(S) : es = Append(ds, d)
  <2>1. Append(ds, d) \in Seq(S)
    BY ONLY ds \in Seq(S), <1>4
  <2> QED BY ONLY <2>1
<1>7. Len(es) = n + 1 /\ DOMAIN es = 1 .. n + 1 /\ DOMAIN ds = 1 .. n
      /\ es[n + 1] = d /\ \A k \in 1 .. n : es[k] = ds[k]
  BY ONLY ds \in Seq(S), <1>4, <1>5, <1>6
<1>8. in'.drafts = es
  BY <1>3, <1>6
<1>9. es \in Seq(Range(es))
  <2>1. \A k \in 1 .. Len(es) : es[k] \in Range(es)
    BY <1>7 DEF Range
  <2> QED BY <1>6, <2>1
<1>10. \A k \in 1 .. n + 1 : DraftHolds(in.doc, es[k])
  <2> SUFFICES ASSUME NEW k \in 1 .. n + 1 PROVE DraftHolds(in.doc, es[k])
    OBVIOUS
  <2>1. CASE k = n + 1
    BY <1>7, <2>1
  <2>2. CASE k # n + 1
    <3>1. k \in 1 .. n
      BY <2>2
    <3> QED BY <1>1, <1>3, <1>7, <3>1 DEF DraftsHold
  <2> QED BY <2>1, <2>2
<1>11. \A k \in 1 .. n + 1 : es[k].bytes \in Nat
  BY <1>10 DEF DraftHolds
<1> DEFINE v == [k \in 1 .. n |-> ds[k].bytes]
<1> DEFINE w == [k \in 1 .. n + 1 |-> es[k].bytes]
<1>12. v \in Seq(Nat) /\ w \in Seq(Nat) /\ d.bytes \in Nat
  BY <1>7, <1>11
<1>13. w = Append(v, d.bytes)
  <2>1. Append(v, d.bytes) \in Seq(Nat) /\ Len(Append(v, d.bytes)) = n + 1
    BY <1>12
  <2>2. ASSUME NEW k \in 1 .. n + 1 PROVE w[k] = Append(v, d.bytes)[k]
    <3>1. CASE k = n + 1
      BY <1>7, <1>12, <3>1
    <3>2. CASE k # n + 1
      <4>1. k \in 1 .. n
        BY <3>2
      <4> QED BY <1>7, <1>12, <4>1
    <3> QED BY <3>1, <3>2
  <2> QED BY <1>12, <2>1, <2>2
<1>14. in.total = SumOf(v)
  BY <1>1, <1>3, <1>7 DEF DraftsHold
<1>15. SumOf(w) = SumOf(v) + d.bytes
  <2> HIDE DEF v, w
  <2> QED BY <1>12, <1>13, SumAppend
<1>16. in'.total = SumOf([k \in DOMAIN in'.drafts |-> in'.drafts[k].bytes])
  BY <1>7, <1>8, <1>14, <1>15
<1>17. in.total \in Nat /\ in'.total \in Nat /\ in'.total <= MaxSet
  BY <1>1, <1>12 DEF DraftsHold
<1>18. Len(in'.drafts) <= MaxOperations
  BY <1>3, <1>5, <1>7, <1>8, BudgetAssumption
<1>19. in'.nodes \in Nat /\ in'.nodes <= MaxSchemaNodes + Len(in'.drafts)
  BY <1>3, <1>5, <1>7, <1>8
<1> QED BY <1>7, <1>8, <1>9, <1>10, <1>16, <1>17, <1>18, <1>19 DEF DraftsHold

LEMMA EachMethodReads ==
  ASSUME ReadingInv, EachMethod
  PROVE  ReadingInv'
<1>1. in.pc = "op" /\ Reading
  BY DEF EachMethod, Reading
<1>2. /\ IsReading /\ in.m \in 1 .. 6 /\ in.doc \in Documents /\ ~in.doc.keyTwice /\ DraftsHold
      /\ in.nodes \in Nat /\ in.nodes <= MaxSchemaNodes + Len(in.drafts)
  BY <1>1, ReadingIs
<1>3. PICK m : m = Methods[in.m]
  OBVIOUS
<1>4. PICK x : x = IF in.m = Len(Methods) THEN [in EXCEPT !.pc = "path", !.i = @ + 1] ELSE [in EXCEPT !.m = @ + 1]
  OBVIOUS
<1>5. OnFrom(x)
  BY <1>1, <1>2, <1>4, NextFrom
<1>6. /\ DOMAIN x = {"pc", "doc", "opts", "auth", "i", "m", "pathBytes", "opBytes", "total", "nodes", "drafts", "skipped"}
      /\ x.nodes = in.nodes
  BY <1>2, <1>5 DEF IsReading, OnFrom
<1>7. PICK s : s = [x EXCEPT !.skipped = @ \union {<<m, Path.key>>}]
  OBVIOUS
<1>8. CASE in' = x
  BY <1>1, <1>2, <1>5, <1>6, <1>8, OnMoves
<1>9. CASE in' = s
  <2>1. /\ DOMAIN in' = DOMAIN x /\ in'.pc = x.pc /\ in'.i = x.i /\ in'.m = x.m /\ in'.doc = x.doc
        /\ in'.pathBytes = x.pathBytes /\ in'.drafts = x.drafts /\ in'.total = x.total /\ in'.nodes = x.nodes
    BY <1>6, <1>7, <1>9
  <2> QED BY <1>1, <1>2, <1>5, <1>6, <2>1, OnMoves
<1>10. CASE Refuse
  BY <1>10, RefusedKeeps
<1>11. ASSUME NEW b, NEW n \in Nat, n <= MaxSchemaNodes + Len(in.drafts), in' = [s EXCEPT !.opBytes = b, !.nodes = n]
       PROVE  ReadingInv'
  <2>1. /\ DOMAIN in' = DOMAIN x /\ in'.pc = x.pc /\ in'.i = x.i /\ in'.m = x.m /\ in'.doc = x.doc
        /\ in'.pathBytes = x.pathBytes /\ in'.drafts = x.drafts /\ in'.total = x.total /\ in'.nodes = n
    BY <1>6, <1>7, <1>11
  <2> QED BY <1>1, <1>5, <1>11, <2>1, OnMoves
<1>12. ASSUME NEW r, r = Operation(Path.ops[m], m), m \in DOMAIN Path.ops, r.is # "refuse", r.is # "skip",
              ~(Len(in.drafts) >= MaxOperations), NEW n \in NodesAfter(Path.ops[m], m),
              in' = [x EXCEPT !.drafts = Append(@, r.draft), !.opBytes = r.bytes, !.total = @ + r.bytes, !.nodes = n]
       PROVE  ReadingInv'
  <2>1. /\ DOMAIN in' = DOMAIN x /\ in'.pc = x.pc /\ in'.i = x.i /\ in'.m = x.m /\ in'.doc = x.doc
        /\ in'.pathBytes = x.pathBytes
        /\ in'.drafts = Append(x.drafts, r.draft) /\ in'.total = x.total + r.bytes /\ in'.nodes = n
    BY <1>6, <1>12
  <2>2. IsReading' /\ Reading' /\ PlaceHolds' /\ in'.doc = in.doc
    BY <1>1, <1>5, <2>1, OnPlace
  <2>3. in'.drafts = Append(in.drafts, r.draft) /\ in'.total = in.total + r.bytes
    BY <1>5, <2>1 DEF OnFrom
  <2>4. /\ r.draft.bytes = r.bytes /\ in.total + r.bytes <= MaxSet /\ DraftHolds(in.doc, r.draft)
        /\ n \in Nat /\ n <= MaxSchemaNodes + (Len(in.drafts) + 1)
    BY <1>1, <1>12, DraftMade
  <2>5. PICK d : d = r.draft
    OBVIOUS
  <2>6. Len(in.drafts) < MaxOperations
    <3>1. Len(in.drafts) \in Nat
      BY <1>2 DEF DraftsHold
    <3> QED BY <1>12, <3>1, BudgetAssumption
  <2>7. DraftsHold'
    BY <1>1, <2>1, <2>2, <2>3, <2>4, <2>5, <2>6, DraftsGrow
  <2> QED BY <1>2, <2>2, <2>7 DEF ReadingInv, Reading
<1>13. PICK r : r = Operation(Path.ops[m], m)
  OBVIOUS
<1>14. \/ in' = x \/ in' = s \/ Refuse
       \/ /\ m \in DOMAIN Path.ops /\ r.is = "skip"
          /\ in' = [s EXCEPT !.opBytes = r.bytes, !.nodes = r.nodes]
       \/ /\ m \in DOMAIN Path.ops /\ r.is # "refuse" /\ r.is # "skip"
          /\ ~(Len(in.drafts) >= MaxOperations)
          /\ \E n \in NodesAfter(Path.ops[m], m) :
               in' = [x EXCEPT !.drafts = Append(@, r.draft), !.opBytes = r.bytes, !.total = @ + r.bytes, !.nodes = n]
  <2>1. PICK P1 : P1 = \E n \in NodesAfter(Path.ops[m], m) :
               in' = [x EXCEPT !.drafts = Append(@, r.draft), !.opBytes = r.bytes, !.total = @ + r.bytes, !.nodes = n]
    OBVIOUS
  <2>2. IF m \notin DOMAIN Path.ops THEN in' = x
        ELSE IF ~ValidMethod(m) \/ Unserved(Path.params) THEN in' = s
        ELSE IF Len(in.drafts) >= MaxOperations THEN Refuse
        ELSE CASE r.is = "refuse" -> Refuse
               [] r.is = "skip"   -> in' = [s EXCEPT !.opBytes = r.bytes, !.nodes = r.nodes]
               [] OTHER -> P1 \/ (MayOverrun(Path.ops[m], m) /\ Refuse)
    BY <1>3, <1>4, <1>7, <1>13, <2>1 DEF EachMethod
  <2> QED BY ONLY <2>1, <2>2
<1>15. CASE m \in DOMAIN Path.ops /\ r.is = "skip" /\ in' = [s EXCEPT !.opBytes = r.bytes, !.nodes = r.nodes]
  BY <1>1, <1>11, <1>13, <1>15, SkipMade
<1> QED BY <1>8, <1>9, <1>10, <1>12, <1>13, <1>14, <1>15

-----------------------------------------------------------------------------
(* The entry that is frozen, and the calls' bounds.                        *)

(* The end of a document.                                                  *)
LEMMA FreezeReads ==
  ASSUME ReadingInv, EntryInv, Freeze
  PROVE  ReadingInv' /\ EntryInv'
<1>1. in.pc = "path" /\ Reading /\ entry = NoEntry
  BY DEF Freeze, Reading, EntryInv
<1>2. /\ IsReading /\ PlaceHolds
      /\ in.nodes \in Nat /\ in.nodes <= MaxSchemaNodes + Len(in.drafts)
  BY <1>1, ReadingIs
<1>3. CASE Refuse /\ UNCHANGED entry
  BY <1>1, <1>3, RefusedKeeps DEF EntryInv
<1>4. ASSUME NamesDiffer(in.drafts), entry' = Frozen(Named(in.drafts)), in' = [in EXCEPT !.pc = "done"]
      PROVE  ReadingInv' /\ EntryInv'
  <2>1. /\ in'.pc = "done" /\ IsReading' /\ in'.i = in.i /\ in'.m = in.m
        /\ in'.doc = in.doc /\ in'.drafts = in.drafts /\ in'.total = in.total /\ in'.nodes = in.nodes
    BY <1>2, <1>4 DEF IsReading
  <2>2. PlaceHolds' /\ Reading'
    BY <1>2, <2>1 DEF PlaceHolds, Reading
  <2>3. ReadingInv'
    BY <1>1, <1>2, <2>1, <2>2, ReadingMoves
  <2>4. entry'.ops = Named(in.drafts)
    BY <1>4 DEF Frozen
  <2>5. EntryInv'
    BY <1>4, <2>1, <2>4 DEF EntryInv
  <2> QED BY <2>3, <2>5
<1> QED BY <1>3, <1>4 DEF Freeze

(* A step that leaves the ingestion or comes before an entry.              *)
LEMMA EntrySame ==
  ASSUME EntryInv, UNCHANGED entry, in' = in \/ entry = NoEntry
  PROVE  EntryInv'
BY DEF EntryInv

LEMMA WaitingTypes ==
  Waiting.pc = "idle" /\ Waiting.hops = 0 /\ Waiting.cred = 0
BY DEF Waiting

(* A call that goes on stays within its bounds.                            *)
CallTyped(r) ==
  /\ r.pc \in {"idle", "resolve", "lookup", "dial", "answer", "read"}
  /\ r.hops \in Nat /\ r.hops < MaxRedirects /\ r.cred \in 0 .. MaxRotate

LEMMA TypesMove ==
  ASSUME CallsInv, CallTypes, NEW c \in Calls, NEW r, Becomes(c, r), CallTyped(r), UNCHANGED <<credential, up>>
  PROVE  CallTypes'
<1>1. DOMAIN calls = Calls
  BY DEF CallsInv
<1>2. calls'[c] = r /\ \A k \in Calls : k # c => calls'[k] = calls[k]
  BY <1>1 DEF Becomes
<1>3. \A k \in Calls : CallTyped(calls'[k])
  <2> SUFFICES ASSUME NEW k \in Calls PROVE CallTyped(calls'[k])
    OBVIOUS
  <2>1. CASE k = c
    BY <1>2, <2>1
  <2>2. CASE k # c
    BY <1>2, <2>2 DEF CallTypes, CallTyped
  <2> QED BY <2>1, <2>2
<1> QED BY <1>3 DEF CallTypes, CallTyped

LEMMA TypesEnd ==
  ASSUME CallsInv, CallTypes, NEW c \in Calls, Becomes(c, Waiting), UNCHANGED <<credential, up>>
  PROVE  CallTypes'
<1>1. CallTyped(Waiting)
  BY WaitingTypes, BudgetAssumption DEF CallTyped
<1> QED BY <1>1, TypesMove

LEMMA CallsTyped ==
  ASSUME CallsInv, CallTypes, NEW c \in Calls,
         \/ \E d \in entry.ops : \E args \in SUBSET Props(d) : Call(c, d, args)
         \/ Resolve(c) \/ Connect(c)
         \/ \E found \in (SUBSET Addresses) \ {{}} : Lookup(c, found)
         \/ \E a \in Answers : Redirect(c, a) \/ Answer(c, a)
  PROVE  CallTypes' /\ UNCHANGED <<in, entry>>
<1>1. IsCall(calls[c]) /\ CallTyped(calls[c]) /\ credential \in 0 .. MaxRotate
  BY CallIs DEF CallTypes, CallTyped
<1>2. ASSUME NEW d, NEW args, Call(c, d, args) PROVE CallTypes' /\ UNCHANGED <<in, entry>>
  <2> DEFINE r == [calls[c] EXCEPT !.pc = "resolve", !.op = d.name, !.args = args]
  <2>1. CallTyped(r)
    BY <1>1 DEF CallTyped, IsCall
  <2>2. Becomes(c, r) /\ UNCHANGED <<credential, up, in, entry>>
    BY <1>2 DEF Call
  <2> HIDE DEF r
  <2> QED BY <2>1, <2>2, TypesMove
<1>3. CASE Resolve(c)
  <2>1. UNCHANGED <<credential, up, in, entry>>
    BY <1>3 DEF Resolve
  <2>2. CASE Becomes(c, Waiting)
    BY <2>1, <2>2, TypesEnd
  <2>3. ASSUME NEW v \in 0 .. MaxRotate, Becomes(c, [calls[c] EXCEPT !.pc = "lookup", !.cred = v]) PROVE CallTypes'
    <3> DEFINE r == [calls[c] EXCEPT !.pc = "lookup", !.cred = v]
    <3>1. CallTyped(r)
      BY <1>1 DEF CallTyped, IsCall
    <3>2. Becomes(c, r)
      BY <2>3
    <3> HIDE DEF r
    <3> QED BY <2>1, <3>1, <3>2, TypesMove
  <2>4. (IF entry.auth.kind = "" THEN 0 ELSE credential) \in 0 .. MaxRotate
    <3>1. 0 \in 0 .. MaxRotate
      BY BudgetAssumption
    <3> QED BY <1>1, <3>1
  <2> QED BY <1>3, <2>1, <2>2, <2>3, <2>4 DEF Resolve
<1>4. CASE Connect(c)
  <2>1. UNCHANGED <<credential, up, in, entry>>
    BY <1>4 DEF Connect
  <2>2. CASE Becomes(c, Waiting)
    BY <2>1, <2>2, TypesEnd
  <2>3. CASE Becomes(c, [calls[c] EXCEPT !.pc = "answer", !.addrs = {}])
    <3> DEFINE r == [calls[c] EXCEPT !.pc = "answer", !.addrs = {}]
    <3>1. CallTyped(r)
      BY <1>1 DEF CallTyped, IsCall
    <3>2. Becomes(c, r)
      BY <2>3
    <3> HIDE DEF r
    <3> QED BY <2>1, <3>1, <3>2, TypesMove
  <2> QED BY <1>4, <2>1, <2>2, <2>3 DEF Connect
<1>5. ASSUME NEW found, Lookup(c, found) PROVE CallTypes' /\ UNCHANGED <<in, entry>>
  <2> DEFINE r == [calls[c] EXCEPT !.pc = "dial", !.addrs = found]
  <2>1. CallTyped(r)
    BY <1>1 DEF CallTyped, IsCall
  <2>2. Becomes(c, r) /\ UNCHANGED <<credential, up, in, entry>>
    BY <1>5 DEF Lookup
  <2> HIDE DEF r
  <2> QED BY <2>1, <2>2, TypesMove
<1>6. ASSUME NEW a, Redirect(c, a) PROVE CallTypes' /\ UNCHANGED <<in, entry>>
  <2>1. UNCHANGED <<credential, up, in, entry>>
    BY <1>6 DEF Redirect
  <2>2. CASE Becomes(c, Waiting)
    BY <2>1, <2>2, TypesEnd
  <2>3. CASE Becomes(c, [calls[c] EXCEPT !.pc = "read"])
    <3> DEFINE r == [calls[c] EXCEPT !.pc = "read"]
    <3>1. CallTyped(r)
      BY <1>1 DEF CallTyped, IsCall
    <3>2. Becomes(c, r)
      BY <2>3
    <3> HIDE DEF r
    <3> QED BY <2>1, <3>1, <3>2, TypesMove
  <2>4. CASE /\ ~(calls[c].hops + 1 >= MaxRedirects)
             /\ Becomes(c, [calls[c] EXCEPT !.pc = "lookup", !.at = a.redirect, !.hops = @ + 1])
    <3> DEFINE r == [calls[c] EXCEPT !.pc = "lookup", !.at = a.redirect, !.hops = @ + 1]
    <3>1. r.pc = "lookup" /\ r.hops = calls[c].hops + 1 /\ r.cred = calls[c].cred
      BY <1>1 DEF IsCall
    <3>2. CallTyped(r)
      BY <1>1, <2>4, <3>1, BudgetAssumption DEF CallTyped
    <3>3. Becomes(c, r)
      BY <2>4
    <3> HIDE DEF r
    <3> QED BY <2>1, <3>2, <3>3, TypesMove
  <2> QED BY <1>6, <2>1, <2>2, <2>3, <2>4 DEF Redirect
<1>7. ASSUME NEW a, Answer(c, a) PROVE CallTypes' /\ UNCHANGED <<in, entry>>
  BY <1>7, TypesEnd DEF Answer
<1> QED BY <1>2, <1>3, <1>4, <1>5, <1>6, <1>7

LEMMA TranslationStep ==
  ASSUME CallsInv, TranslationInv, RestNext
  PROVE  TranslationInv'
<1>1. ReadingInv /\ EntryInv /\ CallTypes
  BY DEF TranslationInv
<1>2. ASSUME UNCHANGED <<credential, up, calls>> PROVE CallTypes'
  BY <1>1, <1>2 DEF CallTypes
<1>3. ASSUME NEW d \in Documents, NEW o \in IngestOptions, Begin(d, o) PROVE TranslationInv'
  <2>1. UNCHANGED <<entry, credential, up, calls>> /\ entry = NoEntry
    BY <1>3 DEF Begin
  <2> QED BY <1>1, <1>2, <1>3, <2>1, BeginReads, EntrySame DEF TranslationInv
<1>4. CASE EnterPath
  <2>1. UNCHANGED <<entry, credential, up, calls>> /\ entry = NoEntry
    BY <1>4 DEF EnterPath, CallsInv, NothingYet
  <2> QED BY <1>1, <1>2, <1>4, <2>1, EnterPathReads, EntrySame DEF TranslationInv
<1>5. CASE EachMethod
  <2>1. UNCHANGED <<entry, credential, up, calls>> /\ entry = NoEntry
    BY <1>5 DEF EachMethod, CallsInv, NothingYet
  <2> QED BY <1>1, <1>2, <1>5, <2>1, EachMethodReads, EntrySame DEF TranslationInv
<1>6. CASE Freeze
  <2>1. UNCHANGED <<credential, up, calls>>
    BY <1>6 DEF Freeze
  <2> QED BY <1>1, <1>2, <1>6, <2>1, FreezeReads DEF TranslationInv
<1>7. CASE Dial
  <2>1. UNCHANGED <<in, entry, credential, calls>> /\ up' \in BOOLEAN
    BY <1>7 DEF Dial
  <2>2. CallTypes'
    BY <1>1, <2>1 DEF CallTypes
  <2> QED BY <1>1, <2>1, <2>2, ReadingSame, EntrySame DEF TranslationInv
<1>8. ASSUME NEW v \in 0 .. MaxRotate, Rotated(v) PROVE TranslationInv'
  <2>1. UNCHANGED <<in, entry, up, calls>> /\ credential' = v
    BY <1>8 DEF Rotated
  <2>2. CallTypes'
    BY <1>1, <2>1 DEF CallTypes
  <2> QED BY <1>1, <2>1, <2>2, ReadingSame, EntrySame DEF TranslationInv
<1>9. ASSUME NEW c \in Calls,
             \/ \E d \in entry.ops : \E args \in SUBSET Props(d) : Call(c, d, args)
             \/ Resolve(c) \/ Connect(c)
             \/ \E found \in (SUBSET Addresses) \ {{}} : Lookup(c, found)
             \/ \E a \in Answers : Redirect(c, a) \/ Answer(c, a)
      PROVE  TranslationInv'
  <2>1. CallTypes' /\ UNCHANGED <<in, entry>>
    BY <1>1, <1>9, CallsTyped
  <2> QED BY <1>1, <2>1, ReadingSame, EntrySame DEF TranslationInv
<1> QED BY <1>3, <1>4, <1>5, <1>6, <1>7, <1>8, <1>9 DEF RestNext

LEMMA TranslationInit == RestInit => TranslationInv
<1> SUFFICES ASSUME RestInit PROVE TranslationInv
  OBVIOUS
<1>1. in.pc = "none" /\ entry = NoEntry /\ up = FALSE /\ credential = 1 /\ \A c \in Calls : calls[c] = Waiting
  BY DEF RestInit
<1>2. ReadingInv /\ EntryInv
  BY <1>1 DEF ReadingInv, Reading, EntryInv
<1>3. 0 \in 0 .. MaxRotate /\ 1 \in 0 .. MaxRotate /\ 0 < MaxRedirects
  BY BudgetAssumption
<1>4. CallTypes
  <2>1. credential \in 0 .. MaxRotate /\ up \in BOOLEAN
    BY <1>1, <1>3
  <2>2. ASSUME NEW c \in Calls PROVE CallTyped(calls[c])
    BY <1>1, <1>3, WaitingTypes DEF CallTyped
  <2> QED BY <2>1, <2>2 DEF CallTypes, CallTyped
<1> QED BY <1>2, <1>4 DEF TranslationInv

(* Where the reading of a document is, what it has drafted and charged,    *)
(* and what was registered from it (Ingest, operations, charge), at every  *)
(* instant.                                                                *)
THEOREM TranslationInvAlways == RestSpec => []TranslationInv
<1>1. CallsInv /\ TranslationInv /\ [RestNext]_restVars => TranslationInv'
  <2> SUFFICES ASSUME CallsInv, TranslationInv, UNCHANGED restVars PROVE TranslationInv'
    BY TranslationStep
  <2>1. UNCHANGED <<in, entry, up, credential, calls>>
    BY DEF restVars
  <2>2. CallTypes'
    BY <2>1 DEF TranslationInv, CallTypes
  <2> QED BY <2>1, <2>2, ReadingSame, EntrySame DEF TranslationInv
<1> QED BY <1>1, TranslationInit, CallsInvAlways, PTL DEF RestSpec

(* A name that two drafts ask for is neither's.                            *)
LEMMA NamesAreNobodys ==
  ASSUME ReadingInv, EntryInv, entry # NoEntry,
         NEW j \in DOMAIN in.drafts, NEW k \in DOMAIN in.drafts, j # k,
         sanitizeName(in.drafts[j].id) # <<>>, sanitizeName(in.drafts[j].id) = sanitizeName(in.drafts[k].id),
         NEW d \in entry.ops, d.method = in.drafts[j].method, d.path = in.drafts[j].path
  PROVE  d.name # sanitizeName(in.drafts[j].id)
<1>1. Reading /\ entry.ops = Named(in.drafts)
  BY DEF EntryInv, Reading
<1>2. PICK l \in DOMAIN in.drafts : /\ d.method = in.drafts[l].method /\ d.path = in.drafts[l].path
                                   /\ d.name = Name(in.drafts, l)
  BY <1>1 DEF Named
<1>3. in.doc \in Documents /\ ~in.doc.keyTwice /\ DraftsHold
  BY <1>1, ReadingIs
<1>4. /\ in.drafts[l].id = in.drafts[j].id
      /\ LET name == sanitizeName(in.drafts[l].id) IN name \in Seq(Range(name)) /\ "#" \notin Range(name)
  <2>1. FromDocument(in.doc, in.drafts[l]) /\ FromDocument(in.doc, in.drafts[j])
    BY <1>3 DEF DraftsHold, DraftHolds
  <2>2. PICK x \in DOMAIN in.doc.paths :
          /\ in.drafts[l].path = in.doc.paths[x].key /\ in.drafts[l].method \in DOMAIN in.doc.paths[x].ops
          /\ in.drafts[l].id = in.doc.paths[x].ops[in.drafts[l].method].id
    BY <2>1 DEF FromDocument
  <2>3. PICK y \in DOMAIN in.doc.paths :
          /\ in.drafts[j].path = in.doc.paths[y].key
          /\ in.drafts[j].id = in.doc.paths[y].ops[in.drafts[j].method].id
    BY <2>1 DEF FromDocument
  <2>4. x = y
    <3>1. \A i, i2 \in DOMAIN in.doc.paths : in.doc.paths[i].key = in.doc.paths[i2].key => i = i2
      BY <1>3, DocumentsAssumption
    <3>2. in.doc.paths[x].key = in.doc.paths[y].key
      BY <1>2, <2>2, <2>3
    <3> QED BY <3>1, <3>2
  <2>5. IsOperation(in.doc.paths[x].ops[in.drafts[l].method])
    BY <1>3, <2>2, DocumentsAssumption DEF IsPath
  <2> QED BY <1>2, <2>2, <2>3, <2>4, <2>5 DEF IsOperation
<1>5. PICK id : id = sanitizeName(in.drafts[l].id) /\ id \in Seq(Range(id)) /\ "#" \notin Range(id)
  BY <1>4
<1>6. PICK o \in DOMAIN in.drafts : o # l /\ sanitizeName(in.drafts[o].id) = id
  BY <1>4, <1>5
<1>7. BaseName(in.drafts[l]) = id /\ BaseName(in.drafts[o]) = id
  BY <1>4, <1>5, <1>6 DEF BaseName
<1>8. d.name = Hashed(in.drafts[l])
  BY <1>2, <1>6, <1>7 DEF Name
<1>9. PICK S : S = Range(id) \union {"#", in.drafts[l].method, in.drafts[l].path}
  OBVIOUS
<1>10. PICK tail \in Seq(S) : tail = <<"#", in.drafts[l].method, in.drafts[l].path>> /\ Len(tail) = 3 /\ tail[1] = "#"
  <2>1. PICK a \in S : a = "#"
    BY <1>9
  <2>2. PICK b \in S : b = in.drafts[l].method
    BY <1>9
  <2>3. PICK e \in S : e = in.drafts[l].path
    BY <1>9
  <2>4. <<a, b, e>> \in Seq(S) /\ Len(<<a, b, e>>) = 3 /\ <<a, b, e>>[1] = a
    OBVIOUS
  <2> QED BY <2>1, <2>2, <2>3, <2>4
<1>11. PICK cut \in Seq(S) : cut = Cut(id, MaxToolNameLen - 3)
  <2>1. id \in Seq(S) /\ Len(id) \in Nat
    BY <1>5, <1>9
  <2>2. PICK room \in Nat : room = MaxToolNameLen - 3
    BY BudgetAssumption
  <2>3. Len(id) > room => SubSeq(id, 1, room) \in Seq(S)
    BY ONLY <2>1, room \in Nat
  <2> QED BY <2>1, <2>2, <2>3 DEF Cut
<1>12. d.name = cut \o tail
  BY <1>7, <1>8, <1>10, <1>11 DEF Hashed
<1>13. PICK n \in Nat : n = Len(cut)
  BY <1>11
<1>14. n + 1 \in DOMAIN (cut \o tail) /\ (cut \o tail)[n + 1] = "#"
  BY <1>10, <1>11, <1>13
<1>15. "#" \in Range(d.name)
  BY <1>12, <1>14 DEF Range
<1> QED BY <1>4, <1>5, <1>15

(* What is read of a document stays within the budgets of an operation and *)
(* of the document, the schemas visited included; an operation pays for    *)
(* nothing of another's; no name hangs on the order of the document; and   *)
(* what is frozen can be dialled (Ingest, translateSchema, operations,     *)
(* charge, assignNames), for every document, in every order.               *)
THEOREM TranslationIsAlwaysFair == RestSpec => []TranslationIsFair
<1>1. CallsInv /\ TranslationInv => TranslationIsFair
  <2> SUFFICES ASSUME CallsInv, TranslationInv PROVE TranslationIsFair
    OBVIOUS
  <2>1. ReadingInv /\ EntryInv /\ CallTypes
    BY DEF TranslationInv
  <2>2. Reading => DraftsHold
    BY <2>1 DEF ReadingInv
  <2>3. RestTypeOK
    BY <2>1, <2>2 DEF RestTypeOK, CallTypes, ReadingInv, Reading, DraftsHold, DraftHolds
  <2>4. BudgetExact
    BY <2>2 DEF BudgetExact, Reading, DraftsHold, DraftHolds
  <2>5. NamesNobodyWins
    <3>1. ASSUME NEW d \in entry.ops, NEW e \in entry.ops, d.name = e.name PROVE d = e
      <4>1. entry # NoEntry
        <5>1. NoEntry.ops = {}
          BY DEF NoEntry
        <5> QED BY <5>1
      <4>2. entry.ops = Named(in.drafts) /\ NamesDiffer(in.drafts)
        BY <2>1, <4>1 DEF EntryInv
      <4>3. PICK k \in DOMAIN in.drafts :
              d = [method |-> in.drafts[k].method, path |-> in.drafts[k].path, templates |-> in.drafts[k].templates,
                   params |-> in.drafts[k].params, body |-> in.drafts[k].body, name |-> Name(in.drafts, k)]
        BY <4>2 DEF Named
      <4>4. PICK l \in DOMAIN in.drafts :
              e = [method |-> in.drafts[l].method, path |-> in.drafts[l].path, templates |-> in.drafts[l].templates,
                   params |-> in.drafts[l].params, body |-> in.drafts[l].body, name |-> Name(in.drafts, l)]
        BY <4>2 DEF Named
      <4>5. Name(in.drafts, k) = Name(in.drafts, l)
        BY <3>1, <4>3, <4>4
      <4>6. k = l
        BY <4>2, <4>5 DEF NamesDiffer
      <4> QED BY <4>3, <4>4, <4>6
    <3> QED BY <2>1, <3>1, NamesAreNobodys DEF NamesNobodyWins
  <2> QED BY <2>3, <2>4, <2>5 DEF TranslationIsFair, CallsInv
<1> QED BY <1>1, CallsInvAlways, TranslationInvAlways, PTL
=============================================================================
