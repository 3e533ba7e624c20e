--------------------------- MODULE ControlProofs ---------------------------
(***************************************************************************)
(* Control's invariants, for any requesters, edits, starts and signals.    *)
(*                                                                         *)
(* A requester's step changes what is asked and at most its own row; a     *)
(* step of serve changes its locals and at most one of the rest.  What a   *)
(* step leaves alone is carried over by one lemma for each of the two.     *)
(***************************************************************************)
EXTENDS Control, FiniteSetTheorems, SequenceTheorems, WellFoundedInduction, TLAPS

-----------------------------------------------------------------------------
(* Pending enumerates the pending rows.                                    *)

(* A set of naturals has a least element: induction by least               *)
(* counterexample.                                                         *)
LEMMA LeastNat ==
  ASSUME NEW T \in SUBSET Nat, T # {}
  PROVE  \E n \in T : \A m \in T : n <= m
<1>1. \E x \in T : \A y \in T : ~ (<<y, x>> \in OpToRel(<, Nat))
  BY WFMin, NatLessThanWellFounded
<1>2. ASSUME NEW x \in T, NEW y \in T, ~ (<<y, x>> \in OpToRel(<, Nat))
      PROVE  x <= y
  BY <1>2 DEF OpToRel
<1> QED BY <1>1, <1>2

EnumeratedWithin(n) ==
  \A S \in SUBSET (1 .. n) : \E m \in Nat : \E s \in [1 .. m -> S] : Enumerates(s, S)

LEMMA EnumerationGrows ==
  ASSUME NEW n \in Nat, EnumeratedWithin(n)
  PROVE  EnumeratedWithin(n + 1)
<1> SUFFICES ASSUME NEW S \in SUBSET (1 .. n + 1)
             PROVE  \E m \in Nat : \E s \in [1 .. m -> S] : Enumerates(s, S)
  BY DEF EnumeratedWithin
<1>0. PICK m \in Nat : \E s \in [1 .. m -> S \ {n + 1}] : Enumerates(s, S \ {n + 1})
  <2>1. S \ {n + 1} \in SUBSET (1 .. n)
    OBVIOUS
  <2> QED BY <2>1 DEF EnumeratedWithin
<1>1. PICK s \in [1 .. m -> S \ {n + 1}] : Enumerates(s, S \ {n + 1})
  BY <1>0
<1>2. CASE n + 1 \notin S
  <2>1. S \ {n + 1} = S
    BY <1>2
  <2> QED BY <1>1, <2>1
<1>3. CASE n + 1 \in S
  <2> DEFINE t == [k \in 1 .. m + 1 |-> IF k = m + 1 THEN n + 1 ELSE s[k]]
  <2>1. t \in [1 .. m + 1 -> S]
    BY <1>3
  <2>2. \A i \in S : \E k \in DOMAIN t : t[k] = i
    <3> SUFFICES ASSUME NEW i \in S PROVE \E k \in 1 .. m + 1 : t[k] = i
      OBVIOUS
    <3>1. CASE i = n + 1
      BY <3>1
    <3>2. CASE i # n + 1
      <4>1. PICK k \in 1 .. m : s[k] = i
        BY <1>1, <3>2 DEF Enumerates
      <4> QED BY <4>1
    <3> QED BY <3>1, <3>2
  <2>3. \A j, k \in DOMAIN t : j < k => t[j] < t[k]
    <3>1. \A j, k \in 1 .. m : j < k => s[j] < s[k]
      BY <1>1 DEF Enumerates
    <3>2. \A j \in 1 .. m : s[j] \in 1 .. n
      <4> TAKE j \in 1 .. m
      <4>1. s[j] \in S /\ s[j] # n + 1
        OBVIOUS
      <4>2. s[j] \in 1 .. n + 1
        BY <4>1
      <4>3. \A x \in 1 .. n + 1 : x # n + 1 => x \in 1 .. n
        OBVIOUS
      <4> QED BY <4>1, <4>2, <4>3
    <3> QED BY <3>1, <3>2
  <2>4. Enumerates(t, S)
    BY <2>2, <2>3 DEF Enumerates
  <2> QED BY <2>1, <2>4
<1> QED BY <1>2, <1>3

LEMMA AllAreEnumerated == \A n \in Nat : EnumeratedWithin(n)
<1> DEFINE T == {n \in Nat : ~EnumeratedWithin(n)}
<1>1. EnumeratedWithin(0)
  <2> SUFFICES ASSUME NEW S \in SUBSET (1 .. 0)
               PROVE  \E m \in Nat : \E s \in [1 .. m -> S] : Enumerates(s, S)
    BY DEF EnumeratedWithin
  <2>1. S = {} /\ 1 .. 0 = {}
    OBVIOUS
  <2>2. [k \in 1 .. 0 |-> k] \in [1 .. 0 -> S] /\ Enumerates([k \in 1 .. 0 |-> k], S)
    BY <2>1 DEF Enumerates
  <2> QED BY <2>2
<1>2. ASSUME T # {} PROVE FALSE
  <2>1. PICK n \in T : \A m \in T : n <= m
    <3>1. T \in SUBSET Nat
      OBVIOUS
    <3> HIDE DEF T
    <3> QED BY <1>2, <3>1, LeastNat
  <2>2. n # 0 /\ n \in Nat /\ ~EnumeratedWithin(n)
    BY <1>1
  <2>3. EnumeratedWithin(n - 1)
    BY <2>1, <2>2
  <2>4. n - 1 \in Nat /\ (n - 1) + 1 = n
    BY <2>2
  <2> QED BY <2>2, <2>3, <2>4, EnumerationGrows
<1> QED BY <1>2

Waiting == {i \in 1 .. Len(rows) : IsPending(i)}

LEMMA PendingIsInOrder ==
  ASSUME Len(rows) \in Nat
  PROVE  /\ Pending \in Seq(Waiting)
         /\ \A i \in Waiting : \E k \in 1 .. Len(Pending) : Pending[k] = i
         /\ \A j, k \in 1 .. Len(Pending) : j # k => Pending[j] # Pending[k]
<1>0. PICK m \in Nat : \E s \in [1 .. m -> Waiting] : Enumerates(s, Waiting)
  BY AllAreEnumerated DEF EnumeratedWithin, Waiting
<1>1. PICK s \in [1 .. m -> Waiting] : Enumerates(s, Waiting)
  BY <1>0
<1>2. Cardinality(Waiting) = m
  <2>1. s \in Bijection(1 .. m, Waiting)
    <3>1. \A j, k \in 1 .. m : s[j] = s[k] => j = k
      <4>1. \A j \in 1 .. m : s[j] \in Nat
        BY DEF Waiting
      <4> QED BY <1>1, <4>1 DEF Enumerates
    <3> QED BY <1>1, <3>1 DEF Enumerates, Bijection, Injection, Surjection, IsInjective
  <2> QED BY <2>1, FS_CountingElements DEF ExistsBijection
<1>3. /\ Pending \in [1 .. m -> Waiting]
      /\ Enumerates(Pending, Waiting)
  <2> DEFINE P(t) == Enumerates(t, Waiting)
  <2>1. \E t \in [1 .. m -> Waiting] : P(t)
    BY <1>1
  <2>2. Pending = CHOOSE t \in [1 .. m -> Waiting] : P(t)
    BY <1>2 DEF Pending, Waiting
  <2> HIDE DEF P
  <2>3. Pending \in [1 .. m -> Waiting] /\ P(Pending)
    BY <2>1, <2>2
  <2> QED BY <2>3 DEF P
<1>4. Pending \in Seq(Waiting) /\ Len(Pending) = m
  BY <1>3, SeqDef, LenProperties
<1>5. \A j, k \in 1 .. m : j < k => Pending[j] < Pending[k]
  BY <1>3 DEF Enumerates
<1>6. \A j \in 1 .. m : Pending[j] \in Nat
  BY <1>3 DEF Waiting
<1>7. \A j, k \in 1 .. m : j # k => Pending[j] # Pending[k]
  BY <1>5, <1>6
<1>8. \A i \in Waiting : \E k \in 1 .. m : Pending[k] = i
  BY <1>3 DEF Enumerates
<1> QED
  BY <1>4, <1>7, <1>8

-----------------------------------------------------------------------------
LEMMA CountsAreNat ==
  /\ Cardinality(Requesters) \in Nat /\ None \notin Ids
  /\ \A S \in SUBSET Requesters : IsFiniteSet(S) /\ Cardinality(S) \in Nat
                                   /\ Cardinality(S) <= Cardinality(Requesters)
BY RequestersAssumption, NoneAssumption, FS_CardinalityType, FS_Subset DEF Ids

LEMMA RowsAreTyped ==
  ASSUME TypeOK
  PROVE  /\ Len(rows) \in Nat /\ 1 .. Len(rows) \subseteq Ids
         /\ \A i \in 1 .. Len(rows) : rows[i] \in Row
         /\ \A k \in 1 .. Len(serve.todo) : serve.todo[k] \in Jobs
         /\ \A k \in 1 .. Len(serve.redials) : serve.redials[k] \in Ids
         /\ \A i \in Ids : effects[i] \in Seq(0 .. MaxEdits)
<1>1. /\ rows \in Seq(Row) /\ Len(rows) <= Cardinality(Requesters)
      /\ serve.todo \in Seq(Jobs) /\ serve.redials \in Seq(Ids)
      /\ effects \in [Ids -> Seq(0 .. MaxEdits)]
  BY DEF TypeOK, ServeState
<1>2. Len(rows) \in Nat /\ 1 .. Len(rows) \subseteq Ids
  BY <1>1, CountsAreNat DEF Ids
<1>3. \A i \in 1 .. Len(rows) : rows[i] \in Row
  BY <1>1
<1>4. \A k \in 1 .. Len(serve.todo) : serve.todo[k] \in Jobs
  BY <1>1
<1>5. \A k \in 1 .. Len(serve.redials) : serve.redials[k] \in Ids
  BY <1>1
<1> QED BY <1>1, <1>2, <1>3, <1>4, <1>5

LEMMA InitInv == Init => Inv
<1> SUFFICES ASSUME Init PROVE Inv
  OBVIOUS
<1>1. TypeOK
  <2>1. serve \in ServeState
    <3>1. <<>> \in Seq(Jobs) /\ <<>> \in Seq(Ids)
      OBVIOUS
    <3> QED BY <3>1, BoundsAssumption DEF Init, ServeState
  <2>2. asking \in [Requesters -> Asking]
    BY BoundsAssumption DEF Init, Asking
  <2>3. effects \in [Ids -> Seq(0 .. MaxEdits)]
    BY DEF Init
  <2>4. rows \in Seq(Row) /\ Len(rows) <= Cardinality(Requesters)
    BY CountsAreNat DEF Init
  <2>5. /\ file \in 0 .. MaxEdits /\ inForce \in 0 .. MaxEdits
        /\ recorded \in 0 .. MaxBoots /\ signals \in 0 .. MaxSignals
    BY BoundsAssumption DEF Init
  <2>6. hup \in BOOLEAN /\ trail \subseteq (Jobs \X Outcomes)
    BY DEF Init
  <2> QED
    BY <2>1, <2>2, <2>3, <2>4, <2>5, <2>6 DEF TypeOK
<1>2. FiledOnce
  <2>1. Filed = {}
    BY DEF Init, Filed
  <2> QED BY <2>1, FS_EmptySet DEF Init, FiledOnce
<1>3. LocalsTell /\ JobsAreRows /\ NotedIsOnTrail
  BY NoneAssumption DEF Init, LocalsTell, JobsAreRows, NotedIsOnTrail
<1>4. EffectsFit /\ AppliedInHand /\ AppliedWasDone /\ AnswersAreOnTrail
  BY NoneAssumption DEF Init, EffectsFit, AppliedInHand, AppliedWasDone, AnswersAreOnTrail
<1>5. BootsInOrder /\ SupersededInOrder /\ RungSupersededIsInForce
  BY NoneAssumption DEF Init, BootsInOrder, SupersededInOrder, RungSupersededIsInForce
<1> QED
  BY <1>1, <1>2, <1>3, <1>4, <1>5 DEF Inv

-----------------------------------------------------------------------------
(* Requesters.                                                             *)

(* A step that leaves the rows and serve as they are carries everything    *)
(* but what is said of the requesters.                                     *)
ServeSide == /\ LocalsTell /\ JobsAreRows /\ EffectsFit /\ AppliedInHand /\ AppliedWasDone
             /\ NotedIsOnTrail /\ AnswersAreOnTrail

LEMMA AskingOnly ==
  ASSUME Inv, UNCHANGED <<file, inForce, rows, recorded, signals, serve, trail, effects>>
  PROVE  ServeSide'
BY DEF Inv, ServeSide, LocalsTell, JobsAreRows, EffectsFit, AppliedInHand, AppliedWasDone,
       NotedIsOnTrail, AnswersAreOnTrail, Job

(* A requester that moves on without filing.                               *)
MovesOn(q, a) == asking' = [asking EXCEPT ![q] = a]

LEMMA QuietRequester ==
  ASSUME Inv, NEW q \in Requesters, NEW a \in Asking, MovesOn(q, a),
         a.id = asking[q].id, hup' \in BOOLEAN,
         UNCHANGED <<file, inForce, rows, recorded, signals, serve, trail, effects>>,
         a.pc \in {"idle", "looked"} => a.id = None,
         a.pc \in {"filed", "unrung", "await"} => a.id # None,
         a.pc \in {"looked", "filed"} => a.ring \in 1 .. recorded,
         a.pc # "filed",
         a.pc = "await" => /\ rows[a.id].by # "boot"
                           /\ ~(serve.pc = "built" \/ serve.phase = "leftover")
  PROVE  Inv'
<1>1. asking' \in [Requesters -> Asking] /\ asking'[q] = a
      /\ \A p \in Requesters : p # q => asking'[p] = asking[p]
  BY DEF Inv, TypeOK, MovesOn
<1>2. TypeOK'
  BY <1>1 DEF Inv, TypeOK
<1>3. Filed' = Filed
  BY <1>1 DEF Filed
<1>4. FiledOnce'
  BY <1>1, <1>3 DEF Inv, FiledOnce
<1>5. BootsInOrder'
  BY <1>1 DEF Inv, BootsInOrder
<1>6. SupersededInOrder'
  BY <1>1 DEF Inv, SupersededInOrder
<1>7. RungSupersededIsInForce'
  BY <1>1 DEF Inv, RungSupersededIsInForce
<1> QED
  BY <1>2, <1>4, <1>5, <1>6, <1>7, AskingOnly DEF Inv, ServeSide

LEMMA EndIsQuiet ==
  ASSUME Inv, NEW q \in Requesters, NEW told \in Outcomes \cup {None, "not_running"},
         asking' = End(q, told), UNCHANGED <<rows, hup>>, Unasked
  PROVE  Inv'
<1> DEFINE a == [asking[q] EXCEPT !.pc = "end", !.ring = 0, !.told = told]
<1>0. asking[q] \in Asking /\ 0 \in 0 .. MaxBoots
  BY BoundsAssumption DEF Inv, TypeOK
<1>1. a \in Asking /\ a.id = asking[q].id /\ a.pc = "end"
  BY <1>0 DEF Asking
<1>2. MovesOn(q, a)
  BY DEF End, MovesOn, Inv, TypeOK, Asking
<1>3. hup' \in BOOLEAN
  BY DEF Inv, TypeOK
<1> HIDE DEF a
<1> QED
  BY <1>1, <1>2, <1>3, QuietRequester DEF Unasked

LEMMA QuietStepsInv ==
  ASSUME Inv, NEW q \in Requesters, NEW ok \in BOOLEAN,
         LookUp(q, ok) \/ FileFails(q) \/ Ring(q) \/ RingFails(q) \/ Await(q, ok) \/ RequesterDies(q)
  PROVE  Inv'
<1>0. asking[q] \in Asking /\ hup \in BOOLEAN
  BY DEF Inv, TypeOK
<1>z. 0 \in 0 .. MaxBoots
  BY BoundsAssumption
<1>1. CASE LookUp(q, ok)
  <2>1. CASE ~ok \/ recorded = 0
    BY <1>1, <2>1, EndIsQuiet DEF LookUp
  <2>2. CASE ok /\ recorded # 0
    <3> DEFINE a == [asking[q] EXCEPT !.pc = "looked", !.ring = recorded]
    <3>1. a \in Asking /\ a.id = asking[q].id /\ a.pc = "looked" /\ a.ring = recorded
      BY <1>0 DEF Inv, TypeOK, Asking
    <3>2. MovesOn(q, a)
      BY <1>0, <1>1, <2>2 DEF LookUp, MovesOn, Inv, TypeOK, Asking
    <3>3. a.id = None /\ a.ring \in 1 .. recorded
      BY <1>1, <2>2, <3>1, BoundsAssumption DEF LookUp, Inv, FiledOnce, TypeOK
    <3>4. hup' \in BOOLEAN /\ UNCHANGED <<file, inForce, rows, recorded, signals, serve, trail, effects>>
      BY <1>0, <1>1 DEF LookUp, Unasked
    <3> HIDE DEF a
    <3> QED
      BY <3>1, <3>2, <3>3, <3>4, QuietRequester
  <2> QED BY <2>1, <2>2
<1>2. CASE FileFails(q)
  BY <1>2, EndIsQuiet DEF FileFails
<1>3. CASE Ring(q)
  <2> DEFINE a == [asking[q] EXCEPT !.pc = "await", !.ring = 0]
  <2>1. a \in Asking /\ a.id = asking[q].id /\ a.pc = "await"
    BY <1>0, <1>z DEF Asking
  <2>2. MovesOn(q, a)
    BY <1>0, <1>3 DEF Ring, MovesOn, Inv, TypeOK, Asking
  <2>3. a.id # None
    BY <1>3, <2>1 DEF Ring, Inv, FiledOnce
  <2>4. hup' \in BOOLEAN /\ UNCHANGED <<file, inForce, rows, recorded, signals, serve, trail, effects>>
    BY <1>3 DEF Ring, Unasked
  <2>5. rows[a.id].by # "boot"
    <3>1. asking[q].ring = serve.boot /\ serve.boot \in Nat
      BY <1>3, BoundsAssumption DEF Ring, Inv, TypeOK, ServeState
    <3> QED BY <1>3, <2>1, <3>1 DEF Ring, Inv, SupersededInOrder
  <2>6. ~(serve.pc = "built" \/ serve.phase = "leftover")
    <3>1. recorded = serve.boot
      BY <1>3, BoundsAssumption DEF Ring, Inv, BootsInOrder, TypeOK, ServeState
    <3> QED
      BY <3>1, NoneAssumption DEF Inv, BootsInOrder, LocalsTell
  <2> HIDE DEF a
  <2> QED
    BY <2>1, <2>2, <2>3, <2>4, <2>5, <2>6, QuietRequester
<1>4. CASE RingFails(q)
  <2> DEFINE a == [asking[q] EXCEPT !.pc = "unrung", !.ring = 0]
  <2>1. a \in Asking /\ a.id = asking[q].id /\ a.pc = "unrung"
    BY <1>0, <1>z DEF Asking
  <2>2. MovesOn(q, a)
    BY <1>0, <1>4 DEF RingFails, MovesOn, Inv, TypeOK, Asking
  <2>3. a.id # None
    BY <1>4, <2>1 DEF RingFails, Inv, FiledOnce
  <2>4. hup' \in BOOLEAN /\ UNCHANGED <<file, inForce, rows, recorded, signals, serve, trail, effects>>
    BY <1>0, <1>4 DEF RingFails, Unasked
  <2> HIDE DEF a
  <2> QED
    BY <2>1, <2>2, <2>3, <2>4, QuietRequester
<1>5. CASE Await(q, ok)
  <2>1. rows[asking[q].id].outcome \in Outcomes \cup {None}
    <3>1. asking[q].id \in 1 .. Len(rows)
      BY <1>5 DEF Await, Inv, FiledOnce
    <3> QED BY <3>1, RowsAreTyped DEF Inv, Row
  <2> QED BY <1>5, <2>1, EndIsQuiet DEF Await
<1>6. CASE RequesterDies(q)
  BY <1>6, EndIsQuiet DEF RequesterDies
<1> QED
  BY <1>1, <1>2, <1>3, <1>4, <1>5, <1>6

LEMMA FileInv ==
  ASSUME Inv, NEW q \in Requesters, NEW kind \in Kinds, File(q, kind)
  PROVE  Inv'
<1> DEFINE n == Len(rows) + 1
           r == [kind |-> kind, wants |-> file, state |-> "pending",
                 outcome |-> None, by |-> None, recorded |-> FALSE]
           a == [asking[q] EXCEPT !.pc = "filed", !.id = n]
<1>0. /\ asking[q] \in Asking /\ asking[q].pc = "looked" /\ asking[q].id = None
      /\ hup' = hup /\ UNCHANGED <<file, inForce, recorded, signals, serve, trail, effects>>
  BY DEF File, Unasked, Inv, TypeOK, FiledOnce
<1>1. Len(rows) \in Nat /\ rows \in Seq(Row) /\ Len(rows) = Cardinality(Filed)
      /\ \A i \in 1 .. Len(rows) : rows[i] \in Row
  BY RowsAreTyped DEF Inv, TypeOK, FiledOnce
<1>2. r \in Row
  BY DEF Row, Inv, TypeOK
<1>3. /\ rows' \in Seq(Row) /\ Len(rows') = n /\ rows'[n] = r
      /\ \A i \in 1 .. Len(rows) : rows'[i] = rows[i]
  <2>1. rows' = Append(rows, r)
    BY DEF File
  <2> HIDE DEF r
  <2> QED BY <1>1, <1>2, <2>1, AppendProperties
<1>4. /\ asking' = [asking EXCEPT ![q] = a]
      /\ asking'[q] = a /\ \A p \in Requesters : p # q => asking'[p] = asking[p]
  BY <1>0 DEF File, Inv, TypeOK, Asking
<1>5. n \in Ids /\ Cardinality(Filed') = n /\ n <= Cardinality(Requesters)
  <2>1. Filed' = Filed \cup {q} /\ q \notin Filed
    <3>1. a.id = n /\ n # None
      <4>1. a.id = n
        BY <1>0 DEF Asking
      <4>2. Filed \cup {q} \in SUBSET Requesters /\ q \notin Filed
        BY <1>0 DEF Filed
      <4>3. n <= Cardinality(Requesters)
        <5>1. IsFiniteSet(Filed) /\ Cardinality(Filed \cup {q}) <= Cardinality(Requesters)
          BY <4>2, CountsAreNat
        <5>2. Cardinality(Filed \cup {q}) = Cardinality(Filed) + 1
          BY <4>2, <5>1, FS_AddElement
        <5> QED BY <1>1, <5>1, <5>2
      <4> QED BY <1>1, <4>1, <4>3, CountsAreNat DEF Ids
    <3> QED BY ZenonT(40), <1>0, <1>4, <3>1 DEF Filed
  <2>2. Filed \in SUBSET Requesters /\ Filed' \in SUBSET Requesters
    BY DEF Filed
  <2>3. Cardinality(Filed') = n
    BY <1>1, <2>1, <2>2, CountsAreNat, FS_AddElement
  <2> QED BY <1>1, <2>2, <2>3, CountsAreNat DEF Ids
<1>6. a \in Asking /\ a.pc = "filed" /\ a.id = n /\ a.ring = asking[q].ring
  BY <1>0, <1>5 DEF Asking
<1>7. /\ r.kind = kind /\ r.wants = file /\ r.state = "pending" /\ r.outcome = None
      /\ r.by = None /\ r.recorded = FALSE
  OBVIOUS
<1> HIDE DEF r, a
<1>8. TypeOK'
  <2>1. asking' \in [Requesters -> Asking]
    BY <1>4, <1>6 DEF Inv, TypeOK
  <2> QED BY <1>0, <1>3, <1>5, <2>1 DEF Inv, TypeOK
<1>9. FiledOnce'
  <2>1. n # None
    BY <1>5, CountsAreNat
  <2>2. \A p \in Requesters : asking[p].id # None => asking[p].id \in 1 .. n
    BY <1>1 DEF Inv, FiledOnce
  <2> QED BY <1>1, <1>3, <1>4, <1>5, <1>6, <2>1, <2>2 DEF Inv, FiledOnce
<1>10. LocalsTell' /\ NotedIsOnTrail'
  BY <1>0 DEF Inv, LocalsTell, NotedIsOnTrail, Job
<1>11. JobsAreRows'
  BY <1>0, <1>1, <1>3 DEF Inv, JobsAreRows
<1>12. EffectsFit' /\ AppliedInHand'
  <2>1. effects[n] = <<>> /\ Len(effects[n]) = 0
    BY <1>1, <1>5 DEF Inv, EffectsFit
  <2>2. file <= file
    BY BoundsAssumption DEF Inv, TypeOK
  <2>3. EffectsFit'
    BY <1>0, <1>1, <1>3, <1>7, <2>1, <2>2 DEF Inv, EffectsFit, Ids
  <2> QED BY <1>0, <2>3 DEF Inv, AppliedInHand, Job
<1>13. AppliedWasDone' /\ AnswersAreOnTrail'
  <2>1. None # "applied"
    BY NoneAssumption
  <2> QED BY <1>0, <1>1, <1>3, <1>7, <2>1 DEF Inv, AppliedWasDone, AnswersAreOnTrail
<1>14. BootsInOrder'
  BY <1>0, <1>4, <1>6 DEF Inv, BootsInOrder
<1>15. SupersededInOrder' /\ RungSupersededIsInForce'
  <2>1. \A p \in Requesters : asking[p].pc \in {"filed", "await"} => rows'[asking[p].id] = rows[asking[p].id]
    BY <1>3 DEF Inv, FiledOnce
  <2>2. None # "boot"
    BY NoneAssumption
  <2> QED
    BY <1>0, <1>3, <1>4, <1>6, <1>7, <2>1, <2>2 DEF Inv, SupersededInOrder, RungSupersededIsInForce
<1> QED
  BY <1>8, <1>9, <1>10, <1>11, <1>12, <1>13, <1>14, <1>15 DEF Inv

(* Finish changes one row, and only a pending one.                         *)
LEMMA FinishRows ==
  ASSUME TypeOK, NEW i \in 1 .. Len(rows), NEW outcome \in Outcomes,
         NEW by \in {"serve", "boot", "requester"}, NEW noted \in BOOLEAN,
         Finish(i, outcome, by, noted)
  PROVE  /\ rows' \in Seq(Row) /\ Len(rows') = Len(rows)
         /\ \A j \in 1 .. Len(rows) :
              /\ rows'[j].kind = rows[j].kind /\ rows'[j].wants = rows[j].wants
              /\ \/ rows'[j] = rows[j]
                 \/ /\ j = i /\ rows'[j].outcome = outcome /\ rows'[j].by = by
                    /\ rows'[j].recorded = noted
         /\ \A j \in 1 .. Len(rows) : ~IsPending(j) => rows'[j] = rows[j]
         /\ rows'[i].state = "done"
         /\ \A j \in 1 .. Len(rows) : j # i => rows'[j] = rows[j]
<1>1. Len(rows) \in Nat /\ rows \in Seq(Row) /\ \A j \in 1 .. Len(rows) : rows[j] \in Row
  BY RowsAreTyped DEF TypeOK
<1>2. CASE ~IsPending(i)
  <2>1. rows' = rows
    BY <1>2 DEF Finish
  <2>2. rows[i].state = "done"
    BY <1>1, <1>2 DEF IsPending, Row
  <2> QED BY <1>1, <2>1, <2>2
<1>3. CASE IsPending(i)
  <2> DEFINE r == [rows[i] EXCEPT !.state = "done", !.outcome = outcome, !.by = by, !.recorded = noted]
  <2>1. /\ r \in Row /\ r.kind = rows[i].kind /\ r.wants = rows[i].wants /\ r.state = "done"
        /\ r.outcome = outcome /\ r.by = by /\ r.recorded = noted
    BY <1>1 DEF Row
  <2>2. rows' = [rows EXCEPT ![i] = r]
    BY <1>3 DEF Finish
  <2> HIDE DEF r
  <2>3. /\ rows' \in Seq(Row) /\ Len(rows') = Len(rows) /\ rows'[i] = r
        /\ \A j \in 1 .. Len(rows) : j # i => rows'[j] = rows[j]
    BY <1>1, <2>1, <2>2, ExceptSeq
  <2> QED BY <1>3, <2>1, <2>3
<1> QED BY <1>2, <1>3

(* What an answer leaves true of the requesters: only a start's answer can *)
(* disturb it, and what it needs is stated of the answered row.            *)
LEMMA AnswerKeeps ==
  ASSUME Inv, NEW i \in 1 .. Len(rows), NEW outcome \in Outcomes,
         NEW by \in {"serve", "boot", "requester"}, NEW noted \in BOOLEAN,
         Finish(i, outcome, by, noted) \/ UNCHANGED rows,
         UNCHANGED <<file, inForce, trail, effects>>,
         outcome = "applied" => effects[i] # <<>>,
         noted => <<i, outcome>> \in trail,
         by = "boot" => \A q \in Requesters : asking[q].id = i =>
             /\ asking[q].pc = "filed" => asking[q].ring < serve.boot
             /\ asking[q].pc = "await" => inForce >= rows[i].wants
  PROVE  /\ rows' \in Seq(Row) /\ Len(rows') = Len(rows)
         /\ AppliedWasDone' /\ AnswersAreOnTrail' /\ EffectsFit'
         /\ \A q \in Requesters :
              /\ asking[q].pc = "filed" /\ rows'[asking[q].id].by = "boot" => asking[q].ring < serve.boot
              /\ asking[q].pc = "await" =>
                   /\ rows'[asking[q].id].by = "boot" => inForce >= rows'[asking[q].id].wants
                   /\ (serve.pc = "built" \/ serve.phase = "leftover")
                        => inForce >= rows'[asking[q].id].wants
<1>1. /\ rows' \in Seq(Row) /\ Len(rows') = Len(rows)
      /\ \A j \in 1 .. Len(rows) :
              /\ rows'[j].kind = rows[j].kind /\ rows'[j].wants = rows[j].wants
              /\ \/ rows'[j] = rows[j]
                 \/ /\ j = i /\ rows'[j].outcome = outcome /\ rows'[j].by = by
                    /\ rows'[j].recorded = noted
  <2>1. CASE UNCHANGED rows
    BY <2>1 DEF Inv, TypeOK
  <2>2. CASE Finish(i, outcome, by, noted)
    BY <2>2, FinishRows DEF Inv
  <2> QED BY <2>1, <2>2
<1>2. /\ Len(rows) \in Nat /\ 1 .. Len(rows) \subseteq Ids
      /\ \A j \in Ids : effects[j] \in Seq(0 .. MaxEdits)
      /\ \A j \in 1 .. Len(rows) : rows[j] \in Row
  BY RowsAreTyped DEF Inv
<1>3. EffectsFit'
  BY <1>1 DEF Inv, EffectsFit
<1>4. AppliedWasDone'
  <2> SUFFICES ASSUME NEW j \in 1 .. Len(rows), rows'[j].outcome = "applied"
               PROVE  /\ effects[j] # <<>>
                      /\ rows'[j].kind = "reload" => effects[j][Len(effects[j])] >= rows'[j].wants
    BY <1>1 DEF AppliedWasDone
  <2>1. effects[j] # <<>>
    BY <1>1 DEF Inv, AppliedWasDone
  <2>2. Len(effects[j]) \in 1 .. Len(effects[j])
    <3>1. effects[j] \in Seq(0 .. MaxEdits)
      BY <1>2
    <3> QED BY <2>1, <3>1, EmptySeq, LenProperties
  <2> QED BY <1>1, <2>1, <2>2 DEF Inv, EffectsFit
<1>5. AnswersAreOnTrail'
  BY <1>1 DEF Inv, AnswersAreOnTrail
<1>6. ASSUME NEW q \in Requesters
      PROVE  /\ asking[q].pc = "filed" /\ rows'[asking[q].id].by = "boot" => asking[q].ring < serve.boot
             /\ asking[q].pc = "await" =>
                  /\ rows'[asking[q].id].by = "boot" => inForce >= rows'[asking[q].id].wants
                  /\ (serve.pc = "built" \/ serve.phase = "leftover")
                       => inForce >= rows'[asking[q].id].wants
  <2>1. asking[q].pc \in {"filed", "await"} => asking[q].id \in 1 .. Len(rows)
    BY DEF Inv, FiledOnce
  <2> QED
    BY <1>1, <2>1 DEF Inv, SupersededInOrder, RungSupersededIsInForce
<1> QED
  BY <1>1, <1>3, <1>4, <1>5, <1>6

LEMMA AbandonInv ==
  ASSUME Inv, NEW q \in Requesters, NEW ok \in BOOLEAN, Abandon(q, ok)
  PROVE  Inv'
<1> DEFINE i == asking[q].id
           a == [asking[q] EXCEPT !.pc = "end", !.ring = 0, !.told = "not_running"]
<1>1. /\ asking[q] \in Asking /\ asking[q].pc = "unrung" /\ i \in 1 .. Len(rows) /\ i # None
      /\ hup' = hup /\ UNCHANGED <<file, inForce, recorded, signals, serve, trail, effects>>
      /\ Finish(i, "refused", "requester", FALSE) \/ UNCHANGED rows
  BY DEF Abandon, Unasked, Inv, TypeOK, FiledOnce
<1>2. /\ asking' = [asking EXCEPT ![q] = a] /\ asking'[q] = a
      /\ \A p \in Requesters : p # q => asking'[p] = asking[p]
  BY <1>1 DEF Abandon, End, Inv, TypeOK, Asking
<1>3. a \in Asking /\ a.pc = "end" /\ a.id = i
  <2>1. 0 \in 0 .. MaxBoots
    BY BoundsAssumption
  <2> QED BY <1>1, <2>1 DEF Asking
<1> HIDE DEF a
<1>4. /\ rows' \in Seq(Row) /\ Len(rows') = Len(rows)
      /\ AppliedWasDone' /\ AnswersAreOnTrail' /\ EffectsFit'
      /\ \A p \in Requesters :
              /\ asking[p].pc = "filed" /\ rows'[asking[p].id].by = "boot" => asking[p].ring < serve.boot
              /\ asking[p].pc = "await" =>
                   /\ rows'[asking[p].id].by = "boot" => inForce >= rows'[asking[p].id].wants
                   /\ (serve.pc = "built" \/ serve.phase = "leftover")
                        => inForce >= rows'[asking[p].id].wants
  <2> HIDE DEF i
  <2>1. "refused" \in Outcomes /\ "refused" # "applied" /\ "requester" # "boot"
    BY DEF Outcomes
  <2> QED BY <1>1, <2>1, AnswerKeeps
<1>5. TypeOK'
  BY <1>1, <1>2, <1>3, <1>4 DEF Inv, TypeOK
<1>6. FiledOnce'
  <2>1. Filed' = Filed
    BY <1>2, <1>3 DEF Filed
  <2> QED BY <1>1, <1>2, <1>3, <1>4, <2>1 DEF Inv, FiledOnce
<1>7. LocalsTell' /\ JobsAreRows' /\ NotedIsOnTrail' /\ AppliedInHand'
  BY <1>1, <1>4 DEF Inv, LocalsTell, JobsAreRows, NotedIsOnTrail, AppliedInHand, Job
<1>8. BootsInOrder'
  BY <1>1, <1>2, <1>3 DEF Inv, BootsInOrder
<1>9. SupersededInOrder' /\ RungSupersededIsInForce'
  BY <1>1, <1>2, <1>3, <1>4 DEF SupersededInOrder, RungSupersededIsInForce
<1> QED
  BY <1>4, <1>5, <1>6, <1>7, <1>8, <1>9 DEF Inv

LEMMA RequesterInv ==
  ASSUME Inv, NEW q \in Requesters, RequesterStep(q)
  PROVE  Inv'
<1>1. StoreResults \subseteq BOOLEAN
  BY SwitchesAssumption DEF StoreResults
<1> QED
  BY <1>1, QuietStepsInv, FileInv, AbandonInv DEF RequesterStep

LEMMA SurroundingsInv ==
  ASSUME Inv, BareSignal \/ Edit
  PROVE  Inv'
<1>1. /\ UNCHANGED <<inForce, rows, recorded, serve, asking, trail, effects>>
      /\ file' \in 0 .. MaxEdits /\ file' >= file /\ signals' \in 0 .. MaxSignals
  BY BoundsAssumption DEF BareSignal, Edit, Inv, TypeOK
<1>2. hup' \in BOOLEAN
  BY DEF BareSignal, Edit, Inv, TypeOK
<1>3. TypeOK'
  BY <1>1, <1>2 DEF Inv, TypeOK
<1>4. EffectsFit'
  <2>1. \A i \in 1 .. Len(rows) : rows[i].wants \in Nat
    BY RowsAreTyped, BoundsAssumption DEF Inv, Row
  <2> QED BY <1>1, <2>1, BoundsAssumption DEF Inv, EffectsFit, TypeOK
<1> QED
  BY <1>1, <1>3, <1>4 DEF Inv, LocalsTell, JobsAreRows, FiledOnce, Filed, AppliedInHand, AppliedWasDone,
     NotedIsOnTrail, AnswersAreOnTrail, BootsInOrder, SupersededInOrder, RungSupersededIsInForce, Job

-----------------------------------------------------------------------------
(* serve.                                                                  *)

Registered(s) == s.pc \in {"down", "idle", "read"} \/ s.phase \in {"work", "answer"}

LeavingOver(s) == s.pc = "built" \/ s.phase = "leftover"

(* A step of serve's locals, with perhaps a row on the trail.              *)
LEMMA ServeOnly ==
  ASSUME Inv, serve' \in ServeState, hup' \in BOOLEAN,
         UNCHANGED <<file, signals, asking, rows, recorded, inForce, effects>>,
         trail \subseteq trail', trail' \subseteq (Jobs \X Outcomes),
         serve'.boot = serve.boot,
         LocalsTell', JobsAreRows', AppliedInHand', NotedIsOnTrail',
         recorded = serve.boot => Registered(serve'),
         LeavingOver(serve') => LeavingOver(serve)
  PROVE  Inv'
<1>1. TypeOK'
  BY DEF Inv, TypeOK
<1>2. FiledOnce' /\ EffectsFit' /\ AppliedWasDone'
  BY DEF Inv, FiledOnce, Filed, EffectsFit, AppliedWasDone
<1>3. AnswersAreOnTrail'
  BY DEF Inv, AnswersAreOnTrail
<1>4. BootsInOrder'
  BY DEF Inv, BootsInOrder, Registered
<1>5. SupersededInOrder' /\ RungSupersededIsInForce'
  BY DEF Inv, SupersededInOrder, RungSupersededIsInForce, LeavingOver
<1> QED
  BY <1>1, <1>2, <1>3, <1>4, <1>5 DEF Inv

LEMMA TailShifts ==
  ASSUME NEW S, NEW t \in Seq(S), t # <<>>
  PROVE  /\ Tail(t) \in Seq(S) /\ Len(Tail(t)) = Len(t) - 1 /\ Len(t) \in Nat /\ Len(t) >= 1
         /\ Head(t) = t[1] /\ Head(t) \in S
         /\ \A k \in 1 .. Len(Tail(t)) : Tail(t)[k] = t[k + 1] /\ k + 1 \in 2 .. Len(t)
BY HeadTailProperties, LenProperties, EmptySeq

LEMMA ReadingInv ==
  ASSUME Inv, NEW ok \in BOOLEAN, ReadLeftovers(ok) \/ TakePending(ok)
  PROVE  Inv'
<1>1. /\ UNCHANGED <<file, signals, asking, rows, recorded, inForce, effects, trail, hup>>
      /\ serve.pc \in {"built", "read"} /\ serve.phase = None
  BY DEF ReadLeftovers, TakePending, Unserved, Inv, LocalsTell, TypeOK, ServeState
<1>2. /\ Pending \in Seq(Ids)
      /\ \A k \in 1 .. Len(Pending) : Pending[k] \in 1 .. Len(rows)
  <2>1. Pending \in Seq(Waiting) /\ Waiting \subseteq 1 .. Len(rows) /\ 1 .. Len(rows) \subseteq Ids
    BY RowsAreTyped, PendingIsInOrder DEF Inv, Waiting
  <2>2. Pending \in Seq(1 .. Len(rows))
    BY <2>1, SeqMonotonic
  <2>3. Pending \in Seq(Ids)
    BY <2>1, SeqMonotonic
  <2> QED BY <2>2, <2>3, ElementOfSeq
<1>3. /\ Pending \in Seq(Jobs) /\ <<>> \in Seq(Jobs) /\ <<>> \in Seq(Ids) /\ <<Signal>> \in Seq(Jobs)
      /\ Len(<<>>) = 0 /\ Len(<<Signal>>) = 1 /\ <<Signal>>[1] = Signal
  <2>1. Ids \subseteq Jobs /\ Signal \in Jobs
    BY DEF Jobs
  <2> QED BY <1>2, <2>1, SeqMonotonic
<1>4. CASE ReadLeftovers(ok)
  <2> DEFINE t == IF ok THEN Pending ELSE <<>>
  <2>1. t \in Seq(Jobs) /\ \A k \in 1 .. Len(t) : t[k] \in 1 .. Len(rows)
    BY <1>2, <1>3
  <2>2. /\ serve' = [serve EXCEPT !.pc = "next", !.phase = "leftover", !.todo = t]
        /\ serve.pc = "built"
    BY <1>4 DEF ReadLeftovers
  <2> HIDE DEF t
  <2>3. /\ serve' \in ServeState /\ serve'.pc = "next" /\ serve'.phase = "leftover" /\ serve'.todo = t
        /\ serve'.redials = serve.redials /\ serve'.boot = serve.boot
    BY <2>1, <2>2 DEF Inv, TypeOK, ServeState
  <2>4. LocalsTell' /\ NotedIsOnTrail' /\ AppliedInHand' /\ JobsAreRows'
    BY <1>1, <2>1, <2>3, NoneAssumption
       DEF Inv, LocalsTell, NotedIsOnTrail, AppliedInHand, JobsAreRows
  <2>5. recorded # serve.boot
    BY <1>1, <2>2, NoneAssumption DEF Inv, BootsInOrder
  <2>6. hup' \in BOOLEAN /\ trail' \subseteq (Jobs \X Outcomes) /\ trail \subseteq trail'
    BY <1>1 DEF Inv, TypeOK
  <2> QED BY <1>1, <2>2, <2>3, <2>4, <2>5, <2>6, ServeOnly DEF LeavingOver
<1>5. CASE TakePending(ok)
  <2> DEFINE t == IF ok /\ Pending # <<>> THEN Pending ELSE <<Signal>>
  <2>1. t \in Seq(Jobs) /\ \A k \in 1 .. Len(t) : t[k] \in 1 .. Len(rows) \/ t[k] = Signal
    BY <1>2, <1>3
  <2>2. serve' = [serve EXCEPT !.pc = "next", !.phase = "work", !.redials = <<>>, !.todo = t]
    BY <1>5 DEF TakePending
  <2> HIDE DEF t
  <2>3. /\ serve' \in ServeState /\ serve'.pc = "next" /\ serve'.phase = "work" /\ serve'.todo = t
        /\ serve'.redials = <<>> /\ serve'.boot = serve.boot
    BY <1>3, <2>1, <2>2 DEF Inv, TypeOK, ServeState
  <2>4. LocalsTell' /\ NotedIsOnTrail' /\ AppliedInHand' /\ JobsAreRows'
    BY <1>1, <1>3, <2>1, <2>3, NoneAssumption
       DEF Inv, LocalsTell, NotedIsOnTrail, AppliedInHand, JobsAreRows
  <2>6. hup' \in BOOLEAN /\ trail' \subseteq (Jobs \X Outcomes) /\ trail \subseteq trail'
    BY <1>1 DEF Inv, TypeOK
  <2> QED BY <1>1, <2>3, <2>4, <2>6, ServeOnly DEF LeavingOver, Registered
<1> QED BY <1>4, <1>5

(* The steps of serve that only move it on.                                *)
LEMMA MovingInv ==
  ASSUME Inv, Supersede \/ LeftoversDone \/ Wake \/ Round \/ AnswerRedial \/ HandleDone
  PROVE  Inv'
<1>1. /\ UNCHANGED <<file, signals, asking, rows, recorded, inForce, effects, trail>>
      /\ trail' \subseteq (Jobs \X Outcomes) /\ trail \subseteq trail'
      /\ serve \in ServeState
  BY DEF Supersede, LeftoversDone, Wake, Round, AnswerRedial, HandleDone, Unserved, Inv, TypeOK
<1>2. hup' \in BOOLEAN
  BY DEF Supersede, LeftoversDone, Wake, Round, AnswerRedial, HandleDone, Unserved, Inv, TypeOK
<1>3. <<>> \in Seq(Ids) /\ Len(<<>>) = 0 /\ serve.redials \in Seq(Jobs)
  <2>1. Ids \subseteq Jobs /\ serve.redials \in Seq(Ids)
    BY <1>1 DEF Jobs, ServeState
  <2> QED BY <2>1, SeqMonotonic
<1>4. serve.todo \in Seq(Jobs) /\ (serve.todo # <<>> => Job = serve.todo[1] /\ 1 \in 1 .. Len(serve.todo))
  BY <1>1, TailShifts DEF ServeState, Job
<1>5. CASE Supersede \/ AnswerRedial
  <2> DEFINE o == IF Supersede THEN "refused" ELSE "applied"
  <2>1. /\ serve' \in ServeState /\ serve'.pc = "record" /\ serve'.outcome \in Outcomes
        /\ serve'.outcome = "applied" => serve.phase = "answer"
        /\ serve'.boot = serve.boot /\ serve'.phase = serve.phase /\ serve'.todo = serve.todo
        /\ serve'.redials = serve.redials
        /\ serve.todo # <<>> /\ serve.phase \in {"leftover", "answer"}
    BY <1>1, <1>5 DEF Supersede, AnswerRedial, ServeState, Outcomes
  <2>2. LocalsTell' /\ JobsAreRows' /\ NotedIsOnTrail'
    BY <1>1, <2>1, NoneAssumption DEF Inv, LocalsTell, JobsAreRows, NotedIsOnTrail
  <2>3. AppliedInHand'
    BY <1>1, <1>4, <2>1 DEF Inv, AppliedInHand, Job
  <2>4. (recorded = serve.boot => Registered(serve')) /\ (LeavingOver(serve') => LeavingOver(serve))
    BY <2>1, <1>5, NoneAssumption DEF Inv, BootsInOrder, Registered, LeavingOver, LocalsTell
  <2> QED BY <1>1, <1>2, <2>1, <2>2, <2>3, <2>4, ServeOnly
<1>6. CASE LeftoversDone
  <2>1. /\ serve' \in ServeState /\ serve'.pc = "register"
        /\ serve'.boot = serve.boot /\ serve'.phase = serve.phase /\ serve'.todo = serve.todo
        /\ serve'.redials = serve.redials
        /\ serve.todo = <<>> /\ serve.phase = "leftover" /\ serve.pc = "next"
    BY <1>1, <1>6 DEF LeftoversDone, ServeState
  <2>2. LocalsTell' /\ JobsAreRows' /\ NotedIsOnTrail' /\ AppliedInHand'
    BY <1>1, <2>1, NoneAssumption DEF Inv, LocalsTell, JobsAreRows, NotedIsOnTrail, AppliedInHand
  <2>4. (recorded = serve.boot => Registered(serve')) /\ (LeavingOver(serve') => LeavingOver(serve))
    BY <2>1 DEF Inv, BootsInOrder, Registered, LeavingOver
  <2> QED BY <1>1, <1>2, <2>1, <2>2, <2>4, ServeOnly
<1>7. CASE Wake
  <2>1. /\ serve' \in ServeState /\ serve'.pc = "read"
        /\ serve'.boot = serve.boot /\ serve'.phase = serve.phase /\ serve'.todo = serve.todo
        /\ serve'.redials = serve.redials /\ serve.pc = "idle"
    BY <1>1, <1>7 DEF Wake, ServeState
  <2>2. LocalsTell' /\ JobsAreRows' /\ NotedIsOnTrail' /\ AppliedInHand'
    BY <1>1, <2>1, NoneAssumption DEF Inv, LocalsTell, JobsAreRows, NotedIsOnTrail, AppliedInHand
  <2>4. Registered(serve') /\ (LeavingOver(serve') => LeavingOver(serve))
    BY <2>1 DEF Registered, LeavingOver
  <2> QED BY <1>1, <1>2, <2>1, <2>2, <2>4, ServeOnly
<1>8. CASE Round
  <2>1. /\ serve' \in ServeState /\ serve'.pc = "next"
        /\ serve'.boot = serve.boot /\ serve'.phase = "answer" /\ serve'.todo = serve.redials
        /\ serve'.redials = <<>> /\ serve.phase = "work"
    BY <1>1, <1>3, <1>8 DEF Round, ServeState
  <2>2. LocalsTell' /\ JobsAreRows' /\ NotedIsOnTrail' /\ AppliedInHand'
    BY <1>1, <1>3, <2>1, NoneAssumption DEF Inv, LocalsTell, JobsAreRows, NotedIsOnTrail, AppliedInHand
  <2>4. Registered(serve') /\ ~LeavingOver(serve')
    BY <2>1 DEF Registered, LeavingOver
  <2> QED BY <1>1, <1>2, <2>1, <2>2, <2>4, ServeOnly
<1>9. CASE HandleDone
  <2>1. /\ serve' \in ServeState /\ serve'.pc = "idle"
        /\ serve'.boot = serve.boot /\ serve'.phase = None /\ serve'.todo = <<>>
        /\ serve'.redials = serve.redials /\ serve.phase = "answer"
    BY <1>1, <1>9 DEF HandleDone, ServeState
  <2>2. LocalsTell' /\ JobsAreRows' /\ NotedIsOnTrail' /\ AppliedInHand'
    BY <1>1, <1>3, <2>1, NoneAssumption DEF Inv, LocalsTell, JobsAreRows, NotedIsOnTrail, AppliedInHand
  <2>4. Registered(serve') /\ ~LeavingOver(serve')
    BY <2>1, NoneAssumption DEF Registered, LeavingOver
  <2> QED BY <1>1, <1>2, <2>1, <2>2, <2>4, ServeOnly
<1> QED
  BY <1>5, <1>6, <1>7, <1>8, <1>9

LEMMA RecordRowInv ==
  ASSUME Inv, NEW ok \in BOOLEAN, RecordRow(ok)
  PROVE  Inv'
<1>1. /\ UNCHANGED <<file, signals, asking, rows, recorded, inForce, effects, hup>>
      /\ hup \in BOOLEAN /\ serve \in ServeState /\ serve.pc = "record" /\ serve.todo # <<>>
      /\ serve.outcome \in Outcomes /\ trail \subseteq (Jobs \X Outcomes)
  BY DEF RecordRow, Unserved, Inv, TypeOK, LocalsTell
<1>2. /\ serve.todo \in Seq(Jobs) /\ Job = serve.todo[1] /\ Job \in Jobs
      /\ Tail(serve.todo) \in Seq(Jobs) /\ Len(Tail(serve.todo)) = Len(serve.todo) - 1
      /\ Len(serve.todo) \in Nat /\ Len(serve.todo) >= 1
      /\ \A k \in 1 .. Len(Tail(serve.todo)) :
            Tail(serve.todo)[k] = serve.todo[k + 1] /\ k + 1 \in 1 .. Len(serve.todo)
  BY <1>1, TailShifts DEF ServeState, Job
<1>3. /\ trail \subseteq trail' /\ trail' \subseteq (Jobs \X Outcomes)
      /\ ok => <<Job, serve.outcome>> \in trail'
  BY <1>1, <1>2 DEF RecordRow
<1>4. CASE Job = Signal
  <2>1. /\ serve' \in ServeState /\ serve'.pc = "next" /\ serve'.todo = Tail(serve.todo)
        /\ serve'.boot = serve.boot /\ serve'.phase = serve.phase /\ serve'.redials = serve.redials
    BY <1>1, <1>2, <1>4 DEF RecordRow, ServeState
  <2>2. LocalsTell' /\ JobsAreRows' /\ NotedIsOnTrail' /\ AppliedInHand'
    BY <1>1, <1>2, <2>1, NoneAssumption DEF Inv, LocalsTell, JobsAreRows, NotedIsOnTrail, AppliedInHand
  <2>4. (recorded = serve.boot => Registered(serve')) /\ (LeavingOver(serve') => LeavingOver(serve))
    BY <1>1, <2>1 DEF Inv, BootsInOrder, Registered, LeavingOver
  <2> QED BY <1>1, <1>3, <2>1, <2>2, <2>4, ServeOnly
<1>5. CASE Job # Signal
  <2>1. /\ serve' \in ServeState /\ serve'.pc = "write" /\ serve'.todo = serve.todo /\ serve'.noted = ok
        /\ serve'.outcome = serve.outcome
        /\ serve'.boot = serve.boot /\ serve'.phase = serve.phase /\ serve'.redials = serve.redials
    BY <1>1, <1>2, <1>5 DEF RecordRow, ServeState
  <2>2. LocalsTell' /\ JobsAreRows' /\ NotedIsOnTrail' /\ AppliedInHand'
    BY <1>1, <1>3, <1>5, <2>1, NoneAssumption
       DEF Inv, LocalsTell, JobsAreRows, NotedIsOnTrail, AppliedInHand, Job
  <2>4. (recorded = serve.boot => Registered(serve')) /\ (LeavingOver(serve') => LeavingOver(serve))
    BY <1>1, <2>1 DEF Inv, BootsInOrder, Registered, LeavingOver
  <2> QED BY <1>1, <1>3, <2>1, <2>2, <2>4, ServeOnly
<1> QED BY <1>4, <1>5

(* serve starts, loads, records itself and dies.                           *)
LEMMA LifeInv ==
  ASSUME Inv, NEW ok \in BOOLEAN, Start \/ LoadConfig \/ RecordProcess(ok) \/ ServeDies
  PROVE  Inv'
<1>1. /\ UNCHANGED <<file, signals, asking, rows, effects, trail>> /\ serve \in ServeState
      /\ \A q \in Requesters : asking[q] \in Asking
  BY DEF Start, LoadConfig, RecordProcess, ServeDies, Unserved, Inv, TypeOK
<1>2. hup' \in BOOLEAN
  BY DEF Start, LoadConfig, RecordProcess, ServeDies, Inv, TypeOK
<1>3. <<>> \in Seq(Ids) /\ <<>> \in Seq(Jobs) /\ Len(<<>>) = 0
  OBVIOUS
<1>4. /\ serve.boot \in Nat /\ MaxBoots \in Nat /\ recorded \in Nat /\ recorded <= serve.boot
      /\ serve.boot <= MaxBoots
  BY <1>1, BoundsAssumption DEF Inv, TypeOK, ServeState, BootsInOrder
<1>5. /\ FiledOnce' /\ EffectsFit' /\ AppliedWasDone' /\ AnswersAreOnTrail'
      /\ \A i \in 1 .. Len(rows) : rows[i].wants \in Nat /\ file >= rows[i].wants
  <2>1. \A i \in 1 .. Len(rows) : rows[i].wants \in Nat
    BY RowsAreTyped, BoundsAssumption DEF Inv, Row
  <2>2. file \in Nat
    BY BoundsAssumption DEF Inv, TypeOK
  <2> QED BY <1>1, <2>1, <2>2 DEF Inv, FiledOnce, Filed, EffectsFit, AppliedWasDone, AnswersAreOnTrail
<1>6. \A q \in Requesters : asking[q].pc \in {"filed", "await"} => asking[q].id \in 1 .. Len(rows)
  BY DEF Inv, FiledOnce
<1>7. CASE Start
  <2>1. /\ serve' \in ServeState /\ serve'.pc = "load" /\ serve'.boot = serve.boot + 1
        /\ serve'.todo = serve.todo /\ serve'.redials = serve.redials /\ serve'.phase = serve.phase
        /\ serve.pc = "down" /\ recorded' = recorded /\ inForce' = inForce
    <3>1. serve.boot + 1 \in 0 .. MaxBoots
      BY <1>4, <1>7 DEF Start
    <3> QED BY <1>1, <1>7, <3>1 DEF Start, ServeState
  <2>2. TypeOK'
    BY <1>1, <1>2, <2>1 DEF Inv, TypeOK
  <2>3. LocalsTell' /\ JobsAreRows' /\ NotedIsOnTrail' /\ AppliedInHand'
    BY <1>1, <2>1, NoneAssumption DEF Inv, LocalsTell, JobsAreRows, NotedIsOnTrail, AppliedInHand
  <2>4. BootsInOrder'
    BY <1>1, <1>4, <2>1 DEF Inv, BootsInOrder
  <2>5. SupersededInOrder' /\ RungSupersededIsInForce'
    <3>1. \A q \in Requesters : asking[q].ring \in Nat
      BY <1>1, BoundsAssumption DEF Asking
    <3>2. serve'.pc # "built" /\ serve'.phase # "leftover"
      BY <2>1, NoneAssumption DEF Inv, LocalsTell
    <3> QED BY <1>1, <1>4, <2>1, <3>1, <3>2 DEF Inv, SupersededInOrder, RungSupersededIsInForce
  <2> QED BY <1>5, <2>2, <2>3, <2>4, <2>5 DEF Inv
<1>8. CASE LoadConfig
  <2>1. /\ serve' \in ServeState /\ serve'.pc = "built" /\ serve'.boot = serve.boot
        /\ serve'.todo = serve.todo /\ serve'.redials = serve.redials /\ serve'.phase = serve.phase
        /\ serve.pc = "load" /\ recorded' = recorded /\ inForce' = file
    BY <1>1, <1>8 DEF LoadConfig, ServeState
  <2>2. TypeOK'
    BY <1>1, <1>2, <2>1 DEF Inv, TypeOK
  <2>3. LocalsTell' /\ JobsAreRows' /\ NotedIsOnTrail' /\ AppliedInHand'
    BY <1>1, <2>1, NoneAssumption DEF Inv, LocalsTell, JobsAreRows, NotedIsOnTrail, AppliedInHand
  <2>4. BootsInOrder'
    BY <1>1, <2>1, NoneAssumption DEF Inv, BootsInOrder, LocalsTell
  <2>5. SupersededInOrder' /\ RungSupersededIsInForce'
    BY <1>1, <1>5, <1>6, <2>1 DEF Inv, SupersededInOrder, RungSupersededIsInForce
  <2> QED BY <1>5, <2>2, <2>3, <2>4, <2>5 DEF Inv
<1>9. CASE RecordProcess(ok)
  <2>1. /\ serve' \in ServeState /\ serve'.pc = "idle" /\ serve'.boot = serve.boot
        /\ serve'.todo = serve.todo /\ serve'.redials = serve.redials /\ serve'.phase = None
        /\ serve.pc = "register" /\ recorded' \in {recorded, serve.boot} /\ inForce' = inForce
        /\ serve.todo = <<>>
    BY <1>1, <1>9 DEF RecordProcess, ServeState, Inv, LocalsTell
  <2>2. TypeOK'
    BY <1>1, <1>2, <1>4, <2>1 DEF Inv, TypeOK
  <2>3. LocalsTell' /\ JobsAreRows' /\ NotedIsOnTrail' /\ AppliedInHand'
    BY <1>1, <1>3, <2>1, NoneAssumption DEF Inv, LocalsTell, JobsAreRows, NotedIsOnTrail, AppliedInHand
  <2>4. BootsInOrder'
    BY <1>1, <1>4, <2>1 DEF Inv, BootsInOrder
  <2>5. SupersededInOrder' /\ RungSupersededIsInForce'
    BY <1>1, <2>1, NoneAssumption DEF Inv, SupersededInOrder, RungSupersededIsInForce
  <2> QED BY <1>5, <2>2, <2>3, <2>4, <2>5 DEF Inv
<1>10. CASE ServeDies
  <2>1. /\ serve' \in ServeState /\ serve'.pc = "down" /\ serve'.boot = serve.boot
        /\ serve'.todo = <<>> /\ serve'.redials = <<>> /\ serve'.phase = None
        /\ recorded' = recorded /\ inForce' = inForce
    BY <1>1, <1>3, <1>10 DEF ServeDies, ServeState
  <2>2. TypeOK'
    BY <1>1, <1>2, <2>1 DEF Inv, TypeOK
  <2>3. LocalsTell' /\ JobsAreRows' /\ NotedIsOnTrail' /\ AppliedInHand'
    BY <1>1, <1>3, <2>1, NoneAssumption DEF Inv, LocalsTell, JobsAreRows, NotedIsOnTrail, AppliedInHand
  <2>4. BootsInOrder'
    BY <1>1, <2>1 DEF Inv, BootsInOrder
  <2>5. SupersededInOrder' /\ RungSupersededIsInForce'
    BY <1>1, <2>1, NoneAssumption DEF Inv, SupersededInOrder, RungSupersededIsInForce
  <2> QED BY <1>5, <2>2, <2>3, <2>4, <2>5 DEF Inv
<1> QED
  BY <1>7, <1>8, <1>9, <1>10

(* The history of a job: one more entry under its id, and nothing else.    *)
LEMMA DoneAppends ==
  ASSUME TypeOK, NEW i \in Ids, NEW e \in 0 .. MaxEdits, Done(i, e)
  PROVE  /\ effects' \in [Ids -> Seq(0 .. MaxEdits)]
         /\ effects'[i] = Append(effects[i], e) /\ Len(effects'[i]) = Len(effects[i]) + 1
         /\ effects'[i][Len(effects[i]) + 1] = e /\ effects'[i] # <<>>
         /\ \A k \in 1 .. Len(effects[i]) : effects'[i][k] = effects[i][k]
         /\ \A j \in Ids : j # i => effects'[j] = effects[j]
<1>1. i # Signal /\ effects[i] \in Seq(0 .. MaxEdits)
  BY DEF Ids, Signal, TypeOK
<1>2. effects' = [effects EXCEPT ![i] = Append(@, e)]
  BY <1>1 DEF Done
<1>3. effects'[i] = Append(effects[i], e)
  BY <1>2 DEF TypeOK
<1>4. Append(effects[i], e) \in Seq(0 .. MaxEdits)
  BY <1>1, AppendProperties
<1> HIDE DEF Ids
<1>5. effects' \in [Ids -> Seq(0 .. MaxEdits)] /\ \A j \in Ids : j # i => effects'[j] = effects[j]
  BY <1>2, <1>3, <1>4 DEF TypeOK
<1> QED BY <1>1, <1>3, <1>5, AppendProperties

(* Doing a job, and what the history says then.                            *)
LEMMA DoneFits ==
  ASSUME Inv, NEW i \in 1 .. Len(rows), NEW e \in 0 .. MaxEdits, Done(i, e),
         rows[i].kind = "reload" => e = file, UNCHANGED <<file, rows>>
  PROVE  /\ effects' \in [Ids -> Seq(0 .. MaxEdits)]
         /\ EffectsFit' /\ AppliedWasDone'
         /\ \A j \in Ids : effects[j] # <<>> => effects'[j] # <<>>
         /\ effects'[i] # <<>>
<1>1. /\ Len(rows) \in Nat /\ 1 .. Len(rows) \subseteq Ids
      /\ \A j \in Ids : effects[j] \in Seq(0 .. MaxEdits)
      /\ \A j \in 1 .. Len(rows) : rows[j] \in Row
  BY RowsAreTyped DEF Inv
<1>2. /\ effects' \in [Ids -> Seq(0 .. MaxEdits)]
      /\ Len(effects'[i]) = Len(effects[i]) + 1
      /\ effects'[i][Len(effects[i]) + 1] = e /\ effects'[i] # <<>>
      /\ \A k \in 1 .. Len(effects[i]) : effects'[i][k] = effects[i][k]
      /\ \A j \in Ids : j # i => effects'[j] = effects[j]
  BY <1>1, DoneAppends DEF Inv
<1>3. Len(effects[i]) \in Nat
  BY <1>1, LenProperties
<1>4. rows[i].kind = "reload" => e >= rows[i].wants
  <2>1. rows[i].wants \in Nat /\ file \in Nat
    BY <1>1, BoundsAssumption DEF Row, Inv, TypeOK
  <2> QED BY <2>1 DEF Inv, EffectsFit
<1>5. \A j \in 1 .. Len(rows) : rows[j].kind = "reload" =>
          \A k \in 1 .. Len(effects'[j]) : effects'[j][k] >= rows[j].wants
  <2> SUFFICES ASSUME NEW j \in 1 .. Len(rows), rows[j].kind = "reload",
                      NEW k \in 1 .. Len(effects'[j])
               PROVE  effects'[j][k] >= rows[j].wants
    OBVIOUS
  <2>1. CASE j # i
    BY <1>1, <1>2, <2>1 DEF Inv, EffectsFit
  <2>2. CASE j = i
    <3>1. CASE k = Len(effects[i]) + 1
      BY <1>2, <1>4, <2>2, <3>1
    <3>2. CASE k # Len(effects[i]) + 1
      <4>1. k \in 1 .. Len(effects[i])
        BY <1>2, <1>3, <2>2, <3>2
      <4>2. effects[i][k] >= rows[i].wants
        BY <2>2, <4>1 DEF Inv, EffectsFit
      <4> QED BY <1>2, <2>2, <4>1, <4>2
    <3> QED BY <3>1, <3>2
  <2> QED BY <2>1, <2>2
<1>6. EffectsFit'
  <2>1. \A j \in Ids : j > Len(rows) => effects'[j] = <<>>
    <3>1. \A j \in Ids : j > Len(rows) => effects[j] = <<>> /\ j # i
      BY <1>1 DEF Inv, EffectsFit
    <3> QED BY <1>2, <3>1
  <2>2. \A j \in 1 .. Len(rows) : rows'[j].wants <= file'
    BY DEF Inv, EffectsFit
  <2> QED BY <1>5, <2>1, <2>2 DEF EffectsFit
<1>7. AppliedWasDone'
  <2> SUFFICES ASSUME NEW j \in 1 .. Len(rows), rows[j].outcome = "applied"
               PROVE  /\ effects'[j] # <<>>
                      /\ rows[j].kind = "reload" => effects'[j][Len(effects'[j])] >= rows[j].wants
    BY DEF AppliedWasDone
  <2>1. CASE j # i
    BY <1>1, <1>2, <2>1 DEF Inv, AppliedWasDone
  <2>2. CASE j = i
    BY <1>2, <1>3, <1>4, <2>2
  <2> QED BY <2>1, <2>2
<1> QED BY <1>2, <1>6, <1>7

(* A step of serve at work: it may put the file in force, and do a job.    *)
LEMMA WorkOnly ==
  ASSUME Inv, serve' \in ServeState, serve'.boot = serve.boot, serve'.phase = "work",
         UNCHANGED <<file, signals, asking, rows, recorded, trail, hup>>,
         inForce' \in {inForce, file},
         effects' \in [Ids -> Seq(0 .. MaxEdits)], EffectsFit', AppliedWasDone',
         LocalsTell', JobsAreRows', AppliedInHand', NotedIsOnTrail'
  PROVE  Inv'
<1>1. TypeOK'
  BY DEF Inv, TypeOK
<1>2. FiledOnce' /\ AnswersAreOnTrail'
  BY DEF Inv, FiledOnce, Filed, AnswersAreOnTrail
<1>3. BootsInOrder'
  BY DEF Inv, BootsInOrder
<1>4. \A q \in Requesters : asking[q].pc = "await" =>
          /\ file >= rows[asking[q].id].wants
          /\ rows[asking[q].id].by = "boot" => inForce >= rows[asking[q].id].wants
  <2>1. \A q \in Requesters : asking[q].pc = "await" => asking[q].id \in 1 .. Len(rows)
    BY DEF Inv, FiledOnce
  <2>2. \A i \in 1 .. Len(rows) : file >= rows[i].wants
    <3>1. \A i \in 1 .. Len(rows) : rows[i].wants \in Nat
      BY RowsAreTyped, BoundsAssumption DEF Inv, Row
    <3>2. file \in Nat
      BY BoundsAssumption DEF Inv, TypeOK
    <3> QED BY <3>1, <3>2 DEF Inv, EffectsFit
  <2> QED BY <2>1, <2>2 DEF Inv, RungSupersededIsInForce
<1>5. RungSupersededIsInForce'
  BY <1>4 DEF RungSupersededIsInForce
<1>6. SupersededInOrder'
  <2>1. serve'.pc # "built" /\ serve'.phase # "leftover"
    BY DEF LocalsTell
  <2> QED BY <2>1 DEF Inv, SupersededInOrder
<1> QED
  BY <1>1, <1>2, <1>3, <1>5, <1>6 DEF Inv

LEMMA WorkInv ==
  ASSUME Inv, NEW ok \in BOOLEAN, Reload(ok) \/ Redial(ok)
  PROVE  Inv'
<1>1. /\ UNCHANGED <<file, signals, asking, rows, recorded, trail, hup>> /\ serve \in ServeState
      /\ serve.pc = "next" /\ serve.phase = "work" /\ serve.todo # <<>>
      /\ effects \in [Ids -> Seq(0 .. MaxEdits)] /\ file \in 0 .. MaxEdits /\ inForce \in 0 .. MaxEdits
  BY DEF Reload, Redial, Working, Unserved, Inv, TypeOK
<1>2. /\ serve.todo \in Seq(Jobs) /\ Job = serve.todo[1] /\ Job \in Jobs
      /\ Tail(serve.todo) \in Seq(Jobs) /\ Len(Tail(serve.todo)) = Len(serve.todo) - 1
      /\ Len(serve.todo) \in Nat /\ Len(serve.todo) >= 1
      /\ \A k \in 1 .. Len(Tail(serve.todo)) :
            Tail(serve.todo)[k] = serve.todo[k + 1] /\ k + 1 \in 1 .. Len(serve.todo)
  BY <1>1, TailShifts DEF ServeState, Job
<1>3. Job # Signal => Job \in 1 .. Len(rows) /\ Job \in Ids
  <2>1. 1 \in 1 .. Len(serve.todo)
    BY <1>2
  <2>2. 1 .. Len(rows) \subseteq Ids
    BY RowsAreTyped DEF Inv
  <2> QED BY <1>2, <2>1, <2>2 DEF Inv, JobsAreRows
<1>4. /\ \A k \in 1 .. Len(serve.redials) : serve.redials[k] \in Ids
      /\ Len(serve.redials) \in Nat /\ serve.redials \in Seq(Ids)
  BY <1>1, ElementOfSeq, LenProperties DEF ServeState
<1>5. CASE Reload(ok)
  <2>1. /\ serve' \in ServeState /\ serve'.pc = "record" /\ serve'.todo = serve.todo
        /\ serve'.boot = serve.boot /\ serve'.phase = "work" /\ serve'.redials = serve.redials
        /\ serve'.outcome = (IF ok THEN "applied" ELSE "refused") /\ Job' = Job
    BY <1>1, <1>5 DEF Reload, ServeState, Outcomes, Job
  <2>2. LocalsTell' /\ JobsAreRows' /\ NotedIsOnTrail'
    BY <1>1, <2>1, NoneAssumption DEF Inv, LocalsTell, JobsAreRows, NotedIsOnTrail, Outcomes
  <2>3. inForce' \in {inForce, file}
    BY <1>5 DEF Reload
  <2>4. /\ effects' \in [Ids -> Seq(0 .. MaxEdits)] /\ EffectsFit' /\ AppliedWasDone'
        /\ \A j \in Ids : effects[j] # <<>> => effects'[j] # <<>>
        /\ ok /\ Job # Signal => effects'[Job] # <<>>
    <3>1. CASE ~ok \/ Job = Signal
      <4>1. effects' = effects
        BY <1>5, <3>1 DEF Reload, Done
      <4> QED BY <1>1, <3>1, <4>1 DEF Inv, EffectsFit, AppliedWasDone
    <3>2. CASE ok /\ Job # Signal
      BY <1>1, <1>3, <1>5, <3>2, DoneFits DEF Reload
    <3> QED BY <3>1, <3>2
  <2>5. AppliedInHand'
    BY <1>1, <1>4, <2>1, <2>4 DEF Inv, AppliedInHand
  <2> QED BY <1>1, <2>1, <2>2, <2>3, <2>4, <2>5, WorkOnly
<1>6. CASE Redial(ok) /\ ~ok
  <2>1. /\ serve' \in ServeState /\ serve'.pc = "record" /\ serve'.todo = serve.todo
        /\ serve'.boot = serve.boot /\ serve'.phase = "work" /\ serve'.redials = serve.redials
        /\ serve'.outcome = "refused" /\ effects' = effects /\ inForce' = inForce
    BY <1>1, <1>6 DEF Redial, ServeState, Outcomes
  <2>2. LocalsTell' /\ JobsAreRows' /\ NotedIsOnTrail'
    BY <1>1, <2>1, NoneAssumption DEF Inv, LocalsTell, JobsAreRows, NotedIsOnTrail, Outcomes
  <2>3. AppliedInHand' /\ EffectsFit' /\ AppliedWasDone'
    BY <1>1, <2>1 DEF Inv, AppliedInHand, EffectsFit, AppliedWasDone
  <2> QED BY <1>1, <2>1, <2>2, <2>3, WorkOnly
<1>7. CASE Redial(ok) /\ ok
  <2>1. Job # Signal /\ rows[Job].kind = "redial" /\ inForce' = inForce
    BY <1>7 DEF Redial
  <2>2. /\ Append(serve.redials, Job) \in Seq(Ids)
        /\ Len(Append(serve.redials, Job)) = Len(serve.redials) + 1
        /\ Append(serve.redials, Job)[Len(serve.redials) + 1] = Job
        /\ \A k \in 1 .. Len(serve.redials) : Append(serve.redials, Job)[k] = serve.redials[k]
    BY <1>3, <1>4, <2>1, AppendProperties
  <2>3. /\ serve' \in ServeState /\ serve'.pc = "next" /\ serve'.todo = Tail(serve.todo)
        /\ serve'.boot = serve.boot /\ serve'.phase = "work"
        /\ serve'.redials = Append(serve.redials, Job)
    BY <1>1, <1>2, <1>7, <2>2 DEF Redial, ServeState
  <2>4. /\ effects' \in [Ids -> Seq(0 .. MaxEdits)] /\ EffectsFit' /\ AppliedWasDone'
        /\ \A j \in Ids : effects[j] # <<>> => effects'[j] # <<>>
        /\ effects'[Job] # <<>>
    <3>1. Done(Job, inForce)
      BY <1>7 DEF Redial
    <3> QED BY <1>1, <1>3, <2>1, <3>1, DoneFits
  <2>5. \A k \in 1 .. Len(serve'.redials) : k \in 1 .. Len(serve.redials) \/ serve'.redials[k] = Job
    BY <1>4, <2>2, <2>3
  <2>6. LocalsTell' /\ NotedIsOnTrail'
    BY <1>1, <2>3, NoneAssumption DEF Inv, LocalsTell, NotedIsOnTrail
  <2>7. JobsAreRows'
    <3>1. \A k \in 1 .. Len(serve'.redials) : serve'.redials[k] \in 1 .. Len(rows)
      BY <1>3, <2>1, <2>2, <2>3, <2>5 DEF Inv, JobsAreRows
    <3>2. \A k \in 1 .. Len(serve'.todo) : serve'.todo[k] \in 1 .. Len(rows) \/ serve'.todo[k] = Signal
      BY <1>2, <2>3 DEF Inv, JobsAreRows
    <3> QED BY <1>1, <2>3, <3>1, <3>2 DEF JobsAreRows
  <2>8. AppliedInHand'
    <3>1. \A k \in 1 .. Len(serve'.redials) : effects'[serve'.redials[k]] # <<>>
      BY <1>4, <2>2, <2>3, <2>4, <2>5 DEF Inv, AppliedInHand
    <3> QED BY <2>3, <3>1 DEF AppliedInHand
  <2> QED BY <1>1, <2>1, <2>3, <2>4, <2>6, <2>7, <2>8, WorkOnly
<1> QED
  BY <1>5, <1>6, <1>7

LEMMA WriteAnswerInv ==
  ASSUME Inv, NEW ok \in BOOLEAN, WriteAnswer(ok)
  PROVE  Inv'
<1> DEFINE i == Job
           by == IF serve.phase = "leftover" THEN "boot" ELSE "serve"
<1>1. /\ UNCHANGED <<file, signals, asking, recorded, inForce, trail, effects, hup>>
      /\ hup \in BOOLEAN /\ serve \in ServeState
      /\ serve.pc = "write" /\ serve.todo # <<>> /\ serve.outcome \in Outcomes /\ serve.noted \in BOOLEAN
      /\ Job # Signal
  BY DEF WriteAnswer, Unserved, Inv, TypeOK, LocalsTell, ServeState
<1>2. /\ serve.todo \in Seq(Jobs) /\ Job = serve.todo[1]
      /\ Tail(serve.todo) \in Seq(Jobs) /\ Len(Tail(serve.todo)) = Len(serve.todo) - 1
      /\ Len(serve.todo) \in Nat /\ Len(serve.todo) >= 1
      /\ \A k \in 1 .. Len(Tail(serve.todo)) :
            Tail(serve.todo)[k] = serve.todo[k + 1] /\ k + 1 \in 1 .. Len(serve.todo)
  BY <1>1, TailShifts DEF ServeState, Job
<1>3. i \in 1 .. Len(rows)
  BY <1>1, <1>2 DEF Inv, JobsAreRows
<1>4. /\ serve' \in ServeState /\ serve'.pc = "next" /\ serve'.todo = Tail(serve.todo)
      /\ serve'.boot = serve.boot /\ serve'.phase = serve.phase /\ serve'.redials = serve.redials
  BY <1>1, <1>2 DEF WriteAnswer, ServeState
<1>5. Finish(i, serve.outcome, by, serve.noted) \/ UNCHANGED rows
  BY DEF WriteAnswer
<1>6. by = "boot" => \A q \in Requesters : asking[q].id = i =>
             /\ asking[q].pc = "filed" => asking[q].ring < serve.boot
             /\ asking[q].pc = "await" => inForce >= rows[i].wants
  <2> SUFFICES ASSUME serve.phase = "leftover", NEW q \in Requesters, asking[q].id = i
               PROVE  /\ asking[q].pc = "filed" => asking[q].ring < serve.boot
                      /\ asking[q].pc = "await" => inForce >= rows[i].wants
    OBVIOUS
  <2>1. recorded # serve.boot
    BY <1>1 DEF Inv, BootsInOrder
  <2>2. serve.boot \in Nat /\ recorded \in Nat /\ recorded <= serve.boot
    BY <1>1, BoundsAssumption DEF Inv, TypeOK, ServeState, BootsInOrder
  <2>3. asking[q].pc = "filed" => asking[q].ring \in 1 .. recorded
    BY DEF Inv, BootsInOrder
  <2>4. asking[q].pc = "await" => inForce >= rows[i].wants
    BY DEF Inv, SupersededInOrder
  <2> QED BY <2>1, <2>2, <2>3, <2>4
<1>7. /\ rows' \in Seq(Row) /\ Len(rows') = Len(rows)
      /\ AppliedWasDone' /\ AnswersAreOnTrail' /\ EffectsFit'
      /\ \A q \in Requesters :
           /\ asking[q].pc = "filed" /\ rows'[asking[q].id].by = "boot" => asking[q].ring < serve.boot
           /\ asking[q].pc = "await" =>
                /\ rows'[asking[q].id].by = "boot" => inForce >= rows'[asking[q].id].wants
                /\ (serve.pc = "built" \/ serve.phase = "leftover")
                     => inForce >= rows'[asking[q].id].wants
  <2>1. serve.outcome = "applied" => effects[i] # <<>>
    BY <1>1 DEF Inv, AppliedInHand
  <2>2. serve.noted => <<i, serve.outcome>> \in trail
    BY <1>1 DEF Inv, NotedIsOnTrail
  <2>3. by \in {"serve", "boot", "requester"}
    OBVIOUS
  <2> HIDE DEF i, by
  <2> QED BY <1>1, <1>3, <1>5, <1>6, <2>1, <2>2, <2>3, AnswerKeeps
<1>8. TypeOK'
  BY <1>1, <1>4, <1>7 DEF Inv, TypeOK
<1>9. FiledOnce'
  BY <1>1, <1>7 DEF Inv, FiledOnce, Filed
<1>10. LocalsTell' /\ NotedIsOnTrail'
  BY <1>1, <1>4, NoneAssumption DEF Inv, LocalsTell, NotedIsOnTrail
<1>11. JobsAreRows' /\ AppliedInHand'
  BY <1>1, <1>2, <1>4, <1>7 DEF Inv, JobsAreRows, AppliedInHand
<1>12. BootsInOrder'
  BY <1>1, <1>4 DEF Inv, BootsInOrder
<1>13. SupersededInOrder' /\ RungSupersededIsInForce'
  BY <1>1, <1>4, <1>7 DEF SupersededInOrder, RungSupersededIsInForce
<1> QED
  BY <1>7, <1>8, <1>9, <1>10, <1>11, <1>12, <1>13 DEF Inv

-----------------------------------------------------------------------------
LEMMA NextInv == Inv /\ [Next]_vars => Inv'
<1> SUFFICES ASSUME Inv, [Next]_vars PROVE Inv'
  OBVIOUS
<1>1. CASE UNCHANGED vars
  BY <1>1 DEF vars, Inv, TypeOK, LocalsTell, JobsAreRows, FiledOnce, Filed, EffectsFit, AppliedInHand,
     AppliedWasDone, NotedIsOnTrail, AnswersAreOnTrail, BootsInOrder, SupersededInOrder,
     RungSupersededIsInForce, Job
<1>2. CASE \E q \in Requesters : RequesterStep(q)
  BY <1>2, RequesterInv
<1>3. CASE BareSignal \/ Edit
  BY <1>3, SurroundingsInv
<1>4. CASE ServeStep
  <2>1. StoreResults \subseteq BOOLEAN
    BY SwitchesAssumption DEF StoreResults
  <2> QED
    BY <1>4, <2>1, LifeInv, ReadingInv, MovingInv, RecordRowInv, WorkInv, WriteAnswerInv DEF ServeStep
<1>5. CASE ServeDies
  BY <1>5, LifeInv
<1> QED
  BY <1>1, <1>2, <1>3, <1>4, <1>5 DEF Next

(* The invariant, at every reachable state: for any number of requesters,  *)
(* starts, edits and signals, with a database that may fail anywhere and a *)
(* serve that may die anywhere.                                            *)
THEOREM InvAlways == Spec => []Inv
<1> QED BY InitInv, NextInv, PTL DEF Spec

(* What a requester is told is so (handleControl, finish, announce).       *)
THEOREM AnswersAlwaysTrue == Spec => []AnswersAreTrue
<1>1. Inv => AnswersAreTrue
  BY DEF Inv, AnswersAreTrue
<1> QED BY <1>1, InvAlways, PTL

LEMMA AnsweredIsKept ==
  ASSUME Inv, [Next]_vars
  PROVE  \A i \in 1 .. Len(rows) : ~IsPending(i) => rows'[i] = rows[i]
<1>1. CASE UNCHANGED rows
  BY <1>1
<1>2. ASSUME NEW q \in Requesters, NEW kind \in Kinds, File(q, kind)
      PROVE  \A i \in 1 .. Len(rows) : rows'[i] = rows[i]
  <2> DEFINE r == [kind |-> kind, wants |-> file, state |-> "pending",
                   outcome |-> None, by |-> None, recorded |-> FALSE]
  <2>1. rows' = Append(rows, r) /\ rows \in Seq(Row)
    BY <1>2 DEF File, Inv, TypeOK
  <2>2. r \in Row
    BY DEF Row, Inv, TypeOK
  <2> HIDE DEF r
  <2> QED BY <2>1, <2>2, AppendProperties
<1>3. ASSUME NEW q \in Requesters, NEW ok \in BOOLEAN, Abandon(q, ok)
      PROVE  \A i \in 1 .. Len(rows) : ~IsPending(i) => rows'[i] = rows[i]
  <2>1. asking[q].id \in 1 .. Len(rows) /\ "refused" \in Outcomes
    BY <1>3 DEF Abandon, Inv, FiledOnce, Outcomes
  <2>2. Finish(asking[q].id, "refused", "requester", FALSE) \/ UNCHANGED rows
    BY <1>3 DEF Abandon
  <2>3. TypeOK
    BY DEF Inv
  <2> QED BY <2>1, <2>2, <2>3, FinishRows
<1>4. ASSUME NEW ok \in BOOLEAN, WriteAnswer(ok)
      PROVE  \A i \in 1 .. Len(rows) : ~IsPending(i) => rows'[i] = rows[i]
  <2>1. /\ serve.outcome \in Outcomes /\ serve.noted \in BOOLEAN /\ TypeOK
        /\ serve.todo # <<>> /\ serve.todo \in Seq(Jobs) /\ Job # Signal
    BY <1>4 DEF WriteAnswer, Inv, LocalsTell, TypeOK, ServeState
  <2>2. Job \in 1 .. Len(rows)
    BY <2>1, TailShifts DEF Inv, JobsAreRows, Job
  <2>3. \/ UNCHANGED rows
        \/ Finish(Job, serve.outcome, "boot", serve.noted)
        \/ Finish(Job, serve.outcome, "serve", serve.noted)
    BY <1>4 DEF WriteAnswer
  <2> QED BY <2>1, <2>2, <2>3, FinishRows
<1>5. StoreResults \subseteq BOOLEAN
  BY SwitchesAssumption DEF StoreResults
<1> USE DEF Unasked, Unserved
<1>6. CASE \E q \in Requesters : RequesterStep(q)
  BY <1>1, <1>2, <1>3, <1>5, <1>6 DEF RequesterStep, LookUp, Await, FileFails, Ring, RingFails, RequesterDies
<1>7. CASE ServeStep
  BY <1>1, <1>4, <1>5, <1>7 DEF ServeStep, Start, LoadConfig, ReadLeftovers, RecordProcess, Supersede,
     LeftoversDone, Wake, TakePending, RecordRow, Reload, Redial, Round, AnswerRedial, HandleDone
<1>8. CASE BareSignal \/ Edit \/ ServeDies \/ UNCHANGED vars
  BY <1>1, <1>8 DEF BareSignal, Edit, ServeDies, vars
<1> QED
  BY <1>6, <1>7, <1>8 DEF Next

(* An answered request is never answered again, whoever writes second      *)
(* (control/sqlite Finish).                                                *)
THEOREM FirstAnswerAlwaysStands == Spec => FirstAnswerStands
<1>1. Inv /\ [Next]_vars
         => [\A i \in 1 .. Len(rows) : ~IsPending(i) => rows'[i] = rows[i]]_vars
  BY AnsweredIsKept
<1> QED BY <1>1, InvAlways, PTL DEF Spec, FirstAnswerStands

-----------------------------------------------------------------------------
(* While the database answers, nothing is done twice.                      *)

(* What a step must show of the rows that wait and were done.              *)
WaitsInHand == \A i \in 1 .. Len(rows) : IsPending(i) /\ effects[i] # <<>> => InHand(i)

WorkIsFresh ==
    serve.phase = "work" =>
        /\ \A j, k \in 1 .. Len(serve.todo) : j # k => serve.todo[j] # serve.todo[k]
        /\ \A k \in 1 .. Len(serve.todo) : serve.pc = "next" \/ k > 1 => Undone(k)

LEMMA DoneOnceParts == DoneOnceInv <=> DoneAtMostOnce /\ WaitsInHand /\ WorkIsFresh
BY DEF DoneOnceInv, WaitsInHand, WorkIsFresh

(* A step that leaves serve and the history alone, and puts no done row    *)
(* back to waiting.                                                        *)
LEMMA AsideKeepsOnce ==
  ASSUME Inv, DoneOnceInv, UNCHANGED <<serve, effects>>,
         \A i \in 1 .. Len(rows') : IsPending(i)' /\ effects[i] # <<>> => i \in 1 .. Len(rows) /\ IsPending(i)
  PROVE  DoneOnceInv'
<1>1. DoneAtMostOnce' /\ WorkIsFresh'
  BY DoneOnceParts DEF DoneAtMostOnce, WorkIsFresh, Undone
<1>2. \A i : InHand(i)' <=> InHand(i)
  BY DEF InHand, Job
<1>3. WaitsInHand'
  BY <1>2, DoneOnceParts DEF WaitsInHand
<1> QED BY <1>1, <1>3 DEF DoneOnceInv, WaitsInHand, WorkIsFresh

LEMMA RequestersOnce ==
  ASSUME Inv, DoneOnceInv,
         (\E q \in Requesters : RequesterStep(q)) \/ BareSignal \/ Edit
  PROVE  DoneOnceInv'
<1>1. UNCHANGED <<serve, effects>>
  BY DEF RequesterStep, LookUp, Abandon, Await, File, FileFails, Ring, RingFails, RequesterDies, Unasked,
         BareSignal, Edit
<1>2. CASE UNCHANGED rows
  BY <1>1, <1>2, AsideKeepsOnce DEF IsPending
<1>3. CASE \E q \in Requesters : \E kind \in Kinds : File(q, kind)
  <2>1. PICK q \in Requesters, kind \in Kinds : File(q, kind)
    BY <1>3
  <2> DEFINE r == [kind |-> kind, wants |-> file, state |-> "pending",
                   outcome |-> None, by |-> None, recorded |-> FALSE]
  <2>2. rows' = Append(rows, r) /\ rows \in Seq(Row) /\ Len(rows) \in Nat
    BY <2>1, RowsAreTyped DEF File, Inv, TypeOK
  <2>3. r \in Row
    BY DEF Row, Inv, TypeOK
  <2> HIDE DEF r
  <2>4. Len(rows') = Len(rows) + 1 /\ \A i \in 1 .. Len(rows) : rows'[i] = rows[i]
    BY <2>2, <2>3, AppendProperties
  <2>5. Inv'
    BY <2>1, FileInv
  <2>6. Len(rows') <= Cardinality(Requesters)
    BY <2>5 DEF Inv, TypeOK
  <2>7. effects[Len(rows) + 1] = <<>>
    <3>1. Len(rows) + 1 \in Ids /\ Len(rows) + 1 > Len(rows)
      BY <2>2, <2>4, <2>6, CountsAreNat DEF Ids
    <3> QED BY <3>1 DEF Inv, EffectsFit
  <2>8. \A i \in 1 .. Len(rows') : i = Len(rows) + 1 \/ i \in 1 .. Len(rows)
    BY <2>2, <2>4
  <2> QED BY <1>1, <2>4, <2>7, <2>8, AsideKeepsOnce DEF IsPending
<1>4. CASE \E q \in Requesters : \E ok \in StoreResults : Abandon(q, ok)
  <2>1. PICK q \in Requesters, ok \in StoreResults : Abandon(q, ok)
    BY <1>4
  <2>2. Finish(asking[q].id, "refused", "requester", FALSE) \/ UNCHANGED rows
    BY <2>1 DEF Abandon
  <2>3. asking[q].id \in 1 .. Len(rows) /\ "refused" \in Outcomes /\ TypeOK
    BY <2>1 DEF Abandon, Inv, FiledOnce, Outcomes
  <2>4. Len(rows') = Len(rows) /\ \A i \in 1 .. Len(rows) : ~IsPending(i) => rows'[i] = rows[i]
    BY <2>2, <2>3, FinishRows
  <2> QED BY <1>1, <2>4, AsideKeepsOnce DEF IsPending
<1> QED
  BY <1>2, <1>3, <1>4
     DEF RequesterStep, LookUp, Await, FileFails, Ring, RingFails, RequesterDies, Unasked, BareSignal, Edit

(* A step of serve's locals that keeps hold of what it had in hand.        *)
LEMMA ServeKeepsOnce ==
  ASSUME Inv, DoneOnceInv, UNCHANGED <<rows, effects>>,
         \A i \in 1 .. Len(rows) : IsPending(i) /\ effects[i] # <<>> => InHand(i)',
         WorkIsFresh'
  PROVE  DoneOnceInv'
BY DEF DoneOnceInv, WaitsInHand, WorkIsFresh, DoneAtMostOnce, IsPending

LEMMA LifeOnce ==
  ASSUME Inv, Inv', DoneOnceInv,
         Start \/ LoadConfig \/ ReadLeftovers(TRUE) \/ RecordProcess(TRUE) \/ ServeDies
  PROVE  DoneOnceInv'
<1>1. UNCHANGED <<rows, effects>> /\ serve \in ServeState
  BY DEF Start, LoadConfig, ReadLeftovers, RecordProcess, ServeDies, Unserved, Inv, TypeOK
<1>2. serve'.phase # "work"
  <2>1. serve'.pc \in {"load", "built", "idle", "down"} \/ serve'.phase = "leftover"
    BY <1>1 DEF Start, LoadConfig, ReadLeftovers, RecordProcess, ServeDies, ServeState
  <2> QED BY <2>1 DEF Inv, LocalsTell
<1>3. WorkIsFresh'
  BY <1>2 DEF WorkIsFresh
<1>4. CASE Start \/ LoadConfig \/ ServeDies
  <2>1. serve'.pc \in {"load", "built", "down"}
    BY <1>1, <1>4 DEF Start, LoadConfig, ServeDies, ServeState
  <2> QED BY <1>1, <1>3, <2>1, ServeKeepsOnce DEF InHand
<1>5. CASE ReadLeftovers(TRUE)
  <2>1. serve'.phase = "leftover" /\ serve'.todo = Pending
    BY <1>1, <1>5 DEF ReadLeftovers, ServeState
  <2>2. \A i \in 1 .. Len(rows) : IsPending(i) => \E k \in 1 .. Len(Pending) : Pending[k] = i
    BY RowsAreTyped, PendingIsInOrder DEF Inv, Waiting
  <2> QED BY <1>1, <1>3, <2>1, <2>2, ServeKeepsOnce DEF InHand
<1>6. CASE RecordProcess(TRUE)
  <2>1. serve.pc = "register" /\ serve.todo = <<>> /\ Len(serve.todo) = 0
    BY <1>6 DEF RecordProcess, Inv, LocalsTell
  <2>2. serve.phase = "leftover"
    BY <1>1, <2>1, NoneAssumption DEF Inv, LocalsTell, ServeState
  <2>3. \A i : ~InHand(i)
    BY <2>1, <2>2 DEF InHand
  <2> QED BY <1>1, <1>3, <2>3, ServeKeepsOnce DEF DoneOnceInv
<1> QED BY <1>4, <1>5, <1>6

LEMMA MovingOnce ==
  ASSUME Inv, Inv', DoneOnceInv,
         \/ Supersede \/ LeftoversDone \/ Wake \/ Round \/ AnswerRedial \/ HandleDone
         \/ TakePending(TRUE)
  PROVE  DoneOnceInv'
<1>1. UNCHANGED <<rows, effects>> /\ serve \in ServeState
  BY DEF Supersede, LeftoversDone, Wake, Round, AnswerRedial, HandleDone, TakePending, Unserved, Inv, TypeOK
<1>2. Len(<<>>) = 0
  OBVIOUS
<1>3. CASE Supersede \/ AnswerRedial
  <2>1. /\ serve'.phase = serve.phase /\ serve'.todo = serve.todo
        /\ serve.phase \in {"leftover", "answer"} /\ serve.pc = "next"
    BY <1>1, <1>3 DEF Supersede, AnswerRedial, ServeState
  <2>2. WorkIsFresh'
    BY <2>1 DEF WorkIsFresh
  <2>3. \A i : InHand(i) => InHand(i)'
    BY <2>1 DEF InHand
  <2> QED BY <1>1, <2>2, <2>3, ServeKeepsOnce DEF DoneOnceInv
<1>4. CASE LeftoversDone \/ HandleDone \/ Wake
  <2>1. \A i : ~InHand(i)
    BY <1>2, <1>4, NoneAssumption DEF LeftoversDone, HandleDone, Wake, InHand, Inv, LocalsTell
  <2>2. serve'.phase # "work"
    BY <1>1, <1>4, NoneAssumption DEF LeftoversDone, HandleDone, Wake, ServeState, Inv, LocalsTell
  <2> QED BY <1>1, <2>1, <2>2, ServeKeepsOnce DEF DoneOnceInv, WorkIsFresh
<1>5. CASE Round
  <2>1. /\ serve'.phase = "answer" /\ serve'.todo = serve.redials /\ serve.phase = "work"
        /\ serve.pc = "next"
    BY <1>1, <1>5 DEF Round, ServeState
  <2>2. \A i : InHand(i) => InHand(i)'
    BY <2>1 DEF InHand
  <2> QED BY <1>1, <2>1, <2>2, ServeKeepsOnce DEF DoneOnceInv, WorkIsFresh
<1>6. CASE TakePending(TRUE)
  <2> DEFINE t == IF Pending # <<>> THEN Pending ELSE <<Signal>>
  <2>1. serve'.phase = "work" /\ serve'.todo = t /\ serve.pc = "read" /\ serve.phase = None
    BY <1>1, <1>6 DEF TakePending, ServeState, Inv, LocalsTell
  <2>2. \A i : ~InHand(i)
    BY <2>1, NoneAssumption DEF InHand
  <2>3. /\ \A j, k \in 1 .. Len(t) : j # k => t[j] # t[k]
        /\ \A k \in 1 .. Len(t) : t[k] # Signal => effects[t[k]] = <<>>
    <3>1. CASE Pending = <<>>
      <4>1. t = <<Signal>> /\ Len(t) = 1 /\ t[1] = Signal
        BY <3>1
      <4> QED BY <4>1
    <3>2. CASE Pending # <<>>
      <4>1. /\ \A j, k \in 1 .. Len(Pending) : j # k => Pending[j] # Pending[k]
            /\ \A k \in 1 .. Len(Pending) : Pending[k] \in Waiting
        BY RowsAreTyped, PendingIsInOrder, ElementOfSeq DEF Inv
      <4>2. \A i \in Waiting : effects[i] = <<>>
        BY <2>2 DEF DoneOnceInv, Waiting
      <4> QED BY <3>2, <4>1, <4>2
    <3> QED BY <3>1, <3>2
  <2> HIDE DEF t
  <2>4. WorkIsFresh'
    BY <1>1, <2>1, <2>3 DEF WorkIsFresh, Undone
  <2> QED BY <1>1, <2>2, <2>4, ServeKeepsOnce DEF DoneOnceInv
<1> QED BY <1>3, <1>4, <1>5, <1>6

LEMMA WorkOnce ==
  ASSUME Inv, Inv', DoneOnceInv, NEW ok \in BOOLEAN, Reload(ok) \/ Redial(ok)
  PROVE  DoneOnceInv'
<1>1. /\ rows' = rows /\ serve \in ServeState /\ TypeOK
      /\ serve.pc = "next" /\ serve.phase = "work" /\ serve.todo # <<>>
      /\ file \in 0 .. MaxEdits /\ inForce \in 0 .. MaxEdits
  BY DEF Reload, Redial, Working, Unserved, Inv, TypeOK
<1>2. /\ Job = serve.todo[1] /\ Len(Tail(serve.todo)) = Len(serve.todo) - 1
      /\ Len(serve.todo) \in Nat /\ Len(serve.todo) >= 1
      /\ \A k \in 1 .. Len(Tail(serve.todo)) :
            Tail(serve.todo)[k] = serve.todo[k + 1] /\ k + 1 \in 2 .. Len(serve.todo)
  BY <1>1, TailShifts DEF ServeState, Job
<1>3. /\ \A k \in 1 .. Len(serve.todo) : serve.todo[k] = Signal \/ serve.todo[k] \in Ids
      /\ \A k \in 2 .. Len(serve.todo) : serve.todo[k] # Job /\ k \in 1 .. Len(serve.todo)
      /\ \A k \in 1 .. Len(serve.todo) : serve.todo[k] # Signal => effects[serve.todo[k]] = <<>>
      /\ \A j, k \in 1 .. Len(serve.todo) : j # k => serve.todo[j] # serve.todo[k]
  <2>1. \A k \in 1 .. Len(serve.todo) : serve.todo[k] = Signal \/ serve.todo[k] \in Ids
    BY <1>1, RowsAreTyped DEF Jobs
  <2>2. /\ \A j, k \in 1 .. Len(serve.todo) : j # k => serve.todo[j] # serve.todo[k]
        /\ \A k \in 1 .. Len(serve.todo) : serve.todo[k] # Signal => effects[serve.todo[k]] = <<>>
    BY <1>1 DEF DoneOnceInv, Undone
  <2> QED BY <1>2, <2>1, <2>2
<1>4. Job # Signal => Job \in Ids /\ effects[Job] = <<>>
  <2>1. 1 \in 1 .. Len(serve.todo)
    BY <1>2
  <2> QED BY <1>2, <1>3, <2>1
<1>5. \A i : InHand(i) => \E k \in 1 .. Len(serve.redials) : serve.redials[k] = i
  BY <1>1 DEF InHand
<1>6. /\ \A j \in Ids : j # Job => effects'[j] = effects[j]
      /\ \A j \in Ids : effects'[j] = effects[j] \/ (ok /\ j = Job /\ Len(effects'[j]) = 1)
      /\ ~ok => effects' = effects
  <2>1. CASE effects' = effects
    BY <2>1
  <2>2. CASE effects' # effects
    <3>1. ok /\ Job # Signal /\ (Done(Job, file) \/ Done(Job, inForce))
      BY <2>2 DEF Reload, Redial, Done
    <3>2. /\ Len(effects'[Job]) = Len(effects[Job]) + 1
          /\ \A j \in Ids : j # Job => effects'[j] = effects[j]
      BY <1>1, <1>4, <3>1, DoneAppends
    <3>3. Len(effects[Job]) = 0
      BY <1>4, <3>1
    <3> QED BY <3>1, <3>2, <3>3
  <2> QED BY <2>1, <2>2
<1>7. DoneAtMostOnce'
  <2>1. \A j \in Ids : Len(effects'[j]) = Len(effects[j]) \/ Len(effects'[j]) = 1
    BY <1>6
  <2>2. \A j \in Ids : Len(effects[j]) <= 1
    BY DEF DoneOnceInv, DoneAtMostOnce
  <2> QED BY <2>1, <2>2 DEF DoneAtMostOnce
<1>8. \A i \in 1 .. Len(rows) : IsPending(i)' /\ effects'[i] # <<>> =>
          (ok /\ i = Job) \/ \E k \in 1 .. Len(serve.redials) : serve.redials[k] = i
  <2>1. 1 .. Len(rows) \subseteq Ids
    BY <1>1, RowsAreTyped
  <2> QED BY <1>1, <1>5, <1>6, <2>1 DEF DoneOnceInv, IsPending
<1>9. CASE Reload(ok) \/ ~ok
  <2>1. /\ serve'.pc = "record" /\ serve'.phase = "work" /\ serve'.todo = serve.todo
        /\ serve'.redials = serve.redials
    BY <1>1, <1>9 DEF Reload, Redial, ServeState
  <2>2. \A i : (i = Job \/ \E k \in 1 .. Len(serve.redials) : serve.redials[k] = i) => InHand(i)'
    BY <2>1 DEF InHand, Job
  <2>3. WaitsInHand'
    BY <1>1, <1>8, <2>2 DEF WaitsInHand
  <2>4. WorkIsFresh'
    <3>1. \A k \in 1 .. Len(serve.todo) : k > 1 => k \in 2 .. Len(serve.todo)
      BY <1>2
    <3> QED BY <1>3, <1>6, <2>1, <3>1 DEF WorkIsFresh, Undone
  <2> QED BY <1>7, <2>3, <2>4 DEF DoneOnceInv, WaitsInHand, WorkIsFresh
<1>10. CASE Redial(ok) /\ ok
  <2>1. /\ serve'.pc = "next" /\ serve'.phase = "work" /\ serve'.todo = Tail(serve.todo)
        /\ serve'.redials = Append(serve.redials, Job)
        /\ serve.redials \in Seq(Ids) /\ Job # Signal /\ Len(serve.redials) \in Nat
    <3>1. serve' = [serve EXCEPT !.redials = Append(@, Job), !.todo = Tail(@)] /\ Job # Signal
      BY <1>10 DEF Redial
    <3>2. serve.redials \in Seq(Ids) /\ Len(serve.redials) \in Nat
      BY <1>1, LenProperties DEF ServeState
    <3> QED BY <1>1, <3>1, <3>2 DEF ServeState
  <2>2. \A i : (i = Job \/ \E k \in 1 .. Len(serve.redials) : serve.redials[k] = i)
              => \E k \in 1 .. Len(serve'.redials) : serve'.redials[k] = i
    BY <1>4, <2>1, AppendProperties
  <2>3. WaitsInHand'
    BY <1>1, <1>8, <2>1, <2>2 DEF WaitsInHand, InHand
  <2>4. \A k \in 1 .. Len(Tail(serve.todo)) :
            Tail(serve.todo)[k] # Signal => effects'[Tail(serve.todo)[k]] = <<>>
    BY <1>2, <1>3, <1>6
  <2>5. \A j, k \in 1 .. Len(Tail(serve.todo)) : j # k => Tail(serve.todo)[j] # Tail(serve.todo)[k]
    <3> SUFFICES ASSUME NEW j \in 1 .. Len(Tail(serve.todo)), NEW k \in 1 .. Len(Tail(serve.todo)), j # k
                 PROVE  Tail(serve.todo)[j] # Tail(serve.todo)[k]
      OBVIOUS
    <3>1. j + 1 # k + 1 /\ j + 1 \in 1 .. Len(serve.todo) /\ k + 1 \in 1 .. Len(serve.todo)
      BY <1>2
    <3> QED BY <1>2, <1>3, <3>1
  <2>6. WorkIsFresh'
    BY <2>1, <2>4, <2>5 DEF WorkIsFresh, Undone
  <2> QED BY <1>7, <2>3, <2>6 DEF DoneOnceInv, WaitsInHand, WorkIsFresh
<1> QED BY <1>9, <1>10

LEMMA AnsweringOnce ==
  ASSUME Inv, Inv', DoneOnceInv, RecordRow(TRUE) \/ WriteAnswer(TRUE)
  PROVE  DoneOnceInv'
<1>1. /\ effects' = effects /\ serve \in ServeState /\ TypeOK
      /\ serve.pc \in {"record", "write"} /\ serve.todo # <<>>
      /\ serve.outcome \in Outcomes /\ serve.noted \in BOOLEAN
  BY DEF RecordRow, WriteAnswer, Unserved, Inv, TypeOK, LocalsTell, ServeState
<1>2. /\ Job = serve.todo[1] /\ Len(Tail(serve.todo)) = Len(serve.todo) - 1
      /\ Len(serve.todo) \in Nat /\ Len(serve.todo) >= 1
      /\ \A k \in 1 .. Len(Tail(serve.todo)) :
            Tail(serve.todo)[k] = serve.todo[k + 1] /\ k + 1 \in 2 .. Len(serve.todo)
  BY <1>1, TailShifts DEF ServeState, Job
<1>3. CASE RecordRow(TRUE) /\ Job # Signal
  <2>1. /\ serve'.pc = "write" /\ serve'.phase = serve.phase /\ serve'.todo = serve.todo
        /\ serve'.redials = serve.redials /\ serve.pc = "record" /\ rows' = rows
    BY <1>1, <1>3 DEF RecordRow, ServeState
  <2>2. \A i : InHand(i) => InHand(i)'
    BY <2>1 DEF InHand, Job
  <2>3. WorkIsFresh'
    BY <1>1, <2>1 DEF DoneOnceInv, WorkIsFresh, Undone
  <2> QED BY <1>1, <2>1, <2>2, <2>3, ServeKeepsOnce DEF DoneOnceInv
<1>4. ASSUME serve'.todo = Tail(serve.todo), serve'.pc = "next", serve'.phase = serve.phase
      PROVE  WorkIsFresh'
  <2> SUFFICES ASSUME serve.phase = "work"
               PROVE  /\ \A j, k \in 1 .. Len(Tail(serve.todo)) :
                            j # k => Tail(serve.todo)[j] # Tail(serve.todo)[k]
                      /\ \A k \in 1 .. Len(Tail(serve.todo)) :
                            Tail(serve.todo)[k] # Signal => effects[Tail(serve.todo)[k]] = <<>>
    BY <1>1, <1>4 DEF WorkIsFresh, Undone
  <2>1. /\ \A j, k \in 1 .. Len(serve.todo) : j # k => serve.todo[j] # serve.todo[k]
        /\ \A k \in 1 .. Len(serve.todo) :
              k > 1 /\ serve.todo[k] # Signal => effects[serve.todo[k]] = <<>>
    BY DEF DoneOnceInv, Undone
  <2>2. ASSUME NEW j \in 1 .. Len(Tail(serve.todo)), NEW k \in 1 .. Len(Tail(serve.todo)), j # k
        PROVE  Tail(serve.todo)[j] # Tail(serve.todo)[k]
    <3>1. j + 1 # k + 1 /\ j + 1 \in 1 .. Len(serve.todo) /\ k + 1 \in 1 .. Len(serve.todo)
      BY <1>2, <2>2
    <3> QED BY <1>2, <2>1, <3>1
  <2>3. \A k \in 2 .. Len(serve.todo) : k \in 1 .. Len(serve.todo) /\ k > 1
    BY <1>2
  <2> QED BY <1>2, <2>1, <2>2, <2>3
<1>5. CASE RecordRow(TRUE) /\ Job = Signal
  <2>1. /\ serve'.pc = "next" /\ serve'.phase = serve.phase /\ serve'.todo = Tail(serve.todo)
        /\ serve'.redials = serve.redials /\ serve.pc = "record" /\ rows' = rows
    BY <1>1, <1>5 DEF RecordRow, ServeState
  <2>2. serve.phase = "work"
    <3>1. 1 \in 1 .. Len(serve.todo) /\ serve.todo[1] = Signal
      BY <1>2, <1>5
    <3>2. ~(Signal \in 1 .. Len(rows))
      BY <1>1, RowsAreTyped DEF Signal
    <3>3. serve.phase \notin {"leftover", "answer"}
      BY <3>1, <3>2 DEF Inv, JobsAreRows
    <3> QED BY <1>1, <3>3 DEF Inv, LocalsTell, ServeState
  <2>3. \A i \in 1 .. Len(rows) : InHand(i) => InHand(i)'
    <3>1. \A i \in 1 .. Len(rows) : i # Job
      BY <1>1, <1>5, RowsAreTyped DEF Signal
    <3> QED BY <2>1, <2>2, <3>1 DEF InHand
  <2> QED BY <1>1, <1>4, <2>1, <2>3, ServeKeepsOnce DEF DoneOnceInv
<1>6. CASE WriteAnswer(TRUE)
  <2>1. /\ serve'.pc = "next" /\ serve'.phase = serve.phase /\ serve'.todo = Tail(serve.todo)
        /\ serve'.redials = serve.redials /\ serve.pc = "write" /\ Job # Signal
    BY <1>1, <1>6 DEF WriteAnswer, ServeState, Inv, LocalsTell
  <2>2. Job \in 1 .. Len(rows)
    BY <1>2, <2>1 DEF Inv, JobsAreRows
  <2>3. /\ Len(rows') = Len(rows) /\ rows'[Job].state = "done"
        /\ \A i \in 1 .. Len(rows) : i # Job => rows'[i] = rows[i]
    <3>1. \/ Finish(Job, serve.outcome, "boot", serve.noted)
          \/ Finish(Job, serve.outcome, "serve", serve.noted)
      BY <1>6 DEF WriteAnswer
    <3> QED BY <1>1, <2>2, <3>1, FinishRows
  <2>4. \A i : i # Job /\ InHand(i) => InHand(i)'
    <3> SUFFICES ASSUME NEW i, i # Job, InHand(i) PROVE InHand(i)'
      OBVIOUS
    <3>1. CASE serve.phase \in {"leftover", "answer"} /\ \E k \in 1 .. Len(serve.todo) : serve.todo[k] = i
      <4>1. PICK k \in 1 .. Len(serve.todo) : serve.todo[k] = i
        BY <3>1
      <4>2. k # 1
        BY <1>2, <4>1
      <4>3. k - 1 \in 1 .. Len(Tail(serve.todo)) /\ Tail(serve.todo)[k - 1] = serve.todo[k]
        <5>1. k - 1 \in 1 .. Len(Tail(serve.todo)) /\ (k - 1) + 1 = k
          BY <1>2, <4>2
        <5> QED BY <1>2, <5>1
      <4> QED BY <2>1, <3>1, <4>1, <4>3 DEF InHand
    <3>2. CASE serve.phase = "work" /\ \E k \in 1 .. Len(serve.redials) : serve.redials[k] = i
      BY <2>1, <3>2 DEF InHand
    <3> QED BY <2>1, <3>1, <3>2 DEF InHand
  <2>5. WaitsInHand'
    BY <1>1, <2>3, <2>4 DEF DoneOnceInv, WaitsInHand, IsPending
  <2>6. DoneAtMostOnce'
    BY <1>1 DEF DoneOnceInv, DoneAtMostOnce
  <2> QED BY <1>4, <2>1, <2>5, <2>6 DEF DoneOnceInv, WaitsInHand, WorkIsFresh
<1> QED BY <1>3, <1>5, <1>6

(* While the database answers, no request is done twice, however often     *)
(* serve is signalled, dies and starts again (announce, handleControl).    *)
THEOREM AlwaysDoneAtMostOnce ==
  ASSUME ~StoreMayFail
  PROVE  Spec => []DoneAtMostOnce
<1>1. Init => DoneOnceInv
  <2> SUFFICES ASSUME Init PROVE DoneOnceInv
    OBVIOUS
  <2>1. \A i \in Ids : effects[i] = <<>> /\ Len(effects[i]) = 0
    BY DEF Init
  <2>2. rows = <<>> /\ Len(rows) = 0 /\ serve.phase # "work"
    BY NoneAssumption DEF Init
  <2> QED BY <2>1, <2>2 DEF DoneOnceInv, DoneAtMostOnce
<1>2. Inv /\ Inv' /\ DoneOnceInv /\ [Next]_vars => DoneOnceInv'
  <2> SUFFICES ASSUME Inv, Inv', DoneOnceInv, [Next]_vars PROVE DoneOnceInv'
    OBVIOUS
  <2>1. StoreResults = {TRUE}
    BY DEF StoreResults
  <2>2. CASE UNCHANGED vars
    BY <2>2, AsideKeepsOnce DEF vars, IsPending
  <2>3. CASE ServeStep
    BY <2>1, <2>3, LifeOnce, MovingOnce, WorkOnce, AnsweringOnce DEF ServeStep
  <2>4. CASE ServeDies
    BY <2>4, LifeOnce
  <2>5. CASE (\E q \in Requesters : RequesterStep(q)) \/ BareSignal \/ Edit
    BY <2>5, RequestersOnce
  <2> QED BY <2>2, <2>3, <2>4, <2>5 DEF Next
<1>3. DoneOnceInv => DoneAtMostOnce
  BY DEF DoneOnceInv
<1> QED BY <1>1, <1>2, <1>3, InvAlways, PTL DEF Spec
=============================================================================
