--------------------------- MODULE DispatchProofs ---------------------------
(***************************************************************************)
(* Dispatch's invariants, for any calls, subjects, tools, accounts,        *)
(* windows and configurations.                                             *)
(*                                                                         *)
(* A step of a call changes that call's locals and rows, and perhaps its   *)
(* subject's slots or the counters; each of the three is one lemma, and    *)
(* the proof of an action only says which of them it is.                   *)
(***************************************************************************)
EXTENDS Dispatch, FiniteSetTheorems, SequenceTheorems, TLAPS

Outcomes == {"allowed", "denied", "failed"}

(* What the configurations are made of.                                    *)
LEMMA ControlFacts ==
  ASSUME NEW k \in Controls
  PROVE  /\ \A t \in Tools : k.charges[t] \in SUBSET Providers
         /\ \A p \in Providers : k.limit[p] \in Nat
BY ControlsAssumption DEF ControlRecords

LEMMA HoldersFinite ==
  ASSUME NEW S \in SUBSET Calls
  PROVE  IsFiniteSet(S) /\ Cardinality(S) \in Nat
BY CallsAssumption, FS_Subset, FS_CardinalityType

LEMMA StoriesAreRows == Stories \subseteq Seq(Outcomes)
BY DEF Stories, Outcomes

LEMMA RowsGrow ==
  /\ Append(<<>>, "denied") = <<"denied">>
  /\ Append(<<>>, "allowed") = <<"allowed">>
  /\ Append(<<"allowed">>, "failed") = <<"allowed", "failed">>
<1>1. ASSUME NEW x \in Outcomes PROVE Append(<<>>, x) = <<x>>
  <2>1. /\ Append(<<>>, x) \in Seq(Outcomes) /\ <<x>> \in Seq(Outcomes)
        /\ Len(Append(<<>>, x)) = 1 /\ Append(<<>>, x)[1] = x
    BY AppendProperties
  <2> QED BY <2>1, SeqEqual
<1>2. Append(<<"allowed">>, "failed") = <<"allowed", "failed">>
  <2> DEFINE two == Append(<<"allowed">>, "failed")
  <2>1. /\ two \in Seq(Outcomes) /\ <<"allowed", "failed">> \in Seq(Outcomes)
        /\ Len(two) = 2 /\ two[1] = "allowed" /\ two[2] = "failed"
    <3>1. <<"allowed">> \in Seq(Outcomes) /\ "failed" \in Outcomes
      BY DEF Outcomes
    <3>2. <<"allowed", "failed">> \in Seq(Outcomes)
      BY DEF Outcomes
    <3> QED BY <3>1, <3>2, AppendProperties
  <2> HIDE DEF two
  <2>2. /\ Len(<<"allowed", "failed">>) = 2
        /\ <<"allowed", "failed">>[1] = "allowed" /\ <<"allowed", "failed">>[2] = "failed"
    OBVIOUS
  <2>3. \A i \in 1 .. Len(two) : two[i] = <<"allowed", "failed">>[i]
    BY <2>1, <2>2
  <2>4. two = <<"allowed", "failed">>
    BY <2>1, <2>2, <2>3, SeqEqual
  <2> QED BY <2>4 DEF two
<1> QED
  BY <1>1, <1>2 DEF Outcomes

-----------------------------------------------------------------------------
LEMMA InitInv == Init => Inv
<1> SUFFICES ASSUME Init PROVE Inv
  OBVIOUS
<1>1. \A c \in Calls : calls[c] = Waiting /\ trail[c] = <<>>
  BY DEF Init
<1>2. Waiting \in CallRecords /\ LocalsTell(Waiting) /\ RowsTell(Waiting, <<>>)
  BY NoneAssumption DEF Waiting, CallRecords, LocalsTell, RowsTell, Decided, Paid, Holding,
                        Reasons
<1>3. TypeOK
  <2>1. calls \in [Calls -> CallRecords]
    BY <1>2 DEF Init
  <2>2. trail \in [Calls -> Seq({"allowed", "denied", "failed"})]
    BY DEF Init
  <2>3. slots \in [Subjects -> 0 .. MaxSlots] /\ used \in [Accounts -> Nat]
    BY MaxSlotsAssumption DEF Init
  <2>4. clock \in Windows /\ table \subseteq Tools
    BY WindowsAssumption DEF Init
  <2> QED BY <2>1, <2>2, <2>3, <2>4 DEF TypeOK, Init
<1>4. SlotsAreCallsInFlight
  <2>1. \A s \in Subjects : Holders(s) = {}
    BY <1>1 DEF Holders, Waiting, Holding
  <2>2. \A s \in Subjects : slots[s] = 0 /\ 0 <= MaxSlots
    BY MaxSlotsAssumption DEF Init
  <2>3. Cardinality({}) = 0
    BY FS_EmptySet
  <2> QED BY <2>1, <2>2, <2>3 DEF SlotsAreCallsInFlight
<1>5. CountersAreExact
  <2>1. \A a \in Accounts : ChargedTo(a) = {}
    BY <1>1 DEF ChargedTo, Waiting
  <2> QED BY <2>1, FS_EmptySet DEF CountersAreExact, Init
<1>6. BudgetHeld
  <2> SUFFICES ASSUME NEW a \in Accounts
               PROVE  \E k \in Controls : used[a] <= k.limit[a[2]]
    BY DEF BudgetHeld
  <2>1. controls \in Controls /\ used[a] = 0 /\ a[2] \in Providers
    BY DEF Init, Accounts
  <2>2. controls.limit[a[2]] \in Nat
    BY <2>1, ControlFacts
  <2> QED BY <2>1, <2>2
<1>7. TableIsDeclared /\ NextIsDeclared
  BY DEF Init, TableIsDeclared, NextIsDeclared
<1> QED
  BY <1>1, <1>2, <1>3, <1>4, <1>5, <1>6, <1>7 DEF Inv

-----------------------------------------------------------------------------
(* What happens around the calls.                                          *)

LEMMA SurroundingsInv ==
  ASSUME Inv, Surroundings
  PROVE  Inv'
<1>1. Around
  BY DEF Surroundings, Suspend, BuildTable, SwapRoutes, ApplyPolicy, Tick
<1>2. /\ \A c \in Calls : LocalsTell(calls'[c]) /\ RowsTell(calls'[c], trail'[c])
      /\ SlotsAreCallsInFlight' /\ CountersAreExact' /\ BudgetHeld'
  BY <1>1 DEF Inv, Around, SlotsAreCallsInFlight, Holders, CountersAreExact, ChargedTo,
              BudgetHeld
<1>3. /\ suspended' \in BOOLEAN /\ table' \subseteq Tools /\ controls' \in Controls
      /\ next' \in (SUBSET Tools) \cup {None} /\ clock' \in Windows
      /\ TableIsDeclared' /\ NextIsDeclared'
  <2>1. CASE Suspend
    BY <2>1 DEF Inv, TypeOK, Suspend, TableIsDeclared, NextIsDeclared
  <2>2. ASSUME NEW S \in SUBSET Tools, BuildTable(S) PROVE <1>3!:
    BY <2>2 DEF Inv, TypeOK, BuildTable, TableIsDeclared, NextIsDeclared
  <2>3. CASE SwapRoutes
    BY <2>3 DEF Inv, TypeOK, SwapRoutes, TableIsDeclared, NextIsDeclared
  <2>4. ASSUME NEW k \in Controls, ApplyPolicy(k) PROVE <1>3!:
    BY <2>4 DEF Inv, TypeOK, ApplyPolicy, TableIsDeclared, NextIsDeclared
  <2>5. CASE Tick
    BY <2>5 DEF Inv, TypeOK, Tick, TableIsDeclared, NextIsDeclared
  <2> QED BY <2>1, <2>2, <2>3, <2>4, <2>5 DEF Surroundings
<1> QED
  BY <1>1, <1>2, <1>3 DEF Inv, TypeOK, Around

-----------------------------------------------------------------------------
(* The parts of a call's step.                                             *)

LEMMA SlotsStay ==
  ASSUME Inv, NEW c \in Calls, NEW l \in CallRecords,
         calls' = [calls EXCEPT ![c] = l], slots' = slots,
         l.pc \in Holding <=> calls[c].pc \in Holding,
         l.pc \in Holding => l.subject = calls[c].subject
  PROVE  SlotsAreCallsInFlight' /\ slots' \in [Subjects -> 0 .. MaxSlots]
<1>1. \A s \in Subjects : Holders(s)' = Holders(s)
  BY DEF Holders, Inv, TypeOK
<1> QED
  BY <1>1 DEF SlotsAreCallsInFlight, Inv, TypeOK

LEMMA SlotsGain ==
  ASSUME Inv, NEW c \in Calls, NEW l \in CallRecords, NEW s \in Subjects,
         calls' = [calls EXCEPT ![c] = l], slots' = [slots EXCEPT ![s] = @ + 1],
         slots[s] < MaxSlots, calls[c].pc \notin Holding, l.pc \in Holding, l.subject = s
  PROVE  SlotsAreCallsInFlight' /\ slots' \in [Subjects -> 0 .. MaxSlots]
<1>1. Holders(s)' = Holders(s) \cup {c} /\ c \notin Holders(s)
  BY DEF Holders, Inv, TypeOK
<1>2. \A t \in Subjects : t # s => Holders(t)' = Holders(t)
  BY DEF Holders, Inv, TypeOK
<1>3. Cardinality(Holders(s)') = Cardinality(Holders(s)) + 1
  BY <1>1, FS_AddElement, HoldersFinite DEF Holders
<1>4. slots[s] \in Nat /\ slots' \in [Subjects -> 0 .. MaxSlots]
  BY MaxSlotsAssumption DEF Inv, TypeOK
<1> QED
  BY <1>2, <1>3, <1>4, MaxSlotsAssumption DEF SlotsAreCallsInFlight, Inv, TypeOK

LEMMA SlotsLose ==
  ASSUME Inv, NEW c \in Calls, NEW l \in CallRecords,
         calls' = [calls EXCEPT ![c] = l], slots' = Released(c), l.pc \notin Holding
  PROVE  SlotsAreCallsInFlight' /\ slots' \in [Subjects -> 0 .. MaxSlots]
<1>1. CASE calls[c].pc \notin Holding
  BY <1>1, SlotsStay DEF Released
<1>2. CASE calls[c].pc \in Holding
  <2>1. PICK s \in Subjects : s = calls[c].subject
    BY <1>2 DEF Inv, LocalsTell, Holding
  <2>9. slots' = [slots EXCEPT ![s] = @ - 1]
    BY <1>2, <2>1 DEF Released
  <2>2. Holders(s)' = Holders(s) \ {c} /\ c \in Holders(s)
    BY <1>2, <2>1 DEF Holders, Inv, TypeOK
  <2>3. \A t \in Subjects : t # s => Holders(t)' = Holders(t)
    BY <2>1 DEF Holders, Inv, TypeOK
  <2>4. Cardinality(Holders(s)') = Cardinality(Holders(s)) - 1
    <3>1. Holders(s) \in SUBSET Calls
      BY DEF Holders
    <3>2. IsFiniteSet(Holders(s))
      BY <3>1, HoldersFinite
    <3> QED BY <2>2, <3>2, FS_RemoveElement
  <2>5. Holders(s)' \in SUBSET Calls
    BY <2>2 DEF Holders
  <2>6. Cardinality(Holders(s)') \in Nat
    BY <2>5, HoldersFinite
  <2>7. slots[s] - 1 \in 0 .. MaxSlots
    BY <2>4, <2>6, MaxSlotsAssumption DEF Inv, TypeOK, SlotsAreCallsInFlight
  <2>8. slots' \in [Subjects -> 0 .. MaxSlots]
    BY <2>7, <2>9 DEF Inv, TypeOK
  <2> QED
    BY <2>3, <2>4, <2>7, <2>8, <2>9, MaxSlotsAssumption
       DEF SlotsAreCallsInFlight, Inv, TypeOK
<1> QED
  BY <1>1, <1>2

LEMMA CountersStay ==
  ASSUME Inv, NEW c \in Calls, NEW l \in CallRecords,
         calls' = [calls EXCEPT ![c] = l], used' = used,
         l.charged = calls[c].charged,
         l.charged # {} => l.subject = calls[c].subject /\ l.window = calls[c].window
  PROVE  CountersAreExact' /\ BudgetHeld' /\ used' \in [Accounts -> Nat]
<1>1. \A a \in Accounts : ChargedTo(a)' = ChargedTo(a)
  BY DEF ChargedTo, Inv, TypeOK
<1> QED
  BY <1>1 DEF CountersAreExact, BudgetHeld, Inv, TypeOK

(* The rest of the invariant, from the lemmas above.                       *)
LEMMA CallMoves ==
  ASSUME Inv, NEW c \in Calls, NEW l \in CallRecords, NEW r \in Seq(Outcomes),
         calls' = [calls EXCEPT ![c] = l], trail' = [trail EXCEPT ![c] = r],
         UNCHANGED shared, LocalsTell(l), RowsTell(l, r),
         SlotsAreCallsInFlight', slots' \in [Subjects -> 0 .. MaxSlots],
         CountersAreExact', BudgetHeld', used' \in [Accounts -> Nat]
  PROVE  Inv'
<1>1. calls' \in [Calls -> CallRecords]
  BY DEF Inv, TypeOK
<1>2. trail' \in [Calls -> Seq({"allowed", "denied", "failed"})]
  BY DEF Inv, TypeOK, Outcomes
<1>3. TypeOK'
  BY <1>1, <1>2 DEF Inv, TypeOK, shared
<1>4. \A d \in Calls : LocalsTell(calls'[d]) /\ RowsTell(calls'[d], trail'[d])
  BY DEF Inv, TypeOK
<1>5. TableIsDeclared' /\ NextIsDeclared'
  BY DEF Inv, TableIsDeclared, NextIsDeclared, shared
<1> QED
  BY <1>3, <1>4, <1>5 DEF Inv

-----------------------------------------------------------------------------
(* One lemma per way a call moves.                                         *)

(* Nothing but the call's own locals changes.                              *)
LEMMA QuietMove ==
  ASSUME Inv, NEW c \in Calls, NEW l \in CallRecords, Quiet,
         calls' = [calls EXCEPT ![c] = l],
         LocalsTell(l), RowsTell(l, trail[c]),
         l.pc \in Holding <=> calls[c].pc \in Holding,
         l.pc \in Holding => l.subject = calls[c].subject,
         l.charged = calls[c].charged,
         l.charged # {} => l.subject = calls[c].subject /\ l.window = calls[c].window
  PROVE  Inv'
<1>1. slots' = slots /\ used' = used /\ UNCHANGED shared
  BY DEF Quiet
<1>2. trail[c] \in Seq(Outcomes) /\ trail' = [trail EXCEPT ![c] = trail[c]]
  BY DEF Inv, TypeOK, Outcomes, Quiet
<1>3. SlotsAreCallsInFlight' /\ slots' \in [Subjects -> 0 .. MaxSlots]
  BY <1>1, SlotsStay
<1>4. CountersAreExact' /\ BudgetHeld' /\ used' \in [Accounts -> Nat]
  BY <1>1, CountersStay
<1> QED
  BY <1>1, <1>2, <1>3, <1>4, CallMoves

(* The call ends: its slot goes back, and its rows may grow by one.        *)
LEMMA EndMove ==
  ASSUME Inv, NEW c \in Calls, NEW reason \in Reasons, NEW r \in Stories,
         calls[c].pc \notin {"new", "done"},
         End(c, reason), slots' = Released(c), UNCHANGED <<shared, used>>,
         trail' = [trail EXCEPT ![c] = r],
         reason \in {"ok", "failed"} => r \in {<<"allowed">>, <<"allowed", "failed">>}
  PROVE  Inv'
<1> DEFINE l == [calls[c] EXCEPT !.pc = "done", !.reason = reason]
<1>1. calls[c] \in CallRecords /\ LocalsTell(calls[c])
  BY DEF Inv, TypeOK
<1>2. l \in CallRecords /\ calls' = [calls EXCEPT ![c] = l]
  BY <1>1 DEF CallRecords, End, Inv, TypeOK
<1>3. /\ l.pc = "done" /\ l.reason = reason /\ l.subject = calls[c].subject
      /\ l.charged = calls[c].charged /\ l.window = calls[c].window
  BY <1>1 DEF CallRecords
<1> HIDE DEF l
<1>4. LocalsTell(l) /\ RowsTell(l, r)
  BY <1>1, <1>3 DEF LocalsTell, RowsTell, Decided, Paid, Holding
<1>5. SlotsAreCallsInFlight' /\ slots' \in [Subjects -> 0 .. MaxSlots]
  BY <1>2, <1>3, SlotsLose DEF Holding
<1>6. CountersAreExact' /\ BudgetHeld' /\ used' \in [Accounts -> Nat]
  BY <1>2, <1>3, CountersStay
<1> QED
  BY <1>2, <1>4, <1>5, <1>6, StoriesAreRows, CallMoves

(* A refusal or a failure, whose row may not be written.                   *)
LEMMA DeniedStory ==
  ASSUME Inv, NEW c \in Calls, BestEffort(c, "denied"), trail[c] = <<>>
  PROVE  \E r \in Stories : trail' = [trail EXCEPT ![c] = r]
<1>1. trail = [trail EXCEPT ![c] = <<>>] /\ <<>> \in Stories /\ <<"denied">> \in Stories
  BY DEF Inv, TypeOK, Stories
<1>2. CASE UNCHANGED trail
  BY <1>1, <1>2
<1>3. CASE trail' = [trail EXCEPT ![c] = Append(trail[c], "denied")]
  BY <1>1, <1>3, RowsGrow
<1> QED
  BY <1>2, <1>3 DEF BestEffort

LEMMA FailedStory ==
  ASSUME Inv, NEW c \in Calls, BestEffort(c, "failed"), trail[c] = <<"allowed">>
  PROVE  \E r \in {<<"allowed">>, <<"allowed", "failed">>} : trail' = [trail EXCEPT ![c] = r]
<1>1. trail = [trail EXCEPT ![c] = <<"allowed">>]
  BY DEF Inv, TypeOK
<1>2. CASE UNCHANGED trail
  BY <1>1, <1>2
<1>3. CASE trail' = [trail EXCEPT ![c] = Append(trail[c], "failed")]
  BY <1>3, RowsGrow
<1> QED
  BY <1>2, <1>3 DEF BestEffort

LEMMA RefuseMove ==
  ASSUME Inv, NEW c \in Calls, NEW reason \in Reasons \ {"ok", "failed"},
         calls[c].pc \notin {"new", "recorded", "sent", "done"},
         Refuse(c, reason)
  PROVE  Inv'
<1>1. trail[c] = <<>>
  BY DEF Inv, RowsTell
<1>2. BestEffort(c, "denied") /\ End(c, reason) /\ slots' = Released(c)
      /\ UNCHANGED <<shared, used>>
  BY DEF Refuse
<1>3. PICK r \in Stories : trail' = [trail EXCEPT ![c] = r]
  BY <1>1, <1>2, DeniedStory
<1> QED
  BY <1>2, <1>3, EndMove

-----------------------------------------------------------------------------
(* The actions of a call.                                                  *)

LEMMA AdmissionInv ==
  ASSUME Inv, NEW c \in Calls, NEW s \in Subjects,
         \/ AdmitCaller(c, s)
         \/ \E reason \in {"blocked", "blocklist_unavailable"} :
                AdmitCallerRefuses(c, s, reason)
  PROVE  Inv'
<1>1. /\ calls[c].pc = "new" /\ calls[c] \in CallRecords /\ calls[c].charged = {}
      /\ calls[c].reason = None /\ trail[c] = <<>>
  BY DEF Inv, TypeOK, LocalsTell, RowsTell, AdmitCaller, AdmitCallerRefuses, At, Paid
<1>2. CASE AdmitCaller(c, s)
  <2> DEFINE l == [calls[c] EXCEPT !.pc = "admitted", !.subject = s]
  <2>1. l \in CallRecords /\ calls' = [calls EXCEPT ![c] = l]
    BY ZenonT(40), <1>1, <1>2 DEF CallRecords, AdmitCaller, Inv, TypeOK
  <2>2. /\ l.pc = "admitted" /\ l.subject = s /\ l.charged = {} /\ l.reason = None
    BY <1>1 DEF CallRecords
  <2> HIDE DEF l
  <2>3. LocalsTell(l) /\ RowsTell(l, trail[c])
    BY <1>1, <2>2, NoneAssumption DEF LocalsTell, RowsTell, Decided, Paid, Holding, Reasons
  <2>4. Quiet /\ l.pc \notin Holding /\ calls[c].pc \notin Holding
    BY <1>1, <1>2, <2>2 DEF AdmitCaller, Holding
  <2> QED BY <1>1, <2>1, <2>2, <2>3, <2>4, QuietMove
<1>3. ASSUME NEW reason \in {"blocked", "blocklist_unavailable"},
             AdmitCallerRefuses(c, s, reason)
      PROVE  Inv'
  <2> DEFINE l == [calls[c] EXCEPT !.pc = "done", !.subject = s, !.reason = reason]
  <2>1. l \in CallRecords /\ calls' = [calls EXCEPT ![c] = l]
    <3>1. reason \in Reasons
      BY DEF Reasons
    <3>2. l \in CallRecords
      BY ZenonT(40), <1>1, <3>1 DEF CallRecords
    <3> QED BY <1>3, <3>2 DEF AdmitCallerRefuses, Inv, TypeOK
  <2>2. /\ l.pc = "done" /\ l.subject = s /\ l.charged = {} /\ l.reason = reason
    BY <1>1 DEF CallRecords
  <2> HIDE DEF l
  <2>3. PICK r \in Stories : trail' = [trail EXCEPT ![c] = r]
    <3>1. BestEffort(c, "denied")
      BY <1>3 DEF AdmitCallerRefuses
    <3> QED BY <1>1, <3>1, DeniedStory
  <2>4. LocalsTell(l) /\ RowsTell(l, r)
    BY <2>2 DEF LocalsTell, RowsTell, Decided, Paid, Holding
  <2>5. slots' = slots /\ used' = used /\ UNCHANGED shared
    BY <1>3 DEF AdmitCallerRefuses
  <2>6. SlotsAreCallsInFlight' /\ slots' \in [Subjects -> 0 .. MaxSlots]
    <3>1. l.pc \notin Holding /\ calls[c].pc \notin Holding
      BY <1>1, <2>2 DEF Holding
    <3> QED BY <2>1, <2>5, <3>1, SlotsStay
  <2>7. CountersAreExact' /\ BudgetHeld' /\ used' \in [Accounts -> Nat]
    BY <1>1, <2>1, <2>2, <2>5, CountersStay
  <2> QED BY <2>1, <2>3, <2>4, <2>5, <2>6, <2>7, StoriesAreRows, CallMoves
<1> QED
  BY <1>2, <1>3

(* The checks up to the slot move the call or refuse it.                   *)
LEMMA ChecksInv ==
  ASSUME Inv, NEW c \in Calls,
         \/ \E t \in Tools : BeginDispatch(c, t)
         \/ \E class \in Classes : Lookup(c, class)
         \/ Authorize(c)
         \/ \E row \in Rows : Admit(c, row)
         \/ CheckAvailable(c)
  PROVE  Inv'
<1>0. calls[c] \in CallRecords /\ LocalsTell(calls[c]) /\ RowsTell(calls[c], trail[c])
  BY DEF Inv, TypeOK
<1>a. /\ calls[c].pc \in {"admitted", "begun", "routed", "authorized", "usable"}
      /\ calls[c].charged = {} /\ trail[c] = <<>> /\ calls[c].reason = None
      /\ calls[c].subject \in Subjects
  <2>1. calls[c].pc \in {"admitted", "begun", "routed", "authorized", "usable"}
    BY DEF BeginDispatch, Lookup, Authorize, Admit, CheckAvailable, At
  <2> QED BY <1>0, <2>1 DEF LocalsTell, RowsTell, Paid
<1>b. ASSUME NEW reason \in Reasons \ {"ok", "failed"}, Refuse(c, reason) PROVE Inv'
  BY <1>a, <1>b, RefuseMove
<1>c. ASSUME NEW l \in CallRecords, Quiet, calls' = [calls EXCEPT ![c] = l],
             LocalsTell(l), l.charged = {}, l.reason = None,
             l.pc \in {"begun", "routed", "authorized", "usable", "available"}
      PROVE  Inv'
  <2>1. l.pc \notin Holding /\ calls[c].pc \notin Holding
    BY <1>a, <1>c DEF Holding
  <2>2. RowsTell(l, trail[c])
    BY <1>a, <1>c, NoneAssumption DEF RowsTell, Reasons
  <2> QED BY <1>a, <1>c, <2>1, <2>2, QuietMove
<1>1. ASSUME NEW t \in Tools, BeginDispatch(c, t) PROVE Inv'
  <2> DEFINE l == [calls[c] EXCEPT !.pc = "begun", !.tool = t]
  <2>1. CASE calls' = [calls EXCEPT ![c].pc = "begun", ![c].tool = t] /\ Quiet
    <3>1. l \in CallRecords /\ calls' = [calls EXCEPT ![c] = l]
      BY <1>0, <2>1 DEF CallRecords, Inv, TypeOK
    <3>2. /\ l.pc = "begun" /\ l.tool = t /\ l.subject = calls[c].subject
          /\ l.charged = {} /\ l.reason = None
      BY <1>0, <1>a DEF CallRecords
    <3> HIDE DEF l
    <3>3. LocalsTell(l)
      BY <1>a, <3>2 DEF LocalsTell, Decided, Paid, Holding
    <3> QED BY <1>c, <2>1, <3>1, <3>2, <3>3
  <2>2. CASE Refuse(c, "registry_unavailable")
    BY <1>b, <2>2 DEF Reasons
  <2> QED BY <1>1, <2>1, <2>2 DEF BeginDispatch
<1>2. ASSUME NEW class \in Classes, Lookup(c, class) PROVE Inv'
  <2> DEFINE l == [calls[c] EXCEPT !.pc = "routed", !.class = class]
  <2>1. CASE calls' = [calls EXCEPT ![c].pc = "routed", ![c].class = class] /\ Quiet
    <3>1. l \in CallRecords /\ calls' = [calls EXCEPT ![c] = l]
      BY <1>0, <2>1 DEF CallRecords, Inv, TypeOK
    <3>2. /\ l.pc = "routed" /\ l.tool = calls[c].tool /\ l.subject = calls[c].subject
          /\ l.charged = {} /\ l.reason = None
      BY <1>0, <1>a DEF CallRecords
    <3> HIDE DEF l
    <3>3. calls[c].tool \in Tools
      BY <1>0, <1>2 DEF LocalsTell, Lookup, At
    <3>4. LocalsTell(l)
      BY <1>a, <3>2, <3>3 DEF LocalsTell, Decided, Paid, Holding
    <3> QED BY <1>c, <2>1, <3>1, <3>2, <3>4
  <2>2. CASE Refuse(c, "unknown_tool")
    BY <1>b, <2>2 DEF Reasons
  <2> QED BY <1>2, <2>1, <2>2 DEF Lookup
<1>3. ASSUME Authorize(c) PROVE Inv'
  <2> DEFINE l == [calls[c] EXCEPT !.pc = "authorized", !.ctl = controls]
  <2>1. CASE /\ Pair(c) \in controls.grants
             /\ calls' = [calls EXCEPT ![c].pc = "authorized", ![c].ctl = controls]
             /\ Quiet
    <3>1. l \in CallRecords /\ calls' = [calls EXCEPT ![c] = l]
      BY <1>0, <2>1 DEF CallRecords, Inv, TypeOK
    <3>2. /\ l.pc = "authorized" /\ l.tool = calls[c].tool /\ l.ctl = controls
          /\ l.subject = calls[c].subject /\ l.charged = {} /\ l.reason = None
      BY <1>0, <1>a DEF CallRecords
    <3> HIDE DEF l
    <3>3. calls[c].tool \in Tools /\ controls \in Controls
      BY <1>0, <1>3 DEF LocalsTell, Authorize, At, Inv, TypeOK
    <3>4. LocalsTell(l)
      BY <1>a, <2>1, <3>2, <3>3 DEF LocalsTell, Decided, Paid, Holding, Pair
    <3> QED BY <1>c, <2>1, <3>1, <3>2, <3>4
  <2>2. CASE Refuse(c, "forbidden")
    BY <1>b, <2>2 DEF Reasons
  <2> QED BY <1>3, <2>1, <2>2 DEF Authorize
<1>4. ASSUME NEW row \in Rows, Admit(c, row) PROVE Inv'
  <2> DEFINE l == [calls[c] EXCEPT !.pc = "usable"]
  <2>1. CASE /\ Sensitive(c, row) => Pair(c) \in calls[c].ctl.nonRead
             /\ Move(c, "usable") /\ Quiet
    <3>1. l \in CallRecords /\ calls' = [calls EXCEPT ![c] = l]
      BY <1>0, <2>1 DEF CallRecords, Inv, TypeOK, Move
    <3>2. /\ l.pc = "usable" /\ l.tool = calls[c].tool /\ l.ctl = calls[c].ctl
          /\ l.class = calls[c].class
          /\ l.subject = calls[c].subject /\ l.charged = {} /\ l.reason = None
      BY <1>0, <1>a DEF CallRecords
    <3> HIDE DEF l
    <3>3. At(c, "authorized")
      BY <1>4 DEF Admit
    <3>4. calls[c].class = "sensitive" => Pair(c) \in calls[c].ctl.nonRead
      BY <2>1 DEF Sensitive
    <3>5. LocalsTell(l)
      BY <1>0, <1>a, <3>2, <3>3, <3>4 DEF LocalsTell, Decided, Paid, Holding, Pair, At
    <3> QED BY <1>c, <2>1, <3>1, <3>2, <3>5
  <2>2. CASE \E reason \in {"sensitive_not_granted", "quarantined",
                            "quarantine_unavailable"} : Refuse(c, reason)
    BY <1>b, <2>2 DEF Reasons
  <2> QED BY <1>4, <2>1, <2>2 DEF Admit
<1>5. ASSUME CheckAvailable(c) PROVE Inv'
  <2> DEFINE l == [calls[c] EXCEPT !.pc = "available"]
  <2>1. CASE Move(c, "available") /\ Quiet
    <3>1. l \in CallRecords /\ calls' = [calls EXCEPT ![c] = l]
      BY <1>0, <2>1 DEF CallRecords, Inv, TypeOK, Move
    <3>2. /\ l.pc = "available" /\ l.tool = calls[c].tool /\ l.ctl = calls[c].ctl
          /\ l.class = calls[c].class
          /\ l.subject = calls[c].subject /\ l.charged = {} /\ l.reason = None
      BY <1>0, <1>a DEF CallRecords
    <3> HIDE DEF l
    <3>3. At(c, "usable")
      BY <1>5 DEF CheckAvailable
    <3>4. LocalsTell(l)
      BY <1>0, <1>a, <3>2, <3>3 DEF LocalsTell, Decided, Paid, Holding, At
    <3> QED BY <1>c, <2>1, <3>1, <3>2, <3>4
  <2>2. CASE Refuse(c, "unavailable")
    BY <1>b, <2>2 DEF Reasons
  <2> QED BY <1>5, <2>1, <2>2 DEF CheckAvailable
<1> QED
  BY <1>1, <1>2, <1>3, <1>4, <1>5

LEMMA AcquireSlotInv ==
  ASSUME Inv, NEW c \in Calls, AcquireSlot(c)
  PROVE  Inv'
<1>0. calls[c] \in CallRecords /\ LocalsTell(calls[c]) /\ RowsTell(calls[c], trail[c])
  BY DEF Inv, TypeOK
<1>a. calls[c].pc = "available" /\ calls[c].subject \in Subjects
  BY <1>0 DEF AcquireSlot, At, LocalsTell
<1>1. CASE /\ HasSlot(calls[c].subject)
           /\ slots' = [slots EXCEPT ![calls[c].subject] = @ + 1]
           /\ Move(c, "slotted")
           /\ UNCHANGED <<shared, used, trail>>
  <2> DEFINE l == [calls[c] EXCEPT !.pc = "slotted"]
  <2>1. l \in CallRecords /\ calls' = [calls EXCEPT ![c] = l]
    BY <1>0, <1>1 DEF CallRecords, Inv, TypeOK, Move, Holding
  <2>2. /\ l.pc = "slotted" /\ l.tool = calls[c].tool /\ l.ctl = calls[c].ctl
        /\ l.class = calls[c].class /\ l.subject = calls[c].subject
        /\ l.charged = calls[c].charged /\ l.window = calls[c].window
        /\ l.reason = calls[c].reason
    BY <1>0 DEF CallRecords
  <2> HIDE DEF l
  <2>3. LocalsTell(l) /\ RowsTell(l, trail[c])
    BY <1>0, <1>a, <2>2 DEF LocalsTell, RowsTell, Decided, Paid, Holding
  <2>4. trail[c] \in Seq(Outcomes) /\ trail' = [trail EXCEPT ![c] = trail[c]]
    BY <1>1 DEF Inv, TypeOK, Outcomes
  <2>5. SlotsAreCallsInFlight' /\ slots' \in [Subjects -> 0 .. MaxSlots]
    <3>1. calls[c].pc \notin Holding /\ l.pc \in Holding
      BY <1>a, <2>2 DEF Holding
    <3>2. slots[calls[c].subject] < MaxSlots
      BY <1>1 DEF HasSlot
    <3> QED BY <1>1, <1>a, <2>1, <2>2, <3>1, <3>2, SlotsGain
  <2>6. CountersAreExact' /\ BudgetHeld' /\ used' \in [Accounts -> Nat]
    BY <1>1, <2>1, <2>2, CountersStay
  <2> QED BY <1>1, <2>1, <2>3, <2>4, <2>5, <2>6, CallMoves
<1>2. CASE Refuse(c, "concurrency_limited")
  BY <1>2, <1>a, RefuseMove DEF Reasons
<1> QED
  BY <1>1, <1>2 DEF AcquireSlot

(* The steps of a call that holds a slot and moves on.                     *)
LEMMA PriceInv ==
  ASSUME Inv, NEW c \in Calls, Price(c)
  PROVE  Inv'
<1>0. calls[c] \in CallRecords /\ LocalsTell(calls[c]) /\ RowsTell(calls[c], trail[c])
  BY DEF Inv, TypeOK
<1> DEFINE l == [calls[c] EXCEPT !.pc = "priced", !.window = clock]
<1>1. l \in CallRecords /\ calls' = [calls EXCEPT ![c] = l] /\ Quiet
  BY <1>0 DEF CallRecords, Inv, TypeOK, Price, Holding
<1>2. /\ calls[c].pc = "slotted" /\ l.pc = "priced" /\ l.tool = calls[c].tool
      /\ l.ctl = calls[c].ctl /\ l.class = calls[c].class
      /\ l.subject = calls[c].subject /\ l.charged = calls[c].charged
      /\ l.window = clock /\ l.reason = calls[c].reason
  BY <1>0 DEF CallRecords, Price, At
<1> HIDE DEF l
<1>3. clock \in Windows /\ calls[c].charged = {}
  BY <1>0, <1>2 DEF Inv, TypeOK, LocalsTell, Paid
<1>4. LocalsTell(l) /\ RowsTell(l, trail[c])
  BY <1>0, <1>2, <1>3 DEF LocalsTell, RowsTell, Decided, Paid, Holding
<1>5. l.pc \in Holding /\ calls[c].pc \in Holding
  BY <1>2 DEF Holding
<1> QED
  BY <1>1, <1>2, <1>3, <1>4, <1>5, QuietMove

LEMMA SendInv ==
  ASSUME Inv, NEW c \in Calls, Send(c)
  PROVE  Inv'
<1>0. calls[c] \in CallRecords /\ LocalsTell(calls[c]) /\ RowsTell(calls[c], trail[c])
  BY DEF Inv, TypeOK
<1> DEFINE l == [calls[c] EXCEPT !.pc = "sent"]
<1>1. l \in CallRecords /\ calls' = [calls EXCEPT ![c] = l] /\ Quiet
  BY <1>0 DEF CallRecords, Inv, TypeOK, Send, Move, Holding
<1>2. /\ calls[c].pc = "recorded" /\ l.pc = "sent" /\ l.tool = calls[c].tool
      /\ l.ctl = calls[c].ctl /\ l.class = calls[c].class
      /\ l.subject = calls[c].subject /\ l.charged = calls[c].charged
      /\ l.window = calls[c].window /\ l.reason = calls[c].reason
  BY <1>0 DEF CallRecords, Send, At
<1> HIDE DEF l
<1>3. LocalsTell(l) /\ RowsTell(l, trail[c])
  BY <1>0, <1>2 DEF LocalsTell, RowsTell, Decided, Paid, Holding
<1>4. l.pc \in Holding /\ calls[c].pc \in Holding
  BY <1>2 DEF Holding
<1> QED
  BY <1>1, <1>2, <1>3, <1>4, QuietMove

(* The debit: exactly the accounts of the call gain one call.              *)
LEMMA ReserveInv ==
  ASSUME Inv, NEW c \in Calls, Reserve(c)
  PROVE  Inv'
<1>0. calls[c] \in CallRecords /\ LocalsTell(calls[c]) /\ RowsTell(calls[c], trail[c])
  BY DEF Inv, TypeOK
<1>a. /\ calls[c].pc = "priced" /\ calls[c].subject \in Subjects /\ calls[c].tool \in Tools
      /\ calls[c].ctl \in Controls /\ calls[c].window \in Windows /\ calls[c].charged = {}
  BY <1>0 DEF Reserve, At, LocalsTell, Decided, Paid, Holding
<1>1. CASE /\ Fits(c)
           /\ used' = Debited(c)
           /\ calls' = [calls EXCEPT ![c].pc = "charged", ![c].charged = Charges(c)]
           /\ UNCHANGED <<shared, slots, trail>>
  <2> DEFINE l == [calls[c] EXCEPT !.pc = "charged", !.charged = Charges(c)]
  <2>1. l \in CallRecords /\ calls' = [calls EXCEPT ![c] = l]
    <3>1. Charges(c) \in SUBSET Providers
      BY <1>a, ControlFacts DEF Charges
    <3>2. l \in CallRecords
      BY <1>0, <3>1 DEF CallRecords, Holding
    <3> QED BY <1>1, <3>2 DEF Inv, TypeOK
  <2>2. /\ l.pc = "charged" /\ l.tool = calls[c].tool /\ l.ctl = calls[c].ctl
        /\ l.class = calls[c].class /\ l.subject = calls[c].subject
        /\ l.charged = Charges(c) /\ l.window = calls[c].window
        /\ l.reason = calls[c].reason
    BY <1>0 DEF CallRecords
  <2> HIDE DEF l
  <2>3. LocalsTell(l) /\ RowsTell(l, trail[c])
    BY <1>0, <1>a, <2>2 DEF LocalsTell, RowsTell, Decided, Paid, Holding, Charges
  <2>4. trail[c] \in Seq(Outcomes) /\ trail' = [trail EXCEPT ![c] = trail[c]]
    BY <1>1 DEF Inv, TypeOK, Outcomes
  <2>5. SlotsAreCallsInFlight' /\ slots' \in [Subjects -> 0 .. MaxSlots]
    <3>1. calls[c].pc \in Holding /\ l.pc \in Holding
      BY <1>a, <2>2 DEF Holding
    <3> QED BY <1>1, <2>1, <2>2, <3>1, SlotsStay
  <2>6. used \in [Accounts -> Nat] /\ used' \in [Accounts -> Nat]
    BY <1>1 DEF Inv, TypeOK, Debited
  <2>7. ASSUME NEW a \in Accounts
        PROVE  /\ used'[a] = Cardinality(ChargedTo(a)')
               /\ \E k \in Controls : used'[a] <= k.limit[a[2]]
    <3>1. used[a] = Cardinality(ChargedTo(a)) /\ IsFiniteSet(ChargedTo(a))
      <4>1. ChargedTo(a) \in SUBSET Calls
        BY DEF ChargedTo
      <4> QED BY <4>1, HoldersFinite DEF Inv, CountersAreExact
    <3>2. CASE a \in Debits(c)
      <4>1. ChargedTo(a)' = ChargedTo(a) \cup {c} /\ c \notin ChargedTo(a)
        BY <1>a, <2>1, <2>2, <3>2 DEF ChargedTo, Debits, Inv, TypeOK
      <4>2. used'[a] = used[a] + 1
        BY <1>1, <3>2 DEF Debited
      <4>3. Cardinality(ChargedTo(a)') = Cardinality(ChargedTo(a)) + 1
        BY <3>1, <4>1, FS_AddElement
      <4>4. used'[a] <= calls[c].ctl.limit[a[2]]
        BY <1>1, <3>2, <4>2 DEF Fits
      <4> QED BY <1>a, <3>1, <4>2, <4>3, <4>4
    <3>3. CASE a \notin Debits(c)
      <4>1. ChargedTo(a)' = ChargedTo(a)
        BY <1>a, <2>1, <2>2, <3>3 DEF ChargedTo, Debits, Inv, TypeOK
      <4>2. used'[a] = used[a]
        BY <1>1, <3>3 DEF Debited
      <4> QED BY <3>1, <4>1, <4>2 DEF Inv, BudgetHeld
    <3> QED BY <3>2, <3>3
  <2>8. CountersAreExact' /\ BudgetHeld'
    BY <2>7 DEF CountersAreExact, BudgetHeld
  <2> QED BY <1>1, <2>1, <2>3, <2>4, <2>5, <2>6, <2>8, CallMoves
<1>2. CASE Refuse(c, "quota_exhausted") \/ Refuse(c, "quota_unavailable")
  BY <1>2, <1>a, RefuseMove DEF Reasons
<1> QED
  BY <1>1, <1>2 DEF Reserve

(* The write that lets a call leave, or its refusal.                       *)
LEMMA RecordAllowedInv ==
  ASSUME Inv, NEW c \in Calls, RecordAllowed(c)
  PROVE  Inv'
<1>0. calls[c] \in CallRecords /\ LocalsTell(calls[c]) /\ RowsTell(calls[c], trail[c])
  BY DEF Inv, TypeOK
<1>a. calls[c].pc = "charged" /\ trail[c] = <<>>
  BY <1>0 DEF RecordAllowed, At, RowsTell
<1>1. CASE /\ trail' = [trail EXCEPT ![c] = Append(@, "allowed")]
           /\ Move(c, "recorded")
           /\ UNCHANGED <<shared, slots, used>>
  <2> DEFINE l == [calls[c] EXCEPT !.pc = "recorded"]
  <2>1. l \in CallRecords /\ calls' = [calls EXCEPT ![c] = l]
    BY <1>0, <1>1 DEF CallRecords, Inv, TypeOK, Move, Holding
  <2>2. /\ l.pc = "recorded" /\ l.tool = calls[c].tool /\ l.ctl = calls[c].ctl
        /\ l.class = calls[c].class /\ l.subject = calls[c].subject
        /\ l.charged = calls[c].charged /\ l.window = calls[c].window
        /\ l.reason = calls[c].reason
    BY <1>0 DEF CallRecords
  <2> HIDE DEF l
  <2>3. trail' = [trail EXCEPT ![c] = <<"allowed">>] /\ <<"allowed">> \in Seq(Outcomes)
    <3>1. <<"allowed">> \in Seq(Outcomes)
      BY DEF Outcomes
    <3> QED BY <1>1, <1>a, <3>1, RowsGrow
  <2>4. LocalsTell(l) /\ RowsTell(l, <<"allowed">>)
    BY <1>0, <1>a, <2>2 DEF LocalsTell, RowsTell, Decided, Paid, Holding
  <2>5. SlotsAreCallsInFlight' /\ slots' \in [Subjects -> 0 .. MaxSlots]
    <3>1. calls[c].pc \in Holding /\ l.pc \in Holding
      BY <1>a, <2>2 DEF Holding
    <3> QED BY <1>1, <2>1, <2>2, <3>1, SlotsStay
  <2>6. CountersAreExact' /\ BudgetHeld' /\ used' \in [Accounts -> Nat]
    BY <1>1, <2>1, <2>2, CountersStay
  <2> QED BY <1>1, <2>1, <2>3, <2>4, <2>5, <2>6, CallMoves
<1>2. CASE /\ End(c, "unauditable")
           /\ slots' = Released(c)
           /\ UNCHANGED <<shared, used, trail>>
  <2>1. trail' = [trail EXCEPT ![c] = <<>>] /\ <<>> \in Stories
    BY <1>2, <1>a DEF Inv, TypeOK, Stories
  <2>2. "unauditable" \in Reasons
    BY DEF Reasons
  <2> QED BY <1>2, <1>a, <2>1, <2>2, EndMove
<1> QED
  BY <1>1, <1>2 DEF RecordAllowed

(* The ways a call that was sent comes to its end.                         *)
LEMMA AnswerInv ==
  ASSUME Inv, NEW c \in Calls, Answer(c)
  PROVE  Inv'
<1>1. calls[c].pc = "sent" /\ trail[c] = <<"allowed">>
  BY DEF Answer, At, Inv, RowsTell
<1>2. trail' = [trail EXCEPT ![c] = <<"allowed">>] /\ <<"allowed">> \in Stories
  BY <1>1 DEF Answer, Inv, TypeOK, Stories
<1>3. End(c, "ok") /\ slots' = Released(c) /\ UNCHANGED <<shared, used>> /\ "ok" \in Reasons
  BY DEF Answer, Reasons
<1> QED
  BY <1>1, <1>2, <1>3, EndMove

LEMMA FailInv ==
  ASSUME Inv, NEW c \in Calls, Fail(c)
  PROVE  Inv'
<1>1. calls[c].pc = "sent" /\ trail[c] = <<"allowed">> /\ BestEffort(c, "failed")
  BY DEF Fail, At, Inv, RowsTell
<1>2. PICK r \in {<<"allowed">>, <<"allowed", "failed">>} : trail' = [trail EXCEPT ![c] = r]
  BY <1>1, FailedStory
<1>3. End(c, "failed") /\ slots' = Released(c) /\ UNCHANGED <<shared, used>>
  BY DEF Fail
<1>4. r \in Stories /\ "failed" \in Reasons
  BY DEF Stories, Reasons
<1> QED
  BY <1>1, <1>2, <1>3, <1>4, EndMove

LEMMA PanicInv ==
  ASSUME Inv, NEW c \in Calls, Panic(c)
  PROVE  Inv'
<1>1. calls[c].pc \notin {"new", "done"} /\ RowsTell(calls[c], trail[c])
  BY DEF Panic, Inv
<1>2. PICK r \in Stories : trail' = [trail EXCEPT ![c] = r]
  <2>1. CASE calls[c].pc \in {"recorded", "sent"}
    <3>1. trail[c] = <<"allowed">> /\ BestEffort(c, "failed")
      BY <1>1, <2>1 DEF RowsTell, Panic
    <3>2. PICK r \in {<<"allowed">>, <<"allowed", "failed">>} :
              trail' = [trail EXCEPT ![c] = r]
      BY <3>1, FailedStory
    <3> QED BY <3>2 DEF Stories
  <2>2. CASE calls[c].pc \notin {"recorded", "sent"}
    <3>1. trail[c] = <<>> /\ BestEffort(c, "denied")
      BY <1>1, <2>2 DEF RowsTell, Panic
    <3> QED BY <3>1, DeniedStory
  <2> QED BY <2>1, <2>2
<1>3. /\ End(c, "internal_error") /\ slots' = Released(c) /\ UNCHANGED <<shared, used>>
      /\ "internal_error" \in Reasons
  BY DEF Panic, Reasons
<1> QED
  BY <1>1, <1>2, <1>3, EndMove

-----------------------------------------------------------------------------
LEMMA NextInv == Inv /\ [Next]_vars => Inv'
<1> SUFFICES ASSUME Inv, [Next]_vars PROVE Inv'
  OBVIOUS
<1>1. CASE Surroundings
  BY <1>1, SurroundingsInv
<1>2. ASSUME NEW c \in Calls,
             \/ \E s \in Subjects :
                    \/ AdmitCaller(c, s)
                    \/ \E reason \in {"blocked", "blocklist_unavailable"} :
                           AdmitCallerRefuses(c, s, reason)
             \/ CallStep(c)
             \/ Answer(c)
             \/ Panic(c)
      PROVE  Inv'
  <2>1. CASE \E s \in Subjects :
                    \/ AdmitCaller(c, s)
                    \/ \E reason \in {"blocked", "blocklist_unavailable"} :
                           AdmitCallerRefuses(c, s, reason)
    BY <2>1, AdmissionInv
  <2>2. CASE CallStep(c)
    BY <2>2, ChecksInv, AcquireSlotInv, PriceInv, ReserveInv, RecordAllowedInv, SendInv,
       FailInv DEF CallStep
  <2>3. CASE Answer(c)
    BY <2>3, AnswerInv
  <2>4. CASE Panic(c)
    BY <2>4, PanicInv
  <2> QED BY <1>2, <2>1, <2>2, <2>3, <2>4
<1>3. CASE UNCHANGED vars
  <2>1. /\ slots' = slots /\ used' = used /\ trail' = trail /\ calls' = calls
        /\ UNCHANGED shared
    BY <1>3 DEF vars
  <2> QED
    BY <2>1 DEF shared, Inv, TypeOK, SlotsAreCallsInFlight, Holders, CountersAreExact,
                ChargedTo, BudgetHeld, TableIsDeclared, NextIsDeclared
<1> QED
  BY <1>1, <1>2, <1>3 DEF Next

-----------------------------------------------------------------------------
(* The results.                                                            *)

(* The inductive invariant holds in every state.                           *)
THEOREM InvAlways == Spec => []Inv
BY InitInv, NextInv, PTL DEF Spec

(* The variables of Gateway.Dispatch and its surroundings keep their types:*)
(* in particular no release takes a subject's slots below zero.            *)
THEOREM TypeCorrect == Spec => []TypeOK
<1>1. Inv => TypeOK
  BY DEF Inv
<1> QED
  BY <1>1, InvAlways, PTL

(* What Dispatch sends to an upstream is on the trail as allowed, whatever *)
(* fails or panics on the way.                                             *)
THEOREM SentIsAudited == Spec => []AuditedBeforeSent
<1>1. Inv => AuditedBeforeSent
  <2> SUFFICES ASSUME Inv, NEW c \in Calls,
                      At(c, "sent") \/ calls[c].reason \in {"ok", "failed"}
               PROVE  trail[c] # <<>> /\ trail[c][1] = "allowed"
    BY DEF AuditedBeforeSent
  <2>1. trail[c] \in {<<"allowed">>, <<"allowed", "failed">>}
    BY DEF Inv, RowsTell, At
  <2> QED BY <2>1
<1> QED
  BY <1>1, InvAlways, PTL

(* containPanic, auditRefusal and auditFailure never leave two accounts of *)
(* one call on the trail.                                                  *)
THEOREM OneStory == Spec => []TrailTellsOneStory
<1>1. Inv => TrailTellsOneStory
  BY DEF Inv, RowsTell, TrailTellsOneStory, Stories
<1> QED
  BY <1>1, InvAlways, PTL

(* acquire and its deferred release: a subject's slots are the calls it    *)
(* has in flight, never more than the cap, for any cap and any calls.      *)
THEOREM SlotsAreExact == Spec => []SlotsAreCallsInFlight
<1>1. Inv => SlotsAreCallsInFlight
  BY DEF Inv
<1> QED
  BY <1>1, InvAlways, PTL

(* Store.Reserve: a counter is the number of calls that were charged to    *)
(* it, and some configuration allowed as many.                             *)
THEOREM QuotaIsExact == Spec => [](CountersAreExact /\ BudgetHeld)
<1>1. Inv => CountersAreExact /\ BudgetHeld
  BY DEF Inv
<1> QED
  BY <1>1, InvAlways, PTL

(* Dispatch loads its controls once: the configuration that granted a call *)
(* priced it, and granted what a tool that does more than read needs.      *)
THEOREM OneConfiguration == Spec => [](OneConfigurationPerCall /\ NonReadIsGranted)
<1>1. Inv => OneConfigurationPerCall
  <2> SUFFICES ASSUME Inv, NEW c \in Calls, calls[c].pc \in Holding \ {"slotted", "priced"}
               PROVE  /\ Pair(c) \in calls[c].ctl.grants
                      /\ calls[c].charged = calls[c].ctl.charges[calls[c].tool]
    BY DEF OneConfigurationPerCall
  <2>1. LocalsTell(calls[c]) /\ calls[c].pc \in Paid /\ calls[c].pc \in Decided
    BY DEF Inv, Paid, Decided, Holding
  <2> QED BY <2>1 DEF LocalsTell, Pair
<1>2. Inv => NonReadIsGranted
  <2> SUFFICES ASSUME Inv, NEW c \in Calls, At(c, "sent"), calls[c].class = "sensitive"
               PROVE  Pair(c) \in calls[c].ctl.nonRead
    BY DEF NonReadIsGranted
  <2>1. LocalsTell(calls[c]) /\ calls[c].pc \in Decided \ {"authorized"}
    BY DEF Inv, At, Decided, Holding
  <2> QED BY <2>1 DEF LocalsTell, Pair
<1> QED
  BY <1>1, <1>2, InvAlways, PTL

(* refreshMu keeps a reload out of a round: the routes installed are those *)
(* the installed plan declares.                                            *)
THEOREM RoutesAreDeclared == Spec => []TableIsDeclared
<1>1. Inv => TableIsDeclared
  BY DEF Inv
<1> QED
  BY <1>1, InvAlways, PTL

(* The trail of a call is what happened to it, for any calls and any       *)
(* configurations (Dispatch, containPanic).                                *)
THEOREM TrailStaysTheCall == Spec => []TrailIsTheCall
  BY SentIsAudited, OneStory, PTL DEF TrailIsTheCall

(* Slots and counters are what the calls hold and were charged, on every   *)
(* path out of a call (acquire, Reserve, the deferred release).            *)
THEOREM NothingEverLeaks == Spec => []NothingLeaks
  BY SlotsAreExact, QuotaIsExact, PTL DEF NothingLeaks

(* One configuration decides a call, and the table is the installed one's, *)
(* whatever reloads come between (controls.Load, admit, ApplyPolicy).      *)
THEOREM ConfigurationAlwaysHolds == Spec => []ConfigurationHolds
  BY TypeCorrect, OneConfiguration, RoutesAreDeclared, PTL DEF ConfigurationHolds
=============================================================================
