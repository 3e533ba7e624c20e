------------------------------ MODULE Dispatch ------------------------------
(***************************************************************************)
(* One tool call from AdmitCaller to its result: the order of the checks   *)
(* in Gateway.Dispatch, each of which reads state that a reload, a round,  *)
(* an operator or another call may change before the next one.             *)
(*                                                                         *)
(* The checks read shared state under different locks or in different      *)
(* database transactions, so each is an action.  What a refusal does after *)
(* its decision (write one row, return) only the trail sees, and belongs   *)
(* to the action.  Connections are module Fleet's: here an upstream is     *)
(* available or not, and answers, fails or hangs.                          *)
(***************************************************************************)
EXTENDS FiniteSets, Naturals, Sequences

CONSTANTS
    Subjects,
    Tools,
    Providers,  \* quota accounts
    Controls,   \* the configurations a reload may install
    Calls,
    None,
    MaxSlots,   \* max_concurrent_calls_per_analyst
    Windows     \* accounting windows; the first is 0

(***************************************************************************)
(* A configuration: who may call what, who may call tools that do more     *)
(* than read, which accounts a tool spends, and which tools belong to a    *)
(* budgeted upstream without being declared (charged or free).             *)
(***************************************************************************)
ControlRecords ==
    [grants     : SUBSET (Subjects \X Tools),
     nonRead    : SUBSET (Subjects \X Tools),
     charges    : [Tools -> SUBSET Providers],
     limit      : [Providers -> Nat \ {0}],
     undeclared : SUBSET Tools]

ASSUME ControlsAssumption ==
    /\ Controls \subseteq ControlRecords
    /\ \A k \in Controls, t \in Tools : t \in k.undeclared => k.charges[t] = {}
ASSUME CallsAssumption == IsFiniteSet(Calls)
ASSUME MaxSlotsAssumption == MaxSlots \in Nat \ {0}
ASSUME WindowsAssumption == Windows \subseteq Nat /\ 0 \in Windows

VARIABLES
    suspended,  \* g.suspended
    table,      \* g.routes: the routed tools
    controls,   \* g.controls
    next,       \* the table a Refresh built and has not installed, or None
    clock,      \* the accounting window of g.now()
    slots,      \* g.slots.inUse
    used,       \* quota_counters
    trail,      \* call -> its audit rows
    calls       \* call -> its program counter and locals

shared == <<suspended, table, controls, next, clock>>

vars == <<shared, slots, used, trail, calls>>

Classes   == {"safe", "sensitive"}

(* What admit reads of a quarantine row: Usable, ApprovedAsAdvertised.     *)
Rows == [standing : {"held", "approved", "usable"}, class : Classes]

Accounts  == Subjects \X Providers \X Windows

Waiting == [pc |-> "new", subject |-> None, tool |-> None, class |-> None,
            ctl |-> None, window |-> None, charged |-> {}, reason |-> None]

Reasons == {"blocked", "blocklist_unavailable", "registry_unavailable",
            "unknown_tool", "forbidden", "sensitive_not_granted",
            "quarantined", "quarantine_unavailable", "unavailable",
            "concurrency_limited", "quota_exhausted", "quota_unavailable",
            "unauditable", "failed", "internal_error", "ok"}

ASSUME NoneAssumption ==
    None \notin Controls /\ None \notin Reasons /\ None \notin Classes

(* Where a call holds one of its subject's slots.                          *)
Holding == {"slotted", "priced", "charged", "recorded", "sent"}

CallRecords ==
    [pc : {"new", "admitted", "begun", "routed", "authorized", "usable",
           "available", "done"} \cup Holding,
     subject : Subjects \cup {None}, tool : Tools \cup {None},
     class : Classes \cup {None}, ctl : Controls \cup {None},
     window : Windows \cup {None}, charged : SUBSET Providers,
     reason : Reasons \cup {None}]

TypeOK ==
    /\ suspended \in BOOLEAN
    /\ table \subseteq Tools
    /\ controls \in Controls
    /\ next \in (SUBSET Tools) \cup {None}
    /\ clock \in Windows
    /\ slots \in [Subjects -> 0 .. MaxSlots]
    /\ used \in [Accounts -> Nat]
    /\ trail \in [Calls -> Seq({"allowed", "denied", "failed"})]
    /\ calls \in [Calls -> CallRecords]

Init ==
    /\ suspended = FALSE
    /\ controls \in Controls
    /\ table \in SUBSET (Tools \ controls.undeclared)
    /\ next = None
    /\ clock = 0
    /\ slots = [s \in Subjects |-> 0]
    /\ used = [a \in Accounts |-> 0]
    /\ trail = [c \in Calls |-> <<>>]
    /\ calls = [c \in Calls |-> Waiting]

-----------------------------------------------------------------------------
(* What happens around a call.                                             *)

Around == UNCHANGED <<slots, used, trail, calls>>

(* Reconcile: suspend drops the table in the same critical section.        *)
Suspend ==
    /\ next = None
    /\ suspended' = TRUE
    /\ table' = {}
    /\ Around /\ UNCHANGED <<controls, next, clock>>

(* Refresh: withholdUndeclaredQuotaTools filters the merged routes by the  *)
(* plan of the moment; refreshMu is held from here to swapRoutes.  Only a  *)
(* round that read the registry gets that far (module Fleet).              *)
BuildTable(S) ==
    /\ next = None
    /\ next' = S \ controls.undeclared
    /\ Around /\ UNCHANGED <<suspended, table, controls, clock>>

SwapRoutes ==
    /\ next # None
    /\ table' = next
    /\ next' = None
    /\ suspended' = FALSE
    /\ Around /\ UNCHANGED <<controls, clock>>

(* Mutant: the reload does not wait for the round in flight.               *)
ApplyPolicyAnyTime(k) ==
    /\ controls' = k
    /\ table' = table \ k.undeclared
    /\ Around /\ UNCHANGED <<suspended, next, clock>>

(* ApplyPolicy: under refreshMu, and the routes the new plan leaves        *)
(* undeclared go in the step that installs it.                             *)
ApplyPolicy(k) ==
    /\ next = None
    /\ controls' = k
    /\ table' = table \ k.undeclared
    /\ Around /\ UNCHANGED <<suspended, next, clock>>

Tick ==
    /\ clock + 1 \in Windows
    /\ clock' = clock + 1
    /\ Around /\ UNCHANGED <<suspended, table, controls, next>>

-----------------------------------------------------------------------------
(* The call.                                                               *)

At(c, pc) == calls[c].pc = pc

Move(c, pc) == calls' = [calls EXCEPT ![c].pc = pc]

Quiet == UNCHANGED <<shared, slots, used, trail>>

End(c, reason) ==
    calls' = [calls EXCEPT ![c].pc = "done", ![c].reason = reason]

(* The deferred release: a call that ends gives back the slot it holds.    *)
Released(c) ==
    IF calls[c].pc \in Holding THEN [slots EXCEPT ![calls[c].subject] = @ - 1] ELSE slots

(* auditRefusal and auditFailure: the write may fail and is only logged.   *)
BestEffort(c, outcome) ==
    \/ trail' = [trail EXCEPT ![c] = Append(@, outcome)]
    \/ UNCHANGED trail

Refuse(c, reason) ==
    /\ End(c, reason)
    /\ slots' = Released(c)
    /\ BestEffort(c, "denied")
    /\ UNCHANGED <<shared, used>>

(* AdmitCaller: the blocklist is read once per request and Dispatch trusts *)
(* the admission it left in the context; what it reads is its own.         *)
AdmitCaller(c, s) ==
    /\ At(c, "new")
    /\ calls' = [calls EXCEPT ![c].pc = "admitted", ![c].subject = s]
    /\ Quiet

AdmitCallerRefuses(c, s, reason) ==
    /\ At(c, "new")
    /\ calls' = [calls EXCEPT ![c].pc = "done", ![c].subject = s,
                              ![c].reason = reason]
    /\ BestEffort(c, "denied")
    /\ UNCHANGED <<shared, slots, used>>

(* isSuspended.                                                            *)
BeginDispatch(c, t) ==
    /\ At(c, "admitted")
    /\ \/ ~suspended /\ calls' = [calls EXCEPT ![c].pc = "begun", ![c].tool = t] /\ Quiet
       \/ suspended /\ Refuse(c, "registry_unavailable")

(* lookup: the route carries the class its definition was listed with.     *)
Lookup(c, class) ==
    /\ At(c, "begun")
    /\ \/ /\ calls[c].tool \in table
          /\ calls' = [calls EXCEPT ![c].pc = "routed", ![c].class = class]
          /\ Quiet
       \/ calls[c].tool \notin table /\ Refuse(c, "unknown_tool")

Pair(c) == <<calls[c].subject, calls[c].tool>>

(* controls.Load and Authorize: the pointer is read once for the call.     *)
Authorize(c) ==
    /\ At(c, "routed")
    /\ \/ /\ Pair(c) \in controls.grants
          /\ calls' = [calls EXCEPT ![c].pc = "authorized", ![c].ctl = controls]
          /\ Quiet
       \/ Pair(c) \notin controls.grants /\ Refuse(c, "forbidden")

(* Mutant: only the row says whether the tool does more than read.         *)
SensitiveByRow(c, row) == row.class # "safe"

(* A tool is sensitive when its row or its advertisement says so.          *)
Sensitive(c, row) == row.class # "safe" \/ calls[c].class # "safe"

(* admit: one quarantine row is read and everything is decided from it;    *)
(* there may be none, and the store may not answer.                        *)
Admit(c, row) ==
    LET sensitive == Sensitive(c, row)
        standing  == row.standing = "usable" \/ (sensitive /\ row.standing = "approved")
        granted   == sensitive => Pair(c) \in calls[c].ctl.nonRead
    IN /\ At(c, "authorized")
       /\ \/ standing /\ granted /\ row.standing = "usable" /\ Move(c, "usable") /\ Quiet
          \/ standing /\ ~granted /\ Refuse(c, "sensitive_not_granted")
          \/ (~standing \/ (granted /\ row.standing # "usable")) /\ Refuse(c, "quarantined")
          \/ Refuse(c, "quarantine_unavailable")

(* readMaintenance and availability.                                       *)
CheckAvailable(c) ==
    /\ At(c, "usable")
    /\ \/ Move(c, "available") /\ Quiet
       \/ Refuse(c, "unavailable")

(* Mutant: off by one.                                                     *)
HasSlotPlusOne(s) == slots[s] <= MaxSlots

HasSlot(s) == slots[s] < MaxSlots

AcquireSlot(c) ==
    LET s == calls[c].subject
    IN /\ At(c, "available")
       /\ \/ /\ HasSlot(s)
             /\ slots' = [slots EXCEPT ![s] = @ + 1]
             /\ Move(c, "slotted")
             /\ UNCHANGED <<shared, used, trail>>
          \/ ~HasSlot(s) /\ Refuse(c, "concurrency_limited")

(* Plan.Charges resolves the windows against g.now() before the store's    *)
(* transaction begins.                                                     *)
Price(c) ==
    /\ At(c, "slotted")
    /\ calls' = [calls EXCEPT ![c].pc = "priced", ![c].window = clock]
    /\ Quiet

(* Mutant: the plan of the moment prices the call.                         *)
ChargesNow(c) == controls.charges[calls[c].tool]

Charges(c) == calls[c].ctl.charges[calls[c].tool]

Debits(c) == {a \in Accounts : /\ a[1] = calls[c].subject
                               /\ a[2] \in Charges(c)
                               /\ a[3] = calls[c].window}

Debited(c) == [a \in Accounts |-> IF a \in Debits(c) THEN used[a] + 1 ELSE used[a]]

(* Mutant: the usage before the debit is compared with the limit.          *)
FitsBefore(c) == \A a \in Debits(c) : used[a] <= calls[c].ctl.limit[a[2]]

(* Charge.Fits judges the usage after the debit.                           *)
Fits(c) == \A a \in Debits(c) : used[a] + 1 <= calls[c].ctl.limit[a[2]]

(* Mutant: the debits that fitted are committed with the refusal.          *)
ReserveKeepsDebits(c) ==
    /\ At(c, "priced")
    /\ \/ /\ Fits(c)
          /\ used' = Debited(c)
          /\ calls' = [calls EXCEPT ![c].pc = "charged", ![c].charged = Charges(c)]
          /\ UNCHANGED <<shared, slots, trail>>
       \/ /\ ~Fits(c)
          /\ used' = [a \in Accounts |->
                 IF a \in Debits(c) /\ used[a] + 1 <= calls[c].ctl.limit[a[2]]
                 THEN used[a] + 1 ELSE used[a]]
          /\ End(c, "quota_exhausted")
          /\ slots' = Released(c)
          /\ BestEffort(c, "denied")
          /\ UNCHANGED shared
       \/ Charges(c) # {} /\ Refuse(c, "quota_unavailable")

(* Gate.Admit and Store.Reserve: one transaction debits every account of   *)
(* the call or none.  A call that spends nothing never asks the store.     *)
Reserve(c) ==
    /\ At(c, "priced")
    /\ \/ /\ Fits(c)
          /\ used' = Debited(c)
          /\ calls' = [calls EXCEPT ![c].pc = "charged", ![c].charged = Charges(c)]
          /\ UNCHANGED <<shared, slots, trail>>
       \/ ~Fits(c) /\ Refuse(c, "quota_exhausted")
       \/ Charges(c) # {} /\ Refuse(c, "quota_unavailable")

(* Mutant: a call that could not be audited is sent all the same.          *)
RecordAllowedIfItCan(c) ==
    /\ At(c, "charged")
    /\ BestEffort(c, "allowed")
    /\ Move(c, "recorded")
    /\ UNCHANGED <<shared, slots, used>>

(* The allowed row must be on the trail before the call leaves; a call     *)
(* that cannot be audited is refused, with no row and no refund.  From     *)
(* here on (dispatched = true) a panic is a failure and not a refusal.     *)
RecordAllowed(c) ==
    /\ At(c, "charged")
    /\ \/ /\ trail' = [trail EXCEPT ![c] = Append(@, "allowed")]
          /\ Move(c, "recorded")
          /\ UNCHANGED <<shared, slots, used>>
       \/ /\ End(c, "unauditable")
          /\ slots' = Released(c)
          /\ UNCHANGED <<shared, used, trail>>

Send(c) ==
    /\ At(c, "recorded")
    /\ Move(c, "sent")
    /\ Quiet

(* The upstream answered; checkResult and scrubResult accept the answer.   *)
Answer(c) ==
    /\ At(c, "sent")
    /\ End(c, "ok")
    /\ slots' = Released(c)
    /\ UNCHANGED <<shared, used, trail>>

(* Mutant: nothing ends a call whose upstream does not answer.             *)
FailNever(c) == FALSE /\ UNCHANGED vars

(* The upstream failed, callTimeout or the caller ended the call, or the   *)
(* result was refused.                                                     *)
Fail(c) ==
    /\ At(c, "sent")
    /\ End(c, "failed")
    /\ slots' = Released(c)
    /\ BestEffort(c, "failed")
    /\ UNCHANGED <<shared, used>>

(* Mutant: containPanic does not know that the call was dispatched.        *)
PanicDenies(c) ==
    /\ calls[c].pc \notin {"new", "done"}
    /\ End(c, "internal_error")
    /\ slots' = Released(c)
    /\ BestEffort(c, "denied")
    /\ UNCHANGED <<shared, used>>

(* Mutant: the slot is not released by a deferred call.                    *)
PanicKeepsSlot(c) ==
    /\ calls[c].pc \notin {"new", "done"}
    /\ End(c, "internal_error")
    /\ BestEffort(c, IF calls[c].pc \in {"recorded", "sent"} THEN "failed" ELSE "denied")
    /\ UNCHANGED <<shared, slots, used>>

(* containPanic: the release runs first, then one row says how far the     *)
(* call had come.                                                          *)
Panic(c) ==
    /\ calls[c].pc \notin {"new", "done"}
    /\ End(c, "internal_error")
    /\ slots' = Released(c)
    /\ BestEffort(c, IF calls[c].pc \in {"recorded", "sent"} THEN "failed" ELSE "denied")
    /\ UNCHANGED <<shared, used>>

-----------------------------------------------------------------------------
(* Every step of the call but the upstream's answer and a panic.           *)
CallStep(c) ==
    \/ \E t \in Tools : BeginDispatch(c, t)
    \/ \E class \in Classes : Lookup(c, class)
    \/ Authorize(c)
    \/ \E row \in Rows : Admit(c, row)
    \/ CheckAvailable(c)
    \/ AcquireSlot(c)
    \/ Price(c)
    \/ Reserve(c)
    \/ RecordAllowed(c)
    \/ Send(c)
    \/ Fail(c)

Surroundings ==
    \/ Suspend
    \/ \E S \in SUBSET Tools : BuildTable(S)
    \/ SwapRoutes
    \/ \E k \in Controls : ApplyPolicy(k)
    \/ Tick

Next ==
    \/ Surroundings
    \/ \E c \in Calls :
           \/ \E s \in Subjects :
                  \/ AdmitCaller(c, s)
                  \/ \E reason \in {"blocked", "blocklist_unavailable"} :
                         AdmitCallerRefuses(c, s, reason)
           \/ CallStep(c)
           \/ Answer(c)
           \/ Panic(c)

Spec == Init /\ [][Next]_vars

(* Every step of a call is under a deadline (the request's, the store's or *)
(* callTimeout); nothing makes an upstream answer.                         *)
FairSpec == Spec /\ \A c \in Calls : WF_vars(CallStep(c))

-----------------------------------------------------------------------------
(* Properties.                                                             *)

Finished(c) == calls[c].pc = "done"

(* No call reaches an upstream that the trail does not show as allowed:    *)
(* Dispatch records before it sends and refuses what it cannot record.     *)
AuditedBeforeSent ==
    \A c \in Calls : (At(c, "sent") \/ calls[c].reason \in {"ok", "failed"}) =>
                         trail[c] # <<>> /\ trail[c][1] = "allowed"

Stories == {<<>>, <<"denied">>, <<"allowed">>, <<"allowed", "failed">>}

(* The trail tells one story of a call, whatever panics: denied, allowed,  *)
(* or allowed and then failed; never both denied and allowed.              *)
TrailTellsOneStory == \A c \in Calls : trail[c] \in Stories

Holders(s) == {c \in Calls : calls[c].pc \in Holding /\ calls[c].subject = s}

(* A subject's slots are the calls it has between acquire and return: no   *)
(* refusal, failure or panic leaks one, and the cap is never passed.       *)
SlotsAreCallsInFlight ==
    \A s \in Subjects :
        /\ slots[s] = Cardinality(Holders(s))
        /\ slots[s] <= MaxSlots

ChargedTo(a) ==
    {c \in Calls : /\ calls[c].subject = a[1]
                   /\ a[2] \in calls[c].charged
                   /\ a[3] = calls[c].window}

(* The counters are exactly the calls that were let through: a call debits *)
(* all its accounts or none, in one window, and nothing is refunded.       *)
CountersAreExact ==
    \A a \in Accounts : used[a] = Cardinality(ChargedTo(a))

(* No interleaving of calls spends more of an account in a window than     *)
(* some configuration allowed.                                             *)
BudgetHeld ==
    \A a \in Accounts : \E k \in Controls : used[a] <= k.limit[a[2]]

(* One configuration decides a call: what let it through also priced it,   *)
(* although reloads come between the two.                                  *)
OneConfigurationPerCall ==
    \A c \in Calls : calls[c].pc \in Holding \ {"slotted", "priced"} =>
        /\ Pair(c) \in calls[c].ctl.grants
        /\ calls[c].charged = calls[c].ctl.charges[calls[c].tool]

(* A tool that was routed as doing more than reading is never called       *)
(* without the grant for it, whatever its row says by then.                *)
NonReadIsGranted ==
    \A c \in Calls : (At(c, "sent") /\ calls[c].class = "sensitive") =>
                         Pair(c) \in calls[c].ctl.nonRead

(* The table never holds a tool of a budgeted upstream that the installed  *)
(* plan does not declare: reloads and rounds exclude each other.           *)
TableIsDeclared == table \cap controls.undeclared = {}

(* Liveness: a call that was dispatched ends, though its upstream hangs.   *)
CallsEnd == \A c \in Calls : At(c, "begun") ~> Finished(c)

-----------------------------------------------------------------------------
(* The strengthening the invariants rest on: what a call's locals and its  *)
(* rows say of how far it has come.                                        *)

Decided == {"authorized", "usable", "available"} \cup Holding

Paid == {"charged", "recorded", "sent"}

LocalsTell(l) ==
    /\ l.pc # "new" => l.subject \in Subjects
    /\ l.pc \notin {"new", "admitted", "done"} => l.tool \in Tools
    /\ l.pc \in Decided => l.ctl \in Controls /\ <<l.subject, l.tool>> \in l.ctl.grants
    /\ (l.pc \in Decided \ {"authorized"} /\ l.class = "sensitive") =>
           <<l.subject, l.tool>> \in l.ctl.nonRead
    /\ l.pc \in Holding \ {"slotted"} => l.window \in Windows
    /\ l.pc \in Paid => l.charged = l.ctl.charges[l.tool]
    /\ l.pc \notin Paid \cup {"done"} => l.charged = {}
    /\ l.pc # "done" => l.reason = None

RowsTell(l, rows) ==
    /\ l.pc = "done" => rows \in Stories
    /\ l.reason \in {"ok", "failed"} => rows \in {<<"allowed">>, <<"allowed", "failed">>}
    /\ l.pc \in {"recorded", "sent"} => rows = <<"allowed">>
    /\ l.pc \notin {"recorded", "sent", "done"} => rows = <<>>

(* A table being built was filtered by the plan that is still installed.   *)
NextIsDeclared == next # None => next \cap controls.undeclared = {}

Inv ==
    /\ TypeOK
    /\ \A c \in Calls : LocalsTell(calls[c]) /\ RowsTell(calls[c], trail[c])
    /\ SlotsAreCallsInFlight
    /\ CountersAreExact
    /\ BudgetHeld
    /\ TableIsDeclared
    /\ NextIsDeclared

-----------------------------------------------------------------------------
(* What the comments of the code say.                                      *)

(* "no tool of a newly budgeted backend is served uncounted" (ApplyPolicy):*)
(* no call is sent for a tool its own configuration leaves undeclared.     *)
NothingServedUncounted ==
    \A c \in Calls : At(c, "sent") => calls[c].tool \notin calls[c].ctl.undeclared

(* The trail of a call is what happened to it: nothing is sent that is not *)
(* recorded as allowed, and no call is both denied and allowed (Dispatch,  *)
(* containPanic).                                                          *)
TrailIsTheCall == AuditedBeforeSent /\ TrailTellsOneStory

(* Nothing leaks and nothing is lent: slots and counters are exactly what  *)
(* the calls hold and were charged, within the cap and the budgets, on     *)
(* every path out of a call (acquire, Reserve, the deferred release).      *)
NothingLeaks == SlotsAreCallsInFlight /\ CountersAreExact /\ BudgetHeld

(* A call is decided by one configuration, its sensitive tool included,    *)
(* and the table holds what the installed one declares, whatever reloads   *)
(* come between the steps (controls.Load, admit, ApplyPolicy).             *)
ConfigurationHolds ==
    TypeOK /\ OneConfigurationPerCall /\ NonReadIsGranted /\ TableIsDeclared
=============================================================================
