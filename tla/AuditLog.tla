------------------------------ MODULE AuditLog ------------------------------
(***************************************************************************)
(* What the audit trail promises its callers, without chain, transactions  *)
(* or sink: a list of records that only grows, each accepted record once.  *)
(* Audit.tla is shown to implement it.                                     *)
(***************************************************************************)
EXTENDS Sequences

CONSTANTS Callers,      \* whoever calls Record
          Entries,      \* what can be recorded
          NoEntry, Kept \* a caller that is not in a call; one whose record is in the log

VARIABLES log, asked
logVars == <<log, asked>>

Init == /\ log \in Seq(Entries)
        /\ asked = [c \in Callers |-> NoEntry]

Ask(c, e) == /\ asked[c] = NoEntry
             /\ asked' = [asked EXCEPT ![c] = e]
             /\ UNCHANGED log

\* The record enters the log at the end, once, at one instant of the call.
Store(c) == /\ asked[c] \in Entries
            /\ log' = Append(log, asked[c])
            /\ asked' = [asked EXCEPT ![c] = Kept]

\* Calls end, answered or cut off by a crash; the log is as they left it.
End(C) == /\ asked' = [c \in Callers |-> IF c \in C THEN NoEntry ELSE asked[c]]
          /\ UNCHANGED log

Next == \/ \E c \in Callers, e \in Entries : Ask(c, e)
        \/ \E c \in Callers : Store(c)
        \/ \E C \in SUBSET Callers : End(C)

Spec == Init /\ [][Next]_logVars
=============================================================================
