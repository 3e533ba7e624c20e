----------------------------- MODULE MCOperators -----------------------------
(* What operators do beside the running gateway: blocks and accounts, the  *)
(* registry and its signatures, backup and restore.  Each is checked on    *)
(* its own: a behaviour is a behaviour of one of them, which part names.   *)
EXTENDS People, Registry, Backup, TLC

VARIABLE part

operatorVars == <<part, peopleVars, regVars, bkVars>>

(* Where blocks are placed, every group is mapped and the account is in    *)
(* all of them.  The one edit there may change that, and then no offboard  *)
(* can follow and nothing of the blocklist reads it: behaviours are        *)
(* followed no further.                                                    *)
GroupsStand == bound[1] > 0 => mapped = Groups /\ \A u \in Users : users[u].groups = Groups

(* The parts that stay as they are begin in one state.                     *)
Init ==
    /\ part \in {"people", "registry", "backup"}
    /\ PeopleInit /\ RegInit /\ BkInit
    /\ GroupsStand
    /\ part # "people" => bound[1] > 0
    /\ part # "registry" => acts.update = 0
    /\ part # "backup" => dbs[1].grade = "new" /\ rs = NoRestore(0) /\ links

Next ==
    \/ part = "people" /\ PeopleNext /\ UNCHANGED <<part, regVars, bkVars>>
    \/ part = "registry" /\ RegNext /\ UNCHANGED <<part, peopleVars, bkVars>>
    \/ part = "backup" /\ BkNext /\ UNCHANGED <<part, peopleVars, regVars>>

Spec == Init /\ [][Next]_operatorVars

Symmetry == Permutations(Clerks) \union Permutations(Operators) \union Permutations(Groups)

(* The rows of the registry's operations and of changes of accounts, and   *)
(* which password an account has, are read by no step and, but for the     *)
(* type, by no property: states that differ in them alone are one.         *)
OfBlocks(rows) == {r \in rows : r.about # "account"}
PeopleView == <<time, mapped, blocks, ids, late, unsaid, [u \in Users |-> [users[u] EXCEPT !.password = 0]], asked, job, round,
                OfBlocks(blockRows), OfBlocks(told), ended, edits, bound>>
View == <<part, PeopleView, bkVars, entries, sigs, approvals, held, task, seen, served,
          begun, clean, quiet, shown, vetted, acts>>

-----------------------------------------------------------------------------
(* Blocks: how many are placed, and how often an account is edited.        *)
BlocksAndEdits == {<<2, 1>>, <<0, 2>>}

-----------------------------------------------------------------------------
(* Entries: a container, an HTTP API, a program with a credential in its   *)
(* environment, and an API whose credential would go in a control header.  *)
Plain == [NoEntry EXCEPT !.transport = "stdio", !.runs = "cmd"]
Container == [NoEntry EXCEPT !.transport = "oci", !.image = "i1"]
Api == [NoEntry EXCEPT !.transport = "http", !.runs = "url", !.env = {"KEY"},
                       !.auth = "header", !.place = "token", !.ops = 1]
Asked == {Container, Api, [Plain EXCEPT !.env = {"KEY"}], [Api EXCEPT !.place = "control"]}
Acts == {[register |-> 2, update |-> 0, deregister |-> 2, sign |-> 1],
         [register |-> 1, update |-> 1, deregister |-> 0, sign |-> 2],
         [register |-> 2, update |-> 1, deregister |-> 1, sign |-> 1]}

-----------------------------------------------------------------------------
CONSTANTS k1, k2

(* A trail rewritten whole and chained again, and a file with a trigger of *)
(* its own; two backups at once, one and a restore, two restores.          *)
Forged == {File({1, 9}, {}, "ok"), File({1}, {}, "drift")}
Sessions == {[backups |-> {k1, k2}, restores |-> 0, links |-> TRUE],
             [backups |-> {k1, k2}, restores |-> 0, links |-> FALSE],
             [backups |-> {k1}, restores |-> 1, links |-> TRUE], [backups |-> {}, restores |-> 2, links |-> TRUE]}
=============================================================================
