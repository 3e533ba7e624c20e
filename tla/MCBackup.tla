------------------------------ MODULE MCBackup ------------------------------
EXTENDS Backup

CONSTANTS k1, k2

\* A trail rewritten whole and chained again, and a file with a trigger of its own.
F == {File({1, 9}, {}, "ok"), File({1}, {}, "drift")}
P == {[backups |-> {k1}, restores |-> 1, links |-> TRUE]}
=============================================================================
