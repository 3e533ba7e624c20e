------------------------------- MODULE Backup -------------------------------
(***************************************************************************)
(* Copies of the database, taken while serve runs, and their restoration   *)
(* (cmd/mcp-gateway/backup.go, dbreport.go, internal/store).  A database   *)
(* is a main file and a write-ahead log beside it, that holds committed    *)
(* rows the main file does not have yet; a process that has it open goes   *)
(* on using both after they were renamed.  Backups run beside each other   *)
(* (a timer and an operator), a restore beside them; each may crash.  What *)
(* SQLite does with the files is external.  Of a database's contents only  *)
(* the rows of its trail are kept, by number, and what the checks would    *)
(* say of the rest.                                                        *)
(***************************************************************************)
EXTENDS Naturals, Sequences, FiniteSets, FiniteSetsExt

CONSTANTS Backups,        \* the runs of backup
          Keep,           \* -keep, 0 keeps all
          FirstGrades,    \* what the checks may say of the first database
          Foreign,        \* files that are not backups of this gateway
          Interrupted,    \* a restore may be cut between its renames, or serve and
                          \* backups may come in there
          MaxCommits, MaxDbs, MaxStamp,   \* bounds
          Plans           \* how many restores run beside which backups (bounds), and whether the
                          \* file system has hard links

VARIABLES dbs,        \* the databases made so far
          mainAt,     \* the one whose main file is at the configured path, 0 none
          walAt,      \* the one whose log is beside that path, 0 none
          aside,      \* what restores moved aside, by the second in the name: <<main file of, log of>>
          overwritten,  \* history: the databases whose main file, kept aside, another was renamed over
          written,    \* how many rows were committed
          serve,      \* [pc, db]
          stamp,      \* the second, for the names of files
          dir,        \* the backup directory, by second
          links,      \* the file system has hard links
          placed,     \* history: the copy last put under each name that was free
          bk, rs      \* the runs of backup; the restore

bkVars == <<dbs, mainAt, walAt, aside, overwritten, written, serve, stamp, dir, links, placed, bk, rs>>

Grades == {"ok", "old", "new", "drift", "broken", "mixed"}

\* CheckSchema: a database a newer program wrote is refused, whoever opens it.
Known(grade) == grade # "new"

\* SchemaDrift: the tables, indexes, triggers and views are not what the migrations make.
Drifted(grade) == grade = "drift"

\* What the chain of the trail and the signatures of the entries say of the contents.
Verified(grade) == grade # "broken"

\* SQLite's own check.
Integral(grade) == grade # "mixed"

Stamps == 1 .. MaxStamp

FileRec == [there : BOOLEAN, rows : SUBSET Nat, floor : SUBSET Nat, grade : Grades]

ASSUME BackupAssumption ==
    Keep \in Nat /\ MaxStamp \in Nat \ {0} /\ FirstGrades \subseteq Grades /\ Foreign \subseteq FileRec
    /\ \A p \in Plans : p.links \in BOOLEAN

Db(main, wal, grade) == [main |-> main, wal |-> wal, grade |-> grade]
NoFile == [there |-> FALSE, rows |-> {}, floor |-> {}, grade |-> "ok"]
File(rows, floor, grade) == [there |-> TRUE, rows |-> rows, floor |-> floor, grade |-> grade]

Rows(d) == dbs[d].main \union dbs[d].wal
HeadOf(f) == Max(f.rows \union {0})

NoRun == [pc |-> "idle", at |-> 0, db |-> 0, floor |-> {}, file |-> NoFile, names |-> {}]
Over == [NoRun EXCEPT !.pc = "over"]
NoRestore(n) == [pc |-> "idle", at |-> 0, file |-> NoFile, expect |-> 0, old |-> 0, left |-> n]

BkInit ==
    /\ \E g \in FirstGrades : dbs = << Db({1}, {}, g) >>
    /\ mainAt = 1 /\ walAt = 0 /\ aside = [n \in Stamps |-> <<0, 0>>] /\ overwritten = {} /\ written = 1
    /\ serve = [pc |-> "off", db |-> 0]
    /\ stamp = 1 /\ dir = [n \in Stamps |-> NoFile] /\ placed = [n \in Stamps |-> NoFile]
    /\ \E p \in Plans : /\ links = p.links
                      /\ bk = [b \in Backups |-> IF b \in p.backups THEN NoRun ELSE Over]
                      /\ rs = NoRestore(p.restores)

----------------------------------------------------------------------------
(* What opening the path does, as SQLite does it: a log beside no main file is    *)
(* deleted with what it held, a log beside another's main file is replayed.       *)

Opened(migrates) ==
    LET grade(g) == IF migrates /\ g = "old" THEN "ok" ELSE g
    IN  IF mainAt = 0
        THEN /\ Len(dbs) < MaxDbs
             /\ dbs' = Append(IF walAt = 0 THEN dbs ELSE [dbs EXCEPT ![walAt].wal = {}], Db({}, {}, "ok"))
             /\ mainAt' = Len(dbs) + 1 /\ walAt' = Len(dbs) + 1
        ELSE /\ mainAt' = mainAt /\ walAt' = mainAt
             /\ dbs' = IF walAt \in {0, mainAt}
                       THEN [dbs EXCEPT ![mainAt].grade = grade(@)]
                       ELSE [dbs EXCEPT ![mainAt] = Db(@.main \union dbs[walAt].wal, {}, "mixed")]

\* Between the renames of a restore the path has no database of its own.
InRenames == rs.pc \in {"wal", "place"}

----------------------------------------------------------------------------
(* serve: it has the database open before it listens.                      *)

ServeOpens ==
    /\ serve.pc = "off" /\ (InRenames => Interrupted)
    /\ (mainAt # 0 => Known(dbs[mainAt].grade))
    /\ Opened(TRUE) /\ serve' = [pc |-> "open", db |-> mainAt']
    /\ UNCHANGED <<aside, overwritten, links, written, stamp, dir, placed, bk, rs>>

ServeListens == /\ serve.pc = "open" /\ serve' = [serve EXCEPT !.pc = "on"]
                /\ UNCHANGED <<dbs, mainAt, walAt, aside, overwritten, links, written, stamp, dir, placed, bk, rs>>

ServeCommits ==
    /\ serve.pc = "on" /\ written < MaxCommits
    /\ written' = written + 1 /\ dbs' = [dbs EXCEPT ![serve.db].wal = @ \union {written + 1}]
    /\ UNCHANGED <<mainAt, walAt, aside, overwritten, links, serve, stamp, dir, placed, bk, rs>>

Checkpointed(d) == [dbs EXCEPT ![d] = Db(@.main \union @.wal, {}, @.grade)]

\* The last to close a database that is still at its path folds the log in and removes it.
Closed(d, others) ==
    IF d = mainAt /\ d \notin others
    THEN dbs' = Checkpointed(d) /\ walAt' = IF walAt = d THEN 0 ELSE walAt
    ELSE UNCHANGED <<dbs, walAt>>

ByBackups(B) == {bk[b].db : b \in B}
ByRestore == IF rs.pc = "row" THEN {rs.old} ELSE {}

ServeStops ==
    /\ serve.pc # "off" /\ serve' = [pc |-> "off", db |-> 0]
    /\ Closed(serve.db, ByBackups(Backups) \union ByRestore)
    /\ UNCHANGED <<mainAt, aside, overwritten, links, written, stamp, dir, placed, bk, rs>>

ServeDies == /\ serve.pc # "off" /\ serve' = [pc |-> "off", db |-> 0]
             /\ UNCHANGED <<dbs, mainAt, walAt, aside, overwritten, links, written, stamp, dir, placed, bk, rs>>

----------------------------------------------------------------------------
(* backup.                                                                 *)

Run(b, x) == bk' = [bk EXCEPT ![b] = x]

\* openLiveForBackup: the database must be there ...
BackupBegins(b) ==
    /\ bk[b].pc = "idle" /\ mainAt # 0
    /\ Run(b, [NoRun EXCEPT !.pc = "open"])
    /\ UNCHANGED <<dbs, mainAt, walAt, aside, overwritten, links, written, serve, stamp, dir, placed, rs>>

\* ... it is opened and never migrated; a newer schema is refused.  The name is of
\* the second after that.
BackupOpens(b) ==
    /\ bk[b].pc = "open" /\ (InRenames => Interrupted) /\ (mainAt = 0 => Interrupted)
    /\ Opened(FALSE)
    /\ Run(b, IF ~Known(dbs'[mainAt'].grade) THEN [NoRun EXCEPT !.pc = "close", !.db = mainAt']
              ELSE [bk[b] EXCEPT !.pc = "snapshot", !.at = stamp, !.db = mainAt', !.floor = dbs'[mainAt'].main \union dbs'[mainAt'].wal])
    /\ UNCHANGED <<aside, overwritten, links, written, serve, stamp, dir, placed, rs>>

\* It returns, and closes the database.
Finished(b) == [bk[b] EXCEPT !.pc = "close"]

\* A copy of the main file alone.
SnapshotOfFile(d) == dbs[d].main

\* VACUUM INTO: what is committed, in the log or not.
Snapshot(d) == Rows(d)

BackupSnapshots(b) ==
    /\ bk[b].pc = "snapshot"
    /\ Run(b, [bk[b] EXCEPT !.pc = "inspect", !.file = File(Snapshot(bk[b].db), bk[b].floor, dbs[bk[b].db].grade)])
    /\ UNCHANGED <<dbs, mainAt, walAt, aside, overwritten, links, written, serve, stamp, dir, placed, rs>>

\* inspectFile: a copy that fails SQLite's own check is not kept; a broken chain,
\* a bad signature or a foreign schema is kept as evidence.
BackupInspects(b) ==
    /\ bk[b].pc = "inspect"
    /\ Run(b, IF ~Integral(bk[b].file.grade) THEN Finished(b) ELSE [bk[b] EXCEPT !.pc = "place"])
    /\ UNCHANGED <<dbs, mainAt, walAt, aside, overwritten, links, written, serve, stamp, dir, placed, rs>>

\* What follows the placing.
AfterPlacing(b) == IF Keep > 0 THEN [bk[b] EXCEPT !.pc = "list"] ELSE Finished(b)

\* placeNoReplace: a hard link refuses a name that is taken, of the same second.
BackupPlaces(b) ==
    /\ bk[b].pc = "place" /\ links
    /\ LET free == ~dir[bk[b].at].there
       IN  /\ dir' = IF free THEN [dir EXCEPT ![bk[b].at] = bk[b].file] ELSE dir
           /\ placed' = IF free THEN [placed EXCEPT ![bk[b].at] = bk[b].file] ELSE placed
           /\ Run(b, IF free THEN AfterPlacing(b) ELSE Finished(b))
    /\ UNCHANGED <<dbs, mainAt, walAt, aside, overwritten, links, written, serve, stamp, rs>>

\* Where there are none it looks, and renames.
BackupLooks(b) ==
    /\ bk[b].pc = "place" /\ ~links
    /\ Run(b, IF dir[bk[b].at].there THEN Finished(b) ELSE [bk[b] EXCEPT !.pc = "rename"])
    /\ UNCHANGED <<dbs, mainAt, walAt, aside, overwritten, links, written, serve, stamp, dir, placed, rs>>

BackupRenames(b) ==
    /\ bk[b].pc = "rename"
    /\ dir' = [dir EXCEPT ![bk[b].at] = bk[b].file]
    /\ placed' = IF dir[bk[b].at].there THEN placed ELSE [placed EXCEPT ![bk[b].at] = bk[b].file]
    /\ Run(b, AfterPlacing(b))
    /\ UNCHANGED <<dbs, mainAt, walAt, aside, overwritten, links, written, serve, stamp, rs>>

\* The newest go first.
DoomedNewest(names) == {n \in names : Cardinality({m \in names : m < n}) >= Keep}

\* pruneBackups: all but the newest Keep of the names it read.
Doomed(names) == {n \in names : Cardinality({m \in names : m > n}) >= Keep}

BackupLists(b) ==
    /\ bk[b].pc = "list"
    /\ LET doomed == Doomed({n \in Stamps : dir[n].there})
       IN  Run(b, IF doomed = {} THEN Finished(b) ELSE [bk[b] EXCEPT !.pc = "prune", !.names = doomed])
    /\ UNCHANGED <<dbs, mainAt, walAt, aside, overwritten, links, written, serve, stamp, dir, placed, rs>>

\* Oldest first; one that another run removed ends the pruning.
BackupPrunes(b) ==
    /\ bk[b].pc = "prune"
    /\ LET n    == Min(bk[b].names)
           rest == bk[b].names \ {n}
       IN  /\ dir' = [dir EXCEPT ![n] = NoFile]
           /\ Run(b, IF dir[n].there /\ rest # {} THEN [bk[b] EXCEPT !.names = rest] ELSE Finished(b))
    /\ UNCHANGED <<dbs, mainAt, walAt, aside, overwritten, links, written, serve, stamp, placed, rs>>

BackupCloses(b) ==
    /\ bk[b].pc = "close" /\ Run(b, Over)
    /\ Closed(bk[b].db, ByBackups(Backups \ {b}) \union {serve.db} \union ByRestore)
    /\ UNCHANGED <<mainAt, aside, overwritten, links, written, serve, stamp, dir, placed, rs>>

\* What it had in its temporary directory is no copy of any name.
BackupCrashes(b) ==
    /\ bk[b].pc \notin {"idle", "over"} /\ Run(b, Over)
    /\ UNCHANGED <<dbs, mainAt, walAt, aside, overwritten, links, written, serve, stamp, dir, placed, rs>>

----------------------------------------------------------------------------
(* restore.                                                                *)

\* The address serve listens on is free; the file is copied beside the database.
RestoreStages(f, e) ==
    /\ rs.pc = "idle" /\ rs.left > 0 /\ serve.pc # "on" /\ f.there
    /\ rs' = [NoRestore(rs.left - 1) EXCEPT !.pc = "inspect", !.at = stamp, !.file = f, !.expect = e]
    /\ UNCHANGED <<dbs, mainAt, walAt, aside, overwritten, links, written, serve, stamp, dir, placed, bk>>

Passes(grade) == Integral(grade) /\ Known(grade) /\ ~Drifted(grade) /\ Verified(grade)

\* The head is not compared.
RefusedByGrade(f, e) == ~Passes(f.grade)

\* inspectFile and restoreVerdict: integrity, schema and its drift, chain, signatures,
\* and the head the operator kept.
Refused(f, e) == ~Passes(f.grade) \/ (e # 0 /\ HeadOf(f) # e)

\* The checks migrate the copy.
RestoreInspects ==
    /\ rs.pc = "inspect"
    /\ rs' = IF Refused(rs.file, rs.expect) THEN NoRestore(rs.left)
             ELSE [rs EXCEPT !.pc = "main", !.file.grade = IF @ = "old" THEN "ok" ELSE @]
    /\ UNCHANGED <<dbs, mainAt, walAt, aside, overwritten, links, written, serve, stamp, dir, placed, bk>>

\* The database at the path is renamed, if there is one, over what has that name ...
RestoreMovesMain ==
    /\ rs.pc = "main"
    /\ IF mainAt = 0 THEN UNCHANGED <<mainAt, aside, overwritten>> /\ rs' = [rs EXCEPT !.pc = "place"]
       ELSE /\ aside' = [aside EXCEPT ![rs.at] = <<mainAt, @[2]>>] /\ mainAt' = 0
            /\ overwritten' = overwritten \union ({aside[rs.at][1]} \ {0})
            /\ rs' = [rs EXCEPT !.pc = "wal", !.old = mainAt]
    /\ UNCHANGED <<dbs, walAt, links, written, serve, stamp, dir, placed, bk>>

\* ... without its log.
LogLeft == <<aside, walAt>>

\* ... then its log, over that of the other; without one the other's stays.
LogMoved == << IF walAt = 0 THEN aside ELSE [aside EXCEPT ![rs.at] = <<@[1], walAt>>], 0 >>

RestoreMovesLog ==
    /\ rs.pc = "wal" /\ aside' = LogMoved[1] /\ walAt' = LogMoved[2]
    /\ rs' = [rs EXCEPT !.pc = "place"]
    /\ UNCHANGED <<dbs, mainAt, overwritten, links, written, serve, stamp, dir, placed, bk>>

\* The checked copy takes the path, whatever is there by now.
RestorePlaces ==
    /\ rs.pc = "place" /\ Len(dbs) < MaxDbs
    /\ dbs' = Append(dbs, Db(rs.file.rows, {}, rs.file.grade))
    /\ mainAt' = Len(dbs) + 1 /\ rs' = [rs EXCEPT !.pc = "record"]
    /\ UNCHANGED <<walAt, aside, overwritten, links, written, serve, stamp, dir, placed, bk>>

\* The restored database is opened, and its trail says so.
RestoreOpens ==
    /\ rs.pc = "record" /\ Opened(TRUE) /\ rs' = [rs EXCEPT !.pc = "row", !.old = mainAt']
    /\ UNCHANGED <<aside, overwritten, links, written, serve, stamp, dir, placed, bk>>

RestoreRecords ==
    /\ rs.pc = "row" /\ written < MaxCommits /\ written' = written + 1
    /\ dbs' = [dbs EXCEPT ![rs.old] = Db(@.main \union @.wal \union {written + 1}, {}, @.grade)]
    /\ walAt' = IF walAt = rs.old /\ rs.old \notin ByBackups(Backups) \union {serve.db} THEN 0 ELSE walAt
    /\ rs' = NoRestore(rs.left)
    /\ UNCHANGED <<mainAt, aside, overwritten, links, serve, stamp, dir, placed, bk>>

\* A crash, or a rename that fails.
RestoreCrashes ==
    /\ rs.pc # "idle" /\ (rs.pc = "wal" => Interrupted)
    /\ rs' = NoRestore(rs.left)
    /\ UNCHANGED <<dbs, mainAt, walAt, aside, overwritten, links, written, serve, stamp, dir, placed, bk>>

Second == /\ stamp < MaxStamp /\ stamp' = stamp + 1
          /\ UNCHANGED <<dbs, mainAt, walAt, aside, overwritten, links, written, serve, dir, placed, bk, rs>>

Step(b) == \/ BackupBegins(b) \/ BackupOpens(b) \/ BackupSnapshots(b) \/ BackupInspects(b)
           \/ BackupPlaces(b) \/ BackupLooks(b) \/ BackupRenames(b)
           \/ BackupLists(b) \/ BackupPrunes(b) \/ BackupCloses(b) \/ BackupCrashes(b)

BkNext ==
    \/ ServeOpens \/ ServeListens \/ ServeCommits \/ ServeStops \/ ServeDies
    \/ \E b \in Backups : Step(b)
    \/ \E f \in {dir[n] : n \in Stamps} \union Foreign, e \in {0} \union {HeadOf(dir[n]) : n \in Stamps} : RestoreStages(f, e)
    \/ RestoreInspects \/ RestoreMovesMain \/ RestoreMovesLog \/ RestorePlaces
    \/ RestoreOpens \/ RestoreRecords \/ RestoreCrashes
    \/ Second

BkSpec == BkInit /\ [][BkNext]_bkVars

----------------------------------------------------------------------------
(* What is checked.                                                        *)

\* The state is well formed, and what is at the path is a database made so far.
BkTypeOK ==
    /\ mainAt \in 0 .. Len(dbs) /\ walAt \in 0 .. Len(dbs) /\ serve.db \in 0 .. Len(dbs)
    /\ \A d \in 1 .. Len(dbs) : dbs[d].grade \in Grades
    /\ rs.pc # "idle" => rs.at \in Stamps

WasPlaced == {n \in Stamps : placed[n].there}

\* The copies in the backup directory hold at least every row that was committed when
\* the backup opened the database, whatever serve, another backup, a pruning and a
\* crash do meanwhile; the newest of the copies ever put in place are still there; and
\* none was replaced by another of its second, where the file system has hard links
\* (Snapshot, placeNoReplace, pruneBackups).
CopiesAreWhole ==
    /\ \A n \in Stamps : dir[n].there => dir[n].floor \subseteq dir[n].rows /\ (links => dir[n] = placed[n])
    /\ \A n \in WasPlaced : Cardinality({m \in WasPlaced : m > n}) < Keep \/ Keep = 0 => dir[n].there

\* What a restore puts in place is the file it checked, the one whose head the operator
\* gave, and a forgery that only that head tells apart is not (restoreVerdict).
RestoredIsChecked ==
    rs.pc = "record" =>
        /\ rs.file.rows \subseteq dbs[mainAt].main /\ dbs[mainAt].grade = "ok"
        /\ rs.expect # 0 => HeadOf(rs.file) = rs.expect

Files == {<<mainAt, walAt>>} \union {aside[n] : n \in Stamps}

\* Every row ever committed is in a database at the path or moved aside from it, in its
\* main file or in its log, but for the database a restore kept under a name that another
\* restore of the same second then took (runRestoreFrom).
NothingIsLost ==
    \A r \in 1 .. written :
        \/ \E p \in Files : (p[1] # 0 /\ r \in dbs[p[1]].main) \/ (p[2] # 0 /\ r \in dbs[p[2]].wal)
        \/ \E d \in overwritten : r \in Rows(d)

(* What a backup copied is whole, and what a restore put in place is what  *)
(* its checks passed (Snapshot, pruneBackups, restoreVerdict).             *)
CopiesAreSound == BkTypeOK /\ CopiesAreWhole /\ RestoredIsChecked

----------------------------------------------------------------------------
(* The inductive invariant, where nothing comes between the renames of a   *)
(* restore.                                                                *)

DbRec  == [main : SUBSET Nat, wal : SUBSET Nat, grade : Grades]
RunRec == [pc : {"idle", "open", "snapshot", "inspect", "place", "rename", "list", "prune", "close", "over"}, at : {0} \union Stamps,
           db : Nat, floor : SUBSET Nat, file : FileRec, names : SUBSET Stamps]

BkTypes ==
    /\ dbs \in Seq(DbRec) /\ mainAt \in 0 .. Len(dbs) /\ walAt \in 0 .. Len(dbs) /\ written \in Nat
    /\ serve \in [pc : {"off", "open", "on"}, db : 0 .. Len(dbs)]
    /\ stamp \in Stamps /\ dir \in [Stamps -> FileRec] /\ placed \in [Stamps -> FileRec] /\ bk \in [Backups -> RunRec]
    /\ links \in BOOLEAN /\ aside \in [Stamps -> (0 .. Len(dbs)) \X (0 .. Len(dbs))] /\ overwritten \subseteq 1 .. Len(dbs)
    /\ DOMAIN rs = {"pc", "at", "file", "expect", "old", "left"} /\ rs.file \in FileRec
    /\ rs.pc \in {"idle", "inspect", "main", "wal", "place", "record", "row"} /\ (rs.pc # "idle" => rs.at \in Stamps)

\* The main file, and the log, of a database: at the path, aside, or overwritten there.
Filed(d)  == d = mainAt \/ d \in overwritten \/ \E n \in Stamps : aside[n][1] = d
Logged(d) == d = walAt \/ d \in overwritten \/ \E n \in Stamps : aside[n][2] = d

\* Every database has its main file, and its log if that has anything in it or serve writes to
\* it; what is aside is at the path no more, and its log is its own, or an overwritten one's.
FilesTell ==
    /\ \A d \in 1 .. Len(dbs) : Filed(d) /\ (dbs[d].wal # {} => Logged(d))
    /\ serve.pc # "off" => serve.db # 0 /\ Logged(serve.db)
    /\ \A n \in Stamps : /\ aside[n][1] # 0 => aside[n][1] # mainAt
                         /\ aside[n][2] \in {0, aside[n][1]} \union overwritten

\* Only between the renames is a log beside no database; what passed the checks is placed.
RestoreTells ==
    /\ walAt \in {0, mainAt} \/ rs.pc = "wal"
    /\ rs.pc = "wal" => /\ mainAt = 0 /\ rs.old \in 1 .. Len(dbs) /\ walAt \in {0, rs.old}
                        /\ aside[rs.at][1] = rs.old
    /\ rs.pc = "place" => mainAt = 0
    /\ rs.pc = "row" => rs.old \in 1 .. Len(dbs)
    /\ rs.pc \in {"main", "wal", "place", "record"} =>
         rs.file.grade = "ok" /\ (rs.expect # 0 => HeadOf(rs.file) = rs.expect)
    /\ rs.pc = "record" => mainAt # 0 /\ rs.file.rows \subseteq dbs[mainAt].main /\ dbs[mainAt].grade = "ok"

Newer(n) == Cardinality({m \in WasPlaced : m > n})

\* A backup copies what was there when it opened, and dooms only what Keep newer ones follow.
RunTells(x) ==
    /\ x.pc \notin {"idle", "open", "close", "over"} => x.at \in Stamps
    /\ x.db \in 0 .. Len(dbs) /\ (x.pc = "rename" => ~links)
    /\ x.pc = "snapshot" => x.db \in 1 .. Len(dbs) /\ x.floor \subseteq Rows(x.db)
    /\ x.pc \in {"inspect", "place", "rename"} => x.file.there /\ x.file.floor \subseteq x.file.rows
    /\ x.pc \in {"list", "prune"} => Keep > 0
    /\ x.pc = "prune" => x.names # {} /\ \A n \in x.names : Newer(n) >= Keep

DirTells ==
    /\ \A n \in Stamps : dir[n].there => placed[n].there
    /\ CopiesAreWhole

RowsAreSomewhere == \A r \in 1 .. written : \E d \in 1 .. Len(dbs) : r \in Rows(d)

BkInv ==
    /\ BkTypes /\ FilesTell /\ RestoreTells /\ (\A b \in Backups : RunTells(bk[b])) /\ DirTells
    /\ RowsAreSomewhere
=============================================================================
