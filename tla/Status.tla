------------------------------- MODULE Status -------------------------------
(***************************************************************************)
(* What the gateway knows of its backends' lives, and what the operators   *)
(* are shown of it (internal/gateway/health.go, internal/health/sqlite,    *)
(* internal/admin/health.go).  The rounds, one after the other, and any    *)
(* call that finds its backend dead report: they change the table of       *)
(* lives under the lock, write the rows of what changed after it, copy the *)
(* table under the lock and write the copy to the store.  The reports of   *)
(* calls overlap those of a round.  The gateway process crashes and boots; *)
(* backends die, and list other tools; the consoles read the store.        *)
(***************************************************************************)
EXTENDS Naturals, FiniteSets, FiniteSetsExt

CONSTANTS Backends, Calls,
          MaxListed,      \* bound: the last definitions a backend lists
          Interval, Grace,
          MaxDials,       \* bound: connections to a backend
          Bounds          \* bounds: how far time goes, and how much goes wrong

ASSUME StatusAssumption ==
    MaxListed \in Nat \ {0} /\ MaxDials \in Nat \ {0} /\ Interval \in Nat /\ Grace \in Nat

VARIABLES clock,
          left,       \* of the bounds
          entries,    \* the backends the registry has
          frozen,     \* the quota policy and the registry disagree: nothing is dialled
          alive,      \* the backends whose process runs
          lists,      \* what each of them lists now
          running,    \* the gateway process runs
          conn,       \* its connections, by number, 0 none
          gone,       \* the connection found dead
          unlisted,   \* the connection a round adopted and none has listed yet
          heldBack,   \* the last round dialled nothing
          lives,      \* g.health
          listing,    \* g.listing: the last live listing, 0 none
          dirty,      \* g.dirtyListing
          report,     \* the reports under way: of the round, and of calls
          doubtful,   \* history: the backends of which a row failed, or two were under way at once, and
                      \* none was reported alone since
          healthTrail,      \* the last row of backend health the audit trail has of each
          store,      \* the database: health, listings and serve status
          refreshed   \* when the last round finished looking

memory   == <<conn, gone, unlisted, heldBack, lives, listing, dirty>>
world    == <<entries, frozen, alive, lists>>
statVars == <<clock, left, entries, frozen, alive, lists, running, conn, gone, unlisted, heldBack, lives, listing, dirty,
              report, doubtful, healthTrail, store, refreshed>>

Unknown == [known |-> FALSE, live |-> FALSE, cause |-> ""]
Life(live, cause) == [known |-> TRUE, live |-> live, cause |-> IF live THEN "" ELSE cause]

Reporters == Calls \union {"round"}
NoReport == [pc |-> "idle", of |-> "", via |-> 0, events |-> {}, health |-> {}, listed |-> {}, at |-> 0, round |-> FALSE]

Nothing == [health |-> [b \in Backends |-> Unknown], listed |-> [b \in Backends |-> 0], last |-> 0, found |-> FALSE]

StatInit ==
    /\ clock = 1 /\ left \in Bounds /\ entries = Backends /\ frozen = FALSE
    /\ alive = Backends /\ lists = [b \in Backends |-> 1]
    /\ running = FALSE /\ conn = [b \in Backends |-> 0] /\ gone = [b \in Backends |-> 0]
    /\ unlisted = [b \in Backends |-> 0] /\ heldBack = FALSE
    /\ lives = [b \in Backends |-> Unknown] /\ listing = [b \in Backends |-> 0] /\ dirty = {}
    /\ report = [r \in Reporters |-> NoReport]
    /\ doubtful = {} /\ healthTrail = [b \in Backends |-> "none"] /\ store = Nothing /\ refreshed = 0

----------------------------------------------------------------------------
(* One backend observed.  An event is the row its change will leave.       *)

Event(b, says) == [backend |-> b, says |-> says]

\* Only a change from one to the other is told.
ToldUnlessNew(b, live) == lives[b].known /\ lives[b].live # live

\* observeLive: a first observation is told as a change is.
Told(b, live) == ~lives[b].known \/ lives[b].live # live

\* A cause is kept when the observation brings none; a live backend has none.
observeLive(b, live, cause) ==
    Life(live, IF cause = "" /\ lives[b].known THEN lives[b].cause ELSE cause)

EventsOf(S, live(_)) == {Event(b, IF live(b) THEN "up" ELSE "down") : b \in {c \in S : Told(c, live(c))}}

----------------------------------------------------------------------------
(* The reports.                                                            *)

Fault == left.faults > 0 /\ left' = [left EXCEPT !.faults = @ - 1]

Becomes(r, x) == report' = [report EXCEPT ![r] = x]

\* The rows under way that are of b.
Unwritten(b) == {e \in UNION {report[r].events : r \in Reporters} : e.backend = b}

\* A report takes up the rows of what it observed, to write them after the lock.
Observes(r, x) ==
    /\ Becomes(r, x)
    /\ LET of == {e.backend : e \in x.events}
       IN  doubtful' = (doubtful \ of) \union {b \in of : Unwritten(b) # {}}

Told1(r, e) == [report[r] EXCEPT !.events = @ \ {e}]

\* writeHealthEvents, row after row: the trail has them in the order they are written in.
WriteRow(r, e) ==
    /\ running /\ report[r].pc = "rows" /\ e \in report[r].events
    /\ healthTrail' = [healthTrail EXCEPT ![e.backend] = e.says]
    /\ Becomes(r, Told1(r, e))
    /\ UNCHANGED <<clock, left, world, running, memory, doubtful, store, refreshed>>

\* auditGatewayRow: one that fails is logged and gone for good.
RowFails(r, e) ==
    /\ running /\ report[r].pc = "rows" /\ e \in report[r].events /\ Fault
    /\ Becomes(r, Told1(r, e)) /\ doubtful' = doubtful \union {e.backend}
    /\ UNCHANGED <<clock, world, running, memory, healthTrail, store, refreshed>>

\* persistHealth, after the rows, copies the table and the listings not yet written.
Copy(r) ==
    /\ running /\ report[r].pc = "rows" /\ report[r].events = {}
    /\ Becomes(r, [report[r] EXCEPT !.pc = "write", !.at = clock,
                     !.health = {<<b, lives[b]>> : b \in {c \in Backends : lives[c].known}},
                     !.listed = {<<b, listing[b]>> : b \in dirty}])
    /\ refreshed' = IF report[r].round THEN clock ELSE refreshed
    /\ UNCHANGED <<clock, left, world, running, memory, doubtful, healthTrail, store>>

\* Every report renews the serve status.
SaysRoundAlways(r) == TRUE

\* Only a round's does.
SaysRound(r) == report[r].round

\* The rows of the backends in the copy; others stay as they were.
HealthKept(r, b) == IF \E l \in report[r].health : l[1] = b
                    THEN (CHOOSE l \in report[r].health : l[1] = b)[2] ELSE store.health[b]

\* The rows of before are deleted in the same transaction.
HealthRows(r, b) == IF \E l \in report[r].health : l[1] = b
                    THEN (CHOOSE l \in report[r].health : l[1] = b)[2] ELSE Unknown

WriteState(r) ==
    /\ running /\ report[r].pc = "write"
    /\ store' = [health |-> [b \in Backends |-> HealthRows(r, b)],
                 listed |-> [b \in Backends |-> IF \E l \in report[r].listed : l[1] = b
                                                THEN (CHOOSE l \in report[r].listed : l[1] = b)[2]
                                                ELSE store.listed[b]],
                 last   |-> IF SaysRound(r) THEN report[r].at ELSE store.last,
                 found  |-> store.found \/ SaysRound(r)]
    /\ Becomes(r, [report[r] EXCEPT !.pc = "clear", !.health = {}])
    /\ UNCHANGED <<clock, left, world, running, memory, doubtful, healthTrail, refreshed>>

\* The report is over; a round's first half leads to its second.
Next1(r) == IF r = "round" /\ ~report[r].round THEN [NoReport EXCEPT !.pc = "refresh"] ELSE NoReport

StoreWriteFails(r) ==
    /\ running /\ report[r].pc = "write" /\ Fault
    /\ Becomes(r, Next1(r))
    /\ UNCHANGED <<clock, world, running, memory, doubtful, healthTrail, store, refreshed>>

\* What was written is no longer marked, whatever was listed meanwhile.
Clear(r) ==
    /\ running /\ report[r].pc = "clear"
    /\ dirty' = dirty \ {l[1] : l \in report[r].listed}
    /\ Becomes(r, Next1(r))
    /\ UNCHANGED <<clock, left, world, running, conn, gone, unlisted, heldBack, lives, listing, doubtful, healthTrail, store, refreshed>>

----------------------------------------------------------------------------
(* The rounds: Reconcile dials and settles, Refresh lists.                 *)

Lost(b) == conn[b] = 0 \/ gone[b] = conn[b]

\* settleHealth, after the dials: every backend of the registry is observed, a
\* connection not yet listed as not live; one that left the registry is forgotten.
\* Of one that a call marked since the dials were chosen the cause stands; the
\* model has that call's mark after this step, which leaves the same.
Settled(now, news, still) ==
    LET alive1(b) == now[b] > 0 /\ gone[b] # now[b]
        live(b)   == alive1(b) /\ news[b] # now[b]
        cause(b)  == IF alive1(b) THEN "not_listed" ELSE IF still THEN "held_back" ELSE "not_brought_up"
        parted    == {b \in Backends \ entries : lives[b].known}
        events    == EventsOf(entries, live) \union {Event(b, "removed") : b \in parted}
    IN  /\ conn' = now /\ unlisted' = news /\ heldBack' = still
        /\ lives' = [b \in Backends |-> IF b \in entries THEN observeLive(b, live(b), cause(b)) ELSE Unknown]
        /\ Observes("round", [NoReport EXCEPT !.pc = "rows", !.events = events, !.round = ~running])

\* adopt: what was just dialled is not listed yet.
Adopted(up, now) == [b \in Backends |-> IF b \in up THEN now[b] ELSE unlisted[b]]

\* Reconcile: what is lost is dialled again, nothing while the policy disagrees;
\* what is no longer registered is closed.
Reconcile(up) ==
    /\ running /\ report["round"].pc = "idle"
    /\ up \subseteq {b \in entries \intersect alive : Lost(b) /\ conn[b] < MaxDials} /\ (frozen => up = {})
    /\ LET now == [b \in Backends |-> IF b \in up THEN conn[b] + 1 ELSE IF b \notin entries THEN 0 ELSE conn[b]]
       IN  Settled(now, Adopted(up, now), frozen)
    /\ UNCHANGED <<clock, left, world, running, gone, listing, dirty, healthTrail, store, refreshed>>

\* markListed: a connection listed for the first time makes its backend live.
FirstListed(seen) == {b \in seen : unlisted[b] = conn[b] /\ lives[b].known}

\* Refresh: every connection is asked.  One that is dead is marked; what another
\* lists is its last live listing; one whose listing fails otherwise keeps what
\* it had.
Refresh(missed) ==
    /\ running /\ report["round"].pc = "refresh"
    /\ LET asked == {b \in Backends : ~Lost(b)}
           dead  == asked \ alive
           seen  == asked \ (dead \union missed)
           first == FirstListed(seen)
           events == EventsOf(dead \union first, LAMBDA b : b \in first)
       IN  /\ missed \subseteq asked \ dead /\ IF missed = {} THEN UNCHANGED left ELSE Fault
           /\ gone' = [b \in Backends |-> IF b \in dead THEN conn[b] ELSE gone[b]]
           /\ unlisted' = [b \in Backends |-> IF b \in seen THEN 0 ELSE unlisted[b]]
           /\ lives' = [b \in Backends |->
                          IF b \in first THEN observeLive(b, TRUE, "")
                          ELSE IF b \in dead THEN observeLive(b, FALSE, IF heldBack THEN "held_back" ELSE "process_gone")
                          ELSE lives[b]]
           /\ listing' = [b \in Backends |-> IF b \in seen THEN lists[b] ELSE listing[b]]
           /\ dirty' = dirty \union seen
           /\ Observes("round", [NoReport EXCEPT !.pc = "rows", !.round = TRUE, !.events = events])
    /\ UNCHANGED <<clock, world, running, conn, heldBack, healthTrail, store, refreshed>>

----------------------------------------------------------------------------
(* A call that finds its backend dead.                                     *)

CallOut(c, b) ==
    /\ running /\ report[c].pc = "idle" /\ ~Lost(b)
    /\ Becomes(c, [NoReport EXCEPT !.pc = "out", !.of = b, !.via = conn[b]])
    /\ UNCHANGED <<clock, left, world, running, memory, doubtful, healthTrail, store, refreshed>>

Dead(b, via) == via # conn[b] \/ b \notin alive

CallBack(c) ==
    /\ running /\ report[c].pc = "out" /\ ~Dead(report[c].of, report[c].via)
    /\ Becomes(c, NoReport)
    /\ UNCHANGED <<clock, left, world, running, memory, doubtful, healthTrail, store, refreshed>>

\* markGone: of the connection the call went over, and of no later one; a call
\* whose mark changes nothing reports nothing.
MarkGone(c) ==
    /\ running /\ report[c].pc = "out" /\ Dead(report[c].of, report[c].via)
    /\ LET b      == report[c].of
           mine   == report[c].via = conn[b]
           events == IF mine /\ lives[b].known THEN EventsOf({b}, LAMBDA x : FALSE) ELSE {}
       IN  /\ gone' = IF mine THEN [gone EXCEPT ![b] = conn[b]] ELSE gone
           /\ lives' = IF mine /\ lives[b].known
                       THEN [lives EXCEPT ![b] = observeLive(b, FALSE, IF heldBack THEN "held_back" ELSE "process_gone")] ELSE lives
           /\ Observes(c, IF events = {} THEN NoReport ELSE [NoReport EXCEPT !.pc = "rows", !.events = events])
    /\ UNCHANGED <<clock, left, world, running, conn, unlisted, heldBack, listing, dirty, healthTrail, store, refreshed>>

----------------------------------------------------------------------------
(* The process, and the world.                                             *)

\* loadListings: what the store has stands until a backend is listed.
Loaded(up) == [b \in Backends |-> IF b \in up THEN lists[b] ELSE store.listed[b]]

\* Connect: the stored listings are read, then every backend is dialled and listed.
Connect(up) ==
    /\ ~running /\ ~frozen /\ up \subseteq entries \intersect alive /\ running' = TRUE
    /\ Settled([b \in Backends |-> IF b \in up THEN 1 ELSE 0], [b \in Backends |-> 0], FALSE)
    /\ listing' = Loaded(up) /\ dirty' = up
    /\ UNCHANGED <<clock, left, world, gone, healthTrail, store, refreshed>>

Crash ==
    /\ running /\ Fault /\ running' = FALSE
    /\ conn' = [b \in Backends |-> 0] /\ gone' = [b \in Backends |-> 0]
    /\ unlisted' = [b \in Backends |-> 0] /\ heldBack' = FALSE
    /\ lives' = [b \in Backends |-> Unknown] /\ listing' = [b \in Backends |-> 0] /\ dirty' = {}
    /\ report' = [r \in Reporters |-> NoReport]
    /\ UNCHANGED <<clock, world, doubtful, healthTrail, store, refreshed>>

Dies(b) == /\ b \in alive /\ Fault /\ alive' = alive \ {b}
           /\ UNCHANGED <<clock, entries, frozen, lists, running, memory, report, doubtful, healthTrail, store, refreshed>>

\* What a dial would start.
Recovers(b) == /\ b \notin alive /\ alive' = alive \union {b}
               /\ UNCHANGED <<clock, left, entries, frozen, lists, running, memory, report, doubtful, healthTrail, store, refreshed>>

ListsOther(b) == /\ lists[b] < MaxListed /\ lists' = [lists EXCEPT ![b] = @ + 1]
                 /\ UNCHANGED <<clock, left, entries, frozen, alive, running, memory, report, doubtful, healthTrail, store, refreshed>>

Disagrees == /\ Fault /\ frozen' = ~frozen
             /\ UNCHANGED <<clock, entries, alive, lists, running, memory, report, doubtful, healthTrail, store, refreshed>>

\* deregisterEntry: the entry first.
Deregistered(b) ==
    /\ b \in entries /\ Fault /\ entries' = entries \ {b}
    /\ UNCHANGED <<clock, frozen, alive, lists, running, memory, report, doubtful, healthTrail, store, refreshed>>

\* Its last stage, or that of one that begins again: the store's rows of the name.
Forget(b) ==
    /\ b \notin entries /\ Fault
    /\ store' = [store EXCEPT !.health[b] = Unknown, !.listed[b] = 0]
    /\ UNCHANGED <<clock, world, running, memory, report, doubtful, healthTrail, refreshed>>

ClockTick == /\ left.ticks > 0 /\ left' = [left EXCEPT !.ticks = @ - 1] /\ clock' = clock + 1
        /\ UNCHANGED <<world, running, memory, report, doubtful, healthTrail, store, refreshed>>

Step(r) == (\E e \in report[r].events : WriteRow(r, e)) \/ Copy(r) \/ WriteState(r) \/ Clear(r)

StatNext ==
    \/ \E r \in Reporters : Step(r) \/ StoreWriteFails(r) \/ \E e \in report[r].events : RowFails(r, e)
    \/ \E S \in SUBSET Backends : Reconcile(S) \/ Refresh(S) \/ Connect(S)
    \/ \E c \in Calls : CallBack(c) \/ MarkGone(c) \/ \E b \in Backends : CallOut(c, b)
    \/ Crash \/ Disagrees \/ ClockTick
    \/ \E b \in Backends : Dies(b) \/ Recovers(b) \/ ListsOther(b) \/ Deregistered(b) \/ Forget(b)

StatSpec == StatInit /\ [][StatNext]_statVars

\* The supervisor boots the process, the loop runs round after round, and a report
\* that has begun is finished.
StatFair == /\ WF_statVars(\E up \in SUBSET Backends : Connect(up)) /\ WF_statVars(Refresh({}))
            /\ WF_statVars(\E up \in SUBSET Backends : Reconcile(up))
            /\ \A r \in Reporters : WF_statVars(Step(r))

StatFairSpec == StatSpec /\ StatFair

----------------------------------------------------------------------------
(* What the console shows.                                                 *)

serveState == IF ~store.found THEN "never" ELSE IF clock - store.last > 2 * Interval + Grace THEN "silent" ELSE "running"

backendHealth(b) ==
    IF ~store.health[b].known \/ serveState # "running" THEN "unknown"
    ELSE IF store.health[b].live THEN "up"
    ELSE IF store.health[b].cause = "held_back" THEN "down" ELSE "reconnecting"

\* publicState: what a caller is told.
publicState(b) == IF ~lives[b].known THEN "unknown"
                  ELSE IF lives[b].live THEN "up"
                  ELSE IF lives[b].cause = "held_back" THEN "down" ELSE "reconnecting"

----------------------------------------------------------------------------
(* What is checked.                                                        *)

\* The state is well formed, and a live backend has a connection not found dead.
StatTypeOK ==
    /\ conn \in [Backends -> 0 .. MaxDials] /\ gone \in [Backends -> 0 .. MaxDials]
    /\ listing \in [Backends -> 0 .. MaxListed] /\ dirty \subseteq Backends
    /\ \A b \in Backends : lives[b].live => ~Lost(b) /\ unlisted[b] # conn[b] /\ lives[b].cause = ""

StateOf(b) == IF lives[b].live THEN "up" ELSE "down"

\* The last row the trail has of a backend says what it is, or the row that will is
\* under way: also after a restart, and again as soon as one change was reported
\* alone, whatever rows failed to be written or arrived in the other order before it
\* (observeLive, writeHealthEvents, auditGatewayRow).
LastChangeIsTold ==
    \A b \in Backends : lives[b].known /\ b \notin doubtful =>
        IF Unwritten(b) = {} THEN healthTrail[b] = StateOf(b)
        ELSE \A e \in Unwritten(b) : e.says = StateOf(b)

\* The console takes the gateway for running only while rounds finish: the reports
\* of calls do not stand in for a round that hangs (persistHealth, serveState).
StalledRoundIsNoticed == serveState = "running" => clock - refreshed <= 2 * Interval + Grace

Agrees(b) == /\ store.health[b] = lives[b]
             /\ lives[b].known /\ lives[b].live => store.listed[b] = listing[b]

\* Once nothing goes wrong any more, what the store shows is what the gateway knows:
\* an older copy that overwrote a newer one, a failed write and a mark cleared too
\* early are made good by the rounds (persistHealth, recordListing).
StoreCatchesUp == <>[](running => \A b \in Backends : Agrees(b))

\* What the trail says of a backend is its last state, but for a row that failed and for rows
\* of two reports at once, and only until the next change; a gateway whose rounds hang is not
\* taken for running (observeLive, writeHealthEvents, serveState).
StatusIsTrue == StatTypeOK /\ LastChangeIsTold /\ StalledRoundIsNoticed

----------------------------------------------------------------------------
(* The inductive invariant of the proofs.                                  *)

Lives == [known : BOOLEAN, live : BOOLEAN,
          cause : {"", "not_listed", "held_back", "not_brought_up", "process_gone"}]
Events == [backend : Backends, says : {"up", "down", "removed"}]
Reports == [pc : {"idle", "rows", "write", "clear", "refresh", "out"}, of : Backends \union {""},
            via : 0 .. MaxDials, events : SUBSET Events, health : SUBSET (Backends \X Lives),
            listed : SUBSET (Backends \X (0 .. MaxListed)), at : Nat, round : BOOLEAN]

StatTypes ==
    /\ clock \in Nat /\ refreshed \in Nat /\ doubtful \subseteq Backends /\ running \in BOOLEAN
    /\ entries \subseteq Backends /\ alive \subseteq Backends /\ lists \in [Backends -> 0 .. MaxListed]
    /\ unlisted \in [Backends -> 0 .. MaxDials] /\ lives \in [Backends -> Lives] /\ heldBack \in BOOLEAN
    /\ frozen \in BOOLEAN
    /\ \A r \in Reporters : report[r].pc = "out" => report[r].of \in Backends
    /\ report \in [Reporters -> Reports] /\ healthTrail \in [Backends -> {"none", "up", "down", "removed"}]
    /\ store \in [health : [Backends -> Lives], listed : [Backends -> 0 .. MaxListed], last : Nat, found : BOOLEAN]

\* A report holds rows until it has written them and a process that is down has none
\* under way; of a backend in no doubt there is one at most.
RowsAreOrderly ==
    /\ \A r \in Reporters : /\ report[r].pc # "rows" => report[r].events = {}
                            /\ ~running => report[r] = NoReport
    /\ \A b \in Backends \ doubtful : \A r, q \in Reporters :
         \A e \in report[r].events, f \in report[q].events : e.backend = b /\ f.backend = b => r = q /\ e = f
    /\ \A b \in Backends : ~lives[b].known => ~lives[b].live

\* A round's copy is no newer than the end of the last round.
CopiesAreOfThePast ==
    /\ refreshed <= clock /\ store.last <= refreshed
    /\ \A r \in Reporters : report[r].round /\ report[r].pc = "write" => report[r].at <= refreshed

StatInv == StatTypes /\ StatTypeOK /\ RowsAreOrderly /\ CopiesAreOfThePast /\ LastChangeIsTold
=============================================================================
