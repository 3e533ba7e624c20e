-------------------------------- MODULE Fleet --------------------------------
(***************************************************************************)
(* The fleet of upstream connections kept by internal/gateway.Gateway and  *)
(* driven by the serve loop of cmd/mcp-gateway: Connect at boot, then      *)
(* rounds of Reconcile (make the live connections match the registry) and  *)
(* Refresh (re-list every connection and install a routing table).         *)
(*                                                                         *)
(* A round holds refreshMu, so rounds never overlap, but it takes g.mu     *)
(* only for single map updates: each such critical section is one action,  *)
(* and calls, Close and the death of a process happen between any two.     *)
(* An operator's redial runs on the loop's goroutine, between two rounds.  *)
(***************************************************************************)
EXTENDS FiniteSets, Naturals

CONSTANTS
    Names,      \* upstream names that may be registered
    Specs,      \* what specChanged compares of an entry
    Ops,        \* the rest of what specFor hands a Dialer (auth, operations)
    None,
    Calls,      \* tool calls in flight at once
    MaxProcs    \* bound on the connections ever dialed

ASSUME MaxProcsAssumption == MaxProcs \in Nat

Procs   == 1 .. MaxProcs
Entries == [spec : Specs, ops : Ops]

ASSUME NoneAssumption == None \notin Names /\ None \notin Procs /\ None \notin Entries

VARIABLES
    procs,      \* connection -> "unborn", "up", "dead" or "closed"
    owner,      \* connection -> the upstream it was dialed for
    conns,      \* g.conns:    name -> connection
    dialed,     \* g.dialed:   name -> the entry it was dialed from
    gone,       \* g.gone:     name -> the connection observed dead
    unlisted,   \* g.unlisted: name -> the adopted connection not listed yet
    routes,     \* the upstreams that have routes in g.routes
    listing,    \* g.listing: the upstreams with a last live listing
    health,     \* g.health: name -> "unknown", "live" or "down"
    flags,      \* suspended, confirmed, heldBack and closed
    round,      \* where the loop is, and the locals of its round
    closing,    \* connections Close took and has not closed yet
    calls,      \* call -> where it is, and the connection it looked up
    observed,   \* history: connections whose listing was observed
    redialled   \* history: connections an operator asked to replace

vars == <<procs, owner, conns, dialed, gone, unlisted, routes,
          listing, health, flags, round, closing, calls, observed, redialled>>

histories == <<observed, redialled>>

tables == <<conns, dialed, gone, unlisted, routes, listing, health>>

(* A process of a dialed connection that nothing closed yet.               *)
Open(p) == procs[p] \in {"up", "dead"}

Held(m) == {m[n] : n \in Names} \ {None}

Idle == [pc |-> "idle", name |-> None, up |-> None]

NoNames == [n \in Names |-> None]

Resting == [pc |-> "rest", want |-> NoNames, unmeasured |-> {},
            live |-> NoNames, was |-> NoNames, remove |-> {}, drop |-> {}, going |-> {}, todo |-> {},
            added |-> NoNames, frozen |-> FALSE,
            previous |-> {}, candidates |-> {}]

TypeOK ==
    /\ procs \in [Procs -> {"unborn", "up", "dead", "closed"}]
    /\ owner \in [Procs -> Names \cup {None}]
    /\ conns \in [Names -> Procs \cup {None}]
    /\ dialed \in [Names -> Entries \cup {None}]
    /\ gone \in [Names -> Procs \cup {None}]
    /\ unlisted \in [Names -> Procs \cup {None}]
    /\ routes \subseteq Names
    /\ listing \subseteq Names
    /\ health \in [Names -> {"unknown", "live", "down"}]
    /\ flags \in [suspended : BOOLEAN, confirmed : BOOLEAN,
                  heldBack : BOOLEAN, closed : BOOLEAN]
    /\ round \in [pc : {"boot", "rest", "read", "snapshot", "plan", "retire", "close", "dial",
                        "adopt", "settle", "refresh", "list", "stop"},
                  want : [Names -> Entries \cup {None}],
                  unmeasured : SUBSET Names,
                  live : [Names -> Procs \cup {None}],
                  was : [Names -> Entries \cup {None}],
                  remove : SUBSET Names, drop : SUBSET Names,
                  going : SUBSET Procs,
                  todo : SUBSET Names,
                  added : [Names -> Procs \cup {None}],
                  frozen : BOOLEAN, previous : SUBSET Names,
                  candidates : SUBSET Names]
    /\ closing \subseteq Procs
    /\ calls \in [Calls -> [pc : {"idle", "looked", "calling"},
                            name : Names \cup {None}, up : Procs \cup {None}]]
    /\ observed \subseteq Procs
    /\ redialled \subseteq Procs

Init ==
    /\ procs = [p \in Procs |-> "unborn"]
    /\ owner = [p \in Procs |-> None]
    /\ conns = NoNames
    /\ dialed = NoNames
    /\ gone = NoNames
    /\ unlisted = NoNames
    /\ routes = {}
    /\ listing \in SUBSET Names
    /\ health = [n \in Names |-> "unknown"]
    /\ flags = [suspended |-> FALSE, confirmed |-> FALSE,
                heldBack |-> FALSE, closed |-> FALSE]
    /\ round = [Resting EXCEPT !.pc = "boot"]
    /\ closing = {}
    /\ calls = [c \in Calls |-> Idle]
    /\ observed = {}
    /\ redialled = {}

-----------------------------------------------------------------------------
(* Outside the gateway.                                                    *)

ProcessDies(p) ==
    /\ procs[p] = "up"
    /\ procs' = [procs EXCEPT ![p] = "dead"]
    /\ UNCHANGED <<owner, tables, flags, round, closing, calls, histories>>

-----------------------------------------------------------------------------
(* Health.  observeLive under g.mu; the transition row is audited later.   *)

(* Which servable backends settleHealth finds live, given the connections. *)
Alive(n) == conns[n] # None /\ gone[n] # conns[n] /\ unlisted[n] # conns[n]

(* The backends with a record are the servable set of the latest round.    *)
Known(n) == health[n] # "unknown"

(* settleHealth: every wanted backend is judged, every other one is        *)
(* forgotten unless its signature could not be measured this round.        *)
Settled(want, keep) ==
    [n \in Names |->
        IF want[n] # None THEN (IF Alive(n) THEN "live" ELSE "down")
        ELSE IF n \in keep THEN health[n]
        ELSE "unknown"]

(* Mutant: the marker is about whatever connection the name has now.       *)
GoneMarkedByName(n, up) ==
    IF conns[n] # None THEN [gone EXCEPT ![n] = conns[n]] ELSE gone

(* markGone: a marker is about one connection; a stale one is dropped.     *)
GoneMarked(n, up) ==
    IF up # None /\ conns[n] = up THEN [gone EXCEPT ![n] = up] ELSE gone

(* Mutant: the marker is set and the health record is left as it was.      *)
GoneHealthForgotten(n, up) == health

GoneHealth(n, up) ==
    IF up # None /\ conns[n] = up /\ Known(n)
    THEN [health EXCEPT ![n] = "down"] ELSE health

-----------------------------------------------------------------------------
(* Connect: boot.  Nothing else holds the Gateway yet, so it is one step.  *)
(* want are the entries that pass Validate and verifyEntry; up are the    *)
(* ones that dialed and listed, with any of their tools routed; those of   *)
(* the others stand on their stable listing.  A registry it cannot read,   *)
(* or a quota plan it does not cover, ends the process: not modelled.      *)

Connect(want, up, assign) ==
    LET ready == {n \in Names : want[n] # None} IN
    /\ round.pc = "boot"
    /\ up \subseteq ready
    /\ procs' = [p \in Procs |-> IF \E n \in up : assign[n] = p THEN "up" ELSE "unborn"]
    /\ owner' = [p \in Procs |-> IF \E n \in up : assign[n] = p
                                 THEN CHOOSE n \in up : assign[n] = p ELSE None]
    /\ conns' = [n \in Names |-> IF n \in up THEN assign[n] ELSE None]
    /\ dialed' = [n \in Names |-> IF n \in up THEN want[n] ELSE None]
    /\ routes' \in SUBSET (up \cup (ready \cap listing))
    /\ listing' \in {listing \cup S : S \in SUBSET up}
    /\ observed' = {assign[n] : n \in up}
    /\ health' = [n \in Names |-> IF n \in up THEN "live"
                                  ELSE IF n \in ready THEN "down" ELSE "unknown"]
    /\ flags' = [flags EXCEPT !.confirmed = TRUE]
    /\ round' = Resting
    /\ UNCHANGED <<gone, unlisted, closing, calls, redialled>>

-----------------------------------------------------------------------------
(* Reconcile.                                                              *)

Go(pc) == round' = [round EXCEPT !.pc = pc]

(* A round that finds the Gateway closed ends the loop.                    *)
Stop == round' = [Resting EXCEPT !.pc = "stop"]

(* A tick: isClosed, before the registry is read.                          *)
BeginRound ==
    /\ round.pc = "rest"
    /\ IF flags.closed THEN Stop ELSE Go("read")
    /\ UNCHANGED <<procs, owner, tables, flags, closing, calls, histories>>

(* The round's own deadline ended before the registry could be read: the   *)
(* fleet is unchanged and the Refresh of the round still runs.             *)
ReadTimedOut ==
    /\ round.pc = "read"
    /\ Go("refresh")
    /\ UNCHANGED <<procs, owner, tables, flags, closing, calls, histories>>

(* suspend: the registry cannot be read, so nothing is served; connections *)
(* are kept and the round ends here.                                       *)
Suspend ==
    /\ round.pc = "read"
    /\ flags' = [flags EXCEPT !.suspended = TRUE, !.confirmed = FALSE]
    /\ routes' = {}
    /\ Go("rest")
    /\ UNCHANGED <<procs, owner, conns, dialed, gone, unlisted,
                   listing, health, closing, calls, histories>>

(* The registry answers: want are the entries no early `continue` of the   *)
(* loop leaves out (Validate, an uncounted credential, a signature that    *)
(* does not verify), unmeasured those whose signature could not be read,   *)
(* and frozen says that the quota plan does not cover them.                *)
ReadRegistry(want, unmeasured, frozen) ==
    /\ round.pc = "read"
    /\ \A n \in unmeasured : want[n] = None
    /\ round' = [round EXCEPT !.pc = "snapshot", !.want = want,
                              !.unmeasured = unmeasured, !.frozen = frozen]
    /\ UNCHANGED <<procs, owner, tables, flags, closing, calls, histories>>

FleetSnapshot ==
    /\ round.pc = "snapshot"
    /\ round' = [round EXCEPT !.pc = "plan", !.live = conns, !.was = dialed]
    /\ UNCHANGED <<procs, owner, tables, flags, closing, calls, histories>>

(* Mutant: a replaced entry keeps its running process.                     *)
SpecNeverChanged(was, now) == FALSE

SpecChanged(was, now) == was.spec # now.spec

(* Left out by this round, and not for want of a measurement.              *)
Unwanted(n) == round.want[n] = None /\ n \notin round.unmeasured

(* Mutant: the marker is consumed and reported as absent.                  *)
TakeGoneNever(n) == FALSE

(* takeGone reports a marker that names the connection of this round.      *)
TakeGone(n) == gone[n] # None /\ gone[n] = round.live[n]

(* Mutant: only the routes of closed connections are dropped.              *)
DropConnected == {n \in Names : round.live[n] # None /\ Unwanted(n)}

(* The routes that go: those of every upstream that left the servable set, *)
(* connected or not.                                                       *)
Drop == {n \in Names : (round.live[n] # None \/ n \in routes) /\ Unwanted(n)}

(* The loop over the live connections.  takeGone consumes the marker of a  *)
(* wanted, unchanged upstream whether or not it names this connection.     *)
(* It takes g.mu once a name; what comes between two names is a mark of    *)
(* one name, so the loop is one step.                                      *)
PlanRound ==
    LET want    == round.want
        live    == {n \in Names : round.live[n] # None}
        lost    == {n \in live : Unwanted(n)}
        changed == {n \in live : want[n] # None /\ SpecChanged(round.was[n], want[n])}
        asked   == {n \in live : want[n] # None} \ changed
        dead    == {n \in asked : TakeGone(n)}
    IN /\ round.pc = "plan"
       /\ round' = [round EXCEPT !.pc = "retire",
                                 !.remove = lost \cup changed \cup dead,
                                 !.drop = Drop]
       /\ gone' = [n \in Names |-> IF n \in asked THEN None ELSE gone[n]]
       /\ UNCHANGED <<procs, owner, conns, dialed, unlisted, routes,
                      listing, health, flags, closing, calls, histories>>

Without(m, S) == [n \in Names |-> IF n \in S THEN None ELSE m[n]]

(* retire, under g.mu; nothing to remove and nothing to drop is the same   *)
(* step with empty sets, except that it does not look at closed.           *)
Retire ==
    /\ round.pc = "retire"
    /\ IF flags.closed /\ round.remove \cup round.drop # {}
       THEN Stop /\ UNCHANGED <<conns, dialed, gone, unlisted, routes>>
       ELSE /\ conns' = Without(conns, round.remove)
            /\ dialed' = Without(dialed, round.remove)
            /\ gone' = Without(gone, round.remove)
            /\ unlisted' = Without(unlisted, round.remove)
            /\ routes' = routes \ round.drop
            /\ round' = [round EXCEPT
                   !.pc = "close",
                   !.going = {conns[n] : n \in round.remove} \ {None}]
    /\ UNCHANGED <<procs, owner, listing, health, flags, closing,
                   calls, histories>>

(* Mutant: the retired connections are closed once the round is over.      *)
CloseRetiredLate ==
    LET toDial == {n \in Names : round.want[n] # None /\
                       (round.live[n] = None \/ n \in round.remove)}
    IN /\ round.pc = "close"
       /\ round' = [round EXCEPT
              !.pc = "dial",
              !.todo = IF round.frozen THEN {} ELSE toDial]
       /\ UNCHANGED <<procs, owner, tables, flags, closing, calls, histories>>

(* retire, after g.mu: the retired connections are closed before anything  *)
(* is dialed.  A frozen round dials nothing.                               *)
CloseRetired ==
    LET toDial == {n \in Names : round.want[n] # None /\
                       (round.live[n] = None \/ n \in round.remove)}
    IN /\ round.pc = "close"
       /\ procs' = [p \in Procs |-> IF p \in round.going THEN "closed" ELSE procs[p]]
       /\ round' = [round EXCEPT
              !.pc = "dial",
              !.live = NoNames, !.was = NoNames,
              !.remove = {}, !.drop = {}, !.going = {},
              !.todo = IF round.frozen THEN {} ELSE toDial]
       /\ UNCHANGED <<owner, tables, flags, closing, calls, histories>>

(* bringUp: the dials run in parallel; each succeeds or fails by itself.   *)
DialSucceeds(n, p) ==
    /\ round.pc = "dial"
    /\ n \in round.todo
    /\ procs[p] = "unborn"
    /\ \A q \in Procs : q < p => procs[q] # "unborn"
    /\ procs' = [procs EXCEPT ![p] = "up"]
    /\ owner' = [owner EXCEPT ![p] = n]
    /\ round' = [round EXCEPT !.todo = @ \ {n}, !.added[n] = p]
    /\ UNCHANGED <<tables, flags, closing, calls, histories>>

DialFails(n) ==
    /\ round.pc = "dial"
    /\ n \in round.todo
    /\ round' = [round EXCEPT !.todo = @ \ {n}]
    /\ UNCHANGED <<procs, owner, tables, flags, closing, calls, histories>>

Confirm ==
    /\ round.pc = "dial"
    /\ round.todo = {}
    /\ flags' = [flags EXCEPT !.confirmed = TRUE]
    /\ Go("adopt")
    /\ UNCHANGED <<procs, owner, tables, closing, calls, histories>>

(* Mutant: the tables record which upstream was dialed, not the connection. *)
AdoptedByName(m, added) == [n \in Names |-> IF added[n] # None THEN n ELSE m[n]]

AdoptedOver(m, added) == [n \in Names |-> IF added[n] # None THEN added[n] ELSE m[n]]

(* Mutant: a round that Close overtook adopts what it dialed all the same. *)
AdoptRegardless ==
    /\ round.pc = "adopt"
    /\ conns' = AdoptedOver(conns, round.added)
    /\ dialed' = [n \in Names |-> IF round.added[n] # None THEN round.want[n]
                                                           ELSE dialed[n]]
    /\ unlisted' = AdoptedOver(unlisted, round.added)
    /\ Go("settle")
    /\ UNCHANGED <<procs, owner, gone, routes, listing, health,
                   flags, closing, calls, histories>>

(* Mutant: a round that Close overtook drops what it dialed.               *)
AdoptLeaks ==
    /\ round.pc = "adopt"
    /\ IF flags.closed
       THEN Stop /\ UNCHANGED <<conns, dialed, unlisted>>
       ELSE /\ conns' = AdoptedOver(conns, round.added)
            /\ dialed' = [n \in Names |-> IF round.added[n] # None
                                          THEN round.want[n] ELSE dialed[n]]
            /\ unlisted' = AdoptedOver(unlisted, round.added)
            /\ Go("settle")
    /\ UNCHANGED <<procs, owner, gone, routes, listing, health,
                   flags, closing, calls, histories>>

(* adopt: closed while dialing means the new connections are closed here,  *)
(* because Close never saw them.                                           *)
Adopt ==
    /\ round.pc = "adopt"
    /\ IF flags.closed
       THEN /\ procs' = [p \in Procs |-> IF p \in Held(round.added) THEN "closed"
                                         ELSE procs[p]]
            /\ Stop
            /\ UNCHANGED <<conns, dialed, unlisted>>
       ELSE /\ conns' = AdoptedOver(conns, round.added)
            /\ dialed' = [n \in Names |-> IF round.added[n] # None
                                          THEN round.want[n] ELSE dialed[n]]
            /\ unlisted' = AdoptedOver(unlisted, round.added)
            /\ Go("settle")
            /\ UNCHANGED procs
    /\ UNCHANGED <<owner, gone, routes, listing, health, flags,
                   closing, calls, histories>>

SettleHealth ==
    /\ round.pc = "settle"
    /\ health' = Settled(round.want, round.unmeasured)
    /\ flags' = [flags EXCEPT !.heldBack = round.frozen]
    /\ round' = [Resting EXCEPT !.pc = "refresh"]
    /\ UNCHANGED <<procs, owner, conns, dialed, gone, unlisted,
                   routes, listing, closing, calls, histories>>

-----------------------------------------------------------------------------
(* Refresh.                                                                *)

BeginRefresh ==
    /\ round.pc = "refresh"
    /\ IF flags.closed
       THEN Stop
       ELSE round' = [round EXCEPT !.pc = "list",
                                   !.live = conns,
                                   !.todo = {n \in Names : conns[n] # None},
                                   !.previous = routes, !.candidates = {}]
    /\ UNCHANGED <<procs, owner, tables, flags, closing, calls, histories>>

Answered(n, routed) ==
    round' = [round EXCEPT !.todo = @ \ {n},
                           !.candidates = IF routed THEN @ \cup {n} ELSE @]

(* The upstream listed its tools and every one of them was observed by the *)
(* quarantine: recordListing, then markListed.  It may advertise none, and *)
(* may have died since it answered, and been marked by a call.             *)
Listed(n, routed) ==
    LET up == round.live[n]
    IN /\ round.pc = "list"
       /\ n \in round.todo
       /\ procs[up] = "up" \/ gone[n] = up
       /\ Answered(n, routed)
       /\ listing' = listing \cup {n}
       /\ observed' = observed \cup {up}
       /\ unlisted' = IF unlisted[n] = up THEN [unlisted EXCEPT ![n] = None] ELSE unlisted
       /\ health' = IF unlisted[n] = up /\ Known(n) /\ gone[n] # up
                    THEN [health EXCEPT ![n] = "live"] ELSE health
       /\ UNCHANGED <<procs, owner, conns, dialed, gone, routes,
                      flags, closing, calls, redialled>>

(* A listing that failed, or a quarantine that did not answer: the routes  *)
(* the upstream had are kept.                                              *)
KeptPrevious(n) ==
    /\ round.pc = "list"
    /\ n \in round.todo
    /\ Answered(n, n \in round.previous)
    /\ UNCHANGED <<procs, owner, tables, flags, closing, calls, histories>>

(* ErrUpstreamGone: the connection is marked and the stable listing, as    *)
(* far as it is still approved, stands in.                                 *)
FoundGone(n, routed) ==
    LET up == round.live[n]
    IN /\ round.pc = "list"
       /\ n \in round.todo
       /\ procs[up] # "up"
       /\ routed => n \in listing \cup round.previous
       /\ Answered(n, routed)
       /\ gone' = GoneMarked(n, up)
       /\ health' = GoneHealth(n, up)
       /\ UNCHANGED <<procs, owner, conns, dialed, unlisted, routes,
                      listing, flags, closing, calls, histories>>

(* The servable backends that are not connected keep their stable routes,  *)
(* or the previous ones when the quarantine does not answer.               *)
StableRoutes == {n \in Names : Known(n) /\ round.live[n] = None}
                    \cap (listing \cup round.previous)

(* Mutant: swapRoutes installs a table no registry read confirmed.         *)
SwapUnconfirmed(table) ==
    /\ round.pc = "list"
    /\ round.todo = {}
    /\ table \subseteq round.candidates \cup StableRoutes
    /\ IF flags.closed
       THEN Stop /\ UNCHANGED <<routes, flags>>
       ELSE /\ routes' = table
            /\ round' = Resting
            /\ UNCHANGED flags
    /\ UNCHANGED <<procs, owner, conns, dialed, gone, unlisted,
                   listing, health, closing, calls, histories>>

(* mergeRoutes and withholdUndeclaredQuotaTools may leave out any of the   *)
(* candidates; swapRoutes installs the table and ends a suspension, unless *)
(* the registry was not confirmed since.                                   *)
SwapRoutes(table) ==
    /\ round.pc = "list"
    /\ round.todo = {}
    /\ table \subseteq round.candidates \cup StableRoutes
    /\ IF flags.closed
       THEN Stop /\ UNCHANGED <<routes, flags>>
       ELSE /\ IF flags.confirmed
               THEN /\ routes' = table
                    /\ flags' = [flags EXCEPT !.suspended = FALSE]
               ELSE UNCHANGED <<routes, flags>>
            /\ round' = Resting
    /\ UNCHANGED <<procs, owner, conns, dialed, gone, unlisted,
                   listing, health, closing, calls, histories>>

-----------------------------------------------------------------------------
(* Redial and Close.                                                       *)

(* Redial marks a live connection so that the next Reconcile replaces it;  *)
(* held back, it would be closed and not brought up, so it is refused.     *)
Redial(n) ==
    /\ round.pc = "rest"
    /\ ~flags.closed
    /\ ~flags.heldBack
    /\ conns[n] # None
    /\ gone[n] # conns[n]
    /\ gone' = [gone EXCEPT ![n] = conns[n]]
    /\ redialled' = redialled \cup {conns[n]}
    /\ health' = IF Known(n) THEN [health EXCEPT ![n] = "down"] ELSE health
    /\ UNCHANGED <<procs, owner, conns, dialed, unlisted, routes,
                   listing, flags, round, closing, calls, observed>>

Close ==
    /\ round.pc # "boot"
    /\ ~flags.closed
    /\ flags' = [flags EXCEPT !.closed = TRUE]
    /\ closing' = Held(conns)
    /\ conns' = NoNames
    /\ dialed' = NoNames
    /\ gone' = NoNames
    /\ routes' = {}
    /\ UNCHANGED <<procs, owner, unlisted, listing, health, round,
                   calls, histories>>

CloseAll ==
    /\ closing # {}
    /\ procs' = [p \in Procs |-> IF p \in closing THEN "closed" ELSE procs[p]]
    /\ closing' = {}
    /\ UNCHANGED <<owner, tables, flags, round, calls, histories>>

-----------------------------------------------------------------------------
(* A call: lookup and availability are two separate reads under g.mu.      *)

Lookup(c, n) ==
    /\ calls[c].pc = "idle"
    /\ n \in routes
    /\ calls' = [calls EXCEPT ![c] = [pc |-> "looked", name |-> n, up |-> conns[n]]]
    /\ UNCHANGED <<procs, owner, tables, flags, round, closing, histories>>

Available(n, up) == up # None /\ gone[n] # up /\ unlisted[n] # up

(* A backend in maintenance is unavailable whatever its connection; who    *)
(* sets the maintenance, and when, is in module Dispatch.                  *)
CheckAvailability(c) ==
    /\ calls[c].pc = "looked"
    /\ \/ calls' = [calls EXCEPT ![c] =
               IF Available(@.name, @.up) THEN [@ EXCEPT !.pc = "calling"] ELSE Idle]
       \/ calls' = [calls EXCEPT ![c] = Idle]
    /\ UNCHANGED <<procs, owner, tables, flags, round, closing, histories>>

(* The upstream answered; a tool error is an answer.                       *)
CallReturns(c) ==
    /\ calls[c].pc = "calling"
    /\ calls' = [calls EXCEPT ![c] = Idle]
    /\ UNCHANGED <<procs, owner, tables, flags, round, closing, histories>>

(* ErrUpstreamGone: the call marks the connection it used.                 *)
CallFindsGone(c) ==
    LET n  == calls[c].name
        up == calls[c].up
    IN /\ calls[c].pc = "calling"
       /\ procs[up] # "up"
       /\ gone' = GoneMarked(n, up)
       /\ health' = GoneHealth(n, up)
       /\ calls' = [calls EXCEPT ![c] = Idle]
       /\ UNCHANGED <<procs, owner, conns, dialed, unlisted, routes,
                      listing, flags, round, closing, histories>>

-----------------------------------------------------------------------------
Contents == [Names -> Entries \cup {None}]

Boot ==
    \E want \in Contents, up \in SUBSET Names, assign \in [Names -> Procs] :
        /\ \A m, n \in up : m # n => assign[m] # assign[n]
        /\ {assign[n] : n \in up} = 1 .. Cardinality(up)
        /\ \A n \in Names \ up : assign[n] = 1
        /\ Connect(want, up, assign)

ReadAny ==
    \E want \in Contents, unmeasured \in SUBSET Names, frozen \in BOOLEAN :
        ReadRegistry(want, unmeasured, frozen)

(* The registry is read and every signature could be measured.             *)
ReadMeasured == \E want \in Contents, frozen \in BOOLEAN :
                    ReadRegistry(want, {}, frozen)

(* The rest of a round: everything the loop does once it has begun.        *)
RoundStep ==
    \/ FleetSnapshot
    \/ PlanRound
    \/ Retire
    \/ CloseRetired
    \/ \E n \in Names : (\E p \in Procs : DialSucceeds(n, p)) \/ DialFails(n)
    \/ Confirm
    \/ Adopt
    \/ SettleHealth
    \/ BeginRefresh
    \/ \E n \in Names :
           \/ \E routed \in BOOLEAN : Listed(n, routed) \/ FoundGone(n, routed)
           \/ KeptPrevious(n)
    \/ \E table \in SUBSET Names : SwapRoutes(table)

Loop ==
    \/ BeginRound
    \/ ReadTimedOut
    \/ Suspend
    \/ ReadAny
    \/ RoundStep

CallStep(c) ==
    \/ \E n \in Names : Lookup(c, n)
    \/ CheckAvailability(c)
    \/ CallReturns(c)
    \/ CallFindsGone(c)

Next ==
    \/ \E p \in Procs : ProcessDies(p)
    \/ Boot
    \/ Loop
    \/ \E n \in Names : Redial(n)
    \/ Close
    \/ CloseAll
    \/ \E c \in Calls : CallStep(c)

Spec == Init /\ [][Next]_vars

(***************************************************************************)
(* Fairness.  The ticker fires, every blocking operation of a round is     *)
(* under its own deadline, and Close's closeAll is straight-line code, so  *)
(* the loop never stops in the middle of a round.  A registry and a        *)
(* signature store that fail for ever are an outage the code waits out:    *)
(* progress is claimed when they answer again and again.                   *)
(***************************************************************************)
FairSpec ==
    /\ Spec
    /\ WF_vars(BeginRound)
    /\ WF_vars(ReadAny)
    /\ WF_vars(RoundStep)
    /\ WF_vars(CloseAll)
    /\ SF_vars(ReadMeasured)

-----------------------------------------------------------------------------
(* Safety.                                                                 *)

(* Every process that was started and not closed is somebody's to close:   *)
(* the live set's until Close, the round's while it dials or retires it,   *)
(* or Close's own (adopt, retire and Close hand it over without a gap).    *)
NoOrphans ==
    \A p \in Procs : Open(p) =>
        \/ ~flags.closed /\ p \in Held(conns)
        \/ round.pc \in {"dial", "adopt"} /\ p \in Held(round.added)
        \/ p \in round.going
        \/ p \in closing

(* Until shutdown an upstream never has two processes at once: Reconcile   *)
(* closes the replaced connection before it dials the new entry.           *)
OneProcessEach ==
    ~flags.closed =>
        \A p, q \in Procs : Open(p) /\ Open(q) /\ owner[p] = owner[q] => p = q

(* A gateway that cannot read its registry serves nothing: a refresh of an *)
(* unconfirmed fleet installs no table (suspend, swapRoutes).              *)
SuspendedServesNothing == flags.suspended => routes = {}

(* No tool is listed for a backend that left the servable set, connected   *)
(* or not: Reconcile drops its routes before its health is forgotten.      *)
RoutesAreServable == \A n \in routes : Known(n)

(* Between rounds the health record of a servable backend tells exactly    *)
(* whether a call to it would find it available: connected, not marked     *)
(* gone and listed since it was adopted (observeLive's callers).           *)
HealthTellsAvailability ==
    round.pc = "rest" /\ ~flags.closed =>
        \A n \in Names : Known(n) =>
            (health[n] = "live" <=> Available(n, conns[n]))

(* What a Reconcile leaves running was dialed from the specification it    *)
(* read, and what it refused does not run.                                 *)
FleetMatchesRegistry ==
    round.pc = "settle" /\ ~flags.closed =>
        \A n \in Names : conns[n] # None /\ n \notin round.unmeasured =>
            /\ round.want[n] # None
            /\ dialed[n].spec = round.want[n].spec

(* A process that is up is closed only at shutdown, by an operator's       *)
(* redial, or because its entry changed or is no longer servable: a call   *)
(* that fails late, on a connection already replaced, does not take the    *)
(* new one down (markGone compares connections, not names).                *)
HealthyIsKept ==
    [][\A p \in Procs : procs[p] = "up" /\ procs'[p] = "closed" =>
           \/ flags.closed
           \/ p \in redialled
           \/ round.want[owner[p]] = None
           \/ SpecChanged(round.was[owner[p]], round.want[owner[p]])]_vars

(* Liveness: after Close every process is closed, the ones a round was     *)
(* still dialing included.                                                 *)
CloseReapsAll == flags.closed ~> \A p \in Procs : ~Open(p)

(* Liveness: a connection a call or a refresh found dead is closed by a    *)
(* later reconciliation.                                                   *)
GoneIsReaped ==
    \A p \in Procs : procs[p] = "dead" /\ p \in Held(gone) ~> procs[p] = "closed"

-----------------------------------------------------------------------------
(* What the comments of the code say.                                      *)

(* "until the new one is observed it receives no call" (Gateway.unlisted). *)
OnlyObservedIsCalled ==
    \A c \in Calls : calls[c].pc = "calling" => calls[c].up \in observed

(* Every process the gateway started is somebody's: a connection's, or on  *)
(* its way to being closed, and never two of one upstream, whatever round, *)
(* redial and Close overlap (adopt, retire, Close).                        *)
ProcessesAccounted == TypeOK /\ NoOrphans /\ OneProcessEach

(* What is routed may be served and what status says of it is what a call  *)
(* would find: the suspension, the table, the markers and the health of a  *)
(* backend agree at every instant the lock is free (swapRoutes, drop,      *)
(* markGone, settleHealth).                                                *)
ServesWhatItMay == SuspendedServesNothing /\ RoutesAreServable /\ HealthTellsAvailability

(* No process is left running: Close reaps all, and a round reaps the one  *)
(* a call found dead (Close, takeGone).                                    *)
ProcessesAreReaped == CloseReapsAll /\ GoneIsReaped

-----------------------------------------------------------------------------
(* The inductive invariant of the proofs.                                  *)

Planning   == {"plan", "retire"}
Rebuilding == {"retire", "close", "dial", "adopt", "settle"}
Reading    == {"snapshot", "plan", "retire", "close", "dial", "adopt", "settle"}

(* Before Connect there is nothing; after Close the tables stay empty.     *)
Beginning ==
    round.pc = "boot" =>
        /\ ~flags.closed /\ ~flags.suspended
        /\ gone = NoNames /\ unlisted = NoNames /\ routes = {}
        /\ round.going = {} /\ \A c \in Calls : calls[c] = Idle

Ending ==
    /\ flags.closed => conns = NoNames /\ dialed = NoNames /\ gone = NoNames /\ routes = {}
    /\ ~flags.closed => closing = {}

(* A connection the gateway holds, in whichever table, was dialed for the  *)
(* name it is held under.                                                  *)
ConnsTell ==
    \A n \in Names :
        /\ conns[n] # None => owner[conns[n]] = n /\ procs[conns[n]] # "unborn"
        /\ gone[n] # None => /\ gone[n] = conns[n]
                             /\ procs[gone[n]] \in {"dead", "closed"} \/ gone[n] \in redialled
        /\ ~flags.closed /\ unlisted[n] # None => unlisted[n] = conns[n]

CallsTell ==
    \A c \in Calls :
        /\ calls[c].up # None => procs[calls[c].up] # "unborn"
        /\ calls[c].pc # "idle" => calls[c].name # None
        /\ calls[c].pc = "calling" => calls[c].up # None

(* A reason to take a connection down: it is not wanted, its entry changed, *)
(* it died or an operator asked.                                           *)
Reason(n, p) ==
    \/ round.want[n] = None
    \/ SpecChanged(round.was[n], round.want[n])
    \/ procs[p] \in {"dead", "closed"}
    \/ p \in redialled

(* The plan was made from the live set, which only the round and Close     *)
(* change; it removes for a reason, and all there is a reason to remove.   *)
PlanTells ==
    /\ round.pc \in Planning /\ ~flags.closed => round.live = conns /\ round.was = dialed
    /\ round.pc = "retire" =>
         /\ \A n \in round.remove : round.live[n] # None /\ Reason(n, round.live[n])
         /\ \A n \in Names \ round.remove : round.live[n] # None =>
                /\ ~Unwanted(n)
                /\ round.want[n] # None => ~SpecChanged(round.was[n], round.want[n])
         /\ \A n \in round.remove : n \notin round.unmeasured
    /\ round.pc = "close" /\ ~flags.closed => conns = Without(round.live, round.remove)
    /\ round.going # {} => round.pc = "close"
    /\ \A p \in round.going : owner[p] # None /\ procs[p] # "unborn" /\ Reason(owner[p], p)

(* What is dialed is wanted, has no connection and is dialed once.         *)
DialTells ==
    /\ round.pc \notin {"dial", "adopt", "settle"} => round.added = NoNames
    /\ \A n \in Names : round.added[n] # None =>
            /\ owner[round.added[n]] = n /\ procs[round.added[n]] # "unborn"
            /\ n \notin round.todo
    /\ round.pc \in {"dial", "adopt"} => \A n \in Names :
            n \in round.todo \/ round.added[n] # None => conns[n] = None /\ round.want[n] # None
    /\ round.pc \in Reading => \A n \in round.unmeasured : round.want[n] = None

(* From the retirement to the verdict, what runs and what is routed is     *)
(* what the registry said, or could not be measured.                       *)
FleetTells ==
    /\ round.pc \in {"close", "dial", "adopt", "settle"} =>
         /\ ~flags.closed => \A n \in Names : conns[n] # None /\ n \notin round.unmeasured =>
                round.want[n] # None /\ dialed[n].spec = round.want[n].spec
         /\ \A n \in routes : ~Unwanted(n)
    /\ round.pc = "retire" => \A n \in routes : Unwanted(n) => n \in round.drop

(* A connection has a health record, and outside the part of a round that  *)
(* rebuilds the fleet the record is what a call would find.                *)
HealthTells ==
    /\ \A n \in Names : conns[n] # None =>
            Known(n) \/ (round.pc = "settle" /\ round.want[n] # None)
    /\ ~flags.closed => \A n \in Names :
            Known(n) /\ (round.pc \notin Rebuilding \/ n \in round.unmeasured) =>
                (health[n] = "live" <=> Alive(n))

ListTells ==
    round.pc = "list" =>
        /\ \A n \in round.todo : round.live[n] # None /\ procs[round.live[n]] # "unborn"
        /\ \A n \in round.todo \cup round.candidates : Known(n)

FleetInv ==
    /\ TypeOK /\ Beginning /\ Ending /\ ConnsTell /\ CallsTell /\ PlanTells /\ DialTells
    /\ FleetTells /\ HealthTells /\ ListTells
    /\ NoOrphans /\ OneProcessEach /\ SuspendedServesNothing /\ RoutesAreServable
=============================================================================
