---------------------------- MODULE FleetProofs ----------------------------
(***************************************************************************)
(* The fleet's invariants, for any upstreams, entries, calls and number of *)
(* connections: who owns a process, what may be served, and why a          *)
(* connection is taken down.                                               *)
(***************************************************************************)
EXTENDS Fleet, FiniteSetTheorems, TLAPS

RoundType == [pc : {"boot", "rest", "read", "snapshot", "plan", "retire", "close", "dial",
                    "adopt", "settle", "refresh", "list", "stop"},
              want : [Names -> Entries \cup {None}],
              unmeasured : SUBSET Names,
              live : [Names -> Procs \cup {None}],
              was : [Names -> Entries \cup {None}],
              remove : SUBSET Names, drop : SUBSET Names,
              going : SUBSET Procs,
              todo : SUBSET Names,
              added : [Names -> Procs \cup {None}],
              frozen : BOOLEAN, previous : SUBSET Names,
              candidates : SUBSET Names]
CallType == [pc : {"idle", "looked", "calling"}, name : Names \cup {None}, up : Procs \cup {None}]
FlagType == [suspended : BOOLEAN, confirmed : BOOLEAN, heldBack : BOOLEAN, closed : BOOLEAN]

LEMMA Types ==
  TypeOK <=>
    /\ procs \in [Procs -> {"unborn", "up", "dead", "closed"}]
    /\ owner \in [Procs -> Names \cup {None}]
    /\ conns \in [Names -> Procs \cup {None}]
    /\ dialed \in [Names -> Entries \cup {None}]
    /\ gone \in [Names -> Procs \cup {None}]
    /\ unlisted \in [Names -> Procs \cup {None}]
    /\ routes \subseteq Names /\ listing \subseteq Names
    /\ health \in [Names -> {"unknown", "live", "down"}]
    /\ flags \in FlagType /\ round \in RoundType
    /\ closing \subseteq Procs /\ calls \in [Calls -> CallType]
    /\ observed \subseteq Procs /\ redialled \subseteq Procs
BY DEF TypeOK, RoundType, CallType, FlagType

LEMMA RestingFields ==
  ASSUME NEW x \in {"rest", "stop", "refresh", "boot"}
  PROVE  LET r == [Resting EXCEPT !.pc = x] IN
         /\ r \in RoundType /\ r.pc = x /\ r.want = NoNames /\ r.unmeasured = {} /\ r.live = NoNames
         /\ r.was = NoNames /\ r.remove = {} /\ r.drop = {} /\ r.going = {} /\ r.todo = {}
         /\ r.added = NoNames /\ r.previous = {} /\ r.candidates = {}
<1>1. NoNames \in [Names -> Entries \cup {None}] /\ NoNames \in [Names -> Procs \cup {None}]
  BY DEF NoNames
<1> QED BY <1>1 DEF Resting, RoundType

LEMMA RestFields ==
  /\ Resting \in RoundType /\ Resting.pc = "rest" /\ Resting.going = {} /\ Resting.added = NoNames
  /\ Resting.unmeasured = {} /\ Resting.todo = {} /\ Resting.candidates = {} /\ Resting.remove = {}
<1>1. NoNames \in [Names -> Entries \cup {None}] /\ NoNames \in [Names -> Procs \cup {None}]
  BY DEF NoNames
<1> QED BY <1>1 DEF Resting, RoundType

LEMMA InitInv == Init => FleetInv
<1> SUFFICES ASSUME Init PROVE FleetInv
  OBVIOUS
<1>1. /\ round \in RoundType /\ round.pc = "boot" /\ round.going = {} /\ round.added = NoNames
      /\ round.todo = {} /\ round.candidates = {} /\ round.remove = {}
  BY RestingFields DEF Init
<1>2. Idle \in CallType /\ Idle.up = None /\ Idle.pc = "idle" /\ Idle.name = None
  BY DEF Idle, CallType
<1>3. TypeOK
  <2>1. NoNames \in [Names -> Entries \cup {None}] /\ NoNames \in [Names -> Procs \cup {None}]
    BY DEF NoNames
  <2> QED BY <1>1, <1>2, <2>1, Types DEF Init, FlagType
<1>4. \A n \in Names : conns[n] = None /\ gone[n] = None /\ unlisted[n] = None
  BY DEF Init, NoNames
<1>5. Beginning /\ Ending /\ ConnsTell /\ CallsTell
  BY <1>1, <1>2, <1>4 DEF Init, Beginning, Ending, ConnsTell, CallsTell
<1>6. PlanTells /\ DialTells /\ FleetTells /\ ListTells
  <2>1. \A n \in Names : round.added[n] = None
    BY <1>1 DEF NoNames
  <2> QED BY <1>1, <2>1 DEF Init, PlanTells, DialTells, FleetTells, ListTells, Planning, Reading
<1>7. HealthTells /\ SuspendedServesNothing /\ RoutesAreServable
  BY <1>1, <1>4 DEF Init, HealthTells, SuspendedServesNothing, RoutesAreServable, Known
<1>8. NoOrphans /\ OneProcessEach
  BY DEF Init, NoOrphans, OneProcessEach, Open
<1> QED BY <1>3, <1>5, <1>6, <1>7, <1>8 DEF FleetInv

-----------------------------------------------------------------------------
(* What a step that changes only the round carries over.                   *)

Fixed == UNCHANGED <<procs, owner, conns, dialed, gone, unlisted, routes, listing, health, closing,
                     calls, observed, redialled>>

LEMMA FixedAside ==
  ASSUME FleetInv, Fixed, flags' \in FlagType, flags'.closed = flags.closed,
         flags'.suspended = flags.suspended,
         round' \in RoundType, round'.pc # "boot"
  PROVE  /\ TypeOK' /\ Beginning' /\ Ending' /\ ConnsTell' /\ CallsTell' /\ OneProcessEach'
         /\ SuspendedServesNothing' /\ RoutesAreServable'
<1>1. TypeOK'
  <2>1. TypeOK
    BY DEF FleetInv
  <2> QED BY <2>1 DEF TypeOK, RoundType, CallType, FlagType, Fixed
<1>2. Beginning' /\ Ending' /\ ConnsTell' /\ CallsTell'
  BY DEF FleetInv, Fixed, Beginning, Ending, ConnsTell, CallsTell
<1>3. OneProcessEach' /\ SuspendedServesNothing' /\ RoutesAreServable'
  BY DEF FleetInv, Fixed, OneProcessEach, Open, SuspendedServesNothing, RoutesAreServable, Known
<1> QED BY <1>1, <1>2, <1>3

(* A round that begins, ends or moves on without a plan.                   *)
LEMMA BareRound ==
  ASSUME FleetInv, Fixed, flags' = flags, round' \in RoundType, round.pc \notin Rebuilding,
         round.pc # "boot",
         round'.pc \in {"rest", "read", "refresh", "stop", "snapshot"},
         round'.going = {}, round'.added = NoNames,
         round'.pc = "snapshot" => \A n \in round'.unmeasured : round'.want[n] = None
  PROVE  FleetInv'
<1>0. /\ \A n \in Names : round'.added[n] = None
      /\ round.going = {} /\ round.added = NoNames /\ round.pc \notin {"dial", "adopt", "settle"}
  BY DEF FleetInv, PlanTells, DialTells, NoNames, Rebuilding
<1>1. /\ TypeOK' /\ Beginning' /\ Ending' /\ ConnsTell' /\ CallsTell' /\ OneProcessEach'
      /\ SuspendedServesNothing' /\ RoutesAreServable'
  <2>1. flags \in FlagType
    BY Types DEF FleetInv
  <2> QED BY <2>1, FixedAside
<1>2. PlanTells' /\ DialTells' /\ FleetTells' /\ ListTells'
  BY <1>0 DEF PlanTells, DialTells, FleetTells, ListTells, Planning, Reading
<1>3. HealthTells'
  BY <1>0 DEF FleetInv, Fixed, HealthTells, Known, Alive, Rebuilding
<1>4. NoOrphans'
  BY <1>0 DEF FleetInv, Fixed, NoOrphans, Open
<1> QED BY <1>1, <1>2, <1>3, <1>4 DEF FleetInv

(* A step of a round changes only the named fields of it.                  *)
LEMMA RoundIs ==
  ASSUME FleetInv
  PROVE  /\ round \in RoundType /\ flags \in FlagType
         /\ round.pc \in {"rest", "read", "refresh", "list", "snapshot"} => round.going = {} /\ round.added = NoNames
BY Types DEF FleetInv, PlanTells, DialTells

LEMMA BeginRoundInv ==
  ASSUME FleetInv, BeginRound
  PROVE  FleetInv'
<1>1. Fixed /\ flags' = flags /\ round.pc = "rest" /\ round \in RoundType /\ round.going = {} /\ round.added = NoNames
  BY RoundIs DEF BeginRound, tables, histories, Fixed
<1>2. CASE flags.closed
  BY <1>1, <1>2, RestingFields, BareRound DEF BeginRound, Stop, Rebuilding
<1>3. CASE ~flags.closed
  <2>1. round' = [round EXCEPT !.pc = "read"]
    BY <1>3 DEF BeginRound, Go
  <2>2. round' \in RoundType /\ round'.pc = "read" /\ round'.going = {} /\ round'.added = NoNames
    BY <1>1, <2>1 DEF RoundType
  <2> QED BY <1>1, <2>2, BareRound DEF Rebuilding
<1> QED BY <1>2, <1>3

LEMMA ReadInv ==
  ASSUME FleetInv, ReadTimedOut \/ ReadAny
  PROVE  FleetInv'
<1>1. Fixed /\ flags' = flags /\ round.pc = "read" /\ round \in RoundType /\ round.going = {} /\ round.added = NoNames
  BY RoundIs DEF ReadTimedOut, ReadAny, ReadRegistry, tables, histories, Fixed
<1>2. CASE ReadTimedOut
  <2>1. round' = [round EXCEPT !.pc = "refresh"]
    BY <1>2 DEF ReadTimedOut, Go
  <2>2. round' \in RoundType /\ round'.pc = "refresh" /\ round'.going = {} /\ round'.added = NoNames
    BY <1>1, <2>1 DEF RoundType
  <2> QED BY <1>1, <2>2, BareRound DEF Rebuilding
<1>3. CASE ReadAny
  <2>1. PICK want \in Contents, unmeasured \in SUBSET Names, frozen \in BOOLEAN :
          ReadRegistry(want, unmeasured, frozen)
    BY <1>3 DEF ReadAny
  <2>2. /\ \A n \in unmeasured : want[n] = None
        /\ round' = [round EXCEPT !.pc = "snapshot", !.want = want,
                                  !.unmeasured = unmeasured, !.frozen = frozen]
    BY <2>1 DEF ReadRegistry
  <2>3. /\ round' \in RoundType /\ round'.pc = "snapshot" /\ round'.going = {} /\ round'.added = NoNames
        /\ round'.want = want /\ round'.unmeasured = unmeasured
    BY <1>1, <2>2 DEF RoundType, Contents
  <2> QED BY <1>1, <2>2, <2>3, BareRound DEF Rebuilding
<1> QED BY <1>2, <1>3

LEMMA SuspendInv ==
  ASSUME FleetInv, Suspend
  PROVE  FleetInv'
<1>1. /\ UNCHANGED <<procs, owner, conns, dialed, gone, unlisted, listing, health, closing, calls,
                     observed, redialled>>
      /\ routes' = {} /\ round' = [round EXCEPT !.pc = "rest"] /\ round.pc = "read"
      /\ flags' = [flags EXCEPT !.suspended = TRUE, !.confirmed = FALSE]
      /\ round \in RoundType /\ flags \in FlagType /\ round.going = {} /\ round.added = NoNames
  BY RoundIs DEF Suspend, Go, histories
<1>2. /\ round' \in RoundType /\ round'.pc = "rest" /\ round'.going = {} /\ round'.added = NoNames
      /\ flags' \in FlagType /\ flags'.closed = flags.closed
  BY <1>1 DEF RoundType, FlagType
<1>3. \A n \in Names : round'.added[n] = None
  BY <1>2 DEF NoNames
<1>4. TypeOK'
  <2>1. TypeOK
    BY DEF FleetInv
  <2> QED BY <1>1, <1>2, <2>1 DEF TypeOK, RoundType, CallType, FlagType
<1>5. Beginning' /\ Ending' /\ ConnsTell' /\ CallsTell'
  BY <1>1, <1>2 DEF FleetInv, Beginning, Ending, ConnsTell, CallsTell
<1>6. PlanTells' /\ DialTells' /\ FleetTells' /\ ListTells'
  BY <1>1, <1>2, <1>3 DEF PlanTells, DialTells, FleetTells, ListTells, Planning, Reading
<1>7. HealthTells'
  BY <1>1, <1>2 DEF FleetInv, HealthTells, Known, Alive, Rebuilding
<1>8. NoOrphans' /\ OneProcessEach' /\ SuspendedServesNothing' /\ RoutesAreServable'
  BY <1>1, <1>2 DEF FleetInv, NoOrphans, OneProcessEach, Open, SuspendedServesNothing, RoutesAreServable
<1> QED BY <1>4, <1>5, <1>6, <1>7, <1>8 DEF FleetInv

-----------------------------------------------------------------------------
(* Reconcile.                                                              *)

LEMMA SnapshotInv ==
  ASSUME FleetInv, FleetSnapshot
  PROVE  FleetInv'
<1>1. /\ Fixed /\ flags' = flags /\ round.pc = "snapshot" /\ round \in RoundType /\ flags \in FlagType
      /\ round.going = {} /\ round.added = NoNames
      /\ round' = [round EXCEPT !.pc = "plan", !.live = conns, !.was = dialed]
  BY RoundIs DEF FleetSnapshot, tables, histories, Fixed
<1>2. conns \in [Names -> Procs \cup {None}] /\ dialed \in [Names -> Entries \cup {None}]
  BY DEF FleetInv, TypeOK
<1>3. /\ round' \in RoundType /\ round'.pc = "plan" /\ round'.live = conns /\ round'.was = dialed
      /\ round'.going = {} /\ round'.added = NoNames /\ round'.todo = round.todo
      /\ round'.want = round.want /\ round'.unmeasured = round.unmeasured
  BY <1>1, <1>2 DEF RoundType
<1>4. \A n \in Names : round'.added[n] = None
  BY <1>3 DEF NoNames
<1>5. /\ TypeOK' /\ Beginning' /\ Ending' /\ ConnsTell' /\ CallsTell' /\ OneProcessEach'
      /\ SuspendedServesNothing' /\ RoutesAreServable'
  BY <1>1, <1>3, FixedAside
<1>6. PlanTells' /\ FleetTells' /\ ListTells'
  BY <1>1, <1>3 DEF PlanTells, FleetTells, ListTells, Fixed
<1>7. DialTells'
  BY <1>1, <1>3, <1>4 DEF FleetInv, DialTells, Reading
<1>8. HealthTells'
  BY <1>1, <1>3 DEF FleetInv, Fixed, HealthTells, Known, Alive, Rebuilding
<1>9. NoOrphans'
  BY <1>1, <1>3 DEF FleetInv, Fixed, NoOrphans, Open
<1> QED BY <1>5, <1>6, <1>7, <1>8, <1>9 DEF FleetInv

LEMMA PlanInv ==
  ASSUME FleetInv, PlanRound
  PROVE  FleetInv'
<1> DEFINE want    == round.want
           live    == {n \in Names : round.live[n] # None}
           lost    == {n \in live : Unwanted(n)}
           changed == {n \in live : want[n] # None /\ SpecChanged(round.was[n], want[n])}
           asked   == {n \in live : want[n] # None} \ changed
           dead    == {n \in asked : TakeGone(n)}
           R       == lost \cup changed \cup dead
<1>1. /\ UNCHANGED <<procs, owner, conns, dialed, unlisted, routes, listing, health, flags, closing,
                     calls, observed, redialled>>
      /\ round.pc = "plan" /\ round \in RoundType /\ flags \in FlagType
      /\ round' = [round EXCEPT !.pc = "retire", !.remove = R, !.drop = Drop]
      /\ gone' = [n \in Names |-> IF n \in asked THEN None ELSE gone[n]]
  BY RoundIs DEF PlanRound, histories
<1>2. R \in SUBSET Names /\ Drop \in SUBSET Names
  BY DEF Drop
<1>3. \A n \in R : /\ round.live[n] # None /\ n \notin round.unmeasured
                   /\ \/ round.want[n] = None
                      \/ SpecChanged(round.was[n], round.want[n])
                      \/ gone[n] # None /\ gone[n] = round.live[n]
  <2>1. \A n \in round.unmeasured : want[n] = None
    BY <1>1 DEF FleetInv, DialTells, Reading
  <2> QED BY <2>1 DEF Unwanted, TakeGone
<1>4. \A n \in Names \ R : round.live[n] # None =>
                /\ ~Unwanted(n)
                /\ round.want[n] # None => ~SpecChanged(round.was[n], round.want[n])
  OBVIOUS
<1>5. \A n \in asked : n \in Names /\ round.want[n] # None
  OBVIOUS
<1> HIDE DEF R, asked
<1>6. /\ round' \in RoundType /\ round'.pc = "retire" /\ round'.remove = R /\ round'.drop = Drop
      /\ round'.live = round.live /\ round'.was = round.was /\ round'.want = round.want
      /\ round'.unmeasured = round.unmeasured /\ round'.going = round.going
      /\ round'.added = round.added /\ round'.todo = round.todo
  BY <1>1, <1>2 DEF RoundType
<1>7. /\ gone' \in [Names -> Procs \cup {None}]
      /\ \A n \in Names : gone'[n] = None \/ (gone'[n] = gone[n] /\ n \notin asked)
      /\ \A n \in Names : n \notin asked => gone'[n] = gone[n]
  BY <1>1 DEF FleetInv, TypeOK
<1>8. TypeOK'
  <2>1. TypeOK
    BY DEF FleetInv
  <2> QED BY <1>1, <1>6, <1>7, <2>1 DEF TypeOK, RoundType
<1>9. Beginning' /\ CallsTell' /\ OneProcessEach' /\ SuspendedServesNothing' /\ RoutesAreServable' /\ NoOrphans'
  BY <1>1, <1>6 DEF FleetInv, Beginning, CallsTell, OneProcessEach, SuspendedServesNothing,
                    RoutesAreServable, Open, Known, NoOrphans
<1>10. Ending' /\ ConnsTell'
  <2>1. flags.closed => gone' = NoNames
    BY <1>1, <1>7 DEF FleetInv, Ending, NoNames
  <2>2. Ending'
    BY <1>1, <2>1 DEF FleetInv, Ending
  <2>3. ConnsTell'
    BY <1>1, <1>7 DEF FleetInv, ConnsTell
  <2> QED BY <2>2, <2>3
<1>11. PlanTells'
  <2>0. round.going = {}
    BY <1>1 DEF FleetInv, PlanTells
  <2>1. ~flags.closed => round.live = conns /\ round.was = dialed
    BY <1>1 DEF FleetInv, PlanTells, Planning
  <2>2. ASSUME NEW n \in R PROVE Reason(n, round.live[n])'
    <3>1. n \in Names
      BY <1>2
    <3>2. CASE round.want[n] = None \/ SpecChanged(round.was[n], round.want[n])
      BY <1>6, <3>2 DEF Reason
    <3>3. CASE gone[n] # None /\ gone[n] = round.live[n]
      <4>1. procs[round.live[n]] \in {"dead", "closed"} \/ round.live[n] \in redialled
        BY <3>1, <3>3 DEF FleetInv, ConnsTell
      <4> QED BY <1>1, <1>6, <4>1 DEF Reason
    <3> QED BY <1>3, <3>2, <3>3
  <2>3. \A n \in Names \ R : round'.live[n] # None =>
                /\ ~Unwanted(n)'
                /\ round'.want[n] # None => ~SpecChanged(round.was[n], round.want[n])'
    BY <1>4, <1>6 DEF Unwanted, SpecChanged
  <2> QED BY <1>1, <1>3, <1>6, <2>0, <2>1, <2>2, <2>3 DEF PlanTells, Planning
<1>12. DialTells' /\ ListTells'
  BY <1>1, <1>6 DEF FleetInv, DialTells, ListTells, Reading
<1>13. FleetTells'
  <2>1. \A n \in routes : Unwanted(n)' => n \in Drop
    BY <1>6, Types DEF FleetInv, Unwanted, Drop
  <2> QED BY <1>1, <1>6, <2>1 DEF FleetTells
<1>14. HealthTells'
  <2>1. \A n \in Names : n \in round.unmeasured => n \notin asked
    BY <1>1, <1>5 DEF FleetInv, DialTells, Reading
  <2>2. \A n \in Names : n \in round.unmeasured => (Alive(n)' <=> Alive(n))
    BY <1>1, <1>7, <2>1 DEF Alive
  <2> QED BY <1>1, <1>6, <2>2 DEF FleetInv, HealthTells, Known, Rebuilding
<1> QED
  BY <1>8, <1>9, <1>10, <1>11, <1>12, <1>13, <1>14 DEF FleetInv

LEMMA RetireInv ==
  ASSUME FleetInv, Retire
  PROVE  FleetInv'
<1>0. /\ UNCHANGED <<procs, owner, listing, health, flags, closing, calls, observed, redialled>>
      /\ round.pc = "retire" /\ round \in RoundType /\ flags \in FlagType /\ TypeOK
  BY RoundIs DEF Retire, histories, FleetInv
<1>1. CASE flags.closed /\ round.remove \cup round.drop # {}
  <2>1. /\ round' = [Resting EXCEPT !.pc = "stop"]
        /\ UNCHANGED <<conns, dialed, gone, unlisted, routes>>
    BY <1>1 DEF Retire, Stop
  <2>2. /\ round' \in RoundType /\ round'.pc = "stop" /\ round'.going = {} /\ round'.added = NoNames
        /\ round'.todo = {} /\ round'.candidates = {} /\ round'.unmeasured = {}
    BY <2>1, RestingFields
  <2>3. Fixed /\ flags' = flags
    BY <1>0, <2>1 DEF Fixed
  <2>4. /\ TypeOK' /\ Beginning' /\ Ending' /\ ConnsTell' /\ CallsTell' /\ OneProcessEach'
        /\ SuspendedServesNothing' /\ RoutesAreServable'
    BY <1>0, <2>2, <2>3, FixedAside
  <2>5. \A n \in Names : round'.added[n] = None
    BY <2>2 DEF NoNames
  <2>6. PlanTells' /\ DialTells' /\ FleetTells' /\ ListTells'
    BY <2>2, <2>5 DEF PlanTells, DialTells, FleetTells, ListTells, Planning, Reading
  <2>7. HealthTells'
    <3>1. \A n \in Names : conns[n] = None
      BY <1>1 DEF FleetInv, Ending, NoNames
    <3> QED BY <1>1, <2>3, <3>1 DEF HealthTells, Fixed
  <2>8. NoOrphans'
    <3>1. round.going = {} /\ round.pc = "retire"
      BY <1>0 DEF FleetInv, PlanTells
    <3> QED BY <2>2, <2>3, <3>1 DEF FleetInv, Fixed, NoOrphans, Open
  <2> QED BY <2>4, <2>6, <2>7, <2>8 DEF FleetInv
<1>2. CASE ~(flags.closed /\ round.remove \cup round.drop # {})
  <2> DEFINE G == {conns[n] : n \in round.remove} \ {None}
  <2>1. /\ conns' = Without(conns, round.remove) /\ dialed' = Without(dialed, round.remove)
        /\ gone' = Without(gone, round.remove) /\ unlisted' = Without(unlisted, round.remove)
        /\ routes' = routes \ round.drop
        /\ round' = [round EXCEPT !.pc = "close", !.going = G]
    BY <1>2 DEF Retire
  <2>2. G \in SUBSET Procs /\ round.remove \in SUBSET Names
    BY <1>0 DEF TypeOK
  <2>3. \A p \in G : \E n \in round.remove : p = conns[n] /\ p # None
    OBVIOUS
  <2>4. \A n \in round.remove : conns[n] # None => conns[n] \in G
    OBVIOUS
  <2> HIDE DEF G
  <2>5. /\ round' \in RoundType /\ round'.pc = "close" /\ round'.going = G /\ round'.remove = round.remove
        /\ round'.live = round.live /\ round'.was = round.was /\ round'.want = round.want
        /\ round'.unmeasured = round.unmeasured /\ round'.added = round.added /\ round'.todo = round.todo
    BY <1>0, <2>1, <2>2 DEF RoundType
  <2>6. \A n \in Names : IF n \in round.remove
             THEN conns'[n] = None /\ dialed'[n] = None /\ gone'[n] = None /\ unlisted'[n] = None
             ELSE conns'[n] = conns[n] /\ dialed'[n] = dialed[n] /\ gone'[n] = gone[n] /\ unlisted'[n] = unlisted[n]
    BY <2>1 DEF Without
  <2>7. TypeOK'
    <3>1. /\ conns' \in [Names -> Procs \cup {None}] /\ dialed' \in [Names -> Entries \cup {None}]
          /\ gone' \in [Names -> Procs \cup {None}] /\ unlisted' \in [Names -> Procs \cup {None}]
      BY <1>0, <2>1 DEF Without, TypeOK
    <3> QED BY <1>0, <2>1, <2>5, <3>1 DEF TypeOK, RoundType
  <2>8. Beginning' /\ CallsTell' /\ OneProcessEach'
    BY <1>0, <2>5 DEF FleetInv, Beginning, CallsTell, OneProcessEach, Open
  <2>9. SuspendedServesNothing' /\ RoutesAreServable'
    BY <1>0, <2>1 DEF FleetInv, SuspendedServesNothing, RoutesAreServable, Known
  <2>10. Ending'
    <3>1. ASSUME flags.closed PROVE conns' = NoNames /\ dialed' = NoNames /\ gone' = NoNames /\ routes' = {}
      BY <2>1, <3>1 DEF FleetInv, Ending, Without, NoNames
    <3> QED BY <1>0, <3>1 DEF FleetInv, Ending
  <2>11. ConnsTell'
    BY <1>0, <2>6 DEF FleetInv, ConnsTell
  <2>12. PlanTells'
    <3>1. ~flags.closed => round.live = conns /\ round.was = dialed
      BY <1>0 DEF FleetInv, PlanTells, Planning
    <3>2. ~flags.closed => conns' = Without(round'.live, round'.remove)
      BY <2>1, <2>5, <3>1
    <3>3. ASSUME NEW p \in G PROVE owner[p] # None /\ procs[p] # "unborn" /\ Reason(owner[p], p)'
      <4>1. PICK n \in round.remove : p = conns[n] /\ p # None
        BY <2>3
      <4>2. n \in Names /\ owner[p] = n /\ procs[p] # "unborn"
        BY <2>2, <4>1 DEF FleetInv, ConnsTell
      <4>3. ~flags.closed
        BY <1>2, <4>1
      <4>4. Reason(n, p)
        BY <1>0, <3>1, <4>1, <4>3 DEF FleetInv, PlanTells
      <4>5. n # None
        BY <4>2, NoneAssumption
      <4> QED BY <1>0, <2>5, <4>2, <4>4, <4>5 DEF Reason
    <3> QED BY <1>0, <2>5, <3>2, <3>3 DEF PlanTells, Planning
  <2>13. DialTells' /\ ListTells'
    BY <1>0, <2>5 DEF FleetInv, DialTells, ListTells, Reading
  <2>14. FleetTells'
    <3>1. ASSUME ~flags.closed, NEW n \in Names, conns'[n] # None, n \notin round.unmeasured
          PROVE  round.want[n] # None /\ dialed'[n].spec = round.want[n].spec
      <4>1. n \notin round.remove /\ conns[n] # None /\ dialed'[n] = dialed[n] /\ round.live[n] # None
        BY <1>0, <2>6, <3>1 DEF FleetInv, PlanTells, Planning
      <4>2. ~Unwanted(n) /\ (round.want[n] # None => ~SpecChanged(round.was[n], round.want[n]))
        BY <1>0, <4>1 DEF FleetInv, PlanTells
      <4>3. round.was = dialed
        BY <1>0, <3>1 DEF FleetInv, PlanTells, Planning
      <4> QED BY <3>1, <4>1, <4>2, <4>3 DEF Unwanted, SpecChanged
    <3>2. \A n \in routes' : ~Unwanted(n)'
      BY <1>0, <2>1, <2>5 DEF FleetInv, FleetTells, Unwanted
    <3> QED BY <1>0, <2>5, <3>1, <3>2 DEF FleetTells
  <2>15. HealthTells'
    <3>1. \A n \in Names : n \in round.unmeasured => n \notin round.remove
      BY <1>0 DEF FleetInv, PlanTells
    <3>2. \A n \in Names : n \in round.unmeasured => (Alive(n)' <=> Alive(n))
      BY <2>6, <3>1 DEF Alive
    <3>3. \A n \in Names : conns'[n] # None => conns[n] # None
      BY <2>6
    <3> QED BY <1>0, <2>5, <3>2, <3>3 DEF FleetInv, HealthTells, Known, Rebuilding
  <2>16. NoOrphans'
    <3> SUFFICES ASSUME NEW p \in Procs, Open(p)'
                 PROVE  \/ ~flags'.closed /\ p \in Held(conns)'
                        \/ round'.pc \in {"dial", "adopt"} /\ p \in Held(round.added)'
                        \/ p \in round'.going
                        \/ p \in closing'
      BY DEF NoOrphans
    <3>1. (~flags.closed /\ p \in Held(conns)) \/ p \in closing
      <4>1. round.going = {}
        BY <1>0 DEF FleetInv, PlanTells
      <4>2. Open(p)
        BY <1>0 DEF Open
      <4> QED BY <1>0, <4>1, <4>2 DEF FleetInv, NoOrphans
    <3>2. ASSUME p \in Held(conns) PROVE p \in Held(conns)' \/ p \in G
      <4>1. PICK n \in Names : p = conns[n] /\ p # None
        BY <3>2 DEF Held
      <4>2. CASE n \in round.remove
        BY <2>4, <4>1, <4>2
      <4>3. CASE n \notin round.remove
        BY <2>6, <4>1, <4>3 DEF Held
      <4> QED BY <4>2, <4>3
    <3> QED BY <1>0, <2>5, <3>1, <3>2
  <2> QED
    BY <2>7, <2>8, <2>9, <2>10, <2>11, <2>12, <2>13, <2>14, <2>15, <2>16 DEF FleetInv
<1> QED BY <1>1, <1>2

LEMMA CloseRetiredInv ==
  ASSUME FleetInv, CloseRetired
  PROVE  FleetInv'
<1> DEFINE toDial == {n \in Names : round.want[n] # None /\ (round.live[n] = None \/ n \in round.remove)}
           T == IF round.frozen THEN {} ELSE toDial
<1>1. /\ UNCHANGED <<owner, conns, dialed, gone, unlisted, routes, listing, health, flags, closing,
                     calls, observed, redialled>>
      /\ round.pc = "close" /\ round \in RoundType /\ flags \in FlagType /\ TypeOK
      /\ procs' = [p \in Procs |-> IF p \in round.going THEN "closed" ELSE procs[p]]
      /\ round' = [round EXCEPT !.pc = "dial", !.live = NoNames, !.was = NoNames,
                                !.remove = {}, !.drop = {}, !.going = {}, !.todo = T]
  BY RoundIs DEF CloseRetired, tables, histories, FleetInv
<1>2. T \in SUBSET Names /\ \A n \in T : round.want[n] # None /\ (round.live[n] = None \/ n \in round.remove)
  OBVIOUS
<1> HIDE DEF T
<1>3. /\ round' \in RoundType /\ round'.pc = "dial" /\ round'.going = {} /\ round'.todo = T
      /\ round'.added = round.added /\ round'.want = round.want /\ round'.unmeasured = round.unmeasured
  <2>1. NoNames \in [Names -> Entries \cup {None}] /\ NoNames \in [Names -> Procs \cup {None}]
    BY DEF NoNames
  <2> QED BY <1>1, <1>2, <2>1 DEF RoundType
<1>4. round.added = NoNames /\ \A n \in Names : round.added[n] = None
  BY <1>1 DEF FleetInv, DialTells, NoNames
<1>5. \A p \in Procs : /\ procs'[p] \in {procs[p], "closed"}
                       /\ procs[p] \in {"dead", "closed"} => procs'[p] \in {"dead", "closed"}
                       /\ procs'[p] # "closed" => p \notin round.going /\ procs'[p] = procs[p]
  BY <1>1
<1>6. TypeOK'
  <2>1. procs' \in [Procs -> {"unborn", "up", "dead", "closed"}]
    BY <1>1 DEF TypeOK
  <2> QED BY <1>1, <1>3, <2>1 DEF TypeOK, RoundType
<1>7. Beginning' /\ Ending' /\ SuspendedServesNothing' /\ RoutesAreServable'
  BY <1>1, <1>3 DEF FleetInv, Beginning, Ending, SuspendedServesNothing, RoutesAreServable, Known
<1>8. ConnsTell' /\ CallsTell'
  <2>1. ConnsTell'
    BY <1>1, <1>5 DEF FleetInv, ConnsTell, TypeOK
  <2>2. \A c \in Calls : calls[c].up \in Procs \cup {None}
    BY <1>1 DEF TypeOK
  <2>3. CallsTell'
    BY <1>1, <1>5, <2>2 DEF FleetInv, CallsTell
  <2> QED BY <2>1, <2>3
<1>9. PlanTells' /\ ListTells'
  BY <1>3 DEF PlanTells, ListTells, Planning
<1>10. DialTells'
  <2>1. ASSUME NEW n \in T PROVE conns[n] = None
    <3>1. CASE flags.closed
      BY <1>2, <3>1 DEF FleetInv, Ending, NoNames
    <3>2. CASE ~flags.closed
      <4>1. conns = Without(round.live, round.remove)
        BY <1>1, <3>2 DEF FleetInv, PlanTells
      <4> QED BY <1>2, <4>1 DEF Without
    <3> QED BY <3>1, <3>2
  <2>2. \A n \in round.unmeasured : round.want[n] = None
    BY <1>1 DEF FleetInv, DialTells, Reading
  <2> QED BY <1>1, <1>2, <1>3, <1>4, <2>1, <2>2 DEF DialTells, Reading
<1>11. FleetTells'
  BY <1>1, <1>3 DEF FleetInv, FleetTells, Unwanted
<1>12. HealthTells'
  BY <1>1, <1>3 DEF FleetInv, HealthTells, Known, Alive, Rebuilding
<1>13. NoOrphans'
  <2> SUFFICES ASSUME NEW p \in Procs, Open(p)'
               PROVE  (~flags.closed /\ p \in Held(conns)) \/ p \in closing
    BY <1>1 DEF NoOrphans, Held
  <2>1. Open(p) /\ p \notin round.going
    BY <1>5 DEF Open
  <2> QED BY <1>1, <2>1 DEF FleetInv, NoOrphans
<1>14. OneProcessEach'
  <2>1. \A p \in Procs : Open(p)' => Open(p)
    BY <1>5 DEF Open
  <2> QED BY <1>1, <2>1 DEF FleetInv, OneProcessEach
<1> QED
  BY <1>6, <1>7, <1>8, <1>9, <1>10, <1>11, <1>12, <1>13, <1>14 DEF FleetInv

(* A process that is started is nobody's yet, and no other of its upstream *)
(* is left.                                                                *)
LEMMA DialSucceedsInv ==
  ASSUME FleetInv, NEW n \in Names, NEW p \in Procs, DialSucceeds(n, p)
  PROVE  FleetInv'
<1>1. /\ UNCHANGED <<conns, dialed, gone, unlisted, routes, listing, health, flags, closing,
                     calls, observed, redialled>>
      /\ round.pc = "dial" /\ n \in round.todo /\ procs[p] = "unborn"
      /\ round \in RoundType /\ flags \in FlagType /\ TypeOK
      /\ procs' = [procs EXCEPT ![p] = "up"] /\ owner' = [owner EXCEPT ![p] = n]
      /\ round' = [round EXCEPT !.todo = round.todo \ {n}, !.added = [round.added EXCEPT ![n] = p]]
  BY RoundIs DEF DialSucceeds, tables, histories, FleetInv
<1>2. /\ procs' \in [Procs -> {"unborn", "up", "dead", "closed"}] /\ owner' \in [Procs -> Names \cup {None}]
      /\ procs'[p] = "up" /\ owner'[p] = n
      /\ \A q \in Procs : q # p => procs'[q] = procs[q] /\ owner'[q] = owner[q]
  BY <1>1 DEF TypeOK
<1>3. /\ round' \in RoundType /\ round'.pc = "dial" /\ round'.todo = round.todo \ {n}
      /\ round'.added[n] = p /\ \A m \in Names : m # n => round'.added[m] = round.added[m]
      /\ round'.want = round.want /\ round'.unmeasured = round.unmeasured /\ round'.going = round.going
  BY <1>1 DEF RoundType
<1>4. /\ round.added[n] = None /\ conns[n] = None /\ round.want[n] # None /\ round.going = {} /\ p # None
  <2>1. p # None
    BY NoneAssumption
  <2> QED BY <1>1, <2>1 DEF FleetInv, DialTells, PlanTells
<1>5. \A m \in Names : conns[m] \in Procs \cup {None} /\ round.added[m] \in Procs \cup {None}
  BY <1>1 DEF TypeOK, RoundType
<1>6. TypeOK'
  BY <1>1, <1>2, <1>3 DEF TypeOK, RoundType
<1>7. Beginning' /\ Ending' /\ SuspendedServesNothing' /\ RoutesAreServable' /\ PlanTells' /\ ListTells'
  BY <1>1, <1>3, <1>4 DEF FleetInv, Beginning, Ending, SuspendedServesNothing, RoutesAreServable, Known,
                          PlanTells, ListTells, Planning
<1>8. ConnsTell'
  <2>1. \A m \in Names : gone[m] \in Procs \cup {None}
    BY <1>1 DEF TypeOK
  <2>2. \A m \in Names : conns[m] # p
    BY <1>1, <1>4 DEF FleetInv, ConnsTell
  <2> QED BY <1>1, <1>2, <1>5, <2>1, <2>2 DEF FleetInv, ConnsTell
<1>9. CallsTell'
  <2>1. \A c \in Calls : calls[c].up \in Procs \cup {None}
    BY <1>1 DEF TypeOK
  <2> QED BY <1>1, <1>2, <2>1 DEF FleetInv, CallsTell
<1>10. DialTells'
  <2>1. \A m \in Names : round.added[m] # None => round.added[m] # p
    BY <1>1 DEF FleetInv, DialTells
  <2>2. \A m \in Names : round'.added[m] # None =>
            /\ owner'[round'.added[m]] = m /\ procs'[round'.added[m]] # "unborn"
            /\ m \notin round'.todo
    BY <1>2, <1>3, <1>5, <2>1 DEF FleetInv, DialTells
  <2>3. \A m \in Names : m \in round'.todo \/ round'.added[m] # None => conns[m] = None /\ round.want[m] # None
    BY <1>1, <1>3, <1>4 DEF FleetInv, DialTells
  <2>4. \A m \in round.unmeasured : round.want[m] = None
    BY <1>1 DEF FleetInv, DialTells, Reading
  <2> QED BY <1>1, <1>3, <2>2, <2>3, <2>4 DEF DialTells
<1>11. FleetTells'
  BY <1>1, <1>3 DEF FleetInv, FleetTells, Unwanted
<1>12. HealthTells'
  BY <1>1, <1>3 DEF FleetInv, HealthTells, Known, Alive, Rebuilding
<1>13. ASSUME NEW q \in Procs, q # p, Open(q)
       PROVE  (~flags.closed /\ q \in Held(conns)) \/ q \in Held(round.added) \/ q \in closing
  BY <1>1, <1>4, <1>13 DEF FleetInv, NoOrphans
<1>14. NoOrphans'
  <2> SUFFICES ASSUME NEW q \in Procs, Open(q)'
               PROVE  (~flags.closed /\ q \in Held(conns)) \/ q \in Held(round.added)' \/ q \in closing
    BY <1>1, <1>3 DEF NoOrphans, Held
  <2>1. CASE q = p
    BY <1>3, <1>4, <2>1 DEF Held
  <2>2. CASE q # p
    <3>1. Open(q)
      BY <1>2, <2>2 DEF Open
    <3>2. q \in Held(round.added) => q \in Held(round.added)'
      BY <1>3, <1>4 DEF Held
    <3> QED BY <1>13, <2>2, <3>1, <3>2
  <2> QED BY <2>1, <2>2
<1>15. OneProcessEach'
  <2> SUFFICES ASSUME ~flags.closed, NEW q \in Procs, q # p, Open(q) PROVE owner[q] # n
    <3>1. \A q \in Procs : q # p => (Open(q)' <=> Open(q)) /\ owner'[q] = owner[q]
      BY <1>2 DEF Open
    <3> QED BY <1>1, <1>2, <3>1 DEF FleetInv, OneProcessEach
  <2>1. q \in Held(conns) \/ q \in Held(round.added)
    BY <1>1, <1>13 DEF FleetInv, Ending
  <2>2. CASE q \in Held(conns)
    <3>1. PICK m \in Names : q = conns[m] /\ q # None
      BY <2>2 DEF Held
    <3> QED BY <1>4, <3>1 DEF FleetInv, ConnsTell
  <2>3. CASE q \in Held(round.added)
    <3>1. PICK m \in Names : q = round.added[m] /\ q # None
      BY <2>3 DEF Held
    <3> QED BY <1>4, <3>1 DEF FleetInv, DialTells
  <2> QED BY <2>1, <2>2, <2>3
<1> QED
  BY <1>6, <1>7, <1>8, <1>9, <1>10, <1>11, <1>12, <1>14, <1>15 DEF FleetInv

LEMMA DialEndsInv ==
  ASSUME FleetInv, Confirm \/ \E n \in Names : DialFails(n)
  PROVE  FleetInv'
<1>1. /\ Fixed /\ round.pc = "dial" /\ round \in RoundType /\ flags \in FlagType
      /\ flags' \in FlagType /\ flags'.closed = flags.closed /\ flags'.suspended = flags.suspended
  BY RoundIs DEF Confirm, DialFails, tables, histories, Fixed, FlagType
<1>2. /\ round' \in RoundType /\ round'.pc \in {"dial", "adopt"} /\ round'.todo \subseteq round.todo
      /\ round'.added = round.added /\ round'.want = round.want /\ round'.unmeasured = round.unmeasured
      /\ round'.going = round.going
  <2>1. CASE Confirm
    BY <1>1, <2>1 DEF Confirm, Go, RoundType
  <2>2. ASSUME NEW n \in Names, DialFails(n) PROVE round' = [round EXCEPT !.todo = round.todo \ {n}]
    BY <2>2 DEF DialFails
  <2> QED BY <1>1, <2>1, <2>2 DEF RoundType
<1>3. /\ TypeOK' /\ Beginning' /\ Ending' /\ ConnsTell' /\ CallsTell' /\ OneProcessEach'
      /\ SuspendedServesNothing' /\ RoutesAreServable'
  BY <1>1, <1>2, FixedAside
<1>4. PlanTells' /\ ListTells'
  BY <1>1, <1>2 DEF FleetInv, PlanTells, ListTells, Planning
<1>5. DialTells'
  BY <1>1, <1>2 DEF FleetInv, DialTells, Reading, Fixed
<1>6. FleetTells'
  BY <1>1, <1>2 DEF FleetInv, FleetTells, Unwanted, Fixed
<1>7. HealthTells'
  BY <1>1, <1>2 DEF FleetInv, Fixed, HealthTells, Known, Alive, Rebuilding
<1>8. NoOrphans'
  BY <1>1, <1>2 DEF FleetInv, Fixed, NoOrphans, Open
<1> QED BY <1>3, <1>4, <1>5, <1>6, <1>7, <1>8 DEF FleetInv

LEMMA AdoptInv ==
  ASSUME FleetInv, Adopt
  PROVE  FleetInv'
<1>0. /\ UNCHANGED <<owner, gone, routes, listing, health, flags, closing, calls, observed, redialled>>
      /\ round.pc = "adopt" /\ round \in RoundType /\ flags \in FlagType /\ TypeOK /\ round.going = {}
  BY RoundIs DEF Adopt, histories, FleetInv, PlanTells
<1>1. CASE flags.closed
  <2>1. /\ procs' = [p \in Procs |-> IF p \in Held(round.added) THEN "closed" ELSE procs[p]]
        /\ round' = [Resting EXCEPT !.pc = "stop"] /\ UNCHANGED <<conns, dialed, unlisted>>
    BY <1>1 DEF Adopt, Stop
  <2>2. /\ round' \in RoundType /\ round'.pc = "stop" /\ round'.going = {} /\ round'.added = NoNames
    BY <2>1, RestingFields
  <2>3. \A n \in Names : round'.added[n] = None /\ conns[n] = None
    BY <1>1, <2>2 DEF NoNames, FleetInv, Ending
  <2>4. \A p \in Procs : /\ procs'[p] \in {procs[p], "closed"}
                         /\ procs[p] \in {"dead", "closed"} => procs'[p] \in {"dead", "closed"}
                         /\ procs'[p] # "closed" => p \notin Held(round.added) /\ procs'[p] = procs[p]
    BY <2>1
  <2>5. TypeOK'
    <3>1. procs' \in [Procs -> {"unborn", "up", "dead", "closed"}]
      BY <1>0, <2>1 DEF TypeOK
    <3> QED BY <1>0, <2>1, <2>2, <3>1 DEF TypeOK, RoundType
  <2>6. Beginning' /\ Ending' /\ SuspendedServesNothing' /\ RoutesAreServable'
    BY <1>0, <2>1, <2>2 DEF FleetInv, Beginning, Ending, SuspendedServesNothing, RoutesAreServable, Known
  <2>7. ConnsTell'
    BY <1>0, <2>1, <2>4 DEF FleetInv, ConnsTell, TypeOK
  <2>8. CallsTell'
    <3>1. \A c \in Calls : calls[c].up \in Procs \cup {None}
      BY <1>0 DEF TypeOK
    <3> QED BY <1>0, <2>4, <3>1 DEF FleetInv, CallsTell
  <2>9. PlanTells' /\ DialTells' /\ FleetTells' /\ ListTells'
    BY <2>2, <2>3 DEF PlanTells, DialTells, FleetTells, ListTells, Planning, Reading
  <2>10. HealthTells'
    BY <1>0, <1>1, <2>1, <2>3 DEF HealthTells
  <2>11. NoOrphans'
    <3> SUFFICES ASSUME NEW p \in Procs, Open(p)' PROVE p \in closing
      BY <1>0 DEF NoOrphans
    <3>1. Open(p) /\ p \notin Held(round.added)
      BY <2>4 DEF Open
    <3> QED BY <1>0, <1>1, <3>1 DEF FleetInv, NoOrphans
  <2>12. OneProcessEach'
    BY <1>0, <1>1 DEF OneProcessEach
  <2> QED
    BY <2>5, <2>6, <2>7, <2>8, <2>9, <2>10, <2>11, <2>12 DEF FleetInv
<1>2. CASE ~flags.closed
  <2>1. /\ conns' = AdoptedOver(conns, round.added) /\ unlisted' = AdoptedOver(unlisted, round.added)
        /\ dialed' = [n \in Names |-> IF round.added[n] # None THEN round.want[n] ELSE dialed[n]]
        /\ round' = [round EXCEPT !.pc = "settle"] /\ UNCHANGED procs
    BY <1>2 DEF Adopt, Go
  <2>2. /\ round' \in RoundType /\ round'.pc = "settle" /\ round'.added = round.added /\ round'.todo = round.todo
        /\ round'.going = {} /\ round'.want = round.want /\ round'.unmeasured = round.unmeasured
    BY <1>0, <2>1 DEF RoundType
  <2>3. \A n \in Names : IF round.added[n] # None
             THEN conns'[n] = round.added[n] /\ unlisted'[n] = round.added[n] /\ dialed'[n] = round.want[n]
             ELSE conns'[n] = conns[n] /\ unlisted'[n] = unlisted[n] /\ dialed'[n] = dialed[n]
    BY <2>1 DEF AdoptedOver
  <2>4. \A n \in Names : round.added[n] # None =>
           /\ owner[round.added[n]] = n /\ procs[round.added[n]] # "unborn"
           /\ conns[n] = None /\ round.want[n] # None /\ n \notin round.unmeasured
    BY <1>0 DEF FleetInv, DialTells, Reading
  <2>5. TypeOK'
    <3>1. /\ conns' \in [Names -> Procs \cup {None}] /\ dialed' \in [Names -> Entries \cup {None}]
          /\ unlisted' \in [Names -> Procs \cup {None}]
      BY <1>0, <2>1 DEF TypeOK, AdoptedOver, RoundType
    <3> QED BY <1>0, <2>1, <2>2, <3>1 DEF TypeOK, RoundType
  <2>6. Beginning' /\ Ending' /\ CallsTell' /\ OneProcessEach' /\ SuspendedServesNothing' /\ RoutesAreServable'
    BY <1>0, <1>2, <2>1, <2>2 DEF FleetInv, Beginning, Ending, CallsTell, OneProcessEach, Open,
         SuspendedServesNothing, RoutesAreServable, Known
  <2>7. ConnsTell'
    BY <1>0, <2>1, <2>3, <2>4 DEF FleetInv, ConnsTell
  <2>8. PlanTells' /\ ListTells'
    BY <2>2 DEF PlanTells, ListTells, Planning
  <2>9. DialTells'
    BY <1>0, <2>1, <2>2 DEF FleetInv, DialTells, Reading
  <2>10. FleetTells'
    BY <1>0, <1>2, <2>2, <2>3, <2>4 DEF FleetInv, FleetTells, Unwanted
  <2>11. HealthTells'
    <3>1. \A n \in Names : n \in round.unmeasured => (Alive(n)' <=> Alive(n))
      BY <1>0, <2>3, <2>4 DEF Alive
    <3> QED BY <1>0, <1>2, <2>2, <2>3, <2>4, <3>1 DEF FleetInv, HealthTells, Known, Rebuilding
  <2>12. NoOrphans'
    <3> SUFFICES ASSUME NEW p \in Procs, Open(p)' PROVE p \in Held(conns)'
      BY <1>0, <1>2 DEF NoOrphans
    <3>1. p \in Held(conns) \/ p \in Held(round.added)
      <4>1. Open(p)
        BY <2>1 DEF Open
      <4> QED BY <1>0, <1>2, <4>1 DEF FleetInv, NoOrphans, Ending
    <3>2. PICK n \in Names : p # None /\ (p = conns[n] \/ p = round.added[n])
      BY <3>1 DEF Held
    <3>3. p = conns'[n]
      BY <2>3, <2>4, <3>2
    <3> QED BY <3>2, <3>3 DEF Held
  <2> QED
    BY <2>5, <2>6, <2>7, <2>8, <2>9, <2>10, <2>11, <2>12 DEF FleetInv
<1> QED BY <1>1, <1>2

LEMMA SettleInv ==
  ASSUME FleetInv, SettleHealth
  PROVE  FleetInv'
<1>1. /\ UNCHANGED <<procs, owner, conns, dialed, gone, unlisted, routes, listing, closing, calls,
                     observed, redialled>>
      /\ round.pc = "settle" /\ round \in RoundType /\ flags \in FlagType /\ TypeOK /\ round.going = {}
      /\ health' = Settled(round.want, round.unmeasured)
      /\ flags' = [flags EXCEPT !.heldBack = round.frozen]
      /\ round' = [Resting EXCEPT !.pc = "refresh"]
  BY RoundIs DEF SettleHealth, histories, FleetInv, PlanTells
<1>2. /\ round' \in RoundType /\ round'.pc = "refresh" /\ round'.going = {} /\ round'.added = NoNames
      /\ round'.unmeasured = {} /\ \A n \in Names : round'.added[n] = None
  BY <1>1, RestingFields DEF NoNames
<1>3. flags' \in FlagType /\ flags'.closed = flags.closed /\ flags'.suspended = flags.suspended
  BY <1>1 DEF FlagType, RoundType
<1>4. /\ health' \in [Names -> {"unknown", "live", "down"}]
      /\ \A n \in Names : health'[n] = IF round.want[n] # None THEN (IF Alive(n) THEN "live" ELSE "down")
                                       ELSE IF n \in round.unmeasured THEN health[n] ELSE "unknown"
  BY <1>1 DEF Settled, TypeOK
<1>5. TypeOK'
  BY <1>1, <1>2, <1>3, <1>4 DEF TypeOK, RoundType, FlagType
<1>6. Beginning' /\ Ending' /\ ConnsTell' /\ CallsTell' /\ OneProcessEach' /\ SuspendedServesNothing'
  BY <1>1, <1>2, <1>3 DEF FleetInv, Beginning, Ending, ConnsTell, CallsTell, OneProcessEach, Open,
                         SuspendedServesNothing
<1>7. RoutesAreServable'
  <2>1. \A n \in routes : n \in Names /\ (round.want[n] # None \/ n \in round.unmeasured)
    BY <1>1 DEF FleetInv, FleetTells, Unwanted, TypeOK
  <2> QED BY <1>1, <1>4, <2>1 DEF FleetInv, RoutesAreServable, Known
<1>8. PlanTells' /\ DialTells' /\ FleetTells' /\ ListTells'
  BY <1>2 DEF PlanTells, DialTells, FleetTells, ListTells, Planning, Reading
<1>9. HealthTells'
  <2>1. \A n \in Names : Alive(n)' <=> Alive(n)
    BY <1>1 DEF Alive
  <2>2. ASSUME NEW n \in Names, conns[n] # None PROVE health'[n] # "unknown"
    <3>1. ~flags.closed
      BY <2>2 DEF FleetInv, Ending, NoNames
    <3>2. n \notin round.unmeasured => round.want[n] # None
      BY <1>1, <2>2, <3>1 DEF FleetInv, FleetTells
    <3>3. round.want[n] = None => Known(n)
      BY <2>2 DEF FleetInv, HealthTells
    <3> QED BY <1>4, <3>2, <3>3 DEF Known
  <2>3. ASSUME ~flags.closed, NEW n \in Names, health'[n] # "unknown" PROVE health'[n] = "live" <=> Alive(n)
    <3>1. CASE round.want[n] # None
      BY <1>4, <3>1
    <3>2. CASE round.want[n] = None
      <4>1. n \in round.unmeasured /\ health'[n] = health[n]
        BY <1>4, <2>3, <3>2
      <4>2. Known(n)
        BY <2>3, <4>1 DEF Known
      <4> QED BY <2>3, <4>1, <4>2 DEF FleetInv, HealthTells
    <3> QED BY <3>1, <3>2
  <2> QED BY <1>1, <1>3, <2>1, <2>2, <2>3 DEF HealthTells, Known
<1>10. NoOrphans'
  BY <1>1, <1>2, <1>3 DEF FleetInv, NoOrphans, Open
<1> QED
  BY <1>5, <1>6, <1>7, <1>8, <1>9, <1>10 DEF FleetInv

-----------------------------------------------------------------------------
(* Refresh, and whoever finds a connection gone.                           *)

(* A marker about connection up of n, which is dead or to be replaced.     *)
LEMMA MarkInv ==
  ASSUME FleetInv, NEW n \in Names, NEW up \in Procs,
         UNCHANGED <<procs, owner, conns, dialed, unlisted, routes, flags, closing>>,
         gone' = GoneMarked(n, up), health' = GoneHealth(n, up),
         procs[up] \in {"dead", "closed"} \/ up \in redialled',
         redialled \subseteq redialled',
         round'.pc = round.pc, round'.want = round.want, round'.unmeasured = round.unmeasured
  PROVE  /\ Ending' /\ ConnsTell' /\ HealthTells' /\ OneProcessEach' /\ SuspendedServesNothing'
         /\ RoutesAreServable' /\ \A m : Known(m)' <=> Known(m)
         /\ gone' \in [Names -> Procs \cup {None}] /\ health' \in [Names -> {"unknown", "live", "down"}]
<1>0. TypeOK /\ up # None
  BY NoneAssumption DEF FleetInv
<1>1. CASE conns[n] = up
  <2>1. /\ gone' = [gone EXCEPT ![n] = up]
        /\ health' = IF Known(n) THEN [health EXCEPT ![n] = "down"] ELSE health
    BY <1>0, <1>1 DEF GoneMarked, GoneHealth
  <2>2. /\ gone' \in [Names -> Procs \cup {None}] /\ gone'[n] = up
        /\ \A m \in Names : m # n => gone'[m] = gone[m]
    BY <1>0, <2>1 DEF TypeOK
  <2>3. /\ health' \in [Names -> {"unknown", "live", "down"}]
        /\ health'[n] # "live" \/ ~Known(n)
        /\ \A m \in Names : m # n => health'[m] = health[m]
        /\ \A m : Known(m)' <=> Known(m)
    <3>1. CASE Known(n)
      <4>1. health' = [health EXCEPT ![n] = "down"]
        BY <2>1, <3>1
      <4> QED BY <1>0, <3>1, <4>1 DEF TypeOK, Known
    <3>2. CASE ~Known(n)
      BY <1>0, <2>1, <3>2 DEF TypeOK, Known
    <3> QED BY <3>1, <3>2
  <2>4. ~flags.closed
    BY <1>0, <1>1 DEF FleetInv, Ending, NoNames
  <2>5. ConnsTell'
    BY <1>1, <2>2 DEF FleetInv, ConnsTell
  <2>6. Ending' /\ OneProcessEach' /\ SuspendedServesNothing' /\ RoutesAreServable'
    BY <2>3, <2>4 DEF FleetInv, Ending, OneProcessEach, Open, SuspendedServesNothing, RoutesAreServable
  <2>7. HealthTells'
    <3>1. ~Alive(n)' /\ \A m \in Names : m # n => (Alive(m)' <=> Alive(m))
      BY <1>1, <2>2 DEF Alive
    <3> QED BY <2>3, <3>1 DEF FleetInv, HealthTells
  <2> QED BY <2>2, <2>3, <2>5, <2>6, <2>7
<1>2. CASE conns[n] # up
  <2>1. gone' = gone /\ health' = health
    BY <1>2 DEF GoneMarked, GoneHealth
  <2>2. ConnsTell'
    BY <2>1 DEF FleetInv, ConnsTell
  <2>3. HealthTells'
    BY <2>1 DEF FleetInv, HealthTells, Known, Alive
  <2>4. Ending' /\ OneProcessEach' /\ SuspendedServesNothing' /\ RoutesAreServable'
    BY <2>1 DEF FleetInv, Ending, OneProcessEach, Open, SuspendedServesNothing, RoutesAreServable, Known
  <2> QED BY <1>0, <2>1, <2>2, <2>3, <2>4 DEF TypeOK, Known
<1> QED BY <1>1, <1>2

LEMMA BeginRefreshInv ==
  ASSUME FleetInv, BeginRefresh
  PROVE  FleetInv'
<1>1. /\ Fixed /\ flags' = flags /\ round.pc = "refresh" /\ round \in RoundType /\ flags \in FlagType
      /\ round.going = {} /\ round.added = NoNames /\ TypeOK
  BY RoundIs DEF BeginRefresh, tables, histories, Fixed, FleetInv
<1>2. CASE flags.closed
  BY <1>1, <1>2, RestingFields, BareRound DEF BeginRefresh, Stop, Rebuilding
<1>3. CASE ~flags.closed
  <2> DEFINE T == {n \in Names : conns[n] # None}
  <2>1. round' = [round EXCEPT !.pc = "list", !.live = conns, !.todo = T, !.previous = routes,
                              !.candidates = {}]
    BY <1>3 DEF BeginRefresh
  <2>2. conns \in [Names -> Procs \cup {None}] /\ routes \in SUBSET Names /\ T \in SUBSET Names
        /\ \A n \in T : conns[n] # None
    BY <1>1 DEF TypeOK
  <2> HIDE DEF T
  <2>3. /\ round' \in RoundType /\ round'.pc = "list" /\ round'.live = conns /\ round'.todo = T
        /\ round'.going = {} /\ round'.added = NoNames /\ round'.candidates = {}
    BY <1>1, <2>1, <2>2 DEF RoundType
  <2>4. \A n \in Names : round'.added[n] = None
    BY <2>3 DEF NoNames
  <2>5. /\ TypeOK' /\ Beginning' /\ Ending' /\ ConnsTell' /\ CallsTell' /\ OneProcessEach'
        /\ SuspendedServesNothing' /\ RoutesAreServable'
    BY <1>1, <2>3, FixedAside
  <2>6. PlanTells' /\ DialTells' /\ FleetTells'
    BY <2>3, <2>4 DEF PlanTells, DialTells, FleetTells, Planning, Reading
  <2>7. HealthTells'
    BY <1>1, <2>3 DEF FleetInv, Fixed, HealthTells, Known, Alive, Rebuilding
  <2>8. NoOrphans'
    BY <1>1, <2>3 DEF FleetInv, Fixed, NoOrphans, Open
  <2>9. ListTells'
    <3>1. \A n \in T : conns[n] # None /\ procs[conns[n]] # "unborn" /\ Known(n)
      BY <1>1, <2>2 DEF FleetInv, ConnsTell, HealthTells
    <3> QED BY <1>1, <2>3, <3>1 DEF ListTells, Fixed, Known
  <2> QED BY <2>5, <2>6, <2>7, <2>8, <2>9 DEF FleetInv
<1> QED BY <1>2, <1>3

(* An answer of one upstream to the listing of a Refresh, as far as the    *)
(* round is concerned: it is asked once, and routed by name.               *)
LEMMA AnsweredFields ==
  ASSUME FleetInv, round.pc = "list", NEW n \in Names, n \in round.todo, NEW routed \in BOOLEAN,
         Answered(n, routed)
  PROVE  /\ round' \in RoundType /\ round'.pc = "list" /\ round'.going = {} /\ round'.added = round.added
         /\ round'.todo = round.todo \ {n} /\ round'.live = round.live /\ round'.want = round.want
         /\ round'.unmeasured = round.unmeasured
         /\ round'.candidates \subseteq round.candidates \cup {n}
         /\ \A m \in Names : round'.added[m] = None
         /\ round.live[n] \in Procs
<1>1. round \in RoundType /\ round.going = {} /\ round.added = NoNames
  BY RoundIs
<1>2. round' = [round EXCEPT !.todo = round.todo \ {n},
                             !.candidates = IF routed THEN round.candidates \cup {n} ELSE round.candidates]
  BY DEF Answered
<1>3. (IF routed THEN round.candidates \cup {n} ELSE round.candidates) \in SUBSET Names
  BY <1>1 DEF RoundType
<1>4. round.live[n] \in Procs
  BY <1>1 DEF FleetInv, ListTells, RoundType
<1>5. \A m \in Names : round.added[m] = None
  BY <1>1 DEF NoNames
<1> QED BY <1>1, <1>2, <1>3, <1>4, <1>5 DEF RoundType

(* What such a step has to show beyond its tables.                         *)
LEMMA AnsweredInv ==
  ASSUME FleetInv, round.pc = "list", NEW n \in Names, n \in round.todo, NEW routed \in BOOLEAN,
         Answered(n, routed),
         UNCHANGED <<procs, owner, conns, dialed, routes, flags, closing, calls>>,
         \A m : Known(m)' <=> Known(m)
  PROVE  /\ Beginning' /\ CallsTell' /\ PlanTells' /\ DialTells' /\ FleetTells' /\ ListTells' /\ NoOrphans'
<1>1. /\ round' \in RoundType /\ round'.pc = "list" /\ round'.going = {} /\ round'.added = round.added
      /\ round'.todo = round.todo \ {n} /\ round'.live = round.live /\ round'.want = round.want
      /\ round'.candidates \subseteq round.candidates \cup {n}
      /\ \A m \in Names : round'.added[m] = None
  BY AnsweredFields
<1>2. Beginning' /\ CallsTell'
  BY <1>1 DEF FleetInv, Beginning, CallsTell
<1>3. PlanTells' /\ DialTells' /\ FleetTells'
  BY <1>1, RoundIs DEF PlanTells, DialTells, FleetTells, Planning, Reading
<1>4. ListTells'
  BY <1>1 DEF FleetInv, ListTells
<1>5. NoOrphans'
  BY <1>1, RoundIs DEF FleetInv, NoOrphans, Open
<1> QED BY <1>2, <1>3, <1>4, <1>5

LEMMA KeptInv ==
  ASSUME FleetInv, NEW n \in Names, KeptPrevious(n)
  PROVE  FleetInv'
<1>1. /\ Fixed /\ flags' = flags /\ round.pc = "list" /\ n \in round.todo /\ flags \in FlagType
      /\ Answered(n, n \in round.previous)
  BY RoundIs DEF KeptPrevious, tables, histories, Fixed
<1>2. (n \in round.previous) \in BOOLEAN
  OBVIOUS
<1>3. round' \in RoundType /\ round'.pc = "list" /\ round'.want = round.want /\ round'.unmeasured = round.unmeasured
  BY <1>1, <1>2, AnsweredFields
<1>4. \A m : Known(m)' <=> Known(m)
  BY <1>1 DEF Known, Fixed
<1>5. Beginning' /\ CallsTell' /\ PlanTells' /\ DialTells' /\ FleetTells' /\ ListTells' /\ NoOrphans'
  BY <1>1, <1>2, <1>4, AnsweredInv DEF Fixed
<1>6. /\ TypeOK' /\ Ending' /\ ConnsTell' /\ OneProcessEach' /\ SuspendedServesNothing' /\ RoutesAreServable'
  BY <1>1, <1>3, FixedAside
<1>7. HealthTells'
  BY <1>1, <1>3 DEF FleetInv, Fixed, HealthTells, Known, Alive, Rebuilding
<1> QED BY <1>5, <1>6, <1>7 DEF FleetInv

LEMMA FoundGoneInv ==
  ASSUME FleetInv, NEW n \in Names, NEW routed \in BOOLEAN, FoundGone(n, routed)
  PROVE  FleetInv'
<1>1. /\ UNCHANGED <<procs, owner, conns, dialed, unlisted, routes, listing, flags, closing, calls,
                     observed, redialled>>
      /\ round.pc = "list" /\ n \in round.todo /\ procs[round.live[n]] # "up" /\ TypeOK
      /\ gone' = GoneMarked(n, round.live[n]) /\ health' = GoneHealth(n, round.live[n])
      /\ Answered(n, routed)
  BY DEF FoundGone, histories, FleetInv
<1>2. /\ round' \in RoundType /\ round'.pc = "list" /\ round'.want = round.want
      /\ round'.unmeasured = round.unmeasured /\ round.live[n] \in Procs
  BY <1>1, AnsweredFields
<1>3. procs[round.live[n]] \in {"dead", "closed"}
  BY <1>1, <1>2 DEF FleetInv, ListTells, TypeOK
<1>4. /\ Ending' /\ ConnsTell' /\ HealthTells' /\ OneProcessEach' /\ SuspendedServesNothing'
      /\ RoutesAreServable' /\ \A m : Known(m)' <=> Known(m)
      /\ gone' \in [Names -> Procs \cup {None}] /\ health' \in [Names -> {"unknown", "live", "down"}]
  BY <1>1, <1>2, <1>3, MarkInv
<1>5. Beginning' /\ CallsTell' /\ PlanTells' /\ DialTells' /\ FleetTells' /\ ListTells' /\ NoOrphans'
  BY <1>1, <1>4, AnsweredInv
<1>6. TypeOK'
  BY <1>1, <1>2, <1>4 DEF TypeOK, RoundType
<1> QED BY <1>4, <1>5, <1>6 DEF FleetInv

LEMMA ListedInv ==
  ASSUME FleetInv, NEW n \in Names, NEW routed \in BOOLEAN, Listed(n, routed)
  PROVE  FleetInv'
<1> DEFINE up == round.live[n]
<1>1. /\ UNCHANGED <<procs, owner, conns, dialed, gone, routes, flags, closing, calls, redialled>>
      /\ round.pc = "list" /\ n \in round.todo /\ TypeOK
      /\ listing' = listing \cup {n} /\ observed' = observed \cup {up}
      /\ unlisted' = IF unlisted[n] = up THEN [unlisted EXCEPT ![n] = None] ELSE unlisted
      /\ health' = IF unlisted[n] = up /\ Known(n) /\ gone[n] # up
                   THEN [health EXCEPT ![n] = "live"] ELSE health
      /\ Answered(n, routed)
  BY DEF Listed, FleetInv
<1>2. /\ round' \in RoundType /\ round'.pc = "list" /\ round'.want = round.want
      /\ round'.unmeasured = round.unmeasured /\ up \in Procs /\ up # None
  BY <1>1, AnsweredFields, NoneAssumption
<1> HIDE DEF up
<1>3. /\ unlisted' \in [Names -> Procs \cup {None}]
      /\ \A m \in Names : m # n => unlisted'[m] = unlisted[m]
      /\ unlisted'[n] = IF unlisted[n] = up THEN None ELSE unlisted[n]
  BY <1>1 DEF TypeOK
<1>4. /\ health' \in [Names -> {"unknown", "live", "down"}]
      /\ \A m \in Names : m # n => health'[m] = health[m]
      /\ health'[n] = IF unlisted[n] = up /\ Known(n) /\ gone[n] # up THEN "live" ELSE health[n]
      /\ \A m : Known(m)' <=> Known(m)
  <2>1. CASE unlisted[n] = up /\ Known(n) /\ gone[n] # up
    <3>1. health' = [health EXCEPT ![n] = "live"]
      BY <1>1, <2>1
    <3> QED BY <1>1, <2>1, <3>1 DEF TypeOK, Known
  <2>2. CASE ~(unlisted[n] = up /\ Known(n) /\ gone[n] # up)
    BY <1>1, <2>2 DEF TypeOK, Known
  <2> QED BY <2>1, <2>2
<1>5. Beginning' /\ CallsTell' /\ PlanTells' /\ DialTells' /\ FleetTells' /\ ListTells' /\ NoOrphans'
  BY <1>1, <1>4, AnsweredInv
<1>6. TypeOK'
  <2>1. listing' \subseteq Names /\ observed' \subseteq Procs
    BY <1>1, <1>2 DEF TypeOK
  <2> QED BY <1>1, <1>2, <1>3, <1>4, <2>1 DEF TypeOK, RoundType
<1>7. Ending' /\ OneProcessEach' /\ SuspendedServesNothing' /\ RoutesAreServable'
  BY <1>1, <1>4 DEF FleetInv, Ending, OneProcessEach, Open, SuspendedServesNothing, RoutesAreServable
<1>8. ConnsTell'
  BY <1>1, <1>3 DEF FleetInv, ConnsTell
<1>9. HealthTells'
  <2>1. \A m \in Names : m # n => (Alive(m)' <=> Alive(m))
    BY <1>1, <1>3 DEF Alive
  <2>2. ASSUME ~flags.closed, Known(n) PROVE health'[n] = "live" <=> Alive(n)'
    <3>1. health[n] = "live" <=> Alive(n)
      BY <1>1, <2>2 DEF FleetInv, HealthTells, Rebuilding
    <3>2. unlisted[n] # None => unlisted[n] = conns[n]
      BY <2>2 DEF FleetInv, ConnsTell
    <3>3. CASE unlisted[n] = up
      <4>1. conns[n] = up /\ conns'[n] = up /\ unlisted'[n] = None /\ gone'[n] = gone[n]
        BY <1>1, <1>2, <1>3, <3>2, <3>3
      <4> QED BY <1>2, <1>4, <2>2, <3>1, <3>3, <4>1 DEF Alive
    <3>4. CASE unlisted[n] # up
      <4>1. Alive(n)' <=> Alive(n)
        BY <1>1, <1>3, <3>4 DEF Alive
      <4> QED BY <1>4, <3>1, <3>4, <4>1
    <3> QED BY <3>3, <3>4
  <2> QED BY <1>1, <1>2, <1>4, <2>1, <2>2 DEF FleetInv, HealthTells, Rebuilding
<1> QED BY <1>5, <1>6, <1>7, <1>8, <1>9 DEF FleetInv

(* swapRoutes: what is installed was wanted when it was listed, and a      *)
(* table is installed only over a confirmed registry.                      *)
LEMMA SwapInv ==
  ASSUME FleetInv, NEW table \in SUBSET Names, SwapRoutes(table)
  PROVE  FleetInv'
<1>1. /\ UNCHANGED <<procs, owner, conns, dialed, gone, unlisted, listing, health, closing, calls,
                     observed, redialled>>
      /\ round.pc = "list" /\ table \subseteq round.candidates \cup StableRoutes
      /\ round \in RoundType /\ flags \in FlagType /\ round.going = {} /\ round.added = NoNames
  BY RoundIs DEF SwapRoutes, histories
<1>2. CASE flags.closed
  <2>1. Fixed /\ flags' = flags /\ round' = [Resting EXCEPT !.pc = "stop"]
    BY <1>1, <1>2 DEF SwapRoutes, Stop, Fixed
  <2> QED BY <1>1, <2>1, RestingFields, BareRound DEF Rebuilding
<1>3. CASE ~flags.closed /\ ~flags.confirmed
  <2>1. Fixed /\ flags' = flags /\ round' = Resting
    BY <1>1, <1>3 DEF SwapRoutes, Fixed
  <2> QED BY <1>1, <2>1, RestFields, BareRound DEF Rebuilding
<1>4. CASE ~flags.closed /\ flags.confirmed
  <2>1. routes' = table /\ flags' = [flags EXCEPT !.suspended = FALSE] /\ round' = Resting
    BY <1>4 DEF SwapRoutes
  <2>2. /\ round' \in RoundType /\ round'.pc = "rest" /\ round'.going = {} /\ round'.added = NoNames
        /\ flags' \in FlagType /\ flags'.closed = flags.closed /\ flags'.suspended = FALSE
    BY <1>1, <2>1, RestFields DEF FlagType
  <2>3. \A n \in Names : round'.added[n] = None
    BY <2>2 DEF NoNames
  <2>4. TypeOK'
    <3>1. TypeOK
      BY DEF FleetInv
    <3> QED BY <1>1, <2>1, <2>2, <3>1 DEF TypeOK, RoundType, CallType, FlagType
  <2>5. Beginning' /\ Ending' /\ ConnsTell' /\ CallsTell'
    BY <1>1, <1>4, <2>2 DEF FleetInv, Beginning, Ending, ConnsTell, CallsTell
  <2>6. PlanTells' /\ DialTells' /\ FleetTells' /\ ListTells'
    BY <2>2, <2>3 DEF PlanTells, DialTells, FleetTells, ListTells, Planning, Reading
  <2>7. HealthTells'
    BY <1>1, <2>2 DEF FleetInv, HealthTells, Known, Alive, Rebuilding
  <2>8. NoOrphans' /\ OneProcessEach' /\ SuspendedServesNothing'
    BY <1>1, <2>2 DEF FleetInv, NoOrphans, OneProcessEach, Open, SuspendedServesNothing
  <2>9. RoutesAreServable'
    BY <1>1, <2>1 DEF FleetInv, RoutesAreServable, ListTells, StableRoutes, Known
  <2> QED BY <2>4, <2>5, <2>6, <2>7, <2>8, <2>9 DEF FleetInv
<1> QED BY <1>2, <1>3, <1>4

-----------------------------------------------------------------------------
(* Redial, Close, the calls and the processes.                             *)

LEMMA RedialInv ==
  ASSUME FleetInv, NEW n \in Names, Redial(n)
  PROVE  FleetInv'
<1>1. /\ UNCHANGED <<procs, owner, conns, dialed, unlisted, routes, listing, flags, round, closing,
                     calls, observed>>
      /\ round.pc = "rest" /\ conns[n] # None /\ TypeOK
      /\ gone' = [gone EXCEPT ![n] = conns[n]] /\ redialled' = redialled \cup {conns[n]}
      /\ health' = IF Known(n) THEN [health EXCEPT ![n] = "down"] ELSE health
  BY DEF Redial, FleetInv
<1>2. PICK up \in Procs : up = conns[n]
  BY <1>1 DEF TypeOK
<1>3. /\ gone' = GoneMarked(n, up) /\ health' = GoneHealth(n, up) /\ up \in redialled'
      /\ redialled \subseteq redialled' /\ redialled' \subseteq Procs
  BY <1>1, <1>2 DEF GoneMarked, GoneHealth, TypeOK
<1>4. /\ Ending' /\ ConnsTell' /\ HealthTells' /\ OneProcessEach' /\ SuspendedServesNothing'
      /\ RoutesAreServable' /\ \A m : Known(m)' <=> Known(m)
      /\ gone' \in [Names -> Procs \cup {None}] /\ health' \in [Names -> {"unknown", "live", "down"}]
  BY <1>1, <1>3, MarkInv
<1>5. TypeOK'
  BY <1>1, <1>3, <1>4 DEF TypeOK
<1>6. Beginning' /\ CallsTell' /\ NoOrphans'
  BY <1>1 DEF FleetInv, Beginning, CallsTell, NoOrphans, Open
<1>7. PlanTells' /\ DialTells' /\ FleetTells' /\ ListTells'
  BY <1>1, RoundIs DEF FleetInv, PlanTells, DialTells, FleetTells, ListTells, Planning, Reading
<1> QED BY <1>4, <1>5, <1>6, <1>7 DEF FleetInv

LEMMA CloseInv ==
  ASSUME FleetInv, Close
  PROVE  FleetInv'
<1>1. /\ UNCHANGED <<procs, owner, unlisted, listing, health, round, calls, observed, redialled>>
      /\ round.pc # "boot" /\ ~flags.closed /\ TypeOK /\ flags \in FlagType
      /\ flags' = [flags EXCEPT !.closed = TRUE] /\ closing' = Held(conns)
      /\ conns' = NoNames /\ dialed' = NoNames /\ gone' = NoNames /\ routes' = {}
  BY RoundIs DEF Close, FleetInv, histories
<1>2. flags' \in FlagType /\ flags'.closed /\ flags'.suspended = flags.suspended
  BY <1>1 DEF FlagType
<1>3. \A n \in Names : conns'[n] = None /\ gone'[n] = None
  BY <1>1 DEF NoNames
<1>4. TypeOK'
  <2>1. closing' \subseteq Procs
    BY <1>1 DEF TypeOK, Held
  <2>2. /\ conns' \in [Names -> Procs \cup {None}] /\ dialed' \in [Names -> Entries \cup {None}]
        /\ gone' \in [Names -> Procs \cup {None}]
    BY <1>1 DEF NoNames
  <2> QED BY <1>1, <1>2, <2>1, <2>2 DEF TypeOK, FlagType
<1>5. Beginning' /\ Ending' /\ ConnsTell' /\ CallsTell' /\ OneProcessEach' /\ SuspendedServesNothing'
      /\ RoutesAreServable'
  BY <1>1, <1>2, <1>3 DEF FleetInv, Beginning, Ending, ConnsTell, CallsTell, OneProcessEach,
                         SuspendedServesNothing, RoutesAreServable
<1>6. PlanTells'
  <2>1. \A n, p : Reason(n, p)' <=> Reason(n, p)
    BY <1>1 DEF Reason, SpecChanged
  <2>2. \A n : Unwanted(n)' <=> Unwanted(n)
    BY <1>1 DEF Unwanted
  <2>3. \A x, y : SpecChanged(x, y)' <=> SpecChanged(x, y)
    BY DEF SpecChanged
  <2> QED BY <1>1, <1>2, <2>1, <2>2, <2>3 DEF FleetInv, PlanTells
<1>7. DialTells' /\ FleetTells' /\ ListTells'
  BY <1>1, <1>2, <1>3 DEF FleetInv, DialTells, FleetTells, ListTells, Known
<1>8. HealthTells'
  BY <1>1, <1>2, <1>3 DEF HealthTells
<1>9. NoOrphans'
  <2>1. closing = {}
    BY <1>1 DEF FleetInv, Ending
  <2> QED BY <1>1, <1>2, <2>1 DEF FleetInv, NoOrphans, Open
<1> QED BY <1>4, <1>5, <1>6, <1>7, <1>8, <1>9 DEF FleetInv

(* A step that only closes or kills processes.                             *)
LEMMA ProcsFall ==
  ASSUME FleetInv, UNCHANGED <<owner, conns, dialed, gone, unlisted, routes, listing, health, flags,
                               round, calls, observed, redialled>>,
         procs' \in [Procs -> {"unborn", "up", "dead", "closed"}],
         \A p \in Procs : \/ procs'[p] = procs[p] \/ procs'[p] = "closed"
                          \/ procs[p] = "up" /\ procs'[p] = "dead",
         closing' \subseteq closing,
         \A p \in closing : p \in closing' \/ procs'[p] = "closed"
  PROVE  FleetInv'
<1>0. TypeOK
  BY DEF FleetInv
<1>1. TypeOK'
  BY <1>0 DEF TypeOK
<1>2. Beginning' /\ Ending' /\ SuspendedServesNothing' /\ RoutesAreServable' /\ HealthTells'
  BY DEF FleetInv, Beginning, Ending, SuspendedServesNothing, RoutesAreServable, HealthTells, Known, Alive
<1>3. ConnsTell'
  BY <1>0 DEF FleetInv, ConnsTell, TypeOK
<1>4. CallsTell'
  <2>1. \A c \in Calls : calls[c].up \in Procs \cup {None}
    BY <1>0 DEF TypeOK
  <2> QED BY <2>1 DEF FleetInv, CallsTell
<1>5. PlanTells'
  <2>0. round \in RoundType
    BY RoundIs
  <2>1. \A n, p : p \in Procs /\ Reason(n, p) => Reason(n, p)'
    BY DEF Reason, SpecChanged
  <2>2. \A n : Unwanted(n)' <=> Unwanted(n)
    BY DEF Unwanted
  <2>3. \A n \in Names : round.live[n] # None => round.live[n] \in Procs
    BY <2>0 DEF RoundType
  <2>4. round.remove \subseteq Names /\ round.going \subseteq Procs
    BY <2>0 DEF RoundType
  <2>5. round.pc = "retire" => \A n \in round.remove : round.live[n] # None /\ Reason(n, round.live[n])'
    BY <2>1, <2>3, <2>4 DEF FleetInv, PlanTells
  <2>6. \A p \in round.going : owner[p] # None /\ procs'[p] # "unborn" /\ Reason(owner[p], p)'
    BY <2>1, <2>4 DEF FleetInv, PlanTells
  <2> QED BY <2>2, <2>5, <2>6 DEF FleetInv, PlanTells, SpecChanged
<1>6. DialTells'
  <2>0. round \in RoundType
    BY RoundIs
  <2>1. \A n \in Names : round.added[n] # None => round.added[n] \in Procs
    BY <2>0 DEF RoundType
  <2> QED BY <2>1 DEF FleetInv, DialTells
<1>7. FleetTells' /\ ListTells'
  <2>0. round \in RoundType
    BY RoundIs
  <2>1. \A n \in round.todo : round.live[n] # None => round.live[n] \in Procs
    BY <2>0 DEF RoundType
  <2> QED BY <2>1 DEF FleetInv, FleetTells, Unwanted, ListTells, Known
<1>8. \A p \in Procs : Open(p)' => Open(p)
  BY <1>0 DEF Open, TypeOK
<1>9. OneProcessEach'
  BY <1>8 DEF FleetInv, OneProcessEach
<1>10. NoOrphans'
  <2>1. \A p \in closing : Open(p)' => p \in closing'
    BY DEF Open
  <2> QED BY <1>8, <2>1 DEF FleetInv, NoOrphans
<1> QED BY <1>1, <1>2, <1>3, <1>4, <1>5, <1>6, <1>7, <1>9, <1>10 DEF FleetInv

LEMMA CloseAllInv ==
  ASSUME FleetInv, CloseAll
  PROVE  FleetInv'
<1>1. /\ UNCHANGED <<owner, conns, dialed, gone, unlisted, routes, listing, health, flags, round,
                     calls, observed, redialled>>
      /\ procs' = [p \in Procs |-> IF p \in closing THEN "closed" ELSE procs[p]]
      /\ closing' = {} /\ TypeOK
  BY DEF CloseAll, tables, histories, FleetInv
<1>2. procs \in [Procs -> {"unborn", "up", "dead", "closed"}] /\ closing \subseteq Procs
  BY <1>1 DEF TypeOK
<1> QED BY <1>1, <1>2, ProcsFall

LEMMA ProcessDiesInv ==
  ASSUME FleetInv, NEW p \in Procs, ProcessDies(p)
  PROVE  FleetInv'
<1>1. /\ UNCHANGED <<owner, conns, dialed, gone, unlisted, routes, listing, health, flags, round,
                     closing, calls, observed, redialled>>
      /\ procs[p] = "up" /\ procs' = [procs EXCEPT ![p] = "dead"] /\ TypeOK
  BY DEF ProcessDies, tables, histories, FleetInv
<1>2. procs \in [Procs -> {"unborn", "up", "dead", "closed"}]
  BY <1>1 DEF TypeOK
<1>3. /\ procs' \in [Procs -> {"unborn", "up", "dead", "closed"}]
      /\ \A q \in Procs : \/ procs'[q] = procs[q] \/ procs'[q] = "closed"
                          \/ procs[q] = "up" /\ procs'[q] = "dead"
  BY <1>1, <1>2
<1> QED BY <1>1, <1>3, ProcsFall

(* A call that looks up, is refused or answered touches nothing but itself. *)
LEMMA CallInv ==
  ASSUME FleetInv, NEW c \in Calls,
         (\E n \in Names : Lookup(c, n)) \/ CheckAvailability(c) \/ CallReturns(c)
  PROVE  FleetInv'
<1>1. /\ UNCHANGED <<procs, owner, conns, dialed, gone, unlisted, routes, listing, health, flags,
                     round, closing, observed, redialled>>
      /\ TypeOK
  BY DEF Lookup, CheckAvailability, CallReturns, tables, histories, FleetInv
<1>2. Idle \in CallType /\ Idle.up = None /\ Idle.pc = "idle"
  BY DEF Idle, CallType
<1>3. PICK k \in CallType :
        /\ calls' = [calls EXCEPT ![c] = k]
        /\ k.up # None => procs[k.up] # "unborn"
        /\ k.pc # "idle" => k.name # None
        /\ k.pc = "calling" => k.up # None
  <2>1. ASSUME NEW n \in Names, Lookup(c, n)
        PROVE  \E k \in CallType : /\ calls' = [calls EXCEPT ![c] = k]
                                   /\ k.up # None => procs[k.up] # "unborn"
                                   /\ k.pc # "idle" => k.name # None
                                   /\ k.pc = "calling" => k.up # None
    <3> DEFINE k == [pc |-> "looked", name |-> n, up |-> conns[n]]
    <3>1. calls' = [calls EXCEPT ![c] = k]
      BY <2>1 DEF Lookup
    <3>2. k \in CallType /\ k.up = conns[n] /\ k.pc = "looked" /\ k.name = n
      BY <1>1 DEF CallType, TypeOK
    <3>3. n # None /\ (conns[n] # None => procs[conns[n]] # "unborn")
      BY NoneAssumption DEF FleetInv, ConnsTell
    <3> HIDE DEF k
    <3> QED BY <3>1, <3>2, <3>3
  <2>2. ASSUME CheckAvailability(c)
        PROVE  \E k \in CallType : /\ calls' = [calls EXCEPT ![c] = k]
                                   /\ k.up # None => procs[k.up] # "unborn"
                                   /\ k.pc # "idle" => k.name # None
                                   /\ k.pc = "calling" => k.up # None
    <3>0. CASE calls' = [calls EXCEPT ![c] = Idle]
      BY <1>2, <3>0
    <3> SUFFICES ASSUME calls' = [calls EXCEPT ![c] = IF Available(calls[c].name, calls[c].up)
                                           THEN [calls[c] EXCEPT !.pc = "calling"] ELSE Idle]
                 PROVE  \E k \in CallType : /\ calls' = [calls EXCEPT ![c] = k]
                                            /\ k.up # None => procs[k.up] # "unborn"
                                            /\ k.pc # "idle" => k.name # None
                                            /\ k.pc = "calling" => k.up # None
      BY <1>1, <2>2, <3>0 DEF CheckAvailability, TypeOK
    <3>1. /\ calls[c].pc = "looked" /\ calls[c] \in CallType
          /\ calls' = [calls EXCEPT ![c] = IF Available(calls[c].name, calls[c].up)
                                           THEN [calls[c] EXCEPT !.pc = "calling"] ELSE Idle]
      BY <1>1, <2>2 DEF CheckAvailability, TypeOK, CallType
    <3>2. CASE Available(calls[c].name, calls[c].up)
      <4> DEFINE k == [calls[c] EXCEPT !.pc = "calling"]
      <4>1. calls' = [calls EXCEPT ![c] = k]
        BY <3>1, <3>2
      <4>2. k \in CallType /\ k.pc = "calling" /\ k.up = calls[c].up /\ k.name = calls[c].name
        BY <3>1 DEF CallType
      <4>3. calls[c].up # None /\ procs[calls[c].up] # "unborn" /\ calls[c].name # None
        BY <3>1, <3>2 DEF FleetInv, CallsTell, Available
      <4> HIDE DEF k
      <4> QED BY <4>1, <4>2, <4>3
    <3>3. CASE ~Available(calls[c].name, calls[c].up)
      BY <1>2, <3>1, <3>3
    <3> QED BY <3>2, <3>3
  <2>3. CASE CallReturns(c)
    BY <1>2, <2>3 DEF CallReturns
  <2> QED BY <2>1, <2>2, <2>3
<1>4. /\ calls' \in [Calls -> CallType] /\ calls'[c] = k
      /\ \A d \in Calls : d # c => calls'[d] = calls[d]
  BY <1>1, <1>3 DEF TypeOK, CallType
<1>5. TypeOK'
  BY <1>1, <1>4 DEF TypeOK, CallType
<1>6. CallsTell'
  BY <1>1, <1>3, <1>4 DEF FleetInv, CallsTell
<1>7. Beginning'
  <2>1. ASSUME round.pc = "boot" PROVE calls' = calls
    <3>1. calls[c] = Idle
      BY <2>1 DEF FleetInv, Beginning
    <3>2. ~ \E n \in Names : Lookup(c, n)
      <4>1. routes = {}
        BY <2>1 DEF FleetInv, Beginning
      <4> QED BY <4>1 DEF Lookup
    <3> QED BY <1>2, <3>1, <3>2 DEF CheckAvailability, CallReturns
  <2> QED BY <1>1, <2>1 DEF FleetInv, Beginning
<1>8. Ending' /\ ConnsTell' /\ OneProcessEach' /\ SuspendedServesNothing' /\ RoutesAreServable' /\ NoOrphans'
      /\ HealthTells'
  BY <1>1 DEF FleetInv, Ending, ConnsTell, OneProcessEach, Open, SuspendedServesNothing,
              RoutesAreServable, Known, NoOrphans, HealthTells, Alive
<1>9. PlanTells' /\ DialTells' /\ FleetTells' /\ ListTells'
  <2>1. \A n, p : Reason(n, p)' <=> Reason(n, p)
    BY <1>1 DEF Reason, SpecChanged
  <2> QED BY <1>1, <2>1 DEF FleetInv, PlanTells, DialTells, FleetTells, ListTells, Unwanted, Known, SpecChanged
<1> QED BY <1>5, <1>6, <1>7, <1>8, <1>9 DEF FleetInv

LEMMA CallFindsGoneInv ==
  ASSUME FleetInv, NEW c \in Calls, CallFindsGone(c)
  PROVE  FleetInv'
<1>1. /\ UNCHANGED <<procs, owner, conns, dialed, unlisted, routes, listing, flags, round, closing,
                     observed, redialled>>
      /\ calls[c].pc = "calling" /\ procs[calls[c].up] # "up" /\ TypeOK
      /\ gone' = GoneMarked(calls[c].name, calls[c].up) /\ health' = GoneHealth(calls[c].name, calls[c].up)
      /\ calls' = [calls EXCEPT ![c] = Idle]
  BY DEF CallFindsGone, histories, FleetInv
<1>2. calls[c].name \in Names /\ calls[c].up \in Procs /\ procs[calls[c].up] \in {"dead", "closed"}
  <2>1. calls[c].name # None /\ calls[c].up # None /\ procs[calls[c].up] # "unborn"
    BY <1>1 DEF FleetInv, CallsTell
  <2> QED BY <1>1, <2>1 DEF TypeOK
<1>3. PICK n \in Names : n = calls[c].name
  BY <1>2
<1>4. PICK up \in Procs : up = calls[c].up
  BY <1>2
<1>5. /\ Ending' /\ ConnsTell' /\ HealthTells' /\ OneProcessEach' /\ SuspendedServesNothing'
      /\ RoutesAreServable' /\ \A m : Known(m)' <=> Known(m)
      /\ gone' \in [Names -> Procs \cup {None}] /\ health' \in [Names -> {"unknown", "live", "down"}]
  <2>1. gone' = GoneMarked(n, up) /\ health' = GoneHealth(n, up) /\ procs[up] \in {"dead", "closed"}
    BY <1>1, <1>2, <1>3, <1>4
  <2> QED BY <1>1, <2>1, MarkInv
<1>6. Idle \in CallType /\ Idle.up = None /\ Idle.pc = "idle"
  BY DEF Idle, CallType
<1>7. /\ calls' \in [Calls -> CallType] /\ calls'[c] = Idle
      /\ \A d \in Calls : d # c => calls'[d] = calls[d]
  BY <1>1, <1>6 DEF TypeOK, CallType
<1>8. TypeOK'
  BY <1>1, <1>5, <1>7 DEF TypeOK, CallType
<1>9. CallsTell'
  BY <1>1, <1>6, <1>7 DEF FleetInv, CallsTell
<1>10. round.pc # "boot"
  BY <1>1, <1>6 DEF FleetInv, Beginning
<1>11. Beginning' /\ NoOrphans'
  BY <1>1, <1>10 DEF Beginning, FleetInv, NoOrphans, Open
<1>12. PlanTells' /\ DialTells' /\ FleetTells' /\ ListTells'
  <2>1. \A m, p : Reason(m, p)' <=> Reason(m, p)
    BY <1>1 DEF Reason, SpecChanged
  <2> QED BY <1>1, <1>5, <2>1 DEF FleetInv, PlanTells, DialTells, FleetTells, ListTells, Unwanted, SpecChanged
<1> QED BY <1>5, <1>8, <1>9, <1>11, <1>12 DEF FleetInv

-----------------------------------------------------------------------------
(* Connect: each upstream that came up has its own process, and so each    *)
(* process its own upstream.                                               *)
LEMMA BootInv ==
  ASSUME FleetInv, Boot
  PROVE  FleetInv'
<1>1. PICK want \in Contents, up \in SUBSET Names, assign \in [Names -> Procs] :
        /\ \A m, n \in up : m # n => assign[m] # assign[n]
        /\ Connect(want, up, assign)
  BY DEF Boot
<1>2. /\ UNCHANGED <<gone, unlisted, closing, calls, redialled>>
      /\ round.pc = "boot" /\ TypeOK /\ flags \in FlagType /\ \A n \in up : n \in Names /\ want[n] # None
      /\ procs' = [p \in Procs |-> IF \E n \in up : assign[n] = p THEN "up" ELSE "unborn"]
      /\ owner' = [p \in Procs |-> IF \E n \in up : assign[n] = p
                                   THEN CHOOSE n \in up : assign[n] = p ELSE None]
      /\ conns' = [n \in Names |-> IF n \in up THEN assign[n] ELSE None]
      /\ dialed' = [n \in Names |-> IF n \in up THEN want[n] ELSE None]
      /\ routes' \in SUBSET (up \cup ({n \in Names : want[n] # None} \cap listing))
      /\ listing' \in {listing \cup S : S \in SUBSET up}
      /\ observed' = {assign[n] : n \in up}
      /\ health' = [n \in Names |-> IF n \in up THEN "live"
                                    ELSE IF n \in {m \in Names : want[m] # None} THEN "down" ELSE "unknown"]
      /\ flags' = [flags EXCEPT !.confirmed = TRUE] /\ round' = Resting
  BY <1>1, RoundIs DEF Connect, FleetInv
<1>3. /\ round' \in RoundType /\ round'.pc = "rest" /\ round'.going = {} /\ round'.added = NoNames
      /\ flags' \in FlagType /\ flags'.closed = flags.closed /\ flags'.suspended = flags.suspended
  BY <1>2, RestFields DEF FlagType
<1>4. /\ ~flags.closed /\ ~flags.suspended /\ closing = {} /\ \A c \in Calls : calls[c] = Idle
      /\ \A n \in Names : gone[n] = None /\ unlisted[n] = None /\ round'.added[n] = None
  BY <1>2, <1>3 DEF FleetInv, Beginning, Ending, NoNames
<1>5. \A n \in Names : /\ n \in up => conns'[n] = assign[n] /\ assign[n] \in Procs /\ assign[n] # None
                                      /\ health'[n] = "live"
                       /\ n \notin up => conns'[n] = None /\ health'[n] # "live"
                       /\ want[n] # None => health'[n] # "unknown"
  BY <1>2, NoneAssumption
<1>6. ASSUME NEW n \in up PROVE owner'[assign[n]] = n /\ procs'[assign[n]] = "up"
  <2>1. n \in Names /\ assign[n] \in Procs
    BY <1>2
  <2>2. (CHOOSE m \in up : assign[m] = assign[n]) = n
    BY <1>1
  <2> QED BY <1>2, <2>1, <2>2
<1>7. \A p \in Procs : procs'[p] # "unborn" => \E n \in up : assign[n] = p
  BY <1>2
<1>8. TypeOK'
  <2>1. procs' \in [Procs -> {"unborn", "up", "dead", "closed"}]
    BY <1>2
  <2>2. owner' \in [Procs -> Names \cup {None}]
    <3>1. ASSUME NEW p \in Procs
          PROVE  (IF \E n \in up : assign[n] = p THEN CHOOSE n \in up : assign[n] = p ELSE None)
                    \in Names \cup {None}
      <4>1. CASE \E n \in up : assign[n] = p
        <5>1. (CHOOSE n \in up : assign[n] = p) \in up
          BY <4>1
        <5> QED BY <1>2, <4>1, <5>1
      <4>2. CASE ~ \E n \in up : assign[n] = p
        BY <4>2
      <4> QED BY <4>1, <4>2
    <3> QED BY <1>2, <3>1
  <2>3. conns' \in [Names -> Procs \cup {None}] /\ dialed' \in [Names -> Entries \cup {None}]
    BY <1>2 DEF Contents
  <2>4. routes' \subseteq Names /\ listing' \subseteq Names
    BY <1>2 DEF TypeOK
  <2>5. observed' \subseteq Procs
    BY <1>2
  <2>6. health' \in [Names -> {"unknown", "live", "down"}]
    BY <1>2
  <2> QED BY <1>2, <1>3, <2>1, <2>2, <2>3, <2>4, <2>5, <2>6 DEF TypeOK, RoundType, FlagType
<1>9. Beginning' /\ Ending' /\ SuspendedServesNothing'
  BY <1>2, <1>3, <1>4 DEF Beginning, Ending, SuspendedServesNothing
<1>10. ConnsTell'
  <2>1. \A n \in Names : conns'[n] # None => owner'[conns'[n]] = n /\ procs'[conns'[n]] # "unborn"
    BY <1>5, <1>6
  <2> QED BY <1>2, <1>4, <2>1 DEF ConnsTell
<1>11. CallsTell'
  BY <1>2, <1>4 DEF CallsTell, Idle
<1>12. PlanTells' /\ DialTells' /\ FleetTells' /\ ListTells'
  BY <1>3, <1>4 DEF PlanTells, DialTells, FleetTells, ListTells, Planning, Reading
<1>13. HealthTells'
  BY <1>2, <1>4, <1>5 DEF HealthTells, Known, Alive
<1>14. NoOrphans'
  <2> SUFFICES ASSUME NEW p \in Procs, Open(p)' PROVE p \in Held(conns)'
    BY <1>3, <1>4 DEF NoOrphans
  <2>1. PICK n \in up : assign[n] = p
    BY <1>7 DEF Open
  <2> QED BY <1>2, <1>5, <2>1 DEF Held
<1>15. OneProcessEach'
  <2> SUFFICES ASSUME NEW p \in Procs, NEW q \in Procs, Open(p)', Open(q)', owner'[p] = owner'[q]
               PROVE  p = q
    BY DEF OneProcessEach
  <2>1. PICK m \in up : assign[m] = p
    BY <1>7 DEF Open
  <2>2. PICK n \in up : assign[n] = q
    BY <1>7 DEF Open
  <2> QED BY <1>6, <2>1, <2>2
<1>16. RoutesAreServable'
  BY <1>2, <1>5 DEF RoutesAreServable, Known
<1> QED
  BY <1>8, <1>9, <1>10, <1>11, <1>12, <1>13, <1>14, <1>15, <1>16 DEF FleetInv

-----------------------------------------------------------------------------
(* The theorems.                                                           *)

LEMMA StutterInv ==
  ASSUME FleetInv, UNCHANGED vars
  PROVE  FleetInv'
<1>1. \A n, p : Reason(n, p)' <=> Reason(n, p)
  BY DEF vars, Reason, SpecChanged
<1>2. TypeOK' /\ Beginning' /\ Ending' /\ ConnsTell' /\ CallsTell'
  BY DEF FleetInv, vars, TypeOK, Beginning, Ending, ConnsTell, CallsTell
<1>3. PlanTells' /\ DialTells' /\ FleetTells' /\ ListTells'
  BY <1>1 DEF FleetInv, vars, PlanTells, DialTells, FleetTells, ListTells, Unwanted, Known, SpecChanged
<1>4. HealthTells' /\ NoOrphans' /\ OneProcessEach' /\ SuspendedServesNothing' /\ RoutesAreServable'
  BY DEF FleetInv, vars, HealthTells, NoOrphans, OneProcessEach, Open, SuspendedServesNothing,
         RoutesAreServable, Known, Alive
<1> QED BY <1>2, <1>3, <1>4 DEF FleetInv

LEMMA NextInv ==
  ASSUME FleetInv, [Next]_vars
  PROVE  FleetInv'
<1>1. ASSUME NEW p \in Procs, ProcessDies(p) PROVE FleetInv'
  BY <1>1, ProcessDiesInv
<1>2. CASE Boot
  BY <1>2, BootInv
<1>3. CASE BeginRound \/ ReadTimedOut \/ Suspend \/ ReadAny
  BY <1>3, BeginRoundInv, ReadInv, SuspendInv
<1>4. CASE RoundStep
  <2>1. CASE FleetSnapshot \/ PlanRound \/ Retire \/ CloseRetired
    BY <2>1, SnapshotInv, PlanInv, RetireInv, CloseRetiredInv
  <2>2. CASE Confirm \/ Adopt \/ SettleHealth \/ BeginRefresh
    BY <2>2, DialEndsInv, AdoptInv, SettleInv, BeginRefreshInv
  <2>3. ASSUME NEW n \in Names, NEW p \in Procs, DialSucceeds(n, p) PROVE FleetInv'
    BY <2>3, DialSucceedsInv
  <2>4. ASSUME NEW n \in Names, DialFails(n) PROVE FleetInv'
    BY <2>4, DialEndsInv
  <2>5. ASSUME NEW n \in Names, NEW routed \in BOOLEAN, Listed(n, routed) \/ FoundGone(n, routed)
        PROVE  FleetInv'
    BY <2>5, ListedInv, FoundGoneInv
  <2>6. ASSUME NEW n \in Names, KeptPrevious(n) PROVE FleetInv'
    BY <2>6, KeptInv
  <2>7. ASSUME NEW table \in SUBSET Names, SwapRoutes(table) PROVE FleetInv'
    BY <2>7, SwapInv
  <2> QED BY <1>4, <2>1, <2>2, <2>3, <2>4, <2>5, <2>6, <2>7 DEF RoundStep
<1>5. ASSUME NEW n \in Names, Redial(n) PROVE FleetInv'
  BY <1>5, RedialInv
<1>6. CASE Close \/ CloseAll
  BY <1>6, CloseInv, CloseAllInv
<1>7. ASSUME NEW c \in Calls, CallStep(c) PROVE FleetInv'
  BY <1>7, CallInv, CallFindsGoneInv DEF CallStep
<1>8. CASE UNCHANGED vars
  BY <1>8, StutterInv
<1> QED BY <1>1, <1>2, <1>3, <1>4, <1>5, <1>6, <1>7, <1>8 DEF Next, Loop

(* The inductive invariant holds of every run of the fleet: the tables,    *)
(* the locals of the round, the calls in flight and the processes agree    *)
(* after every critical section of Connect, Reconcile, Refresh, Redial,    *)
(* Close and a call.                                                       *)
THEOREM FleetInvAlways == Spec => []FleetInv
BY InitInv, NextInv, PTL DEF Spec

(* No process is leaked and no upstream has two, however rounds, redials,  *)
(* deaths, calls and Close interleave (adopt, retire, Close).              *)
THEOREM ProcessesAlwaysAccounted == Spec => []ProcessesAccounted
<1>1. FleetInv => ProcessesAccounted
  BY DEF FleetInv, ProcessesAccounted
<1> QED BY <1>1, FleetInvAlways, PTL

(* A suspended gateway serves nothing, only servable backends are routed,  *)
(* and between rounds the health record is what a call would find          *)
(* (suspend, swapRoutes, retire, markGone, markListed, settleHealth).      *)
THEOREM AlwaysServesWhatItMay == Spec => []ServesWhatItMay
<1>1. FleetInv => ServesWhatItMay
  <2> SUFFICES ASSUME FleetInv PROVE ServesWhatItMay
    OBVIOUS
  <2>1. HealthTellsAvailability
    <3>1. \A n \in Names : Available(n, conns[n]) <=> Alive(n)
      BY DEF Available, Alive
    <3> QED BY <3>1 DEF FleetInv, HealthTells, HealthTellsAvailability, Rebuilding
  <2> QED BY <2>1 DEF FleetInv, ServesWhatItMay
<1> QED BY <1>1, FleetInvAlways, PTL

(* When Reconcile settles, what runs was dialed from the specification it  *)
(* read and what it refused does not run (retire, bringUp, adopt).         *)
THEOREM FleetAlwaysMatchesRegistry == Spec => []FleetMatchesRegistry
<1>1. FleetInv => FleetMatchesRegistry
  BY DEF FleetInv, FleetTells, FleetMatchesRegistry
<1> QED BY <1>1, FleetInvAlways, PTL

(* A step that closes a running process is shutdown, or has one of the     *)
(* reasons of the round for it.                                            *)
LEMMA HealthyStep ==
  ASSUME FleetInv, [Next]_vars, NEW p \in Procs, procs[p] = "up", procs'[p] = "closed"
  PROVE  \/ flags.closed
         \/ p \in redialled
         \/ round.want[owner[p]] = None
         \/ SpecChanged(round.was[owner[p]], round.want[owner[p]])
<1>0. procs \in [Procs -> {"unborn", "up", "dead", "closed"}]
  BY DEF FleetInv, TypeOK
<1>1. ASSUME UNCHANGED procs PROVE FALSE
  BY <1>1
<1>2. ASSUME NEW q \in Procs, ProcessDies(q) PROVE FALSE
  BY <1>0, <1>2 DEF ProcessDies
<1>3. ASSUME NEW n \in Names, NEW q \in Procs, DialSucceeds(n, q) PROVE FALSE
  BY <1>0, <1>3 DEF DialSucceeds
<1>4. ASSUME Boot PROVE FALSE
  BY <1>4 DEF Boot, Connect
<1>5. CASE CloseRetired
  <2>1. p \in round.going
    BY <1>5 DEF CloseRetired
  <2>2. Reason(owner[p], p)
    BY <2>1 DEF FleetInv, PlanTells
  <2> QED BY <2>2 DEF Reason
<1>6. CASE Adopt
  BY <1>1, <1>6 DEF Adopt
<1>7. CASE CloseAll
  BY <1>7 DEF CloseAll, FleetInv, Ending
<1>8. CASE BeginRound \/ ReadTimedOut \/ Suspend \/ ReadAny \/ FleetSnapshot \/ PlanRound \/ Retire
  BY <1>1, <1>8 DEF BeginRound, ReadTimedOut, Suspend, ReadAny, ReadRegistry, FleetSnapshot, PlanRound, Retire
<1>9. CASE Confirm \/ SettleHealth \/ BeginRefresh \/ Close \/ UNCHANGED vars
  BY <1>1, <1>9 DEF Confirm, SettleHealth, BeginRefresh, Close, vars
<1>10. ASSUME NEW n \in Names, DialFails(n) \/ KeptPrevious(n) \/ Redial(n) PROVE FALSE
  BY <1>1, <1>10 DEF DialFails, KeptPrevious, Redial
<1>11. ASSUME NEW n \in Names, NEW routed \in BOOLEAN, Listed(n, routed) \/ FoundGone(n, routed) PROVE FALSE
  BY <1>1, <1>11 DEF Listed, FoundGone
<1>12. ASSUME NEW table \in SUBSET Names, SwapRoutes(table) PROVE FALSE
  BY <1>1, <1>12 DEF SwapRoutes
<1>13. ASSUME NEW c \in Calls, CallStep(c) PROVE FALSE
  BY <1>1, <1>13 DEF CallStep, Lookup, CheckAvailability, CallReturns, CallFindsGone
<1> QED
  BY <1>2, <1>3, <1>4, <1>5, <1>6, <1>7, <1>8, <1>9, <1>10, <1>11, <1>12, <1>13 DEF Next, Loop, RoundStep

(* A process that is up is closed only at shutdown, by an operator's       *)
(* redial, or because its entry changed or left the servable set: no late  *)
(* verdict about a replaced connection takes the new one down (markGone,   *)
(* takeGone, retire).                                                      *)
THEOREM HealthyAlwaysKept == Spec => HealthyIsKept
<1>1. FleetInv /\ [Next]_vars =>
        [\A p \in Procs : procs[p] = "up" /\ procs'[p] = "closed" =>
           \/ flags.closed
           \/ p \in redialled
           \/ round.want[owner[p]] = None
           \/ SpecChanged(round.was[owner[p]], round.want[owner[p]])]_vars
  BY HealthyStep
<1> QED BY <1>1, FleetInvAlways, PTL DEF Spec, HealthyIsKept
=============================================================================
