----------------------------- MODULE AuthLimit -----------------------------
(***************************************************************************)
(* Which rejected requests reach the audit trail: the per-source and       *)
(* global token buckets of internal/gateway/authlimit.go, consulted by     *)
(* Gateway.RecordAuthFailure under the gateway's lock.  Time is a counter  *)
(* and rates are whole tokens per tick.                                    *)
(***************************************************************************)
EXTENDS Naturals, FiniteSets, FiniteSetsExt

CONSTANTS Sources,          \* the addresses sourceAddress can return
          MaxNow,           \* bound: ticks
          MaxAttempts,      \* bound: rejected requests
          SourceRate, SourceBurst,      \* authPerSourceRate, authPerSourceBurst
          GlobalRate, GlobalBurst,      \* authGlobalRate, authGlobalBurst
          MarkerWindow,     \* authMarkerWindow
          MaxSources,       \* authMaxSources
          Sample            \* the size of evict's sample

Never == MaxNow + 1         \* the zero time.Time of a bucket's last and marker

ASSUME LimitsAssumption ==
    {MaxNow, MaxAttempts, SourceRate, SourceBurst, GlobalRate, GlobalBurst, MarkerWindow,
     MaxSources, Sample} \subseteq Nat

\* A source that stays away for a marker window comes back to a full bucket.
ASSUME WindowAssumption == SourceBurst <= MarkerWindow * SourceRate

VARIABLES now,          \* g.now()
          sources,      \* authLimiter.sources
          global,       \* authLimiter.global
          globalMarker, \* authLimiter.globalMarker
          dropped,      \* the attempts authLimiter.suppressed counts
          admitted,     \* rows that record an attempt
          sourceMarks,  \* rows that say a source is over its budget
          marks,        \* when, and about whom, a flood row was asked for
          attempts      \* rejected requests so far

limitVars == <<now, sources, global, globalMarker, dropped, admitted, sourceMarks,
               marks, attempts>>

Bucket == [tokens : Nat, last : Nat, seen : Nat, marker : Nat]
NewBucket == [tokens |-> 0, last |-> Never, seen |-> Never, marker |-> Never]

AuthInit ==
    /\ now = 0 /\ attempts = 0
    /\ sources = << >> /\ global = NewBucket /\ globalMarker = Never
    /\ dropped = {} /\ admitted = 0 /\ sourceMarks = 0 /\ marks = {}

----------------------------------------------------------------------------
\* A bucket that goes on filling while it is not used.
FilledUncapped(b, rate, burst) ==
    IF b.last = Never THEN burst ELSE b.tokens + (now - b.last) * rate

\* What a bucket holds once the time since its last use has been credited.
Filled(b, rate, burst) ==
    IF b.last = Never THEN burst
    ELSE Min({burst, b.tokens + (now - b.last) * rate})

HasToken(b, rate, burst) == Filled(b, rate, burst) >= 1

\* A refused take that leaves `last` behind credits the same ticks again.
TakenTwice(b, rate, burst) ==
    LET t == Filled(b, rate, burst) IN
    [b EXCEPT !.tokens = IF t >= 1 THEN t - 1 ELSE t, !.seen = now,
              !.last = IF @ = Never THEN now ELSE @]

Taken(b, rate, burst) ==
    LET t == Filled(b, rate, burst) IN
    [b EXCEPT !.tokens = IF t >= 1 THEN t - 1 ELSE t, !.last = now, !.seen = now]

\* The least recently seen of a sample of the table: a map is walked in any
\* order, so any sample of that size may be the one looked at.
Victims ==
    {v \in DOMAIN sources :
        \E sample \in kSubset(Min({Sample, Cardinality(DOMAIN sources)}), DOMAIN sources) :
            /\ v \in sample
            /\ \A w \in sample : sources[v].seen <= sources[w].seen}

\* The tables a source is looked up in: room is made first when the source is
\* new and the table full.
Evicted(s) ==
    IF s \in DOMAIN sources \/ Cardinality(DOMAIN sources) < MaxSources
    THEN {sources}
    ELSE {[w \in DOMAIN sources \ {v} |-> sources[w]] : v \in Victims}

BucketIn(table, s) == IF s \in DOMAIN table THEN table[s] ELSE NewBucket

\* A table that is still full gives the source no bucket: the global one decides.
Kept(table, s) == s \in DOMAIN table \/ Cardinality(DOMAIN table) < MaxSources

SourceAllows(table, s) ==
    Kept(table, s) => HasToken(BucketIn(table, s), SourceRate, SourceBurst)

Charged(table, s) ==
    IF Kept(table, s)
    THEN [w \in DOMAIN table \union {s} |->
            IF w = s THEN Taken(BucketIn(table, s), SourceRate, SourceBurst) ELSE table[w]]
    ELSE table

MarkerDue(at) == at = Never \/ now - at >= MarkerWindow

Mark(who) == marks' = marks \union {[who |-> who, at |-> now]} /\ UNCHANGED dropped
Drop(s)   == dropped' = dropped \union {[source |-> s, at |-> now]} /\ UNCHANGED marks

\* authAdmit: a row for the attempt itself.
Admit(s, table) ==
    /\ SourceAllows(table, s) /\ HasToken(global, GlobalRate, GlobalBurst)
    /\ sources' = Charged(table, s)
    /\ global' = Taken(global, GlobalRate, GlobalBurst)
    /\ admitted' = admitted + 1
    /\ UNCHANGED <<globalMarker, dropped, sourceMarks, marks>>

\* Refused by its own bucket: one row for the source per window.  The global
\* bucket is not charged.
OverSource(s, table) ==
    LET t   == Charged(table, s)
        due == MarkerDue(t[s].marker)
    IN  /\ ~SourceAllows(table, s)
        /\ sources' = IF due THEN [t EXCEPT ![s].marker = now] ELSE t
        /\ sourceMarks' = IF due THEN sourceMarks + 1 ELSE sourceMarks
        /\ IF due THEN Mark(s) ELSE Drop(s)
        /\ UNCHANGED <<global, globalMarker, admitted>>

\* The first design dropped what the ceiling alone refused.
OverGlobalSilent(s, table) ==
    /\ SourceAllows(table, s) /\ ~HasToken(global, GlobalRate, GlobalBurst)
    /\ sources' = Charged(table, s)
    /\ global' = Taken(global, GlobalRate, GlobalBurst)
    /\ Drop(s)
    /\ UNCHANGED <<globalMarker, admitted, sourceMarks>>

\* The next one asked the source's own marker whichever ceiling refused.
OverGlobalBySource(s, table) ==
    LET t   == Charged(table, s)
        due == MarkerDue(t[s].marker)
    IN  /\ SourceAllows(table, s) /\ ~HasToken(global, GlobalRate, GlobalBurst)
        /\ sources' = IF due THEN [t EXCEPT ![s].marker = now] ELSE t
        /\ sourceMarks' = IF due THEN sourceMarks + 1 ELSE sourceMarks
        /\ global' = Taken(global, GlobalRate, GlobalBurst)
        /\ IF due THEN Mark(s) ELSE Drop(s)
        /\ UNCHANGED <<globalMarker, admitted>>

\* Refused by the ceiling alone: one row per window for all the sources.
OverGlobal(s, table) ==
    /\ SourceAllows(table, s) /\ ~HasToken(global, GlobalRate, GlobalBurst)
    /\ sources' = Charged(table, s)
    /\ global' = Taken(global, GlobalRate, GlobalBurst)
    /\ IF MarkerDue(globalMarker) THEN globalMarker' = now /\ Mark("global")
                                  ELSE Drop(s) /\ UNCHANGED globalMarker
    /\ UNCHANGED <<admitted, sourceMarks>>

\* One rejected request: classified under the lock; the row it asks for is
\* written under a context of its own, and a failed write only logs.
RecordAuthFailure(s) ==
    /\ attempts < MaxAttempts /\ attempts' = attempts + 1 /\ UNCHANGED now
    /\ \E table \in Evicted(s) : Admit(s, table) \/ OverSource(s, table) \/ OverGlobal(s, table)

PassTime ==
    /\ now < MaxNow /\ now' = now + 1
    /\ UNCHANGED <<sources, global, globalMarker, dropped, admitted, sourceMarks, marks, attempts>>

AuthNext == (\E s \in Sources : RecordAuthFailure(s)) \/ PassTime

AuthSpec == AuthInit /\ [][AuthNext]_limitVars

----------------------------------------------------------------------------
(* The table of sources keeps to its bound and every bucket to its burst.  *)
AuthTypeOK ==
    /\ now \in 0 .. MaxNow /\ globalMarker \in 0 .. Never
    /\ DOMAIN sources \subseteq Sources /\ Cardinality(DOMAIN sources) <= MaxSources
    /\ \A s \in DOMAIN sources : sources[s] \in Bucket /\ sources[s].tokens <= SourceBurst
    /\ global \in Bucket /\ global.tokens <= GlobalBurst
    /\ {admitted, sourceMarks, attempts} \subseteq 0 .. MaxAttempts
    /\ dropped \subseteq [source : Sources, at : 0 .. MaxNow]
    /\ marks \subseteq [who : Sources \union {"global"}, at : 0 .. MaxNow]

(* The writer is bounded by the global bucket whatever the number of       *)
(* addresses, evictions included: a source that is thrown out of the table *)
(* starts with a fresh burst, and the rows it gains are still rows the     *)
(* global bucket paid for (classify, take, evict).                         *)
RowsBounded == admitted <= GlobalBurst + GlobalRate * now

(* Suppression is never silent: an attempt without a row falls within a    *)
(* marker window of a flood row for its own source or for the ceiling all  *)
(* of them share (classify, markSource, markGlobal).                       *)
DropIsAnnounced ==
    \A d \in dropped : \E m \in marks :
        /\ m.at <= d.at /\ d.at - m.at < MarkerWindow
        /\ m.who \in {d.source, "global"}

(* The markers are not the flood again: a source's marker costs it a whole *)
(* burst of attempts first, however often it is evicted and comes back     *)
(* (classify, sourceAllows, evict, markSource).                            *)
MarkersCostABurst == sourceMarks * (SourceBurst + 1) <= attempts

(* The limiter bounds what a flood of rejected requests writes and hides   *)
(* none of it, evictions from its table included (classify, evict,         *)
(* markSource, markGlobal).                                                *)
FloodIsBoundedAndTold == AuthTypeOK /\ RowsBounded /\ DropIsAnnounced /\ MarkersCostABurst

----------------------------------------------------------------------------
(* The inductive invariant of the proofs.                                  *)

(* What the global bucket still holds it has not admitted.                 *)
GlobalPays ==
    /\ global.last \in 0 .. now \/ (global.last = Never /\ admitted = 0)
    /\ global.last # Never => admitted + global.tokens <= GlobalBurst + GlobalRate * global.last

(* A marker is the time of a row, of its source or of the ceiling.         *)
MarkersAreRows ==
    /\ \A s \in DOMAIN sources :
         /\ sources[s].last \in 0 .. now
         /\ \/ sources[s].marker = Never
            \/ /\ sources[s].marker \in 0 .. sources[s].last
               /\ [who |-> s, at |-> sources[s].marker] \in marks
    /\ globalMarker # Never => globalMarker \in 0 .. now /\ [who |-> "global", at |-> globalMarker] \in marks

(* The tokens of a bucket and the attempts it was charged make a burst, or *)
(* what has flowed in since its marker.                                    *)
Covered(b, charged) ==
    \/ SourceBurst <= charged + b.tokens
    \/ b.marker # Never /\ (b.last - b.marker) * SourceRate <= charged + b.tokens

(* Attempts can be shared out: to the markers, a burst and one each, and   *)
(* to the buckets, what each was charged since its marker.                 *)
Shared(paid, spent) ==
    /\ \A s \in Sources : paid[s] \cap spent = {}
    /\ \A s, r \in Sources : s # r => paid[s] \cap paid[r] = {}
    /\ sourceMarks * (SourceBurst + 1) <= Cardinality(spent)
    /\ \A s \in DOMAIN sources : Covered(sources[s], Cardinality(paid[s]))

Ledger == \E paid \in [Sources -> SUBSET (1 .. attempts)], spent \in SUBSET (1 .. attempts) : Shared(paid, spent)

AuthInv ==
    /\ AuthTypeOK /\ IsFiniteSet(DOMAIN sources) /\ sources \in [DOMAIN sources -> Bucket]
    /\ admitted + sourceMarks <= attempts
    /\ GlobalPays /\ MarkersAreRows /\ DropIsAnnounced /\ Ledger
=============================================================================
