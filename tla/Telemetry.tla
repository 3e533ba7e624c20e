----------------------------- MODULE Telemetry -----------------------------
(***************************************************************************)
(* The GELF sink (internal/telemetry/gelf): request goroutines hand audit  *)
(* events to a bounded queue without ever waiting, one loop writes them to *)
(* a destination that may be down, and what is lost is admitted in a gap   *)
(* message on the next connection.  Counters of lost events are kept as    *)
(* the sequence of the lost events' timestamps; a counter is its length.   *)
(***************************************************************************)
EXTENDS Integers, FiniteSets, Sequences

CONSTANTS Emitters,   \* request goroutines
          Buffer,     \* capacity of Sink.ch
          MaxEvents,  \* bound: events emitted
          LateEmits,  \* whether goroutines may still emit after Close was called, which
                      \* Close's comment calls a wiring mistake and the code survives
          MaxClock    \* bound: ticks of the wall clock; instants are 1..MaxClock, 0 is "no instant"

ASSUME TelemetryAssumption == Buffer \in Nat /\ MaxEvents \in Nat /\ MaxClock \in Nat \ {0}

VARIABLES
  wall,
  em,          \* Emitters -> [pc, ts]: a request goroutine inside telemetryRecorder.Record
  made,        \* events made so far
  ch,          \* Sink.ch: timestamps, oldest first
  emitted, written,
  lost,        \* Reasons -> timestamps of the dropped events
  firstDropAt, \* the earliest loss not yet admitted
  st,          \* under Sink.mu: [degraded, gapStart, lastWriteAt, announced]
  lp,          \* the loop: [pc, w, retry, hand, g, now]
  gaps,        \* gap messages written: <<[start, events]>>
  closer,      \* Close: "no" | "waiting" | "returned"
  expired,     \* the close budget is spent
  hint,        \* closeErr's "--since", 0 when Close had nothing to report
  raced        \* an Emit lost an event while sendGap was reading or clearing

emitVars == <<em, made, emitted>>
loopVars == <<written, st, lp, gaps>>
telVars == <<wall, emitVars, ch, lost, firstDropAt, loopVars, closer, expired, hint, raced>>

\* The counters a gap message admits; closing is told by Close itself.
Counted == {"full", "write", "oversize"}
Reasons == Counted \union {"closing"}

NoDrops == [k \in Counted |-> 0]
NoGap == [start |-> 0, announced |-> NoDrops]
StartedAt == 1
Quit == closer # "no"

TelInit ==
  /\ wall = StartedAt /\ made = 0 /\ ch = <<>> /\ emitted = 0 /\ written = 0
  /\ em = [e \in Emitters |-> [pc |-> "idle", ts |-> 0]]
  /\ lost = [k \in Reasons |-> <<>>]
  /\ firstDropAt = 0
  /\ st = [degraded |-> FALSE, gapStart |-> 0, lastWriteAt |-> 0, announced |-> NoDrops]
  /\ lp = [pc |-> "top", w |-> FALSE, retry |-> FALSE, hand |-> 0, g |-> NoGap, now |-> NoDrops]
  /\ gaps = <<>> /\ closer = "no" /\ expired = FALSE /\ hint = 0 /\ raced = FALSE

WallTick == /\ wall < MaxClock /\ wall' = wall + 1
        /\ UNCHANGED <<emitVars, ch, lost, firstDropAt, loopVars, closer, expired, hint, raced>>

Inc(r, f, v) == [r EXCEPT ![f] = Append(@, v)]

\* noteDrop: the earliest timestamp is kept.
\* Mutant: the first one to arrive is kept.
Arrived(cur, ts) == IF cur = 0 THEN ts ELSE cur
Earliest(cur, ts) == IF cur = 0 \/ ts < cur THEN ts ELSE cur

InGap == lp.pc \in {"drops", "widen", "announce", "clear"}

(* Request goroutines *)

\* The record is stamped and stored; only then is it emitted (telemetryRecorder.Record).
StoreRecord(e) ==
  /\ em[e].pc = "idle" /\ made < MaxEvents /\ (Quit => LateEmits)
  /\ made' = made + 1
  /\ em' = [em EXCEPT ![e] = [pc |-> "stored", ts |-> wall]]
  /\ UNCHANGED <<wall, emitted, ch, lost, firstDropAt, loopVars, closer, expired, hint, raced>>

\* The count comes before the send, so Stats never shows more written than
\* emitted; nothing decides on it, and the two are one step.
Emit(e) ==
  /\ em[e].pc = "stored"
  /\ emitted' = emitted + 1
  /\ IF Len(ch) < Buffer
     THEN /\ ch' = Append(ch, em[e].ts)
          /\ em' = [em EXCEPT ![e].pc = "idle"]
          /\ UNCHANGED <<lost, raced>>
     ELSE /\ lost' = Inc(lost, "full", em[e].ts)
          /\ em' = [em EXCEPT ![e].pc = "noting"]
          /\ raced' = (raced \/ InGap)
          /\ UNCHANGED ch
  /\ UNCHANGED <<wall, made, firstDropAt, loopVars, closer, expired, hint>>

NoteDrop(e) ==
  /\ em[e].pc = "noting"
  /\ firstDropAt' = Earliest(firstDropAt, em[e].ts)
  /\ em' = [em EXCEPT ![e].pc = "idle"]
  /\ raced' = (raced \/ InGap)
  /\ UNCHANGED <<wall, made, emitted, ch, lost, loopVars, closer, expired, hint>>

(* The writer goroutine *)

NoteFailure(s) ==
  IF s.degraded THEN s
  ELSE [s EXCEPT !.degraded = TRUE,
                 !.gapStart = IF s.lastWriteAt # 0 THEN s.lastWriteAt ELSE StartedAt]
MarkRecovered(s) == [s EXCEPT !.degraded = FALSE, !.gapStart = 0]
NoteWritten(s) == MarkRecovered([s EXCEPT !.lastWriteAt = wall])

LoopUnchanged == UNCHANGED <<wall, emitVars, closer, expired, hint>>

LoopTop ==
  /\ lp.pc = "top"
  /\ lp' = [lp EXCEPT !.pc = IF Quit THEN "drain" ELSE IF ~lp.w /\ ~lp.retry THEN "dial" ELSE "select"]
  /\ UNCHANGED <<ch, lost, firstDropAt, written, st, gaps, raced>> /\ LoopUnchanged

DialFails ==
  /\ lp.pc = "dial"
  /\ IF Quit THEN lp' = [lp EXCEPT !.pc = "drain"] /\ UNCHANGED st
     ELSE /\ st' = NoteFailure(st)
          /\ lp' = [lp EXCEPT !.pc = "top", !.retry = TRUE]
  /\ UNCHANGED <<ch, lost, firstDropAt, written, gaps, raced>> /\ LoopUnchanged

Dialled ==
  /\ lp.pc = "dial"
  /\ lp' = [lp EXCEPT !.pc = "gap"]
  /\ UNCHANGED <<ch, lost, firstDropAt, written, st, gaps, raced>> /\ LoopUnchanged

\* sendGap, first under mu ...
SendGap ==
  /\ lp.pc = "gap"
  /\ IF ~st.degraded
     THEN lp' = [lp EXCEPT !.pc = "select", !.w = TRUE] /\ UNCHANGED raced
     ELSE /\ lp' = [lp EXCEPT !.pc = "drops", !.g = [start |-> st.gapStart, announced |-> st.announced]]
          /\ raced' = (raced \/ \E e \in Emitters : em[e].pc = "noting")
  /\ UNCHANGED <<ch, lost, firstDropAt, written, st, gaps>> /\ LoopUnchanged

\* ... then the counters ...
ReadDrops ==
  /\ lp.pc = "drops"
  /\ lp' = [lp EXCEPT !.pc = "widen", !.now = [k \in Counted |-> Len(lost[k])]]
  /\ UNCHANGED <<ch, lost, firstDropAt, written, st, gaps, raced>> /\ LoopUnchanged

Admitted == UNION {{lost[k][i] : i \in (lp.g.announced[k] + 1)..lp.now[k]} : k \in Counted}
GapStart == IF firstDropAt # 0 THEN Earliest(lp.g.start, firstDropAt) ELSE lp.g.start

\* ... then the window, widened to the first drop, and the message: nothing lost, ...
NothingLost ==
  /\ lp.pc = "widen" /\ lp.now = lp.g.announced
  /\ lp' = [lp EXCEPT !.pc = "clear"]
  /\ UNCHANGED <<ch, lost, firstDropAt, written, st, gaps, raced>> /\ LoopUnchanged

\* ... written, ...
GapWritten ==
  /\ lp.pc = "widen" /\ lp.now # lp.g.announced
  /\ gaps' = Append(gaps, [start |-> GapStart, events |-> Admitted,
                           counts |-> [k \in Counted |-> lp.now[k] - lp.g.announced[k]]])
  /\ lp' = [lp EXCEPT !.pc = "announce"]
  /\ UNCHANGED <<ch, lost, firstDropAt, written, st, raced>> /\ LoopUnchanged

\* ... or not: the connection is closed and tried again later.
GapFails ==
  /\ lp.pc = "widen" /\ lp.now # lp.g.announced
  /\ st' = NoteFailure(st)
  /\ lp' = [lp EXCEPT !.pc = "top", !.retry = TRUE]
  /\ UNCHANGED <<ch, lost, firstDropAt, written, gaps, raced>> /\ LoopUnchanged

\* announced(now), under mu; the stamp is cleared after it.
\* Mutant: what is announced is read again.
AnnouncedAgain(n) == [k \in Counted |-> Len(lost[k])]
Announced(n) == n

Announce ==
  /\ lp.pc = "announce"
  /\ st' = [st EXCEPT !.announced = Announced(lp.now)]
  /\ lp' = [lp EXCEPT !.pc = "clear"]
  /\ UNCHANGED <<ch, lost, firstDropAt, written, gaps, raced>> /\ LoopUnchanged

ClearAndRecover ==
  /\ lp.pc = "clear"
  /\ firstDropAt' = 0
  /\ st' = MarkRecovered(st)
  /\ lp' = [lp EXCEPT !.pc = "select", !.w = TRUE]
  /\ UNCHANGED <<ch, lost, written, gaps, raced>> /\ LoopUnchanged

\* The select: a record (only while connected), the retry timer, or quit.
Take ==
  /\ lp.pc = "select" /\ lp.w /\ ch # <<>>
  /\ lp' = [lp EXCEPT !.pc = "send", !.hand = Head(ch)]
  /\ ch' = Tail(ch)
  /\ UNCHANGED <<lost, firstDropAt, written, st, gaps, raced>> /\ LoopUnchanged

RetryFires ==
  /\ lp.pc = "select" /\ lp.retry
  /\ lp' = [lp EXCEPT !.pc = "top", !.retry = FALSE]
  /\ UNCHANGED <<ch, lost, firstDropAt, written, st, gaps, raced>> /\ LoopUnchanged

SelectQuit ==
  /\ lp.pc = "select" /\ Quit
  /\ lp' = [lp EXCEPT !.pc = "drain"]
  /\ UNCHANGED <<ch, lost, firstDropAt, written, st, gaps, raced>> /\ LoopUnchanged

\* send, and the same three outcomes while draining.
Sent(after) ==
  /\ written' = written + 1
  /\ st' = NoteWritten(st)
  /\ lp' = [lp EXCEPT !.pc = after, !.hand = 0]
  /\ UNCHANGED <<ch, lost, firstDropAt, gaps, raced>> /\ LoopUnchanged

\* Over the size ceiling.  The other way to fail to encode, an outcome without a
\* level, is one audit.Record.Validate does not let into the trail.
Oversize(after) ==
  /\ lost' = Inc(lost, "oversize", lp.hand)
  /\ firstDropAt' = Earliest(firstDropAt, lp.hand)
  /\ lp' = [lp EXCEPT !.pc = after, !.hand = 0]
  /\ UNCHANGED <<ch, written, st, gaps, raced>> /\ LoopUnchanged

\* Mutant: a write error leaves the connection in use.
OpenAfterError(l) == [l EXCEPT !.hand = 0]
ClosedAfterError(l) == [l EXCEPT !.hand = 0, !.w = FALSE, !.retry = TRUE]

EventWriteFails(after) ==
  /\ st' = NoteFailure(st)
  /\ lost' = Inc(lost, "write", lp.hand)
  /\ firstDropAt' = Earliest(firstDropAt, lp.hand)
  /\ lp' = [ClosedAfterError(lp) EXCEPT !.pc = after]
  /\ UNCHANGED <<ch, written, gaps, raced>> /\ LoopUnchanged

Send == lp.pc = "send" /\ (Sent("top") \/ Oversize("top") \/ EventWriteFails("top"))

(* Closing *)

\* Close: the deadline, quit, and the dial cancelled, then a bounded wait for the loop.
Close ==
  /\ closer = "no" /\ (LateEmits \/ \A e \in Emitters : em[e].pc = "idle")
  /\ closer' = "waiting"
  /\ UNCHANGED <<wall, emitVars, ch, lost, firstDropAt, loopVars, expired, hint, raced>>

BudgetSpent ==
  /\ Quit /\ ~expired /\ expired' = TRUE
  /\ UNCHANGED <<wall, emitVars, ch, lost, firstDropAt, loopVars, closer, hint, raced>>

\* drain: write what fits in the budget if there is a connection, discard the rest.
DrainTake ==
  /\ lp.pc = "drain" /\ lp.w /\ ~expired /\ ch # <<>>
  /\ lp' = [lp EXCEPT !.pc = "drainsend", !.hand = Head(ch)]
  /\ ch' = Tail(ch)
  /\ UNCHANGED <<lost, firstDropAt, written, st, gaps, raced>> /\ LoopUnchanged

DrainSend == lp.pc = "drainsend" /\ (Sent("drain") \/ Oversize("drain") \/ EventWriteFails("discard"))

DrainGivesUp ==
  /\ lp.pc = "drain" /\ (~lp.w \/ expired \/ ch = <<>>)
  /\ lp' = [lp EXCEPT !.pc = "discard"]
  /\ UNCHANGED <<ch, lost, firstDropAt, written, st, gaps, raced>> /\ LoopUnchanged

\* Mutant: what is discarded is not counted.
DiscardSilently(l) == l
CountDiscarded(l) == Inc(l, "closing", Head(ch))

Discard ==
  /\ lp.pc = "discard" /\ ch # <<>>
  /\ lost' = CountDiscarded(lost)
  /\ ch' = Tail(ch)
  /\ UNCHANGED <<firstDropAt, written, st, lp, gaps, raced>> /\ LoopUnchanged

LoopDone ==
  /\ lp.pc = "discard" /\ ch = <<>>
  /\ lp' = [lp EXCEPT !.pc = "done"]
  /\ UNCHANGED <<ch, lost, firstDropAt, written, st, gaps, raced>> /\ LoopUnchanged

RecoverFrom ==
  LET from == IF st.gapStart # 0 THEN st.gapStart
              ELSE IF st.lastWriteAt # 0 THEN st.lastWriteAt ELSE StartedAt
  IN IF firstDropAt # 0 THEN Earliest(from, firstDropAt) ELSE from

\* Close returns once the loop is done, or abandons it after the budget.
CloseReturns ==
  /\ closer = "waiting" /\ (lp.pc = "done" \/ expired)
  /\ closer' = "returned"
  /\ hint' = IF lost["closing"] # <<>> THEN RecoverFrom ELSE 0
  /\ UNCHANGED <<wall, emitVars, ch, lost, firstDropAt, loopVars, expired, raced>>

LoopStep ==
  \/ LoopTop \/ Dialled \/ DialFails \/ SendGap \/ ReadDrops \/ NothingLost \/ GapWritten
  \/ GapFails \/ Announce \/ ClearAndRecover \/ Take \/ RetryFires \/ SelectQuit
  \/ Send \/ DrainTake \/ DrainSend \/ DrainGivesUp \/ Discard \/ LoopDone

TelNext ==
  \/ WallTick \/ Close \/ BudgetSpent \/ CloseReturns
  \/ \E e \in Emitters : StoreRecord(e) \/ Emit(e) \/ NoteDrop(e)
  \/ LoopStep

\* A dial hangs as long as the destination likes, until Close cancels it; every write has
\* a deadline; timers fire.  Between quit and the drain the scheduler runs the loop.
\* Mutant: Close does not cancel the dial.
DialNotCancelled == FALSE
DialCancelled == lp.pc = "dial" /\ Quit

LoopMoves == LoopStep /\ (lp.pc = "dial" => DialCancelled)

TelSpec == TelInit /\ [][TelNext]_telVars
TelFairSpec == TelSpec /\ WF_telVars(LoopMoves) /\ WF_telVars(BudgetSpent) /\ WF_telVars(CloseReturns)

(* Properties *)

TelemetryTypeOK ==
  /\ Len(ch) <= Buffer /\ emitted <= made /\ made <= MaxEvents
  /\ firstDropAt \in 0..MaxClock /\ st.gapStart \in 0..MaxClock /\ st.lastWriteAt \in 0..MaxClock
  /\ closer \in {"no", "waiting", "returned"} /\ hint \in 0..MaxClock
  /\ \A e \in Emitters : em[e].pc \in {"idle", "stored", "noting"}

\* Stats: every event Emit took is written, counted under one reason for its loss,
\* queued, or in the loop's hand, at every instant and through Close.
EventsAccounted ==
  emitted = written + Len(lost["full"]) + Len(lost["write"]) + Len(lost["oversize"]) + Len(lost["closing"])
              + Len(ch) + (IF lp.hand = 0 THEN 0 ELSE 1)

\* What a sequence of gap messages admits of one counter.
AdmittedOf(k, msgs) ==
  LET upTo[i \in 0 .. Len(msgs)] == IF i = 0 THEN 0 ELSE upTo[i - 1] + msgs[i].counts[k]
  IN upTo[Len(msgs)]

\* sendGap and announced: "every lost event is admitted exactly once", through gap messages
\* that fail, events lost while one is written, and losses with the destination up.
LossAdmittedOnce ==
  \A k \in Counted :
    /\ AdmittedOf(k, gaps) = IF lp.pc = "announce" THEN lp.now[k] ELSE st.announced[k]
    /\ AdmittedOf(k, gaps) <= Len(lost[k])

\* widenToFirstDrop: a gap's window reaches back to every event it admits, if no Emit
\* was losing an event while the gap was being put together.
WindowCoversLoss ==
  ~raced => \A i \in DOMAIN gaps : \A ts \in gaps[i].events : gaps[i].start <= ts

\* loop: nothing is written on a connection until the gap message has admitted every
\* event the previous one failed to write.
GapGoesFirst ==
  lp.w /\ lp.pc \in {"select", "send"} => Len(lost["write"]) = st.announced["write"]

\* Close: "drains what fits in its own budget": once Close was called the loop ends,
\* whatever the destination does.
CloseEndsLoop == Quit ~> lp.pc = "done"

\* recoverFrom: "the earliest instant the operator has to replay from to cover what this
\* process failed to ship": the command Close prints reaches every event it discarded.
CloseHintCovers ==
  closer = "returned" /\ lp.pc = "done" /\ hint # 0 =>
    \A i \in DOMAIN lost["closing"] : hint <= lost["closing"][i]

\* Every event is shipped or its loss admitted once, in time and in a window that reaches
\* back to it (Emit, sendGap, widenToFirstDrop, loop).
LossIsAdmitted ==
  TelemetryTypeOK /\ EventsAccounted /\ LossAdmittedOnce /\ WindowCoversLoss /\ GapGoesFirst

(* The inductive invariant of the proofs. *)

Instants == 1 .. MaxClock
LoopPlaces == {"top", "dial", "gap", "drops", "widen", "announce", "clear", "select", "send",
               "drain", "drainsend", "discard", "done"}

TelTypes ==
  /\ wall \in Instants /\ {made, emitted, written} \subseteq Nat
  /\ em \in [Emitters -> [pc : {"idle", "stored", "noting"}, ts : 0 .. MaxClock]]
  /\ ch \in Seq(Instants) /\ lost \in [Reasons -> Seq(Instants)]
  /\ st \in [degraded : BOOLEAN, gapStart : 0 .. MaxClock, lastWriteAt : 0 .. MaxClock,
             announced : [Counted -> Nat]]
  /\ lp \in [pc : LoopPlaces, w : BOOLEAN, retry : BOOLEAN, hand : 0 .. MaxClock,
             g : [start : 0 .. MaxClock, announced : [Counted -> Nat]], now : [Counted -> Nat]]
  /\ gaps \in Seq([start : 0 .. MaxClock, events : SUBSET Instants, counts : [Counted -> Nat]])
  /\ raced \in BOOLEAN

\* An event made is emitted, or in the hands of the goroutine that stored it.
Storing == {e \in Emitters : em[e].pc = "stored"}
MadeIsEmitted ==
  /\ IsFiniteSet(Storing) /\ made = emitted + Cardinality(Storing)
  /\ \A e \in Emitters : em[e].pc # "idle" => em[e].ts \in Instants

\* The loop has an event in hand exactly while it sends it, on a connection; it has none
\* while it makes one.
LoopTells ==
  /\ lp.hand # 0 <=> lp.pc \in {"send", "drainsend"}
  /\ lp.pc \in {"send", "drainsend"} => lp.w
  /\ lp.pc \in {"dial", "gap", "drops", "widen", "announce", "clear"} => ~lp.w

\* What sendGap read is what it announces: only the loop announces, and only it fails to write.
GapTells ==
  /\ \A k \in Counted : st.announced[k] <= Len(lost[k])
  /\ lp.pc \in {"drops", "widen", "announce"} => lp.g.announced = st.announced
  /\ lp.pc \in {"widen", "announce"} =>
       /\ \A k \in Counted : lp.g.announced[k] <= lp.now[k] /\ lp.now[k] <= Len(lost[k])
       /\ lp.now["write"] = Len(lost["write"])
  /\ lp.pc = "clear" \/ lp.w \/ ~st.degraded => st.announced["write"] = Len(lost["write"])

\* A loss that is not admitted yet is in the stamp, or about to be.
Stamped(ts) ==
  \/ firstDropAt # 0 /\ firstDropAt <= ts
  \/ \E e \in Emitters : em[e].pc = "noting" /\ em[e].ts = ts

RaceTells ==
  ~raced =>
    /\ InGap => \A e \in Emitters : em[e].pc # "noting"
    /\ lp.pc \in {"widen", "announce"} => \A k \in Counted : lp.now[k] = Len(lost[k])
    /\ lp.pc = "clear" => \A k \in Counted : st.announced[k] = Len(lost[k])
    /\ \A k \in Counted : \A i \in (st.announced[k] + 1) .. Len(lost[k]) : Stamped(lost[k][i])

TelInv ==
  /\ TelTypes /\ TelemetryTypeOK /\ MadeIsEmitted /\ LoopTells /\ GapTells /\ RaceTells
  /\ EventsAccounted /\ LossAdmittedOnce /\ WindowCoversLoss
=============================================================================
