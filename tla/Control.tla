------------------------------- MODULE Control -------------------------------
(***************************************************************************)
(* Reload and redial requests: an operator's process files a row in the    *)
(* shared database and rings the gateway with SIGHUP; serve takes every    *)
(* pending row, does it and answers on the row (internal/control,          *)
(* internal/admin/control.go, cmd/mcp-gateway/serve_control.go, ring.go).  *)
(*                                                                         *)
(* Requesters, the operator's editor and serve are separate processes; any *)
(* of them may die between two steps.  Every statement on the database is  *)
(* one action.                                                             *)
(***************************************************************************)
EXTENDS FiniteSets, Naturals, Sequences

CONSTANTS
    Requesters,     \* each files one request
    None,
    MaxBoots,       \* bound on the starts of serve
    MaxEdits,       \* bound on the edits of the configuration file
    MaxSignals,     \* bound on the signals nobody filed a request for
    StoreMayFail,   \* whether a read or a write of the database may fail
    ServeMayDie

ASSUME BoundsAssumption ==
    MaxBoots \in Nat /\ MaxEdits \in Nat /\ MaxSignals \in Nat
ASSUME SwitchesAssumption == StoreMayFail \in BOOLEAN /\ ServeMayDie \in BOOLEAN
ASSUME RequestersAssumption == IsFiniteSet(Requesters)
(* The absence of a phase, an outcome, an author or an id is none of them. *)
ASSUME NoneAssumption ==
    /\ None \notin {"leftover", "work", "answer", "applied", "refused", "not_running",
                    "serve", "boot", "requester"}
    /\ None \notin 1 .. Cardinality(Requesters)

VARIABLES
    file,       \* the edits the configuration file holds
    inForce,    \* the edits the policy in serve's memory was built from
    rows,       \* serve_request, in the order of their ids
    recorded,   \* serve_process: the start that recorded itself, 0 for none
    hup,        \* whether serve's signal channel, of capacity one, is full
    signals,    \* the signals sent with no request
    serve,      \* serve's program counter and locals
    asking,     \* requester -> its program counter and locals
    trail,      \* the operator rows: row and outcome
    effects     \* history: row -> the edits in force each time it was done

vars == <<file, inForce, rows, recorded, hup, signals, serve, asking, trail, effects>>

Kinds == {"reload", "redial"}

Outcomes == {"applied", "refused"}

(* wants is the history of the file's edits when the row was filed.        *)
Row == [kind : Kinds, wants : 0 .. MaxEdits, state : {"pending", "done"},
        outcome : Outcomes \cup {None}, by : {None, "serve", "boot", "requester"},
        recorded : BOOLEAN]

Ids == 1 .. Cardinality(Requesters)

(* The job of a signal nobody filed a request for: r.ID is zero.           *)
Signal == 0

Jobs == Ids \cup {Signal}

ServeState ==
    [boot : 0 .. MaxBoots,
     pc : {"down", "load", "built", "next", "record", "write", "register", "idle", "read"},
     phase : {None, "leftover", "work", "answer"},
     todo : Seq(Jobs), redials : Seq(Ids),
     outcome : Outcomes \cup {None}, noted : BOOLEAN]

Asking == [pc : {"idle", "looked", "filed", "unrung", "await", "end"},
           ring : 0 .. MaxBoots, id : Ids \cup {None},
           told : Outcomes \cup {None, "not_running"}]

TypeOK ==
    /\ file \in 0 .. MaxEdits
    /\ inForce \in 0 .. MaxEdits
    /\ rows \in Seq(Row) /\ Len(rows) <= Cardinality(Requesters)
    /\ recorded \in 0 .. MaxBoots
    /\ hup \in BOOLEAN
    /\ signals \in 0 .. MaxSignals
    /\ serve \in ServeState
    /\ asking \in [Requesters -> Asking]
    /\ trail \subseteq (Jobs \X Outcomes)
    /\ effects \in [Ids -> Seq(0 .. MaxEdits)]

Init ==
    /\ file = 0
    /\ inForce = 0
    /\ rows = <<>>
    /\ recorded = 0
    /\ hup = FALSE
    /\ signals = 0
    /\ serve = [pc |-> "down", boot |-> 0, phase |-> None, todo |-> <<>>,
                redials |-> <<>>, outcome |-> None, noted |-> FALSE]
    /\ asking = [q \in Requesters |->
                    [pc |-> "idle", ring |-> 0, id |-> None, told |-> None]]
    /\ trail = {}
    /\ effects = [i \in Ids |-> <<>>]

-----------------------------------------------------------------------------
(* The store.                                                              *)

(* What a database call may return.                                        *)
StoreResults == IF StoreMayFail THEN BOOLEAN ELSE {TRUE}

IsPending(i) == rows[i].state = "pending"

(* Pending: the ids of the pending rows, each once, in their order.        *)
Enumerates(s, S) ==
    /\ \A i \in S : \E k \in DOMAIN s : s[k] = i
    /\ \A j, k \in DOMAIN s : j < k => s[j] < s[k]

Pending ==
    LET waiting == {i \in 1 .. Len(rows) : IsPending(i)}
    IN  CHOOSE s \in [1 .. Cardinality(waiting) -> waiting] : Enumerates(s, waiting)

FinishAnyState(i, outcome, by, noted) ==
    rows' = [rows EXCEPT ![i] = [@ EXCEPT !.state = "done", !.outcome = outcome,
                                          !.by = by, !.recorded = noted]]

(* Finish: a row already done is left as it is.                            *)
Finish(i, outcome, by, noted) ==
    IF IsPending(i)
    THEN rows' = [rows EXCEPT ![i] = [@ EXCEPT !.state = "done", !.outcome = outcome,
                                              !.by = by, !.recorded = noted]]
    ELSE UNCHANGED rows

-----------------------------------------------------------------------------
(* A requester: the CLI or the management backend.                         *)

Unasked == UNCHANGED <<file, inForce, recorded, signals, serve, trail, effects>>

End(q, told) == [asking EXCEPT ![q].pc = "end", ![q].ring = 0, ![q].told = told]

(* The process to ring; with none recorded nothing is filed.               *)
LookUp(q, ok) ==
    /\ asking[q].pc = "idle"
    /\ asking' = IF ~ok THEN End(q, None)
                 ELSE IF recorded = 0 THEN End(q, "not_running")
                 ELSE [asking EXCEPT ![q].pc = "looked", ![q].ring = recorded]
    /\ Unasked
    /\ UNCHANGED <<rows, hup>>

FileAtLen(q, kind) ==
    /\ asking[q].pc = "looked"
    /\ rows' = Append(rows, [kind |-> kind, wants |-> file, state |-> "pending",
                             outcome |-> None, by |-> None, recorded |-> FALSE])
    /\ asking' = [asking EXCEPT ![q].pc = "filed", ![q].id = Len(rows)]
    /\ Unasked
    /\ UNCHANGED hup

(* Submit.                                                                 *)
File(q, kind) ==
    /\ asking[q].pc = "looked"
    /\ rows' = Append(rows, [kind |-> kind, wants |-> file, state |-> "pending",
                             outcome |-> None, by |-> None, recorded |-> FALSE])
    /\ asking' = [asking EXCEPT ![q].pc = "filed", ![q].id = Len(rows) + 1]
    /\ Unasked
    /\ UNCHANGED hup

FileFails(q) ==
    /\ StoreMayFail
    /\ asking[q].pc = "looked"
    /\ asking' = End(q, None)
    /\ Unasked
    /\ UNCHANGED <<rows, hup>>

RingAnyProcess(q) ==
    /\ asking[q].pc = "filed"
    /\ serve.pc # "down"
    /\ hup' = TRUE
    /\ asking' = [asking EXCEPT ![q].pc = "await", ![q].ring = 0]
    /\ Unasked
    /\ UNCHANGED rows

RingUnbuffered(q) ==
    /\ asking[q].pc = "filed"
    /\ serve.pc # "down"
    /\ serve.boot = asking[q].ring
    /\ hup' = (hup \/ serve.pc = "idle")
    /\ asking' = [asking EXCEPT ![q].pc = "await", ![q].ring = 0]
    /\ Unasked
    /\ UNCHANGED rows

(* ringServe: the start token ties the pid to the start that recorded it.  *)
(* A full channel keeps the one signal it holds.                           *)
Ring(q) ==
    /\ asking[q].pc = "filed"
    /\ serve.pc # "down"
    /\ serve.boot = asking[q].ring
    /\ hup' = TRUE
    /\ asking' = [asking EXCEPT ![q].pc = "await", ![q].ring = 0]
    /\ Unasked
    /\ UNCHANGED rows

(* That start is gone, or the requester may not signal it: another         *)
(* account, or root.                                                       *)
RingFails(q) ==
    /\ asking[q].pc = "filed"
    /\ asking' = [asking EXCEPT ![q].pc = "unrung", ![q].ring = 0]
    /\ Unasked
    /\ UNCHANGED <<rows, hup>>

(* Abandon, whose own failure is only logged; the requester is told that   *)
(* nothing changed.                                                        *)
Abandon(q, ok) ==
    /\ asking[q].pc = "unrung"
    /\ IF ok THEN Finish(asking[q].id, "refused", "requester", FALSE) ELSE UNCHANGED rows
    /\ asking' = End(q, "not_running")
    /\ Unasked
    /\ UNCHANGED hup

(* await: the answer, or nothing yet at the deadline or on a failed read.  *)
Await(q, ok) ==
    /\ asking[q].pc = "await"
    /\ asking' = End(q, IF ok THEN rows[asking[q].id].outcome ELSE None)
    /\ Unasked
    /\ UNCHANGED <<rows, hup>>

RequesterDies(q) ==
    /\ asking[q].pc \in {"looked", "filed", "unrung", "await"}
    /\ asking' = End(q, None)
    /\ Unasked
    /\ UNCHANGED <<rows, hup>>

(* kill -HUP or systemctl reload.                                          *)
BareSignal ==
    /\ signals < MaxSignals
    /\ serve.pc # "down"
    /\ signals' = signals + 1
    /\ hup' = TRUE
    /\ UNCHANGED <<file, inForce, rows, recorded, serve, asking, trail, effects>>

(* The operator saves the configuration file.                              *)
Edit ==
    /\ file < MaxEdits
    /\ file' = file + 1
    /\ UNCHANGED <<inForce, rows, recorded, hup, signals, serve, asking, trail, effects>>

-----------------------------------------------------------------------------
(* serve: startup.                                                         *)

Unserved == UNCHANGED <<file, signals, asking>>

(* The supervisor starts a process; its channel is empty.                  *)
Start ==
    /\ serve.pc = "down"
    /\ serve.boot < MaxBoots
    /\ serve' = [serve EXCEPT !.pc = "load", !.boot = @ + 1]
    /\ hup' = FALSE
    /\ Unserved
    /\ UNCHANGED <<inForce, rows, recorded, trail, effects>>

(* loadConfig; buildServer then dials every backend.                       *)
LoadConfig ==
    /\ serve.pc = "load"
    /\ inForce' = file
    /\ serve' = [serve EXCEPT !.pc = "built"]
    /\ Unserved
    /\ UNCHANGED <<rows, recorded, hup, trail, effects>>

ReadNoLeftovers(ok) ==
    /\ serve.pc = "built"
    /\ serve' = [serve EXCEPT !.pc = "next", !.phase = "leftover", !.todo = <<>>]
    /\ Unserved
    /\ UNCHANGED <<inForce, rows, recorded, hup, trail, effects>>

(* announce: what a previous process left pending.                         *)
ReadLeftovers(ok) ==
    /\ serve.pc = "built"
    /\ serve' = [serve EXCEPT !.pc = "next", !.phase = "leftover",
                              !.todo = IF ok THEN Pending ELSE <<>>]
    /\ Unserved
    /\ UNCHANGED <<inForce, rows, recorded, hup, trail, effects>>

(* One of them is answered as superseded.                                  *)
Supersede ==
    /\ serve.pc = "next" /\ serve.phase = "leftover" /\ serve.todo # <<>>
    /\ serve' = [serve EXCEPT !.pc = "record", !.outcome = "refused"]
    /\ Unserved
    /\ UNCHANGED <<inForce, rows, recorded, hup, trail, effects>>

LeftoversDone ==
    /\ serve.pc = "next" /\ serve.phase = "leftover" /\ serve.todo = <<>>
    /\ serve' = [serve EXCEPT !.pc = "register"]
    /\ Unserved
    /\ UNCHANGED <<inForce, rows, recorded, hup, trail, effects>>

(* A process that could not record itself serves all the same.             *)
RecordProcess(ok) ==
    /\ serve.pc = "register"
    /\ recorded' = IF ok THEN serve.boot ELSE recorded
    /\ serve' = [serve EXCEPT !.pc = "idle", !.phase = None]
    /\ Unserved
    /\ UNCHANGED <<inForce, rows, hup, trail, effects>>

-----------------------------------------------------------------------------
(* serve: the maintenance loop's answer to the signal.                     *)

(* The loop receives from the channel, which frees it.                     *)
Wake ==
    /\ serve.pc = "idle"
    /\ hup
    /\ hup' = FALSE
    /\ serve' = [serve EXCEPT !.pc = "read"]
    /\ Unserved
    /\ UNCHANGED <<inForce, rows, recorded, trail, effects>>

(* handleControl: every pending row, or the signal's own reload when there *)
(* is none or they cannot be read.                                         *)
TakePending(ok) ==
    /\ serve.pc = "read"
    /\ serve' = [serve EXCEPT !.pc = "next", !.phase = "work", !.redials = <<>>,
                              !.todo = IF ok /\ Pending # <<>> THEN Pending ELSE <<Signal>>]
    /\ Unserved
    /\ UNCHANGED <<inForce, rows, recorded, hup, trail, effects>>

Working == serve.pc = "next" /\ serve.phase = "work" /\ serve.todo # <<>>

Job == Head(serve.todo)

(* The history of what a job did; the signal's own job has no row.         *)
Done(job, edits) ==
    effects' = IF job = Signal THEN effects
               ELSE [effects EXCEPT ![job] = Append(@, edits)]

ReloadAlwaysApplied(ok) ==
    /\ Working
    /\ Job \in Ids => rows[Job].kind = "reload"
    /\ IF ok THEN inForce' = file /\ Done(Job, file) ELSE UNCHANGED <<inForce, effects>>
    /\ serve' = [serve EXCEPT !.pc = "record", !.outcome = "applied"]
    /\ Unserved
    /\ UNCHANGED <<rows, recorded, hup, trail>>

(* reloadConfig: the file is loaded, validated and applied as a whole, or  *)
(* refused and the policy in force is kept.                                *)
Reload(ok) ==
    /\ Working
    /\ Job \in Ids => rows[Job].kind = "reload"
    /\ IF ok THEN inForce' = file /\ Done(Job, file) ELSE UNCHANGED <<inForce, effects>>
    /\ serve' = [serve EXCEPT !.pc = "record",
                              !.outcome = IF ok THEN "applied" ELSE "refused"]
    /\ Unserved
    /\ UNCHANGED <<rows, recorded, hup, trail>>

(* Redial marks the backend, to be answered after the round; a refused     *)
(* redial is answered at once.  Submit refuses any third kind.             *)
Redial(ok) ==
    /\ Working
    /\ Job # Signal /\ rows[Job].kind = "redial"
    /\ IF ok
       THEN /\ Done(Job, inForce)
            /\ serve' = [serve EXCEPT !.redials = Append(@, Job), !.todo = Tail(@)]
       ELSE /\ UNCHANGED effects
            /\ serve' = [serve EXCEPT !.pc = "record", !.outcome = "refused"]
    /\ Unserved
    /\ UNCHANGED <<inForce, rows, recorded, hup, trail>>

(* The round out of turn, after which the redials are answered.            *)
Round ==
    /\ serve.pc = "next" /\ serve.phase = "work" /\ serve.todo = <<>>
    /\ serve' = [serve EXCEPT !.phase = "answer", !.todo = serve.redials, !.redials = <<>>]
    /\ Unserved
    /\ UNCHANGED <<inForce, rows, recorded, hup, trail, effects>>

AnswerRedial ==
    /\ serve.pc = "next" /\ serve.phase = "answer" /\ serve.todo # <<>>
    /\ serve' = [serve EXCEPT !.pc = "record", !.outcome = "applied"]
    /\ Unserved
    /\ UNCHANGED <<inForce, rows, recorded, hup, trail, effects>>

HandleDone ==
    /\ serve.pc = "next" /\ serve.phase = "answer" /\ serve.todo = <<>>
    /\ serve' = [serve EXCEPT !.pc = "idle", !.phase = None]
    /\ Unserved
    /\ UNCHANGED <<inForce, rows, recorded, hup, trail, effects>>

RecordRowUnchecked(ok) ==
    /\ serve.pc = "record"
    /\ trail' = IF ok THEN trail \cup {<<Job, serve.outcome>>} ELSE trail
    /\ serve' = IF Job = Signal
                THEN [serve EXCEPT !.pc = "next", !.todo = Tail(@), !.outcome = None]
                ELSE [serve EXCEPT !.pc = "write", !.noted = TRUE]
    /\ Unserved
    /\ UNCHANGED <<inForce, rows, recorded, hup, effects>>

(* finish: the operator row first; the answer says whether it was written. *)
RecordRow(ok) ==
    /\ serve.pc = "record"
    /\ trail' = IF ok THEN trail \cup {<<Job, serve.outcome>>} ELSE trail
    /\ serve' = IF Job = Signal
                THEN [serve EXCEPT !.pc = "next", !.todo = Tail(@), !.outcome = None]
                ELSE [serve EXCEPT !.pc = "write", !.noted = ok]
    /\ Unserved
    /\ UNCHANGED <<inForce, rows, recorded, hup, effects>>

(* Then the answer; a row it cannot be written on stays pending.           *)
WriteAnswer(ok) ==
    /\ serve.pc = "write"
    /\ IF ok
       THEN Finish(Job, serve.outcome,
                   IF serve.phase = "leftover" THEN "boot" ELSE "serve", serve.noted)
       ELSE UNCHANGED rows
    /\ serve' = [serve EXCEPT !.pc = "next", !.todo = Tail(@), !.outcome = None,
                              !.noted = FALSE]
    /\ Unserved
    /\ UNCHANGED <<inForce, recorded, hup, trail, effects>>

(* A crash, or a shutdown: the Gateway that closed under a redial or a     *)
(* round ends the loop.                                                    *)
ServeDies ==
    /\ ServeMayDie
    /\ serve.pc # "down"
    /\ serve.boot < MaxBoots
    /\ serve' = [serve EXCEPT !.pc = "down", !.phase = None, !.todo = <<>>,
                              !.redials = <<>>, !.outcome = None, !.noted = FALSE]
    /\ hup' = FALSE
    /\ Unserved
    /\ UNCHANGED <<inForce, rows, recorded, trail, effects>>

-----------------------------------------------------------------------------
RequesterStep(q) ==
    \/ \E ok \in StoreResults : LookUp(q, ok) \/ Abandon(q, ok) \/ Await(q, ok)
    \/ \E kind \in Kinds : File(q, kind)
    \/ FileFails(q)
    \/ Ring(q)
    \/ RingFails(q)
    \/ RequesterDies(q)

ServeStep ==
    \/ Start \/ LoadConfig
    \/ \E ok \in StoreResults : ReadLeftovers(ok) \/ RecordProcess(ok)
    \/ Supersede \/ LeftoversDone
    \/ Wake
    \/ \E ok \in StoreResults : TakePending(ok) \/ RecordRow(ok) \/ WriteAnswer(ok)
    \/ \E ok \in BOOLEAN : Reload(ok) \/ Redial(ok)
    \/ Round \/ AnswerRedial \/ HandleDone

Next ==
    \/ \E q \in Requesters : RequesterStep(q)
    \/ BareSignal \/ Edit
    \/ ServeStep
    \/ ServeDies

Spec == Init /\ [][Next]_vars

(* serve's goroutine keeps running, and daemon -r starts a dead one again.    *)
FairSpec == Spec /\ WF_vars(ServeStep)

-----------------------------------------------------------------------------
(* Properties.                                                             *)

(* The first answer stands: an answered request is never answered again,   *)
(* whichever of the requester that gives up, serve and serve's next start  *)
(* writes second (control/sqlite Finish).                                  *)
FirstAnswerStands ==
    [][\A i \in 1 .. Len(rows) : ~IsPending(i) => rows'[i] = rows[i]]_vars

(* What serve answers as applied it has done, and a reload it answers has  *)
(* put in force at least what the file held when the request was filed     *)
(* (handleControl, reloadConfig).                                          *)
AppliedWasDone ==
    \A i \in 1 .. Len(rows) : rows[i].outcome = "applied" =>
        /\ effects[i] # <<>>
        /\ rows[i].kind = "reload" => effects[i][Len(effects[i])] >= rows[i].wants

(* An answer that says its operator row was recorded has that row on the   *)
(* trail, with that outcome, wherever serve dies (finish).                 *)
AnswersAreOnTrail ==
    \A i \in 1 .. Len(rows) : rows[i].recorded => <<i, rows[i].outcome>> \in trail

(* While the database answers, no request is done twice: not by a second   *)
(* signal, and not by the process started after one that died between      *)
(* doing it and answering it (announce, handleControl).                    *)
DoneAtMostOnce == \A i \in Ids : Len(effects[i]) <= 1

(* A request that was rung and that a restart answered as superseded is in *)
(* force: the restart read the file after the edit it was filed for        *)
(* (announce, ringServe).                                                  *)
RungSupersededIsInForce ==
    \A q \in Requesters : asking[q].pc = "await" =>
        (rows[asking[q].id].by = "boot" => inForce >= rows[asking[q].id].wants)

(* "It was rung and will take it": a request whose process was rung is     *)
(* answered, by that process or by the next one, even when the signal came *)
(* while serve was busy or starting (admin/control.go await).              *)
RungIsAnswered ==
    \A q \in Requesters :
        (asking[q].pc = "await") ~>
            (asking[q].id # None /\ rows[asking[q].id].state = "done")

(* What the requester says when it could not ring serve: nothing changed   *)
(* (admin/control.go fileRequest).                                         *)
NothingChanged ==
    \A q \in Requesters : (asking[q].told = "not_running" /\ asking[q].id # None)
        => effects[asking[q].id] = <<>>

-----------------------------------------------------------------------------
(* The inductive invariant of the proofs, and what it says of each piece.  *)

(* serve's locals: where it has a phase, a job and an outcome.             *)
LocalsTell ==
    /\ serve.phase = "leftover" => serve.pc \in {"next", "record", "write", "register"}
    /\ serve.phase \in {"work", "answer"} => serve.pc \in {"next", "record", "write"}
    /\ serve.phase = None => serve.pc \in {"down", "load", "built", "idle", "read"}
    /\ serve.pc = "register" => serve.todo = <<>>
    /\ serve.pc \in {"record", "write"} => serve.todo # <<>> /\ serve.outcome \in Outcomes
    /\ serve.pc = "write" => Job # Signal

(* What serve holds are rows of the table, which has one per requester     *)
(* that filed.                                                             *)
JobsAreRows ==
    /\ \A k \in 1 .. Len(serve.todo) :
          \/ serve.todo[k] \in 1 .. Len(rows)
          \/ serve.todo[k] = Signal /\ serve.phase \notin {"leftover", "answer"}
    /\ \A k \in 1 .. Len(serve.redials) : serve.redials[k] \in 1 .. Len(rows)

Filed == {q \in Requesters : asking[q].id # None}

FiledOnce ==
    /\ Len(rows) = Cardinality(Filed)
    /\ \A q \in Requesters :
        /\ asking[q].id # None => asking[q].id \in 1 .. Len(rows)
        /\ asking[q].pc \in {"idle", "looked"} => asking[q].id = None
        /\ asking[q].pc \in {"filed", "unrung", "await"} => asking[q].id # None

(* A request wants what some save of the file had; what was done for it    *)
(* came later.                                                             *)
EffectsFit ==
    /\ \A i \in 1 .. Len(rows) :
        /\ rows[i].wants <= file
        /\ rows[i].kind = "reload" =>
              \A k \in 1 .. Len(effects[i]) : effects[i][k] >= rows[i].wants
    /\ \A i \in Ids : i > Len(rows) => effects[i] = <<>>

(* What is about to be answered as applied was done.                       *)
AppliedInHand ==
    /\ serve.pc \in {"record", "write"} /\ serve.outcome = "applied" /\ Job # Signal
          => effects[Job] # <<>>
    /\ \A k \in 1 .. Len(serve.redials) : effects[serve.redials[k]] # <<>>
    /\ serve.phase = "answer" =>
          \A k \in 1 .. Len(serve.todo) : effects[serve.todo[k]] # <<>>

NotedIsOnTrail ==
    serve.pc = "write" /\ serve.noted => <<Job, serve.outcome>> \in trail

(* A start records itself after its leftovers; a requester rings a start   *)
(* that had recorded itself when the request was filed.                    *)
BootsInOrder ==
    /\ recorded <= serve.boot
    /\ recorded = serve.boot =>
          serve.pc \in {"down", "idle", "read"} \/ serve.phase \in {"work", "answer"}
    /\ \A q \in Requesters : asking[q].pc \in {"looked", "filed"} => asking[q].ring \in 1 .. recorded

(* A row superseded before it was rung was so by a later start, and a row  *)
(* that was rung before this start is one its configuration has.           *)
SupersededInOrder ==
    \A q \in Requesters :
        /\ asking[q].pc = "filed" /\ rows[asking[q].id].by = "boot" => asking[q].ring < serve.boot
        /\ asking[q].pc = "await" /\ (serve.pc = "built" \/ serve.phase = "leftover")
              => inForce >= rows[asking[q].id].wants

Inv ==
    /\ TypeOK /\ LocalsTell /\ JobsAreRows /\ FiledOnce /\ EffectsFit
    /\ AppliedInHand /\ AppliedWasDone /\ NotedIsOnTrail /\ AnswersAreOnTrail
    /\ BootsInOrder /\ SupersededInOrder /\ RungSupersededIsInForce

(* While the database answers: what serve has still to do was not done,    *)
(* and what was done without an answer is in hand or will be superseded.   *)
InHand(i) ==
    \/ serve.pc \in {"down", "load", "built"}
    \/ serve.phase \in {"leftover", "answer"} /\ \E k \in 1 .. Len(serve.todo) : serve.todo[k] = i
    \/ serve.phase = "work" /\ \E k \in 1 .. Len(serve.redials) : serve.redials[k] = i
    \/ serve.phase = "work" /\ serve.pc \in {"record", "write"} /\ Job = i

Undone(k) == serve.todo[k] # Signal => effects[serve.todo[k]] = <<>>

DoneOnceInv ==
    /\ DoneAtMostOnce
    /\ \A i \in 1 .. Len(rows) : IsPending(i) /\ effects[i] # <<>> => InHand(i)
    /\ serve.phase = "work" =>
          /\ \A j, k \in 1 .. Len(serve.todo) : j # k => serve.todo[j] # serve.todo[k]
          /\ \A k \in 1 .. Len(serve.todo) : serve.pc = "next" \/ k > 1 => Undone(k)

-----------------------------------------------------------------------------
(* What a requester is told is so: an applied request was done, a recorded *)
(* answer is on the trail, and one that a restart superseded is in force   *)
(* (handleControl, finish, announce).                                      *)
AnswersAreTrue ==
    TypeOK /\ AppliedWasDone /\ AnswersAreOnTrail /\ RungSupersededIsInForce
=============================================================================
