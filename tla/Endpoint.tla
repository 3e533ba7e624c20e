------------------------------ MODULE Endpoint ------------------------------
(***************************************************************************)
(* What a client is answered: the MCP endpoint (internal/gateway/httpapi). *)
(* A request is authenticated, gets a server built for it from one listing *)
(* of the tools its caller may use, and runs one method on that server.    *)
(* The routing table, the policy, the quarantine and the blocklist it      *)
(* consults change between its steps; which errors Dispatch returns is     *)
(* modelled in Dispatch, and here is what becomes of each of them.         *)
(*                                                                         *)
(* A tool's name is the pair of its backend and its own name.              *)
(***************************************************************************)
EXTENDS Naturals, Sequences, FiniteSets

CONSTANTS Requests,       \* requests in flight at once
          Callers,        \* subjects the identity provider knows
          Tools,
          Unservable,     \* tools whose schema is no object or the SDK refuses
          Forwarded,      \* X-Forwarded-For entries a client may send
          Retention,      \* listedRetention
          MaxListed,      \* listedMaxSubjects
          EndBounds       \* bounds: ticks, requests that arrive, and changes of table,
                          \* policy, quarantine and blocklist

ASSUME EndpointAssumption ==
    Retention \in Nat /\ MaxListed \in Nat \ {0} /\ Forwarded \subseteq Seq(STRING)

StatusTool == <<"gatte", "status">>
NoName == <<"">>          \* a tools/call whose params did not decode
Proxy == "proxy"          \* what the front proxy saw, and appends

VARIABLES clock,
          tool,           \* each tool: "served", "held" (quarantined) or "gone"
          grants,         \* who may call what
          barred,         \* the blocklist
          listed,         \* listedTools: per subject, when each name was last listed
          request,        \* the requests in flight
          answer,         \* the last answer each request slot gave
          shown,          \* when each name was last in a list a subject got, since
                          \* the subject was last forgotten
          left            \* of the bounds

endVars == <<clock, tool, grants, barred, listed, request, answer, shown, left>>

Ready == [phase |-> "ready"]
NoAnswer == [what |-> "none"]
Listing == [names : UNION {[s -> Nat] : s \in SUBSET Tools}, last : Nat]

EndInit ==
    /\ clock = 0 /\ left \in EndBounds
    /\ tool = [t \in Tools |-> "served"] /\ grants \in [Callers -> {{}, Tools}] /\ barred = {}
    /\ listed = << >> /\ shown = [c \in Callers |-> << >>]
    /\ request = [r \in Requests |-> Ready] /\ answer = [r \in Requests |-> NoAnswer]

----------------------------------------------------------------------------
(* Answers.                                                                *)

\* classify: the error of Dispatch and the failure class the client is told.
classify(err) ==
    CASE err \in {"unknown tool", "quarantined"} -> "unknown tool"
      [] err \in {"forbidden", "quota exhausted", "concurrency limited"} -> err
      [] OTHER -> "internal"

\* honestResult: the errors answered with a result that says what happened.
Honest == {"unavailable", "backend failed", "result too large", "timed out",
           "quota exhausted", "concurrency limited"}

honestResult(err) == err \in Honest

----------------------------------------------------------------------------
(* listed.go.                                                              *)

OnlyNames(f, S) == [x \in S |-> f[x]]

\* Room made one subject too late.
RoomLate(s) == s \in DOMAIN listed \/ Cardinality(DOMAIN listed) <= MaxListed

Room(s) == s \in DOMAIN listed \/ Cardinality(DOMAIN listed) < MaxListed

Oldest == {s \in DOMAIN listed : \A o \in DOMAIN listed : listed[s].last <= listed[o].last}

\* The tables evictOldest may leave: a tie falls on either.
Tables(s) ==
    IF Room(s) THEN {listed} ELSE {OnlyNames(listed, DOMAIN listed \ {o}) : o \in Oldest}

\* A list that replaces the one before it.
KeptNothing(table, s) == << >>

KeptNames(table, s) ==
    IF s \notin DOMAIN table THEN << >>
    ELSE OnlyNames(table[s].names, {n \in DOMAIN table[s].names :
                                      clock - table[s].names[n] <= Retention})

Stamped(f, names) ==
    [n \in DOMAIN f \union names |-> IF n \in names THEN clock ELSE f[n]]

\* What a subject is shown is forgotten with the subject.
remember(s, names) ==
    \E table \in Tables(s) :
        /\ shown' = [c \in Callers |-> IF c = s THEN Stamped(shown[c], names)
                                      ELSE IF c \in DOMAIN table THEN shown[c] ELSE << >>]
        /\ listed' = [x \in DOMAIN table \union {s} |->
                IF x = s THEN [names |-> Stamped(KeptNames(table, s), names), last |-> clock]
                ELSE table[x]]

\* One listing shared by everybody.
wasListedByAnyone(s, n) ==
    \E o \in DOMAIN listed : n \in DOMAIN listed[o].names /\ clock - listed[o].names[n] <= Retention

wasListed(s, n) ==
    /\ s \in DOMAIN listed /\ n \in DOMAIN listed[s].names
    /\ clock - listed[s].names[n] <= Retention

----------------------------------------------------------------------------
(* A request.                                                              *)

\* The first entry instead of the last.
sourceAddressFirst(forwarded) ==
    LET named == {i \in DOMAIN forwarded : forwarded[i] # ""} IN
    IF named = {} THEN Proxy ELSE forwarded[CHOOSE i \in named : \A j \in named : i <= j]

\* The rightmost entry that is not empty; without one, the peer.
sourceAddress(forwarded) ==
    LET named == {i \in DOMAIN forwarded : forwarded[i] # ""} IN
    IF named = {} THEN Proxy ELSE forwarded[CHOOSE i \in named : \A j \in named : j <= i]

Recent(c, n) == n \in DOMAIN shown[c] /\ clock - shown[c][n] <= Retention

\* The request's answer, and the rows its caller's actions left by then.
Say(r, what, rows) ==
    /\ request' = [request EXCEPT ![r] = Ready]
    /\ answer' = [answer EXCEPT ![r] =
         [what |-> what, caller |-> request[r].caller, asked |-> request[r].asked,
          served |-> request[r].served, source |-> request[r].source, rows |-> rows,
          seen |-> Recent(request[r].caller, request[r].asked)]]

\* A row is written, or its write fails, which is logged and changes nothing.
Row(outcome) == {<<outcome>>, <<"lost">>}

Env == <<clock, tool, grants, barred, left>>

Askable == Tools \union {<< >>, NoName, StatusTool}

\* A request to list (asked = << >>) or to call a tool, offered and named by
\* the client as it likes.
ServeHTTP(r, c, asked, forwarded) ==
    /\ request[r].phase = "ready" /\ left.arrivals > 0 /\ left' = [left EXCEPT !.arrivals = @ - 1]
    /\ request' = [request EXCEPT ![r] =
         [phase |-> "authenticate", caller |-> c, asked |-> asked, served |-> {},
          source |-> sourceAddress(forwarded \o <<Proxy>>)]]
    /\ answer' = [answer EXCEPT ![r] = NoAnswer]
    /\ UNCHANGED <<clock, tool, grants, barred, listed, shown>>

\* The metadata document is anyone's, on its own paths.
serveMetadata(r) ==
    /\ request[r].phase = "ready" /\ answer' = [answer EXCEPT ![r] = NoAnswer]
    /\ UNCHANGED <<Env, listed, shown, request>>

\* No usable credential, or one the verifier refuses: AuthLimit's row.
rejectUnauthenticated(r) ==
    /\ request[r].phase = "authenticate" /\ Say(r, "unauthenticated", <<"auth">>)
    /\ UNCHANGED <<Env, listed, shown>>

\* AdmitCaller, answered: refused with a row, unless the request has ended.
authenticate(r) ==
    /\ request[r].phase = "authenticate"
    /\ \/ /\ request[r].caller \in barred
          /\ \E row \in Row("denied") : Say(r, "account refused", row)
       \/ \E row \in Row("denied") \union {<<"ended">>} : Say(r, "internal", row)
       \/ /\ request[r].caller \notin barred
          /\ request' = [request EXCEPT ![r].phase = "tools"] /\ UNCHANGED answer
    /\ UNCHANGED <<Env, listed, shown>>

Visible(c) == {t \in grants[c] : tool[t] = "served"}

\* ListTools, then the server built from it; suspended or unmeasured, a 503.
getServer(r) ==
    /\ request[r].phase = "tools"
    /\ \/ Say(r, "service unavailable", << >>)
       \/ /\ request' = [request EXCEPT ![r].phase = "method",
                ![r].served = (Visible(request[r].caller) \ Unservable) \union {StatusTool}]
          /\ UNCHANGED answer
    /\ UNCHANGED <<Env, listed, shown>>

Method(r) == request[r].phase = "method"

\* tools/list: the answer, and the memory of what this subject was shown.
listTools(r) ==
    LET c == request[r].caller
        names == request[r].served \ {StatusTool} IN
    /\ Method(r) /\ request[r].asked = << >>
    /\ remember(c, names) /\ Say(r, "listed", << >>)
    /\ UNCHANGED Env

\* Names the listing no longer has, passed on to the server unrecorded.
unservedRowMissing == {<< >>}

unservedRow == Row("denied")

\* A name this server does not serve: a row, then "pulled" for a name the same
\* caller was listed, and the SDK's own "unknown tool" for any other.
recordUnservedToolCalls(r) ==
    /\ Method(r) /\ request[r].asked \notin request[r].served \union {<< >>, NoName}
    /\ \E row \in unservedRow :
        Say(r, IF wasListed(request[r].caller, request[r].asked) THEN "pulled" ELSE "unknown tool", row)
    /\ UNCHANGED <<Env, listed, shown>>

\* Params that did not decode are left to the SDK to reject: there is no name
\* to attribute a row to.
leaveToSDK(r) ==
    /\ Method(r) /\ request[r].asked = NoName /\ Say(r, "invalid params", << >>)
    /\ UNCHANGED <<Env, listed, shown>>

\* GatteStatus: the standing of the caller and of the backends of the tools it
\* is served; refused when its row cannot be written.
GatteStatus == {[what |-> "status", rows |-> <<"allowed">>],
                [what |-> "internal", rows |-> <<"lost">>]}

gatteStatusHandler(r) ==
    /\ Method(r) /\ request[r].asked = StatusTool
    /\ \E report \in GatteStatus : Say(r, report.what, report.rows)
    /\ UNCHANGED <<Env, listed, shown>>

\* What Dispatch finds now for a tool this server was built with.
Errors(r) ==
    CASE tool[request[r].asked] = "gone" -> {"unknown tool"}
      [] request[r].asked \notin grants[request[r].caller] -> {"forbidden"}
      [] tool[request[r].asked] = "held" -> {"quarantined"}
      [] OTHER -> {"internal"} \union Honest

\* rejectCall: the class is told, a name that was listed as pulled.
Rejection(r, err) ==
    IF classify(err) = "unknown tool" /\ wasListed(request[r].caller, request[r].asked)
    THEN "pulled" ELSE classify(err)

\* What may come of a call that was sent: the backend fails it, dies or is too
\* slow; its result is too large, diverges from its schema or still holds a
\* credential.
AfterSend == {"backend failed", "unavailable", "timed out", "result too large", "internal"}

dispatchTool(r) ==
    /\ Method(r) /\ request[r].asked \in request[r].served \ {StatusTool}
    /\ \/ \E err \in Errors(r) :
            /\ err \notin {"backend failed", "result too large", "timed out"}
            /\ \E row \in Row("denied") : Say(r, IF honestResult(err) THEN err ELSE Rejection(r, err), row)
       \/ \E err \in Errors(r) \cap AfterSend, row \in Row("failed") : Say(r, err, <<"allowed">> \o row)
       \/ /\ "internal" \in Errors(r)
          /\ \/ Say(r, "result", <<"allowed">>)
             \/ Say(r, "internal", <<"allowed">>)          \* not representable
    /\ UNCHANGED <<Env, listed, shown>>

\* A panic before there is a caller to attribute a row to: the log line is the
\* record of it.
containRequestPanic(r) ==
    /\ request[r].phase = "authenticate" /\ Say(r, "internal", <<"logged">>)
    /\ UNCHANGED <<Env, listed, shown>>

\* A panic after authentication, contained at whichever level it happened.
RecordPanic(r) ==
    /\ request[r].phase \in {"tools", "method"}
    /\ \E row \in Row("denied") : Say(r, "internal", row)
    /\ UNCHANGED <<Env, listed, shown>>

\* The gateway reloads, refreshes, or an operator acts; and the process
\* restarts, which loses the listings.
Change ==
    /\ left.changes > 0 /\ left' = [left EXCEPT !.changes = @ - 1]
    /\ \/ \E t \in Tools, s \in {"served", "held", "gone"} :
            tool' = [tool EXCEPT ![t] = s] /\ UNCHANGED <<grants, barred, listed, shown, request, answer>>
       \/ \E c \in Callers, g \in {{}, Tools} :
            grants' = [grants EXCEPT ![c] = g] /\ UNCHANGED <<tool, barred, listed, shown, request, answer>>
       \/ \E c \in Callers :
            barred' = barred \union {c} /\ UNCHANGED <<tool, grants, listed, shown, request, answer>>
       \/ /\ listed' = << >> /\ shown' = [c \in Callers |-> << >>] /\ request' = [r \in Requests |-> Ready]
          /\ answer' = [r \in Requests |-> NoAnswer] /\ UNCHANGED <<tool, grants, barred>>
    /\ UNCHANGED clock

Pass ==
    /\ left.ticks > 0 /\ left' = [left EXCEPT !.ticks = @ - 1] /\ clock' = clock + 1
    /\ UNCHANGED <<tool, grants, barred, listed, request, answer, shown>>

EndNext ==
    \/ \E r \in Requests, c \in Callers, asked \in Askable, f \in Forwarded :
        ServeHTTP(r, c, asked, f)
    \/ \E r \in Requests : \/ serveMetadata(r) \/ rejectUnauthenticated(r) \/ authenticate(r) \/ getServer(r)
                           \/ listTools(r) \/ recordUnservedToolCalls(r) \/ gatteStatusHandler(r)
                           \/ leaveToSDK(r) \/ dispatchTool(r)
                           \/ containRequestPanic(r) \/ RecordPanic(r)
    \/ Change \/ Pass

EndSpec == EndInit /\ [][EndNext]_endVars

----------------------------------------------------------------------------
(* Type correctness, with the bound on the table of listings (listed.go,   *)
(* remember).                                                              *)
EndTypeOK ==
    /\ clock \in Nat /\ tool \in [Tools -> {"served", "held", "gone"}]
    /\ grants \in [Callers -> SUBSET Tools] /\ barred \subseteq Callers
    /\ DOMAIN listed \subseteq Callers /\ Cardinality(DOMAIN listed) <= MaxListed
    /\ \A c \in DOMAIN listed : listed[c].last <= clock

\* The calls that name a tool.
Answered == {r \in Requests : answer[r].what \notin {"none", "unauthenticated"} /\ answer[r].asked \notin {<< >>, NoName}}

(* An answer other than "unknown tool" tells a caller only of tools the    *)
(* caller was offered: in the listing of this request, or in a list the    *)
(* same caller got within the retention (httpapi.go                        *)
(* recordUnservedToolCalls and rejectCall).  Nobody learns from the answer *)
(* to a guessed name that the tool exists.                                 *)
GuessesLearnNothing ==
    \A r \in Answered :
        answer[r].what \notin {"unknown tool", "account refused", "service unavailable", "internal"} =>
            \/ answer[r].asked \in answer[r].served
            \/ answer[r].seen

(* The other way round: a tool a caller was shown within the retention is  *)
(* never denied to have existed, whether it is missing from this request's *)
(* listing, from later lists, or was withdrawn while the request ran       *)
(* (pulledError), as long as the caller was not evicted from the table.    *)
PulledIsSaid ==
    \A r \in Answered : answer[r].what = "unknown tool" => ~answer[r].seen

(* Every call of an authenticated caller that names a tool has left a row  *)
(* or a failed write of one, whichever tool it names and whichever step    *)
(* refused it, unless the request had ended or the gateway could list      *)
(* nothing.                                                                *)
CallsLeaveRows ==
    \A r \in Answered : answer[r].rows = << >> => answer[r].what = "service unavailable"

(* A row names the address the proxy saw, whatever X-Forwarded-For entries *)
(* the client put in front of it (sourceAddress).                          *)
SourceIsTheProxys == \A r \in Answered : answer[r].source = Proxy

(* An answer tells a caller the truth about the tools this caller was      *)
(* offered, and nothing about any other (rejectCall, pulledError, listed). *)
AnswersFitTheCaller == EndTypeOK /\ GuessesLearnNothing /\ PulledIsSaid

(* Whatever ends a call, its row is written, and names the address the     *)
(* proxy saw (recordUnservedToolCalls, sourceAddress).                     *)
CallsAreTraceable == CallsLeaveRows /\ SourceIsTheProxys

(* Every call of a tool is answered for: to its caller, who learns the     *)
(* truth about the tools this caller was offered and about no other, and   *)
(* in the trail, under the address the proxy saw (rejectCall, pulledError, *)
(* listed, recordUnservedToolCalls, sourceAddress).                        *)
CallsAreAnsweredFor == AnswersFitTheCaller /\ CallsAreTraceable

----------------------------------------------------------------------------
(* The inductive invariant of the proofs.                                  *)

InFlight == [phase : {"authenticate", "tools", "method"}, caller : Callers, asked : Askable,
             served : SUBSET (Tools \union {StatusTool}), source : {Proxy}]
Told == Honest \union {"unauthenticated", "account refused", "internal", "service unavailable", "listed",
                       "pulled", "unknown tool", "forbidden", "status", "result", "invalid params"}
Rows == Seq({"auth", "denied", "allowed", "failed", "lost", "ended", "logged"})
Given == [what : Told, caller : Callers, asked : Askable, served : SUBSET (Tools \union {StatusTool}),
          source : {Proxy}, rows : Rows, seen : BOOLEAN]

\* A server is built with the status tool on it.
EndTypes ==
    /\ request \in [Requests -> {Ready} \union InFlight] /\ answer \in [Requests -> {NoAnswer} \union Given]
    /\ \A r \in Requests : request[r].phase = "method" => StatusTool \in request[r].served

\* The table has of a subject what the subject was shown, but for what is past the
\* retention; of a subject it has forgotten, nothing counts as shown.
Remembered ==
    /\ IsFiniteSet(DOMAIN listed) /\ DOMAIN shown = Callers
    /\ \A c \in Callers \ DOMAIN listed : DOMAIN shown[c] = {}
    /\ \A c \in DOMAIN listed :
        /\ listed[c].last \in Nat
        /\ \A n \in DOMAIN listed[c].names : n \in DOMAIN shown[c] /\ listed[c].names[n] = shown[c][n]
        /\ \A n \in DOMAIN shown[c] :
            /\ shown[c][n] \in Nat /\ shown[c][n] <= clock
            /\ n \in DOMAIN listed[c].names \/ clock - shown[c][n] > Retention

EndInv == EndTypeOK /\ EndTypes /\ Remembered /\ AnswersFitTheCaller /\ CallsAreTraceable
=============================================================================
