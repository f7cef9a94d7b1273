--------------------------- MODULE CapacityProxy ---------------------------
(***************************************************************************)
(* The proxy that gives an unchanged MCP server room for Cap sessions      *)
(* (capacity-proxy.mjs of the session-lifetime lab).  Its callbacks run    *)
(* one at a time on one event loop; an action is one of them, or a step of *)
(* the client or of the server upstream.  Client, server and connections   *)
(* may fail, and a callback may find that another one was there before it. *)
(* Ids of sessions are unique, so a session bears the name of the          *)
(* initialize request that made it.                                        *)
(***************************************************************************)
EXTENDS Naturals, FiniteSets

CONSTANTS Requests, Cap, None

ASSUME CapacityAssumption ==
    /\ IsFiniteSet(Requests) /\ None \notin Requests
    /\ Cap \in Nat

VARIABLES
    kind, target,   \* request -> what it asks for, and of which session
    pc,             \* request -> how far its exchange with the client is
    link,           \* request -> its connection to the server upstream
    answer,         \* request -> what the server made of it
    alive,          \* the sessions that the server has
    sessions, live, \* the sessions the proxy saw issued; those not released
    pendingInitializes, openGets,   \* requests that hold a slot, a stream
    maxLive, maxTotal, opened, closed, upstreamFailures,    \* counts
    failureCounted, \* request -> has its failure been counted?
    faults,         \* the requests that failed through no act of the proxy
    stopping

vars == <<kind, target, pc, link, answer, alive, sessions,
          live, pendingInitializes, openGets, maxLive, maxTotal, opened,
          closed, upstreamFailures, failureCounted, faults, stopping>>
asked == <<kind, target>>
server == <<answer, alive>>
ledger == <<sessions, live, maxLive, maxTotal>>
counting == <<upstreamFailures, failureCounted>>
streams == <<openGets, opened, closed>>

Posts == {"initialize", "other"}
Bodyless == {"get", "delete"}

\* downstreamCancelled: the client has left before its response was complete.
Cancelled(q) == pc[q] = "left"
Open(q) == pc[q] \notin {"idle", "finished", "left"}

TypeOK ==
    /\ stopping \in BOOLEAN
    /\ kind \in [Requests -> Posts \cup Bodyless \cup {"none"}]
    /\ target \in [Requests -> Requests \cup {None}]
    /\ pc \in [Requests -> {"idle", "reading", "waiting", "streaming",
                            "ending", "broken", "finished", "left"}]
    /\ link \in [Requests -> {"none", "up", "failed", "cut", "aborted", "over"}]
    /\ answer \in [Requests -> {"none", "ok", "noid", "error"}]
    /\ sessions \subseteq Requests /\ live \subseteq sessions
    /\ alive \subseteq Requests /\ faults \subseteq Requests
    /\ pendingInitializes \subseteq {q \in Requests : kind[q] = "initialize"}
    /\ openGets \subseteq {q \in Requests : kind[q] = "get"}
    /\ maxLive \in Nat /\ maxTotal \in Nat
    /\ opened \in Nat /\ closed \in Nat /\ upstreamFailures \in Nat
    /\ failureCounted \in [Requests -> BOOLEAN]

Init ==
    /\ stopping = FALSE
    /\ kind = [q \in Requests |-> "none"] /\ target = [q \in Requests |-> None]
    /\ pc = [q \in Requests |-> "idle"] /\ link = [q \in Requests |-> "none"]
    /\ answer = [q \in Requests |-> "none"]
    /\ alive = {} /\ sessions = {} /\ live = {}
    /\ pendingInitializes = {} /\ openGets = {}
    /\ maxLive = 0 /\ maxTotal = 0 /\ opened = 0 /\ closed = 0
    /\ upstreamFailures = 0 /\ faults = {}
    /\ failureCounted = [q \in Requests |-> FALSE]

----------------------------------------------------------------------------
(* Helpers of the handler, and their variants.                             *)

Larger(a, b) == IF a < b THEN b ELSE a

Occupancy ==
    /\ maxLive' = Larger(maxLive, Cardinality(live'))
    /\ maxTotal' = Larger(maxTotal,
                    Cardinality(live') + Cardinality(pendingInitializes'))

\* Variant: initializations under way do not count.
LiveReachCap == Cardinality(live) >= Cap
CapReached == Cardinality(live) + Cardinality(pendingInitializes) >= Cap

\* The slot a request may hold; the mirror admissionHeld is not modelled.
ReleaseAdmission(q) == pendingInitializes' = pendingInitializes \ {q}

\* Variant: each of the callbacks that find the stream over counts it.
CloseGetAlways(q) ==
    /\ openGets' = openGets \ {q}
    /\ closed' = closed + IF kind[q] = "get" THEN 1 ELSE 0
CloseGet(q) ==
    /\ openGets' = openGets \ {q}
    /\ closed' = closed + IF q \in openGets THEN 1 ELSE 0

\* Variant: the connections the proxy itself destroys count as failures.
CountEveryFailure(q) ==
    IF failureCounted[q] THEN UNCHANGED counting
    ELSE /\ upstreamFailures' = upstreamFailures + 1
         /\ failureCounted' = [failureCounted EXCEPT ![q] = TRUE]
CountUpstreamFailure(q) ==
    IF failureCounted[q] \/ Cancelled(q) \/ stopping THEN UNCHANGED counting
    ELSE /\ upstreamFailures' = upstreamFailures + 1
         /\ failureCounted' = [failureCounted EXCEPT ![q] = TRUE]

\* What outgoing.destroy() makes of a connection.
Cut(l) == IF l = "up" THEN "cut" ELSE l

----------------------------------------------------------------------------
(* A request comes in.  The handler waits for the body of a JSON POST, and *)
(* classifies a GET or DELETE at once.                                     *)

Arrive(q) ==
    /\ pc[q] = "idle" /\ ~stopping
    /\ \E k \in Posts : kind' = [kind EXCEPT ![q] = k]
    /\ pc' = [pc EXCEPT ![q] = "reading"]
    /\ UNCHANGED <<target, link, server, ledger, pendingInitializes, streams,
                   counting, faults, stopping>>

\* http.request: from here on the server may handle the request.
Forward(q) ==
    /\ link' = [link EXCEPT ![q] = "up"]
    /\ pc' = [pc EXCEPT ![q] = "waiting"]
    /\ UNCHANGED <<upstreamFailures, faults>>

\* http.request refuses the request's path: the handler's catch answers 502.
HandlerFails(q) ==
    /\ upstreamFailures' = upstreamFailures + IF stopping THEN 0 ELSE 1
    /\ faults' = faults \cup {q}
    /\ pc' = [pc EXCEPT ![q] = "ending"]
    /\ UNCHANGED link

ForwardBodyless(q) ==
    /\ pc[q] = "idle" /\ ~stopping
    /\ \E k \in Bodyless, s \in sessions \cup {None} :
           /\ kind' = [kind EXCEPT ![q] = k]
           /\ target' = [target EXCEPT ![q] = s]
    /\ Forward(q) \/ HandlerFails(q)
    /\ UNCHANGED <<server, ledger, pendingInitializes, streams, failureCounted,
                   stopping>>

\* A denial of the fixture's own: nothing is sent to the server.
FixtureResponse(q) ==
    /\ pc' = [pc EXCEPT ![q] = "ending"]
    /\ UNCHANGED <<link, pendingInitializes, maxLive, maxTotal,
                   upstreamFailures, faults>>

AdmitInitialize(q) ==
    /\ kind[q] = "initialize"
    /\ IF CapReached THEN FixtureResponse(q)
       ELSE /\ maxLive' = Larger(maxLive, Cardinality(live))
            /\ maxTotal' = Larger(maxTotal,
                   Cardinality(live) + Cardinality(pendingInitializes) + 1)
            /\ \/ /\ Forward(q)
                  /\ pendingInitializes' = pendingInitializes \cup {q}
               \/ HandlerFails(q) /\ UNCHANGED pendingInitializes

\* With the option rejectPrompts the proxy answers prompts/* itself.
ClassifyOther(q) ==
    /\ kind[q] = "other"
    /\ \/ FixtureResponse(q)
       \/ /\ Forward(q) \/ HandlerFails(q)
          /\ UNCHANGED <<pendingInitializes, maxLive, maxTotal>>

Classify(q) ==
    /\ pc[q] = "reading"
    /\ AdmitInitialize(q) \/ ClassifyOther(q)
    /\ UNCHANGED <<asked, server, sessions, live, streams, failureCounted,
                   stopping>>

----------------------------------------------------------------------------
(* The server upstream, and the connections to it.                         *)

\* It handles what it was sent, late or not; it may refuse for reasons of
\* its own, and may start a session without giving it an id (noid).
ServerHandles(q) ==
    /\ link[q] # "none" /\ answer[q] = "none"
    /\ \/ /\ answer' = [answer EXCEPT ![q] = "ok"]
          /\ kind[q] \in Bodyless => target[q] \in alive
          /\ alive' = CASE kind[q] = "initialize" -> alive \cup {q}
                        [] kind[q] = "delete" -> alive \ {target[q]}
                        [] OTHER -> alive
       \/ /\ kind[q] = "initialize"
          /\ answer' = [answer EXCEPT ![q] = "noid"]
          /\ UNCHANGED alive
       \/ /\ answer' = [answer EXCEPT ![q] = "error"]
          /\ UNCHANGED alive
    /\ UNCHANGED <<asked, pc, link, ledger, pendingInitializes, streams,
                   counting, faults, stopping>>

ConnectionFails(q) ==
    /\ link[q] = "up"
    /\ link' = [link EXCEPT ![q] = "failed"]
    /\ faults' = faults \cup {q}
    /\ UNCHANGED <<asked, pc, server, ledger, pendingInitializes, streams,
                   counting, stopping>>

----------------------------------------------------------------------------
(* Callbacks of the request that was forwarded.  Node calls none with a    *)
(* response once the proxy has destroyed the request.                      *)

Issues(q) == kind[q] = "initialize" /\ answer[q] = "ok"
\* Variant: a delete that the server refused releases its session, too.
ReleasesAlways(q) == kind[q] = "delete"
Releases(q) == kind[q] = "delete" /\ answer[q] = "ok"
Streams(q) == kind[q] = "get" /\ answer[q] = "ok"

ResponseHeaders(q) ==
    /\ pc[q] = "waiting" /\ link[q] = "up" /\ answer[q] # "none"
    /\ pc' = [pc EXCEPT ![q] = "streaming"]
    /\ ReleaseAdmission(q)
    /\ live' = (live \cup {s \in {q} : Issues(q)})
                   \ {s \in {target[q]} : Releases(q)}
    /\ sessions' = sessions \cup {s \in {q} : Issues(q)}
    /\ IF Issues(q) THEN Occupancy ELSE UNCHANGED <<maxLive, maxTotal>>
    /\ IF Streams(q)
       THEN openGets' = openGets \cup {q} /\ opened' = opened + 1
       ELSE UNCHANGED <<openGets, opened>>
    /\ UNCHANGED <<asked, link, server, closed, counting, faults, stopping>>

ResponseEnds(q) ==
    /\ pc[q] = "streaming" /\ link[q] = "up"
    /\ link' = [link EXCEPT ![q] = "over"]
    /\ pc' = [pc EXCEPT ![q] = "ending"]
    /\ CloseGet(q)
    /\ UNCHANGED <<asked, server, ledger, pendingInitializes, opened, counting,
                   faults, stopping>>

\* 'error' of a request without a response: 502 if anyone is there to read
\* it.  If the client has left, the same holds of a response's 'aborted'.
RequestError(q) ==
    /\ pc[q] \in {"waiting", "left"} /\ link[q] \in {"failed", "cut"}
    /\ link' = [link EXCEPT ![q] = "over"]
    /\ pc' = [pc EXCEPT ![q] = IF @ = "waiting" THEN "ending" ELSE @]
    /\ ReleaseAdmission(q)
    /\ CountUpstreamFailure(q)
    /\ UNCHANGED <<asked, server, ledger, streams, faults, stopping>>

\* 'aborted' of a response destroys the client's, and 'error' follows.
ResponseAborted(q) ==
    /\ pc[q] = "streaming" /\ link[q] \in {"failed", "cut"}
    /\ link' = [link EXCEPT ![q] = "aborted"]
    /\ pc' = [pc EXCEPT ![q] = "broken"]
    /\ CountUpstreamFailure(q)
    /\ CloseGet(q)
    /\ UNCHANGED <<asked, server, ledger, pendingInitializes, opened, faults,
                   stopping>>

ResponseError(q) ==
    /\ link[q] = "aborted"
    /\ link' = [link EXCEPT ![q] = "over"]
    /\ CloseGet(q)
    /\ CountUpstreamFailure(q)
    /\ UNCHANGED <<asked, pc, server, ledger, pendingInitializes, opened,
                   faults, stopping>>

----------------------------------------------------------------------------
(* Callbacks of the client's side, and the end.                            *)

ResponseFinished(q) ==
    /\ pc[q] = "ending"
    /\ pc' = [pc EXCEPT ![q] = "finished"]
    /\ CloseGet(q)
    /\ UNCHANGED <<asked, link, server, ledger, pendingInitializes, opened,
                   counting, faults, stopping>>

\* 'close' of a response that is not complete (and 'aborted' of a request
\* that is not): a body that is still read ends in the handler's catch, which
\* finds nothing to undo.
ClientLeaves(q) ==
    /\ Open(q)
    /\ pc' = [pc EXCEPT ![q] = "left"]
    /\ link' = [link EXCEPT ![q] = Cut(@)]
    /\ CloseGet(q)
    /\ ReleaseAdmission(q)
    /\ UNCHANGED <<asked, server, ledger, opened, counting, faults, stopping>>

\* close(): it destroys the connections to the server, and the clients', whose
\* ClientLeaves follow.
Close ==
    /\ ~stopping
    /\ stopping' = TRUE
    /\ link' = [q \in Requests |-> Cut(link[q])]
    /\ UNCHANGED <<asked, pc, server, ledger, pendingInitializes, streams,
                   counting, faults>>

\* The snapshot after-fixture-teardown has been taken.
Closed ==
    /\ stopping /\ \A q \in Requests : ~Open(q)
    /\ UNCHANGED vars

Next ==
    \/ \E q \in Requests :
          \/ Arrive(q) \/ ForwardBodyless(q) \/ Classify(q)
          \/ ServerHandles(q) \/ ConnectionFails(q)
          \/ ResponseHeaders(q) \/ ResponseEnds(q)
          \/ RequestError(q) \/ ResponseAborted(q) \/ ResponseError(q)
          \/ ResponseFinished(q) \/ ClientLeaves(q)
    \/ Close
    \/ Closed

Spec == Init /\ [][Next]_vars

----------------------------------------------------------------------------
(* Properties.                                                             *)

\* Sessions that were not released and initializations under way never take
\* more than Cap places together, and the recorded maxima, which the runner
\* asserts on, hide no peak.
PeaksWithinCap ==
    /\ Cardinality(live) <= maxLive /\ maxLive <= Cap
    /\ Cardinality(live) + Cardinality(pendingInitializes) <= maxTotal
    /\ maxTotal <= Cap

\* Sessions the server has and the proxy has never seen, whose request has
\* lost its connection: the client left, or the connection failed, before
\* the server's response came.
Abandoned ==
    {q \in alive : q \notin sessions /\ link[q] \in {"failed", "cut", "over"}}

\* However initializations race each other and a delete's late reply, the
\* server has no more than Cap sessions, except for the abandoned ones, whose
\* slot is given back as if they had never been.
UpstreamWithinCap == Cardinality(alive) <= Cap + Cardinality(Abandoned)

\* The counts in the snapshots are true: every event stream that was opened is
\* open or was closed once, whichever of five callbacks came first; nothing
\* that is over holds a slot or a stream; and only failures that the proxy did
\* not bring about are counted as the server's, each once.
CountsAreTrue ==
    /\ opened = closed + Cardinality(openGets)
    /\ \A q \in pendingInitializes \cup openGets : Open(q)
    /\ upstreamFailures <= Cardinality(faults)
=============================================================================
