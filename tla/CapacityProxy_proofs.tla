------------------------ MODULE CapacityProxy_proofs ------------------------
(***************************************************************************)
(* The properties of CapacityProxy, for any number of requests and any cap.*)
(*                                                                         *)
(* None is inductive.  What they lack is how a request's connection, its   *)
(* exchange with the client, the server's answer and the proxy's sets go   *)
(* together (RequestInv), and which failures have been counted (Counted).  *)
(***************************************************************************)
EXTENDS CapacityProxy, FiniteSetTheorems, TLAPS

\* Where a request's connection stands, its exchange with the client does.
Connected(q) ==
    /\ pc[q] \in {"idle", "reading"} =>
           link[q] = "none" /\ q \notin faults
    /\ link[q] = "none" => answer[q] = "none"
    /\ pc[q] = "waiting" => link[q] \in {"up", "failed", "cut"}
    /\ link[q] = "up" => pc[q] \in {"waiting", "streaming"}
    /\ link[q] = "failed" => q \in faults
    /\ link[q] = "cut" => pc[q] = "left" \/ stopping
    /\ link[q] = "aborted" => q \in faults \/ stopping

\* A slot and a stream are held for as long as the exchange needs them.
Holding(q) ==
    /\ q \in pendingInitializes <=> kind[q] = "initialize" /\ pc[q] = "waiting"
    /\ q \in openGets => pc[q] = "streaming"

\* What the proxy knows of the server's sessions: it counts those it has seen
\* issued, and has seen those whose headers came.
Ledger(q) ==
    /\ q \in sessions \/ q \in alive => Issues(q)
    /\ q \in sessions /\ q \in alive => q \in live
    /\ \/ pc[q] \in {"streaming", "broken"}
       \/ link[q] = "aborted"
       => answer[q] # "none" /\ (Issues(q) => q \in sessions)
    /\ Releases(q) => /\ target[q] \in Requests \ alive
                      /\ Issues(target[q])

RequestInv(q) == Connected(q) /\ Holding(q) /\ Ledger(q)

\* The failures that were counted, by their callbacks or by the handler.
Counted == {q \in faults : failureCounted[q] \/ link[q] = "none"}

Balanced == opened = closed + Cardinality(openGets)

IInv ==
    /\ TypeOK
    /\ \A q \in Requests : RequestInv(q)
    /\ PeaksWithinCap
    /\ Balanced
    /\ upstreamFailures <= Cardinality(Counted)

\* The steps of one request.
Exchange(q) ==
    \/ Arrive(q) \/ ForwardBodyless(q) \/ Classify(q)
    \/ ServerHandles(q) \/ ConnectionFails(q)
    \/ ResponseHeaders(q) \/ ResponseEnds(q)
    \/ RequestError(q) \/ ResponseAborted(q) \/ ResponseError(q)
    \/ ResponseFinished(q) \/ ClientLeaves(q)

USE DEF Posts, Bodyless

\* Sets of requests are finite.
LEMMA FiniteParts ==
    \A S \in SUBSET Requests : IsFiniteSet(S) /\ Cardinality(S) \in Nat
BY CapacityAssumption, FS_Subset, FS_CardinalityType

LEMMA CountTypes ==
    ASSUME TypeOK, NEW q \in Requests, CountUpstreamFailure(q)
    PROVE  upstreamFailures' \in Nat /\ failureCounted' \in [Requests -> BOOLEAN]
<1>1. \/ UNCHANGED counting
      \/ /\ upstreamFailures' = upstreamFailures + 1
         /\ failureCounted' = [failureCounted EXCEPT ![q] = TRUE]
  BY Zenon DEF CountUpstreamFailure
<1>2. CASE UNCHANGED counting
  BY <1>2 DEF TypeOK, counting
<1>3. CASE /\ upstreamFailures' = upstreamFailures + 1
           /\ failureCounted' = [failureCounted EXCEPT ![q] = TRUE]
  <2>1. upstreamFailures' \in Nat
    BY <1>3, SMT DEF TypeOK
  <2>2. failureCounted' \in [Requests -> BOOLEAN]
    BY <1>3, Zenon DEF TypeOK
  <2> QED
    BY <2>1, <2>2
<1> QED
  BY <1>1, <1>2, <1>3

\* A step of a request keeps the types.
LEMMA StepTypes ==
    ASSUME TypeOK, NEW q \in Requests, Holding(q)
    PROVE  /\ Arrive(q) => TypeOK'
           /\ ForwardBodyless(q) => TypeOK'
           /\ Classify(q) => TypeOK'
           /\ ServerHandles(q) => TypeOK'
           /\ ConnectionFails(q) => TypeOK'
           /\ ResponseHeaders(q) => TypeOK'
           /\ ResponseEnds(q) => TypeOK'
           /\ RequestError(q) => TypeOK'
           /\ ResponseAborted(q) => TypeOK'
           /\ ResponseError(q) => TypeOK'
           /\ ResponseFinished(q) => TypeOK'
           /\ ClientLeaves(q) => TypeOK'
<1> USE DEF TypeOK, asked, server, ledger, counting, streams
<1>1. Arrive(q) => TypeOK'
  BY DEF Arrive, Holding
<1>2. ForwardBodyless(q) => TypeOK'
  BY DEF ForwardBodyless, Forward, HandlerFails, Holding
<1>3. Classify(q) => TypeOK'
  BY FiniteParts
     DEF Classify, AdmitInitialize, ClassifyOther, FixtureResponse, Forward,
         HandlerFails, Larger
<1>4. ServerHandles(q) => TypeOK'
  BY DEF ServerHandles
<1>5. ConnectionFails(q) => TypeOK'
  BY DEF ConnectionFails
<1>6. ResponseHeaders(q) => TypeOK'
  <2> SUFFICES ASSUME ResponseHeaders(q) PROVE TypeOK'
    OBVIOUS
  <2>1. live' \subseteq sessions' /\ sessions' \subseteq Requests
    BY DEF ResponseHeaders
  <2>2. pendingInitializes' \subseteq pendingInitializes
    BY DEF ResponseHeaders, ReleaseAdmission
  <2>3. maxLive' \in Nat /\ maxTotal' \in Nat
    BY <2>1, <2>2, FiniteParts DEF ResponseHeaders, Occupancy, Larger
  <2>4. /\ openGets' \subseteq {r \in Requests : kind'[r] = "get"}
        /\ opened' \in Nat
    BY DEF ResponseHeaders, Streams
  <2> QED
    BY <2>1, <2>2, <2>3, <2>4 DEF ResponseHeaders
<1>7. ResponseEnds(q) => TypeOK'
  BY DEF ResponseEnds, CloseGet
<1>8. RequestError(q) => TypeOK'
  BY CountTypes DEF RequestError, ReleaseAdmission
<1>9. ResponseAborted(q) => TypeOK'
  BY CountTypes DEF ResponseAborted, CloseGet
<1>10. ResponseError(q) => TypeOK'
  BY CountTypes DEF ResponseError, CloseGet
<1>11. ResponseFinished(q) => TypeOK'
  BY DEF ResponseFinished, CloseGet
<1>12. ClientLeaves(q) => TypeOK'
  BY DEF ClientLeaves, CloseGet, ReleaseAdmission, Cut, Open
<1> QED
  BY <1>1, <1>2, <1>3, <1>4, <1>5, <1>6, <1>7, <1>8, <1>9, <1>10, <1>11, <1>12

\* A step keeps the connections and the exchanges in step.
LEMMA StepConnected ==
    ASSUME TypeOK, \A r \in Requests : RequestInv(r),
           NEW q \in Requests, NEW r \in Requests
    PROVE  /\ Arrive(q) => Connected(r)'
           /\ ForwardBodyless(q) => Connected(r)'
           /\ Classify(q) => Connected(r)'
           /\ ServerHandles(q) => Connected(r)'
           /\ ConnectionFails(q) => Connected(r)'
           /\ ResponseHeaders(q) => Connected(r)'
           /\ ResponseEnds(q) => Connected(r)'
           /\ RequestError(q) => Connected(r)'
           /\ ResponseAborted(q) => Connected(r)'
           /\ ResponseError(q) => Connected(r)'
           /\ ResponseFinished(q) => Connected(r)'
           /\ ClientLeaves(q) => Connected(r)'
<1> USE DEF TypeOK, RequestInv, Connected, asked, server, ledger, counting, streams
<1>1. Arrive(q) => Connected(r)'
  BY DEF Arrive
<1>2. ForwardBodyless(q) => Connected(r)'
  BY DEF ForwardBodyless, Forward, HandlerFails
<1>3. Classify(q) => Connected(r)'
  BY DEF Classify, AdmitInitialize, ClassifyOther, FixtureResponse,
     Forward, HandlerFails
<1>4. ServerHandles(q) => Connected(r)'
  BY DEF ServerHandles
<1>5. ConnectionFails(q) => Connected(r)'
  BY DEF ConnectionFails
<1>6. ResponseHeaders(q) => Connected(r)'
  BY DEF ResponseHeaders
<1>7. ResponseEnds(q) => Connected(r)'
  BY DEF ResponseEnds
<1>8. RequestError(q) => Connected(r)'
  BY DEF RequestError
<1>9. ResponseAborted(q) => Connected(r)'
  BY DEF ResponseAborted
<1>10. ResponseError(q) => Connected(r)'
  BY DEF ResponseError
<1>11. ResponseFinished(q) => Connected(r)'
  BY DEF ResponseFinished
<1>12. ClientLeaves(q) => Connected(r)'
  BY DEF ClientLeaves, Cut, Open
<1> QED
  BY <1>1, <1>2, <1>3, <1>4, <1>5, <1>6, <1>7,
     <1>8, <1>9, <1>10, <1>11, <1>12

\* A step takes slots and streams with the exchange they are for.
LEMMA StepHolding ==
    ASSUME TypeOK, \A r \in Requests : RequestInv(r),
           NEW q \in Requests, NEW r \in Requests
    PROVE  /\ Arrive(q) => Holding(r)'
           /\ ForwardBodyless(q) => Holding(r)'
           /\ Classify(q) => Holding(r)'
           /\ ServerHandles(q) => Holding(r)'
           /\ ConnectionFails(q) => Holding(r)'
           /\ ResponseHeaders(q) => Holding(r)'
           /\ ResponseEnds(q) => Holding(r)'
           /\ RequestError(q) => Holding(r)'
           /\ ResponseAborted(q) => Holding(r)'
           /\ ResponseError(q) => Holding(r)'
           /\ ResponseFinished(q) => Holding(r)'
           /\ ClientLeaves(q) => Holding(r)'
<1> USE DEF TypeOK, RequestInv, Holding, Connected, asked, server, ledger,
            counting, streams
<1>1. Arrive(q) => Holding(r)'
  BY DEF Arrive
<1>2. ForwardBodyless(q) => Holding(r)'
  BY DEF ForwardBodyless, Forward, HandlerFails
<1>3. Classify(q) => Holding(r)'
  BY DEF Classify, AdmitInitialize, ClassifyOther, FixtureResponse,
     Forward, HandlerFails
<1>4. ServerHandles(q) => Holding(r)'
  BY DEF ServerHandles
<1>5. ConnectionFails(q) => Holding(r)'
  BY DEF ConnectionFails
<1>6. ResponseHeaders(q) => Holding(r)'
  BY DEF ResponseHeaders, ReleaseAdmission, Streams
<1>7. ResponseEnds(q) => Holding(r)'
  BY DEF ResponseEnds, CloseGet
<1>8. RequestError(q) => Holding(r)'
  BY DEF RequestError, ReleaseAdmission
<1>9. ResponseAborted(q) => Holding(r)'
  BY DEF ResponseAborted, CloseGet
<1>10. ResponseError(q) => Holding(r)'
  BY DEF ResponseError, CloseGet
<1>11. ResponseFinished(q) => Holding(r)'
  BY DEF ResponseFinished, CloseGet
<1>12. ClientLeaves(q) => Holding(r)'
  BY DEF ClientLeaves, CloseGet, ReleaseAdmission, Cut, Open
<1> QED
  BY <1>1, <1>2, <1>3, <1>4, <1>5, <1>6, <1>7,
     <1>8, <1>9, <1>10, <1>11, <1>12

\* A step keeps the proxy's ledger and the server's sessions together.
LEMMA StepLedger ==
    ASSUME TypeOK, \A r \in Requests : RequestInv(r),
           NEW q \in Requests, NEW r \in Requests
    PROVE  /\ Arrive(q) => Ledger(r)'
           /\ ForwardBodyless(q) => Ledger(r)'
           /\ Classify(q) => Ledger(r)'
           /\ ServerHandles(q) => Ledger(r)'
           /\ ConnectionFails(q) => Ledger(r)'
           /\ ResponseHeaders(q) => Ledger(r)'
           /\ ResponseEnds(q) => Ledger(r)'
           /\ RequestError(q) => Ledger(r)'
           /\ ResponseAborted(q) => Ledger(r)'
           /\ ResponseError(q) => Ledger(r)'
           /\ ResponseFinished(q) => Ledger(r)'
           /\ ClientLeaves(q) => Ledger(r)'
<1> USE DEF TypeOK, RequestInv, Ledger, Connected, Issues, Releases, asked, server,
       ledger, counting, streams
<1>1. Arrive(q) => Ledger(r)'
  BY DEF Arrive
<1>2. ForwardBodyless(q) => Ledger(r)'
  BY DEF ForwardBodyless, Forward, HandlerFails
<1>3. Classify(q) => Ledger(r)'
  BY DEF Classify, AdmitInitialize, ClassifyOther, FixtureResponse,
     Forward, HandlerFails
<1>4. ServerHandles(q) => Ledger(r)'
  BY CapacityAssumption DEF ServerHandles
<1>5. ConnectionFails(q) => Ledger(r)'
  BY DEF ConnectionFails
<1>6. ResponseHeaders(q) => Ledger(r)'
  BY DEF ResponseHeaders
<1>7. ResponseEnds(q) => Ledger(r)'
  BY DEF ResponseEnds
<1>8. RequestError(q) => Ledger(r)'
  BY DEF RequestError
<1>9. ResponseAborted(q) => Ledger(r)'
  BY DEF ResponseAborted
<1>10. ResponseError(q) => Ledger(r)'
  BY DEF ResponseError
<1>11. ResponseFinished(q) => Ledger(r)'
  BY DEF ResponseFinished
<1>12. ClientLeaves(q) => Ledger(r)'
  BY DEF ClientLeaves, Cut, Open
<1> QED
  BY <1>1, <1>2, <1>3, <1>4, <1>5, <1>6, <1>7,
     <1>8, <1>9, <1>10, <1>11, <1>12

\* Cardinalities are monotone and grow one element at a time.
LEMMA Sizes ==
    /\ \A S, T \in SUBSET Requests :
           S \subseteq T => Cardinality(S) <= Cardinality(T)
    /\ \A S \in SUBSET Requests, q \in Requests :
           /\ q \notin S => Cardinality(S \cup {q}) = Cardinality(S) + 1
           /\ q \in S => Cardinality(S \ {q}) = Cardinality(S) - 1
           /\ q \in S => Cardinality(S \cup {q}) = Cardinality(S)
           /\ q \notin S => S \ {q} = S
<1>1. ASSUME NEW T \in SUBSET Requests, NEW S \in SUBSET T
      PROVE  Cardinality(S) <= Cardinality(T)
  BY FiniteParts, FS_Subset
<1>2. ASSUME NEW S \in SUBSET Requests, NEW q \in Requests
      PROVE  /\ q \notin S => Cardinality(S \cup {q}) = Cardinality(S) + 1
             /\ q \in S => Cardinality(S \ {q}) = Cardinality(S) - 1
             /\ q \in S => Cardinality(S \cup {q}) = Cardinality(S)
  <2>1. IsFiniteSet(S)
    BY FiniteParts
  <2>2. Cardinality(S \cup {q}) = IF q \in S THEN Cardinality(S)
                                  ELSE Cardinality(S) + 1
    BY <2>1, FS_AddElement
  <2>3. Cardinality(S \ {q}) = IF q \in S THEN Cardinality(S) - 1
                               ELSE Cardinality(S)
    BY <2>1, FS_RemoveElement
  <2> QED
    BY <2>2, <2>3
<1> QED
  BY <1>1, <1>2

\* Giving slots and sessions back keeps the peaks.
LEMMA PeaksShrink ==
    ASSUME TypeOK, PeaksWithinCap, UNCHANGED <<maxLive, maxTotal>>,
           live' \subseteq live,
           pendingInitializes' \subseteq pendingInitializes
    PROVE  PeaksWithinCap'
<1>1. /\ live \in SUBSET Requests /\ live' \in SUBSET Requests
      /\ pendingInitializes \in SUBSET Requests
      /\ pendingInitializes' \in SUBSET Requests
  BY DEF TypeOK
<1>2. /\ Cardinality(live') <= Cardinality(live)
      /\ Cardinality(pendingInitializes') <= Cardinality(pendingInitializes)
  BY <1>1, Sizes
<1> QED
  BY <1>1, <1>2, FiniteParts, CapacityAssumption DEF TypeOK, PeaksWithinCap

\* An admission takes a place only while there is one.
LEMMA AdmissionPeaks ==
    ASSUME TypeOK, PeaksWithinCap, NEW q \in Requests, RequestInv(q),
           Classify(q)
    PROVE  PeaksWithinCap'
<1> USE DEF PeaksWithinCap
<1>1. /\ live' = live /\ live \in SUBSET Requests
      /\ pendingInitializes \in SUBSET Requests
      /\ q \notin pendingInitializes
  BY DEF Classify, TypeOK, RequestInv, Holding
<1>2. /\ Cardinality(live) \in Nat /\ Cardinality(pendingInitializes) \in Nat
      /\ maxLive \in Nat /\ maxTotal \in Nat /\ Cap \in Nat
      /\ Cardinality(pendingInitializes \cup {q}) =
             Cardinality(pendingInitializes) + 1
  BY <1>1, FiniteParts, Sizes, CapacityAssumption DEF TypeOK
<1>3. CASE UNCHANGED <<pendingInitializes, maxLive, maxTotal>>
  BY <1>1, <1>3
<1>4. CASE /\ ~ CapReached
           /\ maxLive' = Larger(maxLive, Cardinality(live))
           /\ maxTotal' = Larger(maxTotal,
                  Cardinality(live) + Cardinality(pendingInitializes) + 1)
           /\ \/ pendingInitializes' = pendingInitializes
              \/ pendingInitializes' = pendingInitializes \cup {q}
  BY <1>1, <1>2, <1>4 DEF CapReached, Larger
<1> QED
  BY <1>3, <1>4 DEF Classify, AdmitInitialize, ClassifyOther, FixtureResponse

\* A session that is issued takes its request's place.
LEMMA IssuePeaks ==
    ASSUME TypeOK, PeaksWithinCap, NEW q \in Requests, RequestInv(q),
           ResponseHeaders(q)
    PROVE  PeaksWithinCap'
<1>1. CASE Issues(q)
  <2> USE DEF PeaksWithinCap
  <2>1. /\ live' = live \cup {q}
        /\ pendingInitializes' = pendingInitializes \ {q}
        /\ q \in pendingInitializes
        /\ live \in SUBSET Requests /\ pendingInitializes \in SUBSET Requests
    BY <1>1 DEF ResponseHeaders, Issues, Releases, ReleaseAdmission, TypeOK,
       RequestInv, Holding
  <2>2. /\ Cardinality(live) \in Nat
        /\ Cardinality(pendingInitializes) \in Nat
        /\ Cardinality(live') \in Nat
        /\ Cardinality(pendingInitializes') \in Nat
        /\ Cardinality(live') <= Cardinality(live) + 1
        /\ Cardinality(pendingInitializes') =
               Cardinality(pendingInitializes) - 1
        /\ maxLive \in Nat /\ maxTotal \in Nat /\ Cap \in Nat
    BY <2>1, FiniteParts, Sizes, CapacityAssumption DEF TypeOK
  <2>3. /\ maxLive' = Larger(maxLive, Cardinality(live'))
        /\ maxTotal' = Larger(maxTotal,
               Cardinality(live') + Cardinality(pendingInitializes'))
    BY <1>1 DEF ResponseHeaders, Occupancy
  <2> QED
    BY <2>2, <2>3 DEF Larger
<1>2. CASE ~ Issues(q)
  <2>1. /\ UNCHANGED <<maxLive, maxTotal>> /\ live' \subseteq live
        /\ pendingInitializes' \subseteq pendingInitializes
    BY <1>2 DEF ResponseHeaders, ReleaseAdmission
  <2> QED
    BY <2>1, PeaksShrink
<1> QED
  BY <1>1, <1>2

LEMMA StepPeaks ==
    ASSUME TypeOK, PeaksWithinCap, NEW q \in Requests, RequestInv(q),
           Exchange(q)
    PROVE  PeaksWithinCap'
<1>1. CASE Classify(q)
  BY <1>1, AdmissionPeaks
<1>2. CASE ResponseHeaders(q)
  BY <1>2, IssuePeaks
<1>3. ASSUME ~ Classify(q), ~ ResponseHeaders(q)
      PROVE  /\ UNCHANGED <<maxLive, maxTotal>> /\ live' \subseteq live
             /\ pendingInitializes' \subseteq pendingInitializes
  BY <1>3 DEF Exchange, Arrive, ForwardBodyless, ServerHandles,
     ConnectionFails, ResponseEnds, RequestError, ResponseAborted,
     ResponseError, ResponseFinished, ClientLeaves, ReleaseAdmission, ledger
<1> QED
  BY <1>1, <1>2, <1>3, PeaksShrink

\* Whichever callback finds a stream over, it is counted as closed once.
LEMMA CloseBalanced ==
    ASSUME TypeOK, Balanced, NEW q \in Requests, CloseGet(q), opened' = opened
    PROVE  Balanced'
<1>1. openGets \in SUBSET Requests
  BY DEF TypeOK
<1> QED
  BY <1>1, Sizes, FiniteParts DEF CloseGet, Balanced, TypeOK

LEMMA StepBalanced ==
    ASSUME TypeOK, Balanced, NEW q \in Requests, RequestInv(q), Exchange(q)
    PROVE  Balanced'
<1>1. CASE ResponseHeaders(q)
  <2>1. openGets \in SUBSET Requests /\ q \notin openGets
    BY <1>1 DEF TypeOK, ResponseHeaders, RequestInv, Holding
  <2> QED
    BY <1>1, <2>1, Sizes, FiniteParts DEF ResponseHeaders, Balanced, TypeOK
<1>2. CASE CloseGet(q) /\ opened' = opened
  BY <1>2, CloseBalanced
<1>3. CASE UNCHANGED streams
  BY <1>3 DEF Balanced, streams
<1> QED
  BY <1>1, <1>2, <1>3 DEF Exchange, Arrive, ForwardBodyless, Classify,
     ServerHandles, ConnectionFails, ResponseEnds, RequestError,
     ResponseAborted, ResponseError, ResponseFinished, ClientLeaves

\* Every count is of a request of its own that failed.
LEMMA CountKept ==
    ASSUME TypeOK, TypeOK', upstreamFailures <= Cardinality(Counted),
           UNCHANGED upstreamFailures, Counted \subseteq Counted'
    PROVE  upstreamFailures' <= Cardinality(Counted')
<1>1. Counted \in SUBSET Requests /\ Counted' \in SUBSET Requests
  BY DEF Counted, TypeOK
<1>2. Cardinality(Counted) <= Cardinality(Counted')
  BY <1>1, Sizes
<1> QED
  BY <1>1, <1>2, FiniteParts DEF TypeOK

LEMMA CountGrows ==
    ASSUME TypeOK, TypeOK', upstreamFailures <= Cardinality(Counted),
           NEW q \in Requests, q \notin Counted,
           upstreamFailures' \in {upstreamFailures, upstreamFailures + 1},
           Counted \cup {q} \subseteq Counted'
    PROVE  upstreamFailures' <= Cardinality(Counted')
<1>1. Counted \in SUBSET Requests /\ Counted' \in SUBSET Requests
  BY DEF Counted, TypeOK
<1>2. /\ Cardinality(Counted \cup {q}) <= Cardinality(Counted')
      /\ Cardinality(Counted \cup {q}) = Cardinality(Counted) + 1
  BY <1>1, Sizes
<1> QED
  BY <1>1, <1>2, FiniteParts DEF TypeOK

\* A callback counts a failure that is one, and not for the second time.
LEMMA CallbackCounted ==
    ASSUME TypeOK, TypeOK', NEW q \in Requests,
           upstreamFailures <= Cardinality(Counted),
           CountUpstreamFailure(q), UNCHANGED faults,
           q \in faults \/ Cancelled(q) \/ stopping,
           link[q] # "none", link'[q] # "none",
           \A r \in Requests \ {q} : link'[r] = link[r]
    PROVE  upstreamFailures' <= Cardinality(Counted')
<1> USE DEF TypeOK, Counted
<1>1. CASE UNCHANGED counting
  <2>1. Counted \subseteq Counted'
    BY <1>1 DEF counting
  <2> QED
    BY <1>1, <2>1, CountKept DEF counting
<1>2. CASE ~ UNCHANGED counting
  <2>1. /\ ~ failureCounted[q] /\ ~ Cancelled(q) /\ ~ stopping
        /\ upstreamFailures' = upstreamFailures + 1
        /\ failureCounted' = [failureCounted EXCEPT ![q] = TRUE]
    BY <1>2, Zenon DEF CountUpstreamFailure
  <2>2. q \in faults
    BY <2>1
  <2>3. q \notin Counted /\ Counted \cup {q} \subseteq Counted'
    BY <2>1, <2>2
  <2> QED
    BY <2>1, <2>3, CountGrows
<1> QED
  BY <1>1, <1>2

LEMMA StepCounted ==
    ASSUME TypeOK, TypeOK', NEW q \in Requests, RequestInv(q),
           upstreamFailures <= Cardinality(Counted), Exchange(q)
    PROVE  upstreamFailures' <= Cardinality(Counted')
<1> USE DEF RequestInv, Connected
<1>1. CASE RequestError(q) \/ ResponseAborted(q) \/ ResponseError(q)
  <2>1. /\ CountUpstreamFailure(q) /\ UNCHANGED faults
        /\ q \in faults \/ Cancelled(q) \/ stopping
        /\ link[q] # "none" /\ link'[q] # "none"
        /\ \A r \in Requests \ {q} : link'[r] = link[r]
    BY <1>1 DEF RequestError, ResponseAborted, ResponseError, Cancelled,
       TypeOK
  <2> QED
    BY <2>1, CallbackCounted
<1>2. CASE /\ HandlerFails(q) /\ UNCHANGED failureCounted
           /\ pc[q] \in {"idle", "reading"}
  <2>1. q \notin Counted /\ Counted \cup {q} \subseteq Counted'
    BY <1>2 DEF HandlerFails, Counted, TypeOK
  <2>2. upstreamFailures' \in {upstreamFailures, upstreamFailures + 1}
    BY <1>2 DEF HandlerFails, TypeOK
  <2> QED
    BY <2>1, <2>2, CountGrows
<1>3. CASE /\ UNCHANGED <<upstreamFailures, failureCounted>>
           /\ Counted \subseteq Counted'
  BY <1>3, CountKept
<1>4. CASE /\ Forward(q) /\ UNCHANGED failureCounted
           /\ pc[q] \in {"idle", "reading"}
  <2>1. Counted \subseteq Counted'
    BY <1>4 DEF Forward, Counted, TypeOK
  <2> QED
    BY <1>4, <2>1, <1>3 DEF Forward
<1>5. CASE Arrive(q) \/ ServerHandles(q) \/ ResponseHeaders(q)
           \/ ResponseFinished(q)
  BY <1>3, <1>5 DEF Arrive, ServerHandles, ResponseHeaders, ResponseFinished,
     Counted, counting
<1>6. CASE ConnectionFails(q) \/ ResponseEnds(q) \/ ClientLeaves(q)
  <2>1. Counted \subseteq Counted'
    BY <1>6 DEF ConnectionFails, ResponseEnds, ClientLeaves, Counted,
       counting, Cut, TypeOK
  <2> QED
    BY <1>3, <1>6, <2>1 DEF ConnectionFails, ResponseEnds, ClientLeaves,
       counting
<1>7. CASE ForwardBodyless(q)
  BY <1>2, <1>4, <1>7 DEF ForwardBodyless
<1>8. CASE Classify(q)
  <2>1. CASE FixtureResponse(q)
    BY <1>3, <1>8, <2>1 DEF Classify, FixtureResponse, Counted
  <2> QED
    BY <1>2, <1>4, <1>8, <2>1 DEF Classify, AdmitInitialize, ClassifyOther
<1> QED
  BY <1>1, <1>5, <1>6, <1>7, <1>8 DEF Exchange

\* The initial states satisfy the invariant, and every step keeps it.
LEMMA InitIInv == Init => IInv
<1> SUFFICES ASSUME Init PROVE IInv
  OBVIOUS
<1>1. TypeOK
  BY DEF Init, TypeOK
<1>2. \A q \in Requests : RequestInv(q)
  BY DEF Init, RequestInv, Connected, Holding, Ledger, Issues, Releases
<1>3. PeaksWithinCap /\ Balanced
  BY FS_EmptySet, CapacityAssumption DEF Init, PeaksWithinCap, Balanced
<1>4. upstreamFailures <= Cardinality(Counted)
  <2>1. Counted = {} /\ upstreamFailures = 0
    BY DEF Init, Counted
  <2> QED
    BY <2>1, FS_EmptySet
<1> QED
  BY <1>1, <1>2, <1>3, <1>4 DEF IInv

LEMMA CloseStep ==
    ASSUME IInv, Close
    PROVE  IInv'
<1> USE DEF IInv, asked, server, ledger, streams, counting
<1>1. TypeOK'
  BY DEF Close, TypeOK, Cut
<1>2. ASSUME NEW q \in Requests PROVE RequestInv(q)'
  BY DEF Close, TypeOK, Cut, RequestInv, Connected, Holding, Ledger, Issues,
     Releases
<1>3. PeaksWithinCap' /\ Balanced'
  BY DEF Close, PeaksWithinCap, Balanced
<1>4. Counted' = Counted
  BY DEF Close, Counted, Cut, TypeOK
<1>5. upstreamFailures' <= Cardinality(Counted')
  BY <1>4 DEF Close
<1> QED
  BY <1>1, <1>2, <1>3, <1>5

LEMMA StepIInv == IInv /\ [Next]_vars => IInv'
<1> SUFFICES ASSUME IInv, [Next]_vars PROVE IInv'
  OBVIOUS
<1>1. ASSUME NEW q \in Requests, Exchange(q) PROVE IInv'
  <2> USE DEF IInv
  <2>1. TypeOK'
    BY <1>1, StepTypes DEF Exchange, RequestInv
  <2>2. ASSUME NEW r \in Requests PROVE RequestInv(r)'
    BY <1>1, StepConnected, StepHolding, StepLedger DEF Exchange, RequestInv
  <2>3. PeaksWithinCap' /\ Balanced'
    BY <1>1, StepPeaks, StepBalanced
  <2>4. upstreamFailures' <= Cardinality(Counted')
    BY <1>1, <2>1, StepCounted
  <2> QED
    BY <2>1, <2>2, <2>3, <2>4
<1>2. CASE UNCHANGED vars
  BY <1>2 DEF vars, asked, server, ledger, counting, streams, IInv, TypeOK,
     RequestInv, Connected, Holding, Ledger, Issues, Releases,
     PeaksWithinCap, Balanced, Counted
<1> QED
  BY <1>1, <1>2, CloseStep DEF Next, Exchange, Closed

\* The server's sessions are counted by the proxy, under way, or abandoned.
LEMMA IInvUpstream == IInv => UpstreamWithinCap
<1> SUFFICES ASSUME IInv PROVE UpstreamWithinCap
  OBVIOUS
<1> DEFINE held == live \cup pendingInitializes
<1>1. /\ live \in SUBSET Requests /\ pendingInitializes \in SUBSET Requests
      /\ Abandoned \in SUBSET Requests /\ alive \in SUBSET Requests
      /\ held \in SUBSET Requests /\ held \cup Abandoned \in SUBSET Requests
  BY DEF IInv, TypeOK, Abandoned
<1>2. alive \subseteq held \cup Abandoned
  BY DEF IInv, TypeOK, RequestInv, Connected, Holding, Ledger, Issues,
     Abandoned
<1>3. Cardinality(alive) <= Cardinality(held \cup Abandoned)
  BY <1>1, <1>2, Sizes
<1>4. ASSUME NEW S \in SUBSET Requests, NEW T \in SUBSET Requests
      PROVE  Cardinality(S \cup T) <= Cardinality(S) + Cardinality(T)
  <2>1. /\ IsFiniteSet(S) /\ IsFiniteSet(T)
        /\ Cardinality(S) \in Nat /\ Cardinality(T) \in Nat
        /\ Cardinality(S \cap T) \in Nat
    BY FiniteParts
  <2>2. Cardinality(S \cup T) =
            Cardinality(S) + Cardinality(T) - Cardinality(S \cap T)
    BY <2>1, FS_Union
  <2> QED
    BY <2>1, <2>2
<1>5. /\ Cardinality(held \cup Abandoned)
             <= Cardinality(held) + Cardinality(Abandoned)
      /\ Cardinality(held)
             <= Cardinality(live) + Cardinality(pendingInitializes)
  BY <1>1, <1>4
<1>6. /\ Cardinality(live) + Cardinality(pendingInitializes) <= maxTotal
      /\ maxTotal <= Cap /\ maxTotal \in Nat /\ Cap \in Nat
  BY CapacityAssumption DEF IInv, PeaksWithinCap, TypeOK
<1>7. /\ Cardinality(alive) \in Nat
      /\ Cardinality(held \cup Abandoned) \in Nat
      /\ Cardinality(held) \in Nat /\ Cardinality(Abandoned) \in Nat
      /\ Cardinality(live) \in Nat
      /\ Cardinality(pendingInitializes) \in Nat
  BY <1>1, FiniteParts
<1> HIDE DEF held
<1> QED
  BY <1>3, <1>5, <1>6, <1>7 DEF UpstreamWithinCap

LEMMA IInvCounts == IInv => CountsAreTrue
<1> SUFFICES ASSUME IInv PROVE CountsAreTrue
  OBVIOUS
<1>1. \A q \in pendingInitializes \cup openGets : Open(q)
  BY DEF IInv, TypeOK, RequestInv, Holding, Open
<1>2. Counted \in SUBSET Requests /\ faults \in SUBSET Requests
      /\ Counted \subseteq faults
  BY DEF IInv, TypeOK, Counted
<1>3. /\ Cardinality(Counted) <= Cardinality(faults)
      /\ Cardinality(Counted) \in Nat /\ Cardinality(faults) \in Nat
  BY <1>2, Sizes, FiniteParts
<1> QED
  BY <1>1, <1>3 DEF IInv, Balanced, CountsAreTrue, TypeOK

\* Requests, connections, sets and counts keep their types.
THEOREM ProxyTypeCorrect == Spec => []TypeOK
<1>1. IInv => TypeOK
  BY DEF IInv
<1> QED
  BY <1>1, InitIInv, StepIInv, PTL DEF Spec

\* The cap: sessions not released and initializations under way never exceed
\* it together, however many requests there are and however they interleave.
THEOREM CapHolds == Spec => []PeaksWithinCap
<1>1. IInv => PeaksWithinCap
  BY DEF IInv
<1> QED
  BY <1>1, InitIInv, StepIInv, PTL DEF Spec

\* The server behind the proxy is within the cap, but for the sessions whose
\* initialize was abandoned.
THEOREM ServerWithinCap == Spec => []UpstreamWithinCap
<1> QED
  BY IInvUpstream, InitIInv, StepIInv, PTL DEF Spec

\* The counts of streams and failures in every snapshot are true.
THEOREM CountsTrue == Spec => []CountsAreTrue
<1> QED
  BY IInvCounts, InitIInv, StepIInv, PTL DEF Spec
=============================================================================
