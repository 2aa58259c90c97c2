------------------------- MODULE SoleSessionProofs -------------------------
(***************************************************************************)
(* Theorems about RequestDispatch for a client with a single session: what *)
(* a lone probeCallback on probeResponseChan guarantees.  With a second    *)
(* session the responses of one can leave through the other, and none of   *)
(* these theorems holds.                                                   *)
(***************************************************************************)
EXTENDS RequestDispatchProofs

SoleSession == \A s, t \in Sessions : s = t

\* A transport that has been closed, by either side, is not up any more.
InvClosed ==
    \A t \in Sessions : closeReceived[t] \/ inputClosed[t] => ws[t] # "open"

\* An endpoint stays on its connection; a request came on a connection.
InvOrigin ==
    /\ \A s \in Sessions : epOn[s] = s
    /\ \A r \in Requests : asked[r] # NilFrame => origin[r] \in Sessions

\* KeepAlives are for a discovery whose probe has been called.
InvKeepAlive ==
    \A r \in Requests :
        keepAlive[r] # "none" =>
            /\ handler[r] \notin {"none", "lookup"}
            /\ Answerable(r)
            /\ asked[r].kind = "Discovery"

\* A held result is the probe's response, held progress that of a running action.
InvMessage ==
    \A s \in Sessions, r \in Requests :
        held[s].id = r =>
            /\ held[s].kind = "result" => held[s].ok = reply[r]
            /\ held[s].kind = "progress" => handler[r] \in {"calling", "reporting", "respond"}

(***************************************************************************)
(* The inductive invariant for a single session: DispatchInv knows which   *)
(* final messages are where; the rest relates them to the state of the     *)
(* connection and to the progress still under way.                         *)
(***************************************************************************)
SoleInv ==
    DispatchInv /\ InvClosed /\ InvOrigin /\ InvKeepAlive /\ InvMessage /\ DroppedOnlyIfLost

-----------------------------------------------------------------------------
\* The invariant of a sole session holds when it starts.
LEMMA SoleInitInv == DispatchInit => SoleInv
  <1> SUFFICES ASSUME DispatchInit
               PROVE  SoleInv
    OBVIOUS
  <1>1. InvClosed /\ InvOrigin /\ InvKeepAlive
    BY DEF DispatchInit, InvClosed, InvOrigin, InvKeepAlive
  <1>2. InvMessage /\ DroppedOnlyIfLost
    BY NoMessageFacts DEF DispatchInit, InvMessage, DroppedOnlyIfLost
  <1>3. QED
    BY <1>1, <1>2, DispatchInitInv DEF SoleInv

\* No step opens a connection again, or closes one and leaves it up.
LEMMA ClosedKept ==
    ASSUME DispatchTypeOK, InvClosed, [DispatchNext]_dispatchVars
    PROVE  InvClosed' /\ \A t \in Sessions : ws[t] # "open" => ws'[t] # "open"
  <1> USE DEF InvClosed
  <1>0. /\ ws \in [Sessions -> {"none", "open", "broken", "closed"}]
        /\ inputClosed \in [Sessions -> BOOLEAN]
        /\ closeReceived \in [Sessions -> BOOLEAN]
    BY DEF DispatchTypeOK, TransportTypeOK
  <1>1. CASE UNCHANGED <<ws, inputClosed, closeReceived>>
    BY <1>1
  <1>2. ASSUME NEW t \in Sessions, RxFail(t)
        PROVE  InvClosed' /\ \A u \in Sessions : ws[u] # "open" => ws'[u] # "open"
    BY <1>0, <1>2 DEF RxFail
  <1>3. ASSUME NEW t \in Sessions, PeerLost(t)
        PROVE  InvClosed' /\ \A u \in Sessions : ws[u] # "open" => ws'[u] # "open"
    BY <1>0, <1>3 DEF PeerLost
  <1>4. ASSUME NEW t \in Sessions, CloseTransportPoint(t)
        PROVE  InvClosed' /\ \A u \in Sessions : ws[u] # "open" => ws'[u] # "open"
    <2>1. CASE inputClosed[t]
      BY <1>0, <1>4, <2>1 DEF CloseTransportPoint
    <2>2. CASE ~inputClosed[t]
      BY <1>0, <1>4, <2>2 DEF CloseTransportPoint
    <2>3. QED
      BY <2>1, <2>2
  <1>5. ASSUME NEW s \in Sessions, SessionStep(s)
        PROVE  \/ UNCHANGED <<ws, inputClosed, closeReceived>>
               \/ RxFail(s) \/ PeerLost(s)
    <2>1. CASE Transports(s)
      BY <2>1 DEF Transports, TransportStep, RxReceive, RxSendsOnClosed
    <2>2. CASE Endpoints(s)
      BY <2>2 DEF Endpoints, EndpointStep, EpReceive, EpFindsClosed, Delivers, transportVars
    <2>3. CASE DropsUnhandled(s) \/ Dispatches(s) \/ CallbackSends(s) \/ LosesConnection(s)
      BY <2>3 DEF DropsUnhandled, Dispatches, CallbackSends, LosesConnection, transportVars
    <2>4. CASE \E r \in Requests : ServerAsks(s, r)
      BY <2>4 DEF ServerAsks, ServerPuts
    <2>5. QED
      BY <1>5, <2>1, <2>2, <2>3, <2>4 DEF SessionStep
  <1>6. ASSUME NEW r \in Requests, HandlerStep(r)
        PROVE  UNCHANGED <<ws, inputClosed, closeReceived>>
    BY <1>6 DEF HandlerStep, Abandons, CallsProbe, UpdatesProgress, ProbeReturns,
       HandsProgress, HandsResult, HandsCompletion, ClosesStopCh, HandsKeepAlive, TimerFires,
       KeepAliveStops, transportVars
  <1>7. CASE UNCHANGED dispatchVars
    BY <1>7 DEF dispatchVars, transportVars
  <1>8. CASE CloseContainer
    BY <1>4, <1>8, DispatchAssumption DEF CloseContainer
  <1>9. QED
    BY <1>1, <1>2, <1>3, <1>5, <1>6, <1>7, <1>8 DEF DispatchNext

(***************************************************************************)
(* A step that asks for nothing, sends nothing and starts no handler but   *)
(* for a dispatched request keeps the relations of SoleInv.                *)
(***************************************************************************)
LEMMA SoleKept ==
    ASSUME SoleInv, InvClosed', \A t \in Sessions : ws[t] # "open" => ws'[t] # "open",
           UNCHANGED <<epOn, requestVars, reply, keepAlive, held, dropped>>,
           \A r \in Requests : handler'[r] = handler[r] \/ handler[r] = "none"
    PROVE  InvOrigin' /\ InvKeepAlive' /\ InvMessage' /\ DroppedOnlyIfLost'
  <1>1. InvOrigin'
    BY DEF SoleInv, InvOrigin, requestVars
  <1>2. \A r \in Requests : Answerable(r)' = Answerable(r)
    BY DEF Answerable, requestVars
  <1>3. InvKeepAlive'
    BY <1>2 DEF SoleInv, InvKeepAlive, requestVars
  <1>4. InvMessage'
    BY DEF SoleInv, InvMessage
  <1>5. \A r \in Requests : OriginLost(r) => OriginLost(r)'
    BY DEF OriginLost, requestVars
  <1>6. DroppedOnlyIfLost'
    BY <1>5 DEF SoleInv, DroppedOnlyIfLost
  <1>7. QED
    BY <1>1, <1>3, <1>4, <1>6

\* No step of the sole session, or of its server, breaks its invariant.
LEMMA SoleSessionStep ==
    ASSUME SoleSession, SoleInv, NEW s \in Sessions, SessionStep(s), InvClosed',
           \A t \in Sessions : ws[t] # "open" => ws'[t] # "open"
    PROVE  InvOrigin' /\ InvKeepAlive' /\ InvMessage' /\ DroppedOnlyIfLost'
  <1>1. DispatchTypeOK /\ WayInv /\ HandInv
    BY DEF SoleInv, DispatchInv, WayInv, HandInv
  <1>2. CASE Transports(s)
    BY <1>2, SoleKept DEF Transports, endpointVars, handlerVars, callbackVars, historyVars
  <1>3. CASE Endpoints(s)
    <2>1. UNCHANGED epOn
      BY <1>3 DEF Endpoints, EndpointStep, EpReceive, EpFindsClosed
    <2>2. QED
      BY <1>3, <2>1, SoleKept DEF Endpoints, handlerVars, callbackVars, historyVars
  <1>4. CASE DropsUnhandled(s)
    BY <1>4, SoleKept DEF DropsUnhandled, EpDelivers, handlerVars, callbackVars, historyVars
  <1>5. CASE Dispatches(s)
    <2>1. \A r \in Requests : handler'[r] = handler[r] \/ handler[r] = "none"
      BY <1>1, <1>5 DEF Dispatches, EpDelivers, WayInv, InvWay, Waiting, DispatchTypeOK
    <2>2. QED
      BY <1>5, <2>1, SoleKept DEF Dispatches, EpDelivers, callbackVars, historyVars
  <1>6. CASE LosesConnection(s)
    BY <1>6, SoleKept
    DEF LosesConnection, endpointVars, handlerVars, callbackVars, historyVars
  <1>7. ASSUME NEW r \in Requests, ServerAsks(s, r)
        PROVE  InvOrigin' /\ InvKeepAlive' /\ InvMessage' /\ DroppedOnlyIfLost'
    <2>1. /\ asked[r] = NilFrame /\ origin'[r] = s
          /\ \A q \in Requests \ {r} : asked'[q] = asked[q] /\ origin'[q] = origin[q]
          /\ UNCHANGED <<epOn, handler, reply, keepAlive, held, dropped>>
      BY <1>1, <1>7 DEF ServerAsks, DispatchTypeOK, endpointVars, handlerVars, callbackVars,
         historyVars
    <2>2. handler[r] = "none" /\ Handed(r) = {}
      BY <1>1, <2>1 DEF HandInv, InvHandler, HandedBy, HandlerKinds, NilFrame, Plain
    <2>3. "result" \notin dropped[r]
      BY <2>2 DEF Handed, Settled
    <2>4. InvOrigin'
      BY <2>1 DEF SoleInv, InvOrigin
    <2>5. InvKeepAlive'
      <3>1. \A q \in Requests \ {r} : Answerable(q)' = Answerable(q)
        BY <2>1 DEF Answerable
      <3>2. QED
        BY <2>1, <2>2, <3>1 DEF SoleInv, InvKeepAlive
    <2>6. InvMessage'
      BY <2>1 DEF SoleInv, InvMessage
    <2>7. \A q \in Requests \ {r} : OriginLost(q) => OriginLost(q)'
      BY <2>1 DEF OriginLost
    <2>8. DroppedOnlyIfLost'
      BY <2>1, <2>3, <2>7 DEF SoleInv, DroppedOnlyIfLost
    <2>9. QED
      BY <2>4, <2>5, <2>6, <2>8
  \* The callback drops a response of the probe only if its own connection is gone.
  <1>8. CASE CallbackSends(s)
    <2>1. UNCHANGED <<transportVars, endpointVars, requestVars, handlerVars>>
      BY <1>8 DEF CallbackSends, Records
    <2>2. PICK r \in Requests, k \in MessageKinds : held[s].id = r /\ held[s].kind = k
      BY <1>1, <1>8 DEF CallbackSends, HandInv, InvCallback, DispatchTypeOK, Message
    <2>3. /\ held'[s] = NoMessage
          /\ \A u \in Sessions \ {s} : held'[u] = held[u]
      BY <1>1, <1>8 DEF CallbackSends, DispatchTypeOK
    <2>4. InvOrigin' /\ InvKeepAlive'
      BY <2>1 DEF SoleInv, InvOrigin, InvKeepAlive, Answerable, endpointVars, requestVars,
         handlerVars
    <2>5. InvMessage'
      BY <2>1, <2>3, NoMessageFacts DEF SoleInv, InvMessage, handlerVars
    <2>6. \A q \in Requests : OriginLost(q)' = OriginLost(q)
      BY <2>1 DEF OriginLost, transportVars, requestVars
    <2>7. CASE held[s].ok /\ Transmits(epOn[s])
      <3>1. UNCHANGED dropped
        BY <1>8, <2>7 DEF CallbackSends, Records
      <3>2. QED
        BY <2>1, <2>4, <2>5, <2>6, <3>1 DEF SoleInv, DroppedOnlyIfLost, handlerVars
    <2>8. CASE ~(held[s].ok /\ Transmits(epOn[s]))
      <3>1. dropped' = [dropped EXCEPT ![r] = @ \cup ({k} \cap FinalKinds)]
        BY <1>8, <2>2, <2>8 DEF CallbackSends, Records
      <3>2. ASSUME k = "result", reply[r]
            PROVE  OriginLost(r)
        <4>1. ~Transmits(s) /\ ws[s] # "open"
          BY <2>2, <2>8, <3>2
          DEF SoleInv, InvMessage, InvOrigin, InvClosed, Transmits
        <4>2. asked[r] # NilFrame
          BY <1>1, <2>2, <3>2, HandedMembers
          DEF FinalKinds, HandInv, InvHandler, HandedBy, HandlerKinds, NilFrame, Plain
        <4>3. origin[r] = s
          BY <4>2 DEF SoleInv, InvOrigin, SoleSession
        <4>4. QED
          BY <4>1, <4>3 DEF OriginLost
      <3>3. \A q \in Requests : "result" \in dropped'[q] =>
                "result" \in dropped[q] \/ (q = r /\ k = "result")
        BY <1>1, <3>1 DEF DispatchTypeOK
      <3>4. DroppedOnlyIfLost'
        BY <2>1, <2>6, <3>2, <3>3 DEF SoleInv, DroppedOnlyIfLost, handlerVars
      <3>5. QED
        BY <2>4, <2>5, <3>4
    <2>9. QED
      BY <2>7, <2>8
  <1>9. QED
    BY <1>2, <1>3, <1>4, <1>5, <1>6, <1>7, <1>8 DEF SessionStep

\* What the sole callback holds when a goroutine hands it a message: nothing before.
LEMMA SoleHandsOver ==
    ASSUME SoleSession, SoleInv, NEW r \in Requests, NEW k \in MessageKinds,
           NEW b \in BOOLEAN, HandsOver(r, k, b)
    PROVE  \A s \in Sessions :
              /\ held[s] = NoMessage
              /\ held'[s] = [id |-> r, kind |-> k, ok |-> b]
  <1>1. PICK s \in Sessions :
          /\ callback[s] = "idle"
          /\ held' = [held EXCEPT ![s] = [id |-> r, kind |-> k, ok |-> b]]
    BY DEF HandsOver
  <1>2. held[s] = NoMessage
    BY <1>1 DEF SoleInv, DispatchInv, InvCallback
  <1>3. held'[s] = [id |-> r, kind |-> k, ok |-> b]
    BY <1>1 DEF SoleInv, DispatchInv, DispatchTypeOK
  <1>4. QED
    BY <1>2, <1>3 DEF SoleSession

\* No step of a request's goroutines breaks the invariant of the sole session.
LEMMA SoleHandlerStep ==
    ASSUME SoleSession, SoleInv, NEW r \in Requests, HandlerStep(r)
    PROVE  InvOrigin' /\ InvKeepAlive' /\ InvMessage' /\ DroppedOnlyIfLost'
  <1>1. DispatchTypeOK /\ WayInv /\ HandInv
    BY DEF SoleInv, DispatchInv, WayInv, HandInv
  <1>2. UNCHANGED <<transportVars, endpointVars, requestVars, historyVars>>
    BY DEF HandlerStep, Abandons, CallsProbe, UpdatesProgress, ProbeReturns, HandsProgress,
       HandsResult, HandsCompletion, ClosesStopCh, HandsKeepAlive, TimerFires, KeepAliveStops,
       callbackVars
  <1>3. InvOrigin'
    BY <1>2 DEF SoleInv, InvOrigin, endpointVars, requestVars
  <1>4. \A q \in Requests : OriginLost(q)' = OriginLost(q) /\ Answerable(q)' = Answerable(q)
    BY <1>2 DEF OriginLost, Answerable, transportVars, requestVars
  <1>5. \A q \in Requests : dropped'[q] = dropped[q] /\ asked'[q] = asked[q]
    BY <1>2 DEF requestVars, historyVars
  <1>6. CASE Abandons(r) \/ UpdatesProgress(r) \/ ClosesStopCh(r)
    <2>1. /\ UNCHANGED <<reply, keepAlive, held>>
          /\ handler[r] \in {"lookup", "calling", "cancel"}
          /\ handler'[r] \in {"done", "reporting"}
          /\ handler[r] = "calling" <=> handler'[r] = "reporting"
          /\ \A q \in Requests \ {r} : handler'[q] = handler[q]
      BY <1>1, <1>6 DEF Abandons, UpdatesProgress, ClosesStopCh, callbackVars, DispatchTypeOK
    <2>2. InvKeepAlive' /\ InvMessage' /\ DroppedOnlyIfLost'
      BY <1>4, <1>5, <2>1 DEF SoleInv, InvKeepAlive, InvMessage, DroppedOnlyIfLost
    <2>3. QED
      BY <1>3, <2>2
  <1>7. CASE CallsProbe(r)
    <2>1. /\ UNCHANGED <<reply, held>>
          /\ handler[r] = "lookup" /\ handler'[r] = "calling"
          /\ keepAlive'[r] # "none" => keepAlive[r] # "none" \/ asked[r].kind = "Discovery"
          /\ \A q \in Requests \ {r} : handler'[q] = handler[q] /\ keepAlive'[q] = keepAlive[q]
      BY <1>1, <1>7 DEF CallsProbe, callbackVars, DispatchTypeOK
    <2>2. Answerable(r)
      BY <1>1, <1>7 DEF CallsProbe, HandInv, InvHandler, HandlerKinds, Answerable
    <2>3. InvKeepAlive' /\ InvMessage' /\ DroppedOnlyIfLost'
      BY <1>4, <1>5, <2>1, <2>2 DEF SoleInv, InvKeepAlive, InvMessage, DroppedOnlyIfLost
    <2>4. QED
      BY <1>3, <2>3
  <1>8. CASE ProbeReturns(r)
    <2>1. /\ UNCHANGED <<keepAlive, held>>
          /\ handler[r] = "calling" /\ handler'[r] = "respond"
          /\ \A q \in Requests \ {r} : handler'[q] = handler[q] /\ reply'[q] = reply[q]
      BY <1>1, <1>8 DEF ProbeReturns, callbackVars, DispatchTypeOK
    <2>2. "result" \notin Handed(r)
      BY <1>1, <2>1 DEF HandInv, InvHandler, HandedBy
    <2>3. /\ "result" \notin dropped[r]
          /\ \A s \in Sessions : held[s].id = r => held[s].kind # "result"
      BY <2>2, HandedMembers DEF Settled, FinalKinds
    <2>4. InvKeepAlive' /\ InvMessage' /\ DroppedOnlyIfLost'
      BY <1>4, <1>5, <2>1, <2>3 DEF SoleInv, InvKeepAlive, InvMessage, DroppedOnlyIfLost
    <2>5. QED
      BY <1>3, <2>4
  <1>9. CASE HandsProgress(r) \/ HandsResult(r) \/ HandsCompletion(r)
    <2>1. /\ UNCHANGED <<reply, keepAlive>>
          /\ handler[r] \notin {"none", "lookup"} /\ handler'[r] \notin {"none", "lookup"}
          /\ \A q \in Requests \ {r} : handler'[q] = handler[q]
      BY <1>1, <1>9
      DEF HandsProgress, HandsResult, DiscoveryResponds, ValidationResponds, ActionResponds,
          HandsCompletion, DispatchTypeOK
    <2>2. PICK k \in MessageKinds, b \in BOOLEAN :
            /\ HandsOver(r, k, b)
            /\ k = "result" => b = reply[r]
            /\ k = "progress" => handler'[r] = "calling"
      BY <1>1, <1>9
      DEF HandsProgress, HandsResult, DiscoveryResponds, ValidationResponds, ActionResponds,
          HandsCompletion, MessageKinds, DispatchTypeOK
    <2>3. \A s \in Sessions : held'[s] = [id |-> r, kind |-> k, ok |-> b]
      BY <2>2, SoleHandsOver
    <2>4. InvMessage'
      BY <2>1, <2>2, <2>3 DEF InvMessage
    <2>5. InvKeepAlive' /\ DroppedOnlyIfLost'
      BY <1>4, <1>5, <2>1 DEF SoleInv, InvKeepAlive, DroppedOnlyIfLost
    <2>6. QED
      BY <1>3, <2>4, <2>5
  <1>10. CASE HandsKeepAlive(r)
    <2>1. /\ UNCHANGED <<handler, reply>>
          /\ keepAlive[r] # "none"
          /\ \A q \in Requests \ {r} : keepAlive'[q] = keepAlive[q]
          /\ HandsOver(r, "keepalive", TRUE)
      BY <1>1, <1>10 DEF HandsKeepAlive, DispatchTypeOK
    <2>2. \A s \in Sessions : held'[s] = [id |-> r, kind |-> "keepalive", ok |-> TRUE]
      BY <2>1, SoleHandsOver DEF MessageKinds
    <2>3. InvKeepAlive' /\ InvMessage' /\ DroppedOnlyIfLost'
      BY <1>4, <1>5, <2>1, <2>2 DEF SoleInv, InvKeepAlive, InvMessage, DroppedOnlyIfLost
    <2>4. QED
      BY <1>3, <2>3
  <1>11. CASE TimerFires(r) \/ KeepAliveStops(r)
    <2>1. /\ UNCHANGED <<handler, reply, held>>
          /\ keepAlive[r] # "none"
          /\ \A q \in Requests \ {r} : keepAlive'[q] = keepAlive[q]
      BY <1>1, <1>11 DEF TimerFires, KeepAliveStops, DispatchTypeOK, callbackVars
    <2>2. InvKeepAlive' /\ InvMessage' /\ DroppedOnlyIfLost'
      BY <1>4, <1>5, <2>1 DEF SoleInv, InvKeepAlive, InvMessage, DroppedOnlyIfLost
    <2>3. QED
      BY <1>3, <2>2
  <1>12. QED
    BY <1>6, <1>7, <1>8, <1>9, <1>10, <1>11 DEF HandlerStep

\* No step breaks the invariant of the sole session.
LEMMA SoleNextInv ==
    ASSUME SoleSession, SoleInv, [DispatchNext]_dispatchVars
    PROVE  SoleInv'
  <1>1. DispatchInv'
    BY DispatchNextInv DEF SoleInv
  <1>2. InvClosed' /\ \A t \in Sessions : ws[t] # "open" => ws'[t] # "open"
    BY ClosedKept DEF SoleInv, DispatchInv
  <1>3. CASE \E s \in Sessions : SessionStep(s)
    BY <1>1, <1>2, <1>3, SoleSessionStep DEF SoleInv
  <1>4. CASE \E r \in Requests : HandlerStep(r)
    BY <1>1, <1>2, <1>4, SoleHandlerStep DEF SoleInv
  <1>5. CASE CloseContainer
    BY <1>1, <1>2, <1>5, SoleKept
    DEF SoleInv, CloseContainer, endpointVars, handlerVars, callbackVars, historyVars
  <1>6. CASE UNCHANGED dispatchVars
    BY <1>1, <1>2, <1>6, SoleKept
    DEF SoleInv, dispatchVars, endpointVars, handlerVars, callbackVars, historyVars
  <1>7. QED
    BY <1>3, <1>4, <1>5, <1>6 DEF DispatchNext

(***************************************************************************)
(* SoleInv holds in every reachable state of a client with one session,    *)
(* for any requests and probes.                                            *)
(***************************************************************************)
THEOREM SoleInvariant ==
    ASSUME SoleSession
    PROVE  DispatchSpec => []SoleInv
  <1>1. SoleInv /\ [DispatchNext]_dispatchVars => SoleInv'
    BY SoleNextInv
  <1>2. QED
    BY <1>1, SoleInitInv, PTL DEF DispatchSpec

(***************************************************************************)
(* With a single session a response the probe gave is lost only with the   *)
(* connection its request came on.                                         *)
(***************************************************************************)
THEOREM DroppedOnlyIfLostHolds ==
    ASSUME SoleSession
    PROVE  DispatchSpec => []DroppedOnlyIfLost
  <1>1. SoleInv => DroppedOnlyIfLost
    BY DEF SoleInv
  <1>2. QED
    BY <1>1, SoleInvariant, PTL

(***************************************************************************)
(* With a single session the server can rely on the order of the messages  *)
(* for one request.                                                        *)
(***************************************************************************)
THEOREM ConversationInOrderHolds ==
    ASSUME SoleSession
    PROVE  DispatchSpec => []ConversationInOrder
  <1>1. SoleInv => ConversationInOrder
    <2>1. SUFFICES ASSUME SoleInv, NEW s \in Sessions, NEW r \in Requests, held[s].id = r
                   PROVE  /\ held[s].kind \in {"progress", "result"} =>
                               "result" \notin Settled(r)
                          /\ held[s].kind = "completion" =>
                               "result" \in Settled(r) /\ "completion" \notin Settled(r)
      BY DEF ConversationInOrder
    <2>2. Handed(r) = HandedBy(r)
      BY <2>1 DEF SoleInv, DispatchInv, InvHandler
    <2>3. held[s].kind \in FinalKinds => held[s].kind \in Handed(r) \ Settled(r)
      BY <2>1, HandedMembers DEF SoleInv, DispatchInv, InvHeld
    <2>4. CASE held[s].kind = "progress"
      <3>1. "result" \notin Handed(r)
        BY <2>1, <2>2, <2>4 DEF SoleInv, InvMessage, HandedBy
      <3>2. QED
        BY <2>4, <3>1 DEF Handed
    <2>5. CASE held[s].kind = "result"
      BY <2>3, <2>5 DEF FinalKinds
    <2>6. CASE held[s].kind = "completion"
      <3>1. "completion" \in HandedBy(r)
        BY <2>2, <2>3, <2>6 DEF FinalKinds
      <3>2. "result" \in Handed(r)
        BY <2>2, <3>1 DEF HandedBy
      <3>3. ~ \E u \in Sessions : held[u].id = r /\ held[u].kind = "result"
        BY <2>6 DEF SoleSession
      <3>4. QED
        BY <2>3, <2>6, <3>2, <3>3, HandedMembers DEF FinalKinds
    <2>7. QED
      BY <2>4, <2>5, <2>6
  <1>2. QED
    BY <1>1, SoleInvariant, PTL

-----------------------------------------------------------------------------
(* The session keeps the contract. *)

\* What the contract sees of the callbacks.
Outbox == {<<held[s].id, held[s].kind>> : s \in {t \in Sessions : held[t] # NoMessage}}

\* The session starts where the contract does.
LEMMA ContractInitHolds == DispatchInit => Contract!ContractInit
  <1> SUFFICES ASSUME DispatchInit
               PROVE  Contract!ContractInit
    OBVIOUS
  <1>1. Accepted = [r \in Requests |-> "none"]
    BY DEF DispatchInit, Accepted
  <1>2. \A r \in Requests : Handed(r) = {}
    BY NoMessageFacts DEF DispatchInit, Handed, Held, Settled
  <1>3. Outbox = {}
    BY DEF DispatchInit, Outbox
  <1>4. QED
    BY <1>1, <1>2, <1>3 DEF DispatchInit, Contract!ContractInit, Outbox

\* A step that moves no message, and accepts no request, is a stutter.
LEMMA ContractStutters ==
    ASSUME UNCHANGED <<held, historyVars>>,
           \A r \in Requests : Accepted'[r] = Accepted[r]
    PROVE  UNCHANGED Contract!contractVars
  <1>1. \A r \in Requests : Handed(r)' = Handed(r)
    BY DEF Handed, Held, Settled, historyVars
  <1>2. Accepted' = Accepted
    BY DEF Accepted
  <1>3. QED
    BY <1>1, <1>2 DEF Contract!contractVars, historyVars

\* Every step of the session is a step of the contract, or a stutter.
LEMMA ContractSession ==
    ASSUME SoleSession, SoleInv, NEW s \in Sessions, SessionStep(s)
    PROVE  [Contract!ContractNext]_Contract!contractVars
  <1>1. DispatchTypeOK /\ WayInv /\ HandInv
    BY DEF SoleInv, DispatchInv, WayInv, HandInv
  <1>2. CASE Transports(s) \/ Endpoints(s) \/ DropsUnhandled(s) \/ LosesConnection(s)
    <2>1. UNCHANGED <<requestVars, handlerVars, callbackVars, historyVars>>
      BY <1>2 DEF Transports, Endpoints, DropsUnhandled, LosesConnection
    <2>2. QED
      <3>1. UNCHANGED <<held, historyVars>>
        BY <2>1 DEF callbackVars
      <3>2. \A r \in Requests : Accepted'[r] = Accepted[r]
        BY <2>1 DEF Accepted, Answerable, requestVars, handlerVars
      <3>3. QED
        BY <3>1, <3>2, ContractStutters
  <1>3. CASE Dispatches(s)
    <2>1. PICK r \in Requests :
            handler[r] = "none" /\ handler' = [handler EXCEPT ![r] = "lookup"]
      BY <1>1, <1>3 DEF Dispatches, EpDelivers, WayInv, InvWay, Waiting
    <2>2. \A q \in Requests : Answerable(q)' = Answerable(q)
      BY <1>3 DEF Dispatches, Answerable, requestVars
    <2>3. \A q \in Requests : Accepted'[q] = Accepted[q]
      BY <1>1, <1>3, <2>1, <2>2 DEF Dispatches, Accepted, DispatchTypeOK, requestVars
    <2>4. QED
      BY <1>3, <2>3, ContractStutters DEF Dispatches, callbackVars
  <1>4. ASSUME NEW r \in Requests, ServerAsks(s, r)
        PROVE  UNCHANGED Contract!contractVars
    <2>1. handler[r] = "none"
      BY <1>1, <1>4 DEF ServerAsks, HandInv, InvHandler, HandlerKinds, NilFrame, Plain
    <2>2. \A q \in Requests \ {r} : Answerable(q)' = Answerable(q) /\ asked'[q] = asked[q]
      BY <1>4 DEF ServerAsks, Answerable
    <2>3. \A q \in Requests : Accepted'[q] = Accepted[q]
      BY <1>4, <2>1, <2>2 DEF ServerAsks, Accepted, handlerVars
    <2>4. QED
      BY <1>4, <2>3, ContractStutters DEF ServerAsks, callbackVars
  <1>5. CASE CallbackSends(s)
    <2>1. PICK r \in Requests, k \in MessageKinds : held[s].id = r /\ held[s].kind = k
      BY <1>1, <1>5 DEF CallbackSends, HandInv, InvCallback, DispatchTypeOK, Message
    <2>2. held[s] # NoMessage
      BY <1>1, <1>5 DEF CallbackSends, HandInv, InvCallback
    <2>3. \A t \in Sessions : held'[t] = NoMessage
      BY <1>1, <1>5 DEF CallbackSends, DispatchTypeOK, SoleSession
    <2>4. Outbox = {<<r, k>>} /\ Outbox' = {}
      BY <2>1, <2>2, <2>3 DEF Outbox, SoleSession
    <2>5. wire' \in {wire, [wire EXCEPT ![r] = @ \cup ({k} \cap Contract!Final)]}
      BY <1>5, <2>1 DEF CallbackSends, Records, FinalKinds, Contract!Final
    <2>6. \A q \in Requests : Handed(q)' = Handed(q)
      <3>1. HandInv'
        BY <1>1, <1>5, HandSettled
      <3>2. \A q \in Requests : HandedBy(q)' = HandedBy(q)
        BY <1>5 DEF CallbackSends, HandedBy, Answerable, handlerVars, requestVars
      <3>3. QED
        BY <1>1, <3>1, <3>2 DEF HandInv, InvHandler
    <2>7. UNCHANGED Accepted
      BY <1>5 DEF CallbackSends, Accepted, Answerable, handlerVars, requestVars
    <2>8. Contract!Settles(r, k)
      BY <2>4, <2>5, <2>6, <2>7 DEF Contract!Settles, Outbox
    <2>9. QED
      BY <2>8 DEF Contract!ContractNext, MessageKinds
  <1>6. QED
    BY <1>2, <1>3, <1>4, <1>5 DEF SessionStep

\* Handing a message over is saying it.
LEMMA ContractSays ==
    ASSUME SoleSession, SoleInv, NEW r \in Requests, NEW k \in MessageKinds,
           NEW b \in BOOLEAN, HandsOver(r, k, b), UNCHANGED <<requestVars, historyVars>>,
           k \notin FinalKinds \/ k \notin HandedBy(r),
           \A q \in Requests \ {r} : handler'[q] = handler[q],
           handler[r] \notin {"none", "lookup"}, handler'[r] \notin {"none", "lookup"},
           Contract!MaySay(r, k)
    PROVE  Contract!Says(r, k)
  <1>1. Sessions # {}
    BY DEF HandsOver
  <1>2. Outbox = {} /\ Outbox' = {<<r, k>>}
    <2>1. \A s \in Sessions :
            /\ held[s] = NoMessage
            /\ held'[s].id = r /\ held'[s].kind = k /\ held'[s] # NoMessage
      <3>1. [id |-> r, kind |-> k, ok |-> b].id # NoMessage.id
        BY NoMessageFacts
      <3>2. \A s \in Sessions :
              held[s] = NoMessage /\ held'[s] = [id |-> r, kind |-> k, ok |-> b]
        BY SoleHandsOver
      <3>3. QED
        BY <3>1, <3>2
    <2>2. QED
      BY <1>1, <2>1 DEF Outbox
  <1>3. /\ \A q \in Requests \ {r} : Handed(q)' = Handed(q)
        /\ Handed(r)' = Handed(r) \cup ({k} \cap FinalKinds)
    BY HandedOver DEF SoleInv, DispatchInv, HandInv
  <1>4. UNCHANGED Accepted
    BY DEF Accepted, Answerable, requestVars
  <1>5. [q \in Requests |-> Handed(q)]' =
          [[q \in Requests |-> Handed(q)] EXCEPT ![r] = @ \cup ({k} \cap Contract!Final)]
    BY <1>3 DEF FinalKinds, Contract!Final
  <1>6. QED
    BY <1>2, <1>4, <1>5 DEF Contract!Says, Outbox, historyVars

\* Every step of a request's goroutines is a step of the contract, or a stutter.
LEMMA ContractHandler ==
    ASSUME SoleSession, SoleInv, NEW r \in Requests, HandlerStep(r)
    PROVE  [Contract!ContractNext]_Contract!contractVars
  <1>1. DispatchTypeOK /\ HandInv
    BY DEF SoleInv, DispatchInv, HandInv
  <1>2. UNCHANGED requestVars /\ UNCHANGED historyVars
    BY DEF HandlerStep, Abandons, CallsProbe, UpdatesProgress, ProbeReturns, HandsProgress,
       HandsResult, HandsCompletion, ClosesStopCh, HandsKeepAlive, TimerFires, KeepAliveStops,
       callbackVars
  <1>3. \A q \in Requests : Answerable(q)' = Answerable(q) /\ asked'[q] = asked[q]
    BY <1>2 DEF Answerable, requestVars
  <1>4. CASE Abandons(r) \/ UpdatesProgress(r) \/ ProbeReturns(r) \/ ClosesStopCh(r)
    <2>1. /\ UNCHANGED held
          /\ \A q \in Requests \ {r} : handler'[q] = handler[q]
          /\ handler'[r] \notin {"none", "lookup"}
          /\ handler[r] = "lookup" => ~Answerable(r)
          /\ handler[r] # "none"
      BY <1>1, <1>4 DEF Abandons, UpdatesProgress, ProbeReturns, ClosesStopCh, callbackVars,
         Answerable, DispatchTypeOK
    <2>2. \A q \in Requests : Accepted'[q] = Accepted[q]
      BY <1>3, <2>1 DEF Accepted
    <2>3. QED
      BY <1>2, <2>1, <2>2, ContractStutters
  <1>5. CASE CallsProbe(r)
    <2>1. /\ UNCHANGED held
          /\ handler[r] = "lookup" /\ handler'[r] = "calling"
          /\ \A q \in Requests \ {r} : handler'[q] = handler[q]
      BY <1>1, <1>5 DEF CallsProbe, callbackVars, DispatchTypeOK
    <2>2. Answerable(r)
      BY <1>1, <1>5 DEF CallsProbe, HandInv, InvHandler, HandlerKinds, Answerable
    <2>3. asked[r].kind \in Contract!Kinds
      BY <2>2 DEF Answerable, Contract!Kinds
    <2>4. /\ Accepted[r] = "none"
          /\ Accepted' = [Accepted EXCEPT ![r] = asked[r].kind]
      BY <1>3, <2>1, <2>2 DEF Accepted
    <2>5. \A q \in Requests : Handed(q)' = Handed(q)
      BY <1>2, <2>1 DEF Handed, Held, Settled, historyVars
    <2>6. Contract!Accepts(r)
      BY <1>2, <2>1, <2>3, <2>4, <2>5 DEF Contract!Accepts, historyVars
    <2>7. QED
      BY <2>6 DEF Contract!ContractNext
  <1>6. CASE HandsProgress(r) \/ HandsResult(r) \/ HandsCompletion(r)
    <2>1. PICK k \in {"progress", "result", "completion"}, b \in BOOLEAN :
            /\ HandsOver(r, k, b)
            /\ k = "progress" => handler[r] = "reporting"
            /\ k = "result" => handler[r] = "respond"
            /\ k = "completion" => handler[r] = "complete"
      BY <1>1, <1>6
      DEF HandsProgress, HandsResult, DiscoveryResponds, ValidationResponds, ActionResponds,
          HandsCompletion, DispatchTypeOK
    <2>2. /\ \A q \in Requests \ {r} : handler'[q] = handler[q]
          /\ handler'[r] \notin {"none", "lookup"}
      BY <1>1, <1>6
      DEF HandsProgress, HandsResult, DiscoveryResponds, ValidationResponds, ActionResponds,
          HandsCompletion, DispatchTypeOK
    <2>3. /\ handler[r] \notin {"none", "lookup"}
          /\ k \notin HandedBy(r)
          /\ k = "completion" => "result" \in HandedBy(r)
          /\ k \in {"progress", "result"} => "result" \notin HandedBy(r)
      BY <2>1 DEF HandedBy
    <2>4. Answerable(r) /\ Handed(r) = HandedBy(r) /\ Accepted[r] = asked[r].kind
      BY <1>1, <2>1, <2>3 DEF HandInv, InvHandler, Accepted
    <2>5. /\ k = "progress" => asked[r].kind = "Action"
          /\ k = "completion" => asked[r].kind = "Discovery"
      BY <1>1, <2>1 DEF HandInv, InvHandler
    <2>6. Contract!MaySay(r, k)
      BY <2>3, <2>4, <2>5 DEF Contract!MaySay, Contract!Kinds, Answerable
    <2>7. Contract!Says(r, k)
      BY <1>2, <2>1, <2>2, <2>3, <2>6, ContractSays DEF MessageKinds
    <2>8. QED
      BY <2>7 DEF Contract!ContractNext
  <1>7. CASE HandsKeepAlive(r)
    <2>1. /\ HandsOver(r, "keepalive", TRUE)
          /\ handler' = handler
          /\ keepAlive[r] # "none"
      BY <1>7 DEF HandsKeepAlive
    <2>2. Accepted[r] = "Discovery" /\ handler[r] \notin {"none", "lookup"}
      BY <2>1 DEF SoleInv, InvKeepAlive, Accepted
    <2>3. Contract!MaySay(r, "keepalive")
      BY <2>2 DEF Contract!MaySay
    <2>4. Contract!Says(r, "keepalive")
      BY <1>2, <2>1, <2>2, <2>3, ContractSays DEF MessageKinds, FinalKinds
    <2>5. QED
      BY <2>4 DEF Contract!ContractNext
  <1>8. CASE TimerFires(r) \/ KeepAliveStops(r)
    <2>1. UNCHANGED <<handler, held>>
      BY <1>8 DEF TimerFires, KeepAliveStops, callbackVars
    <2>2. \A q \in Requests : Accepted'[q] = Accepted[q]
      BY <1>3, <2>1 DEF Accepted
    <2>3. QED
      BY <1>2, <2>1, <2>2, ContractStutters
  <1>9. QED
    BY <1>4, <1>5, <1>6, <1>7, <1>8 DEF HandlerStep

(***************************************************************************)
(* A client with a single session implements RequestContract, whatever the *)
(* probes, the requests and the interleaving of its goroutines, and        *)
(* although its connection may be lost or closed at any moment.            *)
(***************************************************************************)
THEOREM KeepsContractHolds ==
    ASSUME SoleSession
    PROVE  DispatchSpec => KeepsContract
  <1>1. SoleInv /\ [DispatchNext]_dispatchVars => [Contract!ContractNext]_Contract!contractVars
    <2>1. SUFFICES ASSUME SoleInv, [DispatchNext]_dispatchVars
                   PROVE  [Contract!ContractNext]_Contract!contractVars
      OBVIOUS
    <2>2. CASE \E s \in Sessions : SessionStep(s)
      BY <2>1, <2>2, ContractSession
    <2>3. CASE \E r \in Requests : HandlerStep(r)
      BY <2>1, <2>3, ContractHandler
    <2>4. CASE CloseContainer \/ UNCHANGED dispatchVars
      <3>1. UNCHANGED <<requestVars, handlerVars, callbackVars, historyVars>>
        BY <2>4 DEF CloseContainer, dispatchVars
      <3>2. QED
        BY <3>1, ContractStutters
        DEF Accepted, Answerable, requestVars, handlerVars, callbackVars
    <2>5. QED
      BY <2>1, <2>2, <2>3, <2>4 DEF DispatchNext
  <1>2. QED
    BY <1>1, SoleInvariant, ContractInitHolds, PTL
    DEF DispatchSpec, KeepsContract, Contract!ContractSpec
=============================================================================
