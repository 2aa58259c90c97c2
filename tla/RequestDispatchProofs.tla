----------------------- MODULE RequestDispatchProofs -----------------------
(***************************************************************************)
(* Theorems about RequestDispatch, for any sets of sessions, requests and  *)
(* probe types.                                                            *)
(***************************************************************************)
EXTENDS RequestDispatch, ProtobufEndpointProofs

\* What the server may send is a frame, and not the empty one.
LEMMA ServerFrameFacts == \A f \in ServerFrames : f \in Frame /\ f # NilFrame
  BY DispatchAssumption DEF NilFrame, Plain, Frame, FrameKinds, RequestKinds

-----------------------------------------------------------------------------
(* Type correctness. *)

\* The sessions start in type.
LEMMA DispatchInitType == DispatchInit => DispatchTypeOK
  BY FrameFacts, TransportAssumption
  DEF DispatchInit, DispatchTypeOK, TransportTypeOK, EndpointTypeOK

\* A callback that takes a message keeps its variables in type.
LEMMA HandsOverType ==
    ASSUME DispatchTypeOK, NEW r \in Requests, NEW k \in MessageKinds, NEW b \in BOOLEAN,
           HandsOver(r, k, b)
    PROVE  /\ callback' \in [Sessions -> {"idle", "busy"}]
           /\ held' \in [Sessions -> Message \cup {NoMessage}]
  BY DEF HandsOver, DispatchTypeOK, Message

\* The states of the goroutine that handles a request.
HandlerStates == {"none", "lookup", "calling", "reporting", "respond", "complete", "cancel",
                  "done"}

\* A step of that goroutine keeps the variables in type if it does so for its own.
LEMMA HandlerTyped ==
    ASSUME DispatchTypeOK,
           handler' \in [Requests -> HandlerStates] \/ UNCHANGED handler,
           reply' \in [Requests -> BOOLEAN] \/ UNCHANGED reply,
           keepAlive' \in [Requests -> {"none", "sending", "waiting", "stopped"}]
               \/ UNCHANGED keepAlive,
           callback' \in [Sessions -> {"idle", "busy"}] \/ UNCHANGED callback,
           held' \in [Sessions -> Message \cup {NoMessage}] \/ UNCHANGED held,
           UNCHANGED <<transportVars, endpointVars, requestVars, historyVars>>
    PROVE  DispatchTypeOK'
  <1>1. TransportTypeOK'
    BY DEF DispatchTypeOK, TransportTypeOK, transportVars
  <1>2. EndpointTypeOK'
    BY DEF DispatchTypeOK, EndpointTypeOK, endpointVars
  <1>3. QED
    BY <1>1, <1>2 DEF DispatchTypeOK, HandlerStates, requestVars, historyVars

\* Every step keeps the variables in type.
LEMMA DispatchNextType ==
    ASSUME DispatchTypeOK, [DispatchNext]_dispatchVars
    PROVE  DispatchTypeOK'
  <1> USE DEF DispatchTypeOK
  <1>1. ASSUME NEW s \in Sessions, SessionStep(s)
        PROVE  DispatchTypeOK'
    <2>1. CASE Transports(s)
      BY <2>1, TransportStepType DEF Transports, EndpointTypeOK, endpointVars, requestVars,
         handlerVars, callbackVars, historyVars
    <2>2. CASE Endpoints(s)
      BY <2>2, EndpointStepType DEF Endpoints, requestVars, handlerVars, callbackVars,
         historyVars
    <2>3. CASE DropsUnhandled(s)
      BY <2>3, EpDeliversType DEF DropsUnhandled, TransportTypeOK, transportVars, requestVars,
         handlerVars, callbackVars, historyVars
    <2>4. CASE Dispatches(s)
      BY <2>4, EpDeliversType DEF Dispatches, TransportTypeOK, transportVars, requestVars,
         callbackVars, historyVars
    <2>5. CASE CallbackSends(s)
      <3>1. /\ wire' \in [Requests -> SUBSET FinalKinds]
            /\ dropped' \in [Requests -> SUBSET FinalKinds]
        BY <2>5 DEF CallbackSends, Records
      <3>2. callback' \in [Sessions -> {"idle", "busy"}]
        BY <2>5 DEF CallbackSends, Records
      <3>3. held' \in [Sessions -> Message \cup {NoMessage}]
        BY <2>5 DEF CallbackSends, Records
      <3>4. QED
        BY <2>5, <3>1, <3>2, <3>3 DEF CallbackSends, TransportTypeOK, EndpointTypeOK,
           transportVars, endpointVars, requestVars, handlerVars
    <2>6. CASE LosesConnection(s)
      BY <2>6 DEF LosesConnection, PeerLost, TransportTypeOK, EndpointTypeOK, endpointVars,
         requestVars, handlerVars, callbackVars, historyVars
    <2>7. ASSUME NEW r \in Requests, ServerAsks(s, r)
          PROVE  DispatchTypeOK'
      <3>1. PICK f \in ServerFrames :
              /\ ServerPuts(s, f)
              /\ asked' = [asked EXCEPT ![r] = f]
              /\ origin' = [origin EXCEPT ![r] = s]
        BY <2>7 DEF ServerAsks
      <3>2. Append(inbound[s], f) \in Seq(Frame)
        BY <3>1, ServerFrameFacts, AppendProperties DEF TransportTypeOK
      <3>3. TransportTypeOK'
        BY <3>1, <3>2 DEF ServerPuts, TransportTypeOK
      <3>4. asked' \in [Requests -> Frame] /\ origin' \in [Requests -> Sessions \cup {NoSession}]
        BY <3>1, ServerFrameFacts
      <3>5. QED
        BY <2>7, <3>3, <3>4 DEF ServerAsks, EndpointTypeOK, endpointVars, handlerVars,
           callbackVars, historyVars
    <2>8. QED
      BY <1>1, <2>1, <2>2, <2>3, <2>4, <2>5, <2>6, <2>7 DEF SessionStep
  <1>2. ASSUME NEW r \in Requests, HandlerStep(r)
        PROVE  DispatchTypeOK'
    <2> USE DEF TransportTypeOK, EndpointTypeOK, transportVars, endpointVars, requestVars,
                callbackVars, historyVars
    <2>1. CASE Abandons(r)
      BY <2>1 DEF Abandons
    <2>2. CASE CallsProbe(r)
      BY <2>2 DEF CallsProbe
    <2>3. CASE UpdatesProgress(r)
      BY <2>3 DEF UpdatesProgress
    <2>4. CASE ProbeReturns(r)
      <3>1. handler' \in [Requests -> HandlerStates]
        BY <2>4 DEF ProbeReturns, HandlerStates
      <3>2. PICK b \in BOOLEAN : reply' = [reply EXCEPT ![r] = b]
        BY <2>4 DEF ProbeReturns
      <3>3. reply' \in [Requests -> BOOLEAN]
        BY <3>2
      <3>4. QED
        BY <2>4, <3>1, <3>3, HandlerTyped DEF ProbeReturns
    <2>5. CASE HandsProgress(r)
      <3>1. handler' \in [Requests -> HandlerStates]
        BY <2>5 DEF HandsProgress, HandlerStates
      <3>2. "progress" \in MessageKinds /\ TRUE \in BOOLEAN
        BY DEF MessageKinds
      <3>3. /\ callback' \in [Sessions -> {"idle", "busy"}]
            /\ held' \in [Sessions -> Message \cup {NoMessage}]
        BY <2>5, <3>2, HandsOverType DEF HandsProgress
      <3>4. QED
        BY <2>5, <3>1, <3>3, HandlerTyped DEF HandsProgress
    <2>6. CASE HandsResult(r)
      <3>1. handler' \in [Requests -> HandlerStates]
        <4>1. PICK h \in {"complete", "done"} : handler' = [handler EXCEPT ![r] = h]
          BY <2>6 DEF HandsResult, DiscoveryResponds, ValidationResponds, ActionResponds
        <4>2. QED
          BY <4>1 DEF HandlerStates
      <3>2. PICK s \in Sessions :
              /\ callback' = [callback EXCEPT ![s] = "busy"]
              /\ held' = [held EXCEPT ![s] = [id |-> r, kind |-> "result", ok |-> reply[r]]]
        BY <2>6 DEF HandsResult, DiscoveryResponds, ValidationResponds, ActionResponds, HandsOver
      <3>3. callback' \in [Sessions -> {"idle", "busy"}]
        BY <3>2
      <3>4. [id |-> r, kind |-> "result", ok |-> reply[r]] \in Message
        BY DEF Message, MessageKinds
      <3>5. held' \in [Sessions -> Message \cup {NoMessage}]
        BY <3>2, <3>4
      <3>6. QED
        BY <2>6, <3>1, <3>3, <3>5, HandlerTyped DEF HandsResult
    <2>7. CASE HandsCompletion(r)
      <3>1. handler' \in [Requests -> HandlerStates]
        BY <2>7 DEF HandsCompletion, HandlerStates
      <3>2. "completion" \in MessageKinds /\ TRUE \in BOOLEAN
        BY DEF MessageKinds
      <3>3. /\ callback' \in [Sessions -> {"idle", "busy"}]
            /\ held' \in [Sessions -> Message \cup {NoMessage}]
        BY <2>7, <3>2, HandsOverType DEF HandsCompletion
      <3>4. QED
        BY <2>7, <3>1, <3>3, HandlerTyped DEF HandsCompletion
    <2>8. CASE ClosesStopCh(r)
      BY <2>8 DEF ClosesStopCh
    <2>9. CASE HandsKeepAlive(r)
      <3>1. keepAlive' \in [Requests -> {"none", "sending", "waiting", "stopped"}]
        BY <2>9 DEF HandsKeepAlive
      <3>2. "keepalive" \in MessageKinds
        BY DEF MessageKinds
      <3>3. QED
        BY <2>9, <3>1, <3>2, HandsOverType, HandlerTyped DEF HandsKeepAlive
    <2>10. CASE TimerFires(r)
      BY <2>10 DEF TimerFires
    <2>11. CASE KeepAliveStops(r)
      BY <2>11 DEF KeepAliveStops
    <2>12. QED
      BY <1>2, <2>1, <2>2, <2>3, <2>4, <2>5, <2>6, <2>7, <2>8, <2>9, <2>10, <2>11
      DEF HandlerStep
  <1>3. CASE CloseContainer
    <2>1. TransportTypeOK'
      BY <1>3, CloseType, DispatchAssumption DEF CloseContainer
    <2>2. QED
      BY <1>3, <2>1 DEF CloseContainer, EndpointTypeOK, endpointVars, requestVars,
         handlerVars, callbackVars, historyVars
  <1>4. CASE UNCHANGED dispatchVars
    BY <1>4 DEF dispatchVars, TransportTypeOK, EndpointTypeOK, transportVars, endpointVars,
       requestVars, handlerVars, callbackVars, historyVars
  <1>5. QED
    BY <1>1, <1>2, <1>3, <1>4 DEF DispatchNext

(***************************************************************************)
(* Every variable keeps its type: the client's goroutines have no other    *)
(* control states, and every held message is one a handler can produce.    *)
(***************************************************************************)
THEOREM DispatchTypeCorrect == DispatchSpec => []DispatchTypeOK
  BY DispatchInitType, DispatchNextType, PTL DEF DispatchSpec

-----------------------------------------------------------------------------
(* Frames on their way from the server to the dispatcher. *)

WayInv == InvWay /\ InvOnce

(***************************************************************************)
(* A step that moves no frame and starts no handler keeps the invariants   *)
(* of the frames on their way; a receiver or an endpoint may drop its frame. *)
(***************************************************************************)
LEMMA WayKept ==
    ASSUME WayInv, UNCHANGED <<inbound, epName, asked>>,
           \A t \in Sessions : rx'[t] = "delivering" => rx[t] = "delivering" /\ rxData'[t] = rxData[t],
           \A s \in Sessions : ep'[s] = "offering" => ep[s] = "offering" /\ parsed'[s] = parsed[s],
           \A r \in Requests : handler[r] = "none" => handler'[r] = "none"
    PROVE  WayInv'
  <1>1. \A f : Waiting(f) => Waiting(f)'
    BY DEF Waiting
  <1>2. InvWay'
    BY <1>1 DEF WayInv, InvWay
  <1>3. InvOnce'
    BY DEF WayInv, InvOnce
  <1>4. QED
    BY <1>2, <1>3 DEF WayInv

\* The receiver takes the first frame: it stays on its way, and stays alone.
LEMMA WayReceived ==
    ASSUME TransportTypeOK, WayInv, UNCHANGED <<endpointVars, requestVars, handlerVars>>,
           NEW t \in Sessions, RxReceive(t)
    PROVE  WayInv'
  <1>1. inbound[t] \in Seq(Frame) /\ inbound[t] # <<>>
    BY DEF RxReceive, TransportTypeOK
  <1>2. /\ Len(inbound[t]) \in Nat \ {0}
        /\ Len(Tail(inbound[t])) = Len(inbound[t]) - 1
        /\ \A i \in 1 .. Len(Tail(inbound[t])) : Tail(inbound[t])[i] = inbound[t][i + 1]
    BY <1>1, HeadTailProperties, EmptySeq
  <1>3. Head(inbound[t]) = inbound[t][1]
    BY <1>1
  <1>4. /\ inbound' = [inbound EXCEPT ![t] = Tail(@)]
        /\ rx' = [rx EXCEPT ![t] = "delivering"]
        /\ rxData' = [rxData EXCEPT ![t] = inbound[t][1]]
        /\ rx[t] = "receiving"
    BY <1>3 DEF RxReceive
  \* A frame that is in inbound now was in inbound, on the same connection.
  <1>5. ASSUME NEW u \in Sessions
        PROVE  /\ u # t => inbound'[u] = inbound[u]
               /\ inbound'[t] = Tail(inbound[t])
               /\ u # t => rx'[u] = rx[u] /\ rxData'[u] = rxData[u]
               /\ rxData'[t] = inbound[t][1]
    BY <1>4 DEF TransportTypeOK
  <1> DEFINE Old(u, i) == IF u = t THEN i + 1 ELSE i
  <1>6. ASSUME NEW u \in Sessions, NEW i \in 1 .. Len(inbound'[u])
        PROVE  /\ Old(u, i) \in 1 .. Len(inbound[u])
               /\ inbound'[u][i] = inbound[u][Old(u, i)]
               /\ u = t => Old(u, i) # 1
    <2>1. CASE u = t
      <3>1. i \in 1 .. Len(Tail(inbound[t])) /\ inbound'[u][i] = Tail(inbound[t])[i]
        BY <2>1, <1>5
      <3>2. Tail(inbound[t])[i] = inbound[t][i + 1] /\ i + 1 \in 2 .. Len(inbound[t])
        BY <3>1, <1>2
      <3>3. QED
        BY <2>1, <3>1, <3>2, <1>2
    <2>2. CASE u # t
      BY <2>2, <1>5
    <2>3. QED
      BY <2>1, <2>2
  <1>7. \A f : Waiting(f) => Waiting(f)'
    BY DEF Waiting, requestVars, handlerVars
  <1>8. 1 \in 1 .. Len(inbound[t])
    BY <1>2
  <1>9. InvWay'
    <2>1. ASSUME NEW u \in Sessions, NEW i \in 1 .. Len(inbound'[u])
          PROVE  Waiting(inbound[u][i])'
      <3>1. Waiting(inbound[u][Old(u, i)])
        BY <1>6 DEF WayInv, InvWay
      <3>2. QED
        BY <3>1, <1>6, <1>7
    <2>2. ASSUME NEW u \in Sessions, rx'[u] = "delivering"
          PROVE  Waiting(rxData[u])'
      <3>1. CASE u = t
        BY <3>1, <1>4, <1>5, <1>7, <1>8 DEF WayInv, InvWay
      <3>2. CASE u # t
        BY <3>2, <2>2, <1>5, <1>7 DEF WayInv, InvWay
      <3>3. QED
        BY <3>1, <3>2
    <2>3. \A u \in Sessions : ep'[u] = "offering" => Waiting(parsed[u])'
      BY <1>7 DEF WayInv, InvWay, endpointVars
    <2>4. QED
      BY <2>1, <2>2, <2>3 DEF WayInv, InvWay, endpointVars
  <1>10. InvOnce'
    <2>1. \A u, v \in Sessions : \A i \in 1 .. Len(inbound'[u]), j \in 1 .. Len(inbound'[v]) :
            inbound'[u][i].id = inbound'[v][j].id => u = v /\ i = j
      <3>1. SUFFICES ASSUME NEW u \in Sessions, NEW v \in Sessions,
                            NEW i \in 1 .. Len(inbound'[u]), NEW j \in 1 .. Len(inbound'[v]),
                            inbound'[u][i].id = inbound'[v][j].id
                     PROVE  u = v /\ i = j
        OBVIOUS
      <3>2. /\ Old(u, i) \in 1 .. Len(inbound[u]) /\ inbound'[u][i] = inbound[u][Old(u, i)]
            /\ Old(v, j) \in 1 .. Len(inbound[v]) /\ inbound'[v][j] = inbound[v][Old(v, j)]
        BY <1>6
      <3> HIDE DEF Old
      <3>3. u = v /\ Old(u, i) = Old(v, j)
        BY <3>1, <3>2 DEF WayInv, InvOnce
      <3>4. QED
        BY <3>3 DEF Old
    <2>2. \A u, v \in Sessions : \A i \in 1 .. Len(inbound'[v]) :
            /\ rx'[u] = "delivering" => rxData'[u].id # inbound'[v][i].id
            /\ ep'[u] = "offering" => parsed'[u].id # inbound'[v][i].id
      <3>1. SUFFICES ASSUME NEW u \in Sessions, NEW v \in Sessions,
                            NEW i \in 1 .. Len(inbound'[v])
                     PROVE  /\ rx'[u] = "delivering" => rxData'[u].id # inbound'[v][i].id
                            /\ ep'[u] = "offering" => parsed'[u].id # inbound'[v][i].id
        OBVIOUS
      <3>2. Old(v, i) \in 1 .. Len(inbound[v]) /\ inbound'[v][i] = inbound[v][Old(v, i)]
        BY <1>6
      <3>3. ep'[u] = "offering" => parsed'[u].id # inbound'[v][i].id
        BY <3>2 DEF WayInv, InvOnce, endpointVars
      <3>4. CASE u = t
        BY <3>4, <3>2, <3>3, <1>5, <1>6, <1>8 DEF WayInv, InvOnce
      <3>5. CASE u # t
        BY <3>5, <3>2, <3>3, <1>5 DEF WayInv, InvOnce
      <3>6. QED
        BY <3>4, <3>5
    <2>3. \A u, v \in Sessions :
            /\ rx'[u] = "delivering" /\ rx'[v] = "delivering" /\ rxData'[u].id = rxData'[v].id
                 => u = v
            /\ ep'[u] = "offering" /\ ep'[v] = "offering" /\ parsed'[u].id = parsed'[v].id
                 => u = v
            /\ rx'[u] = "delivering" /\ ep'[v] = "offering" => rxData'[u].id # parsed'[v].id
      BY <1>5, <1>8 DEF WayInv, InvOnce, endpointVars
    <2>4. QED
      BY <2>1, <2>2, <2>3 DEF InvOnce
  <1>11. QED
    BY <1>9, <1>10 DEF WayInv

\* A waiting endpoint takes the frame from the receiver, and offers or drops it.
LEMMA WayParsed ==
    ASSUME DispatchTypeOK, WayInv, UNCHANGED <<requestVars, handlerVars>>,
           NEW s \in Sessions, EpReceive(s)
    PROVE  WayInv'
  <1>1. PICK t \in Sessions :
          Delivers(t) /\ (SingleMessage(s, rxData[t]) \/ NextMessage(s, rxData[t]))
    BY DEF EpReceive
  <1>2. NextMessage(s, rxData[t])
    BY <1>1 DEF SingleMessage, WayInv, InvWay
  <1>3. /\ rx[t] = "delivering"
        /\ rx' = [rx EXCEPT ![t] = "receiving"]
        /\ rxData' = [rxData EXCEPT ![t] = NilFrame]
        /\ UNCHANGED <<inbound, epName, asked, handler>>
    BY <1>1 DEF Delivers, EpReceive, requestVars, handlerVars
  <1>4. \A u \in Sessions : rx'[u] = "delivering" =>
          u # t /\ rx[u] = "delivering" /\ rxData'[u] = rxData[u]
    BY <1>3 DEF DispatchTypeOK, TransportTypeOK
  <1>5. CASE ~Parses("Request", rxData[t].kind)
    <2>1. UNCHANGED <<ep, parsed>>
      BY <1>2, <1>5 DEF NextMessage
    <2>2. QED
      BY <2>1, <1>3, <1>4, WayKept
  <1>6. CASE Parses("Request", rxData[t].kind)
    <2>1. /\ ep' = [ep EXCEPT ![s] = "offering"]
          /\ parsed' = [parsed EXCEPT ![s] = rxData[t]]
      BY <1>2, <1>6 DEF NextMessage
    <2>2. /\ ep'[s] = "offering" /\ parsed'[s] = rxData[t]
          /\ \A u \in Sessions \ {s} : ep'[u] = ep[u] /\ parsed'[u] = parsed[u]
      BY <2>1 DEF DispatchTypeOK, EndpointTypeOK
    <2>3. \A f : Waiting(f) => Waiting(f)'
      BY <1>3 DEF Waiting
    <2>4. InvWay'
      <3>1. \A u \in Sessions : \A i \in 1 .. Len(inbound[u]) : Waiting(inbound[u][i])'
        BY <1>3, <2>3 DEF WayInv, InvWay
      <3>2. \A u \in Sessions : rx'[u] = "delivering" => Waiting(rxData[u])'
        BY <1>4, <2>3 DEF WayInv, InvWay
      <3>3. \A u \in Sessions : ep'[u] = "offering" => Waiting(parsed[u])'
        BY <2>2, <2>3, <1>3 DEF WayInv, InvWay
      <3>4. QED
        BY <1>3, <3>1, <3>2, <3>3 DEF WayInv, InvWay
    <2>5. InvOnce'
      <3>1. \A u, v \in Sessions : \A i \in 1 .. Len(inbound'[u]), j \in 1 .. Len(inbound'[v]) :
              inbound'[u][i].id = inbound'[v][j].id => u = v /\ i = j
        BY <1>3 DEF WayInv, InvOnce
      <3>2. \A u, v \in Sessions : \A i \in 1 .. Len(inbound'[v]) :
              /\ rx'[u] = "delivering" => rxData'[u].id # inbound'[v][i].id
              /\ ep'[u] = "offering" => parsed'[u].id # inbound'[v][i].id
        BY <1>3, <1>4, <2>2 DEF WayInv, InvOnce
      <3>3. \A u, v \in Sessions :
              /\ rx'[u] = "delivering" /\ rx'[v] = "delivering" /\ rxData'[u].id = rxData'[v].id
                   => u = v
              /\ ep'[u] = "offering" /\ ep'[v] = "offering" /\ parsed'[u].id = parsed'[v].id
                   => u = v
              /\ rx'[u] = "delivering" /\ ep'[v] = "offering" => rxData'[u].id # parsed'[v].id
        BY <1>3, <1>4, <2>2 DEF WayInv, InvOnce
      <3>4. QED
        BY <3>1, <3>2, <3>3 DEF InvOnce
    <2>6. QED
      BY <2>4, <2>5 DEF WayInv
  <1>7. QED
    BY <1>5, <1>6

\* The dispatcher takes the only frame of a request and starts its handler.
LEMMA WayDispatched ==
    ASSUME DispatchTypeOK, WayInv, NEW s \in Sessions, Dispatches(s)
    PROVE  WayInv'
  <1>1. /\ ep[s] = "offering"
        /\ parsed[s].id \in Requests
        /\ handler' = [handler EXCEPT ![parsed[s].id] = "lookup"]
        /\ UNCHANGED <<inbound, rx, rxData, epName, asked>>
    BY DEF Dispatches, EpDelivers, transportVars, requestVars
  <1>2. \A u \in Sessions : ep'[u] = "offering" =>
          u # s /\ ep[u] = "offering" /\ parsed'[u] = parsed[u]
    BY DEF Dispatches, EpDelivers, DispatchTypeOK, EndpointTypeOK
  <1>3. ASSUME NEW f, Waiting(f), f.id # parsed[s].id
        PROVE  Waiting(f)'
    BY <1>1, <1>3 DEF Waiting, DispatchTypeOK
  <1>4. InvWay'
    <2>1. \A u \in Sessions : \A i \in 1 .. Len(inbound[u]) : Waiting(inbound[u][i])'
      BY <1>1, <1>3 DEF WayInv, InvWay, InvOnce
    <2>2. \A u \in Sessions : rx'[u] = "delivering" => Waiting(rxData[u])'
      BY <1>1, <1>3 DEF WayInv, InvWay, InvOnce
    <2>3. \A u \in Sessions : ep'[u] = "offering" => Waiting(parsed[u])'
      BY <1>1, <1>2, <1>3 DEF WayInv, InvWay, InvOnce
    <2>4. QED
      BY <1>1, <2>1, <2>2, <2>3 DEF WayInv, InvWay
  <1>5. InvOnce'
    BY <1>1, <1>2 DEF WayInv, InvOnce
  <1>6. QED
    BY <1>4, <1>5 DEF WayInv

\* The server sends a request under an id it has not used.
LEMMA WayAsked ==
    ASSUME DispatchTypeOK, WayInv, NEW t \in Sessions, NEW r \in Requests, ServerAsks(t, r),
           handler[r] = "none"
    PROVE  WayInv'
  <1>1. PICK f \in ServerFrames :
          /\ f.id = r
          /\ ServerPuts(t, f)
          /\ asked' = [asked EXCEPT ![r] = f]
    BY DEF ServerAsks
  <1>2. f \in Frame /\ f # NilFrame /\ asked[r] = NilFrame
    BY ServerFrameFacts DEF ServerAsks
  <1>3. inbound[t] \in Seq(Frame)
    BY DEF DispatchTypeOK, TransportTypeOK
  <1>4. /\ Len(inbound[t]) \in Nat
        /\ Len(Append(inbound[t], f)) = Len(inbound[t]) + 1
        /\ \A i \in 1 .. Len(inbound[t]) : Append(inbound[t], f)[i] = inbound[t][i]
        /\ Append(inbound[t], f)[Len(inbound[t]) + 1] = f
    BY <1>2, <1>3, AppendProperties, LenProperties
  <1>5. /\ inbound'[t] = Append(inbound[t], f)
        /\ \A u \in Sessions \ {t} : inbound'[u] = inbound[u]
        /\ UNCHANGED <<rx, rxData, ep, epName, parsed, handler>>
    BY <1>1 DEF ServerPuts, ServerAsks, endpointVars, handlerVars, DispatchTypeOK, TransportTypeOK
  <1>6. ASSUME NEW g, Waiting(g)
        PROVE  g.id # r /\ Waiting(g)'
    BY <1>1, <1>2, <1>5, <1>6 DEF Waiting, DispatchTypeOK
  <1>7. Waiting(f)'
    BY <1>1, <1>2, <1>5 DEF Waiting, DispatchTypeOK
  <1> DEFINE Last(u, i) == u = t /\ i = Len(inbound[t]) + 1
  <1>8. ASSUME NEW u \in Sessions, NEW i \in 1 .. Len(inbound'[u])
        PROVE  \/ Last(u, i) /\ inbound'[u][i] = f
               \/ /\ i \in 1 .. Len(inbound[u])
                  /\ inbound'[u][i] = inbound[u][i]
                  /\ Waiting(inbound[u][i])
    <2>1. CASE u = t
      <3>1. i \in 1 .. Len(inbound[t]) + 1 /\ inbound'[u][i] = Append(inbound[t], f)[i]
        BY <2>1, <1>4, <1>5
      <3>2. CASE i = Len(inbound[t]) + 1
        BY <3>1, <3>2, <2>1, <1>4
      <3>3. CASE i \in 1 .. Len(inbound[t])
        BY <3>1, <3>3, <2>1, <1>4 DEF WayInv, InvWay
      <3>4. QED
        BY <3>1, <3>2, <3>3, <1>4
    <2>2. CASE u # t
      BY <2>2, <1>5 DEF WayInv, InvWay
    <2>3. QED
      BY <2>1, <2>2
  <1>9. InvWay'
    <2>1. \A u \in Sessions : \A i \in 1 .. Len(inbound'[u]) : Waiting(inbound[u][i])'
      BY <1>6, <1>7, <1>8
    <2>2. QED
      BY <2>1, <1>5, <1>6 DEF WayInv, InvWay
  <1>10. InvOnce'
    <2>1. ASSUME NEW u \in Sessions, NEW v \in Sessions,
                 NEW i \in 1 .. Len(inbound'[u]), NEW j \in 1 .. Len(inbound'[v]),
                 inbound'[u][i].id = inbound'[v][j].id
          PROVE  u = v /\ i = j
      <3>1. CASE Last(u, i)
        <4>1. Last(v, j)
          BY <3>1, <2>1, <1>1, <1>4, <1>5, <1>6, <1>8
        <4>2. QED
          BY <3>1, <4>1
      <3>2. CASE Last(v, j)
        <4>1. Last(u, i)
          BY <3>2, <2>1, <1>1, <1>4, <1>5, <1>6, <1>8
        <4>2. QED
          BY <3>2, <4>1
      <3>3. CASE ~Last(u, i) /\ ~Last(v, j)
        <4> HIDE DEF Last
        <4>1. /\ i \in 1 .. Len(inbound[u]) /\ inbound'[u][i] = inbound[u][i]
              /\ j \in 1 .. Len(inbound[v]) /\ inbound'[v][j] = inbound[v][j]
          BY <3>3, <1>8
        <4>2. QED
          BY <4>1, <2>1 DEF WayInv, InvOnce
      <3>4. QED
        BY <3>1, <3>2, <3>3
    <2>2. ASSUME NEW u \in Sessions, NEW v \in Sessions, NEW i \in 1 .. Len(inbound'[v])
          PROVE  /\ rx'[u] = "delivering" => rxData'[u].id # inbound'[v][i].id
                 /\ ep'[u] = "offering" => parsed'[u].id # inbound'[v][i].id
      <3> HIDE DEF Last
      <3>1. /\ rx'[u] = "delivering" => rx[u] = "delivering" /\ rxData'[u] = rxData[u]
            /\ ep'[u] = "offering" => ep[u] = "offering" /\ parsed'[u] = parsed[u]
        BY <1>5
      <3>2. /\ rx[u] = "delivering" => rxData[u].id # r
            /\ ep[u] = "offering" => parsed[u].id # r
        BY <1>6 DEF WayInv, InvWay
      <3>3. CASE Last(v, i) /\ inbound'[v][i] = f
        BY <3>1, <3>2, <3>3, <1>1
      <3>4. CASE i \in 1 .. Len(inbound[v]) /\ inbound'[v][i] = inbound[v][i]
        BY <3>1, <3>4 DEF WayInv, InvOnce
      <3>5. QED
        BY <3>3, <3>4, <1>8
    <2>3. QED
      BY <2>1, <2>2, <1>5 DEF WayInv, InvOnce
  <1>11. QED
    BY <1>9, <1>10 DEF WayInv

-----------------------------------------------------------------------------
(* What handlers have handed over, and what the callbacks hold. *)

HandInv == InvHandler /\ InvCallback /\ InvHeld

\* A final message counts as handed over when it is settled or a callback holds it.
LEMMA HandedMembers ==
    \A r \in Requests : \A k :
        k \in Handed(r) <=>
            \/ k \in Settled(r)
            \/ k \in FinalKinds /\ \E s \in Sessions : held[s].id = r /\ held[s].kind = k
  BY DEF Handed, Held

\* The callback that holds no message holds none of any request.
LEMMA NoMessageFacts == NoMessage.id \notin Requests /\ NoMessage.id = NoRequest
  BY TransportAssumption DEF NoMessage

(***************************************************************************)
(* A step that hands nothing over keeps the invariants, if the handlers    *)
(* it moves have handed over what their new control states say.            *)
(***************************************************************************)
LEMMA HandKept ==
    ASSUME HandInv, UNCHANGED <<callbackVars, historyVars>>,
           \A r \in Requests :
              /\ handler'[r] # "none" => asked'[r].kind \in HandlerKinds
              /\ handler'[r] \notin {"none", "lookup", "done"} => Answerable(r)'
              /\ handler'[r] \in {"complete", "cancel"} => asked'[r].kind = "Discovery"
              /\ handler'[r] = "reporting" => asked'[r].kind = "Action"
              /\ HandedBy(r)' = HandedBy(r)
    PROVE  HandInv'
  <1>1. \A r \in Requests : Handed(r)' = Handed(r) /\ Settled(r)' = Settled(r)
    BY DEF Handed, Held, Settled, callbackVars, historyVars
  <1>2. InvHandler'
    BY <1>1 DEF HandInv, InvHandler
  <1>3. InvCallback' /\ InvHeld'
    BY <1>1 DEF HandInv, InvCallback, InvHeld, callbackVars
  <1>4. QED
    BY <1>2, <1>3 DEF HandInv

(***************************************************************************)
(* A goroutine of request r hands a message to an idle callback: a final   *)
(* message counts as handed over by r from then on.                        *)
(***************************************************************************)
LEMMA HandedOver ==
    ASSUME DispatchTypeOK, HandInv, NEW r \in Requests, NEW k \in MessageKinds,
           NEW b \in BOOLEAN, HandsOver(r, k, b), UNCHANGED historyVars,
           k \notin FinalKinds \/ k \notin HandedBy(r)
    PROVE  /\ InvCallback' /\ InvHeld'
           /\ \A q \in Requests \ {r} : Handed(q)' = Handed(q)
           /\ Handed(r)' = Handed(r) \cup ({k} \cap FinalKinds)
  <1>1. PICK s \in Sessions :
          /\ callback[s] = "idle"
          /\ callback' = [callback EXCEPT ![s] = "busy"]
          /\ held' = [held EXCEPT ![s] = [id |-> r, kind |-> k, ok |-> b]]
    BY DEF HandsOver
  <1>2. /\ held'[s].id = r /\ held'[s].kind = k /\ held'[s] # NoMessage
        /\ callback'[s] = "busy"
        /\ \A u \in Sessions \ {s} : held'[u] = held[u] /\ callback'[u] = callback[u]
    BY <1>1, TransportAssumption DEF DispatchTypeOK, NoMessage
  <1>3. held[s].id \notin Requests
    BY <1>1, NoMessageFacts DEF HandInv, InvCallback
  <1>4. \A q \in Requests : Settled(q)' = Settled(q)
    BY DEF Settled, historyVars
  <1>5. InvCallback'
    BY <1>2 DEF HandInv, InvCallback
  <1>6. ASSUME NEW q \in Requests, NEW m \in FinalKinds
        PROVE  (\E u \in Sessions : held'[u].id = q /\ held'[u].kind = m)
                 <=> \/ \E u \in Sessions : held[u].id = q /\ held[u].kind = m
                     \/ q = r /\ m = k
    BY <1>2, <1>3
  <1>7. ASSUME NEW q \in Requests, NEW m
        PROVE  m \in Handed(q)' <=> m \in Handed(q) \/ (q = r /\ m = k /\ k \in FinalKinds)
    <2>1. m \in Handed(q)' <=>
            \/ m \in Settled(q)'
            \/ m \in FinalKinds /\ \E u \in Sessions : held'[u].id = q /\ held'[u].kind = m
      BY DEF Handed, Held
    <2>2. QED
      BY <2>1, <1>4, <1>6, HandedMembers
  <1>8. k \in FinalKinds => k \notin Handed(r)
    BY DEF HandInv, InvHandler
  <1>9. InvHeld'
    <2>1. ASSUME NEW u \in Sessions, NEW q \in Requests,
                 held'[u].id = q, held'[u].kind \in FinalKinds
          PROVE  /\ held'[u].kind \notin Settled(q)'
                 /\ \A v \in Sessions :
                      held'[v].id = q /\ held'[v].kind = held'[u].kind => v = u
      <3>1. CASE u = s
        <4>1. q = r /\ held'[u].kind = k /\ k \notin Handed(r)
          BY <3>1, <2>1, <1>2, <1>8
        <4>2. k \notin Settled(r) /\ ~ \E v \in Sessions : held[v].id = r /\ held[v].kind = k
          BY <4>1, <2>1, HandedMembers
        <4>3. QED
          BY <3>1, <4>1, <4>2, <1>2, <1>4
      <3>2. CASE u # s
        <4>1. /\ held[u].id = q /\ held[u].kind = held'[u].kind
              /\ held[u].kind \in FinalKinds
          BY <3>2, <2>1, <1>2
        <4>2. held[u].kind \in Handed(q) /\ held[u].kind \notin Settled(q)
          BY <4>1, HandedMembers DEF HandInv, InvHeld
        <4>3. ASSUME NEW v \in Sessions, held'[v].id = q, held'[v].kind = held'[u].kind
              PROVE  v = u
          <5>1. CASE v = s
            BY <5>1, <4>1, <4>2, <4>3, <1>2, <1>8
          <5>2. CASE v # s
            BY <5>2, <4>1, <4>3, <1>2 DEF HandInv, InvHeld
          <5>3. QED
            BY <5>1, <5>2
        <4>4. QED
          BY <4>1, <4>2, <4>3, <1>4
      <3>3. QED
        BY <3>1, <3>2
    <2>2. QED
      BY <2>1 DEF InvHeld
  <1>10. QED
    BY <1>5, <1>7, <1>9

\* A callback settles the message it holds: what was handed over stays the same.
LEMMA HandSettled ==
    ASSUME DispatchTypeOK, HandInv, NEW s \in Sessions, CallbackSends(s)
    PROVE  HandInv'
  <1>1. held[s] # NoMessage /\ callback[s] = "busy"
    BY DEF CallbackSends, HandInv, InvCallback
  <1>2. PICK r \in Requests, k \in MessageKinds : held[s].id = r /\ held[s].kind = k
    BY <1>1 DEF DispatchTypeOK, Message
  <1>3. /\ callback'[s] = "idle" /\ held'[s] = NoMessage
        /\ \A u \in Sessions \ {s} : held'[u] = held[u] /\ callback'[u] = callback[u]
    BY DEF CallbackSends, DispatchTypeOK
  <1>4. /\ Settled(r)' = Settled(r) \cup ({k} \cap FinalKinds)
        /\ \A q \in Requests \ {r} : Settled(q)' = Settled(q)
    <2>1. CASE held[s].ok /\ Transmits(epOn[s])
      <3>1. /\ wire' = [wire EXCEPT ![r] = @ \cup ({k} \cap FinalKinds)]
            /\ dropped' = dropped
        BY <2>1, <1>2 DEF CallbackSends, Records
      <3>2. QED
        BY <3>1 DEF Settled, DispatchTypeOK
    <2>2. CASE ~(held[s].ok /\ Transmits(epOn[s]))
      <3>1. /\ dropped' = [dropped EXCEPT ![r] = @ \cup ({k} \cap FinalKinds)]
            /\ wire' = wire
        BY <2>2, <1>2 DEF CallbackSends, Records
      <3>2. QED
        BY <3>1 DEF Settled, DispatchTypeOK
    <2>3. QED
      BY <2>1, <2>2
  <1>5. NoMessage.id \notin Requests
    BY NoMessageFacts
  <1>6. ASSUME NEW q \in Requests
        PROVE  Handed(q)' = Handed(q)
    <2>1. ASSUME NEW m
          PROVE  m \in Handed(q)' <=> m \in Handed(q)
      <3>1. m \in Handed(q)' <=>
              \/ m \in Settled(q)'
              \/ m \in FinalKinds /\ \E u \in Sessions : held'[u].id = q /\ held'[u].kind = m
        BY DEF Handed, Held
      <3>2. (\E u \in Sessions : held[u].id = q /\ held[u].kind = m)
              <=> \/ \E u \in Sessions : held'[u].id = q /\ held'[u].kind = m
                  \/ q = r /\ m = k
        BY <1>2, <1>3, <1>5
      <3>3. QED
        BY <3>1, <3>2, <1>4, HandedMembers
    <2>2. QED
      BY <2>1
  <1>7. UNCHANGED <<handler, asked>>
    BY DEF CallbackSends, handlerVars, requestVars
  <1>8. InvHandler'
    BY <1>6, <1>7 DEF HandInv, InvHandler, HandedBy, Answerable
  <1>9. InvCallback'
    BY <1>1, <1>3 DEF HandInv, InvCallback
  <1>10. InvHeld'
    <2>1. ASSUME NEW u \in Sessions, NEW q \in Requests,
                 held'[u].id = q, held'[u].kind \in FinalKinds
          PROVE  /\ held'[u].kind \notin Settled(q)'
                 /\ \A v \in Sessions :
                      held'[v].id = q /\ held'[v].kind = held'[u].kind => v = u
      <3>1. u # s /\ held[u] = held'[u]
        BY <2>1, <1>3, <1>5
      <3>2. /\ held[u].kind \notin Settled(q)
            /\ \A v \in Sessions : held[v].id = q /\ held[v].kind = held[u].kind => v = u
        BY <2>1, <3>1 DEF HandInv, InvHeld
      <3>3. q = r => held[u].kind # k
        BY <3>1, <3>2, <1>2
      <3>4. held'[u].kind \notin Settled(q)'
        BY <3>1, <3>2, <3>3, <1>4
      <3>5. \A v \in Sessions : held'[v].id = q /\ held'[v].kind = held'[u].kind => v = u
        BY <2>1, <3>1, <3>2, <1>3, <1>5
      <3>6. QED
        BY <3>4, <3>5
    <2>2. QED
      BY <2>1 DEF InvHeld
  <1>11. QED
    BY <1>8, <1>9, <1>10 DEF HandInv

-----------------------------------------------------------------------------
(* The inductive invariant. *)

\* The inductive invariant holds when the sessions start.
LEMMA DispatchInitInv == DispatchInit => DispatchInv
  <1> SUFFICES ASSUME DispatchInit
               PROVE  DispatchInv
    OBVIOUS
  <1>1. InvWay /\ InvOnce
    BY DEF DispatchInit, InvWay, InvOnce
  <1>2. InvCallback /\ InvHeld
    BY NoMessageFacts DEF DispatchInit, InvCallback, InvHeld
  <1>3. \A r \in Requests : Handed(r) = {}
    BY NoMessageFacts DEF DispatchInit, Handed, Held, Settled
  <1>4. InvHandler
    BY <1>3 DEF DispatchInit, InvHandler, HandedBy
  <1>5. QED
    BY <1>1, <1>2, <1>4, DispatchInitType DEF DispatchInv

\* A step of the transport or of the endpoint, which knows of no handler.
LEMMA HandKeptBelow ==
    ASSUME HandInv, UNCHANGED <<requestVars, handlerVars, callbackVars, historyVars>>
    PROVE  HandInv'
  <1>1. \A r \in Requests : HandedBy(r)' = HandedBy(r) /\ Answerable(r)' = Answerable(r)
    BY DEF HandedBy, Answerable, requestVars, handlerVars
  <1>2. QED
    BY <1>1, HandKept DEF HandInv, InvHandler, requestVars, handlerVars

\* No step of a session's goroutines, or of its server, breaks the inductive invariant.
LEMMA SessionStepInv ==
    ASSUME DispatchInv, NEW s \in Sessions, SessionStep(s)
    PROVE  WayInv' /\ HandInv'
  <1>1. DispatchTypeOK /\ WayInv /\ HandInv
    BY DEF DispatchInv, WayInv, HandInv
  <1>2. CASE Transports(s)
    <2>1. HandInv'
      BY <1>1, <1>2, HandKeptBelow DEF Transports
    <2>2. CASE RxReceive(s)
      BY <1>1, <1>2, <2>1, <2>2, WayReceived DEF Transports, DispatchTypeOK
    <2>3. CASE RxFail(s)
      <3>1. \A t \in Sessions :
              rx'[t] = "delivering" => rx[t] = "delivering" /\ rxData'[t] = rxData[t]
        BY <1>1, <2>3 DEF RxFail, DispatchTypeOK, TransportTypeOK
      <3>2. QED
        BY <1>1, <1>2, <2>1, <2>3, <3>1, WayKept
        DEF RxFail, Transports, endpointVars, requestVars, handlerVars
    <2>4. CASE RxSendsOnClosed(s)
      BY <1>1, <1>2, <2>1, <2>4, WayKept
      DEF RxSendsOnClosed, Transports, endpointVars, requestVars, handlerVars
    <2>5. QED
      BY <1>2, <2>2, <2>3, <2>4 DEF Transports, TransportStep
  <1>3. CASE Endpoints(s)
    <2>1. HandInv'
      BY <1>1, <1>3, HandKeptBelow DEF Endpoints
    <2>2. CASE EpReceive(s)
      BY <1>1, <1>3, <2>1, <2>2, WayParsed DEF Endpoints
    <2>3. CASE EpFindsClosed(s)
      <3>1. epName[s] = "Request"
        BY <1>1 DEF WayInv, InvWay
      <3>2. \A u \in Sessions :
              ep'[u] = "offering" => ep[u] = "offering" /\ parsed'[u] = parsed[u]
        BY <1>1, <2>3, <3>1 DEF EpFindsClosed, DispatchTypeOK, EndpointTypeOK
      <3>3. QED
        BY <1>1, <1>3, <2>1, <2>3, <3>2, WayKept
        DEF EpFindsClosed, Endpoints, transportVars, requestVars, handlerVars
    <2>4. QED
      BY <1>3, <2>2, <2>3 DEF Endpoints, EndpointStep
  <1>4. CASE DropsUnhandled(s)
    <2>1. HandInv'
      BY <1>1, <1>4, HandKeptBelow DEF DropsUnhandled
    <2>2. \A u \in Sessions :
            ep'[u] = "offering" => ep[u] = "offering" /\ parsed'[u] = parsed[u]
      BY <1>1, <1>4 DEF DropsUnhandled, EpDelivers, DispatchTypeOK, EndpointTypeOK
    <2>3. QED
      BY <1>1, <1>4, <2>1, <2>2, WayKept
      DEF DropsUnhandled, EpDelivers, transportVars, requestVars, handlerVars
  <1>5. CASE Dispatches(s)
    <2>1. PICK r \in Requests :
            /\ parsed[s].id = r
            /\ parsed[s].kind \in RequestKinds \ {"Unknown"}
            /\ handler' = [handler EXCEPT ![r] = "lookup"]
      BY <1>5 DEF Dispatches
    <2>2. handler[r] = "none" /\ asked[r] = parsed[s]
      BY <1>1, <1>5, <2>1 DEF Dispatches, EpDelivers, WayInv, InvWay, Waiting
    <2>3. asked[r].kind \in HandlerKinds
      BY <2>1, <2>2 DEF HandlerKinds, RequestKinds
    <2>4. \A q \in Requests : Answerable(q)' = Answerable(q) /\ asked'[q] = asked[q]
      BY <1>5 DEF Dispatches, Answerable, requestVars
    <2>5. ASSUME NEW q \in Requests
          PROVE  /\ handler'[q] = IF q = r THEN "lookup" ELSE handler[q]
                 /\ HandedBy(q)' = HandedBy(q)
      BY <1>1, <2>1, <2>2, <2>4 DEF HandedBy, DispatchTypeOK
    <2>6. HandInv'
      BY <1>1, <1>5, <2>3, <2>4, <2>5, HandKept DEF Dispatches, HandInv, InvHandler
    <2>7. QED
      BY <1>1, <1>5, <2>6, WayDispatched
  <1>6. CASE CallbackSends(s)
    BY <1>1, <1>6, HandSettled, WayKept
    DEF CallbackSends, transportVars, endpointVars, requestVars, handlerVars
  <1>7. CASE LosesConnection(s)
    BY <1>1, <1>7, HandKeptBelow, WayKept
    DEF LosesConnection, PeerLost, endpointVars, requestVars, handlerVars
  <1>8. ASSUME NEW r \in Requests, ServerAsks(s, r)
        PROVE  WayInv' /\ HandInv'
    <2>1. handler[r] = "none"
      BY <1>1, <1>8 DEF ServerAsks, HandInv, InvHandler, HandlerKinds, NilFrame, Plain
    <2>2. \A q \in Requests \ {r} : asked'[q] = asked[q] /\ Answerable(q)' = Answerable(q)
      BY <1>8 DEF ServerAsks, Answerable
    <2>3. UNCHANGED <<handlerVars, callbackVars, historyVars>>
      BY <1>8 DEF ServerAsks
    <2>4. \A q \in Requests : HandedBy(q)' = HandedBy(q)
      BY <2>1, <2>2, <2>3 DEF HandedBy, handlerVars
    <2>5. HandInv'
      BY <1>1, <2>1, <2>2, <2>3, <2>4, HandKept DEF HandInv, InvHandler, handlerVars
    <2>6. QED
      BY <1>1, <1>8, <2>1, <2>5, WayAsked
  <1>9. QED
    BY <1>2, <1>3, <1>4, <1>5, <1>6, <1>7, <1>8 DEF SessionStep

\* No step of a request's goroutines breaks the inductive invariant.
LEMMA HandlerStepInv ==
    ASSUME DispatchInv, NEW r \in Requests, HandlerStep(r)
    PROVE  WayInv' /\ HandInv'
  <1>1. DispatchTypeOK /\ WayInv /\ HandInv
    BY DEF DispatchInv, WayInv, HandInv
  <1>2. UNCHANGED <<transportVars, endpointVars, requestVars>>
    BY DEF HandlerStep, Abandons, CallsProbe, UpdatesProgress, ProbeReturns, HandsProgress,
       HandsResult, HandsCompletion, ClosesStopCh, HandsKeepAlive, TimerFires, KeepAliveStops
  <1>3. \A q \in Requests : Answerable(q)' = Answerable(q) /\ asked'[q] = asked[q]
    BY <1>2 DEF Answerable, requestVars
  <1>4. /\ handler[r] # "none" \/ UNCHANGED handler
        /\ \E h \in {"calling", "reporting", "respond", "complete", "cancel", "done"} :
             UNCHANGED handler \/ handler' = [handler EXCEPT ![r] = h]
    BY DEF HandlerStep, Abandons, CallsProbe, UpdatesProgress, ProbeReturns, HandsProgress,
       HandsResult, DiscoveryResponds, ValidationResponds, ActionResponds,
       HandsCompletion, ClosesStopCh, HandsKeepAlive, TimerFires, KeepAliveStops,
       HandInv, InvHandler, HandedBy
  <1>5. \A q \in Requests : /\ q # r => handler'[q] = handler[q]
                            /\ handler[q] = "none" => handler'[q] = "none"
    BY <1>1, <1>4 DEF DispatchTypeOK
  <1>6. WayInv'
    BY <1>1, <1>2, <1>5, WayKept DEF transportVars, endpointVars, requestVars
  <1>7. \A q \in Requests \ {r} : HandedBy(q)' = HandedBy(q)
    BY <1>3, <1>5 DEF HandedBy
  <1>8. \A q \in Requests : handler'[q] = handler[q] => HandedBy(q)' = HandedBy(q)
    BY <1>3 DEF HandedBy
  \* A step that hands nothing over moves the handler between states that agree.
  <1>9. ASSUME UNCHANGED <<callbackVars, historyVars>>,
               /\ handler'[r] \notin {"none", "lookup", "done"} => Answerable(r)
               /\ handler'[r] \in {"complete", "cancel"} => asked[r].kind = "Discovery"
               /\ handler'[r] = "reporting" => asked[r].kind = "Action"
               /\ HandedBy(r)' = HandedBy(r)
        PROVE  HandInv'
    BY <1>1, <1>3, <1>4, <1>5, <1>7, <1>9, HandKept DEF HandInv, InvHandler
  \* One that hands message k over counts k, if it is final.
  <1>10. ASSUME NEW k \in MessageKinds, NEW b \in BOOLEAN, HandsOver(r, k, b),
                UNCHANGED historyVars,
                k \notin FinalKinds \/ k \notin HandedBy(r),
                /\ handler'[r] \notin {"none", "lookup", "done"} => Answerable(r)
                /\ handler'[r] \in {"complete", "cancel"} => asked[r].kind = "Discovery"
                /\ handler'[r] = "reporting" => asked[r].kind = "Action"
                /\ HandedBy(r)' = HandedBy(r) \cup ({k} \cap FinalKinds)
         PROVE  HandInv'
    <2>1. /\ InvCallback' /\ InvHeld'
          /\ \A q \in Requests \ {r} : Handed(q)' = Handed(q)
          /\ Handed(r)' = Handed(r) \cup ({k} \cap FinalKinds)
      BY <1>1, <1>10, HandedOver
    <2>2. asked[r].kind \in HandlerKinds \/ handler'[r] = "none"
      BY <1>1, <1>4 DEF HandInv, InvHandler
    <2>3. Handed(r) = HandedBy(r)
      BY <1>1 DEF HandInv, InvHandler
    <2>4. \A q \in Requests \ {r} : Handed(q)' = HandedBy(q)'
      BY <1>1, <1>7, <2>1 DEF HandInv, InvHandler
    <2>5. Handed(r)' = HandedBy(r)'
      BY <1>10, <2>1, <2>3
    <2>6. ASSUME NEW q \in Requests
          PROVE  /\ handler'[q] # "none" => asked'[q].kind \in HandlerKinds
                 /\ handler'[q] \notin {"none", "lookup", "done"} => Answerable(q)'
                 /\ handler'[q] \in {"complete", "cancel"} => asked'[q].kind = "Discovery"
                 /\ handler'[q] = "reporting" => asked'[q].kind = "Action"
                 /\ Handed(q)' = HandedBy(q)'
      <3>1. CASE q = r
        BY <3>1, <1>3, <1>10, <2>2, <2>5
      <3>2. CASE q # r
        BY <3>2, <1>1, <1>3, <1>5, <2>4 DEF HandInv, InvHandler
      <3>3. QED
        BY <3>1, <3>2
    <2>7. InvHandler'
      BY <2>6 DEF InvHandler
    <2>8. QED
      BY <2>1, <2>7 DEF HandInv
  <1>11. CASE Abandons(r)
    BY <1>1, <1>3, <1>6, <1>9, <1>11 DEF Abandons, HandedBy, Answerable, DispatchTypeOK
  <1>12. CASE CallsProbe(r)
    <2>1. Answerable(r)
      BY <1>1, <1>12 DEF CallsProbe, HandInv, InvHandler, HandlerKinds, Answerable
    <2>2. QED
      BY <1>1, <1>3, <1>6, <1>9, <1>12, <2>1 DEF CallsProbe, HandedBy, DispatchTypeOK
  <1>13. CASE UpdatesProgress(r)
    BY <1>1, <1>3, <1>6, <1>9, <1>13
    DEF UpdatesProgress, HandedBy, DispatchTypeOK, HandInv, InvHandler
  <1>14. CASE ProbeReturns(r)
    BY <1>1, <1>3, <1>6, <1>9, <1>14
    DEF ProbeReturns, HandedBy, DispatchTypeOK, HandInv, InvHandler
  <1>15. CASE HandsProgress(r)
    BY <1>1, <1>3, <1>6, <1>10, <1>15
    DEF HandsProgress, HandedBy, DispatchTypeOK, HandInv, InvHandler, MessageKinds, FinalKinds
  <1>16. CASE HandsResult(r)
    <2>1. /\ HandsOver(r, "result", reply[r]) /\ reply[r] \in BOOLEAN
          /\ Answerable(r) /\ HandedBy(r) = {} /\ UNCHANGED historyVars
      BY <1>1, <1>16
      DEF HandsResult, DiscoveryResponds, ValidationResponds, ActionResponds,
          HandInv, InvHandler, HandedBy, DispatchTypeOK
    <2>2. CASE asked[r].kind = "Discovery"
      <3>1. handler'[r] = "complete"
        BY <1>1, <1>16, <2>2
        DEF HandsResult, DiscoveryResponds, ValidationResponds, ActionResponds,
            DispatchTypeOK
      <3>2. QED
        BY <1>6, <1>10, <2>1, <2>2, <3>1 DEF HandedBy, MessageKinds, FinalKinds
    <2>3. CASE asked[r].kind # "Discovery"
      <3>1. handler'[r] = "done"
        BY <1>1, <1>16, <2>3
        DEF HandsResult, DiscoveryResponds, ValidationResponds, ActionResponds,
            DispatchTypeOK
      <3>2. HandedBy(r)' = {"result"}
        BY <1>3, <2>1, <2>3, <3>1 DEF HandedBy
      <3>3. QED
        BY <1>6, <1>10, <2>1, <3>1, <3>2 DEF MessageKinds, FinalKinds
    <2>4. QED
      BY <2>2, <2>3
  <1>17. CASE HandsCompletion(r)
    <2>1. /\ HandsOver(r, "completion", TRUE) /\ UNCHANGED historyVars
          /\ Answerable(r) /\ asked[r].kind = "Discovery"
          /\ HandedBy(r) = {"result"} /\ handler'[r] = "cancel"
      BY <1>1, <1>17 DEF HandsCompletion, HandInv, InvHandler, HandedBy, DispatchTypeOK
    <2>2. QED
      BY <1>6, <1>10, <2>1 DEF HandedBy, MessageKinds, FinalKinds
  <1>18. CASE ClosesStopCh(r)
    <2>1. /\ Answerable(r) /\ asked[r].kind = "Discovery"
          /\ handler[r] = "cancel" /\ handler'[r] = "done"
      BY <1>1, <1>18 DEF ClosesStopCh, HandInv, InvHandler, DispatchTypeOK
    <2>2. HandedBy(r)' = HandedBy(r)
      BY <1>3, <2>1 DEF HandedBy
    <2>3. QED
      BY <1>6, <1>9, <1>18, <2>1, <2>2 DEF ClosesStopCh
  <1>19. CASE HandsKeepAlive(r)
    BY <1>1, <1>6, <1>8, <1>10, <1>19
    DEF HandsKeepAlive, HandInv, InvHandler, MessageKinds, FinalKinds
  <1>20. CASE TimerFires(r) \/ KeepAliveStops(r)
    BY <1>1, <1>6, <1>8, <1>9, <1>20 DEF TimerFires, KeepAliveStops, HandInv, InvHandler
  <1>21. QED
    BY <1>11, <1>12, <1>13, <1>14, <1>15, <1>16, <1>17, <1>18, <1>19, <1>20 DEF HandlerStep

\* No step breaks the inductive invariant.
LEMMA DispatchNextInv ==
    ASSUME DispatchInv, [DispatchNext]_dispatchVars
    PROVE  DispatchInv'
  <1>1. DispatchTypeOK'
    BY DispatchNextType DEF DispatchInv
  <1>2. WayInv /\ HandInv
    BY DEF DispatchInv, WayInv, HandInv
  <1>3. CASE \E s \in Sessions : SessionStep(s)
    BY <1>1, <1>3, SessionStepInv DEF DispatchInv, WayInv, HandInv
  <1>4. CASE \E r \in Requests : HandlerStep(r)
    BY <1>1, <1>4, HandlerStepInv DEF DispatchInv, WayInv, HandInv
  <1>5. CASE CloseContainer
    <2>1. UNCHANGED <<inbound, rx, rxData, endpointVars, requestVars, handlerVars,
                      callbackVars, historyVars>>
      BY <1>5 DEF CloseContainer, CloseTransportPoint
    <2>2. WayInv' /\ HandInv'
      BY <1>2, <2>1, HandKeptBelow, WayKept DEF endpointVars, requestVars, handlerVars
    <2>3. QED
      BY <1>1, <2>2 DEF DispatchInv, WayInv, HandInv
  <1>6. CASE UNCHANGED dispatchVars
    <2>1. WayInv' /\ HandInv'
      BY <1>2, <1>6, HandKeptBelow, WayKept
      DEF dispatchVars, transportVars, endpointVars, requestVars, handlerVars
    <2>2. QED
      BY <1>1, <2>1 DEF DispatchInv, WayInv, HandInv
  <1>7. QED
    BY <1>3, <1>4, <1>5, <1>6 DEF DispatchNext

(***************************************************************************)
(* DispatchInv holds in every reachable state, for any number of sessions, *)
(* requests and probes.                                                    *)
(***************************************************************************)
THEOREM DispatchInvariant == DispatchSpec => []DispatchInv
  BY DispatchInitInv, DispatchNextInv, PTL DEF DispatchSpec

(***************************************************************************)
(* A handler that is done has handed over its result exactly when its      *)
(* request is one to answer, and the completion exactly when it is a       *)
(* discovery: no path through a handler answers twice or not at all.       *)
(***************************************************************************)
THEOREM FinishedIsAnsweredHolds == DispatchSpec => []FinishedIsAnswered
  <1>1. DispatchInv => FinishedIsAnswered
    BY DEF DispatchInv, InvHandler, HandedBy, FinishedIsAnswered
  <1>2. QED
    BY <1>1, DispatchInvariant, PTL
=============================================================================
