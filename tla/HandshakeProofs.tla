-------------------------- MODULE HandshakeProofs --------------------------
(***************************************************************************)
(* Theorems about Handshake, for any number of sessions and targets.       *)
(***************************************************************************)
EXTENDS Handshake, ProtobufEndpointProofs

-----------------------------------------------------------------------------
(* Type correctness. *)

\* The sessions start in type.
LEMMA HandshakeInitType == HandshakeInit => HandshakeTypeOK
  <1> SUFFICES ASSUME HandshakeInit
               PROVE  HandshakeTypeOK
    OBVIOUS
  <1>1. TransportTypeOK
    <2>1. inbound \in [Sessions -> Seq(Frame)]
      BY DEF HandshakeInit, TransportInit
    <2>2. QED
      BY <2>1, FrameFacts DEF HandshakeInit, TransportInit, TransportTypeOK
  <1>2. EndpointTypeOK
    BY FrameFacts DEF HandshakeInit, EndpointInit, EndpointTypeOK
  <1>3. outbound \in [Sessions -> Seq(ClientMessages)]
    BY DEF HandshakeInit
  <1>4. QED
    BY <1>1, <1>2, <1>3 DEF HandshakeInit, HandshakeTypeOK

\* What the server may answer, as a frame.
LEMMA AnswerFacts ==
    ASSUME NEW m \in ClientMessages, NEW k \in Answers(m)
    PROVE  k \in {"accepted", "rejected", "ack", "garbage"} /\ Plain(k) \in Frame
  BY DEF ClientMessages, Answers, Plain, Frame, FrameKinds

\* Stop keeps the transports in type, whichever it closes.
LEMMA StopType ==
    ASSUME TransportTypeOK, Stop
    PROVE  TransportTypeOK'
  BY CloseType DEF Stop, transportVars, TransportTypeOK

\* What the caller does with the status, and with a target, stays in type.
LEMMA ServiceDataType ==
    ASSUME HandshakeTypeOK, NEW s \in Sessions, StatusReceived(s) \/ AddsTarget(s)
    PROVE  /\ svc' \in [Sessions -> {"idle", "waiting", "adding", "closing", "returned"}]
           /\ todo' \in [Sessions -> SUBSET Targets]
           /\ added' \in [Sessions -> SUBSET Targets]
           /\ status' \in [Sessions -> {"empty", "true", "false"}]
  <1>1. /\ svc \in [Sessions -> {"idle", "waiting", "adding", "closing", "returned"}]
        /\ todo \in [Sessions -> SUBSET Targets]
        /\ added \in [Sessions -> SUBSET Targets]
        /\ status \in [Sessions -> {"empty", "true", "false"}]
    BY DEF HandshakeTypeOK
  <1>2. CASE StatusReceived(s)
    <2>1. added' = added /\ status' = [status EXCEPT ![s] = "empty"]
      BY <1>2 DEF StatusReceived
    <2>2. CASE status[s] = "true"
      <3>1. svc' = [svc EXCEPT ![s] = "adding"] /\ todo' = [todo EXCEPT ![s] = Targets]
        BY <1>2, <2>2 DEF StatusReceived
      <3>2. QED
        BY <1>1, <2>1, <3>1
    <2>3. CASE status[s] # "true"
      <3>1. svc' = [svc EXCEPT ![s] = "closing"] /\ todo' = todo
        BY <1>2, <2>3 DEF StatusReceived
      <3>2. QED
        BY <1>1, <2>1, <3>1
    <2>4. QED
      BY <2>2, <2>3
  <1>3. CASE AddsTarget(s)
    <2>1. PICK x \in todo[s] :
            /\ todo' = [todo EXCEPT ![s] = @ \ {x}]
            /\ \/ added' = [added EXCEPT ![s] = @ \cup {x}]
               \/ UNCHANGED added
      BY <1>3 DEF AddsTarget
    <2>2. todo[s] \subseteq Targets /\ added[s] \cup {x} \subseteq Targets
      BY <1>1
    <2>3. todo' \in [Sessions -> SUBSET Targets]
      BY <1>1, <2>1, <2>2
    <2>4. added' \in [Sessions -> SUBSET Targets]
      BY <1>1, <2>1, <2>2
    <2>5. QED
      BY <1>1, <1>3, <2>3, <2>4 DEF AddsTarget, statusVars
  <1>4. QED
    BY <1>2, <1>3

\* What Init makes of the verdict stays in type.
LEMMA SendStatusType ==
    ASSUME HandshakeTypeOK, NEW s \in Sessions, SendStatus(s)
    PROVE  /\ status' \in [Sessions -> {"empty", "true", "false"}]
           /\ init' \in [Sessions -> {"off", "container", "dialed", "awaiting", "failing",
                                     "closing", "serve", "serving", "done"}]
  <1>1. /\ status \in [Sessions -> {"empty", "true", "false"}]
        /\ init \in [Sessions -> {"off", "container", "dialed", "awaiting", "failing",
                                  "closing", "serve", "serving", "done"}]
    BY DEF HandshakeTypeOK
  <1>2. CASE proto[s] = "registered"
    <2>1. status' = [status EXCEPT ![s] = "true"] /\ init' = [init EXCEPT ![s] = "serve"]
      BY <1>2 DEF SendStatus
    <2>2. QED
      BY <1>1, <2>1
  <1>3. CASE proto[s] # "registered"
    <2>1. status' = [status EXCEPT ![s] = "false"] /\ init' = [init EXCEPT ![s] = "failing"]
      BY <1>3 DEF SendStatus
    <2>2. QED
      BY <1>1, <2>1
  <1>4. QED
    BY <1>2, <1>3

\* A step of the caller of ConnectToTurbo, or of the application, keeps the types.
LEMMA ServiceStepType ==
    ASSUME HandshakeTypeOK, NEW s \in Sessions,
           ConnectToTurbo(s) \/ ServiceStep(s) \/ LoadProbe
    PROVE  HandshakeTypeOK'
  <1> USE DEF HandshakeTypeOK, TransportTypeOK, EndpointTypeOK, transportVars, endpointVars,
              serviceVars, statusVars, serverVars
  <1>1. CASE LoadProbe
    BY <1>1 DEF LoadProbe
  <1>2. CASE ConnectToTurbo(s)
    BY <1>2 DEF ConnectToTurbo
  <1>3. CASE StatusReceived(s)
    BY <1>3, ServiceDataType DEF StatusReceived
  <1>4. CASE AddsTarget(s)
    BY <1>4, ServiceDataType DEF AddsTarget
  <1>5. CASE TargetsDone(s)
    BY <1>5 DEF TargetsDone
  <1>6. CASE ConnectReturns(s)
    BY <1>6 DEF ConnectReturns, ClosesStatus
  <1>7. QED
    BY <1>1, <1>2, <1>3, <1>4, <1>5, <1>6 DEF ServiceStep

\* So does a step of Init.
LEMMA InitStepType ==
    ASSUME HandshakeTypeOK, NEW s \in Sessions, InitStep(s)
    PROVE  HandshakeTypeOK'
  <1> USE DEF HandshakeTypeOK, endpointVars, serviceVars, statusVars, serverVars
  <1>1. CASE NoProbesToRegister(s)
    BY <1>1 DEF NoProbesToRegister, TransportTypeOK, EndpointTypeOK, transportVars
  <1>2. CASE DialFails(s)
    BY <1>2, StopType DEF DialFails, EndpointTypeOK
  <1>3. CASE DialSucceeds(s)
    BY <1>3 DEF DialSucceeds, Connect, TransportTypeOK, EndpointTypeOK
  <1>4. CASE StartProtocol(s)
    BY <1>4 DEF StartProtocol, TransportTypeOK, EndpointTypeOK, transportVars
  <1>5. CASE SendStatus(s)
    BY <1>5, SendStatusType DEF SendStatus, TransportTypeOK, EndpointTypeOK, transportVars
  <1>6. CASE StopAfterFailure(s)
    BY <1>6, StopType DEF StopAfterFailure, EndpointTypeOK
  <1>7. CASE InitReturns(s)
    BY <1>7 DEF InitReturns, ClosesStatus, TransportTypeOK, EndpointTypeOK
  <1>8. CASE StartServing(s)
    BY <1>8, FrameFacts DEF StartServing, CreateEndpoint, TransportTypeOK, EndpointTypeOK,
       transportVars
  <1>9. CASE DropsUnknown(s)
    BY <1>9, EpDeliversType DEF DropsUnknown, TransportTypeOK, transportVars
  <1>10. QED
    BY <1>1, <1>2, <1>3, <1>4, <1>5, <1>6, <1>7, <1>8, <1>9 DEF InitStep

\* A message the protocol sends, or fails to send, leaves the queues in type.
LEMMA SendsType ==
    ASSUME outbound \in [Sessions -> Seq(ClientMessages)], NEW t, NEW m \in ClientMessages,
           SendsToServer(t, m)
    PROVE  outbound' \in [Sessions -> Seq(ClientMessages)]
  <1>1. CASE t \in Sessions
    BY <1>1, AppendProperties DEF SendsToServer
  <1>2. CASE t \notin Sessions
    BY <1>2 DEF SendsToServer
  <1>3. QED
    BY <1>1, <1>2

\* A step of the protocol keeps the types.
LEMMA ProtoStepType ==
    ASSUME HandshakeTypeOK, NEW s \in Sessions, ProtoStep(s)
    PROVE  HandshakeTypeOK'
  <1> USE DEF HandshakeTypeOK, serviceVars, statusVars
  <1>1. CASE NegotiateVersion(s)
    <2>1. outbound' \in [Sessions -> Seq(ClientMessages)]
      BY <1>1, SendsType DEF NegotiateVersion, ClientMessages
    <2>2. QED
      BY <1>1, <2>1, FrameFacts DEF NegotiateVersion, CreateEndpoint, TransportTypeOK,
         EndpointTypeOK, transportVars
  <1>2. CASE HandleRegistration(s)
    <2>1. outbound' \in [Sessions -> Seq(ClientMessages)]
      BY <1>2, SendsType DEF HandleRegistration, ClientMessages
    <2>2. QED
      BY <1>2, <2>1, FrameFacts DEF HandleRegistration, CreateEndpoint, TransportTypeOK,
         EndpointTypeOK, transportVars
  <1>3. CASE NegotiationAnswered(s)
    BY <1>3, EpDeliversType DEF NegotiationAnswered, TransportTypeOK, transportVars, serverVars
  <1>4. CASE RegistrationAnswered(s)
    BY <1>4, EpDeliversType DEF RegistrationAnswered, TransportTypeOK, transportVars, serverVars
  <1>5. QED
    BY <1>1, <1>2, <1>3, <1>4 DEF ProtoStep

\* A step of the transport, the endpoint, the server or the network keeps the types.
LEMMA WireStepType ==
    ASSUME HandshakeTypeOK, NEW s \in Sessions,
           Transports(s) \/ Endpoints(s) \/ ServerAnswers(s) \/ LosesConnection(s)
    PROVE  HandshakeTypeOK'
  <1> USE DEF HandshakeTypeOK, serviceVars, statusVars
  <1>1. CASE Transports(s)
    BY <1>1, TransportStepType DEF Transports, EndpointTypeOK, endpointVars, serverVars
  <1>2. CASE Endpoints(s)
    BY <1>2, EndpointStepType DEF Endpoints, serverVars
  <1>3. CASE ServerAnswers(s)
    <2>1. /\ Head(outbound[s]) \in ClientMessages
          /\ Tail(outbound[s]) \in Seq(ClientMessages)
      BY <1>3, HeadTailProperties DEF ServerAnswers
    <2>2. PICK k \in Answers(Head(outbound[s])) :
            ServerPuts(s, Plain(k)) /\ granted' = [granted EXCEPT ![s] = @ \cup {k}]
      BY <1>3 DEF ServerAnswers
    <2>3. k \in {"accepted", "rejected", "ack", "garbage"} /\ Plain(k) \in Frame
      BY <2>1, AnswerFacts
    <2>4. TransportTypeOK'
      <3>1. inbound[s] \in Seq(Frame)
        BY DEF TransportTypeOK
      <3>2. Append(inbound[s], Plain(k)) \in Seq(Frame)
        BY ONLY <2>3, <3>1, AppendProperties
      <3>3. /\ inbound' = [inbound EXCEPT ![s] = Append(inbound[s], Plain(k))]
            /\ UNCHANGED <<ws, rx, rxData, inputClosed, closeReceived, crash>>
        BY <2>2 DEF ServerPuts
      <3>4. inbound' \in [Sessions -> Seq(Frame)]
        BY <3>2, <3>3 DEF TransportTypeOK
      <3>5. QED
        BY <3>3, <3>4 DEF TransportTypeOK
    <2>5. outbound' \in [Sessions -> Seq(ClientMessages)]
      BY <1>3, <2>1 DEF ServerAnswers
    <2>6. granted' \in [Sessions -> SUBSET {"accepted", "rejected", "ack", "garbage"}]
      BY <2>2, <2>3
    <2>7. QED
      BY <1>3, <2>4, <2>5, <2>6 DEF ServerAnswers, EndpointTypeOK, endpointVars
  <1>4. CASE LosesConnection(s)
    BY <1>4 DEF LosesConnection, PeerLost, TransportTypeOK, EndpointTypeOK, endpointVars,
       serverVars
  <1>5. QED
    BY <1>1, <1>2, <1>3, <1>4

\* Every step keeps the variables in type.
LEMMA HandshakeNextType ==
    ASSUME HandshakeTypeOK, [HandshakeNext]_handshakeVars
    PROVE  HandshakeTypeOK'
  <1>1. ASSUME NEW s \in Sessions, SessionStep(s)
        PROVE  HandshakeTypeOK'
    BY <1>1, ServiceStepType, InitStepType, ProtoStepType, WireStepType DEF SessionStep
  <1>2. CASE LoadProbe
    BY <1>2 DEF LoadProbe, HandshakeTypeOK, TransportTypeOK, EndpointTypeOK, transportVars,
       endpointVars, serviceVars, statusVars, serverVars
  <1>3. CASE CloseContainer
    BY <1>3, StopType DEF CloseContainer, HandshakeTypeOK, EndpointTypeOK, endpointVars,
       serviceVars, statusVars, serverVars
  <1>4. CASE UNCHANGED handshakeVars
    BY <1>4 DEF handshakeVars, HandshakeTypeOK, TransportTypeOK, EndpointTypeOK,
       transportVars, endpointVars, serviceVars, statusVars, serverVars
  <1>5. QED
    BY <1>1, <1>2, <1>3, <1>4 DEF HandshakeNext

(***************************************************************************)
(* Every variable keeps its type, for any number of sessions: none of the  *)
(* three goroutines of a session has another control state.                *)
(***************************************************************************)
THEOREM HandshakeTypeCorrect == HandshakeSpec => []HandshakeTypeOK
  BY HandshakeInitType, HandshakeNextType, PTL DEF HandshakeSpec
-----------------------------------------------------------------------------
(***************************************************************************)
(* The inductive invariant.  What it says of a session s is Sound(s); a    *)
(* step keeps it of every session it does not act for, as long as it       *)
(* Keeps what was said and Eases the session's transport: nothing is added *)
(* to what is under way there.                                             *)
(***************************************************************************)

\* Session s registers only on a connection whose server has accepted.
MayRegister(s) ==
    proto[s] \in {"register", "registering", "registered"} =>
        protoOn[s] \in Sessions /\ "accepted" \in granted[protoOn[s]]

Sound(s) ==
    /\ OwnEndpoint(s) /\ AcceptanceSaid(s) /\ MayRegister(s)
    /\ Alone(s) => OwnAnswer(s) /\ OwnVerdict(s)

\* The invariant, session by session and transport by transport.
LEMMA InvariantParts ==
    HandshakeInv <=>
        /\ HandshakeTypeOK /\ InvField /\ InvProgress /\ InvUnused
        /\ \A t \in Sessions : Said(t)
        /\ \A s \in Sessions : Sound(s)
  BY DEF HandshakeInv, InvEndpoint, InvGranted, InvAlone, InvVerdict,
     RegistersOnlyIfAccepted, Sound, MayRegister

\* No step takes back a word of the server, reopens a transport or moves a protocol.
Keeps ==
    /\ \A r \in Sessions : protoOn[r] # NoSession => protoOn'[r] = protoOn[r]
    /\ \A t \in Sessions : granted[t] \subseteq granted'[t]
    /\ \A t \in Sessions : inputClosed[t] => inputClosed'[t]
    /\ \A t \in Sessions : Said(t) => Said(t)'

\* Nothing is added to what is under way on transport t.
Eases(t) ==
    /\ Pending(t)' <= Pending(t)
    /\ \A m \in ClientMessages : Awaited(t, m) => Awaited(t, m)'

\* The step is not one of session s, as far as its protocol can tell.
Bystander(s) ==
    /\ proto'[s] = proto[s] /\ protoOn'[s] = protoOn[s]
    /\ Waits(s) => /\ ep'[s] = ep[s] /\ epOn'[s] = epOn[s]
                   /\ epName'[s] = epName[s] /\ parsed'[s] = parsed[s]

\* A session that is alone after a step that leaves its protocol in place was so before.
LEMMA AloneBefore ==
    ASSUME Keeps, NEW s \in Sessions, protoOn'[s] = protoOn[s], Alone(s)'
    PROVE  Alone(s)
  BY TransportAssumption DEF Keeps, Alone

\* A protocol that has started is on a transport.
LEMMA StartedOnTransport ==
    ASSUME HandshakeTypeOK, InvProgress, NEW s \in Sessions, proto[s] # "off"
    PROVE  protoOn[s] \in Sessions
  BY DEF HandshakeTypeOK, InvProgress

\* What is under way is counted in whole frames.
LEMMA PendingIsNat ==
    ASSUME HandshakeTypeOK, HandshakeTypeOK', NEW t \in Sessions
    PROVE  /\ Len(outbound[t]) \in Nat /\ Len(inbound[t]) \in Nat
           /\ Pending(t) \in Nat /\ Pending(t)' \in Nat
  <1>1. inbound \in [Sessions -> Seq(Frame)] /\ outbound \in [Sessions -> Seq(ClientMessages)]
    BY DEF HandshakeTypeOK, TransportTypeOK
  <1>2. inbound' \in [Sessions -> Seq(Frame)] /\ outbound' \in [Sessions -> Seq(ClientMessages)]
    BY DEF HandshakeTypeOK, TransportTypeOK
  <1>3. Len(outbound[t]) \in Nat /\ Len(inbound[t]) \in Nat /\ Pending(t) \in Nat
    BY <1>1 DEF Pending
  <1>4. Pending(t)' \in Nat
    BY <1>2 DEF Pending
  <1>5. QED
    BY <1>3, <1>4

\* A step keeps what is known of the sessions it is not a step of.
LEMMA BystanderKept ==
    ASSUME HandshakeTypeOK, HandshakeTypeOK', InvProgress, Keeps,
           NEW s \in Sessions, Sound(s), Bystander(s),
           \A t \in Sessions : Alone(s) /\ protoOn[s] = t => Eases(t)
    PROVE  Sound(s)'
  <1>1. proto[s] # "off" => protoOn[s] \in Sessions /\ granted[protoOn[s]] \subseteq granted'[protoOn[s]]
    BY StartedOnTransport DEF Keeps
  <1>2. /\ proto'[s] = proto[s] /\ protoOn'[s] = protoOn[s]
        /\ Waits(s)' = Waits(s) /\ Asking(s)' = Asking(s) /\ Told(s)' = Told(s)
    BY DEF Bystander, Waits, Asking, Told
  <1>3. OwnEndpoint(s)'
    BY DEF Bystander, Sound, OwnEndpoint, Waits
  <1>4. AcceptanceSaid(s)'
    BY <1>1, <1>2 DEF Bystander, Sound, AcceptanceSaid, Told
  <1>5. MayRegister(s)'
    BY <1>1, <1>2 DEF Sound, MayRegister
  <1>6. ASSUME Alone(s)'
        PROVE  OwnAnswer(s)' /\ OwnVerdict(s)'
    <2>1. Alone(s) /\ OwnAnswer(s) /\ OwnVerdict(s)
      BY <1>2, <1>6, AloneBefore DEF Sound
    <2>2. PICK t \in Sessions : protoOn[s] = t
      BY <2>1 DEF Alone
    <2>3. protoOn'[s] = t /\ Eases(t) /\ granted[t] \subseteq granted'[t]
      BY <1>2, <2>1, <2>2 DEF Keeps
    <2>4. Pending(t)' <= IF Asking(s)' THEN 1 ELSE 0
      <3>1. Pending(t) <= IF Asking(s) THEN 1 ELSE 0
        BY <2>1, <2>2 DEF OwnAnswer
      <3>2. QED
        BY <1>2, <2>3, <3>1, PendingIsNat DEF Eases
    <2>5. /\ proto'[s] = "negotiating" => Awaited(t, "NegotiationRequest")'
          /\ proto'[s] = "registering" => Awaited(t, "ContainerInfo")'
      BY <1>2, <2>1, <2>2, <2>3 DEF OwnAnswer, Eases, ClientMessages
    <2>6. OwnAnswer(s)'
      BY <2>3, <2>4, <2>5 DEF OwnAnswer
    <2>7. OwnVerdict(s)'
      BY <1>2, <2>1, <2>2, <2>3 DEF OwnVerdict, Bystander, Refused, Told
    <2>8. QED
      BY <2>6, <2>7
  <1>7. QED
    BY <1>3, <1>4, <1>5, <1>6 DEF Sound

\* What is under way stays unused where no protocol runs.
LEMMA UnusedKept ==
    ASSUME HandshakeTypeOK, HandshakeTypeOK', InvUnused, Keeps,
           \A t \in Sessions : (\A s \in Sessions : protoOn[s] # t) => Eases(t)
    PROVE  InvUnused'
  <1>1. SUFFICES ASSUME NEW t \in Sessions, \A s \in Sessions : protoOn'[s] # t
                 PROVE  Pending(t)' = 0
    BY DEF InvUnused
  <1>2. \A s \in Sessions : protoOn[s] # t
    BY <1>1, TransportAssumption DEF Keeps
  <1>3. Pending(t) = 0 /\ Pending(t)' <= Pending(t)
    BY <1>2 DEF InvUnused, Eases
  <1>4. QED
    BY <1>3, PendingIsNat

\* A step of session s keeps the invariant if it keeps it of s and disturbs no other.
LEMMA StepKept ==
    ASSUME HandshakeInv, HandshakeTypeOK', InvField', InvProgress', Keeps,
           NEW s \in Sessions, Sound(s)',
           \A t \in Sessions : (\A r \in Sessions : protoOn[r] # t) => Eases(t),
           \A r \in Sessions \ {s} :
              /\ Bystander(r)
              /\ \A t \in Sessions : Alone(r) /\ protoOn[r] = t => Eases(t)
    PROVE  HandshakeInv'
  <1>1. /\ HandshakeTypeOK /\ InvProgress /\ InvUnused
        /\ \A t \in Sessions : Said(t)
        /\ \A r \in Sessions : Sound(r)
    BY InvariantParts
  <1>2. InvUnused'
    BY <1>1, UnusedKept
  <1>3. \A t \in Sessions : Said(t)'
    BY <1>1 DEF Keeps
  <1>4. \A r \in Sessions : Sound(r)'
    BY <1>1, BystanderKept
  <1>5. QED
    BY <1>2, <1>3, <1>4 DEF HandshakeInv, InvEndpoint, InvGranted, InvAlone, InvVerdict,
       RegistersOnlyIfAccepted, Sound, MayRegister

\* A step that disturbs no session at all.
LEMMA EveryBystanderKept ==
    ASSUME HandshakeInv, HandshakeTypeOK', InvField', InvProgress', Keeps,
           \A t \in Sessions : Eases(t), \A r \in Sessions : Bystander(r)
    PROVE  HandshakeInv'
  <1>1. /\ HandshakeTypeOK /\ InvProgress /\ InvUnused
        /\ \A t \in Sessions : Said(t)
        /\ \A r \in Sessions : Sound(r)
    BY InvariantParts
  <1>2. InvUnused'
    BY <1>1, UnusedKept
  <1>3. \A t \in Sessions : Said(t)'
    BY <1>1 DEF Keeps
  <1>4. \A r \in Sessions : Sound(r)'
    BY <1>1, BystanderKept
  <1>5. QED
    BY <1>2, <1>3, <1>4 DEF HandshakeInv, InvEndpoint, InvGranted, InvAlone, InvVerdict,
       RegistersOnlyIfAccepted, Sound, MayRegister

\* The step reads and writes no connection, or only takes a frame from a receiver.
QuietWire ==
    /\ UNCHANGED <<inbound, outbound, granted>>
    /\ \A t \in Sessions : \/ rx'[t] = rx[t] /\ rxData'[t] = rxData[t]
                           \/ rx'[t] # "delivering"
    /\ \A t \in Sessions : inputClosed[t] => inputClosed'[t]

\* Such a step eases every transport.
LEMMA QuietKeeps ==
    ASSUME HandshakeTypeOK, HandshakeTypeOK', QuietWire,
           \A r \in Sessions : protoOn[r] # NoSession => protoOn'[r] = protoOn[r]
    PROVE  Keeps /\ \A t \in Sessions : Eases(t)
  <1>1. ASSUME NEW t \in Sessions
        PROVE  /\ granted[t] \subseteq granted'[t]
               /\ Said(t) => Said(t)'
               /\ \A m \in ClientMessages : Awaited(t, m) => Awaited(t, m)'
    BY DEF QuietWire, Said, Awaited
  <1>2. ASSUME NEW t \in Sessions
        PROVE  Pending(t)' <= Pending(t)
    <2>1. /\ outbound'[t] = outbound[t] /\ inbound'[t] = inbound[t]
          /\ rx'[t] = "delivering" => rx[t] = "delivering"
      BY DEF QuietWire
    <2>2. Len(outbound[t]) \in Nat /\ Len(inbound[t]) \in Nat
      BY PendingIsNat
    <2>3. QED
      BY <2>1, <2>2 DEF Pending
  <1>3. QED
    BY <1>1, <1>2 DEF Keeps, Eases, QuietWire

\* The types of what a connection holds, before and after a step.
LEMMA WireTypes ==
    ASSUME HandshakeTypeOK, HandshakeTypeOK'
    PROVE  /\ inbound \in [Sessions -> Seq(Frame)] /\ inbound' \in [Sessions -> Seq(Frame)]
           /\ outbound \in [Sessions -> Seq(ClientMessages)]
           /\ outbound' \in [Sessions -> Seq(ClientMessages)]
           /\ rx \in [Sessions -> {"off", "receiving", "delivering", "done"}]
           /\ rxData \in [Sessions -> Frame]
           /\ granted \in [Sessions -> SUBSET {"accepted", "rejected", "ack", "garbage"}]
  BY DEF HandshakeTypeOK, TransportTypeOK

\* Reading a frame off the connection moves it, and adds nothing.
LEMMA RxReceiveKeeps ==
    ASSUME HandshakeTypeOK, HandshakeTypeOK', NEW u \in Sessions, RxReceive(u),
           UNCHANGED <<outbound, granted, protoOn>>
    PROVE  Keeps /\ \A t \in Sessions : Eases(t)
  <1>1. inbound[u] \in Seq(Frame) /\ inbound[u] # <<>>
    BY DEF HandshakeTypeOK, TransportTypeOK, RxReceive
  <1>2. /\ Len(Tail(inbound[u])) = Len(inbound[u]) - 1
        /\ \A i \in 1 .. Len(Tail(inbound[u])) : Tail(inbound[u])[i] = inbound[u][i + 1]
        /\ Head(inbound[u]) = inbound[u][1]
        /\ Len(inbound[u]) \in Nat \ {0}
    BY <1>1, HeadTailProperties, EmptySeq
  <1>3. /\ inbound'[u] = Tail(inbound[u]) /\ rxData'[u] = Head(inbound[u])
        /\ rx[u] = "receiving" /\ rx'[u] = "delivering"
        /\ outbound'[u] = outbound[u] /\ granted'[u] = granted[u]
    BY WireTypes DEF RxReceive
  <1>4. ASSUME NEW A, \A i \in 1 .. Len(inbound[u]) : inbound[u][i].kind \in A
        PROVE  /\ \A i \in 1 .. Len(inbound'[u]) : inbound'[u][i].kind \in A
               /\ rxData'[u].kind \in A
    <2>1. inbound[u][1].kind \in A
      BY <1>2, <1>4
    <2>2. ASSUME NEW i \in 1 .. Len(inbound'[u])
          PROVE  inbound'[u][i].kind \in A
      <3>1. i + 1 \in 1 .. Len(inbound[u]) /\ inbound'[u][i] = inbound[u][i + 1]
        BY <1>2, <1>3
      <3>2. QED
        BY <1>4, <3>1
    <2>3. QED
      BY <1>2, <1>3, <2>1, <2>2
  <1>5. Said(u) => Said(u)'
    BY <1>3, <1>4 DEF Said
  <1>6. \A m \in ClientMessages : Awaited(u, m) => Awaited(u, m)'
    BY <1>3, <1>4 DEF Awaited
  <1>7. Pending(u)' <= Pending(u)
    <2>1. Len(outbound[u]) \in Nat
      BY PendingIsNat
    <2>2. QED
      BY <1>2, <1>3, <2>1, WireTypes DEF Pending
  <1>8. ASSUME NEW t \in Sessions, t # u
        PROVE  (Said(t) => Said(t)') /\ Eases(t)
    <2>1. /\ inbound'[t] = inbound[t] /\ rx'[t] = rx[t] /\ rxData'[t] = rxData[t]
          /\ outbound'[t] = outbound[t] /\ granted'[t] = granted[t]
      BY <1>8, WireTypes DEF RxReceive
    <2>2. Pending(t)' <= Pending(t)
      BY <2>1, PendingIsNat DEF Pending
    <2>3. QED
      BY <2>1, <2>2 DEF Said, Eases, Awaited
  <1>9. QED
    BY <1>5, <1>6, <1>7, <1>8 DEF Keeps, Eases, RxReceive

\* The server answers one message by one frame, which says what is then granted.
LEMMA ServerAnswersKeeps ==
    ASSUME HandshakeTypeOK, HandshakeTypeOK', NEW u \in Sessions, ServerAnswers(u)
    PROVE  Keeps /\ \A t \in Sessions : Eases(t)
  <1> DEFINE m == Head(outbound[u])
  <1>1. outbound[u] \in Seq(ClientMessages) /\ outbound[u] # <<>> /\ inbound[u] \in Seq(Frame)
    BY DEF HandshakeTypeOK, TransportTypeOK, ServerAnswers
  <1>2. /\ Len(Tail(outbound[u])) = Len(outbound[u]) - 1
        /\ \A i \in 1 .. Len(Tail(outbound[u])) : Tail(outbound[u])[i] = outbound[u][i + 1]
        /\ m = outbound[u][1] /\ m \in ClientMessages
        /\ Len(outbound[u]) \in Nat \ {0}
    BY <1>1, HeadTailProperties, EmptySeq
  <1>3. PICK k \in Answers(m) :
          ServerPuts(u, Plain(k)) /\ granted' = [granted EXCEPT ![u] = @ \cup {k}]
    BY DEF ServerAnswers
  <1>4. Plain(k) \in Frame /\ Plain(k).kind = k
    BY <1>2, AnswerFacts DEF Plain
  <1>5. /\ Len(inbound'[u]) = Len(inbound[u]) + 1 /\ Len(inbound[u]) \in Nat
        /\ \A i \in 1 .. Len(inbound[u]) : inbound'[u][i] = inbound[u][i]
        /\ inbound'[u][Len(inbound[u]) + 1].kind = k
    <2>1. inbound'[u] = Append(inbound[u], Plain(k))
      BY <1>3, WireTypes DEF ServerPuts
    <2>2. QED
      BY <1>1, <1>4, <2>1, AppendProperties, LenProperties
  <1>6. /\ outbound'[u] = Tail(outbound[u]) /\ granted'[u] = granted[u] \cup {k}
        /\ rx' = rx /\ rxData' = rxData /\ inputClosed' = inputClosed /\ protoOn' = protoOn
    BY <1>3, WireTypes DEF ServerAnswers, ServerPuts
  <1>7. ASSUME NEW A, k \in A, \A i \in 1 .. Len(inbound[u]) : inbound[u][i].kind \in A
        PROVE  \A i \in 1 .. Len(inbound'[u]) : inbound'[u][i].kind \in A
    BY <1>5, <1>7
  <1>8. Said(u) => Said(u)'
    <2>1. SUFFICES ASSUME Said(u)
                   PROVE  Said(u)'
      OBVIOUS
    <2>2. \A i \in 1 .. Len(inbound[u]) : inbound[u][i].kind \in granted'[u]
      BY <1>6, <2>1 DEF Said
    <2>3. \A i \in 1 .. Len(inbound'[u]) : inbound'[u][i].kind \in granted'[u]
      BY <1>6, <1>7, <2>2
    <2>4. QED
      BY <1>6, <2>1, <2>3 DEF Said
  <1>9. ASSUME NEW n \in ClientMessages, Awaited(u, n)
        PROVE  Awaited(u, n)'
    <2>1. n = m /\ k \in Answers(n)
      BY <1>2, <1>9 DEF Awaited
    <2>2. \A i \in 1 .. Len(outbound'[u]) : outbound'[u][i] = n
      BY <1>2, <1>6, <1>9 DEF Awaited
    <2>3. \A i \in 1 .. Len(inbound'[u]) : inbound'[u][i].kind \in Answers(n)
      BY <1>7, <1>9, <2>1 DEF Awaited
    <2>4. QED
      BY <1>6, <1>9, <2>2, <2>3 DEF Awaited
  <1>10. Pending(u)' <= Pending(u)
    BY <1>2, <1>5, <1>6, WireTypes DEF Pending
  <1>11. ASSUME NEW t \in Sessions, t # u
         PROVE  granted'[t] = granted[t] /\ (Said(t) => Said(t)') /\ Eases(t)
    <2>1. /\ inbound'[t] = inbound[t] /\ rx'[t] = rx[t] /\ rxData'[t] = rxData[t]
          /\ outbound'[t] = outbound[t] /\ granted'[t] = granted[t]
      BY <1>3, <1>11, WireTypes DEF ServerAnswers, ServerPuts
    <2>2. Pending(t)' <= Pending(t)
      BY <2>1, PendingIsNat DEF Pending
    <2>3. QED
      BY <2>1, <2>2 DEF Said, Eases, Awaited
  <1>12. QED
    BY <1>6, <1>8, <1>9, <1>10, <1>11 DEF Keeps, Eases

-----------------------------------------------------------------------------
(* The three goroutines of a session, and the field they share. *)

\* The types of what the goroutines of a session keep.
LEMMA ControlTypes ==
    ASSUME HandshakeTypeOK
    PROVE  /\ svc \in [Sessions -> {"idle", "waiting", "adding", "closing", "returned"}]
           /\ added \in [Sessions -> SUBSET Targets]
           /\ status \in [Sessions -> {"empty", "true", "false"}]
           /\ statusClosed \in [Sessions -> BOOLEAN]
           /\ init \in [Sessions -> {"off", "container", "dialed", "awaiting", "failing",
                                     "closing", "serve", "serving", "done"}]
           /\ proto \in [Sessions -> {"off", "negotiate", "negotiating", "register",
                                      "registering", "registered", "failed"}]
           /\ protoOn \in [Sessions -> Sessions \cup {NoSession}]
           /\ clientTransport \in Sessions \cup {NoSession}
  BY DEF HandshakeTypeOK

\* A session's dial fills the field, and nothing empties it again.
LEMMA FieldKept ==
    ASSUME HandshakeTypeOK, InvProgress, InvField, [HandshakeNext]_handshakeVars
    PROVE  InvField'
  <1>1. CASE UNCHANGED <<init, clientTransport>>
    BY <1>1 DEF InvField
  <1>2. ASSUME NEW s \in Sessions, ConnectToTurbo(s) \/ InitStep(s)
        PROVE  InvField'
    <2> USE ControlTypes, TransportAssumption DEF InvField
    <2>1. CASE ConnectToTurbo(s)
      BY <2>1 DEF ConnectToTurbo, InvProgress
    <2>2. CASE NoProbesToRegister(s)
      BY <2>2 DEF NoProbesToRegister
    <2>3. CASE DialFails(s)
      BY <2>3 DEF DialFails
    <2>4. CASE DialSucceeds(s)
      BY <2>4 DEF DialSucceeds
    <2>5. CASE StartProtocol(s)
      BY <2>5 DEF StartProtocol
    <2>6. CASE SendStatus(s)
      <3>1. /\ init[s] = "awaiting" /\ clientTransport' = clientTransport
            /\ \A r \in Sessions \ {s} : init'[r] = init[r]
            /\ init'[s] \in {"serve", "failing"}
        BY <2>6 DEF SendStatus
      <3>2. QED
        BY <3>1
    <2>7. CASE StopAfterFailure(s)
      BY <2>7 DEF StopAfterFailure
    <2>8. CASE InitReturns(s)
      BY <2>8 DEF InitReturns
    <2>9. CASE StartServing(s)
      BY <2>9 DEF StartServing
    <2>10. CASE DropsUnknown(s)
      BY <2>10 DEF DropsUnknown
    <2>11. QED
      BY <1>2, <2>1, <2>2, <2>3, <2>4, <2>5, <2>6, <2>7, <2>8, <2>9, <2>10 DEF InitStep
  <1>3. ASSUME NEW s \in Sessions, ServiceStep(s) \/ ProtoStep(s)
        PROVE  UNCHANGED <<init, clientTransport>>
    BY <1>3 DEF ServiceStep, StatusReceived, AddsTarget, TargetsDone, ConnectReturns,
       ProtoStep, NegotiateVersion, NegotiationAnswered, HandleRegistration,
       RegistrationAnswered
  <1>4. ASSUME NEW s \in Sessions,
               Transports(s) \/ Endpoints(s) \/ ServerAnswers(s) \/ LosesConnection(s)
        PROVE  UNCHANGED <<init, clientTransport>>
    BY <1>4 DEF Transports, Endpoints, ServerAnswers, LosesConnection
  <1>5. LoadProbe \/ CloseContainer \/ UNCHANGED handshakeVars
        => UNCHANGED <<init, clientTransport>>
    BY DEF LoadProbe, CloseContainer, handshakeVars
  <1>6. QED
    BY <1>1, <1>2, <1>3, <1>4, <1>5 DEF HandshakeNext, SessionStep

\* What InvProgress says of session s.
Progress(s) ==
    /\ svc[s] = "idle" => init[s] = "off"
    /\ init[s] \in {"off", "container", "dialed"} => proto[s] = "off"
    /\ init[s] \in {"serve", "serving"} => proto[s] = "registered"
    /\ init[s] \in {"failing", "closing"} => proto[s] = "failed"
    /\ proto[s] = "off" <=> protoOn[s] = NoSession
    /\ status[s] = "true" \/ svc[s] = "adding" \/ added[s] # {} => proto[s] = "registered"
    /\ statusClosed[s] => svc[s] = "returned" \/ proto[s] = "failed"

\* The step leaves the control state of session r alone.
Idles(r) ==
    /\ svc'[r] = svc[r] /\ init'[r] = init[r] /\ proto'[r] = proto[r]
    /\ protoOn'[r] = protoOn[r] /\ status'[r] = status[r]
    /\ statusClosed'[r] = statusClosed[r] /\ added'[r] = added[r]

\* A step of the caller of ConnectToTurbo keeps the goroutines in step.
LEMMA ServiceProgress ==
    ASSUME HandshakeTypeOK, NEW s \in Sessions, Progress(s),
           ConnectToTurbo(s) \/ ServiceStep(s)
    PROVE  Progress(s)' /\ \A r \in Sessions \ {s} : Idles(r)
  <1> USE ControlTypes DEF Progress, Idles, serviceVars, statusVars
  <1>1. CASE ConnectToTurbo(s)
    BY <1>1 DEF ConnectToTurbo
  <1>2. CASE StatusReceived(s)
    BY <1>2 DEF StatusReceived
  <1>3. CASE AddsTarget(s)
    BY <1>3 DEF AddsTarget
  <1>4. CASE TargetsDone(s)
    BY <1>4 DEF TargetsDone
  <1>5. CASE ConnectReturns(s)
    BY <1>5 DEF ConnectReturns, ClosesStatus
  <1>6. QED
    BY <1>1, <1>2, <1>3, <1>4, <1>5 DEF ServiceStep

\* So does a step of Init.
LEMMA InitProgress ==
    ASSUME HandshakeTypeOK, InvField, NEW s \in Sessions, Progress(s), InitStep(s)
    PROVE  Progress(s)' /\ \A r \in Sessions \ {s} : Idles(r)
  <1> USE ControlTypes, TransportAssumption DEF Progress, Idles, serviceVars, statusVars
  <1>1. CASE NoProbesToRegister(s)
    BY <1>1 DEF NoProbesToRegister
  <1>2. CASE DialFails(s)
    BY <1>2 DEF DialFails
  <1>3. CASE DialSucceeds(s)
    BY <1>3 DEF DialSucceeds
  <1>4. CASE StartProtocol(s)
    BY <1>4 DEF StartProtocol, InvField
  <1>5. CASE SendStatus(s)
    BY <1>5 DEF SendStatus
  <1>6. CASE StopAfterFailure(s)
    BY <1>6 DEF StopAfterFailure
  <1>7. CASE InitReturns(s)
    BY <1>7 DEF InitReturns, ClosesStatus
  <1>8. CASE StartServing(s)
    BY <1>8 DEF StartServing
  <1>9. CASE DropsUnknown(s)
    BY <1>9 DEF DropsUnknown
  <1>10. QED
    BY <1>1, <1>2, <1>3, <1>4, <1>5, <1>6, <1>7, <1>8, <1>9 DEF InitStep

\* So does a step of the protocol.
LEMMA ProtoProgress ==
    ASSUME HandshakeTypeOK, NEW s \in Sessions, Progress(s), ProtoStep(s)
    PROVE  Progress(s)' /\ \A r \in Sessions \ {s} : Idles(r)
  <1> USE ControlTypes DEF Progress, Idles, serviceVars, statusVars
  <1>1. CASE NegotiateVersion(s)
    BY <1>1 DEF NegotiateVersion
  <1>2. CASE NegotiationAnswered(s)
    BY <1>2 DEF NegotiationAnswered
  <1>3. CASE HandleRegistration(s)
    BY <1>3 DEF HandleRegistration
  <1>4. CASE RegistrationAnswered(s)
    BY <1>4 DEF RegistrationAnswered
  <1>5. QED
    BY <1>1, <1>2, <1>3, <1>4 DEF ProtoStep

\* Every step keeps the three goroutines of every session in step.
LEMMA ProgressKept ==
    ASSUME HandshakeTypeOK, InvField, InvProgress, [HandshakeNext]_handshakeVars
    PROVE  InvProgress'
  <1>1. \A s \in Sessions : Progress(s)
    BY DEF InvProgress, Progress
  <1>2. ASSUME NEW r \in Sessions, Idles(r)
        PROVE  Progress(r)'
    BY <1>1, <1>2 DEF Progress, Idles
  <1>3. ASSUME NEW s \in Sessions,
               ConnectToTurbo(s) \/ ServiceStep(s) \/ InitStep(s) \/ ProtoStep(s)
        PROVE  \A r \in Sessions : Progress(r)'
    BY <1>1, <1>2, <1>3, ServiceProgress, InitProgress, ProtoProgress
  <1>4. ASSUME NEW s \in Sessions,
               Transports(s) \/ Endpoints(s) \/ ServerAnswers(s) \/ LosesConnection(s)
        PROVE  \A r \in Sessions : Idles(r)
    BY <1>4 DEF Transports, Endpoints, ServerAnswers, LosesConnection, Idles, serviceVars,
       statusVars
  <1>5. LoadProbe \/ CloseContainer \/ UNCHANGED handshakeVars => \A r \in Sessions : Idles(r)
    BY DEF LoadProbe, CloseContainer, handshakeVars, Idles, serviceVars, statusVars
  <1>6. \A r \in Sessions : Progress(r)'
    BY <1>2, <1>3, <1>4, <1>5 DEF HandshakeNext, SessionStep
  <1>7. QED
    BY <1>6 DEF InvProgress, Progress

-----------------------------------------------------------------------------
(* The steps that no protocol notices. *)

\* Stop closes a transport or none: no frame moves.
LEMMA StopQuiet ==
    ASSUME HandshakeTypeOK, Stop, UNCHANGED <<outbound, granted>>
    PROVE  QuietWire
  <1>1. CASE clientTransport \in Sessions
    <2>1. /\ UNCHANGED <<inbound, rx, rxData>>
          /\ inputClosed' = inputClosed \/ inputClosed' = [inputClosed EXCEPT ![clientTransport] = TRUE]
      BY <1>1 DEF Stop, CloseTransportPoint
    <2>2. inputClosed \in [Sessions -> BOOLEAN]
      BY DEF HandshakeTypeOK, TransportTypeOK
    <2>3. QED
      BY <2>1, <2>2 DEF QuietWire
  <1>2. CASE clientTransport \notin Sessions
    BY <1>2 DEF Stop, transportVars, QuietWire
  <1>3. QED
    BY <1>1, <1>2

\* Steps that leave all endpoints and protocols alone, and quiet the wire if they touch it.
LEMMA QuietStepKept ==
    ASSUME HandshakeInv, HandshakeTypeOK', InvField', InvProgress', QuietWire,
           UNCHANGED <<endpointVars, proto, protoOn>>
    PROVE  HandshakeInv'
  <1>1. HandshakeTypeOK
    BY DEF HandshakeInv
  <1>2. Keeps /\ \A t \in Sessions : Eases(t)
    BY <1>1, QuietKeeps
  <1>3. \A r \in Sessions : Bystander(r)
    BY DEF Bystander, endpointVars
  <1>4. QED
    BY <1>2, <1>3, EveryBystanderKept

\* The caller of ConnectToTurbo touches no connection.
LEMMA ServiceStepKept ==
    ASSUME HandshakeInv, HandshakeTypeOK', InvField', InvProgress',
           NEW s \in Sessions, ConnectToTurbo(s) \/ ServiceStep(s) \/ LosesConnection(s)
    PROVE  HandshakeInv'
  <1>1. UNCHANGED <<inbound, outbound, granted, rx, rxData, inputClosed, endpointVars, proto, protoOn>>
    BY DEF ConnectToTurbo, ServiceStep, StatusReceived, AddsTarget, TargetsDone,
       ConnectReturns, LosesConnection, PeerLost, transportVars, serverVars
  <1>2. QED
    BY <1>1, QuietStepKept DEF QuietWire

\* What Init does before the protocol starts, and after it failed.
LEMMA InitQuietKept ==
    ASSUME HandshakeInv, HandshakeTypeOK', InvField', InvProgress', NEW s \in Sessions,
           \/ NoProbesToRegister(s) \/ DialFails(s) \/ DialSucceeds(s) \/ SendStatus(s)
           \/ StopAfterFailure(s) \/ InitReturns(s)
    PROVE  HandshakeInv'
  <1>1. HandshakeTypeOK
    BY DEF HandshakeInv
  <1>2. UNCHANGED <<outbound, granted, endpointVars, proto, protoOn>>
    BY DEF NoProbesToRegister, DialFails, DialSucceeds, SendStatus, StopAfterFailure,
       InitReturns, serverVars
  <1>3. CASE NoProbesToRegister(s) \/ SendStatus(s) \/ InitReturns(s)
    <2>1. UNCHANGED <<inbound, rx, rxData, inputClosed>>
      BY <1>3 DEF NoProbesToRegister, SendStatus, InitReturns, transportVars
    <2>2. QED
      BY <1>2, <2>1, QuietStepKept DEF QuietWire
  <1>4. CASE DialFails(s) \/ StopAfterFailure(s)
    BY <1>1, <1>2, <1>4, StopQuiet, QuietStepKept DEF DialFails, StopAfterFailure
  <1>5. CASE DialSucceeds(s)
    <2>1. /\ UNCHANGED <<inbound, rxData, inputClosed>>
          /\ rx' = [rx EXCEPT ![s] = "receiving"]
      BY <1>5 DEF DialSucceeds, Connect
    <2>2. QED
      BY <1>1, <1>2, <2>1, WireTypes, QuietStepKept DEF QuietWire
  <1>6. QED
    BY <1>3, <1>4, <1>5

\* The receiver of a transport reads, fails, or panics.
LEMMA TransportsKept ==
    ASSUME HandshakeInv, HandshakeTypeOK', InvField', InvProgress',
           NEW s \in Sessions, Transports(s)
    PROVE  HandshakeInv'
  <1>1. HandshakeTypeOK
    BY DEF HandshakeInv
  <1>2. UNCHANGED <<outbound, granted, endpointVars, proto, protoOn>>
    BY DEF Transports, serverVars
  <1>3. CASE RxReceive(s)
    <2>1. Keeps /\ \A t \in Sessions : Eases(t)
      BY <1>1, <1>2, <1>3, RxReceiveKeeps
    <2>2. \A r \in Sessions : Bystander(r)
      BY <1>2 DEF Bystander, endpointVars
    <2>3. QED
      BY <2>1, <2>2, EveryBystanderKept
  <1>4. CASE RxFail(s)
    <2>1. /\ UNCHANGED <<inbound, rxData, inputClosed>>
          /\ rx' = [rx EXCEPT ![s] = "done"]
      BY <1>4 DEF RxFail
    <2>2. QED
      BY <1>1, <1>2, <2>1, WireTypes, QuietStepKept DEF QuietWire
  <1>5. CASE RxSendsOnClosed(s)
    BY <1>2, <1>5, QuietStepKept DEF RxSendsOnClosed, QuietWire
  <1>6. QED
    BY <1>3, <1>4, <1>5 DEF Transports, TransportStep

\* The server answers.
LEMMA ServerAnswersKept ==
    ASSUME HandshakeInv, HandshakeTypeOK', InvField', InvProgress',
           NEW s \in Sessions, ServerAnswers(s)
    PROVE  HandshakeInv'
  <1>1. Keeps /\ \A t \in Sessions : Eases(t)
    BY ServerAnswersKeeps DEF HandshakeInv
  <1>2. \A r \in Sessions : Bystander(r)
    BY DEF ServerAnswers, Bystander, endpointVars
  <1>3. QED
    BY <1>1, <1>2, EveryBystanderKept

-----------------------------------------------------------------------------
(* The steps of a session's own protocol and endpoint. *)

\* A session that has registered may create and drive endpoints as it likes.
LEMMA RegisteredKept ==
    ASSUME HandshakeInv, HandshakeTypeOK', InvField', InvProgress',
           NEW s \in Sessions, StartServing(s) \/ DropsUnknown(s)
    PROVE  HandshakeInv'
  <1>1. HandshakeTypeOK /\ proto[s] = "registered"
    BY DEF HandshakeInv, InvProgress, StartServing, DropsUnknown
  <1>2. /\ UNCHANGED <<inbound, outbound, granted, rx, rxData, inputClosed, proto, protoOn>>
        /\ \A r \in Sessions \ {s} : /\ ep'[r] = ep[r] /\ epOn'[r] = epOn[r]
                                     /\ epName'[r] = epName[r] /\ parsed'[r] = parsed[r]
    BY <1>1 DEF StartServing, DropsUnknown, CreateEndpoint, EpDelivers, transportVars,
       serverVars, HandshakeTypeOK, EndpointTypeOK
  <1>3. \A r \in Sessions : Bystander(r)
    BY <1>1, <1>2 DEF Bystander, Waits
  <1>4. Keeps /\ \A t \in Sessions : Eases(t)
    BY <1>1, <1>2, QuietKeeps DEF QuietWire
  <1>5. QED
    BY <1>3, <1>4, EveryBystanderKept

\* The protocol starts on a transport nobody has used, or on one it shares.
LEMMA StartProtocolKept ==
    ASSUME HandshakeInv, HandshakeTypeOK', InvField', InvProgress',
           NEW s \in Sessions, StartProtocol(s)
    PROVE  HandshakeInv'
  <1>1. HandshakeTypeOK /\ InvField /\ InvProgress /\ InvUnused
    BY DEF HandshakeInv
  <1>2. /\ UNCHANGED <<inbound, outbound, granted, rx, rxData, inputClosed, endpointVars>>
        /\ init[s] = "dialed" /\ clientTransport \in Sessions
    BY <1>1, ControlTypes DEF StartProtocol, transportVars, serverVars, InvField
  <1>3. proto[s] = "off" /\ protoOn[s] = NoSession
    BY <1>1, <1>2 DEF InvProgress
  <1>4. /\ proto'[s] = "negotiate" /\ protoOn'[s] = clientTransport
        /\ \A r \in Sessions \ {s} : proto'[r] = proto[r] /\ protoOn'[r] = protoOn[r]
    BY <1>1, ControlTypes DEF StartProtocol
  <1>5. Keeps /\ \A t \in Sessions : Eases(t)
    <2>1. \A r \in Sessions : protoOn[r] # NoSession => protoOn'[r] = protoOn[r]
      BY <1>3, <1>4
    <2>2. QED
      BY <1>1, <1>2, <2>1, QuietKeeps DEF QuietWire
  <1>6. \A r \in Sessions \ {s} : Bystander(r)
    BY <1>2, <1>4 DEF Bystander, endpointVars
  <1>7. Sound(s)'
    <2>1. OwnEndpoint(s)' /\ AcceptanceSaid(s)' /\ MayRegister(s)' /\ OwnVerdict(s)'
      BY <1>4 DEF OwnEndpoint, AcceptanceSaid, MayRegister, OwnVerdict, Waits, Told
    <2>2. ASSUME Alone(s)'
          PROVE  OwnAnswer(s)'
      <3>1. PICK t \in Sessions : clientTransport = t
        BY <1>2
      <3>2. \A r \in Sessions : protoOn[r] # t
        BY <1>3, <1>4, <2>2, <3>1, TransportAssumption DEF Alone
      <3>3. Pending(t) = 0 /\ Pending(t)' <= Pending(t)
        BY <1>1, <1>5, <3>2 DEF InvUnused, Eases
      <3>4. Pending(t)' = 0
        BY <1>1, <3>3, PendingIsNat
      <3>5. QED
        BY <1>4, <3>1, <3>4 DEF OwnAnswer, Asking, Waits
    <2>3. QED
      BY <2>1, <2>2 DEF Sound
  <1>8. QED
    BY <1>5, <1>6, <1>7, StepKept

\* Nothing was under way for a session that is alone and waits for nothing.
LEMMA NothingPending ==
    ASSUME HandshakeTypeOK, HandshakeTypeOK', NEW s \in Sessions, Sound(s), Alone(s),
           ~Asking(s), NEW t \in Sessions, protoOn[s] = t
    PROVE  /\ Len(outbound[t]) = 0 /\ Len(inbound[t]) = 0 /\ rx[t] # "delivering"
           /\ Pending(t) = 0
  <1>1. Pending(t) <= 0
    BY DEF Sound, OwnAnswer
  <1>2. Len(outbound[t]) \in Nat /\ Len(inbound[t]) \in Nat /\ Pending(t) \in Nat
    BY PendingIsNat
  <1>3. rx[t] # "delivering"
    BY <1>1, <1>2, WireTypes DEF Pending
  <1>4. QED
    BY <1>1, <1>2, <1>3, WireTypes DEF Pending

\* A protocol sends a message on its transport and waits for the answer to it.
LEMMA AskingKept ==
    ASSUME HandshakeInv, HandshakeTypeOK', InvField', InvProgress', NEW s \in Sessions,
           NEW m \in ClientMessages, NEW name \in {"Negotiation", "Registration"},
           UNCHANGED <<inbound, granted, rx, rxData, inputClosed, protoOn>>,
           ~Waits(s), proto[s] # "off", CreateEndpoint(s, name, protoOn[s]),
           SendsToServer(protoOn[s], m),
           \/ /\ m = "NegotiationRequest" /\ name = "Negotiation"
              /\ proto' = [proto EXCEPT ![s] = "negotiating"]
           \/ /\ m = "ContainerInfo" /\ name = "Registration"
              /\ proto[s] = "register" /\ proto' = [proto EXCEPT ![s] = "registering"]
    PROVE  HandshakeInv'
  <1>1. HandshakeTypeOK /\ InvProgress /\ Sound(s)
    BY InvariantParts
  <1>2. PICK t \in Sessions : protoOn[s] = t
    BY <1>1, StartedOnTransport
  <1>3. \A u \in Sessions \ {t} : outbound'[u] = outbound[u]
    BY <1>2, WireTypes, <1>1 DEF SendsToServer
  <1>4. \A u \in Sessions \ {t} : Eases(u)
    <2>1. SUFFICES ASSUME NEW u \in Sessions \ {t}
                   PROVE  Eases(u)
      OBVIOUS
    <2>2. outbound'[u] = outbound[u]
      BY <1>3
    <2>3. Pending(u)' <= Pending(u)
      BY <1>1, <2>2, PendingIsNat DEF Pending
    <2>4. QED
      BY <2>2, <2>3 DEF Eases, Awaited
  <1>5. Keeps
    BY DEF Keeps, Said
  <1>6. /\ ep'[s] = "waiting" /\ epOn'[s] = t /\ epName'[s] = name
        /\ \A r \in Sessions \ {s} : /\ ep'[r] = ep[r] /\ epOn'[r] = epOn[r]
                                     /\ epName'[r] = epName[r] /\ parsed'[r] = parsed[r]
    BY <1>1, <1>2 DEF CreateEndpoint, HandshakeTypeOK, EndpointTypeOK
  <1>7. /\ proto'[s] = IF m = "NegotiationRequest" THEN "negotiating" ELSE "registering"
        /\ \A r \in Sessions \ {s} : proto'[r] = proto[r]
    BY <1>1, ControlTypes
  <1>8. ASSUME NEW r \in Sessions \ {s}
        PROVE  /\ Bystander(r)
               /\ \A u \in Sessions : Alone(r) /\ protoOn[r] = u => Eases(u)
    <2>1. Bystander(r)
      BY <1>6, <1>7 DEF Bystander
    <2>2. ASSUME Alone(r)
          PROVE  protoOn[r] # t
      BY <1>2, <2>2 DEF Alone
    <2>3. QED
      BY <1>4, <2>1, <2>2
  <1>9. Sound(s)'
    <2>1. OwnEndpoint(s)'
      BY <1>2, <1>6, <1>7 DEF OwnEndpoint, ClientMessages
    <2>2. AcceptanceSaid(s)' /\ OwnVerdict(s)'
      BY <1>6, <1>7 DEF AcceptanceSaid, OwnVerdict, Told
    <2>3. MayRegister(s)'
      BY <1>1, <1>7, ControlTypes DEF Sound, MayRegister
    <2>4. ASSUME Alone(s)'
          PROVE  OwnAnswer(s)'
      <3>1. Alone(s) /\ ~Asking(s)
        BY <1>5, <2>4, AloneBefore DEF Asking
      <3>2. Len(outbound[t]) = 0 /\ Len(inbound[t]) = 0 /\ rx[t] # "delivering"
        BY <1>1, <1>2, <3>1, NothingPending
      <3>3. outbound'[t] = outbound[t] \/ outbound'[t] = Append(outbound[t], m)
        BY <1>1, <1>2, WireTypes DEF SendsToServer
      <3>4. outbound[t] \in Seq(ClientMessages)
        BY <1>1, WireTypes
      <3>5. Len(outbound'[t]) <= 1 /\ \A i \in 1 .. Len(outbound'[t]) : outbound'[t][i] = m
        BY <3>2, <3>3, <3>4, AppendProperties
      <3>6. Len(inbound'[t]) = 0 /\ rx'[t] # "delivering"
        BY <3>2
      <3>7. Awaited(t, m)'
        BY <3>5, <3>6 DEF Awaited
      <3>8. Pending(t)' <= 1
        <4>1. Len(outbound'[t]) \in Nat
          BY <1>1, WireTypes
        <4>2. QED
          BY <1>1, <3>5, <3>6, <4>1, WireTypes DEF Pending
      <3>9. Asking(s)' /\ protoOn'[s] = t
        BY <1>2, <1>6, <1>7 DEF Asking, Waits
      <3>10. QED
        BY <1>7, <3>7, <3>8, <3>9 DEF OwnAnswer, ClientMessages
    <2>5. QED
      BY <2>1, <2>2, <2>3, <2>4 DEF Sound
  <1>10. \A u \in Sessions : (\A r \in Sessions : protoOn[r] # u) => Eases(u)
    BY <1>2, <1>4
  <1>11. QED
    BY <1>5, <1>8, <1>9, <1>10, StepKept

\* An endpoint of session s that its own protocol does not wait on takes a frame or ends.
LEMMA ForeignEndpointKept ==
    ASSUME HandshakeInv, HandshakeTypeOK', InvField', InvProgress', NEW s \in Sessions,
           Endpoints(s), ~Waits(s)
    PROVE  HandshakeInv'
  <1>1. HandshakeTypeOK
    BY DEF HandshakeInv
  <1>2. UNCHANGED <<proto, protoOn, outbound, granted>>
    BY DEF Endpoints, serverVars
  <1>3. QuietWire /\ \A r \in Sessions \ {s} : ep'[r] = ep[r] /\ parsed'[r] = parsed[r]
    <2>1. CASE EpReceive(s)
      <3>1. PICK t \in Sessions :
              Delivers(t) /\ (SingleMessage(s, rxData[t]) \/ NextMessage(s, rxData[t]))
        BY <2>1 DEF EpReceive
      <3>2. QuietWire
        BY <1>1, <1>2, <3>1, WireTypes DEF Delivers, QuietWire
      <3>3. QED
        BY <1>1, <3>1, <3>2 DEF SingleMessage, NextMessage, HandshakeTypeOK, EndpointTypeOK
    <2>2. CASE EpFindsClosed(s)
      <3>1. UNCHANGED <<inbound, rx, rxData, inputClosed>>
        BY <2>2 DEF EpFindsClosed, transportVars
      <3>2. QuietWire
        BY <1>2, <3>1 DEF QuietWire
      <3>3. QED
        BY <1>1, <2>2, <3>2 DEF EpFindsClosed, SingleMessage, HandshakeTypeOK, EndpointTypeOK
    <2>3. QED
      BY <2>1, <2>2 DEF Endpoints, EndpointStep
  <1>4. UNCHANGED <<epName, epOn>>
    BY DEF Endpoints, EndpointStep, EpReceive, EpFindsClosed
  <1>5. \A r \in Sessions : Bystander(r)
    BY <1>2, <1>3, <1>4 DEF Bystander
  <1>6. Keeps /\ \A t \in Sessions : Eases(t)
    BY <1>1, <1>2, <1>3, QuietKeeps
  <1>7. QED
    BY <1>5, <1>6, EveryBystanderKept

\* What a single-message endpoint makes of the frame it takes.
LEMMA SingleMessageTaken ==
    ASSUME HandshakeTypeOK, NEW s \in Sessions, NEW f, SingleMessage(s, f)
    PROVE  /\ ep'[s] = "offering"
           /\ epName[s] = "Negotiation" =>
                parsed'[s] = IF f.kind \in {"accepted", "rejected"} THEN f ELSE NilFrame
           /\ epName[s] = "Registration" =>
                parsed'[s] = IF f.kind # "garbage" THEN Plain("ack") ELSE NilFrame
           /\ \A r \in Sessions \ {s} : ep'[r] = ep[r] /\ parsed'[r] = parsed[r]
  <1> DEFINE m == CASE ~Parses(epName[s], f.kind) -> NilFrame
                    [] epName[s] = "Registration" /\ Parses(epName[s], f.kind) -> Plain("ack")
                    [] OTHER -> f
  <1>1. ep \in [Sessions -> {"off", "waiting", "offering", "done"}] /\ parsed \in [Sessions -> Frame]
    BY DEF HandshakeTypeOK, EndpointTypeOK
  <1>2. parsed' = [parsed EXCEPT ![s] = m] /\ ep' = [ep EXCEPT ![s] = "offering"]
    BY DEF SingleMessage
  <1>3. epName[s] = "Negotiation" => m = IF f.kind \in {"accepted", "rejected"} THEN f ELSE NilFrame
    BY DEF Parses
  <1>4. epName[s] = "Registration" => m = IF f.kind # "garbage" THEN Plain("ack") ELSE NilFrame
    BY DEF Parses
  <1> HIDE DEF m
  <1>5. parsed'[s] = m /\ ep'[s] = "offering"
    BY <1>1, <1>2
  <1>6. \A r \in Sessions \ {s} : ep'[r] = ep[r] /\ parsed'[r] = parsed[r]
    BY <1>1, <1>2
  <1>7. QED
    BY <1>3, <1>4, <1>5, <1>6

\* The endpoint the protocol waits on takes the answer, and with it all that was under way.
LEMMA AnswerTaken ==
    ASSUME HandshakeInv, HandshakeTypeOK', InvField', InvProgress', NEW s \in Sessions,
           Endpoints(s), Waits(s), EpReceive(s)
    PROVE  HandshakeInv'
  <1>1. HandshakeTypeOK /\ InvProgress /\ Sound(s) /\ \A t \in Sessions : Said(t)
    BY InvariantParts
  <1>2. UNCHANGED <<proto, protoOn, outbound, granted, epName, epOn>>
    BY DEF Endpoints, EpReceive, serverVars
  <1>3. PICK t \in Sessions :
          t = epOn[s] /\ Delivers(t) /\ (SingleMessage(s, rxData[t]) \/ NextMessage(s, rxData[t]))
    BY DEF EpReceive
  <1>4. /\ protoOn[s] = t /\ ep[s] = "waiting" /\ SingleMessage(s, rxData[t])
        /\ epName[s] = IF proto[s] = "negotiating" THEN "Negotiation" ELSE "Registration"
    BY <1>1, <1>3 DEF Sound, OwnEndpoint, NextMessage, EpReceive
  <1> DEFINE f == rxData[t]
  <1>5. /\ ep'[s] = "offering"
        /\ proto[s] = "negotiating" => parsed'[s] = IF f.kind \in {"accepted", "rejected"} THEN f ELSE NilFrame
        /\ proto[s] # "negotiating" => parsed'[s] = IF f.kind # "garbage" THEN Plain("ack") ELSE NilFrame
        /\ \A r \in Sessions \ {s} : ep'[r] = ep[r] /\ parsed'[r] = parsed[r]
    BY <1>1, <1>4, SingleMessageTaken DEF Waits
  <1>6. /\ rx[t] = "delivering" /\ rx'[t] = "receiving" /\ QuietWire
        /\ inbound' = inbound /\ outbound' = outbound /\ inputClosed' = inputClosed
    BY <1>1, <1>2, <1>3, WireTypes DEF Delivers, QuietWire
  <1>7. f.kind \in granted[t]
    BY <1>1, <1>6 DEF Said
  <1>8. Keeps /\ \A u \in Sessions : Eases(u)
    BY <1>1, <1>2, <1>6, QuietKeeps
  <1>9. \A r \in Sessions \ {s} : Bystander(r)
    BY <1>2, <1>5 DEF Bystander
  <1>10. NilFrame.kind = "nil" /\ Plain("ack").kind = "ack"
    BY DEF NilFrame, Plain
  <1>11. proto[s] = "negotiating" \/ proto[s] = "registering"
    BY DEF Waits
  <1>12. Sound(s)'
    <2>1. OwnEndpoint(s)' /\ MayRegister(s)'
      BY <1>1, <1>2, <1>4, <1>5 DEF Sound, OwnEndpoint, MayRegister, Waits
    <2>2. AcceptanceSaid(s)'
      BY <1>2, <1>4, <1>5, <1>7, <1>10 DEF AcceptanceSaid
    <2>3. ASSUME Alone(s)'
          PROVE  OwnAnswer(s)' /\ OwnVerdict(s)'
      <3>1. Alone(s) /\ OwnAnswer(s)
        BY <1>1, <1>2, <1>8, <2>3, AloneBefore DEF Sound
      <3>2. Asking(s) /\ ~Asking(s)'
        BY <1>4, <1>5 DEF Asking
      <3>3. Pending(t)' <= 0
        <4>1. Len(outbound[t]) \in Nat /\ Len(inbound[t]) \in Nat
          BY <1>1, WireTypes
        <4>2. Pending(t) <= 1
          BY <1>4, <3>1, <3>2 DEF OwnAnswer
        <4>3. QED
          BY <1>1, <1>6, <4>1, <4>2, WireTypes DEF Pending
      <3>4. OwnAnswer(s)'
        <4>1. /\ proto'[s] = "negotiating" => Awaited(t, "NegotiationRequest")'
              /\ proto'[s] = "registering" => Awaited(t, "ContainerInfo")'
          BY <1>2, <1>4, <1>8, <3>1 DEF OwnAnswer, Eases, ClientMessages
        <4>2. QED
          BY <1>2, <1>4, <3>2, <3>3, <4>1 DEF OwnAnswer
      <3>5. proto[s] = "negotiating" => f.kind \in {"accepted", "rejected", "garbage"}
        BY <1>4, <1>6, <3>1 DEF OwnAnswer, Awaited, Answers
      <3>6. proto[s] = "registering" => f.kind \in {"ack", "garbage"}
        BY <1>4, <1>6, <3>1 DEF OwnAnswer, Awaited, Answers
      <3>7. ASSUME proto[s] = "negotiating", parsed'[s].kind # "accepted"
            PROVE  Refused(t)'
        <4>1. f.kind \in {"rejected", "garbage"}
          BY <1>5, <3>5, <3>7
        <4>2. QED
          BY <1>2, <1>7, <4>1 DEF Refused
      <3>8. ASSUME proto[s] = "registering"
            PROVE  IF parsed'[s].kind = "ack" THEN "ack" \in granted'[t] ELSE Refused(t)'
        <4>1. CASE f.kind = "ack"
          BY <1>2, <1>5, <1>7, <1>10, <3>8, <4>1
        <4>2. CASE f.kind = "garbage"
          BY <1>2, <1>5, <1>7, <1>10, <3>8, <4>2 DEF Refused
        <4>3. QED
          BY <3>6, <3>8, <4>1, <4>2
      <3>9. OwnVerdict(s)'
        BY <1>2, <1>4, <1>11, <3>7, <3>8 DEF OwnVerdict
      <3>10. QED
        BY <3>4, <3>9
    <2>4. QED
      BY <2>1, <2>2, <2>3 DEF Sound
  <1>13. QED
    BY <1>8, <1>9, <1>12, StepKept

\* Or it finds the transport closed, and then it is not alone on an open one.
LEMMA ClosedFound ==
    ASSUME HandshakeInv, HandshakeTypeOK', InvField', InvProgress', NEW s \in Sessions,
           Endpoints(s), Waits(s), EpFindsClosed(s)
    PROVE  HandshakeInv'
  <1>1. HandshakeTypeOK /\ InvProgress /\ Sound(s)
    BY InvariantParts
  <1>2. UNCHANGED <<proto, protoOn, outbound, granted, epName, epOn, inbound, rx, rxData, inputClosed>>
    BY DEF Endpoints, EpFindsClosed, serverVars, transportVars
  <1>3. /\ epOn[s] = protoOn[s] /\ inputClosed[epOn[s]]
        /\ epName[s] = IF proto[s] = "negotiating" THEN "Negotiation" ELSE "Registration"
    BY <1>1 DEF Sound, OwnEndpoint, EpFindsClosed
  <1>4. SingleMessage(s, NilFrame)
    BY <1>3 DEF EpFindsClosed
  <1>5. /\ ep'[s] = "offering"
        /\ proto[s] = "negotiating" => parsed'[s] = NilFrame
        /\ \A r \in Sessions \ {s} : ep'[r] = ep[r] /\ parsed'[r] = parsed[r]
    <2>1. NilFrame.kind = "nil"
      BY DEF NilFrame, Plain
    <2>2. QED
      BY <1>1, <1>3, <1>4, <2>1, SingleMessageTaken DEF Waits
  <1>6. Keeps /\ \A u \in Sessions : Eases(u)
    BY <1>1, <1>2, QuietKeeps DEF QuietWire
  <1>7. \A r \in Sessions \ {s} : Bystander(r)
    BY <1>2, <1>5 DEF Bystander
  <1>8. Sound(s)'
    <2>1. OwnEndpoint(s)' /\ MayRegister(s)'
      BY <1>1, <1>2, <1>3, <1>5 DEF Sound, OwnEndpoint, MayRegister, Waits
    <2>2. AcceptanceSaid(s)'
      BY <1>2, <1>5 DEF AcceptanceSaid, NilFrame, Plain
    <2>3. ~Alone(s)'
      BY <1>2, <1>3 DEF Alone
    <2>4. QED
      BY <2>1, <2>2, <2>3 DEF Sound
  <1>9. QED
    BY <1>6, <1>7, <1>8, StepKept

\* The protocol is told the answer and draws its conclusion.
LEMMA AnsweredKept ==
    ASSUME HandshakeInv, HandshakeTypeOK', InvField', InvProgress', NEW s \in Sessions,
           NegotiationAnswered(s) \/ RegistrationAnswered(s)
    PROVE  HandshakeInv'
  <1>1. HandshakeTypeOK /\ InvProgress /\ Sound(s)
    BY InvariantParts
  <1>2. /\ UNCHANGED <<protoOn, outbound, granted, inbound, rx, rxData, inputClosed>>
        /\ EpDelivers(s) /\ ep[s] = "offering" /\ Waits(s) /\ Told(s) /\ ~Asking(s)
    BY DEF NegotiationAnswered, RegistrationAnswered, EpDelivers, transportVars, serverVars,
       Waits, Told, Asking
  <1>3. PICK t \in Sessions : protoOn[s] = t
    BY <1>1, <1>2, StartedOnTransport DEF Waits
  <1>4. \A r \in Sessions \ {s} : /\ proto'[r] = proto[r] /\ ep'[r] = ep[r] /\ epOn'[r] = epOn[r]
                                  /\ epName'[r] = epName[r] /\ parsed'[r] = parsed[r]
    BY <1>1, <1>2, ControlTypes DEF NegotiationAnswered, RegistrationAnswered, EpDelivers,
       HandshakeTypeOK, EndpointTypeOK
  <1>5. \/ proto[s] = "negotiating" /\ parsed[s].kind = "accepted" /\ proto'[s] = "register"
        \/ proto[s] = "negotiating" /\ parsed[s].kind # "accepted" /\ proto'[s] = "failed"
        \/ proto[s] = "registering" /\ parsed[s].kind = "ack" /\ proto'[s] = "registered"
        \/ proto[s] = "registering" /\ parsed[s].kind # "ack" /\ proto'[s] = "failed"
    BY <1>1, ControlTypes DEF NegotiationAnswered, RegistrationAnswered
  <1>6. Keeps /\ \A u \in Sessions : Eases(u)
    BY <1>1, <1>2, QuietKeeps DEF QuietWire
  <1>7. \A r \in Sessions \ {s} : Bystander(r)
    BY <1>2, <1>4 DEF Bystander
  <1>8. Sound(s)'
    <2>1. OwnEndpoint(s)' /\ AcceptanceSaid(s)'
      BY <1>5 DEF OwnEndpoint, AcceptanceSaid, Waits
    <2>2. MayRegister(s)'
      BY <1>1, <1>2, <1>3, <1>5 DEF Sound, AcceptanceSaid, MayRegister
    <2>3. ASSUME Alone(s)'
          PROVE  OwnAnswer(s)' /\ OwnVerdict(s)'
      <3>1. Alone(s) /\ OwnVerdict(s)
        BY <1>1, <1>2, <1>6, <2>3, AloneBefore DEF Sound
      <3>2. Pending(t)' = 0
        <4>1. Pending(t) = 0 /\ Pending(t)' <= Pending(t)
          BY <1>1, <1>2, <1>3, <1>6, <3>1, NothingPending DEF Eases
        <4>2. QED
          BY <1>1, <4>1, PendingIsNat
      <3>3. OwnAnswer(s)'
        BY <1>2, <1>3, <1>5, <3>2 DEF OwnAnswer, Asking, Waits
      <3>4. OwnVerdict(s)'
        BY <1>2, <1>5, <3>1 DEF OwnVerdict, Told, Waits, Refused
      <3>5. QED
        BY <3>3, <3>4
    <2>4. QED
      BY <2>1, <2>2, <2>3 DEF Sound
  <1>9. QED
    BY <1>6, <1>7, <1>8, StepKept

-----------------------------------------------------------------------------
(* The theorems, for any number of sessions. *)

\* The invariant holds before anything is dialled.
LEMMA HandshakeInitInv == HandshakeInit => HandshakeInv
  <1> SUFFICES ASSUME HandshakeInit
               PROVE  HandshakeInv
    OBVIOUS
  <1> USE TransportAssumption DEF HandshakeInit
  <1>1. HandshakeTypeOK
    BY HandshakeInitType
  <1>2. InvField
    BY DEF InvField
  <1>3. InvProgress
    BY DEF InvProgress
  <1>4. InvEndpoint /\ RegistersOnlyIfAccepted
    BY DEF InvEndpoint, OwnEndpoint, Waits, RegistersOnlyIfAccepted
  <1>5. InvGranted
    <2>1. ASSUME NEW t \in Sessions
          PROVE  Said(t)
      <3>1. inbound[t] = <<>> /\ rx[t] = "off"
        BY DEF TransportInit
      <3>2. Len(<<>>) = 0 /\ 1 .. 0 = {}
        BY EmptySeq
      <3>3. 1 .. Len(inbound[t]) = {}
        BY ONLY <3>1, <3>2
      <3>4. QED
        BY <3>1, <3>3 DEF Said
    <2>2. QED
      BY <2>1 DEF InvGranted, AcceptanceSaid, Told, Waits
  <1>6. InvUnused
    BY DEF TransportInit, InvUnused, Pending
  <1>7. InvAlone /\ InvVerdict
    BY DEF InvAlone, InvVerdict, Alone
  <1>8. QED
    BY <1>1, <1>2, <1>3, <1>4, <1>5, <1>6, <1>7 DEF HandshakeInv

\* Every step keeps it.
LEMMA HandshakeNextInv ==
    ASSUME HandshakeInv, [HandshakeNext]_handshakeVars
    PROVE  HandshakeInv'
  <1>1. HandshakeTypeOK /\ InvField /\ InvProgress
    BY DEF HandshakeInv
  <1>2. HandshakeTypeOK' /\ InvField' /\ InvProgress'
    BY <1>1, HandshakeNextType, FieldKept, ProgressKept
  <1>3. ASSUME NEW s \in Sessions, ConnectToTurbo(s) \/ ServiceStep(s) \/ LosesConnection(s)
        PROVE  HandshakeInv'
    BY <1>2, <1>3, ServiceStepKept
  <1>4. ASSUME NEW s \in Sessions, InitStep(s)
        PROVE  HandshakeInv'
    BY <1>2, <1>4, InitQuietKept, StartProtocolKept, RegisteredKept DEF InitStep
  <1>5. ASSUME NEW s \in Sessions, ProtoStep(s)
        PROVE  HandshakeInv'
    <2>1. CASE NegotiateVersion(s)
      <3>1. /\ UNCHANGED <<inbound, granted, rx, rxData, inputClosed, protoOn>>
            /\ ~Waits(s) /\ proto[s] # "off" /\ CreateEndpoint(s, "Negotiation", protoOn[s])
            /\ SendsToServer(protoOn[s], "NegotiationRequest")
            /\ proto' = [proto EXCEPT ![s] = "negotiating"]
        BY <2>1 DEF NegotiateVersion, transportVars, Waits
      <3>2. QED
        BY <1>2, <3>1, AskingKept DEF ClientMessages
    <2>2. CASE HandleRegistration(s)
      <3>1. /\ UNCHANGED <<inbound, granted, rx, rxData, inputClosed, protoOn>>
            /\ ~Waits(s) /\ proto[s] = "register"
            /\ CreateEndpoint(s, "Registration", protoOn[s])
            /\ SendsToServer(protoOn[s], "ContainerInfo")
            /\ proto' = [proto EXCEPT ![s] = "registering"]
        BY <2>2 DEF HandleRegistration, transportVars, Waits
      <3>2. QED
        BY <1>2, <3>1, AskingKept DEF ClientMessages
    <2>3. CASE NegotiationAnswered(s) \/ RegistrationAnswered(s)
      BY <1>2, <2>3, AnsweredKept
    <2>4. QED
      BY <1>5, <2>1, <2>2, <2>3 DEF ProtoStep
  <1>6. ASSUME NEW s \in Sessions, Transports(s)
        PROVE  HandshakeInv'
    BY <1>2, <1>6, TransportsKept
  <1>7. ASSUME NEW s \in Sessions, Endpoints(s)
        PROVE  HandshakeInv'
    BY <1>2, <1>7, ForeignEndpointKept, AnswerTaken, ClosedFound DEF Endpoints, EndpointStep
  <1>8. ASSUME NEW s \in Sessions, ServerAnswers(s)
        PROVE  HandshakeInv'
    BY <1>2, <1>8, ServerAnswersKept
  <1>9. CASE LoadProbe \/ UNCHANGED handshakeVars
    <2>1. UNCHANGED <<inbound, outbound, granted, rx, rxData, inputClosed, endpointVars,
                      proto, protoOn>>
      BY <1>9 DEF LoadProbe, handshakeVars, transportVars, serverVars
    <2>2. QED
      BY <1>2, <2>1, QuietStepKept DEF QuietWire
  <1>10. CASE CloseContainer
    <2>1. Stop /\ UNCHANGED <<outbound, granted, endpointVars, proto, protoOn>>
      BY <1>10 DEF CloseContainer, serverVars
    <2>2. QED
      BY <1>1, <1>2, <2>1, StopQuiet, QuietStepKept
  <1>11. QED
    BY <1>3, <1>4, <1>5, <1>6, <1>7, <1>8, <1>9, <1>10 DEF HandshakeNext, SessionStep

(***************************************************************************)
(* The inductive invariant: what a session that is alone on an open        *)
(* transport concludes about the handshake is what the server said there.  *)
(***************************************************************************)
THEOREM HandshakeInvariant == HandshakeSpec => []HandshakeInv
  BY HandshakeInitInv, HandshakeNextInv, PTL DEF HandshakeSpec

(***************************************************************************)
(* No ContainerInfo goes out on a connection whose server has not accepted *)
(* the protocol version, however many sessions overwrite each other's      *)
(* transport and whatever is closed or lost.                               *)
(***************************************************************************)
THEOREM RegistersOnlyIfAcceptedHolds == HandshakeSpec => []RegistersOnlyIfAccepted
  <1>1. HandshakeInv => RegistersOnlyIfAccepted
    BY DEF HandshakeInv
  <1>2. QED
    BY <1>1, HandshakeInvariant, PTL

(***************************************************************************)
(* A session that serves has registered, and its status channel is closed  *)
(* at most once, by ConnectToTurbo.                                        *)
(***************************************************************************)
THEOREM ServingKeepsStatusChannelHolds == HandshakeSpec => []ServingKeepsStatusChannel
  <1>1. HandshakeInv => ServingKeepsStatusChannel
    BY DEF HandshakeInv, InvProgress, ServingKeepsStatusChannel
  <1>2. QED
    BY <1>1, HandshakeInvariant, PTL

(***************************************************************************)
(* A session that creates targets was acknowledged by the server on its    *)
(* transport, unless that was closed under it or another session runs the  *)
(* handshake on it: nothing else can go wrong.                             *)
(***************************************************************************)
THEOREM TargetsNeedAckOrCloseHolds == HandshakeSpec => []TargetsNeedAckOrClose
  <1>1. HandshakeInv => TargetsNeedAckOrClose
    <2>1. SUFFICES ASSUME HandshakeInv, NEW s \in Sessions, svc[s] = "adding" \/ added[s] # {}
                   PROVE  /\ protoOn[s] \in Sessions
                          /\ \/ "ack" \in granted[protoOn[s]]
                             \/ inputClosed[protoOn[s]]
                             \/ \E r \in Sessions \ {s} : protoOn[r] = protoOn[s]
      BY DEF TargetsNeedAckOrClose
    <2>2. proto[s] = "registered"
      BY <2>1 DEF HandshakeInv, InvProgress
    <2>3. protoOn[s] \in Sessions
      BY <2>1, <2>2, StartedOnTransport DEF HandshakeInv
    <2>4. Alone(s) => "ack" \in granted[protoOn[s]]
      BY <2>1, <2>2 DEF HandshakeInv, InvVerdict, OwnVerdict
    <2>5. QED
      BY <2>3, <2>4 DEF Alone
  <1>2. QED
    BY <1>1, HandshakeInvariant, PTL

-----------------------------------------------------------------------------
(***************************************************************************)
(* The theorems for one session whose container is not closed: there its   *)
(* transport is closed only after a failed handshake, so that it is alone  *)
(* on an open one until the verdict.  With a second session, or with a     *)
(* Close of the application, neither of them holds (the runs of            *)
(* HandshakeRetry and HandshakeTwo).                                       *)
(***************************************************************************)

SoleSession == \A s, t \in Sessions : s = t

\* What only a failed handshake can bring about.
OnlyAfterFailure ==
    /\ \A s, t \in Sessions : inputClosed[t] => proto[s] = "failed"
    /\ \A s \in Sessions : proto[s] = "failed" => Refused(protoOn[s])
    /\ PanicOnlyAfterRefusal

\* A refusal is not taken back.
LEMMA PanicKept ==
    ASSUME HandshakeTypeOK, PanicOnlyAfterRefusal, HandshakeInv',
           \A s \in Sessions : granted[s] \subseteq granted'[s],
           \A s \in Sessions : proto'[s] = "failed" => Refused(protoOn[s])',
           crash' = crash \/ \E s \in Sessions : proto'[s] = "failed"
    PROVE  PanicOnlyAfterRefusal'
  <1>1. CASE crash' = crash
    BY <1>1 DEF PanicOnlyAfterRefusal
  <1>2. ASSUME NEW s \in Sessions, proto'[s] = "failed"
        PROVE  PanicOnlyAfterRefusal'
    <2>1. protoOn'[s] \in Sessions
      BY <1>2, TransportAssumption DEF HandshakeInv, HandshakeTypeOK, InvProgress
    <2>2. Refused(protoOn[s])'
      BY <1>2
    <2>3. QED
      BY <2>1, <2>2 DEF PanicOnlyAfterRefusal, Refused
  <1>3. QED
    BY <1>1, <1>2

\* A step that closes nothing and ends no handshake.
LEMMA NoVerdictKept ==
    ASSUME HandshakeTypeOK, OnlyAfterFailure, HandshakeInv',
           UNCHANGED <<inputClosed, crash>>,
           \A s \in Sessions : granted[s] \subseteq granted'[s],
           \A s \in Sessions : (proto[s] = "failed" \/ proto'[s] = "failed") =>
              /\ proto'[s] = proto[s] /\ protoOn'[s] = protoOn[s] /\ protoOn[s] \in Sessions
    PROVE  OnlyAfterFailure'
  <1>1. \A s, t \in Sessions : inputClosed'[t] => proto'[s] = "failed"
    BY DEF OnlyAfterFailure
  <1>2. \A s \in Sessions : proto'[s] = "failed" => Refused(protoOn[s])'
    BY DEF OnlyAfterFailure, Refused
  <1>3. QED
    BY <1>1, <1>2, PanicKept DEF OnlyAfterFailure

\* A step that may close or panic, but only after a failure, and decides nothing.
LEMMA AftermathKept ==
    ASSUME HandshakeTypeOK, SoleSession, OnlyAfterFailure, HandshakeInv',
           UNCHANGED <<proto, protoOn, granted>>,
           NEW s \in Sessions, proto[s] = "failed"
    PROVE  OnlyAfterFailure'
  <1>1. \A r, t \in Sessions : inputClosed'[t] => proto'[r] = "failed"
    BY DEF SoleSession
  <1>2. \A r \in Sessions : proto'[r] = "failed" => Refused(protoOn[r])'
    BY DEF OnlyAfterFailure, Refused
  <1>3. QED
    BY <1>1, <1>2, PanicKept DEF OnlyAfterFailure

\* The verdict of a sole session, whose transport is open, is the server's.
LEMMA VerdictKept ==
    ASSUME HandshakeInv, SoleSession, OnlyAfterFailure, HandshakeInv',
           NEW s \in Sessions, NegotiationAnswered(s) \/ RegistrationAnswered(s)
    PROVE  OnlyAfterFailure'
  <1>1. HandshakeTypeOK /\ InvProgress
    BY DEF HandshakeInv
  <1>2. /\ proto[s] \notin {"off", "failed"}
        /\ UNCHANGED <<inputClosed, crash, protoOn, granted>>
    BY DEF NegotiationAnswered, RegistrationAnswered, transportVars, serverVars
  <1>3. protoOn[s] \in Sessions
    BY <1>1, <1>2, StartedOnTransport
  <1>4. \A t \in Sessions : ~inputClosed'[t]
    <2>1. \A t \in Sessions : inputClosed[t] => proto[s] = "failed"
      BY DEF OnlyAfterFailure
    <2>2. QED
      BY <1>2, <2>1
  <1>5. Alone(s)'
    BY <1>2, <1>3, <1>4 DEF Alone, SoleSession
  <1>6. \A r \in Sessions : proto'[r] = "failed" => Refused(protoOn[r])'
    BY <1>5 DEF SoleSession, HandshakeInv, InvVerdict, OwnVerdict
  <1>7. PanicOnlyAfterRefusal'
    BY <1>1, <1>2, <1>6, PanicKept DEF OnlyAfterFailure
  <1>8. QED
    BY <1>4, <1>6, <1>7 DEF OnlyAfterFailure

\* Every step of a sole session that nobody closes.
LEMMA SoleNextKept ==
    ASSUME HandshakeInv, SoleSession, ~CanClose, OnlyAfterFailure, HandshakeInv',
           [HandshakeNext]_handshakeVars
    PROVE  OnlyAfterFailure'
  <1>1. HandshakeTypeOK /\ InvProgress /\ InvField
    BY DEF HandshakeInv
  <1>2. \A s \in Sessions : proto[s] = "failed" => protoOn[s] \in Sessions
    BY <1>1, StartedOnTransport
  <1>3. ASSUME UNCHANGED <<inputClosed, crash, proto, protoOn, granted>>
        PROVE  OnlyAfterFailure'
    BY <1>1, <1>2, <1>3, NoVerdictKept
  <1>4. ASSUME NEW s \in Sessions,
               \/ ConnectToTurbo(s) \/ StatusReceived(s) \/ AddsTarget(s) \/ TargetsDone(s)
               \/ NoProbesToRegister(s) \/ DialSucceeds(s) \/ SendStatus(s)
               \/ StartServing(s) \/ DropsUnknown(s) \/ LosesConnection(s)
        PROVE  UNCHANGED <<inputClosed, crash, proto, protoOn, granted>>
    BY <1>4 DEF ConnectToTurbo, StatusReceived, AddsTarget, TargetsDone, NoProbesToRegister,
       DialSucceeds, Connect, SendStatus, StartServing, DropsUnknown, LosesConnection,
       PeerLost, transportVars, serverVars
  <1>5. ASSUME NEW s \in Sessions,
               \/ Endpoints(s)
               \/ Transports(s) /\ (RxReceive(s) \/ RxFail(s))
        PROVE  UNCHANGED <<inputClosed, crash, proto, protoOn, granted>>
    BY <1>5 DEF Endpoints, EndpointStep, EpReceive, EpFindsClosed, Delivers, RxReceive,
       RxFail, Transports, transportVars, serverVars
  <1>6. ASSUME NEW s \in Sessions, DialFails(s)
        PROVE  UNCHANGED <<inputClosed, crash, proto, protoOn, granted>>
    <2>1. clientTransport \notin Sessions
      BY <1>1, <1>6 DEF DialFails, InvField, SoleSession
    <2>2. QED
      BY <1>6, <2>1 DEF DialFails, Stop, transportVars, serverVars
  <1>7. ASSUME LoadProbe \/ CloseContainer \/ UNCHANGED handshakeVars
        PROVE  UNCHANGED <<inputClosed, crash, proto, protoOn, granted>>
    BY <1>7 DEF LoadProbe, CloseContainer, handshakeVars, transportVars, serverVars
  <1>8. ASSUME NEW s \in Sessions, ConnectReturns(s) \/ InitReturns(s)
        PROVE  OnlyAfterFailure'
    <2>1. UNCHANGED <<inputClosed, proto, protoOn, granted>>
      BY <1>8 DEF ConnectReturns, InitReturns, serverVars
    <2>2. crash' = crash \/ proto[s] = "failed"
      BY <1>1, <1>8 DEF ConnectReturns, InitReturns, ClosesStatus, InvProgress
    <2>3. QED
      BY <1>1, <1>3, <2>1, <2>2, AftermathKept
  <1>9. ASSUME NEW s \in Sessions, StopAfterFailure(s)
        PROVE  OnlyAfterFailure'
    BY <1>1, <1>9, AftermathKept DEF StopAfterFailure, InvProgress, serverVars
  <1>10. ASSUME NEW s \in Sessions, RxSendsOnClosed(s), Transports(s)
         PROVE  OnlyAfterFailure'
    BY <1>1, <1>10, AftermathKept DEF RxSendsOnClosed, Transports, serverVars, OnlyAfterFailure
  <1>11. ASSUME NEW s \in Sessions, ServerAnswers(s)
         PROVE  OnlyAfterFailure'
    <2>1. UNCHANGED <<inputClosed, crash, proto, protoOn>>
      BY <1>11 DEF ServerAnswers, ServerPuts
    <2>2. \A r \in Sessions : granted[r] \subseteq granted'[r]
      BY <1>1, <1>11, ServerAnswersKeeps DEF Keeps, HandshakeInv
    <2>3. QED
      BY <1>1, <1>2, <2>1, <2>2, NoVerdictKept
  <1>12. ASSUME NEW s \in Sessions,
                StartProtocol(s) \/ NegotiateVersion(s) \/ HandleRegistration(s)
         PROVE  OnlyAfterFailure'
    <2>1. UNCHANGED <<inputClosed, crash, granted>>
      BY <1>12 DEF StartProtocol, NegotiateVersion, HandleRegistration, transportVars, serverVars
    <2>2. proto[s] # "failed" /\ proto'[s] # "failed"
      BY <1>1, <1>12, ControlTypes DEF StartProtocol, NegotiateVersion, HandleRegistration, InvProgress
    <2>3. \A r \in Sessions : r = s
      BY DEF SoleSession
    <2>4. QED
      BY <1>1, <2>1, <2>2, <2>3, NoVerdictKept
  <1>13. ASSUME NEW s \in Sessions, NegotiationAnswered(s) \/ RegistrationAnswered(s)
         PROVE  OnlyAfterFailure'
    BY <1>13, VerdictKept
  <1>14. ASSUME NEW s \in Sessions, SessionStep(s)
         PROVE  OnlyAfterFailure'
    <2>1. CASE ConnectToTurbo(s) \/ ServiceStep(s)
      BY <1>3, <1>4, <1>8, <2>1 DEF ServiceStep
    <2>2. CASE InitStep(s)
      BY <1>3, <1>4, <1>6, <1>8, <1>9, <1>12, <2>2 DEF InitStep
    <2>3. CASE ProtoStep(s)
      BY <1>12, <1>13, <2>3 DEF ProtoStep
    <2>4. CASE Transports(s)
      <3>1. RxReceive(s) \/ RxFail(s) \/ RxSendsOnClosed(s)
        BY <2>4 DEF Transports, TransportStep
      <3>2. CASE RxReceive(s) \/ RxFail(s)
        <4>1. UNCHANGED <<inputClosed, crash, proto, protoOn, granted>>
          BY <1>5, <2>4, <3>2
        <4>2. QED
          BY <1>3, <4>1
      <3>3. CASE RxSendsOnClosed(s)
        BY <1>10, <2>4, <3>3
      <3>4. QED
        BY <3>1, <3>2, <3>3
    <2>5. CASE Endpoints(s) \/ LosesConnection(s)
      <3>1. UNCHANGED <<inputClosed, crash, proto, protoOn, granted>>
        BY <1>4, <1>5, <2>5
      <3>2. QED
        BY <1>3, <3>1
    <2>6. CASE ServerAnswers(s)
      BY <1>11, <2>6
    <2>7. QED
      BY <1>14, <2>1, <2>2, <2>3, <2>4, <2>5, <2>6 DEF SessionStep
  <1>15. QED
    BY <1>3, <1>7, <1>14 DEF HandshakeNext

(***************************************************************************)
(* The inductive invariant of a sole session that is not closed.           *)
(***************************************************************************)
THEOREM SoleHandshakeInvariant ==
    ASSUME SoleSession, ~CanClose
    PROVE  HandshakeSpec => []SoleHandshakeInv
  <1>1. HandshakeInit => OnlyAfterFailure
    BY DEF HandshakeInit, TransportInit, OnlyAfterFailure, PanicOnlyAfterRefusal
  <1>2. SoleHandshakeInv <=> HandshakeInv /\ OnlyAfterFailure
    BY DEF SoleHandshakeInv, OnlyAfterFailure
  <1>3. HandshakeInv /\ HandshakeInv' /\ OnlyAfterFailure /\ [HandshakeNext]_handshakeVars
        => OnlyAfterFailure'
    BY SoleNextKept
  <1>4. QED
    BY <1>1, <1>2, <1>3, HandshakeInvariant, PTL DEF HandshakeSpec

(***************************************************************************)
(* Only a server that refuses the handshake can end the process.           *)
(***************************************************************************)
THEOREM PanicOnlyAfterRefusalHolds ==
    ASSUME SoleSession, ~CanClose
    PROVE  HandshakeSpec => []PanicOnlyAfterRefusal
  <1>1. SoleHandshakeInv => PanicOnlyAfterRefusal
    BY DEF SoleHandshakeInv
  <1>2. QED
    BY <1>1, SoleHandshakeInvariant, PTL

(***************************************************************************)
(* Targets are created only after the server has acknowledged the          *)
(* registration on the connection the session registered on.               *)
(***************************************************************************)
THEOREM TargetsOnlyAfterAckHolds ==
    ASSUME SoleSession, ~CanClose
    PROVE  HandshakeSpec => []TargetsOnlyAfterAck
  <1>1. SoleHandshakeInv => TargetsOnlyAfterAck
    <2>1. SUFFICES ASSUME SoleHandshakeInv, NEW s \in Sessions,
                          svc[s] = "adding" \/ added[s] # {}
                   PROVE  protoOn[s] \in Sessions /\ "ack" \in granted[protoOn[s]]
      BY DEF TargetsOnlyAfterAck
    <2>2. proto[s] = "registered"
      BY <2>1 DEF SoleHandshakeInv, HandshakeInv, InvProgress
    <2>3. protoOn[s] \in Sessions
      BY <2>1, <2>2, StartedOnTransport DEF SoleHandshakeInv, HandshakeInv
    <2>4. Alone(s)
      BY <2>1, <2>2, <2>3 DEF SoleHandshakeInv, Alone, SoleSession
    <2>5. QED
      BY <2>1, <2>2, <2>3, <2>4 DEF SoleHandshakeInv, HandshakeInv, InvVerdict, OwnVerdict
  <1>2. QED
    BY <1>1, SoleHandshakeInvariant, PTL
=============================================================================
