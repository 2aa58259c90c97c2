----------------------- MODULE ProtobufEndpointProofs -----------------------
(***************************************************************************)
(* Lemmas about the steps of Transport and ProtobufEndpoint, which the     *)
(* proofs about the modules built on them share.                           *)
(***************************************************************************)
EXTENDS ProtobufEndpoint, SequenceTheorems, TLAPS

\* The empty frame is a frame.
LEMMA FrameFacts == NilFrame \in Frame
  BY DEF NilFrame, Plain, Frame, FrameKinds

(***************************************************************************)
(* A step of a transport or of an endpoint keeps their variables in type.  *)
(***************************************************************************)
LEMMA TransportStepType ==
    ASSUME TransportTypeOK, NEW t \in Sessions, TransportStep(t)
    PROVE  TransportTypeOK'
  <1> USE DEF TransportTypeOK
  <1>1. CASE RxReceive(t)
    <2>1. Head(inbound[t]) \in Frame /\ Tail(inbound[t]) \in Seq(Frame)
      BY <1>1, HeadTailProperties DEF RxReceive
    <2>2. QED
      BY <1>1, <2>1 DEF RxReceive
  <1>2. CASE RxFail(t)
    BY <1>2 DEF RxFail
  <1>3. CASE RxSendsOnClosed(t)
    BY <1>3 DEF RxSendsOnClosed
  <1>4. QED
    BY <1>1, <1>2, <1>3 DEF TransportStep

\* A single-message endpoint keeps its variables in type, whatever frame it takes.
LEMMA SingleMessageType ==
    ASSUME EndpointTypeOK, NEW s \in Sessions, NEW f \in Frame, SingleMessage(s, f)
    PROVE  /\ ep' \in [Sessions -> {"off", "waiting", "offering", "done"}]
           /\ parsed' \in [Sessions -> Frame]
  <1> DEFINE m == CASE ~Parses(epName[s], f.kind) -> NilFrame
                    [] epName[s] = "Registration" /\ Parses(epName[s], f.kind) -> Plain("ack")
                    [] OTHER -> f
  <1>1. Plain("ack") \in Frame
    BY DEF Plain, Frame, FrameKinds
  <1>2. m \in Frame
    BY <1>1, FrameFacts
  <1>3. parsed' = [parsed EXCEPT ![s] = m]
    BY DEF SingleMessage
  <1> HIDE DEF m
  <1>4. QED
    BY <1>2, <1>3 DEF SingleMessage, EndpointTypeOK

\* A step of an endpoint keeps its variables and those of its transport in type.
LEMMA EndpointStepType ==
    ASSUME TransportTypeOK, EndpointTypeOK, NEW s \in Sessions, EndpointStep(s)
    PROVE  TransportTypeOK' /\ EndpointTypeOK'
  <1>1. CASE EpReceive(s)
    <2>1. PICK t \in Sessions :
            Delivers(t) /\ (SingleMessage(s, rxData[t]) \/ NextMessage(s, rxData[t]))
      BY <1>1 DEF EpReceive
    <2>2. TransportTypeOK'
      BY <2>1, FrameFacts DEF Delivers, TransportTypeOK
    <2>3. rxData[t] \in Frame
      BY DEF TransportTypeOK
    <2>4. CASE SingleMessage(s, rxData[t])
      BY <1>1, <2>2, <2>3, <2>4, SingleMessageType DEF EpReceive, EndpointTypeOK
    <2>5. CASE NextMessage(s, rxData[t])
      BY <1>1, <2>2, <2>3, <2>5 DEF EpReceive, NextMessage, EndpointTypeOK
    <2>6. QED
      BY <2>1, <2>4, <2>5
  <1>2. CASE EpFindsClosed(s)
    <2>1. TransportTypeOK'
      BY <1>2 DEF EpFindsClosed, transportVars, TransportTypeOK
    <2>2. CASE epName[s] = "Request"
      BY <1>2, <2>1, <2>2 DEF EpFindsClosed, EndpointTypeOK
    <2>3. CASE epName[s] # "Request"
      BY <1>2, <2>1, <2>3, SingleMessageType, FrameFacts DEF EpFindsClosed, EndpointTypeOK
    <2>4. QED
      BY <2>2, <2>3
  <1>3. QED
    BY <1>1, <1>2 DEF EndpointStep

\* Handing a parsed message to the layer above keeps the endpoint in type.
LEMMA EpDeliversType ==
    ASSUME EndpointTypeOK, NEW s \in Sessions, EpDelivers(s)
    PROVE  EndpointTypeOK'
  BY FrameFacts DEF EpDelivers, EndpointTypeOK

\* Closing a transport keeps the variables of all transports in type.
LEMMA CloseType ==
    ASSUME TransportTypeOK, NEW t \in Sessions, CloseTransportPoint(t)
    PROVE  TransportTypeOK'
  <1>1. CASE inputClosed[t]
    BY <1>1 DEF CloseTransportPoint, TransportTypeOK
  <1>2. CASE ~inputClosed[t]
    BY <1>2 DEF CloseTransportPoint, TransportTypeOK
  <1>3. QED
    BY <1>1, <1>2
=============================================================================
