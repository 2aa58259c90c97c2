----------------------------- MODULE Handshake -----------------------------
(***************************************************************************)
(* How a session is established: TAPService.ConnectToTurbo                 *)
(* (pkg/service/tap_service.go), InitMediationContainer                    *)
(* (mediation_container.go), remoteMediationClient.Init and Stop           *)
(* (remote_mediation_client.go) and SdkClientProtocol                      *)
(* (sdk_client_protocol.go).                                               *)
(*                                                                         *)
(* Three goroutines of a session take part: svc, the caller of             *)
(* ConnectToTurbo; init, which dials and waits for the protocol; and       *)
(* proto, which negotiates the version and registers the probes.  All      *)
(* sessions of the process share one remoteMediationClient, and so its     *)
(* field Transport.                                                        *)
(***************************************************************************)
EXTENDS ProtobufEndpoint

CONSTANTS
    Targets,        \* the targets of the service's probe
    LoadsFirst,     \* the application loads its probe before it connects
    CanRefuse,      \* the server may answer a step of the handshake with a refusal
    CanFailDial,    \* the configuration or the dial may fail
    CanLose,        \* an open connection may be lost
    CanClose        \* the application may close the container

ASSUME HandshakeAssumption ==
    {LoadsFirst, CanRefuse, CanFailDial, CanLose, CanClose} \subseteq BOOLEAN

VARIABLES
    probesLoaded,   \* the container's map allProbes is not empty
    svc,            \* the goroutine that called ConnectToTurbo
    todo,           \* the targets it has still to add
    added,          \* the targets the server's REST interface has accepted
    status,         \* the value buffered in the channel IsRegistered
    statusClosed,   \* the channel IsRegistered has been closed
    init,           \* the goroutine of InitMediationContainer
    proto,          \* the goroutine of handleClientProtocol
    protoOn,        \* the transport it was started with
    clientTransport,\* the field Transport of the client
    outbound,       \* what the server has still to answer, per connection
    granted         \* the answers the server gave, per connection

serviceVars == <<svc, todo, added>>
statusVars  == <<status, statusClosed>>
serverVars  == <<outbound, granted>>
handshakeVars == <<transportVars, endpointVars, probesLoaded, serviceVars, statusVars, init,
                   proto, protoOn, clientTransport, serverVars>>

ClientMessages == {"NegotiationRequest", "ContainerInfo"}

HandshakeTypeOK ==
    /\ TransportTypeOK
    /\ EndpointTypeOK
    /\ probesLoaded \in BOOLEAN
    /\ svc \in [Sessions -> {"idle", "waiting", "adding", "closing", "returned"}]
    /\ todo \in [Sessions -> SUBSET Targets]
    /\ added \in [Sessions -> SUBSET Targets]
    /\ status \in [Sessions -> {"empty", "true", "false"}]
    /\ statusClosed \in [Sessions -> BOOLEAN]
    /\ init \in [Sessions -> {"off", "container", "dialed", "awaiting", "failing", "closing",
                              "serve", "serving", "done"}]
    /\ proto \in [Sessions -> {"off", "negotiate", "negotiating", "register",
                               "registering", "registered", "failed"}]
    /\ protoOn \in [Sessions -> Sessions \cup {NoSession}]
    /\ clientTransport \in Sessions \cup {NoSession}
    /\ outbound \in [Sessions -> Seq(ClientMessages)]
    /\ granted \in [Sessions -> SUBSET {"accepted", "rejected", "ack", "garbage"}]

HandshakeInit ==
    /\ TransportInit
    /\ EndpointInit
    /\ probesLoaded = FALSE
    /\ svc = [s \in Sessions |-> "idle"]
    /\ todo = [s \in Sessions |-> {}]
    /\ added = [s \in Sessions |-> {}]
    /\ status = [s \in Sessions |-> "empty"]
    /\ statusClosed = [s \in Sessions |-> FALSE]
    /\ init = [s \in Sessions |-> "off"]
    /\ proto = [s \in Sessions |-> "off"]
    /\ protoOn = [s \in Sessions |-> NoSession]
    /\ clientTransport = NoSession
    /\ outbound = [s \in Sessions |-> <<>>]
    /\ granted = [s \in Sessions |-> {}]

-----------------------------------------------------------------------------
(* The caller of ConnectToTurbo. *)

\* The application registers the probe of its service with the container.
LoadProbe ==
    /\ Running
    /\ ~probesLoaded
    /\ probesLoaded' = TRUE
    /\ UNCHANGED <<transportVars, endpointVars, serviceVars, statusVars, init,
                   proto, protoOn, clientTransport, serverVars>>

\* The application calls ConnectToTurbo; the container is started beside it.
ConnectToTurbo(s) ==
    /\ Running
    /\ svc[s] = "idle"
    /\ LoadsFirst => probesLoaded
    /\ svc' = [svc EXCEPT ![s] = "waiting"]
    /\ init' = [init EXCEPT ![s] = "container"]
    /\ UNCHANGED <<probesLoaded, transportVars, endpointVars, todo, added,
                   statusVars, proto, protoOn, clientTransport, serverVars>>

\* A slip: the targets are added whatever the status.
StatusIgnored(s) ==
    /\ Running
    /\ svc[s] = "waiting"
    /\ status[s] # "empty"
    /\ status' = [status EXCEPT ![s] = "empty"]
    /\ svc' = [svc EXCEPT ![s] = "adding"]
    /\ todo' = [todo EXCEPT ![s] = Targets]
    /\ UNCHANGED <<probesLoaded, transportVars, endpointVars, added,
                   statusClosed, init, proto, protoOn, clientTransport,
                   serverVars>>

\* createTurboTargets receives the registration status.
StatusReceived(s) ==
    /\ Running
    /\ svc[s] = "waiting"
    /\ status[s] # "empty"
    /\ status' = [status EXCEPT ![s] = "empty"]
    /\ IF status[s] = "true"
       THEN /\ svc' = [svc EXCEPT ![s] = "adding"]
            /\ todo' = [todo EXCEPT ![s] = Targets]
       ELSE /\ svc' = [svc EXCEPT ![s] = "closing"]
            /\ UNCHANGED todo
    /\ UNCHANGED <<probesLoaded, transportVars, endpointVars, added,
                   statusClosed, init, proto, protoOn, clientTransport,
                   serverVars>>

\* A slip: the first target that cannot be added ends the loop.
AddsTargetOrGivesUp(s) ==
    /\ Running
    /\ svc[s] = "adding"
    /\ \E x \in todo[s] :
         \/ /\ todo' = [todo EXCEPT ![s] = @ \ {x}]
            /\ added' = [added EXCEPT ![s] = @ \cup {x}]
            /\ UNCHANGED svc
         \/ /\ svc' = [svc EXCEPT ![s] = "closing"]
            /\ UNCHANGED <<todo, added>>
    /\ UNCHANGED <<probesLoaded, transportVars, endpointVars, statusVars, init,
                   proto, protoOn, clientTransport, serverVars>>

\* AddTarget succeeds or fails; either way the loop goes on to the next target.
AddsTarget(s) ==
    /\ Running
    /\ svc[s] = "adding"
    /\ \E x \in todo[s] :
         /\ todo' = [todo EXCEPT ![s] = @ \ {x}]
         /\ \/ added' = [added EXCEPT ![s] = @ \cup {x}]
            \/ UNCHANGED added
    /\ UNCHANGED <<probesLoaded, transportVars, endpointVars, svc, statusVars,
                   init, proto, protoOn, clientTransport, serverVars>>

TargetsDone(s) ==
    /\ Running
    /\ svc[s] = "adding"
    /\ todo[s] = {}
    /\ svc' = [svc EXCEPT ![s] = "closing"]
    /\ UNCHANGED <<probesLoaded, transportVars, endpointVars, todo, added,
                   statusVars, init, proto, protoOn, clientTransport,
                   serverVars>>

\* close(IsRegistered): a second close panics.
ClosesStatus(s) ==
    /\ statusClosed' = [statusClosed EXCEPT ![s] = TRUE]
    /\ crash' = IF statusClosed[s] THEN "close of closed status" ELSE crash

\* ConnectToTurbo returns, after its deferred close of the channel.
ConnectReturns(s) ==
    /\ Running
    /\ svc[s] = "closing"
    /\ ClosesStatus(s)
    /\ svc' = [svc EXCEPT ![s] = "returned"]
    /\ UNCHANGED <<probesLoaded, ws, inbound, rx, rxData, inputClosed,
                   closeReceived, endpointVars, todo, added, status, init, proto,
                   protoOn, clientTransport, serverVars>>

-----------------------------------------------------------------------------
(* remoteMediationClient.Init. *)

\* Stop closes whatever transport the field holds at that moment.
Stop ==
    IF clientTransport \in Sessions
    THEN CloseTransportPoint(clientTransport)
    ELSE UNCHANGED transportVars

\* A container without probes gives up and sends no status at all.
NoProbesToRegister(s) ==
    /\ Running
    /\ init[s] = "container"
    /\ ~probesLoaded
    /\ init' = [init EXCEPT ![s] = "done"]
    /\ UNCHANGED <<probesLoaded, transportVars, endpointVars, serviceVars,
                   statusVars, proto, protoOn, clientTransport, serverVars>>

\* A slip: Init's deferred close of the status channel covers this path, too.
DialFailsDeferred(s) ==
    /\ Running
    /\ init[s] = "container"
    /\ probesLoaded
    /\ CanFailDial
    /\ Stop
    /\ status' = [status EXCEPT ![s] = "false"]
    /\ init' = [init EXCEPT ![s] = "closing"]
    /\ UNCHANGED <<probesLoaded, endpointVars, serviceVars, statusClosed, proto,
                   protoOn, clientTransport, serverVars>>

\* The configuration or the dial is in error: Stop, send false, return.
DialFails(s) ==
    /\ Running
    /\ init[s] = "container"
    /\ probesLoaded
    /\ CanFailDial
    /\ Stop
    /\ status' = [status EXCEPT ![s] = "false"]
    /\ init' = [init EXCEPT ![s] = "done"]
    /\ UNCHANGED <<probesLoaded, endpointVars, serviceVars, statusClosed, proto,
                   protoOn, clientTransport, serverVars>>

\* The dial succeeds and the new transport becomes the client's.
DialSucceeds(s) ==
    /\ Running
    /\ init[s] = "container"
    /\ probesLoaded
    /\ Connect(s)
    /\ clientTransport' = s
    /\ init' = [init EXCEPT ![s] = "dialed"]
    /\ UNCHANGED <<probesLoaded, endpointVars, serviceVars, statusVars, proto,
                   protoOn, serverVars>>

\* "go handleClientProtocol" reads the field again.
StartProtocol(s) ==
    /\ Running
    /\ init[s] = "dialed"
    /\ init' = [init EXCEPT ![s] = "awaiting"]
    /\ proto' = [proto EXCEPT ![s] = "negotiate"]
    /\ protoOn' = [protoOn EXCEPT ![s] = clientTransport]
    /\ UNCHANGED <<probesLoaded, transportVars, endpointVars, serviceVars,
                   statusVars, clientTransport, serverVars>>

\* Init receives the verdict of the protocol and passes it on to the service.
SendStatus(s) ==
    /\ Running
    /\ init[s] = "awaiting"
    /\ proto[s] \in {"registered", "failed"}
    /\ IF proto[s] = "registered"
       THEN /\ status' = [status EXCEPT ![s] = "true"]
            /\ init' = [init EXCEPT ![s] = "serve"]
       ELSE /\ status' = [status EXCEPT ![s] = "false"]
            /\ init' = [init EXCEPT ![s] = "failing"]
    /\ UNCHANGED <<probesLoaded, transportVars, endpointVars, serviceVars,
                   statusClosed, proto, protoOn, clientTransport, serverVars>>

\* After a failed handshake Init stops the client ...
StopAfterFailure(s) ==
    /\ Running
    /\ init[s] = "failing"
    /\ Stop
    /\ init' = [init EXCEPT ![s] = "closing"]
    /\ UNCHANGED <<probesLoaded, endpointVars, serviceVars, statusVars, proto,
                   protoOn, clientTransport, serverVars>>

\* ... and returns, which runs its own deferred close of the status channel.
InitReturns(s) ==
    /\ Running
    /\ init[s] = "closing"
    /\ ClosesStatus(s)
    /\ init' = [init EXCEPT ![s] = "done"]
    /\ UNCHANGED <<probesLoaded, ws, inbound, rx, rxData, inputClosed,
                   closeReceived, endpointVars, serviceVars, status, proto,
                   protoOn, clientTransport, serverVars>>

\* A slip: the status channel is closed before the session starts to serve.
StartServingClosing(s) ==
    /\ Running
    /\ init[s] = "serve"
    /\ init' = [init EXCEPT ![s] = "serving"]
    /\ ClosesStatus(s)
    /\ CreateEndpoint(s, "Request", clientTransport)
    /\ UNCHANGED <<probesLoaded, ws, inbound, rx, rxData, inputClosed,
                   closeReceived, serviceVars, status, proto, protoOn,
                   clientTransport, serverVars>>

\* HandleServerMessages creates its endpoint on the transport in the field.
StartServing(s) ==
    /\ Running
    /\ init[s] = "serve"
    /\ init' = [init EXCEPT ![s] = "serving"]
    /\ CreateEndpoint(s, "Request", clientTransport)
    /\ UNCHANGED <<probesLoaded, transportVars, serviceVars, statusVars, proto,
                   protoOn, clientTransport, serverVars>>

\* A server message of no known type, here an answer another session waits for.
DropsUnknown(s) ==
    /\ Running
    /\ init[s] = "serving"
    /\ EpDelivers(s)
    /\ UNCHANGED <<probesLoaded, transportVars, serviceVars, statusVars, init,
                   proto, protoOn, clientTransport, serverVars>>

-----------------------------------------------------------------------------
(* SdkClientProtocol.handleClientProtocol. *)

\* A protocol message goes out on the transport, or is silently dropped.
SendsToServer(t, m) ==
    outbound' = IF Transmits(t) THEN [outbound EXCEPT ![t] = Append(@, m)] ELSE outbound

NegotiateVersion(s) ==
    /\ Running
    /\ proto[s] = "negotiate"
    /\ CreateEndpoint(s, "Negotiation", protoOn[s])
    /\ SendsToServer(protoOn[s], "NegotiationRequest")
    /\ proto' = [proto EXCEPT ![s] = "negotiating"]
    /\ UNCHANGED <<probesLoaded, transportVars, serviceVars, statusVars, init,
                   protoOn, clientTransport, granted>>

\* A slip: any answer that parses counts as an acceptance.
NegotiationAnsweredAnyhow(s) ==
    /\ Running
    /\ proto[s] = "negotiating"
    /\ EpDelivers(s)
    /\ proto' = [proto EXCEPT ![s] = IF parsed[s] # NilFrame THEN "register" ELSE "failed"]
    /\ UNCHANGED <<probesLoaded, transportVars, serviceVars, statusVars, init,
                   protoOn, clientTransport, serverVars>>

\* A slip: a refusal ends the protocol without a word to Init.
NegotiationAnsweredSilently(s) ==
    /\ Running
    /\ proto[s] = "negotiating"
    /\ EpDelivers(s)
    /\ proto' = [proto EXCEPT ![s] = IF parsed[s].kind = "accepted" THEN "register" ELSE "off"]
    /\ UNCHANGED <<probesLoaded, transportVars, serviceVars, statusVars, init,
                   protoOn, clientTransport, serverVars>>

NegotiationAnswered(s) ==
    /\ Running
    /\ proto[s] = "negotiating"
    /\ EpDelivers(s)
    /\ proto' = [proto EXCEPT ![s] =
                   IF parsed[s].kind = "accepted" THEN "register" ELSE "failed"]
    /\ UNCHANGED <<probesLoaded, transportVars, serviceVars, statusVars, init,
                   protoOn, clientTransport, serverVars>>

HandleRegistration(s) ==
    /\ Running
    /\ proto[s] = "register"
    /\ CreateEndpoint(s, "Registration", protoOn[s])
    /\ SendsToServer(protoOn[s], "ContainerInfo")
    /\ proto' = [proto EXCEPT ![s] = "registering"]
    /\ UNCHANGED <<probesLoaded, transportVars, serviceVars, statusVars, init,
                   protoOn, clientTransport, granted>>

\* A slip: the answer to the registration is not looked at.
RegistrationAnsweredAnyhow(s) ==
    /\ Running
    /\ proto[s] = "registering"
    /\ EpDelivers(s)
    /\ proto' = [proto EXCEPT ![s] = "registered"]
    /\ UNCHANGED <<probesLoaded, transportVars, serviceVars, statusVars, init,
                   protoOn, clientTransport, serverVars>>

RegistrationAnswered(s) ==
    /\ Running
    /\ proto[s] = "registering"
    /\ EpDelivers(s)
    /\ proto' = [proto EXCEPT ![s] =
                   IF parsed[s].kind = "ack" THEN "registered" ELSE "failed"]
    /\ UNCHANGED <<probesLoaded, transportVars, serviceVars, statusVars, init,
                   protoOn, clientTransport, serverVars>>

-----------------------------------------------------------------------------
(* The environment: the server, the network, the application. *)

\* External: what the server may answer to a protocol message.
Answers(m) ==
    CASE m = "NegotiationRequest" ->
            {"accepted"} \cup (IF CanRefuse THEN {"rejected", "garbage"} ELSE {})
      [] m = "ContainerInfo" ->
            {"ack"} \cup (IF CanRefuse THEN {"garbage"} ELSE {})

\* External: the server answers the next protocol message of a connection.
ServerAnswers(t) ==
    /\ Running
    /\ outbound[t] # <<>>
    /\ \E k \in Answers(Head(outbound[t])) :
         /\ ServerPuts(t, Plain(k))
         /\ granted' = [granted EXCEPT ![t] = @ \cup {k}]
    /\ outbound' = [outbound EXCEPT ![t] = Tail(@)]
    /\ UNCHANGED <<probesLoaded, endpointVars, serviceVars, statusVars, init,
                   proto, protoOn, clientTransport>>

\* External: a connection is lost.
LosesConnection(t) ==
    /\ Running
    /\ CanLose
    /\ PeerLost(t)
    /\ UNCHANGED <<probesLoaded, endpointVars, serviceVars, statusVars, init,
                   proto, protoOn, clientTransport, serverVars>>

\* The application calls Close of the mediation container.
CloseContainer ==
    /\ Running
    /\ CanClose
    /\ clientTransport \in Sessions
    /\ Stop
    /\ UNCHANGED <<probesLoaded, endpointVars, serviceVars, statusVars, init,
                   proto, protoOn, clientTransport, serverVars>>

-----------------------------------------------------------------------------
Transports(s) ==
    /\ Running
    /\ TransportStep(s)
    /\ UNCHANGED <<probesLoaded, endpointVars, serviceVars, statusVars, init,
                   proto, protoOn, clientTransport, serverVars>>

Endpoints(s) ==
    /\ Running
    /\ EndpointStep(s)
    /\ UNCHANGED <<probesLoaded, serviceVars, statusVars, init, proto, protoOn,
                   clientTransport, serverVars>>

ServiceStep(s) ==
    StatusReceived(s) \/ AddsTarget(s) \/ TargetsDone(s) \/ ConnectReturns(s)

InitStep(s) ==
    \/ NoProbesToRegister(s) \/ DialFails(s) \/ DialSucceeds(s) \/ StartProtocol(s)
    \/ SendStatus(s) \/ StopAfterFailure(s) \/ InitReturns(s)
    \/ StartServing(s) \/ DropsUnknown(s)

ProtoStep(s) ==
    \/ NegotiateVersion(s) \/ NegotiationAnswered(s)
    \/ HandleRegistration(s) \/ RegistrationAnswered(s)

SessionStep(s) ==
    \/ ConnectToTurbo(s) \/ ServiceStep(s) \/ InitStep(s) \/ ProtoStep(s)
    \/ Transports(s) \/ Endpoints(s) \/ ServerAnswers(s) \/ LosesConnection(s)

HandshakeNext == (\E s \in Sessions : SessionStep(s)) \/ LoadProbe \/ CloseContainer

HandshakeSpec == HandshakeInit /\ [][HandshakeNext]_handshakeVars

(***************************************************************************)
(* Every goroutine that can run does run, the server answers a message     *)
(* that reached it, and a dial ends one way or the other.  The             *)
(* application need not connect or close, and nothing need be lost.        *)
(***************************************************************************)
FairHandshakeSpec ==
    /\ HandshakeSpec
    /\ \A s \in Sessions :
         /\ WF_handshakeVars(ServiceStep(s))
         /\ WF_handshakeVars(InitStep(s))
         /\ WF_handshakeVars(ProtoStep(s))
         /\ WF_handshakeVars(Transports(s))
         /\ WF_handshakeVars(Endpoints(s))
         /\ WF_handshakeVars(ServerAnswers(s))

-----------------------------------------------------------------------------
(* Properties. *)

(***************************************************************************)
(* Targets are created only after the server has acknowledged the          *)
(* registration on the connection the session registered on ("Targets are  *)
(* created only after the service is notified of successful registration   *)
(* with the server", tap_service.go:39).                                   *)
(***************************************************************************)
TargetsOnlyAfterAck ==
    \A s \in Sessions :
        svc[s] = "adding" \/ added[s] # {} =>
            protoOn[s] \in Sessions /\ "ack" \in granted[protoOn[s]]

(***************************************************************************)
(* What can make a session create targets without an Ack, whatever the     *)
(* application does: that its transport was closed under it, or that       *)
(* another session runs the handshake on the same transport.               *)
(***************************************************************************)
TargetsNeedAckOrClose ==
    \A s \in Sessions :
        svc[s] = "adding" \/ added[s] # {} =>
            /\ protoOn[s] \in Sessions
            /\ \/ "ack" \in granted[protoOn[s]]
               \/ inputClosed[protoOn[s]]
               \/ \E r \in Sessions \ {s} : protoOn[r] = protoOn[s]

(***************************************************************************)
(* The probes' ContainerInfo goes out only on a connection whose server    *)
(* has accepted the protocol version: neither a refusal, nor bytes that    *)
(* do not parse, nor a closed channel counts as an acceptance              *)
(* (sdk_client_protocol.go:26-30, 70-82).                                  *)
(***************************************************************************)
RegistersOnlyIfAccepted ==
    \A s \in Sessions :
        proto[s] \in {"register", "registering", "registered"} =>
            protoOn[s] \in Sessions /\ "accepted" \in granted[protoOn[s]]

(***************************************************************************)
(* The process does not panic while it connects: a handshake that fails is *)
(* reported and ConnectToTurbo returns (tap_service.go:44-46).             *)
(***************************************************************************)
NoPanic == crash = "none"

(***************************************************************************)
(* With one session and no Close, only a server that refuses the handshake *)
(* can end the process: a lost connection or a failed dial cannot          *)
(* (remote_mediation_client.go:55-72, 92-96).                              *)
(***************************************************************************)
PanicOnlyAfterRefusal ==
    crash # "none" =>
        \E s \in Sessions : granted[s] \cap {"rejected", "garbage"} # {}

(***************************************************************************)
(* Init's deferred close of the status channel cannot meet a session that  *)
(* serves: a serving session has registered, and its status channel has    *)
(* been closed at most once, by ConnectToTurbo (tap_service.go:27,         *)
(* remote_mediation_client.go:88-101).                                     *)
(***************************************************************************)
ServingKeepsStatusChannel ==
    \A s \in Sessions :
        init[s] = "serving" =>
            /\ proto[s] = "registered"
            /\ statusClosed[s] => svc[s] = "returned"

\* The container found no probe and ended without sending a status.
GaveUp(s) == init[s] = "done" /\ svc[s] = "waiting" /\ status[s] = "empty"

(***************************************************************************)
(* ConnectToTurbo returns if the connection of the session stays up and    *)
(* the container had a probe to register: a server that answers is always  *)
(* heard (tap_service.go:43, remote_mediation_client.go:84).               *)
(***************************************************************************)
ConnectReturnsUnlessLost ==
    \A s \in Sessions :
        svc[s] = "waiting" ~>
            \/ svc[s] = "returned" \/ crash # "none"
            \/ ws[s] \in {"broken", "closed"}
            \/ GaveUp(s)

(***************************************************************************)
(* A session the server acknowledges tries every target, even when adding  *)
(* one of them fails (tap_service.go:50-58), and comes to serve requests,  *)
(* if its connection stays up.                                             *)
(***************************************************************************)
AcknowledgedSessionServes ==
    \A s \in Sessions :
        "ack" \in granted[s] ~>
            \/ init[s] = "serving" /\ svc[s] = "returned" /\ todo[s] = {}
            \/ ws[s] \in {"broken", "closed"}
-----------------------------------------------------------------------------
(***************************************************************************)
(* The inductive invariant the theorems of HandshakeProofs rest on.        *)
(* InvProgress relates the three goroutines of a session; InvEndpoint says *)
(* which endpoint the protocol waits on; InvGranted, that what is under    *)
(* way was said by the server.  The Ack is the hard part, for a            *)
(* Registration endpoint takes anything but garbage for one: InvUnused and *)
(* InvAlone count the frames of a transport, so that a session that is     *)
(* alone on an open one finds none but the answer to what it asked.        *)
(***************************************************************************)
InvField ==
    \A s \in Sessions :
        /\ init[s] \in {"off", "container"} => clientTransport # s
        /\ init[s] \notin {"off", "container", "done"} => clientTransport \in Sessions

InvProgress ==
    \A s \in Sessions :
        /\ svc[s] = "idle" => init[s] = "off"
        /\ init[s] \in {"off", "container", "dialed"} => proto[s] = "off"
        /\ init[s] \in {"serve", "serving"} => proto[s] = "registered"
        /\ init[s] \in {"failing", "closing"} => proto[s] = "failed"
        /\ proto[s] = "off" <=> protoOn[s] = NoSession
        /\ status[s] = "true" \/ svc[s] = "adding" \/ added[s] # {} => proto[s] = "registered"
        /\ statusClosed[s] => svc[s] = "returned" \/ proto[s] = "failed"

\* The protocol waits for an answer ...
Waits(s) == proto[s] \in {"negotiating", "registering"}

\* ... which the endpoint has not taken yet, or offers.
Asking(s) == Waits(s) /\ ep[s] = "waiting"
Told(s)   == Waits(s) /\ ep[s] = "offering"

\* The endpoint the protocol waits on is the one it created.
OwnEndpoint(s) ==
    Waits(s) =>
        /\ ep[s] \in {"waiting", "offering"}
        /\ epOn[s] = protoOn[s]
        /\ epName[s] = IF proto[s] = "negotiating" THEN "Negotiation" ELSE "Registration"

InvEndpoint == \A s \in Sessions : OwnEndpoint(s)

\* What is under way to the client on transport t was said by the server.
Said(t) ==
    /\ \A i \in 1 .. Len(inbound[t]) : inbound[t][i].kind \in granted[t]
    /\ rx[t] = "delivering" => rxData[t].kind \in granted[t]

\* An acceptance the endpoint offers was said on the protocol's transport.
AcceptanceSaid(s) ==
    Told(s) /\ proto[s] = "negotiating" /\ parsed[s].kind = "accepted" =>
        "accepted" \in granted[protoOn[s]]

InvGranted ==
    /\ \A t \in Sessions : Said(t)
    /\ \A s \in Sessions : AcceptanceSaid(s)

\* How much is under way to and from the server on transport t.
Pending(t) ==
    Len(outbound[t]) + Len(inbound[t]) + (IF rx[t] = "delivering" THEN 1 ELSE 0)

InvUnused ==
    \A t \in Sessions : (\A s \in Sessions : protoOn[s] # t) => Pending(t) = 0

\* Session s has its open transport for itself.
Alone(s) ==
    /\ protoOn[s] \in Sessions
    /\ ~inputClosed[protoOn[s]]
    /\ \A r \in Sessions \ {s} : protoOn[r] # protoOn[s]

\* All that is under way on transport t is the message m or an answer to it.
Awaited(t, m) ==
    /\ \A i \in 1 .. Len(outbound[t]) : outbound[t][i] = m
    /\ \A i \in 1 .. Len(inbound[t]) : inbound[t][i].kind \in Answers(m)
    /\ rx[t] = "delivering" => rxData[t].kind \in Answers(m)

\* Nothing is under way for session s but the one answer it waits for.
OwnAnswer(s) ==
    /\ Pending(protoOn[s]) <= IF Asking(s) THEN 1 ELSE 0
    /\ proto[s] = "negotiating" => Awaited(protoOn[s], "NegotiationRequest")
    /\ proto[s] = "registering" => Awaited(protoOn[s], "ContainerInfo")

InvAlone == \A s \in Sessions : Alone(s) => OwnAnswer(s)

\* The server has turned down the handshake on transport t.
Refused(t) == granted[t] \cap {"rejected", "garbage"} # {}

\* The verdict of session s, and the answer it follows from, are the server's.
OwnVerdict(s) ==
    /\ Told(s) /\ proto[s] = "negotiating" /\ parsed[s].kind # "accepted" =>
         Refused(protoOn[s])
    /\ Told(s) /\ proto[s] = "registering" =>
         IF parsed[s].kind = "ack" THEN "ack" \in granted[protoOn[s]]
                                   ELSE Refused(protoOn[s])
    /\ proto[s] = "registered" => "ack" \in granted[protoOn[s]]
    /\ proto[s] = "failed" => Refused(protoOn[s])

InvVerdict == \A s \in Sessions : Alone(s) => OwnVerdict(s)

(***************************************************************************)
(* Everything above together, for any number of sessions that overwrite    *)
(* each other's transport: what a session can conclude from the answers it *)
(* gets (client_protobuf_endpoint.go:88-157, sdk_client_protocol.go:44-126,*)
(* remote_mediation_client.go:63-101).                                     *)
(***************************************************************************)
HandshakeInv ==
    /\ HandshakeTypeOK
    /\ InvField /\ InvProgress /\ InvEndpoint /\ InvGranted
    /\ InvUnused /\ InvAlone /\ InvVerdict
    /\ RegistersOnlyIfAccepted

(***************************************************************************)
(* What a sole session whose container is not closed knows besides: its    *)
(* transport is closed only after a failed handshake, the handshake fails  *)
(* only by a refusal, and only then can the process end                    *)
(* (remote_mediation_client.go:69, 84-98, 104-109).                        *)
(***************************************************************************)
SoleHandshakeInv ==
    /\ HandshakeInv
    /\ \A s, t \in Sessions : inputClosed[t] => proto[s] = "failed"
    /\ \A s \in Sessions : proto[s] = "failed" => Refused(protoOn[s])
    /\ PanicOnlyAfterRefusal
=============================================================================
