-------------------------- MODULE RequestDispatch --------------------------
(***************************************************************************)
(* How a session that has registered serves the server's requests:         *)
(* HandleServerMessages, probeCallback and the request handlers of         *)
(* pkg/mediationcontainer/remote_mediation_client.go.                      *)
(*                                                                         *)
(* Every request that is dispatched gets a goroutine, the handler, and a   *)
(* discovery a second one that sends KeepAlives until the handler closes   *)
(* stopCh.  They hand their messages over the unbuffered channel           *)
(* probeResponseChan to probeCallback, which sends them to the server one  *)
(* at a time.  The channel belongs to the client: the callbacks of all     *)
(* sessions read from it, whichever session a request came from.           *)
(*                                                                         *)
(* A handler is known by the message id of its request.  The model starts  *)
(* where the sessions have completed their handshakes, each on the         *)
(* connection it dialled.                                                  *)
(***************************************************************************)
EXTENDS ProtobufEndpoint

CONSTANTS
    RegisteredProbes,   \* the probe types LoadProbe has put in allProbes
    HangingProbes,      \* those whose calls need not return
    ServerFrames,       \* the frames the server may send, at most one for an id
    Current,            \* the session whose transport the client's field holds
    CanLose,            \* an open connection may be lost
    CanClose            \* the application may close the container

ASSUME DispatchAssumption ==
    /\ RegisteredProbes \subseteq ProbeTypes
    /\ HangingProbes \subseteq RegisteredProbes
    /\ ServerFrames \subseteq [kind  : RequestKinds \cup {"garbage"},
                                id    : Requests,
                                probe : ProbeTypes]
    /\ Current \in Sessions
    /\ {CanLose, CanClose} \subseteq BOOLEAN

MessageKinds == {"keepalive", "progress", "result", "completion"}

\* The messages that end a request; KeepAlives and progress may be sent any number
\* of times and leave no trace in the history variables.
FinalKinds == {"result", "completion"}

\* A message for the server; ok says that Marshal accepts its payload.
Message == [id : Requests, kind : MessageKinds, ok : BOOLEAN]

NoMessage == [id |-> NoRequest, kind |-> "none", ok |-> FALSE]

VARIABLES
    asked,      \* the request the server sent under a message id, NilFrame before
    origin,     \* the connection it sent it on
    handler,    \* the handler goroutine of a request
    reply,      \* the probe returned a response to it, not nil
    keepAlive,  \* the keep-alive goroutine of a discovery
    callback,   \* the probeCallback goroutine of a session
    held,       \* the message it has received and not yet sent
    wire,       \* the final messages sent on a connection that was up (history)
    dropped     \* those that were dropped instead (history)

requestVars == <<asked, origin>>
handlerVars == <<handler, reply, keepAlive>>
callbackVars == <<callback, held>>
historyVars == <<wire, dropped>>
dispatchVars == <<transportVars, endpointVars, requestVars, handlerVars,
                  callbackVars, historyVars>>

DispatchTypeOK ==
    /\ TransportTypeOK
    /\ EndpointTypeOK
    /\ asked \in [Requests -> Frame]
    /\ origin \in [Requests -> Sessions \cup {NoSession}]
    /\ handler \in [Requests -> {"none", "lookup", "calling", "reporting",
                                 "respond", "complete", "cancel", "done"}]
    /\ reply \in [Requests -> BOOLEAN]
    /\ keepAlive \in [Requests -> {"none", "sending", "waiting", "stopped"}]
    /\ callback \in [Sessions -> {"idle", "busy"}]
    /\ held \in [Sessions -> Message \cup {NoMessage}]
    /\ wire \in [Requests -> SUBSET FinalKinds]
    /\ dropped \in [Requests -> SUBSET FinalKinds]

\* Every session is connected, registered and waiting for requests.
DispatchInit ==
    /\ ws = [t \in Sessions |-> "open"]
    /\ inbound = [t \in Sessions |-> <<>>]
    /\ rx = [t \in Sessions |-> "receiving"]
    /\ rxData = [t \in Sessions |-> NilFrame]
    /\ inputClosed = [t \in Sessions |-> FALSE]
    /\ closeReceived = [t \in Sessions |-> FALSE]
    /\ crash = "none"
    /\ ep = [s \in Sessions |-> "waiting"]
    /\ epName = [s \in Sessions |-> "Request"]
    /\ epOn = [s \in Sessions |-> s]
    /\ parsed = [s \in Sessions |-> NilFrame]
    /\ asked = [r \in Requests |-> NilFrame]
    /\ origin = [r \in Requests |-> NoSession]
    /\ handler = [r \in Requests |-> "none"]
    /\ reply = [r \in Requests |-> FALSE]
    /\ keepAlive = [r \in Requests |-> "none"]
    /\ callback = [s \in Sessions |-> "idle"]
    /\ held = [s \in Sessions |-> NoMessage]
    /\ wire = [r \in Requests |-> {}]
    /\ dropped = [r \in Requests |-> {}]

-----------------------------------------------------------------------------
(* HandleServerMessages: the dispatcher of a session. *)

\* MessageHandlers has no entry for a request of no known type.
DropsUnhandled(s) ==
    /\ Running
    /\ parsed[s].kind \in {"Unknown", "ack"}
    /\ EpDelivers(s)
    /\ UNCHANGED <<transportVars, requestVars, handlerVars, callbackVars,
                   historyVars>>

\* A slip: a request is handled only when no other one is being handled.
DispatchesInTurn(s) ==
    /\ Running
    /\ \A q \in Requests : handler[q] \in {"none", "done"}
    /\ EpDelivers(s)
    /\ \E r \in Requests :
         /\ parsed[s].id = r
         /\ parsed[s].kind \in RequestKinds \ {"Unknown"}
         /\ handler' = [handler EXCEPT ![r] = "lookup"]
    /\ UNCHANGED <<transportVars, requestVars, reply, keepAlive, callbackVars,
                   historyVars>>

\* Any other request gets a handler goroutine of its own.
Dispatches(s) ==
    /\ Running
    /\ EpDelivers(s)
    /\ \E r \in Requests :
         /\ parsed[s].id = r
         /\ parsed[s].kind \in RequestKinds \ {"Unknown"}
         /\ handler' = [handler EXCEPT ![r] = "lookup"]
    /\ UNCHANGED <<transportVars, requestVars, reply, keepAlive, callbackVars,
                   historyVars>>

-----------------------------------------------------------------------------
(* The handler of a request. *)

\* An interrupt is only logged; a request for an unknown probe gets no answer.
Abandons(r) ==
    /\ Running
    /\ handler[r] = "lookup"
    /\ asked[r].kind = "Interrupt" \/ asked[r].probe \notin RegisteredProbes
    /\ handler' = [handler EXCEPT ![r] = "done"]
    /\ UNCHANGED <<transportVars, endpointVars, requestVars, reply, keepAlive,
                   callbackVars, historyVars>>

\* A slip: every request is kept alive, not only a discovery.
CallsProbeAlive(r) ==
    /\ Running
    /\ handler[r] = "lookup"
    /\ asked[r].kind # "Interrupt"
    /\ asked[r].probe \in RegisteredProbes
    /\ handler' = [handler EXCEPT ![r] = "calling"]
    /\ keepAlive' = [keepAlive EXCEPT ![r] = "sending"]
    /\ UNCHANGED <<transportVars, endpointVars, requestVars, reply, callbackVars,
                   historyVars>>

\* The handler calls the probe; for a discovery it first starts the KeepAlives.
CallsProbe(r) ==
    /\ Running
    /\ handler[r] = "lookup"
    /\ asked[r].kind # "Interrupt"
    /\ asked[r].probe \in RegisteredProbes
    /\ handler' = [handler EXCEPT ![r] = "calling"]
    /\ keepAlive' = [keepAlive EXCEPT ![r] =
                       IF asked[r].kind = "Discovery" THEN "sending" ELSE @]
    /\ UNCHANGED <<transportVars, endpointVars, requestVars, reply, callbackVars,
                   historyVars>>

\* The action executor reports progress while it runs (UpdateProgress).
UpdatesProgress(r) ==
    /\ Running
    /\ handler[r] = "calling"
    /\ asked[r].kind = "Action"
    /\ handler' = [handler EXCEPT ![r] = "reporting"]
    /\ UNCHANGED <<transportVars, endpointVars, requestVars, reply, keepAlive,
                   callbackVars, historyVars>>

\* The probe returns a response, an error DTO among them, or nil.
ProbeReturns(r) ==
    /\ Running
    /\ handler[r] = "calling"
    /\ handler' = [handler EXCEPT ![r] = "respond"]
    /\ \E b \in BOOLEAN : reply' = [reply EXCEPT ![r] = b]
    /\ UNCHANGED <<transportVars, endpointVars, requestVars, keepAlive,
                   callbackVars, historyVars>>

\* Some idle callback takes the message a goroutine offers on probeResponseChan.
HandsOver(r, kind, marshals) ==
    \E s \in Sessions :
        /\ callback[s] = "idle"
        /\ callback' = [callback EXCEPT ![s] = "busy"]
        /\ held' = [held EXCEPT ![s] = [id |-> r, kind |-> kind, ok |-> marshals]]

HandsProgress(r) ==
    /\ Running
    /\ handler[r] = "reporting"
    /\ HandsOver(r, "progress", TRUE)
    /\ handler' = [handler EXCEPT ![r] = "calling"]
    /\ UNCHANGED <<transportVars, endpointVars, requestVars, reply, keepAlive,
                   historyVars>>

\* A slip: the completion of a discovery is not signalled.
DiscoveryRespondsOnly(r) ==
    /\ asked[r].kind = "Discovery"
    /\ handler' = [handler EXCEPT ![r] = "done"]

\* After its response a discovery has still to signal completion.
DiscoveryResponds(r) ==
    /\ asked[r].kind = "Discovery"
    /\ handler' = [handler EXCEPT ![r] = "complete"]

ValidationResponds(r) ==
    /\ asked[r].kind = "Validation"
    /\ handler' = [handler EXCEPT ![r] = "done"]

\* A slip: the result of an action is given while the action still runs.
ActionRespondsEarly(r) ==
    /\ asked[r].kind = "Action"
    /\ handler' = [handler EXCEPT ![r] = "calling"]

ActionResponds(r) ==
    /\ asked[r].kind = "Action"
    /\ handler' = [handler EXCEPT ![r] = "done"]

\* The handler hands over what the probe returned.
HandsResult(r) ==
    /\ Running
    /\ handler[r] = "respond"
    /\ HandsOver(r, "result", reply[r])
    /\ DiscoveryResponds(r) \/ ValidationResponds(r) \/ ActionResponds(r)
    /\ UNCHANGED <<transportVars, endpointVars, requestVars, reply, keepAlive,
                   historyVars>>

\* A discovery ends with an empty response.
HandsCompletion(r) ==
    /\ Running
    /\ handler[r] = "complete"
    /\ HandsOver(r, "completion", TRUE)
    /\ handler' = [handler EXCEPT ![r] = "cancel"]
    /\ UNCHANGED <<transportVars, endpointVars, requestVars, reply, keepAlive,
                   historyVars>>

\* The handler returns, which closes stopCh.
ClosesStopCh(r) ==
    /\ Running
    /\ handler[r] = "cancel"
    /\ handler' = [handler EXCEPT ![r] = "done"]
    /\ UNCHANGED <<transportVars, endpointVars, requestVars, reply, keepAlive,
                   callbackVars, historyVars>>

-----------------------------------------------------------------------------
(* The keep-alive goroutine of a discovery. *)

HandsKeepAlive(r) ==
    /\ Running
    /\ keepAlive[r] = "sending"
    /\ HandsOver(r, "keepalive", TRUE)
    /\ keepAlive' = [keepAlive EXCEPT ![r] = "waiting"]
    /\ UNCHANGED <<transportVars, endpointVars, requestVars, handler, reply,
                   historyVars>>

\* The select takes the timer, which it may even when stopCh is closed too.
TimerFires(r) ==
    /\ Running
    /\ keepAlive[r] = "waiting"
    /\ keepAlive' = [keepAlive EXCEPT ![r] = "sending"]
    /\ UNCHANGED <<transportVars, endpointVars, requestVars, handler, reply,
                   callbackVars, historyVars>>

\* A slip: stopCh is signalled once, not closed, so the signal can be missed.
KeepAliveStopsInTime(r) ==
    /\ Running
    /\ keepAlive[r] = "waiting"
    /\ handler[r] = "cancel"
    /\ keepAlive' = [keepAlive EXCEPT ![r] = "stopped"]
    /\ UNCHANGED <<transportVars, endpointVars, requestVars, handler, reply,
                   callbackVars, historyVars>>

\* The select takes the closed stopCh.
KeepAliveStops(r) ==
    /\ Running
    /\ keepAlive[r] = "waiting"
    /\ handler[r] = "done"
    /\ keepAlive' = [keepAlive EXCEPT ![r] = "stopped"]
    /\ UNCHANGED <<transportVars, endpointVars, requestVars, handler, reply,
                   callbackVars, historyVars>>

-----------------------------------------------------------------------------
(* probeCallback. *)

\* A history of final messages with message m recorded, if it is final.
Records(history, m) == [history EXCEPT ![m.id] = @ \cup ({m.kind} \cap FinalKinds)]

\* A slip: the callback gives up when a message cannot be sent.
CallbackSendsOrEnds(s) ==
    /\ Running
    /\ callback[s] = "busy"
    /\ held[s].ok /\ Transmits(epOn[s])
    /\ callback' = [callback EXCEPT ![s] = "idle"]
    /\ held' = [held EXCEPT ![s] = NoMessage]
    /\ wire' = Records(wire, held[s])
    /\ UNCHANGED <<transportVars, endpointVars, requestVars, handlerVars,
                   dropped>>

\* The held message leaves on the transport of the callback's endpoint, or is dropped.
CallbackSends(s) ==
    /\ Running
    /\ callback[s] = "busy"
    /\ callback' = [callback EXCEPT ![s] = "idle"]
    /\ held' = [held EXCEPT ![s] = NoMessage]
    /\ IF held[s].ok /\ Transmits(epOn[s])
       THEN /\ wire' = Records(wire, held[s])
            /\ UNCHANGED dropped
       ELSE /\ dropped' = Records(dropped, held[s])
            /\ UNCHANGED wire
    /\ UNCHANGED <<transportVars, endpointVars, requestVars, handlerVars>>

-----------------------------------------------------------------------------
(* The environment. *)

\* External: the server sends a request, or bytes that do not parse, under a new id.
ServerAsks(t, r) ==
    /\ Running
    /\ asked[r] = NilFrame
    /\ \E f \in ServerFrames :
         /\ f.id = r
         /\ ServerPuts(t, f)
         /\ asked' = [asked EXCEPT ![r] = f]
         /\ origin' = [origin EXCEPT ![r] = t]
    /\ UNCHANGED <<endpointVars, handlerVars, callbackVars, historyVars>>

\* External: a connection is lost.
LosesConnection(t) ==
    /\ Running
    /\ CanLose
    /\ PeerLost(t)
    /\ UNCHANGED <<endpointVars, requestVars, handlerVars, callbackVars,
                   historyVars>>

\* The application closes the container: Stop on the client's current transport.
CloseContainer ==
    /\ Running
    /\ CanClose
    /\ CloseTransportPoint(Current)
    /\ UNCHANGED <<endpointVars, requestVars, handlerVars, callbackVars,
                   historyVars>>

-----------------------------------------------------------------------------
Transports(s) ==
    /\ Running
    /\ TransportStep(s)
    /\ UNCHANGED <<endpointVars, requestVars, handlerVars, callbackVars,
                   historyVars>>

Endpoints(s) ==
    /\ Running
    /\ EndpointStep(s)
    /\ UNCHANGED <<requestVars, handlerVars, callbackVars, historyVars>>

SessionStep(s) ==
    \/ Transports(s) \/ Endpoints(s) \/ DropsUnhandled(s) \/ Dispatches(s)
    \/ CallbackSends(s) \/ LosesConnection(s)
    \/ \E r \in Requests : ServerAsks(s, r)

HandlerStep(r) ==
    \/ Abandons(r) \/ CallsProbe(r) \/ UpdatesProgress(r) \/ ProbeReturns(r)
    \/ HandsProgress(r) \/ HandsResult(r) \/ HandsCompletion(r) \/ ClosesStopCh(r)
    \/ HandsKeepAlive(r) \/ TimerFires(r) \/ KeepAliveStops(r)

DispatchNext ==
    \/ \E s \in Sessions : SessionStep(s)
    \/ \E r \in Requests : HandlerStep(r)
    \/ CloseContainer

DispatchSpec == DispatchInit /\ [][DispatchNext]_dispatchVars

(***************************************************************************)
(* The scheduler runs every goroutine that can run.  Goroutines that wait  *)
(* to send on a channel are served in the order they came, so each of      *)
(* them gets its turn although others keep the callback busy.  A select    *)
(* with two ready cases picks at random, so a closed stopCh is not passed  *)
(* over for ever.  A probe that does not hang returns from every call.     *)
(***************************************************************************)
FairDispatchSpec ==
    /\ DispatchSpec
    /\ \A s \in Sessions :
         /\ WF_dispatchVars(Transports(s))
         /\ WF_dispatchVars(Endpoints(s))
         /\ WF_dispatchVars(DropsUnhandled(s) \/ Dispatches(s))
         /\ WF_dispatchVars(CallbackSends(s))
    /\ \A r \in Requests :
         /\ WF_dispatchVars(Abandons(r) \/ CallsProbe(r) \/ ClosesStopCh(r))
         /\ SF_dispatchVars(asked[r].probe \notin HangingProbes /\ ProbeReturns(r))
         /\ SF_dispatchVars(HandsProgress(r) \/ HandsResult(r) \/ HandsCompletion(r))
         /\ SF_dispatchVars(HandsKeepAlive(r))
         /\ SF_dispatchVars(KeepAliveStops(r))

-----------------------------------------------------------------------------
(* Properties. *)

\* The request is one a handler answers.
Answerable(r) ==
    /\ asked[r].kind \in {"Discovery", "Validation", "Action"}
    /\ asked[r].probe \in RegisteredProbes

\* The connection the request came on is not up any more.
OriginLost(r) == \E t \in Sessions : t = origin[r] /\ ws[t] # "open"

Held(r) == FinalKinds \cap {held[s].kind : s \in {t \in Sessions : held[t].id = r}}

Settled(r) == wire[r] \cup dropped[r]

\* The final messages the goroutines of the request have handed to a callback.
Handed(r) == Settled(r) \cup Held(r)

(***************************************************************************)
(* The order the server can rely on within one request: progress comes     *)
(* before the result (remote_mediation_client.go:357-358), the result is   *)
(* given once, and the empty response that signals the completion of a     *)
(* discovery comes after the response itself (275-283).                    *)
(***************************************************************************)
ConversationInOrder ==
    \A s \in Sessions, r \in Requests :
        held[s].id = r =>
            /\ held[s].kind \in {"progress", "result"} => "result" \notin Settled(r)
            /\ held[s].kind = "completion" =>
                  "result" \in Settled(r) /\ "completion" \notin Settled(r)

(***************************************************************************)
(* A handler that is done has left nothing behind: what its request called *)
(* for has been handed to a callback, and nothing else has (238-288,       *)
(* 305-326, 336-355).                                                      *)
(***************************************************************************)
FinishedIsAnswered ==
    \A r \in Requests :
        handler[r] = "done" =>
            /\ "result" \in Handed(r) <=> Answerable(r)
            /\ "completion" \in Handed(r) <=> Answerable(r) /\ asked[r].kind = "Discovery"

(***************************************************************************)
(* A response the probe gave is dropped only when the connection its       *)
(* request came on is gone; on a connection that is up, "Action progress   *)
(* and result are sent to the server as responses for the action request"  *)
(* (358; 135-141 of client_websocket_transport.go).                        *)
(***************************************************************************)
DroppedOnlyIfLost ==
    \A r \in Requests :
        "result" \in dropped[r] /\ reply[r] => OriginLost(r)

(***************************************************************************)
(* Every dispatched handler of a probe that does not hang ends, although   *)
(* other probes may hang and the connection may be gone: the callback goes *)
(* on taking messages (155-167).                                           *)
(***************************************************************************)
HandlersFinish ==
    \A r \in Requests :
        handler[r] = "lookup" /\ asked[r].probe \notin HangingProbes ~> handler[r] = "done"

(***************************************************************************)
(* The keep-alive goroutine of a discovery ends once the discovery has,    *)
(* although its timer may fire again and again (255-266, 286-287).         *)
(***************************************************************************)
KeepAlivesEnd ==
    \A r \in Requests :
        keepAlive[r] # "none" /\ handler[r] = "done" ~> keepAlive[r] = "stopped"

(***************************************************************************)
(* A request the server sends is answered, unless its connection is lost,  *)
(* or the probe hangs or returns nil (238-413).                            *)
(***************************************************************************)
RequestsAnswered ==
    \A r \in Requests :
        Answerable(r) /\ asked[r].probe \notin HangingProbes ~>
            \/ "result" \in wire[r]
            \/ "result" \in dropped[r] /\ ~reply[r]
            \/ OriginLost(r)

(***************************************************************************)
(* The session keeps the contract of RequestContract.  A request counts as *)
(* accepted when its handler calls the probe.                              *)
(***************************************************************************)
Accepted ==
    [r \in Requests |-> IF handler[r] \notin {"none", "lookup"} /\ Answerable(r)
                        THEN asked[r].kind ELSE "none"]

Contract == INSTANCE RequestContract WITH
    accepted <- Accepted,
    said     <- [r \in Requests |-> Handed(r)],
    outbox   <- {<<held[s].id, held[s].kind>> : s \in {t \in Sessions : held[t] # NoMessage}},
    heard    <- wire

KeepsContract == Contract!ContractSpec
-----------------------------------------------------------------------------
(***************************************************************************)
(* The inductive invariant the theorems of RequestDispatchProofs rest on.  *)
(* A frame is somewhere on its way from the server to the dispatcher: in   *)
(* inbound, with the receiver, or with an endpoint.  InvWay: it is the     *)
(* request the server sent under its id, and no handler has been started   *)
(* for it; InvOnce: no other frame on the way has its id.  So a handler is *)
(* started once for an id, and InvHandler can say what a handler has       *)
(* handed over from its control state alone.  InvCallback and InvHeld      *)
(* relate the messages the callbacks hold to those already settled.        *)
(***************************************************************************)
Waiting(f) ==
    /\ f.id \in Requests
    /\ asked[f.id] = f
    /\ f # NilFrame
    /\ handler[f.id] = "none"

InvWay ==
    /\ \A t \in Sessions : \A i \in 1 .. Len(inbound[t]) : Waiting(inbound[t][i])
    /\ \A t \in Sessions : rx[t] = "delivering" => Waiting(rxData[t])
    /\ \A s \in Sessions : ep[s] = "offering" => Waiting(parsed[s])
    /\ \A s \in Sessions : epName[s] = "Request"

InvOnce ==
    /\ \A t, u \in Sessions : \A i \in 1 .. Len(inbound[t]), j \in 1 .. Len(inbound[u]) :
         inbound[t][i].id = inbound[u][j].id => t = u /\ i = j
    /\ \A t, u \in Sessions : \A i \in 1 .. Len(inbound[u]) :
         /\ rx[t] = "delivering" => rxData[t].id # inbound[u][i].id
         /\ ep[t] = "offering" => parsed[t].id # inbound[u][i].id
    /\ \A t, u \in Sessions :
         /\ rx[t] = "delivering" /\ rx[u] = "delivering" /\ rxData[t].id = rxData[u].id => t = u
         /\ ep[t] = "offering" /\ ep[u] = "offering" /\ parsed[t].id = parsed[u].id => t = u
         /\ rx[t] = "delivering" /\ ep[u] = "offering" => rxData[t].id # parsed[u].id

HandlerKinds == {"Discovery", "Validation", "Action", "Interrupt"}

\* What a handler in this control state has handed over.
HandedBy(r) ==
    CASE handler[r] = "complete" -> {"result"}
      [] handler[r] = "cancel" -> {"result", "completion"}
      [] handler[r] = "done" /\ Answerable(r) ->
            IF asked[r].kind = "Discovery" THEN {"result", "completion"} ELSE {"result"}
      [] OTHER -> {}

InvHandler ==
    \A r \in Requests :
        /\ handler[r] # "none" => asked[r].kind \in HandlerKinds
        /\ handler[r] \notin {"none", "lookup", "done"} => Answerable(r)
        /\ handler[r] \in {"complete", "cancel"} => asked[r].kind = "Discovery"
        /\ handler[r] = "reporting" => asked[r].kind = "Action"
        /\ Handed(r) = HandedBy(r)

InvCallback ==
    \A s \in Sessions : callback[s] = "idle" <=> held[s] = NoMessage

InvHeld ==
    \A s \in Sessions, r \in Requests :
        held[s].id = r /\ held[s].kind \in FinalKinds =>
            /\ held[s].kind \notin Settled(r)
            /\ \A u \in Sessions : held[u].id = r /\ held[u].kind = held[s].kind => u = s

(***************************************************************************)
(* Everything above together: a request is on its way once, is dispatched  *)
(* once, and what its handler has handed over follows from where the       *)
(* handler is, whichever callback has it (114-151, 155-180, 238-355).      *)
(***************************************************************************)
DispatchInv ==
    DispatchTypeOK /\ InvWay /\ InvOnce /\ InvHandler /\ InvCallback /\ InvHeld
=============================================================================
