----------------------------- MODULE Transport -----------------------------
(***************************************************************************)
(* The websocket transport of a session:                                   *)
(* pkg/mediationcontainer/client_websocket_transport.go.                   *)
(*                                                                         *)
(* A session is one call of ConnectToTurbo; it dials at most one           *)
(* connection, so sessions also name the transports.  A transport is a     *)
(* websocket, a receiver goroutine (waitForServerMessage) and the          *)
(* unbuffered channel inputStream between the two layers.  A hand-over on  *)
(* an unbuffered channel is one joint step of both goroutines: the reader  *)
(* that takes what the receiver holds is an action of ProtobufEndpoint.    *)
(*                                                                         *)
(* A Go panic ends the process: crash then names its cause, and no action  *)
(* of any module is enabled any more.                                      *)
(***************************************************************************)
EXTENDS Naturals, Sequences

CONSTANTS
    Sessions,       \* the calls of ConnectToTurbo
    Requests,       \* the message ids the server gives to its requests
    ProbeTypes,     \* the probe types a request may name
    NoSession, NoRequest, NoProbe

ASSUME TransportAssumption ==
    /\ NoSession \notin Sessions
    /\ NoRequest \notin Requests
    /\ NoProbe \notin ProbeTypes

RequestKinds == {"Discovery", "Validation", "Action", "Interrupt", "Unknown"}

(***************************************************************************)
(* What a websocket frame can be, as far as the three parsers of the       *)
(* client tell frames apart: the two negotiation answers, the server's     *)
(* Ack, a request, and bytes that are no protobuf message at all.  "nil"   *)
(* is what a receive on the closed inputStream yields.                     *)
(***************************************************************************)
FrameKinds == RequestKinds \cup {"accepted", "rejected", "ack", "garbage", "nil"}

Frame == [kind  : FrameKinds,
          id    : Requests \cup {NoRequest},
          probe : ProbeTypes \cup {NoProbe}]

Plain(k) == [kind |-> k, id |-> NoRequest, probe |-> NoProbe]

NilFrame == Plain("nil")

VARIABLES
    ws,             \* the websocket: "none", "open", "broken" (the peer is gone), "closed"
    inbound,        \* frames the server sent that the receiver has not read
    rx,             \* the receiver goroutine
    rxData,         \* the frame it holds, NilFrame when it holds none
    inputClosed,    \* inputStream has been closed
    closeReceived,  \* the flag Send looks at
    crash           \* "none", or the panic that ended the process

transportVars == <<ws, inbound, rx, rxData, inputClosed, closeReceived, crash>>

TransportTypeOK ==
    /\ ws \in [Sessions -> {"none", "open", "broken", "closed"}]
    /\ inbound \in [Sessions -> Seq(Frame)]
    /\ rx \in [Sessions -> {"off", "receiving", "delivering", "done"}]
    /\ rxData \in [Sessions -> Frame]
    /\ inputClosed \in [Sessions -> BOOLEAN]
    /\ closeReceived \in [Sessions -> BOOLEAN]
    /\ crash \in {"none", "send on closed input", "close of closed input",
                  "close of closed status"}

Running == crash = "none"

\* No connection has been dialled.
TransportInit ==
    /\ ws = [t \in Sessions |-> "none"]
    /\ inbound = [t \in Sessions |-> <<>>]
    /\ rx = [t \in Sessions |-> "off"]
    /\ rxData = [t \in Sessions |-> NilFrame]
    /\ inputClosed = [t \in Sessions |-> FALSE]
    /\ closeReceived = [t \in Sessions |-> FALSE]
    /\ crash = "none"

\* CreateClientWebSocketTransport when the dial succeeds: the receiver is started.
Connect(t) ==
    /\ ws[t] = "none"
    /\ ws' = [ws EXCEPT ![t] = "open"]
    /\ rx' = [rx EXCEPT ![t] = "receiving"]
    /\ UNCHANGED <<inbound, rxData, inputClosed, closeReceived, crash>>

\* External: the server puts a frame on an open connection.
ServerPuts(t, f) ==
    /\ ws[t] = "open"
    /\ inbound' = [inbound EXCEPT ![t] = Append(@, f)]
    /\ UNCHANGED <<ws, rx, rxData, inputClosed, closeReceived, crash>>

\* External: the server or the network drops the connection.
PeerLost(t) ==
    /\ ws[t] = "open"
    /\ ws' = [ws EXCEPT ![t] = "broken"]
    /\ UNCHANGED <<inbound, rx, rxData, inputClosed, closeReceived, crash>>

(***************************************************************************)
(* The receiver reads a frame and turns to the channel.  Frames that       *)
(* arrived before the connection ended can still be read after it.         *)
(***************************************************************************)
RxReceive(t) ==
    /\ rx[t] = "receiving"
    /\ inbound[t] # <<>>
    /\ rx' = [rx EXCEPT ![t] = "delivering"]
    /\ rxData' = [rxData EXCEPT ![t] = Head(inbound[t])]
    /\ inbound' = [inbound EXCEPT ![t] = Tail(@)]
    /\ UNCHANGED <<ws, inputClosed, closeReceived, crash>>

(***************************************************************************)
(* Receive fails: an EOF also sets closeReceived, any other error does     *)
(* not.  The receiver closes the websocket and ends; inputStream stays     *)
(* open, so that who reads it is not told.                                 *)
(***************************************************************************)
RxFail(t) ==
    /\ rx[t] = "receiving"
    /\ ws[t] \in {"broken", "closed"}
    /\ rx' = [rx EXCEPT ![t] = "done"]
    /\ ws' = [ws EXCEPT ![t] = "closed"]
    /\ \E eof \in BOOLEAN : closeReceived' = [closeReceived EXCEPT ![t] = @ \/ eof]
    /\ UNCHANGED <<inbound, rxData, inputClosed, crash>>

\* The receiver is at "msgChannel <- data" when the channel is, or becomes, closed.
RxSendsOnClosed(t) ==
    /\ rx[t] = "delivering"
    /\ inputClosed[t]
    /\ crash' = "send on closed input"
    /\ UNCHANGED <<ws, inbound, rx, rxData, inputClosed, closeReceived>>

\* Closing a second time panics at close(inputStream).
CloseTransportPoint(t) ==
    /\ closeReceived' = [closeReceived EXCEPT ![t] = TRUE]
    /\ IF inputClosed[t]
       THEN /\ crash' = "close of closed input"
            /\ UNCHANGED <<inputClosed, ws>>
       ELSE /\ inputClosed' = [inputClosed EXCEPT ![t] = TRUE]
            /\ ws' = [ws EXCEPT ![t] = "closed"]
            /\ UNCHANGED crash
    /\ UNCHANGED <<inbound, rx, rxData>>

\* A slip: nothing is written while a received frame is being delivered.
TransmitsHalfDuplex(t) == ~closeReceived[t] /\ ws[t] = "open" /\ rx[t] # "delivering"

(***************************************************************************)
(* Send on a transport gets through only then; in every other case the     *)
(* message is logged and dropped, and the caller is not told.              *)
(***************************************************************************)
Transmits(t) == ~closeReceived[t] /\ ws[t] = "open"

\* The receiver hands its frame to a reader of inputStream and receives on.
Delivers(t) ==
    /\ rx[t] = "delivering"
    /\ ~inputClosed[t]
    /\ rx' = [rx EXCEPT ![t] = "receiving"]
    /\ rxData' = [rxData EXCEPT ![t] = NilFrame]
    /\ UNCHANGED <<ws, inbound, inputClosed, closeReceived, crash>>

TransportStep(t) == RxReceive(t) \/ RxFail(t) \/ RxSendsOnClosed(t)
=============================================================================
