-------------------------- MODULE ProtobufEndpoint --------------------------
(***************************************************************************)
(* The protobuf endpoint of a session:                                     *)
(* pkg/mediationcontainer/client_protobuf_endpoint.go and the parsers of   *)
(* protobuf_endpoint.go.                                                   *)
(*                                                                         *)
(* An endpoint is a goroutine that takes a frame from the inputStream of   *)
(* its transport, parses it, and offers the parsed message to the layer    *)
(* above on its own unbuffered channel.  A session creates three of them   *)
(* one after the other: two that wait for a single message (negotiation,   *)
(* registration) and one that loops (server requests).                     *)
(***************************************************************************)
EXTENDS Transport

VARIABLES
    ep,             \* the endpoint goroutine of the session
    epName,         \* which of the three endpoints it is
    epOn,           \* the transport it was created with
    parsed          \* the message it offers, NilFrame for an empty one

endpointVars == <<ep, epName, epOn, parsed>>

EndpointTypeOK ==
    /\ ep \in [Sessions -> {"off", "waiting", "offering", "done"}]
    /\ epName \in [Sessions -> {"Negotiation", "Registration", "Request"}]
    /\ epOn \in [Sessions -> Sessions \cup {NoSession}]
    /\ parsed \in [Sessions -> Frame]

EndpointInit ==
    /\ ep = [s \in Sessions |-> "off"]
    /\ epName = [s \in Sessions |-> "Negotiation"]
    /\ epOn = [s \in Sessions |-> NoSession]
    /\ parsed = [s \in Sessions |-> NilFrame]

\* CreateClientProtobufEndpoint on transport t starts the waiting goroutine.
CreateEndpoint(s, name, t) ==
    /\ ep' = [ep EXCEPT ![s] = "waiting"]
    /\ epName' = [epName EXCEPT ![s] = name]
    /\ epOn' = [epOn EXCEPT ![s] = t]
    /\ parsed' = [parsed EXCEPT ![s] = NilFrame]

(***************************************************************************)
(* Which bytes Unmarshal takes for the message an endpoint expects.  A     *)
(* NegotiationAnswer has required fields.  An Ack has no field at all, so  *)
(* any well-formed message is one, and so are no bytes.  A                 *)
(* MediationServerMessage rejects a negotiation answer by its field types  *)
(* and takes an Ack for a request of no known type.                        *)
(***************************************************************************)
Parses(name, kind) ==
    CASE name = "Negotiation"  -> kind \in {"accepted", "rejected"}
      [] name = "Registration" -> kind # "garbage"
      [] name = "Request"      -> kind \notin {"garbage", "accepted", "rejected"}

\* waitForSingleServerMessage offers an empty message for bytes it cannot parse.
SingleMessage(s, f) ==
    /\ epName[s] # "Request"
    /\ ep' = [ep EXCEPT ![s] = "offering"]
    /\ parsed' = [parsed EXCEPT ![s] =
                    CASE ~Parses(epName[s], f.kind) -> NilFrame
                      [] epName[s] = "Registration" /\ Parses(epName[s], f.kind) -> Plain("ack")
                      [] OTHER -> f]

\* waitForServerMessage drops them and waits for the next frame.
NextMessage(s, f) ==
    /\ epName[s] = "Request"
    /\ IF Parses("Request", f.kind)
       THEN /\ ep' = [ep EXCEPT ![s] = "offering"]
            /\ parsed' = [parsed EXCEPT ![s] = f]
       ELSE UNCHANGED <<ep, parsed>>

\* A waiting endpoint takes the frame the receiver of its transport holds.
EpReceive(s) ==
    /\ ep[s] = "waiting"
    /\ \E t \in Sessions :
         /\ t = epOn[s]
         /\ Delivers(t)
         /\ SingleMessage(s, rxData[t]) \/ NextMessage(s, rxData[t])
    /\ UNCHANGED <<epName, epOn>>

(***************************************************************************)
(* A waiting endpoint finds its inputStream closed.  The looping endpoint  *)
(* ends, and leaves its own channel open.  The single-message endpoints    *)
(* do not look at the flag and parse the nil bytes.                        *)
(***************************************************************************)
EpFindsClosed(s) ==
    /\ ep[s] = "waiting"
    /\ epOn[s] \in Sessions /\ inputClosed[epOn[s]]
    /\ IF epName[s] = "Request"
       THEN /\ ep' = [ep EXCEPT ![s] = "done"]
            /\ UNCHANGED parsed
       ELSE SingleMessage(s, NilFrame)
    /\ UNCHANGED <<epName, epOn, transportVars>>

\* The layer above takes the offered message; the looping endpoint waits again.
EpDelivers(s) ==
    /\ ep[s] = "offering"
    /\ ep' = [ep EXCEPT ![s] = IF epName[s] = "Request" THEN "waiting" ELSE "done"]
    /\ parsed' = [parsed EXCEPT ![s] = NilFrame]
    /\ UNCHANGED <<epName, epOn>>

EndpointStep(s) == EpReceive(s) \/ EpFindsClosed(s)
=============================================================================
