---------------------------- MODULE ServiceSetup ----------------------------
(***************************************************************************)
(* From an application's first call to the answer to a request:            *)
(* ProbeBuilder and TurboProbe (pkg/probe), TAPServiceBuilder and          *)
(* TAPService (pkg/service), the container, its configuration and the      *)
(* client that registers the probes (pkg/mediationcontainer).              *)
(*                                                                         *)
(* The application is one goroutine, which waits in ConnectToTurbo, and    *)
(* has one probe builder in hand at a time: probes are values, so that the *)
(* builders it is done with do not matter.  Services are kept: it may      *)
(* build several at a time, all with the one container of the process, and *)
(* connect any of them.  The server grants what it can read: what refusals *)
(* and lost connections do is in Handshake.  A string that has to be a URL *)
(* is one of "missing", "malformed", "relative" (what url.Parse takes and  *)
(* url.ParseRequestURI does not) and "url".  An application that is told   *)
(* of an error does not go on with a nil.                                  *)
(***************************************************************************)
EXTENDS WireFormat, FiniteSets, SequencesExt

CONSTANTS
    Services,               \* the services the application builds, one TAPServiceBuilder each
    ProbeTypes,             \* the types of probe the application names
    Addresses,              \* the targets' identifiers
    RegistrationClients,    \* the application's objects of this kind, and of each what its
    GetIdentifyingFields,   \* methods return
    GetAccountDefinition,
    GetSupplyChainDefinition,
    DiscoveryClients,       \* the objects of this kind, and of each
    GetAccountValues,       \* the account values of its target, or Nil
    Configs,                \* records [server, local, login, rest] of a communication configuration
    MaxCalls                \* bound on the calls of probe builders' setters, but for those of
                            \* RegisteredBy that are not refused, which only replace a client

Urls == {"missing", "malformed", "relative", "url"}

ASSUME SetupAssumption ==
    /\ "" \notin Addresses
    /\ Nil \notin Services /\ Nil \notin ProbeTypes /\ Nil \notin Addresses
    /\ Nil \notin RegistrationClients /\ Nil \notin DiscoveryClients
    /\ \A d \in DiscoveryClients :
          GetAccountValues[d] # Nil => IsSequence(GetAccountValues[d])
    /\ Configs \subseteq [server : Urls, local : Urls, login : {"missing", "set"},
                          rest : {"missing", "set"}]
    /\ MaxCalls \in Nat

VARIABLES
    pb,         \* the ProbeBuilder in hand, or Nil
    refused,    \* a call on pb has been refused (history)
    tap,        \* of each TAPServiceBuilder its service's probe and REST client, its err
    created,    \* the services Create has returned
    allProbes,  \* the container's map of probes
    loader,     \* of each type the service whose builder last loaded a probe of it (history)
    container,  \* the configuration of the container's client, Nil without one
    conn,       \* where ConnectToTurbo is, "idle" before and after it
    by,         \* the service whose ConnectToTurbo it is, Nil when "idle"
    dialed,     \* the configuration ConnectToTurbo dials with, Nil before
    registered, \* the ContainerInfo the server acknowledged, or Nil
    added,      \* the targets added
    reply,      \* what a request came to, Nil before
    calls,      \* how many calls count towards MaxCalls
    crash       \* the cause of a panic, or "none"

builderVars == <<pb, refused, calls>>
serviceVars == <<tap, created>>
containerVars == <<allProbes, loader, container>>
sessionVars == <<conn, by, dialed, registered, added>>
setupVars == <<builderVars, serviceVars, containerVars, sessionVars, reply, crash>>

Running == crash = "none"
NoProbes == [t \in ProbeTypes |-> Nil]
Loaded == {allProbes[t] : t \in ProbeTypes} \ {Nil}

\* The application is not in ConnectToTurbo, and no request has come yet.
AtHome == Running /\ conn = "idle" /\ reply = Nil

-----------------------------------------------------------------------------
(* ProbeBuilder. *)

\* A type or category that is refused leaves the builder without a map.
NewProbeBuilder(type) ==
    /\ AtHome
    /\ pb' = [probeType |-> type, registrationClient |-> Nil, discoveryClientMap |-> <<>>,
              actionClient |-> FALSE, err |-> type = Nil]
    /\ refused' = (type = Nil)
    /\ UNCHANGED <<calls, serviceVars, containerVars, sessionVars, reply, crash>>

OnBuilder ==
    /\ AtHome /\ pb # Nil
    /\ UNCHANGED <<serviceVars, containerVars, sessionVars, reply>>

Counted == calls < MaxCalls /\ calls' = calls + 1

\* The setters of a builder go on after an error; a nil client is one.
PbFails ==
    /\ Counted
    /\ pb' = [pb EXCEPT !.err = TRUE]
    /\ refused' = TRUE
    /\ UNCHANGED crash

\* A slip: what is in order makes the builder forget its error.
RegisteredByAfresh(client) ==
    /\ OnBuilder
    /\ IF client = Nil
       THEN PbFails
       ELSE /\ pb' = [pb EXCEPT !.registrationClient = client, !.err = FALSE]
            /\ UNCHANGED <<refused, calls, crash>>

RegisteredBy(client) ==
    /\ OnBuilder
    /\ IF client = Nil
       THEN PbFails
       ELSE /\ pb' = [pb EXCEPT !.registrationClient = client]
            /\ UNCHANGED <<refused, calls, crash>>

\* A slip: the identifier is not looked at.
DiscoversAnyTarget(address, client) ==
    /\ OnBuilder /\ Counted
    /\ client # Nil /\ pb.probeType # Nil
    /\ pb' = [pb EXCEPT !.discoveryClientMap = With(@, address, client)]
    /\ UNCHANGED <<refused, crash>>

\* A write to the map of a builder that has none panics.
DiscoversTarget(address, client) ==
    /\ OnBuilder
    /\ \/ /\ address = "" \/ client = Nil
          /\ PbFails
       \/ /\ Counted
          /\ address # "" /\ client # Nil /\ pb.probeType # Nil
          /\ pb' = [pb EXCEPT !.discoveryClientMap = With(@, address, client)]
          /\ UNCHANGED <<refused, crash>>
       \/ /\ Counted
          /\ address # "" /\ client # Nil /\ pb.probeType = Nil
          /\ crash' = "assignment to entry in nil map"
          /\ UNCHANGED <<pb, refused>>

ExecutesActionsBy(client) ==
    /\ OnBuilder
    /\ IF client
       THEN Counted /\ pb' = [pb EXCEPT !.actionClient = TRUE] /\ UNCHANGED <<refused, crash>>
       ELSE PbFails

\* Create, called by WithTurboProbe, takes a builder without an error that has a target.
CanCreate == ~pb.err /\ DOMAIN pb.discoveryClientMap # {}

TurboProbe ==
    [probeType |-> pb.probeType, RegistrationClient |-> pb.registrationClient,
     DiscoveryClientMap |-> pb.discoveryClientMap, ActionClient |-> pb.actionClient,
     refused |-> refused]

-----------------------------------------------------------------------------
(* TAPServiceBuilder and the container. *)

\* What NewTAPServiceBuilder returns; the container is the process's only one.
NewTAPServiceBuilder == [probe |-> Nil, client |-> FALSE, err |-> FALSE]

\* A slip: the first probe of a type stays.
LoadsFirst(p) ==
    allProbes' = IF allProbes[p.probeType] # Nil THEN allProbes
                 ELSE [allProbes EXCEPT ![p.probeType] = p]

\* A probe takes the place of one of the same type.
LoadsProbe(p) == allProbes' = [allProbes EXCEPT ![p.probeType] = p]

\* A builder that has failed ignores the call.  Create keeps its error, too.
WithTurboProbe(s) ==
    /\ AtHome
    /\ pb # Nil
    /\ ~tap[s].err
    /\ IF CanCreate
       THEN /\ tap' = [tap EXCEPT ![s].probe = TurboProbe]
            /\ LoadsProbe(TurboProbe)
            /\ loader' = [loader EXCEPT ![pb.probeType] = s]
            /\ UNCHANGED <<pb, refused>>
       ELSE /\ tap' = [tap EXCEPT ![s].err = TRUE]
            /\ pb' = [pb EXCEPT !.err = TRUE]
            /\ refused' = TRUE
            /\ UNCHANGED <<allProbes, loader>>
    /\ UNCHANGED <<calls, created, container, sessionVars, reply, crash>>

ValidateServerMeta(c) == c.server = "url"

Local(c) == IF c.local = "missing" THEN "url" ELSE c.local

\* A slip: the defaults are forgotten.
ValidateLocalAddress(c) == [c EXCEPT !.local = Local(c)]

\* The path, the user and the password are set or "missing" alike; they get their
\* defaults only if the local address is in order.
ValidateWebSocketConfig(c) ==
    IF Local(c) = "url"
    THEN [c EXCEPT !.local = "url", !.login = "set"]
    ELSE [c EXCEPT !.local = Local(c)]

\* What validation makes of a configuration; the container ignores its verdict.
ValidateMediationContainerConfig(c) ==
    IF ValidateServerMeta(c) THEN ValidateWebSocketConfig(c) ELSE c

\* ParseTurboCommunicationConfig, which does not, and wants the user and the password of
\* the REST API as well: the configurations it returns for c.
ParseTurboCommunicationConfig(c) ==
    {d \in {ValidateMediationContainerConfig(c)} :
        ValidateServerMeta(d) /\ d.local = "url" /\ d.rest = "set"}

\* The container gets a new client, for the server and the web socket of c.  The REST
\* client takes any user and password: NewAPIClientWithBA refuses a configuration without
\* BasicAuth, which this one always has, so that only url.Parse can fail here.
WithTurboCommunicator(s, c) ==
    /\ AtHome
    /\ ~tap[s].err
    /\ container' = ValidateMediationContainerConfig(
                        [server |-> c.server, local |-> c.local, login |-> c.login])
    /\ tap' = IF c.server = "malformed" THEN [tap EXCEPT ![s].err = TRUE]
                                        ELSE [tap EXCEPT ![s].client = TRUE]
    /\ UNCHANGED <<builderVars, created, allProbes, loader, sessionVars, reply, crash>>

\* Create of the TAPServiceBuilder, which goes on building the service it returned.
CreateService(s) ==
    /\ AtHome
    /\ s \notin created
    /\ ~tap[s].err
    /\ created' = created \cup {s}
    /\ UNCHANGED <<builderVars, tap, containerVars, sessionVars, reply, crash>>

-----------------------------------------------------------------------------
(* ConnectToTurbo, of one service at a time. *)

Connecting(at) ==
    Running /\ conn = at /\ UNCHANGED <<builderVars, serviceVars, containerVars, reply>>
Panics(cause) == crash' = cause /\ UNCHANGED sessionVars
GoesTo(at) == conn' = at /\ UNCHANGED crash

\* Any service that was created, also when another took its probe's place since; the
\* application is done with the probe builder it has in hand.
ConnectToTurbo(s) ==
    /\ AtHome
    /\ s \in created
    /\ conn' = "container" /\ by' = s
    /\ pb' = Nil /\ refused' = FALSE
    /\ UNCHANGED <<calls, serviceVars, containerVars, dialed, registered, added, reply, crash>>

\* InitMediationContainer: without probes no status is ever sent.
NoProbesToRegister ==
    /\ Connecting("container")
    /\ Loaded = {}
    /\ GoesTo("waits")
    /\ UNCHANGED <<by, dialed, registered, added>>

\* Without a communicator there is no client to call Init of.
NoClient ==
    /\ Connecting("container")
    /\ Loaded # {} /\ container = Nil
    /\ Panics("nil client")

\* A slip: the local address is not looked at again before the dial.
ServerParses(c) == c.server = "url"

\* CreateWebSocketConnectionConfig: both addresses parse.
CreateWebSocketConnectionConfig(c) == c.server = "url" /\ c.local = "url"

\* The configuration is refused or the dial fails: the status is false.
DialFails ==
    /\ Connecting("container")
    /\ Loaded # {} /\ container # Nil
    /\ GoesTo("false")
    /\ dialed' = IF CreateWebSocketConnectionConfig(container) THEN container ELSE dialed
    /\ UNCHANGED <<by, registered, added>>

DialSucceeds ==
    /\ Connecting("container")
    /\ Loaded # {} /\ container # Nil
    /\ CreateWebSocketConnectionConfig(container)
    /\ dialed' = container
    /\ GoesTo("registering")
    /\ UNCHANGED <<by, registered, added>>

\* AccountDefEntryBuilder: the definition of a custom account field.
AccountDefEntryOf(name) ==
    [mandatory |-> TRUE,
     custom_definition |-> [name |-> name, displayName |-> name, description |-> name,
                            primitive_value |-> "STRING"]]

\* What ProbeInfoBuilder fills in.
ProbeInfoOf(p) ==
    [probeType |-> p.probeType, probeCategory |-> "category",
     supplyChainDefinitionSet |-> GetSupplyChainDefinition[p.RegistrationClient],
     accountDefinition |-> GetAccountDefinition[p.RegistrationClient]]

\* A slip: the identifying field is left to the builder.
ProbeInfoUnidentified(p) == ProbeInfoOf(p)

GetProbeInfo(p) ==
    With(ProbeInfoOf(p), "targetIdentifierField", GetIdentifyingFields[p.RegistrationClient])

\* MakeContainerInfo: the map gives its probes in any order.
MakeContainerInfo ==
    {[probes |-> [i \in 1 .. Len(order) |-> GetProbeInfo(order[i])]]
        : order \in SetToSeqs(Loaded)}

HaveRegistrationClients == \A p \in Loaded : p.RegistrationClient # Nil

\* GetProbeInfo calls the registration client.
NoRegistrationClient ==
    /\ Connecting("registering")
    /\ ~HaveRegistrationClients
    /\ Panics("nil registration client")

\* What cannot be written is not sent, and no answer comes.
NotWritten ==
    /\ Connecting("registering")
    /\ HaveRegistrationClients
    /\ \E info \in MakeContainerInfo : ~ContainerInfo(info)
    /\ GoesTo("waits")
    /\ UNCHANGED <<by, dialed, registered, added>>

Registered ==
    /\ Connecting("registering")
    /\ HaveRegistrationClients
    /\ \E info \in MakeContainerInfo :
         /\ ContainerInfo(info)
         /\ registered' = info
    /\ GoesTo("true")
    /\ UNCHANGED <<by, dialed, added>>

\* createTurboTargets names the probe of the service, which may have none.
NoProbeInService ==
    /\ Connecting(conn)
    /\ conn \in {"true", "false"}
    /\ tap[by].probe = Nil
    /\ Panics("nil probe")

\* The application may connect again.
NotRegistered ==
    /\ Connecting("false")
    /\ tap[by].probe # Nil
    /\ GoesTo("idle")
    /\ by' = Nil /\ dialed' = Nil
    /\ UNCHANGED <<registered, added>>

\* GetTargetInstance: the keys and values, as the getters give them.
InputFields(values) ==
    [i \in 1 .. Len(values) |-> [key |-> Get(values[i], "key", ""),
                                 stringValue |-> Get(values[i], "stringValue", "")]]

\* GetProbeTargets: one target per discovery client.
GetProbeTargets(p) ==
    {[type |-> p.probeType, address |-> a,
      inputFields |-> InputFields(GetAccountValues[p.DiscoveryClientMap[a]])]
        : a \in DOMAIN p.DiscoveryClientMap}

DescribesTargets(p) ==
    \A a \in DOMAIN p.DiscoveryClientMap : GetAccountValues[p.DiscoveryClientMap[a]] # Nil

TargetInfosGiven ==
    /\ tap[by].probe # Nil
    /\ DescribesTargets(tap[by].probe)

\* GetProbeTargets sets the type and the field of what the clients give.
NoTargetInfo ==
    /\ Connecting("true")
    /\ tap[by].probe # Nil /\ ~TargetInfosGiven
    /\ Panics("nil target info")

\* A service whose builder was given no communicator has no REST client.
NoRestClient ==
    /\ Connecting("true")
    /\ TargetInfosGiven
    /\ ~tap[by].client
    /\ Panics("nil REST client")

\* createTurboTargets; which of the targets the server takes is in Handshake.
AddsTargets ==
    /\ Connecting("true")
    /\ TargetInfosGiven
    /\ tap[by].client
    /\ added' = GetProbeTargets(tap[by].probe)
    /\ GoesTo("serving")
    /\ UNCHANGED <<by, dialed, registered>>

-----------------------------------------------------------------------------
(* A request: TurboProbe. *)

\* A slip: the key of an account value is not looked at.
LastValue(field, values) ==
    IF values = <<>> THEN "" ELSE Get(Last(values), "stringValue", "")

\* The last value under the identifying field is the address.
AddressIn(field, values) ==
    LET hit == SelectLastInSeq(values, LAMBDA v : Get(v, "key", "") = field)
    IN  IF hit = 0 THEN "" ELSE Get(values[hit], "stringValue", "")

\* The discovery client of the address, or Nil.
GetTurboDiscoveryClient(p, values) ==
    LET address == AddressIn(GetIdentifyingFields[p.RegistrationClient], values)
    IN  Get(p.DiscoveryClientMap, address, Nil)

\* createValidationErrorDTO and createDiscoveryErrorDTO.
CreateErrorDTO == [errorDTO |-> <<[severity |-> "CRITICAL", description |-> "error"]>>]

\* A slip: the action is over, so that there is no progress to report.
ActionErrorWithoutProgress ==
    [response |-> [actionResponseState |-> "FAILED", responseDescription |-> "error"]]

CreateActionErrorDTO ==
    [response |-> [actionResponseState |-> "FAILED", responseDescription |-> "error",
                   progress |-> 100]]

\* The message a handler makes of what the probe returned; it is the probe's own if
\* no client of the application's made it, which we take to be whole.
SetResponse(kind, dto) ==
    CASE kind = "Discovery" -> [messageID |-> 1, discoveryResponse |-> dto]
      [] kind = "Validation" -> [messageID |-> 1, validationResponse |-> dto]
      [] kind = "Action" -> [messageID |-> 1, actionResponse |-> dto]

OwnReply(kind, dto) == [own |-> TRUE, message |-> SetResponse(kind, dto)]
ClientsReply == [own |-> FALSE, message |-> Nil]

\* DiscoverTarget and ValidateTarget: an unknown target, and an error of the client,
\* are answered by the probe.
AsksTarget(kind, p, values) ==
    \/ reply' = OwnReply(kind, CreateErrorDTO)
    \/ GetTurboDiscoveryClient(p, values) # Nil /\ reply' = ClientsReply

\* ExecuteAction does not look for the target.
AsksAction(p) ==
    \/ reply' = OwnReply("Action", CreateActionErrorDTO)
    \/ p.ActionClient /\ reply' = ClientsReply

\* What the server knows of targets: those that were added, and one without account values.
KnownValues == {x.inputFields : x \in added} \cup {<<>>}

\* What the server may ask; an action need not come with what is to be executed.
ServerMessages(kind, type, values) ==
    LET request == [probeType |-> type, accountValue |-> values]
    IN  CASE kind = "Discovery" -> {[discoveryRequest |-> request]}
          [] kind = "Validation" -> {[validationRequest |-> request]}
          [] kind = "Action" ->
                {[actionRequest |-> request],
                 [actionRequest |->
                    With(request, "actionExecutionDTO", [actionType |-> "MOVE"])]}

\* A request the endpoint can parse, for a probe of the type the container looks up.
ServerAsks(kind, type, values) ==
    /\ Running
    /\ conn = "serving" /\ reply = Nil
    /\ values \in KnownValues
    /\ \E m \in ServerMessages(kind, type, values) : MediationServerMessage(m)
    /\ allProbes[type] # Nil
    /\ IF kind = "Action" THEN AsksAction(allProbes[type])
                          ELSE AsksTarget(kind, allProbes[type], values)
    /\ UNCHANGED <<builderVars, serviceVars, containerVars, sessionVars, crash>>

-----------------------------------------------------------------------------

SetupInit ==
    /\ pb = Nil
    /\ refused = FALSE
    /\ tap = [s \in Services |-> NewTAPServiceBuilder]
    /\ created = {}
    /\ allProbes = NoProbes
    /\ loader = NoProbes
    /\ container = Nil
    /\ conn = "idle"
    /\ by = Nil
    /\ dialed = Nil
    /\ registered = Nil
    /\ added = {}
    /\ reply = Nil
    /\ calls = 0
    /\ crash = "none"

SetupNext ==
    \/ \E type \in ProbeTypes \cup {Nil} : NewProbeBuilder(type)
    \/ \E client \in RegistrationClients \cup {Nil} : RegisteredBy(client)
    \/ \E address \in Addresses \cup {""}, client \in DiscoveryClients \cup {Nil} :
          DiscoversTarget(address, client)
    \/ \E client \in BOOLEAN : ExecutesActionsBy(client)
    \/ \E s \in Services : WithTurboProbe(s) \/ CreateService(s) \/ ConnectToTurbo(s)
    \/ \E s \in Services, c \in Configs :
          \/ WithTurboCommunicator(s, c)
          \/ \E d \in ParseTurboCommunicationConfig(c) : WithTurboCommunicator(s, d)
    \/ NoProbesToRegister \/ NoClient \/ DialFails \/ DialSucceeds
    \/ NoRegistrationClient \/ NotWritten \/ Registered
    \/ NoProbeInService \/ NotRegistered \/ NoTargetInfo \/ NoRestClient \/ AddsTargets
    \/ \E kind \in {"Discovery", "Validation", "Action"}, type \in ProbeTypes :
          \E values \in KnownValues : ServerAsks(kind, type, values)

SetupSpec == SetupInit /\ [][SetupNext]_setupVars

-----------------------------------------------------------------------------
(* Properties. *)

SetupTypeOK ==
    /\ pb # Nil => /\ pb.probeType \in ProbeTypes \cup {Nil}
                   /\ pb.registrationClient \in RegistrationClients \cup {Nil}
                   /\ DOMAIN pb.discoveryClientMap \subseteq Addresses
                   /\ {pb.actionClient, pb.err} \subseteq BOOLEAN
    /\ \A s \in Services : tap[s].probe # Nil => tap[s].probe.probeType \in ProbeTypes
    /\ \A t \in ProbeTypes : allProbes[t] # Nil => allProbes[t].probeType = t
    /\ registered # Nil => ContainerInfo(registered)
    /\ conn \in {"idle", "container", "waits", "registering", "false", "true",
                 "serving"}
    /\ by \in Services \cup {Nil}
    /\ created \subseteq Services
    /\ calls \in 0 .. MaxCalls
    /\ refused \in BOOLEAN

(***************************************************************************)
(* A probe is never loaded if any call on its builder was refused, however *)
(* many good calls followed and whichever error the builder reported last; *)
(* and none is loaded that has no target (probe_builder.go:70-138,         *)
(* tap_service.go:124-144).                                                *)
(***************************************************************************)
NothingRefusedIsLoaded ==
    \A p \in Loaded : ~p.refused /\ DOMAIN p.DiscoveryClientMap # {}

\* The probe s was given is the last of its type that the container was given.
HoldsItsType(s) == loader[tap[s].probe.probeType] = s

(***************************************************************************)
(* The container asks the probe whose targets a service adds as long as no *)
(* other service was given a probe of that type after it: whatever probes  *)
(* of the same and of other types the service and the others had before,   *)
(* and whichever of their calls failed (tap_service.go:124-144,            *)
(* mediation_container.go:87-108).  What befalls a service that was        *)
(* displaced is TargetsAreControlled.                                      *)
(***************************************************************************)
ServiceProbeLoaded ==
    \A s \in Services :
        tap[s].probe # Nil /\ HoldsItsType(s)
            => allProbes[tap[s].probe.probeType] = tap[s].probe

(***************************************************************************)
(* The container ignores the verdict of its validation, which stops at the *)
(* first error before it has filled in the defaults; a dial is still never *)
(* made with a path, user or password missing                              *)
(* (mediation_container.go:51, mediation_communication_config.go:40-76,    *)
(* client_websocket_transport.go:17-36).                                   *)
(***************************************************************************)
DialsComplete == dialed # Nil => dialed.login = "set"

\* A builder is a record, and one that has been refused anything has its error.
BuilderInv ==
    pb # Nil =>
        /\ pb = [probeType |-> pb.probeType, registrationClient |-> pb.registrationClient,
                 discoveryClientMap |-> pb.discoveryClientMap,
                 actionClient |-> pb.actionClient, err |-> pb.err]
        /\ pb.probeType \in ProbeTypes \cup {Nil}
        /\ pb.err \in BOOLEAN
        /\ pb.probeType = Nil \/ refused => pb.err

\* A service names a probe of a type the container has room for.
ServiceInv ==
    /\ tap = [s \in Services |-> [probe |-> tap[s].probe, client |-> tap[s].client,
                                  err |-> tap[s].err]]
    /\ allProbes = [t \in ProbeTypes |-> allProbes[t]]
    /\ loader = [t \in ProbeTypes |-> loader[t]]
    /\ created \subseteq Services
    /\ \A s \in Services : tap[s].probe # Nil => tap[s].probe.probeType \in ProbeTypes

\* ConnectToTurbo is that of a service.
SessionInv == IF conn = "idle" THEN by = Nil ELSE by \in Services

\* Whatever validation left of the container's configuration, it lacks nothing if it
\* can be dialed with.
ContainerInv ==
    container # Nil =>
        (CreateWebSocketConnectionConfig(container) => container.login = "set")

\* A map of discovery clients holds those the application gave.
Clients(map) == map \in [DOMAIN map -> DiscoveryClients]

\* Targets come from the probe of the service that connected, whose clients all describe one.
TargetsInv ==
    /\ pb # Nil => Clients(pb.discoveryClientMap)
    /\ \A s \in Services : tap[s].probe # Nil => Clients(tap[s].probe.DiscoveryClientMap)
    /\ added # {} => /\ conn = "serving"
                     /\ TargetInfosGiven
                     /\ added = GetProbeTargets(tap[by].probe)

(***************************************************************************)
(* Why the three properties above and TargetsAreFound hold: the error of a *)
(* builder outlives the calls that follow it, service and container are    *)
(* only ever given a probe together, validation and dial look at the same  *)
(* addresses, and a service that serves keeps its probe                    *)
(* (probe_builder.go:102-138, tap_service.go:25-61, 135-137,               *)
(* client_websocket_transport.go:17-26).                                   *)
(***************************************************************************)
SetupInv ==
    /\ BuilderInv
    /\ ServiceInv
    /\ ContainerInv
    /\ SessionInv
    /\ TargetsInv
    /\ NothingRefusedIsLoaded
    /\ ServiceProbeLoaded
    /\ DialsComplete

\* What the application owes the library.
WholeProbe(p) ==
    /\ p.RegistrationClient # Nil
    /\ \A i \in 1 .. Len(GetSupplyChainDefinition[p.RegistrationClient]) :
          TemplateDTO(GetSupplyChainDefinition[p.RegistrationClient][i])
    /\ \A i \in 1 .. Len(GetAccountDefinition[p.RegistrationClient]) :
          AccountDefEntry(GetAccountDefinition[p.RegistrationClient][i])
    /\ DescribesTargets(p)

(***************************************************************************)
(* Once connecting, the process dies, or waits for ever, only if the       *)
(* service lacks its communicator or its probe, or if its probe or one of  *)
(* the loaded probes, other services' included, lacks its registration     *)
(* client, a part of its supply chain or account definition, or a target's *)
(* description: a whole set-up is registered or told that it is not        *)
(* (tap_service.go:25-61, mediation_container.go:65-79,                    *)
(* sdk_client_protocol.go:88-147, turbo_probe.go:158-194).                 *)
(***************************************************************************)
WholeSetupsAreTold ==
    conn = "waits" \/ crash \notin {"none", "assignment to entry in nil map"} =>
        \/ container = Nil \/ ~tap[by].client \/ tap[by].probe = Nil
        \/ \E p \in Loaded \cup {tap[by].probe} : ~WholeProbe(p)

\* All values under the identifying field, of which there are some, name the target.
Identified(field, x) ==
    /\ \E i \in 1 .. Len(x.inputFields) : x.inputFields[i].key = field
    /\ \A i \in 1 .. Len(x.inputFields) :
          x.inputFields[i].key = field => x.inputFields[i].stringValue = x.address

\* What the container finds for the account values of x is the client x came from.
FindsItsClient(x) ==
    GetTurboDiscoveryClient(allProbes[x.type], x.inputFields)
        = tap[by].probe.DiscoveryClientMap[x.address]

(***************************************************************************)
(* A request about a target that was added reaches the discovery client    *)
(* the target came from, whatever other account values there are, if the   *)
(* client's account values name the identifier it was registered under and *)
(* no other service was given a probe of the type after this one           *)
(* (turbo_probe.go:69-87, 158-170, turbo_target_info.go:34-49).            *)
(***************************************************************************)
TargetsAreFound ==
    \A x \in added :
        HoldsItsType(by) /\ Identified(GetIdentifyingFields[allProbes[x.type].RegistrationClient], x)
            => FindsItsClient(x)


(***************************************************************************)
(* What the probe answers itself, for a target it does not know, without   *)
(* an executor, or for a client's error, can be written: the server gets   *)
(* an answer (turbo_probe.go:89-154, 196-240).                             *)
(***************************************************************************)
OwnAnswersAreWritten ==
    reply # Nil /\ reply.own => MediationClientMessage(reply.message)

(***************************************************************************)
(* "Expected" of a builder without a registration client is                *)
(* ErrorInvalidRegistrationClient (probe_builder_test.go:9-17): no probe   *)
(* is loaded that cannot be registered.                                    *)
(***************************************************************************)
LoadedProbesCanRegister == \A p \in Loaded : p.RegistrationClient # Nil
=============================================================================
