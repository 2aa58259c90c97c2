------------------------ MODULE ServiceSetupProofs ------------------------
(***************************************************************************)
(* What is loaded, and what is dialed with, for any probe types, targets,  *)
(* clients and configurations and any number of calls.                     *)
(***************************************************************************)
EXTENDS ServiceSetup, WireFormatProofs, FiniteSetTheorems

\* What the validation looks at, in a configuration of the application or the container.
ConfigLike(c) ==
    /\ c.server \in Urls /\ c.local \in Urls
    /\ c = [x \in DOMAIN c |-> c[x]]
    /\ {"server", "local", "login"} \subseteq DOMAIN c

\* Validation leaves nothing missing in a configuration that can be dialed with.
LEMMA ValidatedLacksNothing ==
    ASSUME NEW c, ConfigLike(c),
           CreateWebSocketConnectionConfig(ValidateMediationContainerConfig(c))
    PROVE  ValidateMediationContainerConfig(c).login = "set"
  <1>1. c.server = "url" /\ Local(c) = "url"
    BY DEF CreateWebSocketConnectionConfig, ValidateMediationContainerConfig, ConfigLike,
           ValidateServerMeta, ValidateWebSocketConfig, Local
  <1>2. QED
    BY <1>1 DEF ValidateMediationContainerConfig, ValidateServerMeta, ConfigLike,
                ValidateWebSocketConfig

\* What the container is given of a configuration.
Given(c) == [server |-> c.server, local |-> c.local, login |-> c.login]

LEMMA GivenLacksNothing ==
    ASSUME NEW c \in Configs, NEW d \in {c} \cup ParseTurboCommunicationConfig(c),
           CreateWebSocketConnectionConfig(ValidateMediationContainerConfig(Given(d)))
    PROVE  ValidateMediationContainerConfig(Given(d)).login = "set"
  <1>1. /\ c.server \in Urls /\ c.local \in Urls
        /\ c \in [server : Urls, local : Urls, login : {"missing", "set"},
                  rest : {"missing", "set"}]
    BY SetupAssumption
  <1>2. d.server \in Urls /\ d.local \in Urls
    BY <1>1 DEF ParseTurboCommunicationConfig, ValidateServerMeta, Urls,
                ValidateMediationContainerConfig, ValidateWebSocketConfig, Local
  <1>3. ConfigLike(Given(d))
    BY <1>2 DEF ConfigLike, Given
  <1>4. QED
    BY <1>3, ValidatedLacksNothing

\* The invariant but for the targets.
SetupCore ==
    /\ BuilderInv
    /\ ServiceInv
    /\ ContainerInv
    /\ SessionInv
    /\ NothingRefusedIsLoaded
    /\ ServiceProbeLoaded
    /\ DialsComplete

LEMMA SetupParts == SetupInv <=> SetupCore /\ TargetsInv
  BY DEF SetupInv, SetupCore

\* The set-up begins in order.
LEMMA SetupCoreInit == SetupInit => SetupCore
  BY DEF SetupInit, SetupCore, BuilderInv, ServiceInv, ContainerInv, SessionInv,
         NothingRefusedIsLoaded, ServiceProbeLoaded, DialsComplete, NewTAPServiceBuilder,
         NoProbes, Loaded

\* A call on a probe builder keeps its error, if it has one.
LEMMA BuilderKept ==
    ASSUME SetupCore,
           \/ \E type \in ProbeTypes \cup {Nil} : NewProbeBuilder(type)
           \/ \E client \in RegistrationClients \cup {Nil} : RegisteredBy(client)
           \/ \E address \in Addresses \cup {""}, client \in DiscoveryClients \cup {Nil} :
                 DiscoversTarget(address, client)
           \/ \E client \in BOOLEAN : ExecutesActionsBy(client)
    PROVE  SetupCore'
  <1> USE DEF SetupCore, BuilderInv
  <1>1. UNCHANGED <<serviceVars, containerVars, sessionVars>>
    BY DEF NewProbeBuilder, RegisteredBy, DiscoversTarget, ExecutesActionsBy, OnBuilder
  <1>2. BuilderInv'
    <2>1. ASSUME NEW type \in ProbeTypes \cup {Nil}, NewProbeBuilder(type) PROVE BuilderInv'
      BY <2>1 DEF NewProbeBuilder
    <2>2. ASSUME PbFails, pb # Nil PROVE BuilderInv'
      BY <2>2 DEF PbFails
    <2>3. ASSUME NEW client \in RegistrationClients \cup {Nil}, RegisteredBy(client)
          PROVE  BuilderInv'
      BY <2>2, <2>3 DEF RegisteredBy, OnBuilder
    <2>4. ASSUME NEW address, NEW client, DiscoversTarget(address, client) PROVE BuilderInv'
      <3>1. pb # Nil
        BY <2>4 DEF DiscoversTarget, OnBuilder
      <3>2. CASE PbFails
        BY <2>2, <3>1, <3>2
      <3>3. CASE /\ pb' = [pb EXCEPT !.discoveryClientMap = With(@, address, client)]
                 /\ UNCHANGED refused
        <4> DEFINE map == With(pb.discoveryClientMap, address, client)
        <4>1. pb' = [pb EXCEPT !.discoveryClientMap = map]
          BY <3>3
        <4> HIDE DEF map
        <4>2. QED
          BY <3>1, <3>3, <4>1
      <3>4. CASE UNCHANGED <<pb, refused>>
        BY <3>4
      <3>5. QED
        BY <2>4, <3>2, <3>3, <3>4 DEF DiscoversTarget
    <2>5. ASSUME NEW client \in BOOLEAN, ExecutesActionsBy(client) PROVE BuilderInv'
      BY <2>2, <2>5 DEF ExecutesActionsBy, OnBuilder
    <2>6. QED
      BY <2>1, <2>3, <2>4, <2>5
  <1>3. QED
    <2>1. UNCHANGED <<tap, created, allProbes, loader, container, conn, by, dialed>>
      BY <1>1 DEF serviceVars, containerVars, sessionVars
    <2>2. (ServiceInv /\ ServiceProbeLoaded)'
      BY <2>1 DEF ServiceInv, ServiceProbeLoaded, HoldsItsType
    <2>3. (ContainerInv /\ SessionInv /\ NothingRefusedIsLoaded /\ DialsComplete)'
      BY <2>1 DEF ContainerInv, SessionInv, NothingRefusedIsLoaded, Loaded, DialsComplete
    <2>4. QED
      BY <1>2, <2>2, <2>3

\* A builder that fails keeps its service's probe.
LEMMA ServiceFails ==
    ASSUME ServiceInv, NEW s \in Services,
           \/ \E v : tap' = [tap EXCEPT ![s].err = v]
           \/ \E v : tap' = [tap EXCEPT ![s].client = v],
           UNCHANGED <<created, allProbes, loader>>
    PROVE  /\ \A q \in Services : tap'[q].probe = tap[q].probe
           /\ ServiceInv'
           /\ ServiceProbeLoaded => ServiceProbeLoaded'
  <1> DEFINE Kept ==
                 /\ tap' = [q \in Services |-> tap'[q]]
                 /\ \A q \in Services :
                       /\ tap'[q].probe = tap[q].probe
                       /\ tap'[q] = [probe |-> tap'[q].probe, client |-> tap'[q].client,
                                     err |-> tap'[q].err]
  <1>1. Kept
    <2>1. ASSUME NEW v, tap' = [tap EXCEPT ![s].err = v] PROVE Kept
      BY <2>1 DEF ServiceInv
    <2>2. ASSUME NEW v, tap' = [tap EXCEPT ![s].client = v] PROVE Kept
      BY <2>2 DEF ServiceInv
    <2>3. QED
      BY <2>1, <2>2
  <1>2. ServiceInv'
    BY <1>1 DEF ServiceInv
  <1>3. ServiceProbeLoaded => ServiceProbeLoaded'
    BY <1>1 DEF ServiceProbeLoaded, HoldsItsType
  <1>4. QED
    BY <1>1, <1>2, <1>3

\* A probe is loaded with a type, a target and no refusal behind it; what another service
\* holds is the container's only if it is of another type.
LEMMA ProbeLoaded ==
    ASSUME SetupCore, NEW s \in Services, WithTurboProbe(s)
    PROVE  SetupCore'
  <1> USE DEF SetupCore
  <1>1. pb # Nil /\ UNCHANGED <<container, created, sessionVars>>
    BY DEF WithTurboProbe
  <1>2. (ContainerInv /\ SessionInv /\ DialsComplete)'
    BY <1>1 DEF sessionVars, ContainerInv, SessionInv, DialsComplete
  <1>3. CASE ~CanCreate
    <2>1. /\ tap' = [tap EXCEPT ![s].err = TRUE] /\ pb' = [pb EXCEPT !.err = TRUE]
          /\ refused' = TRUE /\ UNCHANGED <<allProbes, loader>>
      BY <1>3 DEF WithTurboProbe
    <2>2. BuilderInv'
      BY <1>1, <2>1 DEF BuilderInv
    <2>3. ServiceInv' /\ ServiceProbeLoaded'
      BY <1>1, <2>1, ServiceFails
    <2>4. NothingRefusedIsLoaded'
      BY <2>1 DEF NothingRefusedIsLoaded, Loaded
    <2>5. QED
      BY <1>2, <2>2, <2>3, <2>4
  <1>4. CASE CanCreate
    <2>1. pb.probeType \in ProbeTypes /\ ~refused /\ DOMAIN pb.discoveryClientMap # {}
      BY <1>1, <1>4 DEF CanCreate, BuilderInv
    <2>2. /\ TurboProbe.probeType = pb.probeType
          /\ TurboProbe.refused = refused
          /\ TurboProbe.DiscoveryClientMap = pb.discoveryClientMap
      BY DEF TurboProbe
    <2>3. /\ tap' = [tap EXCEPT ![s].probe = TurboProbe]
          /\ allProbes' = [allProbes EXCEPT ![pb.probeType] = TurboProbe]
          /\ loader' = [loader EXCEPT ![pb.probeType] = s]
          /\ UNCHANGED <<pb, refused>>
      BY <1>4, <2>2 DEF WithTurboProbe, LoadsProbe
    <2>4. BuilderInv'
      BY <2>3 DEF BuilderInv
    <2>5. /\ tap' = [q \in Services |-> tap'[q]]
          /\ \A q \in Services :
                /\ tap'[q].probe = IF q = s THEN TurboProbe ELSE tap[q].probe
                /\ tap'[q] = [probe |-> tap'[q].probe, client |-> tap'[q].client,
                              err |-> tap'[q].err]
      BY <2>3 DEF ServiceInv
    <2>6. \A t \in ProbeTypes :
             /\ allProbes'[t] = IF t = pb.probeType THEN TurboProbe ELSE allProbes[t]
             /\ loader'[t] = IF t = pb.probeType THEN s ELSE loader[t]
      BY <2>3 DEF ServiceInv
    <2>7. ServiceInv'
      <3>1. tap' = [q \in Services |-> [probe |-> tap'[q].probe, client |-> tap'[q].client,
                                       err |-> tap'[q].err]]
        BY <2>5
      <3>2. /\ allProbes' = [t \in ProbeTypes |-> allProbes'[t]]
            /\ loader' = [t \in ProbeTypes |-> loader'[t]]
        BY <2>3 DEF ServiceInv
      <3>3. \A q \in Services :
               tap'[q].probe # Nil => tap'[q].probe.probeType \in ProbeTypes
        BY <2>1, <2>2, <2>5 DEF ServiceInv
      <3>4. created' \subseteq Services
        BY <1>1 DEF ServiceInv
      <3>5. QED
        BY <3>1, <3>2, <3>3, <3>4 DEF ServiceInv
    <2>8. ServiceProbeLoaded'
      <3>1. ASSUME NEW q \in Services, tap'[q].probe # Nil, HoldsItsType(q)'
            PROVE  allProbes'[tap'[q].probe.probeType] = tap'[q].probe
        <4>1. CASE q = s
          BY <2>1, <2>2, <2>5, <2>6, <4>1
        <4>2. CASE q # s
          <5>1. tap'[q].probe = tap[q].probe /\ tap[q].probe.probeType \in ProbeTypes
            BY <2>5, <3>1, <4>2 DEF ServiceInv
          <5>2. tap[q].probe.probeType # pb.probeType /\ HoldsItsType(q)
            BY <2>6, <3>1, <4>2, <5>1 DEF HoldsItsType
          <5>3. QED
            BY <2>6, <3>1, <5>1, <5>2 DEF ServiceProbeLoaded
        <4>3. QED
          BY <4>1, <4>2
      <3>2. QED
        BY <3>1 DEF ServiceProbeLoaded
    <2>9. Loaded' \subseteq Loaded \cup {TurboProbe}
      BY <2>6 DEF Loaded
    <2>10. NothingRefusedIsLoaded'
      BY <2>1, <2>2, <2>9 DEF NothingRefusedIsLoaded
    <2>11. QED
      BY <1>2, <2>4, <2>7, <2>8, <2>10
  <1>5. QED
    BY <1>3, <1>4

\* A communicator leaves the container a configuration that lacks nothing if it can be
\* dialed with.
LEMMA CommunicatorSet ==
    ASSUME SetupCore, NEW s \in Services, NEW c \in Configs,
           \/ WithTurboCommunicator(s, c)
           \/ \E d \in ParseTurboCommunicationConfig(c) : WithTurboCommunicator(s, d)
    PROVE  SetupCore'
  <1> USE DEF SetupCore
  <1>1. PICK d \in {c} \cup ParseTurboCommunicationConfig(c) : WithTurboCommunicator(s, d)
    OBVIOUS
  <1>2. container' = ValidateMediationContainerConfig(Given(d))
    BY <1>1 DEF WithTurboCommunicator, Given
  <1>3. ContainerInv'
    BY <1>2, GivenLacksNothing DEF ContainerInv, CreateWebSocketConnectionConfig
  <1>4. /\ UNCHANGED <<builderVars, created, allProbes, loader, sessionVars>>
        /\ \/ tap' = [tap EXCEPT ![s].err = TRUE]
           \/ tap' = [tap EXCEPT ![s].client = TRUE]
    BY <1>1 DEF WithTurboCommunicator
  <1>5. ServiceInv' /\ ServiceProbeLoaded'
    BY <1>4, ServiceFails
  <1>6. QED
    BY <1>3, <1>4, <1>5 DEF builderVars, sessionVars, BuilderInv, SessionInv,
                            NothingRefusedIsLoaded, Loaded, DialsComplete

\* Nothing else touches the builders, the probes or the configurations, except that a dial
\* takes that of the container.
LEMMA SessionKept ==
    ASSUME SetupCore,
           \/ \E s \in Services : CreateService(s) \/ ConnectToTurbo(s)
           \/ NoProbesToRegister \/ NoClient \/ DialFails \/ DialSucceeds
           \/ NoRegistrationClient \/ NotWritten \/ Registered
           \/ NoProbeInService \/ NotRegistered \/ NoTargetInfo \/ NoRestClient \/ AddsTargets
           \/ \E kind \in {"Discovery", "Validation", "Action"}, type \in ProbeTypes :
                 \E values \in KnownValues : ServerAsks(kind, type, values)
           \/ UNCHANGED setupVars
    PROVE  SetupCore'
  <1> USE DEF SetupCore
  <1>1. UNCHANGED <<containerVars, tap>>
    BY DEF CreateService, ConnectToTurbo, NoProbesToRegister, NoClient, DialFails,
           DialSucceeds, NoRegistrationClient, NotWritten, Registered, NoProbeInService,
           NotRegistered, NoTargetInfo, NoRestClient, AddsTargets, ServerAsks, Connecting,
           serviceVars, setupVars
  <1>2. UNCHANGED <<pb, refused>> \/ (pb' = Nil /\ ~refused')
    BY DEF CreateService, ConnectToTurbo, NoProbesToRegister, NoClient, DialFails,
           DialSucceeds, NoRegistrationClient, NotWritten, Registered, NoProbeInService,
           NotRegistered, NoTargetInfo, NoRestClient, AddsTargets, ServerAsks, Connecting,
           setupVars, builderVars
  <1>3. created \subseteq Services => created' \subseteq Services
    BY DEF CreateService, ConnectToTurbo, NoProbesToRegister, NoClient, DialFails,
           DialSucceeds, NoRegistrationClient, NotWritten, Registered, NoProbeInService,
           NotRegistered, NoTargetInfo, NoRestClient, AddsTargets, ServerAsks, Connecting,
           setupVars, serviceVars
  <1>4. \/ UNCHANGED <<conn, by>>
        \/ conn' # "idle" /\ by' \in Services
        \/ conn # "idle" /\ conn' # "idle" /\ by' = by
        \/ conn' = "idle" /\ by' = Nil
    BY DEF CreateService, ConnectToTurbo, NoProbesToRegister, NoClient, DialFails,
           DialSucceeds, NoRegistrationClient, NotWritten, Registered, NoProbeInService,
           NotRegistered, NoTargetInfo, NoRestClient, AddsTargets, ServerAsks, Connecting,
           Panics, GoesTo, setupVars, sessionVars
  <1>5. \/ dialed' \in {dialed, Nil}
        \/ /\ container # Nil /\ CreateWebSocketConnectionConfig(container)
           /\ dialed' = container
    BY DEF CreateService, ConnectToTurbo, NoProbesToRegister, NoClient, DialFails,
           DialSucceeds, NoRegistrationClient, NotWritten, Registered, NoProbeInService,
           NotRegistered, NoTargetInfo, NoRestClient, AddsTargets, ServerAsks, Panics,
           setupVars, sessionVars
  <1>6. BuilderInv'
    BY <1>2 DEF BuilderInv
  <1>7. (ServiceInv /\ ServiceProbeLoaded)'
    BY <1>1, <1>3 DEF containerVars, ServiceInv, ServiceProbeLoaded, HoldsItsType
  <1>8. (ContainerInv /\ NothingRefusedIsLoaded)'
    BY <1>1 DEF containerVars, ContainerInv, NothingRefusedIsLoaded, Loaded,
                CreateWebSocketConnectionConfig
  <1>9. SessionInv'
    BY <1>4 DEF SessionInv
  <1>10. DialsComplete'
    BY <1>5 DEF DialsComplete, ContainerInv
  <1>11. QED
    BY <1>6, <1>7, <1>8, <1>9, <1>10

-----------------------------------------------------------------------------
(* The targets. *)

\* A builder without discovery clients, and one more of them.
LEMMA NoClients == Clients(<<>>)
  <1>1. <<>> \in [1 .. 0 -> DiscoveryClients] /\ Len(<<>>) = 0
    OBVIOUS
  <1>2. DOMAIN <<>> = 1 .. 0
    BY <1>1
  <1>3. QED
    BY <1>1, <1>2 DEF Clients

LEMMA AnotherClient ==
    ASSUME NEW map, Clients(map), NEW address, NEW client \in DiscoveryClients
    PROVE  Clients(With(map, address, client))
  BY DEF Clients, With

\* Until a service serves, no target has been added.
LEMMA TargetsKept ==
    ASSUME SetupCore, TargetsInv, [SetupNext]_setupVars
    PROVE  TargetsInv'
  <1> DEFINE Pb == pb # Nil => Clients(pb.discoveryClientMap)
             Tap == \A s \in Services :
                       tap[s].probe # Nil => Clients(tap[s].probe.DiscoveryClientMap)
             Added == added # {} => /\ conn = "serving"
                                    /\ TargetInfosGiven
                                    /\ added = GetProbeTargets(tap[by].probe)
  <1>1. Pb /\ Tap /\ Added
    BY DEF TargetsInv
  <1>2. AtHome => added = {}
    BY <1>1 DEF AtHome
  <1>3. ASSUME UNCHANGED <<pb, tap, conn, by, added>> PROVE TargetsInv'
    BY <1>1, <1>3 DEF TargetsInv, TargetInfosGiven, DescribesTargets, GetProbeTargets
  <1>4. ASSUME Pb', Tap', added' = {} PROVE TargetsInv'
    BY <1>4 DEF TargetsInv
  <1>5. ASSUME \/ \E type \in ProbeTypes \cup {Nil} : NewProbeBuilder(type)
               \/ \E client \in RegistrationClients \cup {Nil} : RegisteredBy(client)
               \/ \E address \in Addresses \cup {""}, client \in DiscoveryClients \cup {Nil} :
                     DiscoversTarget(address, client)
               \/ \E client \in BOOLEAN : ExecutesActionsBy(client)
        PROVE  TargetsInv'
    <2>1. AtHome /\ UNCHANGED <<tap, added>>
      BY <1>5 DEF NewProbeBuilder, RegisteredBy, DiscoversTarget, ExecutesActionsBy, OnBuilder,
                  serviceVars, sessionVars
    <2>2. pb # Nil => pb = [probeType |-> pb.probeType,
                            registrationClient |-> pb.registrationClient,
                            discoveryClientMap |-> pb.discoveryClientMap,
                            actionClient |-> pb.actionClient, err |-> pb.err]
      BY DEF SetupCore, BuilderInv
    <2>3. ASSUME pb # Nil, pb' # Nil => pb'.discoveryClientMap = pb.discoveryClientMap PROVE Pb'
      BY <1>1, <2>3
    <2>4. ASSUME NEW type, NewProbeBuilder(type) PROVE Pb'
      <3>1. pb'.discoveryClientMap = <<>>
        BY <2>4 DEF NewProbeBuilder
      <3>2. QED
        BY <3>1, NoClients
    <2>5. ASSUME PbFails, pb # Nil PROVE Pb'
      BY <2>2, <2>3, <2>5 DEF PbFails
    <2>6. ASSUME NEW client, RegisteredBy(client) PROVE Pb'
      BY <2>2, <2>3, <2>5, <2>6 DEF RegisteredBy, OnBuilder
    <2>7. ASSUME NEW address, NEW client \in DiscoveryClients \cup {Nil},
                 DiscoversTarget(address, client)
          PROVE  Pb'
      <3>1. pb # Nil
        BY <2>7 DEF DiscoversTarget, OnBuilder
      <3>2. CASE client # Nil
                 /\ pb' = [pb EXCEPT !.discoveryClientMap = With(@, address, client)]
        <4> DEFINE map == With(pb.discoveryClientMap, address, client)
        <4>1. Clients(map)
          BY <1>1, <2>7, <3>1, <3>2, AnotherClient
        <4>2. pb' = [pb EXCEPT !.discoveryClientMap = map]
          BY <3>2
        <4> HIDE DEF map
        <4>3. pb'.discoveryClientMap = map
          BY <2>2, <3>1, <4>2
        <4>4. QED
          BY <4>1, <4>3
      <3>3. CASE UNCHANGED pb
        BY <1>1, <3>3
      <3>4. QED
        BY <2>5, <2>7, <3>1, <3>2, <3>3 DEF DiscoversTarget
    <2>8. ASSUME NEW client \in BOOLEAN, ExecutesActionsBy(client) PROVE Pb'
      BY <2>2, <2>3, <2>5, <2>8 DEF ExecutesActionsBy, OnBuilder
    <2>9. Pb'
      BY <1>5, <2>4, <2>6, <2>7, <2>8
    <2>10. QED
      BY <1>1, <1>2, <1>4, <2>1, <2>9
  <1>6. ASSUME NEW s \in Services, WithTurboProbe(s) PROVE TargetsInv'
    <2>1. /\ AtHome /\ pb # Nil /\ UNCHANGED <<added, created>>
          /\ \/ UNCHANGED pb /\ tap' = [tap EXCEPT ![s].probe = TurboProbe]
             \/ /\ pb' = [pb EXCEPT !.err = TRUE] /\ tap' = [tap EXCEPT ![s].err = TRUE]
                /\ UNCHANGED <<allProbes, loader>>
      BY <1>6 DEF WithTurboProbe, sessionVars
    <2>2. pb'.discoveryClientMap = pb.discoveryClientMap
      BY <2>1 DEF SetupCore, BuilderInv
    <2>3. \A q \in Services : tap'[q].probe \in {TurboProbe, tap[q].probe}
      <3>1. CASE tap' = [tap EXCEPT ![s].probe = TurboProbe]
        BY <3>1 DEF SetupCore, ServiceInv
      <3>2. CASE tap' = [tap EXCEPT ![s].err = TRUE]
        BY <3>2 DEF SetupCore, ServiceInv
      <3>3. QED
        BY <2>1, <3>1, <3>2
    <2>4. TurboProbe.DiscoveryClientMap = pb.discoveryClientMap
      BY DEF TurboProbe
    <2>5. Pb' /\ Tap'
      BY <1>1, <2>1, <2>2, <2>3, <2>4
    <2>6. QED
      BY <1>2, <1>4, <2>1, <2>5
  <1>7. ASSUME NEW s \in Services, NEW c, WithTurboCommunicator(s, c) PROVE TargetsInv'
    <2>1. /\ AtHome /\ UNCHANGED <<pb, added, created, allProbes, loader>>
          /\ \/ tap' = [tap EXCEPT ![s].err = TRUE]
             \/ tap' = [tap EXCEPT ![s].client = TRUE]
      BY <1>7 DEF WithTurboCommunicator, builderVars, sessionVars
    <2>2. \A q \in Services : tap'[q].probe = tap[q].probe
      BY <2>1, ServiceFails DEF SetupCore
    <2>3. QED
      BY <1>1, <1>2, <1>4, <2>1, <2>2
  <1>8. ASSUME NEW s \in Services, CreateService(s) \/ ConnectToTurbo(s) PROVE TargetsInv'
    <2>1. /\ AtHome /\ UNCHANGED <<tap, added>>
          /\ pb' = pb \/ pb' = Nil
      BY <1>8 DEF CreateService, ConnectToTurbo, builderVars, serviceVars, sessionVars
    <2>2. Pb' /\ Tap'
      BY <1>1, <2>1
    <2>3. QED
      BY <1>2, <1>4, <2>1, <2>2
  <1>9. CASE \/ NoProbesToRegister \/ NoClient \/ DialFails \/ DialSucceeds
             \/ NoRegistrationClient \/ NotWritten \/ Registered
             \/ NoProbeInService \/ NotRegistered \/ NoTargetInfo \/ NoRestClient
    <2>1. UNCHANGED <<pb, tap, added>> /\ conn # "serving"
      BY <1>9 DEF NoProbesToRegister, NoClient, DialFails, DialSucceeds, NoRegistrationClient,
                  NotWritten, Registered, NoProbeInService, NotRegistered, NoTargetInfo,
                  NoRestClient, Connecting, Panics, builderVars, serviceVars, sessionVars
    <2>2. QED
      BY <1>1, <1>4, <2>1
  <1>10. CASE AddsTargets
    <2>1. /\ UNCHANGED <<pb, tap, by>> /\ TargetInfosGiven
          /\ added' = GetProbeTargets(tap[by].probe) /\ conn' = "serving"
      BY <1>10 DEF AddsTargets, Connecting, GoesTo, builderVars, serviceVars
    <2>2. QED
      BY <1>1, <2>1 DEF TargetsInv, TargetInfosGiven, DescribesTargets, GetProbeTargets
  <1>11. ASSUME NEW kind, NEW type, NEW values, ServerAsks(kind, type, values)
         PROVE  TargetsInv'
    BY <1>3, <1>11 DEF ServerAsks, builderVars, serviceVars, sessionVars
  <1>12. CASE UNCHANGED setupVars
    BY <1>3, <1>12 DEF setupVars, builderVars, serviceVars, sessionVars
  <1>13. QED
    BY <1>5, <1>6, <1>7, <1>8, <1>9, <1>10, <1>11, <1>12 DEF SetupNext

(***************************************************************************)
(* The inductive invariant: builders keep their errors, the container      *)
(* shares the last probe of each type with the service that loaded it, and *)
(* what was validated can be dialed with.                                  *)
(***************************************************************************)
THEOREM SetupInvariant == SetupSpec => []SetupInv
  <1>1. ASSUME SetupInv, [SetupNext]_setupVars PROVE SetupInv'
    <2>1. SetupCore'
      BY <1>1, SetupParts, BuilderKept, ProbeLoaded, CommunicatorSet, SessionKept DEF SetupNext
    <2>2. TargetsInv'
      BY <1>1, SetupParts, TargetsKept
    <2>3. QED
      BY <2>1, <2>2 DEF SetupInv, SetupCore
  <1>2. SetupInit => SetupInv
    <2>1. SetupInit => TargetsInv
      BY DEF SetupInit, TargetsInv, NewTAPServiceBuilder
    <2>2. QED
      BY <2>1, SetupParts, SetupCoreInit
  <1>3. QED
    BY <1>1, <1>2, PTL DEF SetupSpec

\* No probe is loaded if a call on its builder was refused, or if it has no target
\* (probe_builder.go:70-138).
THEOREM NothingRefusedIsLoadedHolds == SetupSpec => []NothingRefusedIsLoaded
  BY SetupInvariant, PTL DEF SetupInv

\* The container asks the probe whose targets a service adds unless another service was
\* given a probe of the type after it (tap_service.go:124-144, mediation_container.go:87-108).
THEOREM ServiceProbeLoadedHolds == SetupSpec => []ServiceProbeLoaded
  BY SetupInvariant, PTL DEF SetupInv

\* A dial is never made with a path, user or password missing
\* (mediation_communication_config.go:40-76).
THEOREM DialsCompleteHolds == SetupSpec => []DialsComplete
  BY SetupInvariant, PTL DEF SetupInv

-----------------------------------------------------------------------------
(* Types. *)

LEMMA NoDomain == DOMAIN <<>> = {}
  <1>1. <<>> \in Seq({}) /\ Len(<<>>) = 0
    OBVIOUS
  <1>2. DOMAIN <<>> = 1 .. Len(<<>>)
    BY <1>1, LenProperties
  <1>3. 1 .. 0 = {}
    OBVIOUS
  <1>4. QED
    BY <1>1, <1>2, <1>3

\* A call on a probe builder keeps it in type.
LEMMA BuilderTyped ==
    ASSUME SetupInv, SetupTypeOK,
           \/ \E type \in ProbeTypes \cup {Nil} : NewProbeBuilder(type)
           \/ \E client \in RegistrationClients \cup {Nil} : RegisteredBy(client)
           \/ \E address \in Addresses \cup {""}, client \in DiscoveryClients \cup {Nil} :
                 DiscoversTarget(address, client)
           \/ \E client \in BOOLEAN : ExecutesActionsBy(client)
    PROVE  SetupTypeOK'
  <1> DEFINE BuilderOK ==
                 pb # Nil => /\ pb.probeType \in ProbeTypes \cup {Nil}
                             /\ pb.registrationClient \in RegistrationClients \cup {Nil}
                             /\ DOMAIN pb.discoveryClientMap \subseteq Addresses
                             /\ {pb.actionClient, pb.err} \subseteq BOOLEAN
             Fields ==
                 pb = [probeType |-> pb.probeType, registrationClient |-> pb.registrationClient,
                       discoveryClientMap |-> pb.discoveryClientMap,
                       actionClient |-> pb.actionClient, err |-> pb.err]
  <1>1. UNCHANGED <<tap, created, allProbes, registered, conn, by>>
    BY DEF NewProbeBuilder, RegisteredBy, DiscoversTarget, ExecutesActionsBy, OnBuilder,
           serviceVars, containerVars, sessionVars
  <1>2. calls' \in 0 .. MaxCalls
    <2>1. UNCHANGED calls \/ (calls < MaxCalls /\ calls' = calls + 1)
      BY DEF NewProbeBuilder, RegisteredBy, DiscoversTarget, ExecutesActionsBy, PbFails, Counted
    <2>2. calls \in 0 .. MaxCalls
      BY DEF SetupTypeOK
    <2>3. MaxCalls \in Nat
      BY SetupAssumption
    <2>4. CASE UNCHANGED calls
      BY <2>2, <2>4
    <2>5. CASE calls < MaxCalls /\ calls' = calls + 1
      BY ONLY <2>2, <2>3, <2>5
    <2>6. QED
      BY <2>1, <2>4, <2>5
  <1>3. pb # Nil => Fields
    BY DEF SetupInv, BuilderInv
  <1>4. BuilderOK /\ refused \in BOOLEAN
    BY DEF SetupTypeOK
  <1>5. ASSUME PbFails, pb # Nil
        PROVE  BuilderOK' /\ refused' \in BOOLEAN
    BY <1>3, <1>4, <1>5 DEF PbFails
  <1>6. ASSUME NEW type \in ProbeTypes \cup {Nil}, NewProbeBuilder(type)
        PROVE  BuilderOK' /\ refused' \in BOOLEAN
    <2>1. /\ pb'.probeType = type /\ pb'.registrationClient = Nil
          /\ pb'.discoveryClientMap = <<>> /\ pb'.actionClient = FALSE
          /\ pb'.err = (type = Nil) /\ refused' = (type = Nil)
      BY <1>6 DEF NewProbeBuilder
    <2>2. DOMAIN pb'.discoveryClientMap = {}
      BY <2>1, NoDomain
    <2>3. pb'.err \in BOOLEAN /\ refused' \in BOOLEAN
      BY <2>1
    <2>4. QED
      BY <2>1, <2>2, <2>3
  <1>7. ASSUME NEW client \in RegistrationClients \cup {Nil}, RegisteredBy(client)
        PROVE  BuilderOK' /\ refused' \in BOOLEAN
    BY <1>3, <1>4, <1>5, <1>7 DEF RegisteredBy, OnBuilder
  <1>8. ASSUME NEW address \in Addresses \cup {""}, NEW client, DiscoversTarget(address, client)
        PROVE  BuilderOK' /\ refused' \in BOOLEAN
    <2>1. pb # Nil
      BY <1>8 DEF DiscoversTarget, OnBuilder
    <2>2. CASE address # "" /\ pb' = [pb EXCEPT !.discoveryClientMap = With(@, address, client)]
                            /\ UNCHANGED refused
      <3> DEFINE map == With(pb.discoveryClientMap, address, client)
      <3>1. DOMAIN map \subseteq Addresses
        BY <2>1, <2>2, <1>4 DEF With
      <3>2. pb' = [pb EXCEPT !.discoveryClientMap = map]
        BY <2>2
      <3> HIDE DEF map
      <3>3. QED
        BY <2>1, <2>2, <3>1, <3>2, <1>3, <1>4
    <2>3. CASE UNCHANGED <<pb, refused>>
      BY <2>3, <1>4
    <2>4. QED
      BY <1>5, <1>8, <2>1, <2>2, <2>3 DEF DiscoversTarget
  <1>9. ASSUME NEW client \in BOOLEAN, ExecutesActionsBy(client)
        PROVE  BuilderOK' /\ refused' \in BOOLEAN
    BY <1>3, <1>4, <1>5, <1>9 DEF ExecutesActionsBy, OnBuilder
  <1>10. BuilderOK' /\ refused' \in BOOLEAN
    BY <1>6, <1>7, <1>8, <1>9
  <1>11. QED
    BY <1>1, <1>2, <1>10 DEF SetupTypeOK

\* A service and a container are given probes and communicators of their types.
LEMMA ServiceTyped ==
    ASSUME SetupInv, SetupTypeOK, NEW s \in Services,
           WithTurboProbe(s) \/ \E c : WithTurboCommunicator(s, c)
    PROVE  SetupTypeOK'
  <1>1. UNCHANGED <<calls, created, registered, conn, by>>
    BY DEF WithTurboProbe, WithTurboCommunicator, builderVars, sessionVars
  <1>2. SetupCore /\ ServiceInv /\ BuilderInv
    BY DEF SetupInv, SetupCore
  <1>3. ASSUME NEW c, WithTurboCommunicator(s, c)
        PROVE  SetupTypeOK'
    <2>1. /\ UNCHANGED <<pb, refused, created, allProbes, loader>>
          /\ \/ tap' = [tap EXCEPT ![s].err = TRUE]
             \/ tap' = [tap EXCEPT ![s].client = TRUE]
      BY <1>3 DEF WithTurboCommunicator, builderVars
    <2>2. \A q \in Services : tap'[q].probe = tap[q].probe
      BY <1>2, <2>1, ServiceFails
    <2>3. QED
      BY <1>1, <2>1, <2>2 DEF SetupTypeOK
  <1>4. ASSUME WithTurboProbe(s)
        PROVE  \A q \in Services : tap'[q].probe # Nil => tap'[q].probe.probeType \in ProbeTypes
    <2>1. ServiceInv'
      BY <1>2, <1>4, ProbeLoaded DEF SetupCore
    <2>2. QED
      BY <2>1 DEF ServiceInv
  <1>5. ASSUME WithTurboProbe(s), CanCreate
        PROVE  SetupTypeOK'
    <2>1. /\ UNCHANGED <<pb, refused>>
          /\ allProbes' = [allProbes EXCEPT ![TurboProbe.probeType] = TurboProbe]
      BY <1>5 DEF WithTurboProbe, LoadsProbe
    <2>2. \A t \in ProbeTypes : allProbes'[t] # Nil => allProbes'[t].probeType = t
      BY <2>1, <1>2 DEF SetupTypeOK, ServiceInv
    <2>3. QED
      BY <1>1, <1>4, <1>5, <2>1, <2>2 DEF SetupTypeOK
  <1>6. ASSUME WithTurboProbe(s), ~CanCreate
        PROVE  SetupTypeOK'
    <2>1. /\ pb # Nil /\ pb' = [pb EXCEPT !.err = TRUE] /\ refused' = TRUE
          /\ UNCHANGED allProbes
      BY <1>6 DEF WithTurboProbe
    <2>2. /\ pb'.probeType = pb.probeType /\ pb'.registrationClient = pb.registrationClient
          /\ pb'.discoveryClientMap = pb.discoveryClientMap
          /\ pb'.actionClient = pb.actionClient /\ pb'.err = TRUE
      BY <2>1, <1>2 DEF BuilderInv
    <2>3. QED
      BY <1>1, <1>4, <1>6, <2>1, <2>2 DEF SetupTypeOK
  <1>7. QED
    BY <1>3, <1>5, <1>6

\* So do the steps of a session.
LEMMA SessionTyped ==
    ASSUME SetupTypeOK,
           \/ \E s \in Services : CreateService(s) \/ ConnectToTurbo(s)
           \/ NoProbesToRegister \/ NoClient \/ DialFails \/ DialSucceeds
           \/ NoRegistrationClient \/ NotWritten \/ Registered
           \/ NoProbeInService \/ NotRegistered \/ NoTargetInfo \/ NoRestClient \/ AddsTargets
           \/ \E kind \in {"Discovery", "Validation", "Action"}, type \in ProbeTypes :
                 \E values \in KnownValues : ServerAsks(kind, type, values)
           \/ UNCHANGED setupVars
    PROVE  SetupTypeOK'
  <1>1. UNCHANGED <<allProbes, calls>>
    BY DEF CreateService, ConnectToTurbo, NoProbesToRegister, NoClient,
           DialFails, DialSucceeds, NoRegistrationClient, NotWritten, Registered,
           NoProbeInService, NotRegistered, NoTargetInfo, NoRestClient, AddsTargets,
           ServerAsks, Connecting, setupVars, containerVars, builderVars
  <1>2. UNCHANGED <<pb, refused>> \/ (pb' = Nil /\ refused' = FALSE)
    BY DEF CreateService, ConnectToTurbo, NoProbesToRegister, NoClient,
           DialFails, DialSucceeds, NoRegistrationClient, NotWritten, Registered,
           NoProbeInService, NotRegistered, NoTargetInfo, NoRestClient, AddsTargets,
           ServerAsks, Connecting, setupVars, builderVars
  <1>3. UNCHANGED tap /\ (created \subseteq Services => created' \subseteq Services)
    BY DEF CreateService, ConnectToTurbo, NoProbesToRegister, NoClient,
           DialFails, DialSucceeds, NoRegistrationClient, NotWritten, Registered,
           NoProbeInService, NotRegistered, NoTargetInfo, NoRestClient, AddsTargets,
           ServerAsks, Connecting, setupVars, serviceVars
  <1>4. registered' = registered \/ ContainerInfo(registered')
    BY DEF CreateService, ConnectToTurbo, NoProbesToRegister, NoClient,
           DialFails, DialSucceeds, NoRegistrationClient, NotWritten, Registered,
           NoProbeInService, NotRegistered, NoTargetInfo, NoRestClient, AddsTargets,
           ServerAsks, Panics, setupVars, sessionVars
  <1>5. conn' \in {conn, "idle", "container", "waits", "registering", "false", "true", "serving"}
    BY DEF CreateService, ConnectToTurbo, NoProbesToRegister, NoClient,
           DialFails, DialSucceeds, NoRegistrationClient, NotWritten, Registered,
           NoProbeInService, NotRegistered, NoTargetInfo, NoRestClient, AddsTargets,
           ServerAsks, Panics, GoesTo, setupVars, sessionVars
  <1>6. by' \in {by, Nil} \cup Services
    BY DEF CreateService, ConnectToTurbo, NoProbesToRegister, NoClient,
           DialFails, DialSucceeds, NoRegistrationClient, NotWritten, Registered,
           NoProbeInService, NotRegistered, NoTargetInfo, NoRestClient, AddsTargets,
           ServerAsks, Panics, setupVars, sessionVars
  <1>7. QED
    <2>1. registered' # Nil => ContainerInfo(registered')
      BY <1>4 DEF SetupTypeOK, ContainerInfo, Has, Each
    <2>2. conn' \in {"idle", "container", "waits", "registering", "false", "true", "serving"}
      BY <1>5 DEF SetupTypeOK
    <2>3. by' \in Services \cup {Nil}
      BY <1>6 DEF SetupTypeOK
    <2>4. QED
      BY <1>1, <1>2, <1>3, <2>1, <2>2, <2>3 DEF SetupTypeOK

(***************************************************************************)
(* The variables stay in type; what the server acknowledged is a           *)
(* ContainerInfo that can be written, and the container holds every probe  *)
(* under its own type (mediation_container.go:87-108).                     *)
(***************************************************************************)
THEOREM SetupTypeCorrect == SetupSpec => []SetupTypeOK
  <1>1. SetupInit => SetupTypeOK
    <2>1. ASSUME SetupInit
          PROVE  /\ \A s \in Services : tap[s].probe = Nil
                 /\ \A t \in ProbeTypes : allProbes[t] = Nil
      BY <2>1 DEF SetupInit, NewTAPServiceBuilder, NoProbes
    <2>2. 0 \in 0 .. MaxCalls
      <3>1. MaxCalls \in Nat
        BY SetupAssumption
      <3>2. QED
        BY <3>1
    <2>3. QED
      BY <2>1, <2>2 DEF SetupInit, SetupTypeOK
  <1>2. ASSUME SetupInv, SetupTypeOK, [SetupNext]_setupVars PROVE SetupTypeOK'
    BY <1>2, BuilderTyped, ServiceTyped, SessionTyped DEF SetupNext
  <1>3. QED
    BY <1>1, <1>2, SetupInvariant, PTL DEF SetupSpec

-----------------------------------------------------------------------------
(* A whole set-up is registered, or told that it is not. *)

\* What a probe that a step loads comes with.
NewlyLoaded(p) ==
    /\ Loaded' \subseteq Loaded \cup {p}
    /\ p.RegistrationClient \in RegistrationClients \cup {Nil}

LEMMA OneLoadedAtATime ==
    ASSUME SetupInv, SetupTypeOK, [SetupNext]_setupVars
    PROVE  Loaded' = Loaded \/ NewlyLoaded(TurboProbe)
  <1> DEFINE Goal == Loaded' = Loaded \/ NewlyLoaded(TurboProbe)
  <1>1. CASE UNCHANGED allProbes
    BY <1>1 DEF Loaded
  <1>2. ASSUME NEW s \in Services, WithTurboProbe(s), CanCreate
        PROVE  Goal
    <2>1. TurboProbe.probeType \in ProbeTypes
      BY <1>2 DEF WithTurboProbe, CanCreate, TurboProbe, SetupInv, BuilderInv
    <2>2. allProbes' = [allProbes EXCEPT ![TurboProbe.probeType] = TurboProbe]
      BY <1>2 DEF WithTurboProbe, LoadsProbe
    <2>3. Loaded' \subseteq Loaded \cup {TurboProbe}
      BY <2>1, <2>2 DEF Loaded, SetupInv, ServiceInv
    <2>4. TurboProbe.RegistrationClient \in RegistrationClients \cup {Nil}
      BY <1>2 DEF WithTurboProbe, TurboProbe, SetupTypeOK
    <2>5. QED
      BY <2>3, <2>4 DEF NewlyLoaded
  <1>3. ASSUME NEW s \in Services, WithTurboProbe(s), ~CanCreate
        PROVE  Goal
    BY <1>1, <1>3 DEF WithTurboProbe
  <1>4. ASSUME NEW s \in Services, NEW c, WithTurboCommunicator(s, c)
        PROVE  Goal
    BY <1>1, <1>4 DEF WithTurboCommunicator
  <1>5. ASSUME \/ \E type \in ProbeTypes \cup {Nil} : NewProbeBuilder(type)
               \/ \E client \in RegistrationClients \cup {Nil} : RegisteredBy(client)
               \/ \E address \in Addresses \cup {""}, client \in DiscoveryClients \cup {Nil} :
                     DiscoversTarget(address, client)
               \/ \E client \in BOOLEAN : ExecutesActionsBy(client)
        PROVE  Goal
    BY <1>1, <1>5 DEF NewProbeBuilder, RegisteredBy, DiscoversTarget, ExecutesActionsBy,
                      OnBuilder, containerVars
  <1>6. ASSUME \/ \E s \in Services : CreateService(s) \/ ConnectToTurbo(s)
               \/ NoProbesToRegister \/ NoClient \/ DialFails \/ DialSucceeds
               \/ NoRegistrationClient \/ NotWritten \/ Registered
               \/ NoProbeInService \/ NotRegistered \/ NoTargetInfo \/ NoRestClient
               \/ AddsTargets
               \/ \E kind \in {"Discovery", "Validation", "Action"}, type \in ProbeTypes :
                     \E values \in KnownValues : ServerAsks(kind, type, values)
               \/ UNCHANGED setupVars
        PROVE  Goal
    <2>1. UNCHANGED allProbes
      BY <1>6 DEF CreateService, ConnectToTurbo, NoProbesToRegister,
             NoClient, DialFails, DialSucceeds, NoRegistrationClient, NotWritten, Registered,
             NoProbeInService, NotRegistered, NoTargetInfo, NoRestClient, AddsTargets,
             ServerAsks, Connecting, setupVars, containerVars
    <2>2. QED
      BY <1>1, <2>1
  <1>7. QED
    BY <1>2, <1>3, <1>4, <1>5, <1>6 DEF SetupNext

\* The container holds finitely many probes, whose clients the application gave, and one of
\* the type of every service's probe, its own or another's.
LoadedInv ==
    /\ IsFiniteSet(Loaded)
    /\ \A p \in Loaded : p.RegistrationClient \in RegistrationClients \cup {Nil}
    /\ \A s \in Services :
          tap[s].probe # Nil => allProbes[tap[s].probe.probeType] # Nil

LEMMA LoadedKept ==
    ASSUME NilIsNoMessage, SetupInv, SetupTypeOK, LoadedInv, [SetupNext]_setupVars
    PROVE  LoadedInv'
  <1> DEFINE TypesLoaded ==
                 \A s \in Services :
                     tap[s].probe # Nil => allProbes[tap[s].probe.probeType] # Nil
  <1>1. IsFiniteSet(Loaded') /\ \A p \in Loaded' : p.RegistrationClient
                                                    \in RegistrationClients \cup {Nil}
    <2>1. CASE Loaded' = Loaded
      BY <2>1 DEF LoadedInv
    <2>2. CASE NewlyLoaded(TurboProbe)
      <3>1. IsFiniteSet(Loaded \cup {TurboProbe})
        BY FS_AddElement DEF LoadedInv
      <3>2. IsFiniteSet(Loaded')
        BY <2>2, <3>1, FS_Subset DEF NewlyLoaded
      <3>3. QED
        BY <2>2, <3>2 DEF LoadedInv, NewlyLoaded
    <2>3. QED
      BY <2>1, <2>2, OneLoadedAtATime
  <1>2. TypesLoaded
    BY DEF LoadedInv
  <1>3. SetupCore /\ ServiceInv
    BY DEF SetupInv, SetupCore
  <1>4. ASSUME \A q \in Services : tap'[q].probe = tap[q].probe, UNCHANGED allProbes
        PROVE  TypesLoaded'
    BY <1>2, <1>4
  <1>5. ASSUME NEW s \in Services, WithTurboProbe(s)
        PROVE  TypesLoaded'
    <2>1. CASE ~CanCreate
      <3>1. tap' = [tap EXCEPT ![s].err = TRUE] /\ UNCHANGED <<created, allProbes, loader>>
        BY <1>5, <2>1 DEF WithTurboProbe
      <3>2. QED
        BY <1>3, <1>4, <3>1, ServiceFails
    <2>2. CASE CanCreate
      <3>1. /\ tap' = [tap EXCEPT ![s].probe = TurboProbe]
            /\ allProbes' = [allProbes EXCEPT ![TurboProbe.probeType] = TurboProbe]
        BY <1>5, <2>2 DEF WithTurboProbe, LoadsProbe
      <3>2. TurboProbe # Nil
        BY MessageExists DEF TurboProbe
      <3>3. TurboProbe.probeType \in ProbeTypes
        BY <1>5, <2>2, <1>3 DEF WithTurboProbe, CanCreate, TurboProbe, SetupCore, BuilderInv
      <3>4. \A q \in Services : tap'[q].probe = IF q = s THEN TurboProbe ELSE tap[q].probe
        BY <1>3, <3>1 DEF ServiceInv
      <3>5. \A t \in ProbeTypes :
               allProbes'[t] = IF t = TurboProbe.probeType THEN TurboProbe ELSE allProbes[t]
        BY <1>3, <3>1 DEF ServiceInv
      <3>6. ASSUME NEW q \in Services, tap'[q].probe # Nil
            PROVE  allProbes'[tap'[q].probe.probeType] # Nil
        <4>1. CASE q = s
          BY <3>2, <3>3, <3>4, <3>5, <4>1
        <4>2. CASE q # s
          <5>1. /\ tap'[q].probe = tap[q].probe
                /\ tap[q].probe.probeType \in ProbeTypes
                /\ allProbes[tap[q].probe.probeType] # Nil
            BY <1>2, <1>3, <3>4, <3>6, <4>2 DEF ServiceInv
          <5>2. QED
            BY <3>2, <3>5, <5>1
        <4>3. QED
          BY <4>1, <4>2
      <3>7. QED
        BY <3>6
    <2>3. QED
      BY <2>1, <2>2
  <1>6. ASSUME NEW s \in Services, NEW c, WithTurboCommunicator(s, c)
        PROVE  TypesLoaded'
    <2>1. /\ UNCHANGED <<created, allProbes, loader>>
          /\ \/ tap' = [tap EXCEPT ![s].err = TRUE]
             \/ tap' = [tap EXCEPT ![s].client = TRUE]
      BY <1>6 DEF WithTurboCommunicator
    <2>2. QED
      BY <1>3, <1>4, <2>1, ServiceFails
  <1>7. ASSUME UNCHANGED <<tap, allProbes>>
        PROVE  TypesLoaded'
    BY <1>4, <1>7
  <1>8. ASSUME \/ \E type \in ProbeTypes \cup {Nil} : NewProbeBuilder(type)
               \/ \E client \in RegistrationClients \cup {Nil} : RegisteredBy(client)
               \/ \E address \in Addresses \cup {""}, client \in DiscoveryClients \cup {Nil} :
                     DiscoversTarget(address, client)
               \/ \E client \in BOOLEAN : ExecutesActionsBy(client)
        PROVE  UNCHANGED <<tap, allProbes>>
    BY <1>8 DEF NewProbeBuilder, RegisteredBy, DiscoversTarget, ExecutesActionsBy, OnBuilder,
                serviceVars, containerVars
  <1>9. ASSUME \/ \E s \in Services : CreateService(s) \/ ConnectToTurbo(s)
               \/ NoProbesToRegister \/ NoClient \/ DialFails \/ DialSucceeds
               \/ NoRegistrationClient \/ NotWritten \/ Registered
               \/ NoProbeInService \/ NotRegistered \/ NoTargetInfo \/ NoRestClient
               \/ AddsTargets
               \/ \E kind \in {"Discovery", "Validation", "Action"}, type \in ProbeTypes :
                     \E values \in KnownValues : ServerAsks(kind, type, values)
               \/ UNCHANGED setupVars
        PROVE  UNCHANGED <<tap, allProbes>>
    BY <1>9 DEF CreateService, ConnectToTurbo, NoProbesToRegister, NoClient, DialFails,
           DialSucceeds, NoRegistrationClient, NotWritten, Registered, NoProbeInService,
           NotRegistered, NoTargetInfo, NoRestClient, AddsTargets, ServerAsks, Connecting,
           setupVars, serviceVars, containerVars
  <1>10. TypesLoaded'
    BY <1>5, <1>6, <1>7, <1>8, <1>9 DEF SetupNext
  <1>11. QED
    BY <1>1, <1>10 DEF LoadedInv

\* What GetProbeInfo makes of a whole probe can be written.
LEMMA WholeProbeInfo ==
    ASSUME NilIsNoMessage, NEW p, WholeProbe(p),
           p.RegistrationClient \in RegistrationClients
    PROVE  ProbeInfo(GetProbeInfo(p))
  <1> DEFINE chain == GetSupplyChainDefinition[p.RegistrationClient]
             accounts == GetAccountDefinition[p.RegistrationClient]
             info == GetProbeInfo(p)
  <1>1. /\ \A i \in 1 .. Len(chain) : TemplateDTO(chain[i])
        /\ \A i \in 1 .. Len(accounts) : AccountDefEntry(accounts[i])
    BY DEF WholeProbe
  <1>2. /\ DOMAIN info = {"probeType", "probeCategory", "supplyChainDefinitionSet",
                          "accountDefinition", "targetIdentifierField"}
        /\ info.supplyChainDefinitionSet = chain
        /\ info.accountDefinition = accounts
    BY DEF GetProbeInfo, With, ProbeInfoOf
  <1>3. info # Nil
    BY DEF NilIsNoMessage, GetProbeInfo, With
  <1> HIDE DEF info, chain, accounts
  <1>4. QED
    BY <1>1, <1>2, <1>3 DEF ProbeInfo, Has, Each, info

\* If the probes are whole, so is what is made of them, in whatever order.
LEMMA WholeContainerInfo ==
    ASSUME NilIsNoMessage, LoadedInv, NEW info \in MakeContainerInfo,
           \A p \in Loaded : WholeProbe(p)
    PROVE  ContainerInfo(info)
  <1>1. PICK order \in SetToSeqs(Loaded) :
            info = [probes |-> [i \in 1 .. Len(order) |-> GetProbeInfo(order[i])]]
    BY DEF MakeContainerInfo
  <1>2. Cardinality(Loaded) \in Nat
    BY FS_CardinalityType DEF LoadedInv
  <1>3. order \in [1 .. Cardinality(Loaded) -> Loaded]
    BY DEF SetToSeqs
  <1>4. Len(order) = Cardinality(Loaded)
    BY <1>2, <1>3
  <1>5. Len(info.probes) = Len(order)
    BY <1>1, <1>2, <1>4
  <1>6. ASSUME NEW i \in 1 .. Len(info.probes)
        PROVE  ProbeInfo(info.probes[i])
    <2>1. order[i] \in Loaded /\ info.probes[i] = GetProbeInfo(order[i])
      BY <1>1, <1>3, <1>4, <1>5, <1>6
    <2>2. WholeProbe(order[i]) /\ order[i].RegistrationClient \in RegistrationClients
      BY <2>1 DEF LoadedInv, WholeProbe
    <2>3. QED
      BY <2>1, <2>2, WholeProbeInfo
  <1>7. info # Nil
    BY <1>1, MessageExists
  <1>8. QED
    BY <1>6, <1>7 DEF ContainerInfo, Has, Each

\* What is missing in a set-up that does not come to an end in order.
Lacking ==
    \/ container = Nil \/ ~tap[by].client \/ tap[by].probe = Nil
    \/ \E p \in Loaded \cup {tap[by].probe} : ~WholeProbe(p)

Stuck == conn = "waits" \/ crash \notin {"none", "assignment to entry in nil map"}

\* Nothing follows when ConnectToTurbo waits for ever, or the process is dead.
LEMMA StuckForEver ==
    ASSUME conn = "waits" \/ crash # "none", [SetupNext]_setupVars
    PROVE  UNCHANGED setupVars
  <1>1. ~AtHome /\ \A at \in {"container", "registering", "true", "false"} : ~Connecting(at)
    BY DEF AtHome, Running, Connecting
  <1>2. \A kind, type, values : ~ServerAsks(kind, type, values)
    BY DEF ServerAsks, Running
  <1>3. ~NoProbeInService
    BY <1>1 DEF NoProbeInService
  <1>4. QED
    BY <1>1, <1>2, <1>3
       DEF SetupNext, NewProbeBuilder, RegisteredBy, DiscoversTarget, ExecutesActionsBy,
           OnBuilder, WithTurboProbe, WithTurboCommunicator,
           CreateService, ConnectToTurbo, NoProbesToRegister, NoClient, DialFails,
           DialSucceeds, NoRegistrationClient, NotWritten, Registered, NotRegistered,
           NoTargetInfo, NoRestClient, AddsTargets

\* The steps that lead there find something missing.
LEMMA StuckForAReason ==
    ASSUME NilIsNoMessage, SetupInv, LoadedInv,
           \/ NoProbesToRegister \/ NoClient \/ NoRegistrationClient \/ NotWritten
           \/ NoProbeInService \/ NoTargetInfo \/ NoRestClient
    PROVE  Lacking'
  <1>1. tap[by].probe # Nil => Loaded # {}
    <2>1. conn # "idle"
      BY DEF NoProbesToRegister, NoClient, NoRegistrationClient, NotWritten, NoProbeInService,
             NoTargetInfo, NoRestClient, Connecting
    <2>2. by \in Services
      BY <2>1 DEF SetupInv, SessionInv
    <2>3. ASSUME tap[by].probe # Nil
          PROVE  /\ tap[by].probe.probeType \in ProbeTypes
                 /\ allProbes[tap[by].probe.probeType] # Nil
      BY <2>2, <2>3 DEF SetupInv, ServiceInv, LoadedInv
    <2>4. QED
      BY <2>3 DEF Loaded
  <1>2. UNCHANGED <<tap, by, container, allProbes>>
    BY DEF NoProbesToRegister, NoClient, NoRegistrationClient, NotWritten, NoProbeInService,
           NoTargetInfo, NoRestClient, Connecting, Panics, serviceVars, containerVars,
           sessionVars
  <1>3. Lacking => Lacking'
    BY <1>2 DEF Lacking, Loaded
  <1>4. CASE NoProbesToRegister
    BY <1>1, <1>3, <1>4 DEF NoProbesToRegister, Lacking
  <1>5. CASE NoClient
    BY <1>3, <1>5 DEF NoClient, Lacking
  <1>6. CASE NoRegistrationClient
    <2>1. \E p \in Loaded : ~WholeProbe(p)
      BY <1>6 DEF NoRegistrationClient, HaveRegistrationClients, WholeProbe
    <2>2. QED
      BY <2>1, <1>3 DEF Lacking
  <1>7. CASE NotWritten
    <2>1. \E p \in Loaded : ~WholeProbe(p)
      BY <1>7, WholeContainerInfo DEF NotWritten
    <2>2. QED
      BY <2>1, <1>3 DEF Lacking
  <1>8. CASE NoProbeInService
    BY <1>3, <1>8 DEF NoProbeInService, Lacking
  <1>9. CASE NoTargetInfo
    <2>1. ~WholeProbe(tap[by].probe)
      BY <1>9 DEF NoTargetInfo, TargetInfosGiven, WholeProbe
    <2>2. QED
      BY <2>1, <1>3 DEF Lacking
  <1>10. CASE NoRestClient
    BY <1>3, <1>10 DEF NoRestClient, Lacking
  <1>11. QED
    BY <1>4, <1>5, <1>6, <1>7, <1>8, <1>9, <1>10

\* The others do not lead there.
LEMMA NotStuck ==
    ASSUME crash = "none", conn # "waits",
           \/ \E type \in ProbeTypes \cup {Nil} : NewProbeBuilder(type)
           \/ \E client \in RegistrationClients \cup {Nil} : RegisteredBy(client)
           \/ \E address \in Addresses \cup {""}, client \in DiscoveryClients \cup {Nil} :
                 DiscoversTarget(address, client)
           \/ \E client \in BOOLEAN : ExecutesActionsBy(client)
           \/ \E s \in Services : \/ WithTurboProbe(s) \/ CreateService(s) \/ ConnectToTurbo(s)
                                \/ \E c : WithTurboCommunicator(s, c)
           \/ DialFails \/ DialSucceeds \/ Registered
           \/ NotRegistered \/ AddsTargets
           \/ \E kind \in {"Discovery", "Validation", "Action"}, type \in ProbeTypes :
                 \E values \in KnownValues : ServerAsks(kind, type, values)
    PROVE  ~Stuck'
  <1>1. crash' \in {"none", "assignment to entry in nil map"}
    BY DEF NewProbeBuilder, RegisteredBy, DiscoversTarget, ExecutesActionsBy, OnBuilder, PbFails,
           WithTurboProbe, WithTurboCommunicator, CreateService,
           ConnectToTurbo, DialFails, DialSucceeds, Registered, NotRegistered, AddsTargets,
           ServerAsks, GoesTo
  <1>2. conn' # "waits"
    BY DEF NewProbeBuilder, RegisteredBy, DiscoversTarget, ExecutesActionsBy, OnBuilder,
           WithTurboProbe, WithTurboCommunicator, CreateService,
           ConnectToTurbo, DialFails, DialSucceeds, Registered, NotRegistered, AddsTargets,
           ServerAsks, GoesTo, sessionVars
  <1>3. QED
    BY <1>1, <1>2 DEF Stuck

(***************************************************************************)
(* ConnectToTurbo ends the process or waits for ever only if the set-up    *)
(* lacks something the application owes, for any number of services,       *)
(* probes, targets, supply chains and account definitions                  *)
(* (tap_service.go:25-61, mediation_container.go:65-79,                    *)
(* sdk_client_protocol.go:88-147, turbo_probe.go:158-194).                 *)
(***************************************************************************)
THEOREM WholeSetupsAreToldHolds ==
    ASSUME NilIsNoMessage
    PROVE  SetupSpec => []WholeSetupsAreTold
  <1> DEFINE Told == Stuck => Lacking
  <1>1. SetupInit => LoadedInv /\ Told
    <2>1. SetupInit => Loaded = {} /\ ~Stuck
      BY DEF SetupInit, NoProbes, Loaded, Stuck
    <2>2. SetupInit => \A s \in Services : tap[s].probe = Nil
      BY DEF SetupInit, NewTAPServiceBuilder
    <2>3. QED
      BY <2>1, <2>2, FS_EmptySet DEF LoadedInv
  <1>2. ASSUME SetupInv, SetupTypeOK, LoadedInv, Told, [SetupNext]_setupVars
        PROVE  LoadedInv' /\ Told'
    <2>1. LoadedInv'
      BY <1>2, LoadedKept
    <2>2. CASE UNCHANGED setupVars
      <3>1. UNCHANGED <<conn, by, crash, container, tap, allProbes>>
        BY <2>2 DEF setupVars, sessionVars, serviceVars, containerVars
      <3>2. QED
        BY <1>2, <2>1, <3>1 DEF Stuck, Lacking, Loaded
    <2>3. CASE conn = "waits" \/ crash # "none"
      BY <1>2, <2>2, <2>3, StuckForEver
    <2>4. CASE conn # "waits" /\ crash = "none" /\ SetupNext
      <3>1. CASE \/ NoProbesToRegister \/ NoClient \/ NoRegistrationClient \/ NotWritten
                 \/ NoProbeInService \/ NoTargetInfo \/ NoRestClient
        BY <1>2, <2>1, <3>1, StuckForAReason
      <3>2. CASE ~(\/ NoProbesToRegister \/ NoClient \/ NoRegistrationClient \/ NotWritten
                   \/ NoProbeInService \/ NoTargetInfo \/ NoRestClient)
        BY <2>1, <2>4, <3>2, NotStuck DEF SetupNext
      <3>3. QED
        BY <3>1, <3>2
    <2>5. QED
      BY <1>2, <2>2, <2>3, <2>4
  <1>3. Told <=> WholeSetupsAreTold
    BY DEF Stuck, Lacking, WholeSetupsAreTold
  <1>4. QED
    BY <1>1, <1>2, <1>3, SetupInvariant, SetupTypeCorrect, PTL DEF SetupSpec

-----------------------------------------------------------------------------
(* The probe's own answers. *)

\* Each of them has the fields its message requires.
LEMMA OwnAnswersWhole ==
    ASSUME NilIsNoMessage
    PROVE  /\ \A kind \in {"Discovery", "Validation"} :
                MediationClientMessage(SetResponse(kind, CreateErrorDTO))
           /\ MediationClientMessage(SetResponse("Action", CreateActionErrorDTO))
  <1> DEFINE error == [severity |-> "CRITICAL", description |-> "error"]
             answer == [actionResponseState |-> "FAILED", responseDescription |-> "error",
                        progress |-> 100]
  <1>1. error # Nil /\ answer # Nil /\ CreateErrorDTO # Nil /\ CreateActionErrorDTO # Nil
    <2>1. error # Nil
      BY MessageExists
    <2>2. answer # Nil
      BY MessageExists
    <2>3. CreateErrorDTO # Nil
      BY MessageExists DEF CreateErrorDTO
    <2>4. CreateActionErrorDTO # Nil
      BY MessageExists DEF CreateActionErrorDTO
    <2>5. QED
      BY <2>1, <2>2, <2>3, <2>4
  <1>2. ValidationResponse(CreateErrorDTO) /\ DiscoveryResponse(CreateErrorDTO)
    <2>1. ErrorDTO(error)
      BY <1>1 DEF ErrorDTO, Has
    <2>2. DOMAIN CreateErrorDTO = {"errorDTO"} /\ CreateErrorDTO.errorDTO = <<error>>
      BY DEF CreateErrorDTO
    <2>3. \A i \in 1 .. Len(<<error>>) : <<error>>[i] = error
      OBVIOUS
    <2>4. Each(CreateErrorDTO, "errorDTO", ErrorDTO)
      BY <2>1, <2>2, <2>3 DEF Each
    <2>5. QED
      BY <1>1, <2>2, <2>4 DEF ValidationResponse, DiscoveryResponse, Has, Each
  <1>3. ActionResult(CreateActionErrorDTO)
    <2>1. ActionResponse(answer)
      BY <1>1 DEF ActionResponse, Has
    <2>2. DOMAIN CreateActionErrorDTO = {"response"} /\ CreateActionErrorDTO.response = answer
      BY DEF CreateActionErrorDTO
    <2>3. QED
      BY <1>1, <2>1, <2>2 DEF ActionResult, Must, Has
  <1>4. MediationClientMessage(SetResponse("Discovery", CreateErrorDTO))
    <2> DEFINE m == [messageID |-> 1, discoveryResponse |-> CreateErrorDTO]
    <2>1. SetResponse("Discovery", CreateErrorDTO) = m
      BY DEF SetResponse
    <2>2. m # Nil
      BY MessageExists
    <2>3. DOMAIN m = {"messageID", "discoveryResponse"} /\ m.discoveryResponse = CreateErrorDTO
      OBVIOUS
    <2> HIDE DEF m
    <2>4. QED
      BY <2>1, <2>2, <2>3, <1>2 DEF MediationClientMessage, Has, Sub
  <1>5. MediationClientMessage(SetResponse("Validation", CreateErrorDTO))
    <2> DEFINE m == [messageID |-> 1, validationResponse |-> CreateErrorDTO]
    <2>1. SetResponse("Validation", CreateErrorDTO) = m
      BY DEF SetResponse
    <2>2. m # Nil
      BY MessageExists
    <2>3. DOMAIN m = {"messageID", "validationResponse"} /\ m.validationResponse = CreateErrorDTO
      OBVIOUS
    <2> HIDE DEF m
    <2>4. QED
      BY <2>1, <2>2, <2>3, <1>2 DEF MediationClientMessage, Has, Sub
  <1>6. MediationClientMessage(SetResponse("Action", CreateActionErrorDTO))
    <2> DEFINE m == [messageID |-> 1, actionResponse |-> CreateActionErrorDTO]
    <2>1. SetResponse("Action", CreateActionErrorDTO) = m
      BY DEF SetResponse
    <2>2. m # Nil
      BY MessageExists
    <2>3. DOMAIN m = {"messageID", "actionResponse"} /\ m.actionResponse = CreateActionErrorDTO
      OBVIOUS
    <2> HIDE DEF m
    <2>4. QED
      BY <2>1, <2>2, <2>3, <1>3 DEF MediationClientMessage, Has, Sub
  <1>7. QED
    BY <1>4, <1>5, <1>6

(***************************************************************************)
(* What the probe answers itself can be written, for any probes, targets   *)
(* and account values (turbo_probe.go:89-154, 196-240).                    *)
(***************************************************************************)
THEOREM OwnAnswersAreWrittenHolds ==
    ASSUME NilIsNoMessage
    PROVE  SetupSpec => []OwnAnswersAreWritten
  <1>1. SetupInit => OwnAnswersAreWritten
    BY DEF SetupInit, OwnAnswersAreWritten
  <1>2. ASSUME OwnAnswersAreWritten, [SetupNext]_setupVars
        PROVE  OwnAnswersAreWritten'
    <2>1. CASE UNCHANGED reply
      BY <1>2, <2>1 DEF OwnAnswersAreWritten
    <2>2. ASSUME NEW kind \in {"Discovery", "Validation"}, NEW p, NEW values,
                 AsksTarget(kind, p, values)
          PROVE  OwnAnswersAreWritten'
      <3>1. CASE reply' = OwnReply(kind, CreateErrorDTO)
        <4>1. reply'.message = SetResponse(kind, CreateErrorDTO)
          BY <3>1 DEF OwnReply
        <4>2. QED
          BY <4>1, OwnAnswersWhole DEF OwnAnswersAreWritten
      <3>2. CASE reply' = ClientsReply
        BY <3>2 DEF ClientsReply, OwnAnswersAreWritten
      <3>3. QED
        BY <2>2, <3>1, <3>2 DEF AsksTarget
    <2>3. ASSUME NEW p, AsksAction(p)
          PROVE  OwnAnswersAreWritten'
      <3>1. CASE reply' = OwnReply("Action", CreateActionErrorDTO)
        <4>1. reply'.message = SetResponse("Action", CreateActionErrorDTO)
          BY <3>1 DEF OwnReply
        <4>2. QED
          BY <4>1, OwnAnswersWhole DEF OwnAnswersAreWritten
      <3>2. CASE reply' = ClientsReply
        BY <3>2 DEF ClientsReply, OwnAnswersAreWritten
      <3>3. QED
        BY <2>3, <3>1, <3>2 DEF AsksAction
    <2>4. ASSUME NEW kind \in {"Discovery", "Validation", "Action"}, NEW type, NEW values,
                 ServerAsks(kind, type, values)
          PROVE  OwnAnswersAreWritten'
      BY <2>2, <2>3, <2>4 DEF ServerAsks
    <2>5. ASSUME ~(\E kind \in {"Discovery", "Validation", "Action"}, type \in ProbeTypes :
                      \E values \in KnownValues : ServerAsks(kind, type, values))
          PROVE  UNCHANGED reply
      BY <1>2, <2>5
         DEF SetupNext, NewProbeBuilder, RegisteredBy, DiscoversTarget, ExecutesActionsBy,
             OnBuilder, WithTurboProbe, WithTurboCommunicator,
             CreateService, ConnectToTurbo, NoProbesToRegister, NoClient, DialFails,
             DialSucceeds, NoRegistrationClient, NotWritten, Registered, NoProbeInService,
             NotRegistered, NoTargetInfo, NoRestClient, AddsTargets, Connecting, setupVars
    <2>6. QED
      BY <2>1, <2>4, <2>5
  <1>3. QED
    BY <1>1, <1>2, PTL DEF SetupSpec
-----------------------------------------------------------------------------
(* A target that was added is found. *)

\* A set of indices has a greatest.
LEMMA GreatestIndex ==
    ASSUME NEW n \in Nat, NEW S, S \subseteq 1 .. n, S # {}
    PROVE  Max(S) \in S /\ Max(S) # 0
  <1> DEFINE T == {n - i : i \in S}
             R == OpToRel(<, Nat)
  <1>1. T \subseteq Nat /\ T # {}
    <2>1. \A i \in 1 .. n : n - i \in Nat
      OBVIOUS
    <2>2. QED
      BY <2>1
  <1>2. \E x \in T : \A y \in T : ~(<<y, x>> \in R)
    BY ONLY <1>1, NatLessThanWellFounded, WFMin
  <1>3. PICK x \in T : \A y \in T : ~(y < x)
    BY <1>1, <1>2 DEF OpToRel
  <1>4. PICK m \in S : x = n - m
    OBVIOUS
  <1>5. ASSUME NEW i \in S PROVE m >= i
    <2>1. ~(n - i < n - m)
      BY <1>3, <1>4
    <2>2. i \in Int /\ m \in Int
      OBVIOUS
    <2>3. QED
      BY ONLY <2>1, <2>2, n \in Nat
  <1>6. Max(S) \in S
    BY <1>5 DEF Max
  <1>7. \A k \in 1 .. n : k # 0
    OBVIOUS
  <1>8. QED
    BY <1>6, <1>7, Zenon

\* The address under a field is that of a value under it, if there is any.
LEMMA AddressOfHit ==
    ASSUME NEW field, NEW values, Len(values) \in Nat,
           NEW i \in 1 .. Len(values), Get(values[i], "key", "") = field
    PROVE  \E j \in 1 .. Len(values) :
              /\ Get(values[j], "key", "") = field
              /\ AddressIn(field, values) = Get(values[j], "stringValue", "")
  <1> DEFINE hits == {j \in 1 .. Len(values) : Get(values[j], "key", "") = field}
  <1>1. hits # {} /\ hits \subseteq 1 .. Len(values)
    OBVIOUS
  <1>2. Max(hits) \in hits
    BY <1>1, GreatestIndex
  <1>3. SelectLastInSeq(values, LAMBDA v : Get(v, "key", "") = field) = Max(hits)
    BY <1>1 DEF SelectLastInSeq
  <1>4. Max(hits) # 0
    BY <1>1, GreatestIndex
  <1>5. AddressIn(field, values) = Get(values[Max(hits)], "stringValue", "")
    BY <1>3, <1>4 DEF AddressIn
  <1>6. QED
    BY <1>2, <1>5

\* What is under the identifying field of a target leads to its discovery client.
LEMMA TargetFound ==
    ASSUME NilIsNoMessage, NEW p, Clients(p.DiscoveryClientMap), DescribesTargets(p),
           NEW x \in GetProbeTargets(p),
           Identified(GetIdentifyingFields[p.RegistrationClient], x)
    PROVE  GetTurboDiscoveryClient(p, x.inputFields) = p.DiscoveryClientMap[x.address]
  <1> DEFINE field == GetIdentifyingFields[p.RegistrationClient]
             map == p.DiscoveryClientMap
             values == x.inputFields
  <1>1. PICK a \in DOMAIN map :
            x = [type |-> p.probeType, address |-> a,
                 inputFields |-> InputFields(GetAccountValues[map[a]])]
    BY DEF GetProbeTargets
  <1>2. x.address = a /\ values = InputFields(GetAccountValues[map[a]])
    BY <1>1
  <1>3. Clients(map)
    OBVIOUS
  <1>4. Len(GetAccountValues[map[a]]) \in Nat
    <2>1. map[a] \in DiscoveryClients
      BY <1>3 DEF Clients
    <2>2. IsSequence(GetAccountValues[map[a]])
      BY <2>1, SetupAssumption DEF DescribesTargets
    <2>3. QED
      BY <2>2, SequenceElements
  <1>5. Len(values) = Len(GetAccountValues[map[a]]) /\ Len(values) \in Nat
    <2> DEFINE info == GetAccountValues[map[a]]
    <2> HIDE DEF info
    <2>1. Len(InputFields(info)) = Len(info)
      BY <1>4 DEF InputFields, info
    <2>2. QED
      BY <1>2, <1>4, <2>1 DEF info
  <1>6. ASSUME NEW i \in 1 .. Len(values)
        PROVE  /\ Get(values[i], "key", "") = values[i].key
               /\ Get(values[i], "stringValue", "") = values[i].stringValue
    <2> DEFINE v == [key |-> Get(GetAccountValues[map[a]][i], "key", ""),
                     stringValue |-> Get(GetAccountValues[map[a]][i], "stringValue", "")]
    <2>1. values[i] = v
      BY <1>2, <1>5 DEF InputFields
    <2>2. v # Nil
      BY MessageExists
    <2>3. {"key"} \subseteq DOMAIN v /\ {"stringValue"} \subseteq DOMAIN v
      OBVIOUS
    <2> HIDE DEF v
    <2>4. QED
      BY <2>1, <2>2, <2>3 DEF Get, Has
  <1>7. PICK i \in 1 .. Len(values) : values[i].key = field
    BY DEF Identified
  <1>8. PICK j \in 1 .. Len(values) :
            /\ Get(values[j], "key", "") = field
            /\ AddressIn(field, values) = Get(values[j], "stringValue", "")
    <2>1. Get(values[i], "key", "") = field
      BY <1>6, <1>7
    <2> HIDE DEF values, field
    <2>2. QED
      BY <1>5, <1>7, <2>1, AddressOfHit, Zenon
  <1>9. AddressIn(field, values) = x.address
    BY <1>6, <1>8 DEF Identified
  <1>10. map # Nil
    BY <1>3 DEF Clients, NilIsNoMessage
  <1>11. Get(map, x.address, Nil) = map[x.address]
    BY <1>1, <1>2, <1>10 DEF Get, Has
  <1>12. QED
    BY <1>9, <1>11 DEF GetTurboDiscoveryClient

(***************************************************************************)
(* A request about a target that was added reaches the discovery client    *)
(* the target came from, for any number of targets, clients and services,  *)
(* if the client's account values name the identifier and no other service *)
(* was given a probe of the type after this one (turbo_probe.go:69-87,     *)
(* 158-170, turbo_target_info.go:34-49).                                   *)
(***************************************************************************)
THEOREM TargetsAreFoundHolds ==
    ASSUME NilIsNoMessage
    PROVE  SetupSpec => []TargetsAreFound
  <1>1. SetupInv => TargetsAreFound
    <2>1. ASSUME SetupInv, NEW x \in added, HoldsItsType(by),
                 Identified(GetIdentifyingFields[allProbes[x.type].RegistrationClient], x)
          PROVE  FindsItsClient(x)
      <3>1. TargetsInv /\ ServiceProbeLoaded /\ SessionInv
        BY <2>1 DEF SetupInv
      <3>2. by \in Services
        BY <2>1, <3>1 DEF TargetsInv, SessionInv
      <3>3. /\ tap[by].probe # Nil /\ x \in GetProbeTargets(tap[by].probe)
            /\ DescribesTargets(tap[by].probe)
        BY <2>1, <3>1 DEF TargetsInv, TargetInfosGiven
      <3>4. Clients(tap[by].probe.DiscoveryClientMap)
        BY <3>1, <3>2, <3>3 DEF TargetsInv
      <3>5. x.type = tap[by].probe.probeType
        BY <3>3 DEF GetProbeTargets
      <3>6. allProbes[x.type] = tap[by].probe
        BY <2>1, <3>1, <3>2, <3>3, <3>5 DEF ServiceProbeLoaded
      <3>7. QED
        BY <2>1, <3>3, <3>4, <3>6, TargetFound DEF FindsItsClient
    <2>2. QED
      BY <2>1 DEF TargetsAreFound
  <1>2. QED
    BY <1>1, SetupInvariant, PTL
=============================================================================
