----------------------------- MODULE WireFormat -----------------------------
(***************************************************************************)
(* Which messages can be written and read: the generated code of           *)
(* pkg/proto and pkg/version.                                              *)
(*                                                                         *)
(* A message is a record of the fields that are set, a repeated field a    *)
(* sequence, and nil the constant Nil; of the fields of a oneof at most    *)
(* one is set.  Marshal fails at any depth on a required field that is not *)
(* set, on a nil element of a repeated field, and on a oneof that holds    *)
(* nil; Unmarshal fails on a required field that is missing.  For a        *)
(* message type T, T(m) says that m can be written, and so read again.     *)
(* Optional fields of a scalar type are not mentioned.                     *)
(***************************************************************************)
EXTENDS Naturals, Sequences

CONSTANT Nil    \* a nil pointer

\* The message m exists and has the required fields.
Has(m, required) == m # Nil /\ required \subseteq DOMAIN m

\* The nested message in field f, if there is one, is in order: an optional
\* field, or one of the fields of a oneof.
Sub(m, f, Ok(_)) == f \in DOMAIN m => Ok(m[f])

\* So is each element of the repeated field f.
Each(m, f, Ok(_)) ==
    f \in DOMAIN m => \A i \in 1 .. Len(m[f]) : Ok(m[f][i])

\* The required nested message in field f is in order.
Must(m, f, Ok(_)) == Has(m, {f}) /\ Ok(m[f])

\* The generated getters: an unset field, of a nil message too, reads as the default.
Get(m, f, default) == IF Has(m, {f}) THEN m[f] ELSE default

\* A repeated field holds a sequence.
Elements(s) == {s[i] : i \in DOMAIN s}
IsSequence(s) == s \in Seq(Elements(s))

\* A nil pointer is no message, nor a list; what theorems take for granted of Nil.
NilIsNoMessage == \A D, f : Nil # [x \in D |-> f[x]]

\* A map or a message with its entry for k set.
With(f, k, value) == [x \in DOMAIN f \cup {k} |-> IF x = k THEN value ELSE f[x]]

\* What a builder leaves nil is not set in the message it makes.
Message(fields) == [f \in {g \in DOMAIN fields : fields[g] # Nil} |-> fields[f]]

-----------------------------------------------------------------------------
(* version.pb.go. *)

NegotiationRequest(m) == Has(m, {"protocol_version"})
NegotiationAnswer(m) == Has(m, {"negotiation_result", "description"})

-----------------------------------------------------------------------------
(* CommonDTO.pb.go: entities and commodities. *)

PropertiesList(m) == Has(m, {"name"})
PricingMetadata(m) == Has(m, {"pricingHandlerNamespace"})
Plain(m) == Has(m, {})

\* CommodityData and HotresizeData hold messages without required fields.
CommodityData(m) ==
    \A f \in {"storage_latency_data", "storage_access_data",
              "vstorage_partition_data", "vmem_data", "vcpu_data"} : Sub(m, f, Plain)

CommodityDTO(m) ==
    /\ Has(m, {"commodityType"})
    /\ Each(m, "propMap", PropertiesList)
    /\ Sub(m, "pricingMetadata", PricingMetadata)
    /\ CommodityData(m)

CommodityBought(m) == Has(m, {"providerId"}) /\ Each(m, "bought", CommodityDTO)

EntityProperty(m) == Has(m, {"namespace", "name", "value"})
NotificationDTO(m) == Has(m, {"event", "category"})

DiskCount(m) == Has(m, {"numDiskName", "numDisks"})
DiskCountData(m) == Has(m, {}) /\ Each(m, "disks", DiskCount)
DiskArrayData(m) == Has(m, {}) /\ Sub(m, "diskCounts", DiskCountData)

AnnotationNote(m) == Has(m, {"key", "value"})
VirtualMachineData(m) == Has(m, {}) /\ Each(m, "annotationNote", AnnotationNote)

MemoryData(m) == Has(m, {"id"})
ProcessorData(m) == Has(m, {"id"})
IoData(m) == Has(m, {"id"})

StorageControllerRelatedData(m) ==
    Has(m, {}) /\ Sub(m, "memory", MemoryData) /\ Each(m, "processor", ProcessorData)

\* VirtualMachineRelatedData and PhysicalMachineRelatedData have the same fields.
MachineRelatedData(m) == StorageControllerRelatedData(m) /\ Each(m, "io", IoData)

\* The oneof EntityData.
EntityData(m) ==
    /\ Sub(m, "disk_array_data", DiskArrayData)
    /\ Sub(m, "virtual_machine_data", VirtualMachineData)
    /\ \A f \in {"storage_data", "application_data",
                 "physical_machine_data", "virtual_datacenter_data"} : Sub(m, f, Plain)

\* The oneof RelatedEntityData.
RelatedEntityData(m) ==
    /\ Sub(m, "virtual_machine_related_data", MachineRelatedData)
    /\ Sub(m, "physical_machine_related_data", MachineRelatedData)
    /\ Sub(m, "storage_controller_related_data", StorageControllerRelatedData)

EntityDTO(m) ==
    /\ Has(m, {"entityType", "id"})
    /\ Each(m, "commoditiesSold", CommodityDTO)
    /\ Each(m, "commoditiesBought", CommodityBought)
    /\ Each(m, "entityProperties", EntityProperty)
    /\ Each(m, "notification", NotificationDTO)
    /\ EntityData(m)
    /\ RelatedEntityData(m)

-----------------------------------------------------------------------------
(* CommonDTO.pb.go: groups; ProfileDTO.pb.go. *)

SelectionSpec(m) ==
    /\ Has(m, {"property", "expression_type"})
    /\ Sub(m, "property_value_string_list", Plain)
    /\ Sub(m, "property_value_double_list", Plain)

SelectionSpecList(m) == Has(m, {}) /\ Each(m, "selection_spec", SelectionSpec)
ConstraintInfo(m) == Has(m, {"constraint_type", "constraint_id", "constraint_name"})

\* The oneofs Info and Members of a group.
GroupParts(m) ==
    /\ Sub(m, "constraint_info", ConstraintInfo)
    /\ Sub(m, "selection_spec_list", SelectionSpecList)
    /\ Sub(m, "member_list", Plain)

GroupDTO(m) == Has(m, {"entity_type"}) /\ GroupParts(m)

ContextData(m) == Has(m, {"contextKey", "contextValue"})
CommodityProfileDTO(m) == Has(m, {"commodityType"})

\* The oneof VMOrPMProfileData.
VMOrPMProfileData(m) == Sub(m, "vmProfileDTO", Plain) /\ Sub(m, "pmProfileDTO", Plain)

EntityProfileDTO(m) ==
    /\ Has(m, {"id", "displayName", "entityType"})
    /\ Each(m, "commodityProfile", CommodityProfileDTO)
    /\ Each(m, "entityProperties", EntityProperty)
    /\ VMOrPMProfileData(m)

DeploymentProfileDTO(m) ==
    Has(m, {"id", "profileName"}) /\ Each(m, "contextData", ContextData)

-----------------------------------------------------------------------------
(* SupplyChain.pb.go. *)

TemplateCommodity(m) == Has(m, {"commodityType"})
Provider(m) == Has(m, {"templateClass", "providerType", "cardinalityMax", "cardinalityMin"})

CommodityDef(m) == Has(m, {"type"})
EntityPropertyDef(m) == Has(m, {"name", "description"})

\* A handler may name the one to call next, to any depth: m is the sequence of them.
PropertyHandler(m) == \A i \in 1 .. Len(m) : Has(m[i], {"methodName"})

ServerEntityPropDef(m) ==
    Has(m, {"entity", "attribute"}) /\ Sub(m, "propertyHandler", PropertyHandler)

ExternalEntityLink(m) ==
    /\ Has(m, {"buyerRef", "sellerRef", "relationship"})
    /\ Each(m, "commodityDefs", CommodityDef)
    /\ Each(m, "probeEntityPropertyDef", EntityPropertyDef)
    /\ Each(m, "externalEntityPropertyDefs", ServerEntityPropDef)

ExternalEntityLinkProp(m) == Has(m, {"key"}) /\ Must(m, "value", ExternalEntityLink)

CommBoughtProviderProp(m) ==
    Must(m, "key", Provider) /\ Each(m, "value", TemplateCommodity)

CommBoughtProviderOrSet(m) ==
    Has(m, {}) /\ Each(m, "commBought", CommBoughtProviderProp)

TemplateDTO(m) ==
    /\ Has(m, {"templateClass", "templateType", "templatePriority"})
    /\ Each(m, "commoditySold", TemplateCommodity)
    /\ Each(m, "commodityBought", CommBoughtProviderProp)
    /\ Each(m, "externalLink", ExternalEntityLinkProp)
    /\ Each(m, "commBoughtOrSet", CommBoughtProviderOrSet)

-----------------------------------------------------------------------------
(* ActionExecution.pb.go and IdentityMetadata.pb.go. *)

ActionPolicyElement(m) == Has(m, {"actionType", "actionCapability"})
ActionPolicyDTO(m) ==
    Has(m, {"entityType"}) /\ Each(m, "policyElement", ActionPolicyElement)

ProviderInfo(m) == Has(m, {"entityType"})

ActionItemDTO(m) ==
    /\ Has(m, {"actionType", "uuid"})
    /\ Must(m, "targetSE", EntityDTO)
    /\ \A f \in {"hostedBySE", "currentSE", "newSE"} : Sub(m, f, EntityDTO)
    /\ \A f \in {"currentComm", "newComm"} : Sub(m, f, CommodityDTO)
    /\ Each(m, "providers", ProviderInfo)
    /\ Sub(m, "entityProfileDTO", EntityProfileDTO)
    /\ Each(m, "contextData", ContextData)

ActionExecutionDTO(m) == Has(m, {"actionType"}) /\ Each(m, "actionItem", ActionItemDTO)

EntityIdentityMetadata(m) ==
    /\ Has(m, {"entityType"})
    /\ \A f \in {"nonVolatileProperties", "volatileProperties", "heuristicProperties"} :
          Each(m, f, Plain)

-----------------------------------------------------------------------------
(* Discovery.pb.go. *)

ErrorDTO(m) == Has(m, {"severity", "description"})
CustomMetadataDTO(m) == Has(m, {"namespace", "dataType", "payload"})

ValidationResponse(m) == Has(m, {}) /\ Each(m, "errorDTO", ErrorDTO)

\* One entity that cannot be written keeps the whole response from being sent.
DiscoveryResponse(m) ==
    /\ Has(m, {})
    /\ Each(m, "errorDTO", ErrorDTO)
    /\ Each(m, "entityDTO", EntityDTO)
    /\ Each(m, "discoveredGroup", GroupDTO)
    /\ Each(m, "entityProfile", EntityProfileDTO)
    /\ Each(m, "deploymentProfile", DeploymentProfileDTO)
    /\ Each(m, "notification", NotificationDTO)
    /\ Each(m, "metadataDTO", CustomMetadataDTO)

GroupScopeProperty(m) == Has(m, {"propertyName"})
GroupScopePropertySet(m) ==
    Has(m, {"entityType"}) /\ Each(m, "property", GroupScopeProperty)

\* The oneof FieldType: a primitive value, or the properties of a group.
FieldType(m) == Sub(m, "group_scope", GroupScopePropertySet)

CustomAccountDefEntry(m) ==
    Has(m, {"name", "displayName", "description"}) /\ FieldType(m)

\* The oneof Definition: the name of a predefined field, or a custom one.
Definition(m) == Sub(m, "custom_definition", CustomAccountDefEntry)

AccountDefEntry(m) == Has(m, {}) /\ Definition(m)

-----------------------------------------------------------------------------
(* MediationMessage.pb.go: what client and server say to each other. *)

AccountValue(m) == Has(m, {"key"}) /\ Each(m, "groupScopePropertyValues", Plain)

\* What the three kinds of request have in common.
Request(m) == Has(m, {"probeType"}) /\ Each(m, "accountValue", AccountValue)

ValidationRequest(m) == Request(m)
DiscoveryRequest(m) == Request(m)

ActionRequest(m) ==
    /\ Request(m)
    /\ Must(m, "actionExecutionDTO", ActionExecutionDTO)
    /\ Each(m, "secondaryAccountValue", AccountValue)

ActionResponse(m) == Has(m, {"actionResponseState", "progress", "responseDescription"})
ActionResult(m) == Must(m, "response", ActionResponse)
ActionProgress(m) == Must(m, "response", ActionResponse)
KeepAlive(m) == Plain(m)
Ack(m) == Plain(m)

MediationServerMessage(m) ==
    /\ Has(m, {})
    /\ Sub(m, "validationRequest", ValidationRequest)
    /\ Sub(m, "discoveryRequest", DiscoveryRequest)
    /\ Sub(m, "actionRequest", ActionRequest)

MediationClientMessage(m) ==
    /\ Has(m, {})
    /\ Sub(m, "validationResponse", ValidationResponse)
    /\ Sub(m, "discoveryResponse", DiscoveryResponse)
    /\ Sub(m, "keepAlive", KeepAlive)
    /\ Sub(m, "actionProgress", ActionProgress)
    /\ Sub(m, "actionResponse", ActionResult)

ProbeInfo(m) ==
    /\ Has(m, {"probeType", "probeCategory", "targetIdentifierField"})
    /\ Each(m, "supplyChainDefinitionSet", TemplateDTO)
    /\ Each(m, "accountDefinition", AccountDefEntry)
    /\ Each(m, "entityMetadata", EntityIdentityMetadata)
    /\ Each(m, "actionPolicy", ActionPolicyDTO)

\* One probe that cannot be written keeps all of them from being registered.
ContainerInfo(m) == Has(m, {}) /\ Each(m, "probes", ProbeInfo)
=============================================================================
