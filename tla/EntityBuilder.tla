--------------------------- MODULE EntityBuilder ---------------------------
(***************************************************************************)
(* How a discovery client builds the DTO of an entity: CommodityDTOBuilder,*)
(* ReplacementEntityMetaDataBuilder and EntityDTOBuilder (pkg/builder).    *)
(*                                                                         *)
(* The builders are called by one goroutine, in any order the application  *)
(* likes.  Of a field no call looks at only whether it is set is kept.     *)
(* The map commoditiesBoughtProviderMap is bought: a provider that is not  *)
(* in the map has the empty sequence, for the code never stores an empty   *)
(* list.  A pointer to a DTO that was not created is Nil, and the          *)
(* application may hand it over like any other.  Create may be called      *)
(* again and reads the builder as it is then, so that one call of it, at   *)
(* any point, is enough; only the replacement builder goes on after it.    *)
(***************************************************************************)
EXTENDS WireFormat, FiniteSets, SequencesExt

CONSTANTS
    Commodities,    \* the commodities the probe knows of
    Providers,      \* the ids of the entities it can buy from
    MaxListed       \* bound on what is listed or set in the entity

ASSUME EntityAssumption ==
    /\ Nil \notin Providers
    /\ MaxListed \in Nat

CommoditySetters == {"key", "capacity", "used", "resizable"}
EntitySetters == {"displayName", "powerState", "monitored"}
PatchSetters == {"identifyingProp", "buyingCommTypes", "sellingCommTypes"}
\* What a list of the record can name: a property, or a commodity's type.
Patchable(f) == IF f = "identifyingProp" THEN {"IP"} ELSE Commodities
Data == {"application_data", "virtual_machine_data"}
Property == [namespace |-> "DEFAULT", name |-> "IP", value |-> "ip"]

VARIABLES
    cb,         \* which fields of a commodity's builder are set
    made,       \* the commodity DTOs created, Nil before
    patch,      \* the replacement builder's record, metaData: its three lists
    current,    \* currentProvider
    sold,       \* commoditiesSold
    bought,     \* commoditiesBoughtProviderMap
    props,      \* entityProperties
    scalars,    \* which of the fields of EntitySetters are set
    replaced,   \* replacementEntityData: the record patch, or Nil
    data,       \* the entity data that is not nil, or Nil
    dataHasSet, \* entityDataHasSet
    failed,     \* the builder's err is not nil
    entity,     \* the entity DTO created, or Nil
    ledger,     \* the purchases the application asked for, in order (history)
    spoiled     \* a nil has been handed over (history)

partVars == <<cb, made, patch>>
draftVars == <<current, sold, bought, props, scalars, replaced, data, dataHasSet, failed>>
builderVars == <<partVars, draftVars, entity, ledger, spoiled>>

Purchases == Seq((Providers \cup {Nil}) \X (Range(made) \cup {Nil}))

EntityTypeOK ==
    /\ cb \in [Commodities -> SUBSET CommoditySetters]
    /\ made = [c \in Commodities |-> made[c]]
    /\ \A c \in Commodities : made[c] # Nil => CommodityDTO(made[c])
    /\ patch \in [PatchSetters -> Seq(Commodities \cup {"IP"})]
    /\ current \in Providers \cup {Nil}
    /\ sold \in Seq(Range(made) \cup {Nil})
    /\ bought \in [Providers -> Seq(Range(made) \cup {Nil})]
    /\ props \in Seq({Property, Nil})
    /\ scalars \subseteq EntitySetters
    /\ replaced \in {"patch", Nil}
    /\ data \in Data \cup {Nil}
    /\ data # Nil => dataHasSet
    /\ {failed, spoiled, dataHasSet} \subseteq BOOLEAN
    /\ ledger \in Purchases

EntityInit ==
    /\ cb = [c \in Commodities |-> {}]
    /\ made = [c \in Commodities |-> Nil]
    /\ patch = [f \in PatchSetters |-> <<>>]
    /\ current = Nil
    /\ sold = <<>>
    /\ bought = [p \in Providers |-> <<>>]
    /\ props = <<>>
    /\ scalars = {}
    /\ replaced = Nil
    /\ data = Nil
    /\ dataHasSet = FALSE
    /\ failed = FALSE
    /\ entity = Nil
    /\ ledger = <<>>
    /\ spoiled = FALSE

\* What counts towards MaxListed.
Listed ==
    Len(sold) + Len(ledger) + Len(props) + Cardinality(scalars)
        + SumFunction([f \in PatchSetters |-> Len(patch[f])])
        + SumFunction([c \in Commodities |-> Cardinality(cb[c])])

-----------------------------------------------------------------------------
(* CommodityDTOBuilder.  No call of it can fail. *)

\* Key, Capacity, Used and Resizable.
SetsCommodity(c, f) ==
    /\ made[c] = Nil /\ entity = Nil
    /\ Listed < MaxListed
    /\ cb' = [cb EXCEPT ![c] = @ \cup {f}]
    /\ UNCHANGED <<made, patch, draftVars, entity, ledger, spoiled>>

\* A slip: the builder's type is left out.
CreateCommodityUntyped(c) ==
    /\ made[c] = Nil /\ entity = Nil
    /\ made' = [made EXCEPT ![c] = [f \in cb[c] |-> c]]
    /\ UNCHANGED <<cb, patch, draftVars, entity, ledger, spoiled>>

\* The DTO's Resizable is filled from the builder's active, which has no setter.
CreateCommodity(c) ==
    /\ made[c] = Nil /\ entity = Nil
    /\ made' = [made EXCEPT ![c] =
                    [f \in {"commodityType"} \cup (cb[c] \ {"resizable"}) |-> c]]
    /\ UNCHANGED <<cb, patch, draftVars, entity, ledger, spoiled>>

-----------------------------------------------------------------------------
(* ReplacementEntityMetaDataBuilder. *)

\* Matching, PatchBuying and PatchSelling.  Build hands out the record itself, so that whoever
\* holds it sees the list grow, an entity that is created already, too.
Patches(f, what) ==
    /\ Listed < MaxListed
    /\ patch' = [patch EXCEPT ![f] = Append(@, what)]
    /\ UNCHANGED <<cb, made, draftVars, entity, ledger, spoiled>>

-----------------------------------------------------------------------------
(* EntityDTOBuilder.  Every setter is a no-op once the builder has failed. *)

OnEntity == ~failed /\ entity = Nil /\ UNCHANGED <<partVars, entity>>

\* DisplayName, WithPowerState and Monitored.
SetsEntity(f) ==
    /\ OnEntity
    /\ Listed < MaxListed
    /\ scalars' = scalars \cup {f}
    /\ UNCHANGED <<current, sold, bought, props, replaced, data, dataHasSet, failed, ledger, spoiled>>

\* WithProperty, and WithProperties of one.
WithProperty(p) ==
    /\ OnEntity
    /\ Listed < MaxListed
    /\ props' = Append(props, p)
    /\ spoiled' = (spoiled \/ p = Nil)
    /\ UNCHANGED <<current, sold, bought, scalars, replaced, data, dataHasSet, failed, ledger>>

\* ReplacedBy: the entity holds the record the replacement builder goes on with.
ReplacedBy(r) ==
    /\ OnEntity
    /\ replaced' = r
    /\ UNCHANGED <<current, sold, bought, props, scalars, data, dataHasSet, failed, ledger, spoiled>>

\* The application names the provider of the purchases that follow, or none.
SetsProvider(p) ==
    /\ OnEntity
    /\ current' = p
    /\ UNCHANGED <<sold, bought, props, scalars, replaced, data, dataHasSet, failed, ledger, spoiled>>

SellsCommodity(c) ==
    /\ OnEntity
    /\ Listed < MaxListed
    /\ sold' = Append(sold, made[c])
    /\ spoiled' = (spoiled \/ made[c] = Nil)
    /\ UNCHANGED <<current, bought, props, scalars, replaced, data, dataHasSet, failed, ledger>>

\* The application asks to buy the commodities from the current provider.
Asks(dtos) == ledger' = ledger \o [i \in 1 .. Len(dtos) |-> <<current, dtos[i]>>]

\* A slip: the list is stored anew and not appended to.
BuysReplacing(dtos) ==
    /\ current # Nil
    /\ bought' = [bought EXCEPT ![current] = dtos]
    /\ UNCHANGED failed

\* The commodities join what is already bought from the current provider.
Buys(dtos) ==
    /\ current # Nil
    /\ bought' = [bought EXCEPT ![current] = @ \o dtos]
    /\ UNCHANGED failed

\* A slip: the refusal is not remembered.
RefusesOnce ==
    /\ current = Nil
    /\ UNCHANGED <<bought, failed>>

\* Without a provider the builder fails.
Refuses ==
    /\ current = Nil
    /\ failed' = TRUE
    /\ UNCHANGED bought

\* BuysCommodity, and BuysCommodities, which calls it for each of its list and fails the builder
\* without a provider before it looks at the list, which may be empty.
BuysCommodities(cs) ==
    LET dtos == [i \in 1 .. Len(cs) |-> made[cs[i]]]
    IN  /\ OnEntity
        /\ Listed + Len(cs) <= MaxListed
        /\ Asks(dtos)
        /\ Buys(dtos) \/ Refuses
        /\ spoiled' = (spoiled \/ \E i \in 1 .. Len(dtos) : dtos[i] = Nil)
        /\ UNCHANGED <<current, sold, props, scalars, replaced, data, dataHasSet>>

\* ApplicationData and VirtualMachineData, also of nil; the second call fails.
SetsData(d, value) ==
    /\ OnEntity
    /\ dataHasSet' = TRUE
    /\ IF dataHasSet
       THEN failed' = TRUE /\ UNCHANGED data
       ELSE data' = (IF value = Nil THEN Nil ELSE d) /\ UNCHANGED failed
    /\ UNCHANGED <<current, sold, bought, props, scalars, replaced, ledger, spoiled>>

\* The keys of the map.
BoughtFrom == {p \in Providers : bought[p] # <<>>}

\* A slip: every list names the provider of the next purchase.
CommodityBoughtFromCurrent ==
    {[p \in BoughtFrom |-> [providerId |-> current, bought |-> bought[p]]]}

(***************************************************************************)
(* buildCommodityBoughtFromMap.  Each list takes the address of the loop   *)
(* variable, of which there is one for the whole loop, so that in the end  *)
(* all of them name the provider the map gave last; a map gives its keys   *)
(* in any order.                                                           *)
(***************************************************************************)
CommodityBoughtFromMap ==
    {[p \in BoughtFrom |-> [providerId |-> last, bought |-> bought[p]]] : last \in BoughtFrom}

\* A slip: the data is put in whenever it has been set, nil too.
DataField == IF dataHasSet THEN {IF data = Nil THEN "application_data" ELSE data} ELSE {}

\* The field of the entity data, if there is some.
EntityDataField == {data} \ {Nil}

\* The fields of the DTO that were set; of those whose contents no property is about,
\* the record holds their name.
EntityFields ==
    LET single == [f \in {"entityType", "id"} \cup scalars \cup EntityDataField |->
                      IF f \notin EntityDataField THEN f ELSE IF data = Nil THEN Nil ELSE <<>>]
    IN  With(With(single, "commoditiesSold", sold), "entityProperties", props)

\* Create of a builder that has not failed; no map gives no list.
CreateEntity ==
    /\ ~failed /\ entity = Nil
    /\ \E lists \in IF BoughtFrom = {} THEN {<<>>} ELSE CommodityBoughtFromMap :
         entity' = [fields |-> EntityFields, bought |-> lists, replaced |-> replaced]
    /\ UNCHANGED <<partVars, draftVars, ledger, spoiled>>

BuildNext ==
    \/ \E c \in Commodities :
         \/ \E f \in CommoditySetters : SetsCommodity(c, f)
         \/ CreateCommodity(c)
         \/ SellsCommodity(c)
         \/ BuysCommodities(<<c>>)
         \/ \E d \in Commodities : BuysCommodities(<<c, d>>)
    \/ BuysCommodities(<<>>)
    \/ \E f \in PatchSetters : \E what \in Patchable(f) : Patches(f, what)
    \/ \E f \in EntitySetters : SetsEntity(f)
    \/ \E p \in {Property, Nil} : WithProperty(p)
    \/ \E r \in {"patch", Nil} : ReplacedBy(r)
    \/ \E p \in Providers \cup {Nil} : SetsProvider(p)
    \/ \E d \in Data : \E value \in {d, Nil} : SetsData(d, value)
    \/ CreateEntity

BuildSpec == EntityInit /\ [][BuildNext]_builderVars

-----------------------------------------------------------------------------
(* Properties. *)

\* The purchases asked for from provider p, by their number.
AskedFrom(p) == {i \in 1 .. Len(ledger) : ledger[i][1] = p}

\* The list dtos holds these purchases once each, in their order: at gives the number of
\* the purchase that is the i-th of the list.
ListsInOrder(dtos, purchases) ==
    \E at \in [1 .. Len(dtos) -> purchases] :
        /\ Range(at) = purchases
        /\ \A i, j \in 1 .. Len(dtos) : i < j => at[i] < at[j]
        /\ \A i \in 1 .. Len(dtos) : dtos[i] = ledger[at[i]][2]

(***************************************************************************)
(* The entity DTO holds each purchase asked for from a provider once, in   *)
(* one list per provider, in the order of the calls, however single        *)
(* purchases, lists and changes of the provider alternate                  *)
(* (entity_dto_builder.go:145-191, 279-291).                               *)
(***************************************************************************)
BoughtAsOrdered ==
    entity # Nil =>
        /\ DOMAIN entity.bought = {p \in Providers : AskedFrom(p) # {}}
        /\ \A p \in DOMAIN entity.bought :
              ListsInOrder(entity.bought[p].bought, AskedFrom(p))

(***************************************************************************)
(* An entity that buys from one provider names it                          *)
(* (entity_dto_builder.go:284-289).                                        *)
(***************************************************************************)
SoleProviderNamed ==
    entity # Nil =>
        \A p \in DOMAIN entity.bought :
            DOMAIN entity.bought = {p} => entity.bought[p].providerId = p

(***************************************************************************)
(* No entity DTO is created with a purchase missing: one that named no     *)
(* provider, however early in the calls, leaves the application with an    *)
(* error and not with an incomplete DTO                                    *)
(* (entity_dto_builder.go:69-71, 158-161, 173-176).                        *)
(***************************************************************************)
NothingMissing ==
    entity # Nil => \A i \in 1 .. Len(ledger) : ledger[i][1] # Nil

\* The DTO as it is written.
Written(e) == With(e.fields, "commoditiesBought", SetToSeq(Range(e.bought)))

(***************************************************************************)
(* An entity DTO can be written, and with it the discovery response it is  *)
(* part of, unless the application handed over a nil commodity or          *)
(* property; nil entity data counts as set but does no harm                *)
(* (entity_dto_builder.go:68-113, 251-277).                                *)
(***************************************************************************)
EntityIsWhole ==
    entity # Nil /\ ~spoiled => EntityDTO(Written(entity))

(***************************************************************************)
(* "ID of the provider entity" of the "list of CommodityDTO items bought   *)
(* from the provider entity" (CommonDTO.pb.go:1458-1460): every list names *)
(* the provider its commodities were bought from.                          *)
(***************************************************************************)
EveryProviderNamed ==
    entity # Nil =>
        \A p \in DOMAIN entity.bought : entity.bought[p].providerId = p

-----------------------------------------------------------------------------
(* What is true at all times, and why the properties hold (EntityBuilderProofs). *)

\* As soon as a purchase named no provider the builder has failed, before there is a DTO; it
\* never recovers.
NamedOrFailed ==
    (\A i \in 1 .. Len(ledger) : ledger[i][1] # Nil) \/ (failed /\ entity = Nil)

\* The map holds what was asked for before Create does.
MapInOrder == \A p \in Providers : ListsInOrder(bought[p], AskedFrom(p))

\* A list has a nil only if the application handed one over.
NilsAreKnown ==
    spoiled \/ Nil \notin Range(sold) \cup Range(props) \cup UNION {Range(bought[p]) : p \in Providers}

(***************************************************************************)
(* Between any two calls the builders hold exactly what they were told,    *)
(* or the failure: every purchase is in the map under its provider and in  *)
(* its place, or is remembered as an error, and no list has a nil the      *)
(* application did not hand over (entity_dto_builder.go:123-191, 193-221). *)
(***************************************************************************)
EntityInv ==
    /\ EntityTypeOK
    /\ NamedOrFailed
    /\ MapInOrder
    /\ NilsAreKnown
    /\ IsFiniteSet(BoughtFrom)
=============================================================================
