---------------------------- MODULE SupplyChain ----------------------------
(***************************************************************************)
(* How an application declares the supply chain of its probe: the builders *)
(* of a link, of a node and of the chain (pkg/supplychain).                *)
(*                                                                         *)
(* Calls on different builders commute, and so do the links of a node and  *)
(* its commodities, so that the application is taken to build a link and   *)
(* connect it before the node buys and sells, and to make a node or a      *)
(* chain, of nodes that came about earlier.  A builder is a record of its  *)
(* fields; those of the DTO keep the DTO's names.                          *)
(***************************************************************************)
EXTENDS WireFormat, FiniteSets, SequencesExt

CONSTANTS
    EntityTypes,    \* the entity types the application names
    Switch,         \* EntityDTO_SWITCH, the zero value of an entity type
    NoChain,        \* no chain has been created
    MaxParts,       \* bound on the parts of a node
    MaxLinkParts,   \* bound on the parts of a link
    MaxNodes        \* bound on the nodes of a chain

ASSUME ChainAssumption ==
    /\ Switch \in EntityTypes
    /\ Nil \notin EntityTypes \cup {NoChain, "HOSTING"}
    /\ {MaxParts, MaxLinkParts, MaxNodes} \subseteq Nat

ProviderTypes == {"HOSTING", "LAYERED_OVER"}
MaxInt32 == 2147483647

\* A complete TemplateCommodity, and complete nodes for a chain.
Commodity == [commodityType |-> "VMEM"]
Templates ==
    [templateClass : EntityTypes, templateType : {"BASE"}, templatePriority : {0}]

VARIABLES
    linkB,      \* an ExternalEntityLinkBuilder
    link,       \* the link built last, or Nil
    nodeB,      \* a SupplyChainNodeBuilder, or Nil between two nodes
    node,       \* the node created, or Nil
    chainB,     \* a SupplyChainBuilder
    chain,      \* the chain created last
    asked,      \* the purchases asked for of nodeB (history)
    offered,    \* the nodes offered to chainB since Top (history)
    refused,    \* a call on chainB has been refused (history)
    amiss       \* a part that cannot be written has been handed over (history)

linkVars == <<linkB, link>>
nodeVars == <<nodeB, node, asked>>
chainBVars == <<chainB, chain, offered, refused>>
chainVars == <<linkVars, nodeVars, chainBVars, amiss>>

NewSupplyChainBuilder == [nodes |-> <<>>, err |-> FALSE]

-----------------------------------------------------------------------------
(* ExternalEntityLinkBuilder. *)

\* getVirtualMachineIpProperty: the IP address of a virtual machine.
VM_IP == [entity |-> "VIRTUAL_MACHINE", attribute |-> "UsesEndPoints",
          propertyHandler |-> <<[methodName |-> "getAddress"]>>]

NewExternalEntityLinkBuilder ==
    [buyerRef |-> Nil, sellerRef |-> Nil, relationship |-> Nil, commodityDefs |-> <<>>,
     probeEntityPropertyDef |-> <<>>, externalEntityPropertyDefs |-> <<>>, err |-> FALSE]

NodeParts == Len(nodeB.commoditySold) + Len(asked) + Len(nodeB.externalLink)
LinkParts ==
    Len(linkB.commodityDefs) + Len(linkB.probeEntityPropertyDef)
        + Len(linkB.externalEntityPropertyDefs)

\* A call on a link builder, for a node that neither buys nor sells so far.
LinkTime == nodeB # Nil /\ nodeB.commoditySold = <<>> /\ nodeB.providers = <<>> /\ ~nodeB.err
InLink == LinkTime /\ link = Nil /\ NodeParts < MaxParts
OnLink == InLink /\ ~linkB.err /\ UNCHANGED <<link, nodeVars, chainBVars>>

Link(buyer, seller) ==
    /\ OnLink
    /\ linkB' = [linkB EXCEPT !.buyerRef = buyer, !.sellerRef = seller,
                              !.relationship = "HOSTING"]
    /\ UNCHANGED amiss

\* Commodity and ProbeEntityPropertyDef: a part the builder makes itself.
LinkPart(field, part) ==
    /\ OnLink
    /\ LinkParts < MaxLinkParts
    /\ linkB' = [linkB EXCEPT ![field] = Append(@, part)]
    /\ UNCHANGED amiss

\* It does not look whether the builder has failed.
ExternalEntityPropertyDef(def) ==
    /\ InLink
    /\ LinkParts < MaxLinkParts
    /\ linkB' = IF def = Nil
                THEN [linkB EXCEPT !.err = TRUE]
                ELSE [linkB EXCEPT !.externalEntityPropertyDefs = Append(@, def)]
    /\ amiss' = (amiss \/ (def # Nil /\ ~ServerEntityPropDef(def)))
    /\ UNCHANGED <<link, nodeVars, chainBVars>>

LinkFields == DOMAIN NewExternalEntityLinkBuilder \ {"err"}

\* Build, and the builder of the next link; a builder that has failed builds nothing.
BuildLink ==
    /\ InLink
    /\ linkB # NewExternalEntityLinkBuilder
    /\ link' = IF linkB.err THEN Nil ELSE Message([f \in LinkFields |-> linkB[f]])
    /\ linkB' = NewExternalEntityLinkBuilder
    /\ UNCHANGED <<nodeVars, chainBVars, amiss>>

-----------------------------------------------------------------------------
(* SupplyChainNodeBuilder. *)

\* The commodities bought are keyed by the address of a Provider, of which each
\* call of Provider makes a new one: bought[n] is the list of the nth.
NewSupplyChainNodeBuilder(class) ==
    [templateClass |-> class, commoditySold |-> <<>>, providers |-> <<>>,
     bought |-> <<>>, externalLink |-> <<>>, err |-> FALSE]

NewNode(class) ==
    /\ nodeB = Nil /\ node = Nil
    /\ chainB = NewSupplyChainBuilder /\ chain = NoChain
    /\ nodeB' = NewSupplyChainNodeBuilder(class)
    /\ asked' = <<>>
    /\ UNCHANGED <<linkVars, node, chainBVars, amiss>>

\* A call on a node builder that has not failed, while no link is in the making.
NodeOpen == nodeB # Nil /\ ~nodeB.err /\ linkB = NewExternalEntityLinkBuilder
OnNode == NodeOpen /\ link = Nil /\ UNCHANGED <<linkVars, node, chainBVars>>

\* Sells takes what it is given, nil too.
NodeSells(commodity) ==
    /\ OnNode
    /\ NodeParts < MaxParts
    /\ nodeB' = [nodeB EXCEPT !.commoditySold = Append(@, commodity)]
    /\ amiss' = (amiss \/ ~TemplateCommodity(commodity))
    /\ UNCHANGED asked

\* A slip: a provider that an entity is layered over is left without bounds.
MakeProviderUnbounded(class, type) ==
    IF type = "LAYERED_OVER"
    THEN [templateClass |-> class, providerType |-> type]
    ELSE [templateClass |-> class, providerType |-> type,
          cardinalityMax |-> 1, cardinalityMin |-> 1]

\* A provider that hosts is one; of those an entity is layered over there may be any number.
MakeProvider(class, type) ==
    LET hosts == type # "LAYERED_OVER"
    IN  [templateClass |-> class, providerType |-> type,
         cardinalityMax |-> IF hosts THEN 1 ELSE MaxInt32,
         cardinalityMin |-> IF hosts THEN 1 ELSE 0]

\* A provider from whom nothing is bought leaves no trace, so that it is not replaced.
NodeProvider(class, type) ==
    /\ OnNode
    /\ \A i \in 1 .. Len(nodeB.bought) : nodeB.bought[i] # <<>>
    /\ nodeB' = [nodeB EXCEPT !.providers = Append(@, MakeProvider(class, type)),
                              !.bought = Append(@, <<>>)]
    /\ UNCHANGED <<asked, amiss>>

CurrentProvider == Len(nodeB.providers)

\* A slip: a provider chosen again takes the place of what was bought from it before.
NodeBuysOnly(commodity) ==
    /\ CurrentProvider # 0
    /\ nodeB' = [nodeB EXCEPT !.bought[CurrentProvider] = <<commodity>>]

\* The commodity joins the list of the current provider.
NodeBuysFromProvider(commodity) ==
    /\ CurrentProvider # 0
    /\ nodeB' = [nodeB EXCEPT !.bought[CurrentProvider] = Append(@, commodity)]

\* Without a provider the builder fails.
NodeHasNoProvider ==
    /\ CurrentProvider = 0
    /\ nodeB' = [nodeB EXCEPT !.err = TRUE]

NodeBuys(commodity) ==
    /\ OnNode
    /\ NodeParts < MaxParts
    /\ NodeBuysFromProvider(commodity) \/ NodeHasNoProvider
    /\ asked' = Append(asked, [from |-> IF CurrentProvider = 0 THEN Nil
                                        ELSE nodeB.providers[CurrentProvider],
                               what |-> commodity])
    /\ amiss' = (amiss \/ ~TemplateCommodity(commodity))

\* The ends of a link, as its getters give them.
Buyer(l) == Get(l, "buyerRef", Switch)
Seller(l) == Get(l, "sellerRef", Switch)

\* A slip: the key of a link is its seller.
LinkedSeller(class, l) == {e \in {Seller(l)} : class \in {Buyer(l), Seller(l)}}

\* A slip: a link is taken although it does not end at the node.
AnyEnd(class, l) == {IF Buyer(l) = class THEN Seller(l) ELSE Buyer(l)}

\* buildExternalEntityLinkProperty: the other end of a link is its key, and there is none
\* if neither end is the node's class.
OtherEnd(class, l) ==
    {e \in {IF Buyer(l) = class THEN Seller(l) ELSE Buyer(l)} : class \in {Buyer(l), Seller(l)}}

\* ConnectsTo, with the link built before, or with nil.
ConnectsTo ==
    /\ NodeOpen
    /\ LinkTime
    /\ NodeParts < MaxParts
    /\ nodeB' = IF OtherEnd(nodeB.templateClass, link) = {}
                THEN [nodeB EXCEPT !.err = TRUE]
                ELSE [nodeB EXCEPT !.externalLink =
                        Append(@, Message(
                            [key |-> CHOOSE e \in OtherEnd(nodeB.templateClass, link) : TRUE,
                             value |-> link]))]
    /\ link' = Nil
    /\ UNCHANGED <<linkB, node, asked, chainBVars, amiss>>

\* buildCommodityBought: the lists of the map, which gives its keys in any order.
BoughtLists ==
    LET keys == {n \in 1 .. Len(nodeB.bought) : nodeB.bought[n] # <<>>}
    IN  {[i \in 1 .. Len(order) |-> [key |-> nodeB.providers[order[i]],
                                     value |-> nodeB.bought[order[i]]]]
            : order \in SetToSeqs(keys)}

\* Create of a builder that has not failed; that one is not used again.
CreateNode ==
    /\ NodeOpen /\ link = Nil
    /\ \E lists \in BoughtLists :
         node' = [templateClass |-> nodeB.templateClass, templateType |-> "BASE",
                  templatePriority |-> 0, commoditySold |-> nodeB.commoditySold,
                  commodityBought |-> lists, externalLink |-> nodeB.externalLink]
    /\ nodeB' = Nil
    /\ UNCHANGED <<linkVars, asked, chainBVars, amiss>>

-----------------------------------------------------------------------------
(* SupplyChainBuilder. *)

OnChain == nodeB = Nil /\ node = Nil /\ UNCHANGED <<linkVars, nodeVars, amiss>>

\* A slip: a good top node makes the builder forget that it has failed.
TopAfresh(n) ==
    /\ OnChain
    /\ chainB' = [nodes |-> IF n = Nil THEN chainB.nodes ELSE <<n>>, err |-> n = Nil]
    /\ offered' = <<n>>
    /\ refused' = (refused \/ n = Nil)
    /\ UNCHANGED chain

\* Top does not look whether the builder has failed; it starts the nodes anew.
Top(n) ==
    /\ OnChain
    /\ chainB' = IF n = Nil THEN [chainB EXCEPT !.err = TRUE]
                            ELSE [chainB EXCEPT !.nodes = <<n>>]
    /\ offered' = <<n>>
    /\ refused' = (refused \/ n = Nil)
    /\ UNCHANGED chain

\* Entity takes any node once there is a top, nil too.
Entity(n) ==
    /\ OnChain
    /\ ~chainB.err
    /\ Len(chainB.nodes) < MaxNodes
    /\ chainB' = IF chainB.nodes = <<>> THEN [chainB EXCEPT !.err = TRUE]
                                        ELSE [chainB EXCEPT !.nodes = Append(@, n)]
    /\ offered' = Append(offered, n)
    /\ refused' = (refused \/ chainB.nodes = <<>>)
    /\ UNCHANGED chain

\* Create of a builder that has not failed.  One without a top makes an empty chain.
CreateChain ==
    /\ OnChain
    /\ ~chainB.err
    /\ chain' = chainB.nodes
    /\ UNCHANGED <<chainB, offered, refused>>

-----------------------------------------------------------------------------

ServerEntityPropDefs == {VM_IP, [attribute |-> "UsesEndPoints"], Nil}

ChainInit ==
    /\ linkB = NewExternalEntityLinkBuilder
    /\ link = Nil
    /\ nodeB = Nil
    /\ node = Nil
    /\ chainB = NewSupplyChainBuilder
    /\ chain = NoChain
    /\ asked = <<>>
    /\ offered = <<>>
    /\ refused = FALSE
    /\ amiss = FALSE

ChainNext ==
    \/ \E buyer, seller \in EntityTypes : Link(buyer, seller)
    \/ LinkPart("commodityDefs", [type |-> "VMEM", hasKey |-> FALSE])
    \/ LinkPart("probeEntityPropertyDef", [name |-> "ipAddress", description |-> "IP"])
    \/ \E def \in ServerEntityPropDefs : ExternalEntityPropertyDef(def)
    \/ BuildLink
    \/ \E class \in EntityTypes :
         \/ NewNode(class)
         \/ \E type \in ProviderTypes : NodeProvider(class, type)
    \/ \E commodity \in {Commodity, Nil} : NodeSells(commodity) \/ NodeBuys(commodity)
    \/ ConnectsTo
    \/ CreateNode
    \/ \E n \in Templates \cup {Nil} : Top(n) \/ Entity(n)
    \/ CreateChain

ChainSpec == ChainInit /\ [][ChainNext]_chainVars

-----------------------------------------------------------------------------
(* Properties. *)

LinkLists == {"commodityDefs", "probeEntityPropertyDef", "externalEntityPropertyDefs"}
NodeLists == {"commoditySold", "providers", "bought", "externalLink"}

ChainTypeOK ==
    /\ DOMAIN linkB = DOMAIN NewExternalEntityLinkBuilder
    /\ {linkB.buyerRef, linkB.sellerRef} \subseteq EntityTypes \cup {Nil}
    /\ \A f \in LinkLists : IsSequence(linkB[f])
    /\ link # Nil => DOMAIN link \subseteq LinkFields
    /\ nodeB # Nil => /\ DOMAIN nodeB = DOMAIN NewSupplyChainNodeBuilder(Switch)
                      /\ nodeB.templateClass \in EntityTypes
                      /\ \A f \in NodeLists : IsSequence(nodeB[f])
                      /\ Len(nodeB.bought) = Len(nodeB.providers)
                      /\ \A i \in 1 .. Len(nodeB.providers) :
                            Provider(nodeB.providers[i]) /\ IsSequence(nodeB.bought[i])
    /\ node # Nil => nodeB = Nil
    /\ linkB # NewExternalEntityLinkBuilder => nodeB # Nil
    /\ DOMAIN chainB = DOMAIN NewSupplyChainBuilder
    /\ {chainB.err, refused, amiss} \subseteq BOOLEAN

\* An entry whose link is nil, or was never given its ends.
Unfilled(l) == ~Has(l, {"value"}) \/ ~Has(l.value, {"buyerRef"})

(***************************************************************************)
(* A template created without an error can be written, unless a part that  *)
(* cannot was handed over.  There is one exception: a link whose ends were *)
(* never set, or none at all, is refused by the nodes of every class but   *)
(* Switch, the value the getters give for an unset end; a template of that *)
(* class that holds such a link cannot be written                          *)
(* (supply_chain_node_builder.go:36-48, 141-158).                          *)
(***************************************************************************)
CreatedTemplateIsWhole ==
    node # Nil /\ ~amiss =>
        \/ TemplateDTO(node)
        \/ /\ node.templateClass = Switch
           /\ \E i \in 1 .. Len(node.externalLink) : Unfilled(node.externalLink[i])

(***************************************************************************)
(* A link that has its ends is kept under the one that is not the node's   *)
(* class, whichever of them buys (supply_chain_node_builder.go:141-158).   *)
(***************************************************************************)
LinkKeyIsOtherEnd ==
    node # Nil =>
        \A i \in 1 .. Len(node.externalLink) :
            LET l == node.externalLink[i]
            IN  "value" \in DOMAIN l /\ "buyerRef" \in DOMAIN l.value =>
                    {node.templateClass, l.key} = {l.value.buyerRef, l.value.sellerRef}

\* Where the lists of a template have a commodity.
Places(lists) == UNION {{n} \X (1 .. Len(lists[n].value)) : n \in 1 .. Len(lists)}

\* Each purchase is at its place: in a list of its provider, behind those asked for earlier.
Placed(at, purchases, lists) ==
    \A i \in 1 .. Len(purchases) :
        LET list == lists[at[i][1]]
        IN  /\ list.key = purchases[i].from
            /\ list.value[at[i][2]] = purchases[i].what
            /\ \A j \in 1 .. i - 1 : at[j][1] = at[i][1] => at[j][2] < at[i][2]

\* The lists hold what was asked for, each purchase once, and nothing else.
HoldAsked(lists) ==
    \E at \in Bijection(1 .. Len(asked), Places(lists)) : Placed(at, asked, lists)

(***************************************************************************)
(* A template holds every purchase asked for once, under the provider      *)
(* chosen when it was asked for, in the order of the calls, and no other,  *)
(* however choices of a provider and purchases alternate, a provider       *)
(* chosen again included; a purchase that named no provider leaves no      *)
(* template                                                                *)
(* (supply_chain_node_builder.go:64-117, 168-181).                         *)
(***************************************************************************)
TemplateBuysAsAsked ==
    node # Nil => /\ HoldAsked(node.commodityBought)
                  /\ \A i \in 1 .. Len(asked) : asked[i].from # Nil

(***************************************************************************)
(* A chain holds the nodes offered since the last Top, in order, and none  *)
(* is created by a builder that ever refused one: a later Top does not     *)
(* hide the error (supply_chain_builder.go:19-52).                         *)
(***************************************************************************)
ChainAsOffered ==
    [][chain' # chain => chain' = offered /\ ~refused]_chainVars

-----------------------------------------------------------------------------
(* The inductive invariant. *)

\* What a link consists of can be written.
LinkPartsWhole(l) ==
    /\ Each(l, "commodityDefs", CommodityDef)
    /\ Each(l, "probeEntityPropertyDef", EntityPropertyDef)
    /\ Each(l, "externalEntityPropertyDefs", ServerEntityPropDef)

\* A link has both its ends and its relationship, or neither end.
EndsTogether(l) ==
    IF Has(l, {"buyerRef"})
    THEN /\ Has(l, {"sellerRef", "relationship"})
         /\ {l.buyerRef, l.sellerRef} \subseteq EntityTypes
    ELSE ~Has(l, {"sellerRef"})

(***************************************************************************)
(* The link in the making and the link built: Link sets the ends and the   *)
(* relationship in one step, and Build leaves out what is not set          *)
(* (external_link_builder.go:28-58).                                       *)
(***************************************************************************)
LinkInv ==
    /\ IF linkB.buyerRef = Nil
       THEN linkB.sellerRef = Nil
       ELSE linkB.relationship # Nil /\ {linkB.buyerRef, linkB.sellerRef} \subseteq EntityTypes
    /\ EndsTogether(link)
    /\ ~amiss => LinkPartsWhole(linkB) /\ (link # Nil => LinkPartsWhole(link))

\* A link in the node is kept under its other end.
Keyed(class, l) ==
    "value" \in DOMAIN l /\ "buyerRef" \in DOMAIN l.value =>
        {class, l.key} = {l.value.buyerRef, l.value.sellerRef}

\* What a node consists of can be written; a Switch may hold a link without ends.
NodePartsWhole ==
    /\ \A i \in 1 .. Len(nodeB.commoditySold) : TemplateCommodity(nodeB.commoditySold[i])
    /\ \A i \in 1 .. Len(nodeB.bought) :
          \A j \in 1 .. Len(nodeB.bought[i]) : TemplateCommodity(nodeB.bought[i][j])
    /\ \A i \in 1 .. Len(nodeB.externalLink) :
          \/ ExternalEntityLinkProp(nodeB.externalLink[i])
          \/ nodeB.templateClass = Switch /\ Unfilled(nodeB.externalLink[i])

(***************************************************************************)
(* The node in the making is at any time what Create may hand out          *)
(* (supply_chain_node_builder.go:51-158).                                  *)
(***************************************************************************)
NodeInv ==
    nodeB # Nil =>
        /\ \A i \in 1 .. Len(nodeB.externalLink) :
              Keyed(nodeB.templateClass, nodeB.externalLink[i])
        /\ ~amiss => NodePartsWhole

\* The lists of the node in the making, by the number of their provider.
Lists ==
    [n \in 1 .. Len(nodeB.bought) |-> [key |-> nodeB.providers[n], value |-> nodeB.bought[n]]]

(***************************************************************************)
(* Until it fails, the node in the making holds what was asked for         *)
(* (supply_chain_node_builder.go:64-117).                                  *)
(***************************************************************************)
BuyInv ==
    /\ IsSequence(asked)
    /\ nodeB # Nil /\ ~nodeB.err =>
          /\ HoldAsked(Lists)
          /\ \A i \in 1 .. Len(asked) : asked[i].from # Nil

(***************************************************************************)
(* A builder has its error exactly if a call was refused; without one it   *)
(* holds what was offered (supply_chain_builder.go:19-45).                 *)
(***************************************************************************)
OfferInv ==
    /\ chainB.err = refused
    /\ ~refused => chainB.nodes = offered

(***************************************************************************)
(* What holds of the builders between any two calls, and of the template   *)
(* and the chain they made (pkg/supplychain).                              *)
(***************************************************************************)
ChainInv ==
    /\ ChainTypeOK
    /\ LinkInv
    /\ NodeInv
    /\ BuyInv
    /\ OfferInv
    /\ LinkKeyIsOtherEnd
    /\ CreatedTemplateIsWhole
=============================================================================
