------------------------- MODULE SupplyChainProofs -------------------------
(***************************************************************************)
(* What the builders of a supply chain make, for any entity types and any  *)
(* number of links, parts, nodes and calls.                                *)
(***************************************************************************)
EXTENDS SupplyChain, WireFormatProofs, FiniteSetTheorems

-----------------------------------------------------------------------------
(* The builder of a link and the link. *)

\* The parts a link builder makes itself are whole.
LEMMA OwnPartsWhole ==
    ASSUME NilIsNoMessage
    PROVE  /\ CommodityDef([type |-> "VMEM", hasKey |-> FALSE])
           /\ EntityPropertyDef([name |-> "ipAddress", description |-> "IP"])
  <1>1. [type |-> "VMEM", hasKey |-> FALSE] # Nil
    BY MessageExists
  <1>2. [name |-> "ipAddress", description |-> "IP"] # Nil
    BY MessageExists
  <1>3. QED
    BY <1>1, <1>2 DEF CommodityDef, EntityPropertyDef, Has

\* A step that leaves the builder of a link, the link and what was handed over.
LEMMA LinkUntouched ==
    ASSUME LinkInv, UNCHANGED linkVars, ~amiss' => ~amiss
    PROVE  LinkInv'
  BY DEF LinkInv, linkVars, EndsTogether, LinkPartsWhole, Has, Each

\* A new builder makes a link without ends.
LEMMA NewLink ==
    ASSUME NEW b, b = NewExternalEntityLinkBuilder
    PROVE  /\ DOMAIN b = DOMAIN NewExternalEntityLinkBuilder
           /\ {b.buyerRef, b.sellerRef} \subseteq EntityTypes \cup {Nil}
           /\ \A f \in LinkLists : IsSequence(b[f])
           /\ b.buyerRef = Nil /\ b.sellerRef = Nil
           /\ LinkPartsWhole(b)
  <1>1. /\ DOMAIN b = DOMAIN NewExternalEntityLinkBuilder
        /\ b.buyerRef = Nil /\ b.sellerRef = Nil
        /\ \A f \in LinkLists : b[f] = <<>>
    BY DEF NewExternalEntityLinkBuilder, LinkLists
  <1>3. LinkPartsWhole(b)
    BY <1>1, EmptyIsSequence DEF LinkPartsWhole, Each, LinkLists
  <1>4. \A f \in LinkLists : IsSequence(b[f])
    BY <1>1, EmptyIsSequence
  <1>5. QED
    BY <1>1, <1>3, <1>4

\* What Build leaves of the builder's fields.
LEMMA LinkOfBuilder ==
    ASSUME ChainTypeOK, LinkInv, NEW m, m = Message([f \in LinkFields |-> linkB[f]])
    PROVE  /\ DOMAIN m \subseteq LinkFields
           /\ EndsTogether(m)
           /\ ~amiss => LinkPartsWhole(m)
  <1>1. LinkFields = {"buyerRef", "sellerRef", "relationship"} \cup LinkLists
    BY DEF LinkFields, LinkLists, NewExternalEntityLinkBuilder
  <1>2. /\ DOMAIN m = {f \in LinkFields : linkB[f] # Nil}
        /\ \A f \in DOMAIN m : m[f] = linkB[f]
    BY MessageFields
  <1>3. EndsTogether(m)
    <2>1. "buyerRef" \in DOMAIN m <=> linkB.buyerRef # Nil
      BY <1>1, <1>2
    <2>2. "sellerRef" \in DOMAIN m <=> linkB.sellerRef # Nil
      BY <1>1, <1>2
    <2>3. "relationship" \in DOMAIN m <=> linkB.relationship # Nil
      BY <1>1, <1>2
    <2>4. CASE linkB.buyerRef = Nil
      BY <2>1, <2>2, <2>4 DEF EndsTogether, Has, LinkInv
    <2>5. CASE linkB.buyerRef # Nil
      <3>1. /\ linkB.relationship # Nil
            /\ linkB.buyerRef \in EntityTypes /\ linkB.sellerRef \in EntityTypes
        BY <2>5 DEF LinkInv
      <3>2. {"buyerRef", "sellerRef", "relationship"} \subseteq DOMAIN m
        BY <2>1, <2>2, <2>3, <2>5, <3>1, ChainAssumption
      <3>3. m.buyerRef = linkB.buyerRef /\ m.sellerRef = linkB.sellerRef
        BY <3>2, <1>2
      <3>4. QED
        BY <3>1, <3>2, <3>3 DEF EndsTogether, Has
    <2>6. QED
      BY <2>4, <2>5
  <1>4. ASSUME ~amiss
        PROVE  LinkPartsWhole(m)
    <2>1. LinkPartsWhole(linkB) /\ LinkLists \subseteq DOMAIN linkB
      BY <1>4 DEF LinkInv, ChainTypeOK, LinkLists, NewExternalEntityLinkBuilder
    <2>2. QED
      BY <2>1, <1>1, <1>2 DEF LinkPartsWhole, Each, LinkLists
  <1>5. QED
    BY <1>2, <1>3, <1>4

\* What a step has to keep of the builder of a link.
BuilderKept ==
    /\ DOMAIN linkB = DOMAIN NewExternalEntityLinkBuilder
    /\ {linkB.buyerRef, linkB.sellerRef} \subseteq EntityTypes \cup {Nil}
    /\ \A f \in LinkLists : IsSequence(linkB[f])
    /\ IF linkB.buyerRef = Nil
       THEN linkB.sellerRef = Nil
       ELSE linkB.relationship # Nil /\ {linkB.buyerRef, linkB.sellerRef} \subseteq EntityTypes
    /\ ~amiss => LinkPartsWhole(linkB)

LEMMA LinkKeeps ==
    ASSUME NilIsNoMessage, BuilderKept, NEW buyer \in EntityTypes, NEW seller \in EntityTypes,
           Link(buyer, seller)
    PROVE  BuilderKept'
  <1>1. /\ linkB' = [linkB EXCEPT !.buyerRef = buyer, !.sellerRef = seller,
                                  !.relationship = "HOSTING"]
        /\ amiss' = amiss
    BY DEF Link
  <1>2. /\ DOMAIN linkB' = DOMAIN NewExternalEntityLinkBuilder
        /\ linkB'.buyerRef = buyer /\ linkB'.sellerRef = seller
        /\ linkB'.relationship = "HOSTING"
        /\ \A f \in LinkLists : linkB'[f] = linkB[f]
        /\ LinkLists \subseteq DOMAIN linkB
    BY <1>1 DEF BuilderKept, LinkLists, NewExternalEntityLinkBuilder
  <1>3. buyer # Nil /\ seller # Nil /\ "HOSTING" # Nil
    BY ChainAssumption
  <1>4. LinkPartsWhole(linkB) => LinkPartsWhole(linkB')
    BY <1>2 DEF LinkPartsWhole, Each, LinkLists
  <1>5. QED
    BY <1>1, <1>2, <1>3, <1>4 DEF BuilderKept

\* A part is added to one of the lists.
LEMMA PartKept ==
    ASSUME BuilderKept, NEW field \in LinkLists, NEW part,
           linkB' = [linkB EXCEPT ![field] = Append(@, part)],
           ~amiss' => ~amiss,
           ~amiss' => /\ field = "commodityDefs" => CommodityDef(part)
                      /\ field = "probeEntityPropertyDef" => EntityPropertyDef(part)
                      /\ field = "externalEntityPropertyDefs" => ServerEntityPropDef(part)
    PROVE  BuilderKept'
  <1>1. /\ DOMAIN linkB' = DOMAIN NewExternalEntityLinkBuilder
        /\ LinkLists \subseteq DOMAIN linkB
        /\ \A f \in DOMAIN linkB \ {field} : linkB'[f] = linkB[f]
        /\ linkB'[field] = Append(linkB[field], part)
    BY DEF BuilderKept, LinkLists, NewExternalEntityLinkBuilder
  <1>2. /\ IsSequence(linkB[field])
        /\ \A f \in LinkLists : IsSequence(linkB'[f])
    BY <1>1, Appended DEF BuilderKept
  <1>3. linkB'.buyerRef = linkB.buyerRef /\ linkB'.sellerRef = linkB.sellerRef
        /\ linkB'.relationship = linkB.relationship
    BY <1>1 DEF BuilderKept, LinkLists, NewExternalEntityLinkBuilder
  <1>4. ASSUME ~amiss'
        PROVE  LinkPartsWhole(linkB')
    <2>1. LinkPartsWhole(linkB)
      BY <1>4 DEF BuilderKept
    <2>2. /\ Len(linkB[field]) \in Nat
          /\ Len(linkB'[field]) = Len(linkB[field]) + 1
          /\ \A i \in 1 .. Len(linkB[field]) : linkB'[field][i] = linkB[field][i]
          /\ linkB'[field][Len(linkB[field]) + 1] = part
      BY <1>1, <1>2, Appended, SequenceElements
    <2>3. CASE field = "commodityDefs"
      BY <2>1, <2>2, <2>3, <1>1, <1>4 DEF LinkPartsWhole, Each, LinkLists
    <2>4. CASE field = "probeEntityPropertyDef"
      BY <2>1, <2>2, <2>4, <1>1, <1>4 DEF LinkPartsWhole, Each, LinkLists
    <2>5. CASE field = "externalEntityPropertyDefs"
      BY <2>1, <2>2, <2>5, <1>1, <1>4 DEF LinkPartsWhole, Each, LinkLists
    <2>6. QED
      BY <2>3, <2>4, <2>5 DEF LinkLists
  <1>5. QED
    BY <1>1, <1>2, <1>3, <1>4 DEF BuilderKept

\* A link without its parts is put together only while it is in the making.
LEMMA LinkStepKept ==
    ASSUME NilIsNoMessage, ChainTypeOK, LinkInv, ChainNext
    PROVE  BuilderKept' /\ (link' # Nil => DOMAIN link' \subseteq LinkFields) /\ LinkInv'
  <1>1. BuilderKept
    BY DEF BuilderKept, ChainTypeOK, LinkInv
  <1> DEFINE Kept == BuilderKept' /\ (link' # Nil => DOMAIN link' \subseteq LinkFields)
                        /\ EndsTogether(link')
                        /\ (~amiss' /\ link' # Nil => LinkPartsWhole(link'))
  <1>2. SUFFICES Kept
    BY DEF BuilderKept, LinkInv
  <1>3. ASSUME UNCHANGED link, ~amiss' => ~amiss, BuilderKept'
        PROVE  Kept
    BY <1>3 DEF ChainTypeOK, LinkInv
  <1>4. ASSUME UNCHANGED linkVars, ~amiss' => ~amiss
        PROVE  Kept
    <2>1. BuilderKept'
      BY <1>1, <1>4 DEF BuilderKept, linkVars, LinkPartsWhole, Each
    <2>2. QED
      BY <2>1, <1>3, <1>4 DEF linkVars
  <1>5. ASSUME NEW buyer \in EntityTypes, NEW seller \in EntityTypes, Link(buyer, seller)
        PROVE  Kept
    <2>1. BuilderKept'
      BY <1>1, <1>5, LinkKeeps
    <2>2. QED
      BY <2>1, <1>3, <1>5 DEF Link, OnLink
  <1>6. CASE LinkPart("commodityDefs", [type |-> "VMEM", hasKey |-> FALSE])
    <2>1. BuilderKept'
      BY <1>1, <1>6, PartKept, OwnPartsWhole DEF LinkPart, LinkLists
    <2>2. QED
      BY <2>1, <1>3, <1>6 DEF LinkPart, OnLink
  <1>7. CASE LinkPart("probeEntityPropertyDef", [name |-> "ipAddress", description |-> "IP"])
    <2>1. BuilderKept'
      BY <1>1, <1>7, PartKept, OwnPartsWhole DEF LinkPart, LinkLists
    <2>2. QED
      BY <2>1, <1>3, <1>7 DEF LinkPart, OnLink
  <1>8. ASSUME NEW def, ExternalEntityPropertyDef(def)
        PROVE  Kept
    <2>1. CASE def = Nil
      <3>1. linkB' = [linkB EXCEPT !.err = TRUE] /\ amiss' = amiss
        BY <1>8, <2>1 DEF ExternalEntityPropertyDef, ChainTypeOK
      <3>2. /\ DOMAIN linkB' = DOMAIN NewExternalEntityLinkBuilder
            /\ LinkLists \subseteq DOMAIN linkB
            /\ \A f \in LinkFields : linkB'[f] = linkB[f]
            /\ LinkFields = {"buyerRef", "sellerRef", "relationship"} \cup LinkLists
        BY <1>1, <3>1 DEF BuilderKept, LinkLists, LinkFields, NewExternalEntityLinkBuilder
      <3>3. BuilderKept'
        BY <1>1, <3>1, <3>2 DEF BuilderKept, LinkLists, LinkPartsWhole, Each
      <3>4. QED
        BY <3>1, <3>3, <1>3, <1>8 DEF ExternalEntityPropertyDef
    <2>2. CASE def # Nil
      <3>1. /\ linkB' = [linkB EXCEPT !["externalEntityPropertyDefs"] = Append(@, def)]
            /\ ~amiss' => ~amiss /\ ServerEntityPropDef(def)
        BY <1>8, <2>2 DEF ExternalEntityPropertyDef
      <3>2. BuilderKept'
        BY <1>1, <3>1, PartKept DEF LinkLists
      <3>3. QED
        BY <3>1, <3>2, <1>3, <1>8 DEF ExternalEntityPropertyDef
    <2>3. QED
      BY <2>1, <2>2
  <1>9. CASE BuildLink
    <2>1. /\ linkB' = NewExternalEntityLinkBuilder /\ amiss' = amiss
          /\ link' = Nil \/ link' = Message([f \in LinkFields |-> linkB[f]])
      BY <1>9 DEF BuildLink
    <2>2. BuilderKept'
      BY <2>1, NewLink DEF BuilderKept
    <2>3. QED
      BY <2>1, <2>2, LinkOfBuilder DEF EndsTogether, Has
  <1>10. CASE ConnectsTo
    <2>1. linkB' = linkB /\ link' = Nil /\ amiss' = amiss
      BY <1>10 DEF ConnectsTo
    <2>2. BuilderKept'
      BY <1>1, <2>1 DEF BuilderKept, LinkPartsWhole, Each
    <2>3. QED
      BY <2>1, <2>2 DEF EndsTogether, Has
  <1>11. ASSUME NEW class \in EntityTypes,
                NewNode(class) \/ \E type \in ProviderTypes : NodeProvider(class, type)
         PROVE  Kept
    <2>1. UNCHANGED linkVars /\ amiss' = amiss
      BY <1>11 DEF NewNode, NodeProvider, OnNode
    <2>2. QED
      BY <2>1, <1>4
  <1>12. ASSUME NEW commodity, NodeSells(commodity) \/ NodeBuys(commodity)
         PROVE  Kept
    BY <1>12, <1>4 DEF NodeSells, NodeBuys, OnNode
  <1>13. CASE CreateNode
    BY <1>13, <1>4 DEF CreateNode
  <1>14. ASSUME NEW n, Top(n) \/ Entity(n)
         PROVE  Kept
    BY <1>14, <1>4 DEF Top, Entity, OnChain
  <1>15. CASE CreateChain
    BY <1>15, <1>4 DEF CreateChain, OnChain
  <1>16. QED
    BY <1>5, <1>6, <1>7, <1>8, <1>9, <1>10, <1>11, <1>12, <1>13, <1>14, <1>15 DEF ChainNext

-----------------------------------------------------------------------------
(* The builder of a node and the node. *)

\* What MakeProvider makes can be written.
LEMMA ProviderIsWhole ==
    ASSUME NilIsNoMessage, NEW class, NEW type
    PROVE  Provider(MakeProvider(class, type))
  <1>1. MakeProvider(class, type) # Nil
    BY MessageExists DEF MakeProvider
  <1>2. QED
    BY <1>1 DEF Provider, Has, MakeProvider

\* What a step has to keep of the builder of a node.
NodeKept ==
    nodeB # Nil =>
        /\ DOMAIN nodeB = DOMAIN NewSupplyChainNodeBuilder(Switch)
        /\ nodeB.templateClass \in EntityTypes
        /\ \A f \in NodeLists : IsSequence(nodeB[f])
        /\ Len(nodeB.bought) = Len(nodeB.providers)
        /\ \A i \in 1 .. Len(nodeB.providers) :
              Provider(nodeB.providers[i]) /\ IsSequence(nodeB.bought[i])
        /\ \A i \in 1 .. Len(nodeB.externalLink) :
              Keyed(nodeB.templateClass, nodeB.externalLink[i])
        /\ ~amiss => NodePartsWhole

LEMMA NodeUntouched ==
    ASSUME NodeKept, UNCHANGED nodeB, ~amiss' => ~amiss
    PROVE  NodeKept'
  BY DEF NodeKept, NodePartsWhole

\* A builder that has failed holds what it held.
LEMMA NodeFails ==
    ASSUME NodeKept, nodeB # Nil, nodeB' = [nodeB EXCEPT !.err = TRUE], ~amiss' => ~amiss
    PROVE  NodeKept'
  <1>1. /\ DOMAIN nodeB' = DOMAIN nodeB
        /\ \A f \in NodeLists \cup {"templateClass"} : nodeB'[f] = nodeB[f]
    BY DEF NodeKept, NodeLists, NewSupplyChainNodeBuilder
  <1>2. QED
    BY <1>1 DEF NodeKept, NodePartsWhole, NodeLists

LEMMA NewNodeKeeps ==
    ASSUME NEW class \in EntityTypes, nodeB' = NewSupplyChainNodeBuilder(class)
    PROVE  NodeKept'
  <1>1. /\ DOMAIN nodeB' = DOMAIN NewSupplyChainNodeBuilder(Switch)
        /\ nodeB'.templateClass = class
        /\ \A f \in NodeLists : nodeB'[f] = <<>>
    BY DEF NodeLists, NewSupplyChainNodeBuilder
  <1>2. QED
    BY <1>1, EmptyIsSequence DEF NodeKept, NodePartsWhole, NodeLists

LEMMA SellsKeeps ==
    ASSUME NodeKept, NEW commodity, NodeSells(commodity)
    PROVE  NodeKept'
  <1>1. /\ nodeB # Nil
        /\ nodeB' = [nodeB EXCEPT !.commoditySold = Append(@, commodity)]
        /\ ~amiss' => ~amiss /\ TemplateCommodity(commodity)
    BY DEF NodeSells, OnNode, NodeOpen
  <1>2. /\ DOMAIN nodeB' = DOMAIN nodeB
        /\ \A f \in {"templateClass", "providers", "bought", "externalLink"} :
              nodeB'[f] = nodeB[f]
        /\ nodeB'.commoditySold = Append(nodeB.commoditySold, commodity)
    BY <1>1 DEF NodeKept, NewSupplyChainNodeBuilder
  <1>3. IsSequence(nodeB.commoditySold) /\ Len(nodeB.commoditySold) \in Nat
    BY <1>1, SequenceElements DEF NodeKept, NodeLists
  <1>4. /\ IsSequence(nodeB'.commoditySold)
        /\ Len(nodeB'.commoditySold) = Len(nodeB.commoditySold) + 1
        /\ \A i \in 1 .. Len(nodeB.commoditySold) :
              nodeB'.commoditySold[i] = nodeB.commoditySold[i]
        /\ nodeB'.commoditySold[Len(nodeB.commoditySold) + 1] = commodity
    BY <1>2, <1>3, Appended
  <1>5. ASSUME ~amiss'
        PROVE  NodePartsWhole'
    <2>1. NodePartsWhole /\ TemplateCommodity(commodity)
      BY <1>1, <1>5 DEF NodeKept
    <2>2. \A i \in 1 .. Len(nodeB'.commoditySold) : TemplateCommodity(nodeB'.commoditySold[i])
      BY <2>1, <1>3, <1>4 DEF NodePartsWhole
    <2>3. QED
      BY <2>1, <2>2, <1>2 DEF NodePartsWhole
  <1>6. \A f \in NodeLists : IsSequence(nodeB'[f])
    BY <1>1, <1>2, <1>4 DEF NodeKept, NodeLists
  <1>7. QED
    BY <1>1, <1>2, <1>5, <1>6 DEF NodeKept

LEMMA ProviderKeeps ==
    ASSUME NilIsNoMessage, NodeKept, NEW class, NEW type, NodeProvider(class, type)
    PROVE  NodeKept'
  <1> DEFINE p == MakeProvider(class, type)
             n == Len(nodeB.providers)
  <1>1. /\ nodeB # Nil
        /\ nodeB' = [nodeB EXCEPT !.providers = Append(@, p), !.bought = Append(@, <<>>)]
        /\ amiss' = amiss
    BY DEF NodeProvider, OnNode, NodeOpen
  <1>2. /\ DOMAIN nodeB' = DOMAIN nodeB
        /\ \A f \in {"templateClass", "commoditySold", "externalLink"} :
              nodeB'[f] = nodeB[f]
        /\ nodeB'.providers = Append(nodeB.providers, p)
        /\ nodeB'.bought = Append(nodeB.bought, <<>>)
    BY <1>1 DEF NodeKept, NewSupplyChainNodeBuilder
  <1>3. /\ IsSequence(nodeB.providers) /\ IsSequence(nodeB.bought)
        /\ n \in Nat /\ Len(nodeB.bought) = n
    BY <1>1, SequenceElements DEF NodeKept, NodeLists
  <1> HIDE DEF p, n
  <1>4. /\ IsSequence(nodeB'.providers)
        /\ Len(nodeB'.providers) = n + 1
        /\ \A i \in 1 .. n : nodeB'.providers[i] = nodeB.providers[i]
        /\ nodeB'.providers[n + 1] = p
    BY <1>2, <1>3, Appended DEF n
  <1>5. /\ IsSequence(nodeB'.bought)
        /\ Len(nodeB'.bought) = n + 1
        /\ \A i \in 1 .. n : nodeB'.bought[i] = nodeB.bought[i]
        /\ nodeB'.bought[n + 1] = <<>>
    BY <1>2, <1>3, Appended
  <1>6. \A i \in 1 .. Len(nodeB'.providers) :
            Provider(nodeB'.providers[i]) /\ IsSequence(nodeB'.bought[i])
    <2>1. Provider(p)
      BY ProviderIsWhole DEF p
    <2>2. \A i \in 1 .. n : Provider(nodeB.providers[i]) /\ IsSequence(nodeB.bought[i])
      BY <1>1 DEF NodeKept, n
    <2>3. QED
      BY <2>1, <2>2, <1>3, <1>4, <1>5, EmptyIsSequence
  <1>7. ASSUME ~amiss'
        PROVE  NodePartsWhole'
    <2>1. NodePartsWhole
      BY <1>1, <1>7 DEF NodeKept
    <2>2. ASSUME NEW i \in 1 .. Len(nodeB'.bought), NEW j \in 1 .. Len(nodeB'.bought[i])
          PROVE  TemplateCommodity(nodeB'.bought[i][j])
      <3>1. CASE i \in 1 .. n
        BY <2>1, <2>2, <3>1, <1>3, <1>5 DEF NodePartsWhole
      <3>2. CASE i = n + 1
        BY <2>2, <3>2, <1>5, EmptyIsSequence
      <3>3. QED
        BY <2>2, <3>1, <3>2, <1>3, <1>5
    <2>3. QED
      BY <2>1, <2>2, <1>2 DEF NodePartsWhole
  <1>8. \A f \in NodeLists : IsSequence(nodeB'[f])
    BY <1>1, <1>2, <1>4, <1>5 DEF NodeKept, NodeLists
  <1>9. QED
    BY <1>1, <1>2, <1>4, <1>5, <1>6, <1>7, <1>8 DEF NodeKept

\* The purchase joins the list of the last provider.
LEMMA BuysKeeps ==
    ASSUME NodeKept, NEW commodity, NodeBuys(commodity)
    PROVE  NodeKept'
  <1> DEFINE k == Len(nodeB.providers)
  <1>1. nodeB # Nil /\ (~amiss' => ~amiss /\ TemplateCommodity(commodity))
    BY DEF NodeBuys, OnNode, NodeOpen
  <1>2. CASE NodeHasNoProvider
    BY <1>1, <1>2, NodeFails DEF NodeHasNoProvider
  <1>3. CASE NodeBuysFromProvider(commodity)
    <2>1. k # 0 /\ nodeB' = [nodeB EXCEPT !.bought[k] = Append(@, commodity)]
      BY <1>3 DEF NodeBuysFromProvider, CurrentProvider
    <2>2. /\ IsSequence(nodeB.providers) /\ IsSequence(nodeB.bought)
          /\ k \in 1 .. Len(nodeB.bought) /\ k \in 1 .. Len(nodeB.providers)
          /\ IsSequence(nodeB.bought[k])
      BY <1>1, <2>1, SequenceElements DEF NodeKept, NodeLists
    <2> HIDE DEF k
    <2> DEFINE new == Append(nodeB.bought[k], commodity)
    <2>3. /\ DOMAIN nodeB' = DOMAIN nodeB
          /\ \A f \in {"templateClass", "providers", "commoditySold", "externalLink"} :
                nodeB'[f] = nodeB[f]
          /\ nodeB'.bought = [nodeB.bought EXCEPT ![k] = new]
      BY <1>1, <2>1 DEF NodeKept, NewSupplyChainNodeBuilder
    <2>4. /\ IsSequence(new)
          /\ Len(new) = Len(nodeB.bought[k]) + 1
          /\ \A j \in 1 .. Len(nodeB.bought[k]) : new[j] = nodeB.bought[k][j]
          /\ new[Len(nodeB.bought[k]) + 1] = commodity
          /\ Len(nodeB.bought[k]) \in Nat
      BY <2>2, Appended, SequenceElements
    <2> HIDE DEF new
    <2>5. /\ IsSequence(nodeB'.bought)
          /\ Len(nodeB'.bought) = Len(nodeB.bought)
          /\ DOMAIN nodeB.bought = 1 .. Len(nodeB.bought)
          /\ nodeB'.bought[k] = new
          /\ \A i \in 1 .. Len(nodeB.bought) \ {k} : nodeB'.bought[i] = nodeB.bought[i]
      <3> DEFINE old == nodeB.bought
      <3>1. IsSequence(old) /\ k \in 1 .. Len(old)
        BY <2>2
      <3>2. nodeB'.bought = [old EXCEPT ![k] = new]
        BY <2>3
      <3> HIDE DEF old
      <3>3. /\ IsSequence(nodeB'.bought)
            /\ Len(nodeB'.bought) = Len(old)
            /\ nodeB'.bought[k] = new
            /\ \A i \in 1 .. Len(old) \ {k} : nodeB'.bought[i] = old[i]
        BY ONLY <3>1, <3>2, Replaced
      <3>4. DOMAIN old = 1 .. Len(old)
        BY <3>1, SequenceElements
      <3>5. QED
        BY <3>3, <3>4 DEF old
    <2>6. \A i \in 1 .. Len(nodeB'.providers) :
              Provider(nodeB'.providers[i]) /\ IsSequence(nodeB'.bought[i])
      BY <1>1, <2>3, <2>4, <2>5 DEF NodeKept
    <2>7. ASSUME ~amiss'
          PROVE  NodePartsWhole'
      <3>1. NodePartsWhole /\ TemplateCommodity(commodity)
        BY <1>1, <2>7 DEF NodeKept
      <3>2. ASSUME NEW i \in 1 .. Len(nodeB'.bought), NEW j \in 1 .. Len(nodeB'.bought[i])
            PROVE  TemplateCommodity(nodeB'.bought[i][j])
        <4>1. CASE i # k
          BY <3>1, <3>2, <4>1, <2>5 DEF NodePartsWhole
        <4>2. CASE i = k /\ j \in 1 .. Len(nodeB.bought[k])
          BY <3>1, <3>2, <4>2, <2>2, <2>4, <2>5 DEF NodePartsWhole
        <4>3. CASE i = k /\ j = Len(nodeB.bought[k]) + 1
          BY <3>1, <4>3, <2>4, <2>5
        <4>4. QED
          BY <3>2, <4>1, <4>2, <4>3, <2>4, <2>5
      <3>3. QED
        BY <3>1, <3>2, <2>3 DEF NodePartsWhole
    <2>8. \A f \in NodeLists : IsSequence(nodeB'[f])
      BY <1>1, <2>3, <2>5 DEF NodeKept, NodeLists
    <2>9. QED
      BY <1>1, <2>3, <2>5, <2>6, <2>7, <2>8 DEF NodeKept
  <1>4. QED
    BY <1>2, <1>3 DEF NodeBuys

\* The entry a link gets in a node of the given class.
LEMMA EntryIsKeyed ==
    ASSUME NilIsNoMessage, LinkInv, NEW class \in EntityTypes,
           NEW e \in OtherEnd(class, link)
    PROVE  LET m == Message([key |-> e, value |-> link])
           IN  /\ Keyed(class, m)
               /\ ~amiss => ExternalEntityLinkProp(m) \/ (class = Switch /\ Unfilled(m))
  <1> DEFINE r == [key |-> e, value |-> link]
             m == Message(r)
  <1>1. /\ DOMAIN m = {g \in {"key", "value"} : r[g] # Nil}
        /\ \A f \in DOMAIN m : m[f] = r[f]
    BY MessageFields
  <1>2. class \in {Buyer(link), Seller(link)} /\ {class, e} = {Buyer(link), Seller(link)}
    BY DEF OtherEnd
  <1>3. EndsTogether(link)
    BY DEF LinkInv
  <1>4. CASE Has(link, {"buyerRef"})
    <2>1. /\ link # Nil /\ Has(link, {"buyerRef", "sellerRef", "relationship"})
          /\ Buyer(link) = link.buyerRef /\ Seller(link) = link.sellerRef
          /\ link.buyerRef \in EntityTypes /\ link.sellerRef \in EntityTypes
      BY <1>3, <1>4 DEF EndsTogether, Has, Buyer, Seller, Get
    <2>2. e \in EntityTypes /\ e # Nil
      BY <1>2, <2>1, ChainAssumption
    <2>3. DOMAIN m = {"key", "value"} /\ m.key = e /\ m.value = link
      BY <1>1, <2>1, <2>2
    <2> HIDE DEF m
    <2>4. Keyed(class, m)
      BY <1>2, <2>1, <2>3 DEF Keyed
    <2>5. m # Nil
      BY MessageExists DEF m, Message
    <2>6. ~amiss => ExternalEntityLink(link)
      BY <2>1 DEF LinkInv, LinkPartsWhole, ExternalEntityLink
    <2>7. ~amiss => ExternalEntityLinkProp(m)
      BY <2>3, <2>5, <2>6 DEF ExternalEntityLinkProp, Must, Has
    <2>8. QED
      BY <2>4, <2>7 DEF m
  <1>5. CASE ~Has(link, {"buyerRef"})
    <2>1. Buyer(link) = Switch /\ Seller(link) = Switch
      BY <1>3, <1>5 DEF EndsTogether, Buyer, Seller, Get
    <2>2. class = Switch
      BY <1>2, <2>1
    <2>3. ~("value" \in DOMAIN m /\ "buyerRef" \in DOMAIN m.value)
      BY <1>1, <1>5 DEF Has
    <2> HIDE DEF m
    <2>4. Unfilled(m)
      BY <2>3 DEF Unfilled, Has
    <2>5. Keyed(class, m)
      BY <2>3 DEF Keyed
    <2>6. QED
      BY <2>2, <2>4, <2>5 DEF m
  <1>6. QED
    BY <1>4, <1>5

LEMMA ConnectsKeeps ==
    ASSUME NilIsNoMessage, LinkInv, NodeKept, ConnectsTo
    PROVE  NodeKept'
  <1> DEFINE class == nodeB.templateClass
             e == CHOOSE x \in OtherEnd(class, link) : TRUE
             m == Message([key |-> e, value |-> link])
  <1>1. nodeB # Nil /\ amiss' = amiss /\ class \in EntityTypes
    BY DEF ConnectsTo, NodeOpen, NodeKept
  <1>2. CASE OtherEnd(class, link) = {}
    BY <1>1, <1>2, NodeFails DEF ConnectsTo
  <1>3. CASE OtherEnd(class, link) # {}
    <2>1. nodeB' = [nodeB EXCEPT !.externalLink = Append(@, m)]
      BY <1>3 DEF ConnectsTo
    <2>2. /\ Keyed(class, m)
          /\ ~amiss => ExternalEntityLinkProp(m) \/ (class = Switch /\ Unfilled(m))
      BY <1>1, <1>3, EntryIsKeyed
    <2> HIDE DEF m
    <2>3. /\ DOMAIN nodeB' = DOMAIN nodeB
          /\ \A f \in {"templateClass", "providers", "commoditySold", "bought"} :
                nodeB'[f] = nodeB[f]
          /\ nodeB'.externalLink = Append(nodeB.externalLink, m)
      BY <1>1, <2>1 DEF NodeKept, NewSupplyChainNodeBuilder
    <2>4. IsSequence(nodeB.externalLink) /\ Len(nodeB.externalLink) \in Nat
      BY <1>1, SequenceElements DEF NodeKept, NodeLists
    <2>5. /\ IsSequence(nodeB'.externalLink)
          /\ Len(nodeB'.externalLink) = Len(nodeB.externalLink) + 1
          /\ \A i \in 1 .. Len(nodeB.externalLink) :
                nodeB'.externalLink[i] = nodeB.externalLink[i]
          /\ nodeB'.externalLink[Len(nodeB.externalLink) + 1] = m
      BY <2>3, <2>4, Appended
    <2>6. \A i \in 1 .. Len(nodeB'.externalLink) :
              Keyed(nodeB'.templateClass, nodeB'.externalLink[i])
      BY <1>1, <2>2, <2>3, <2>4, <2>5 DEF NodeKept
    <2>7. ASSUME ~amiss'
          PROVE  NodePartsWhole'
      <3>1. NodePartsWhole
        BY <1>1, <2>7 DEF NodeKept
      <3>2. \A i \in 1 .. Len(nodeB'.externalLink) :
              \/ ExternalEntityLinkProp(nodeB'.externalLink[i])
              \/ class = Switch /\ Unfilled(nodeB'.externalLink[i])
        BY <1>1, <2>2, <2>4, <2>5, <2>7, <3>1 DEF NodePartsWhole
      <3>3. QED
        BY <3>1, <3>2, <2>3 DEF NodePartsWhole
    <2>8. \A f \in NodeLists : IsSequence(nodeB'[f])
      BY <1>1, <2>3, <2>5 DEF NodeKept, NodeLists
    <2>9. QED
      BY <1>1, <2>3, <2>6, <2>7, <2>8 DEF NodeKept
  <1>4. QED
    BY <1>2, <1>3

\* Every step keeps what a node in the making holds in order.
LEMMA NodeStepKept ==
    ASSUME NilIsNoMessage, ChainTypeOK, LinkInv, NodeKept, ChainNext
    PROVE  NodeKept'
  <1>1. ASSUME UNCHANGED nodeB, ~amiss' => ~amiss
        PROVE  NodeKept'
    BY <1>1, NodeUntouched
  <1>2. ASSUME NEW buyer, NEW seller, Link(buyer, seller)
        PROVE  NodeKept'
    BY <1>1, <1>2 DEF Link, OnLink, nodeVars
  <1>3. ASSUME NEW field, NEW part, LinkPart(field, part)
        PROVE  NodeKept'
    BY <1>1, <1>3 DEF LinkPart, OnLink, nodeVars
  <1>4. ASSUME NEW def, ExternalEntityPropertyDef(def)
        PROVE  NodeKept'
    <2>1. UNCHANGED nodeB /\ (~amiss' => ~amiss)
      BY <1>4 DEF ExternalEntityPropertyDef, nodeVars
    <2>2. QED
      BY <2>1, <1>1
  <1>5. CASE BuildLink
    BY <1>1, <1>5 DEF BuildLink, nodeVars
  <1>6. ASSUME NEW class \in EntityTypes, NewNode(class)
        PROVE  NodeKept'
    BY <1>6, NewNodeKeeps DEF NewNode
  <1>7. ASSUME NEW class \in EntityTypes, NEW type \in ProviderTypes, NodeProvider(class, type)
        PROVE  NodeKept'
    BY <1>7, ProviderKeeps
  <1>8. ASSUME NEW commodity, NodeSells(commodity) \/ NodeBuys(commodity)
        PROVE  NodeKept'
    BY <1>8, SellsKeeps, BuysKeeps
  <1>9. CASE ConnectsTo
    BY <1>9, ConnectsKeeps
  <1>10. CASE CreateNode
    BY <1>10 DEF CreateNode, NodeKept
  <1>11. ASSUME NEW n, Top(n) \/ Entity(n)
         PROVE  NodeKept'
    BY <1>1, <1>11 DEF Top, Entity, OnChain, nodeVars
  <1>12. CASE CreateChain
    BY <1>1, <1>12 DEF CreateChain, OnChain, nodeVars
  <1>13. QED
    BY <1>2, <1>3, <1>4, <1>5, <1>6, <1>7, <1>8, <1>9, <1>10, <1>11, <1>12 DEF ChainNext

\* The lists of a template are those of the map, each under its provider.
LEMMA ListsOfMap ==
    ASSUME NEW lists \in BoughtLists, Len(nodeB.bought) \in Nat
    PROVE  /\ Len(lists) \in Nat
           /\ \A i \in 1 .. Len(lists) :
                \E n \in 1 .. Len(nodeB.bought) :
                    lists[i] = [key |-> nodeB.providers[n], value |-> nodeB.bought[n]]
  <1> DEFINE keys == {n \in 1 .. Len(nodeB.bought) : nodeB.bought[n] # <<>>}
  <1>1. IsFiniteSet(keys) /\ Cardinality(keys) \in Nat
    <2>1. IsFiniteSet(1 .. Len(nodeB.bought))
      BY FS_Interval
    <2>2. IsFiniteSet(keys)
      BY <2>1, FS_Subset
    <2>3. QED
      BY <2>2, FS_CardinalityType
  <1>2. PICK order \in SetToSeqs(keys) :
            lists = [i \in 1 .. Len(order) |-> [key |-> nodeB.providers[order[i]],
                                                value |-> nodeB.bought[order[i]]]]
    BY DEF BoughtLists
  <1> HIDE DEF keys
  <1>3. order \in [1 .. Cardinality(keys) -> keys]
    BY DEF SetToSeqs
  <1>4. Len(order) = Cardinality(keys)
    BY <1>1, <1>3
  <1>5. Len(lists) = Len(order)
    BY <1>1, <1>2, <1>4
  <1>6. \A i \in 1 .. Len(order) : order[i] \in keys
    BY <1>3, <1>4
  <1>7. QED
    BY <1>1, <1>2, <1>4, <1>5, <1>6 DEF keys

\* The template Create makes of a builder that keeps NodeKept.
LEMMA CreatedIsWhole ==
    ASSUME NilIsNoMessage, NodeKept, CreateNode
    PROVE  LinkKeyIsOtherEnd' /\ CreatedTemplateIsWhole'
  <1>1. PICK lists \in BoughtLists :
            node' = [templateClass |-> nodeB.templateClass, templateType |-> "BASE",
                     templatePriority |-> 0, commoditySold |-> nodeB.commoditySold,
                     commodityBought |-> lists, externalLink |-> nodeB.externalLink]
    BY DEF CreateNode
  <1>2. nodeB # Nil /\ amiss' = amiss
    BY DEF CreateNode, NodeOpen
  <1>3. LinkKeyIsOtherEnd'
    BY <1>1, <1>2 DEF NodeKept, Keyed, LinkKeyIsOtherEnd
  <1>4. ASSUME ~amiss, node' # Nil,
               \A i \in 1 .. Len(nodeB.externalLink) :
                  ~(nodeB.templateClass = Switch /\ Unfilled(nodeB.externalLink[i]))
        PROVE  TemplateDTO(node')
    <2>1. NodePartsWhole
      BY <1>2, <1>4 DEF NodeKept
    <2>2. /\ IsSequence(nodeB.bought) /\ Len(nodeB.bought) = Len(nodeB.providers)
          /\ Len(nodeB.bought) \in Nat
      BY <1>2, SequenceElements DEF NodeKept, NodeLists
    <2>3. ASSUME NEW i \in 1 .. Len(lists)
          PROVE  CommBoughtProviderProp(lists[i])
      <3>1. PICK n \in 1 .. Len(nodeB.bought) :
                lists[i] = [key |-> nodeB.providers[n], value |-> nodeB.bought[n]]
        BY <2>2, <2>3, ListsOfMap
      <3>2. [key |-> nodeB.providers[n], value |-> nodeB.bought[n]] # Nil
        BY MessageExists
      <3>3. Provider(nodeB.providers[n])
        BY <1>2, <2>2 DEF NodeKept
      <3>4. \A j \in 1 .. Len(nodeB.bought[n]) : TemplateCommodity(nodeB.bought[n][j])
        BY <2>1 DEF NodePartsWhole
      <3>5. QED
        BY <3>1, <3>2, <3>3, <3>4 DEF CommBoughtProviderProp, Must, Has, Each
    <2>4. /\ DOMAIN node' = {"templateClass", "templateType", "templatePriority",
                             "commoditySold", "commodityBought", "externalLink"}
          /\ node'.commoditySold = nodeB.commoditySold
          /\ node'.commodityBought = lists
          /\ node'.externalLink = nodeB.externalLink
      BY <1>1
    <2>5. QED
      BY <1>4, <2>1, <2>3, <2>4 DEF TemplateDTO, Has, Each, NodePartsWhole
  <1>5. node'.templateClass = nodeB.templateClass /\ node'.externalLink = nodeB.externalLink
    BY <1>1
  <1>6. QED
    BY <1>2, <1>3, <1>4, <1>5 DEF CreatedTemplateIsWhole, Unfilled, Has

-----------------------------------------------------------------------------
(* What a node buys. *)

LEMMA PlaceOf ==
    ASSUME NEW lists, NEW x
    PROVE  x \in Places(lists) <=>
              \E n \in 1 .. Len(lists) : \E j \in 1 .. Len(lists[n].value) : x = <<n, j>>
  BY DEF Places

\* A purchase that joins list k gets a place of its own, behind the others.
LEMMA PurchasePlaced ==
    ASSUME NEW asks, IsSequence(asks), NEW p, NEW lists, NEW new,
           NEW at \in Bijection(1 .. Len(asks), Places(lists)), Placed(at, asks, lists),
           Len(new) = Len(lists), NEW k \in 1 .. Len(lists), Len(lists[k].value) \in Nat,
           \A n \in 1 .. Len(lists) : /\ new[n].key = lists[n].key
                                      /\ n # k => new[n].value = lists[n].value,
           Len(new[k].value) = Len(lists[k].value) + 1,
           \A j \in 1 .. Len(lists[k].value) : new[k].value[j] = lists[k].value[j],
           new[k].value[Len(lists[k].value) + 1] = p.what,
           lists[k].key = p.from
    PROVE  \E to \in Bijection(1 .. Len(Append(asks, p)), Places(new)) : Placed(to, Append(asks, p), new)
  <1> DEFINE m == Len(asks)
             q == Len(lists[k].value) + 1
             S == Places(lists)
             T == Places(new)
             bs == Append(asks, p)
             to == [i \in 1 .. m + 1 |-> IF i <= m THEN at[i] ELSE <<k, q>>]
  <1>1. /\ m \in Nat /\ Len(bs) = m + 1
        /\ \A i \in 1 .. m : bs[i] = asks[i]
        /\ bs[m + 1] = p
    <2>1. Len(asks) \in Nat
      BY SequenceElements
    <2>2. /\ Len(Append(asks, p)) = Len(asks) + 1
          /\ \A i \in 1 .. Len(asks) : Append(asks, p)[i] = asks[i]
          /\ Append(asks, p)[Len(asks) + 1] = p
      BY ONLY Appended, IsSequence(asks)
    <2> HIDE DEF q, S, T, to
    <2>3. bs = Append(asks, p) /\ m = Len(asks)
      OBVIOUS
    <2> HIDE DEF bs, m
    <2>4. QED
      BY <2>1, <2>2, <2>3, Zenon
  <1>2. /\ at \in [1 .. m -> S]
        /\ \A i, j \in 1 .. m : at[i] = at[j] => i = j
        /\ \A x \in S : \E i \in 1 .. m : at[i] = x
    BY DEF Bijection, Injection, Surjection, IsInjective
  <1>3. \A x : x \in S <=>
              \E n \in 1 .. Len(lists) : \E j \in 1 .. Len(lists[n].value) : x = <<n, j>>
    BY PlaceOf
  <1>4. \A x : x \in T <=>
              \E n \in 1 .. Len(lists) : \E j \in 1 .. Len(new[n].value) : x = <<n, j>>
    BY PlaceOf
  <1> HIDE DEF S, T
  <1>5. 1 .. q = (1 .. Len(lists[k].value)) \cup {q} /\ q \notin 1 .. Len(lists[k].value)
    OBVIOUS
  <1>6. \A i \in 1 .. m : /\ at[i] \in S
                          /\ at[i][1] \in 1 .. Len(lists)
                          /\ at[i][2] \in 1 .. Len(lists[at[i][1]].value)
    <2>1. ASSUME NEW i \in 1 .. m
          PROVE  /\ at[i] \in S
                 /\ at[i][1] \in 1 .. Len(lists)
                 /\ at[i][2] \in 1 .. Len(lists[at[i][1]].value)
      <3>1. at[i] \in S
        BY <1>2
      <3>2. PICK n \in 1 .. Len(lists) :
                \E j \in 1 .. Len(lists[n].value) : at[i] = <<n, j>>
        BY <1>3, <3>1, Zenon
      <3>3. PICK j \in 1 .. Len(lists[n].value) : at[i] = <<n, j>>
        BY <3>2
      <3>4. at[i][1] = n /\ at[i][2] = j
        BY <3>3
      <3>5. QED
        BY <3>1, <3>2, <3>3, <3>4
    <2>2. QED
      BY <2>1
  <1>7. <<k, q>> \notin S /\ <<k, q>> \in T
    <2>1. q \notin 1 .. Len(lists[k].value) /\ q \in 1 .. Len(new[k].value)
      BY <1>5
    <2> HIDE DEF q
    <2>2. ~(\E n \in 1 .. Len(lists) : \E j \in 1 .. Len(lists[n].value) : <<k, q>> = <<n, j>>)
      BY <2>1
    <2>3. QED
      BY <1>3, <1>4, <2>1, <2>2
  <1>8. S \subseteq T
    <2>1. ASSUME NEW x \in S PROVE x \in T
      <3>1. PICK n, j : n \in 1 .. Len(lists) /\ j \in 1 .. Len(lists[n].value) /\ x = <<n, j>>
        BY <1>3
      <3>2. j \in 1 .. Len(new[n].value)
        <4>1. CASE n = k
          BY <1>5, <3>1, <4>1
        <4>2. CASE n # k
          BY <3>1, <4>2
        <4>3. QED
          BY <4>1, <4>2
      <3>3. QED
        BY <1>4, <3>1, <3>2
    <2>2. QED
      BY <2>1
  <1>9. T \subseteq S \cup {<<k, q>>}
    <2>1. ASSUME NEW x \in T PROVE x \in S \/ x = <<k, q>>
      <3>1. PICK n, j : n \in 1 .. Len(lists) /\ j \in 1 .. Len(new[n].value) /\ x = <<n, j>>
        BY <1>4
      <3>2. j \in 1 .. Len(lists[n].value) \/ (n = k /\ j = q)
        <4>1. CASE n = k
          BY <1>5, <3>1, <4>1
        <4>2. CASE n # k
          BY <3>1, <4>2
        <4>3. QED
          BY <4>1, <4>2
      <3>3. QED
        BY <1>3, <3>1, <3>2
    <2>2. QED
      BY <2>1
  <1> HIDE DEF m, bs, q
  <1>10. \A i \in 1 .. m + 1 : (i \in 1 .. m /\ i <= m) \/ (i = m + 1 /\ ~(i <= m))
    BY <1>1
  <1>11. m + 1 \in 1 .. m + 1 /\ to[m + 1] = <<k, q>> /\ \A i \in 1 .. m : i \in 1 .. m + 1 /\ to[i] = at[i]
    BY <1>1
  <1> HIDE DEF to
  <1>12. to \in Bijection(1 .. m + 1, T)
    <2>1. to \in [1 .. m + 1 -> T]
      <3>1. \A i \in 1 .. m + 1 : to[i] \in T
        BY <1>6, <1>7, <1>8, <1>10, <1>11
      <3>2. QED
        BY <3>1 DEF to
    <2>2. ASSUME NEW i \in 1 .. m + 1, NEW j \in 1 .. m + 1, to[i] = to[j] PROVE i = j
      <3>1. \A x \in 1 .. m : to[x] = at[x] /\ to[x] \in S
        BY <1>6, <1>11
      <3>2. to[m + 1] \notin S
        BY <1>7, <1>11
      <3>3. CASE i \in 1 .. m /\ j \in 1 .. m
        BY <1>2, <2>2, <3>1, <3>3
      <3>4. CASE i = m + 1
        BY <1>10, <2>2, <3>1, <3>2, <3>4
      <3>5. CASE j = m + 1
        BY <1>10, <2>2, <3>1, <3>2, <3>5
      <3>6. QED
        BY <1>10, <3>3, <3>4, <3>5
    <2>3. ASSUME NEW x \in T PROVE \E i \in 1 .. m + 1 : to[i] = x
      <3>1. CASE x = <<k, q>>
        BY <1>11, <3>1, Zenon
      <3>2. CASE x \in S
        <4>1. PICK i \in 1 .. m : at[i] = x
          BY <1>2, <3>2, Zenon
        <4>2. QED
          BY <1>11, <4>1, Zenon
      <3>3. QED
        BY <1>9, <3>1, <3>2
    <2>4. QED
      BY <2>1, <2>2, <2>3, SMTT(30) DEF Bijection, Injection, Surjection, IsInjective
  <1>13. ASSUME NEW i \in 1 .. m + 1
         PROVE  /\ new[to[i][1]].key = bs[i].from
                /\ new[to[i][1]].value[to[i][2]] = bs[i].what
                /\ \A j \in 1 .. i - 1 : to[j][1] = to[i][1] => to[j][2] < to[i][2]
    <2>1. CASE i \in 1 .. m
      <3>1. /\ lists[at[i][1]].key = asks[i].from
            /\ lists[at[i][1]].value[at[i][2]] = asks[i].what
            /\ \A j \in 1 .. i - 1 : at[j][1] = at[i][1] => at[j][2] < at[i][2]
        BY <2>1 DEF Placed, m
      <3>2. \A j \in 1 .. i - 1 : j \in 1 .. m
        BY <1>1, <2>1
      <3>3. to[i] = at[i] /\ bs[i] = asks[i] /\ \A j \in 1 .. i - 1 : to[j] = at[j]
        BY <1>1, <1>11, <2>1, <3>2
      <3>4. new[at[i][1]].key = lists[at[i][1]].key
        BY <1>6, <2>1
      <3>5. new[at[i][1]].value[at[i][2]] = lists[at[i][1]].value[at[i][2]]
        <4>1. /\ at[i][1] \in 1 .. Len(lists)
              /\ at[i][2] \in 1 .. Len(lists[at[i][1]].value)
          BY <1>6, <2>1
        <4>2. CASE at[i][1] = k
          BY <4>1, <4>2
        <4>3. CASE at[i][1] # k
          BY <4>1, <4>3
        <4>4. QED
          BY <4>2, <4>3
      <3>6. QED
        BY <3>1, <3>3, <3>4, <3>5
    <2>2. CASE i = m + 1
      <3>1. to[i] = <<k, q>> /\ bs[i] = p
        BY <1>1, <1>11, <2>2
      <3>2. new[k].key = p.from /\ new[k].value[q] = p.what
        BY DEF q
      <3>3. ASSUME NEW j \in 1 .. i - 1, to[j][1] = k
            PROVE  to[j][2] < q
        <4>1. j \in 1 .. m
          BY <1>1, <2>2
        <4>2. to[j][2] \in 1 .. Len(lists[k].value)
          BY <1>6, <1>11, <3>3, <4>1
        <4>3. QED
          BY <4>2 DEF q
      <3>4. QED
        BY <3>1, <3>2, <3>3
    <2>3. QED
      BY <1>10, <2>1, <2>2
  <1>14. Placed(to, bs, new)
    BY <1>1, <1>13 DEF Placed
  <1>15. QED
    BY <1>1, <1>12, <1>14 DEF T, bs

\* The lists of the map, taken in any order, hold what they held.
LEMMA ReorderedPlaced ==
    ASSUME NEW asks, NEW lists, Len(lists) \in Nat,
           NEW at \in Bijection(1 .. Len(asks), Places(lists)), Placed(at, asks, lists), Len(asks) \in Nat,
           NEW keys, keys = {n \in 1 .. Len(lists) : lists[n].value # <<>>},
           NEW order \in SetToSeqs(keys),
           NEW new, new = [i \in 1 .. Len(order) |-> lists[order[i]]]
    PROVE  \E to \in Bijection(1 .. Len(asks), Places(new)) : Placed(to, asks, new)
  <1> DEFINE c == Cardinality(keys)
             m == Len(asks)
             S == Places(lists)
             T == Places(new)
             back == [n \in keys |-> CHOOSE i \in 1 .. c : order[i] = n]
             to == [i \in 1 .. m |-> <<back[at[i][1]], at[i][2]>>]
  <1>0. m \in Nat
    OBVIOUS
  <1>1. IsFiniteSet(keys) /\ c \in Nat
    <2>1. IsFiniteSet(1 .. Len(lists))
      BY FS_Interval
    <2>2. IsFiniteSet(keys)
      BY <2>1, FS_Subset
    <2>3. QED
      BY <2>2, FS_CardinalityType
  <1>2. order \in [1 .. c -> keys] /\ \A i, j \in 1 .. c : order[i] = order[j] => i = j
    BY DEF SetToSeqs
  <1>3. Len(order) = c
    BY <1>1, <1>2
  <1>4. \A n \in keys : \E i \in 1 .. c : order[i] = n
    <2>1. order \in Injection(1 .. c, keys)
      BY <1>2 DEF Injection, IsInjective
    <2>2. IsFiniteSet(1 .. c) /\ Cardinality(1 .. c) = c
      <3>1. 1 \in Int /\ c \in Int /\ c = (IF 1 > c THEN 0 ELSE c - 1 + 1)
        BY <1>1
      <3>2. QED
        BY <3>1, FS_Interval, Zenon
    <2>3. order \in Surjection(1 .. c, keys)
      BY <1>1, <2>1, <2>2, FS_Injection
    <2>4. QED
      BY <2>3 DEF Surjection
  <1>5. \A n \in keys : back[n] \in 1 .. c /\ order[back[n]] = n
    BY <1>4
  <1>6. Len(new) = c /\ \A i \in 1 .. c : new[i] = lists[order[i]]
    BY <1>1, <1>3
  <1>7. /\ at \in [1 .. m -> S]
        /\ \A i, j \in 1 .. m : at[i] = at[j] => i = j
        /\ \A x \in S : \E i \in 1 .. m : at[i] = x
    BY DEF Bijection, Injection, Surjection, IsInjective
  <1>8. \A x : x \in S <=>
              \E n \in 1 .. Len(lists) : \E j \in 1 .. Len(lists[n].value) : x = <<n, j>>
    BY PlaceOf
  <1>9. \A x : x \in T <=>
              \E n \in 1 .. c : \E j \in 1 .. Len(lists[order[n]].value) : x = <<n, j>>
    <2>1. \A x : x \in T <=>
              \E n \in 1 .. Len(new) : \E j \in 1 .. Len(new[n].value) : x = <<n, j>>
      BY ONLY PlaceOf
    <2> HIDE DEF T, S, c, m, back, to
    <2>2. ASSUME NEW x
          PROVE  x \in T <=>
              \E n \in 1 .. c : \E j \in 1 .. Len(lists[order[n]].value) : x = <<n, j>>
      <3>1. \A n \in 1 .. c : Len(new[n].value) = Len(lists[order[n]].value)
        BY ONLY <1>6
      <3>2. Len(new) = c
        BY ONLY <1>6
      <3>3. ASSUME NEW n \in 1 .. c
            PROVE  (\E j \in 1 .. Len(new[n].value) : x = <<n, j>>)
                     <=> \E j \in 1 .. Len(lists[order[n]].value) : x = <<n, j>>
        BY <3>1, Zenon
      <3>4. x \in T <=> \E n \in 1 .. c : \E j \in 1 .. Len(new[n].value) : x = <<n, j>>
        BY <2>1, <3>2
      <3>5. QED
        BY <3>3, <3>4, Zenon
    <2>3. QED
      BY <2>2, Zenon
  <1>10. ASSUME NEW i \in 1 .. m
         PROVE  /\ at[i][1] \in keys
                /\ at[i][2] \in 1 .. Len(lists[at[i][1]].value)
                /\ at[i] = <<at[i][1], at[i][2]>>
    <2>1. at[i] \in S
      BY <1>7
    <2>2. PICK n, j : n \in 1 .. Len(lists) /\ j \in 1 .. Len(lists[n].value) /\ at[i] = <<n, j>>
      BY <1>8, <2>1
    <2>3. lists[n].value # <<>>
      BY <2>2
    <2>4. QED
      BY <2>2, <2>3
  <1> HIDE DEF c, m, S, T, back
  <1>11. ASSUME NEW i \in 1 .. m
         PROVE  /\ to[i] = <<back[at[i][1]], at[i][2]>>
                /\ to[i][1] \in 1 .. c /\ order[to[i][1]] = at[i][1]
                /\ to[i][2] = at[i][2]
                /\ to[i] \in T
    <2>1. to[i] = <<back[at[i][1]], at[i][2]>>
      OBVIOUS
    <2>2. back[at[i][1]] \in 1 .. c /\ order[back[at[i][1]]] = at[i][1]
      BY <1>5, <1>10
    <2>3. to[i] \in T
      BY <1>9, <1>10, <2>1, <2>2
    <2>4. QED
      BY <2>1, <2>2, <2>3
  <1>12. to \in [1 .. m -> T]
    BY <1>11
  <1> HIDE DEF to
  <1>13. to \in Bijection(1 .. m, T)
    <2>1. ASSUME NEW i \in 1 .. m, NEW j \in 1 .. m, to[i] = to[j] PROVE i = j
      <3>1. at[i][1] = at[j][1] /\ at[i][2] = at[j][2]
        BY <1>11, <2>1
      <3>2. at[i] = at[j]
        BY <1>10, <3>1
      <3>3. QED
        BY <1>7, <3>2
    <2>2. ASSUME NEW x \in T PROVE \E i \in 1 .. m : to[i] = x
      <3>1. PICK n, j : n \in 1 .. c /\ j \in 1 .. Len(lists[order[n]].value) /\ x = <<n, j>>
        BY <1>9
      <3>2. order[n] \in keys /\ order[n] \in 1 .. Len(lists)
        BY <1>2, <3>1 DEF c
      <3>3. PICK i \in 1 .. m : at[i] = <<order[n], j>>
        BY <1>7, <1>8, <3>1, <3>2
      <3>4. to[i][1] \in 1 .. c /\ order[to[i][1]] = order[n] /\ to[i] = <<to[i][1], j>>
        BY <1>11, <3>3
      <3>5. to[i][1] = n
        BY <1>2, <3>1, <3>4 DEF c
      <3>6. QED
        BY <3>1, <3>4, <3>5
    <2>3. QED
      BY <1>12, <2>1, <2>2 DEF Bijection, Injection, Surjection, IsInjective
  <1>14. ASSUME NEW i \in 1 .. m
         PROVE  /\ new[to[i][1]].key = asks[i].from
                /\ new[to[i][1]].value[to[i][2]] = asks[i].what
                /\ \A j \in 1 .. i - 1 : to[j][1] = to[i][1] => to[j][2] < to[i][2]
    <2>1. /\ lists[at[i][1]].key = asks[i].from
          /\ lists[at[i][1]].value[at[i][2]] = asks[i].what
          /\ \A j \in 1 .. i - 1 : at[j][1] = at[i][1] => at[j][2] < at[i][2]
      BY DEF Placed, m
    <2>2. new[to[i][1]] = lists[at[i][1]] /\ to[i][2] = at[i][2]
      BY <1>6, <1>11
    <2>3. ASSUME NEW j \in 1 .. i - 1, to[j][1] = to[i][1] PROVE to[j][2] < to[i][2]
      <3>1. j \in 1 .. m
        BY <1>0
      <3>2. at[j][1] = at[i][1] /\ to[j][2] = at[j][2]
        BY <1>11, <2>3, <3>1
      <3>3. QED
        BY <2>1, <2>2, <3>2
    <2>4. QED
      BY <2>1, <2>2, <2>3
  <1>15. Placed(to, asks, new)
    BY <1>14 DEF Placed, m
  <1>16. QED
    BY <1>13, <1>15 DEF m, T

\* A step that changes neither what was asked for nor what is bought.
LEMMA BuyUntouched ==
    ASSUME BuyInv, asked' = asked,
           nodeB' # Nil => /\ nodeB # Nil
                           /\ nodeB'.err = nodeB.err \/ nodeB'.err = TRUE
                           /\ nodeB'.bought = nodeB.bought
                           /\ nodeB'.providers = nodeB.providers
    PROVE  BuyInv'
  <1>1. CASE nodeB' = Nil \/ nodeB'.err
    BY <1>1 DEF BuyInv
  <1>2. CASE nodeB' # Nil /\ ~nodeB'.err
    <2>1. nodeB # Nil /\ ~nodeB.err /\ Lists' = Lists
      BY <1>2 DEF Lists
    <2>2. HoldAsked(Lists) /\ \A i \in 1 .. Len(asked) : asked[i].from # Nil
      BY <2>1 DEF BuyInv
    <2>3. HoldAsked(Lists)'
      BY <2>1, <2>2 DEF HoldAsked
    <2>4. QED
      BY <2>2, <2>3 DEF BuyInv
  <1>3. QED
    BY <1>1, <1>2

\* A new node has nothing to hold.
LEMMA NewNodeBuys ==
    ASSUME NEW class, NewNode(class)
    PROVE  BuyInv'
  <1>1. asked' = <<>> /\ nodeB'.bought = <<>>
    BY DEF NewNode, NewSupplyChainNodeBuilder
  <1>2. Len(<<>>) = 0 /\ DOMAIN <<>> = {}
    OBVIOUS
  <1>3. Len(Lists') = 0
    BY <1>1, <1>2 DEF Lists
  <1>4. Places(Lists') = {}
    BY <1>3 DEF Places
  <1>5. <<>> \in Bijection({}, {})
    BY <1>2 DEF Bijection, Injection, Surjection, IsInjective
  <1>6. 1 .. Len(asked') = {}
    BY <1>1, <1>2
  <1>7. HoldAsked(Lists)'
    <2>1. Placed(<<>>, asked', Lists')
      BY <1>6 DEF Placed
    <2>2. QED
      BY <1>4, <1>5, <1>6, <2>1 DEF HoldAsked
  <1>8. QED
    BY <1>1, <1>6, <1>7, EmptyIsSequence DEF BuyInv

\* A provider from whom nothing is bought so far adds no place.
LEMMA ProviderBuys ==
    ASSUME NodeKept, BuyInv, NEW class, NEW type, NodeProvider(class, type)
    PROVE  BuyInv'
  <1> DEFINE p == MakeProvider(class, type)
             n == Len(nodeB.bought)
  <1>1. /\ nodeB # Nil /\ ~nodeB.err
        /\ nodeB' = [nodeB EXCEPT !.providers = Append(@, p), !.bought = Append(@, <<>>)]
        /\ asked' = asked
    BY DEF NodeProvider, OnNode, NodeOpen
  <1>2. /\ nodeB'.providers = Append(nodeB.providers, p)
        /\ nodeB'.bought = Append(nodeB.bought, <<>>)
    BY <1>1 DEF NodeKept, NewSupplyChainNodeBuilder
  <1>3. /\ IsSequence(nodeB.providers) /\ IsSequence(nodeB.bought)
        /\ n \in Nat /\ Len(nodeB.providers) = n
    BY <1>1, SequenceElements DEF NodeKept, NodeLists
  <1>4. \A i \in 1 .. n : nodeB'.providers[i] = nodeB.providers[i]
    BY <1>2, <1>3, Appended
  <1>5. /\ Len(nodeB'.bought) = n + 1
        /\ \A i \in 1 .. n : nodeB'.bought[i] = nodeB.bought[i]
        /\ nodeB'.bought[n + 1] = <<>>
    BY <1>2, <1>3, Appended
  <1> HIDE DEF p, n
  <1>6. /\ Len(Lists) = n
        /\ Len(Lists') = n + 1
        /\ \A i \in 1 .. n : Lists'[i] = Lists[i]
        /\ Lists'[n + 1].value = <<>>
    <2>1. Len(Lists) = n
      BY <1>3 DEF Lists, n
    <2>2. Len(Lists') = n + 1
      BY <1>3, <1>5 DEF Lists
    <2>3. ASSUME NEW i \in 1 .. n PROVE Lists'[i] = Lists[i]
      BY <1>3, <1>4, <1>5 DEF Lists, n
    <2>4. n + 1 \in 1 .. n + 1
      BY <1>3
    <2>5. Lists'[n + 1].value = <<>>
      BY <1>5, <2>4 DEF Lists
    <2>6. QED
      BY <2>1, <2>2, <2>3, <2>5
  <1>7. Places(Lists') = Places(Lists)
    <2>1. 1 .. n + 1 = (1 .. n) \cup {n + 1}
      BY <1>3
    <2>2. Len(<<>>) = 0
      OBVIOUS
    <2>3. ASSUME NEW x \in Places(Lists') PROVE x \in Places(Lists)
      <3>1. PICK k, j : k \in 1 .. n + 1 /\ j \in 1 .. Len(Lists'[k].value) /\ x = <<k, j>>
        BY <1>6, PlaceOf
      <3>2. k # n + 1
        BY <1>6, <2>2, <3>1
      <3>3. k \in 1 .. n /\ Lists'[k] = Lists[k]
        BY <1>6, <2>1, <3>1, <3>2
      <3>4. QED
        BY <1>6, <3>1, <3>3, PlaceOf
    <2>4. ASSUME NEW x \in Places(Lists) PROVE x \in Places(Lists')
      <3>1. PICK k, j : k \in 1 .. n /\ j \in 1 .. Len(Lists[k].value) /\ x = <<k, j>>
        BY <1>6, PlaceOf
      <3>2. k \in 1 .. n + 1 /\ Lists'[k] = Lists[k]
        BY <1>6, <2>1, <3>1
      <3>3. QED
        BY <1>6, <3>1, <3>2, PlaceOf
    <2>5. QED
      BY <2>3, <2>4
  <1>8. PICK at \in Bijection(1 .. Len(asked), Places(Lists)) : Placed(at, asked, Lists)
    BY <1>1 DEF BuyInv, HoldAsked
  <1>9. ASSUME NEW i \in 1 .. Len(asked) PROVE Lists'[at[i][1]] = Lists[at[i][1]]
    <2>1. at[i] \in Places(Lists)
      BY <1>8 DEF Bijection, Injection
    <2>2. at[i][1] \in 1 .. n
      BY <1>6, <2>1, PlaceOf
    <2>3. QED
      BY <1>6, <2>2
  <1>10. Placed(at, asked, Lists')
    BY <1>8, <1>9 DEF Placed
  <1>11. HoldAsked(Lists)'
    BY <1>1, <1>7, <1>8, <1>10 DEF HoldAsked
  <1>12. QED
    BY <1>1, <1>11 DEF BuyInv

\* A purchase joins the list of the last provider, which it names.
LEMMA PurchaseBuys ==
    ASSUME NodeKept, BuyInv, NEW commodity, NodeBuys(commodity)
    PROVE  BuyInv'
  <1> DEFINE k == Len(nodeB.providers)
             p == [from |-> IF k = 0 THEN Nil ELSE nodeB.providers[k], what |-> commodity]
  <1>1. /\ nodeB # Nil /\ ~nodeB.err
        /\ asked' = Append(asked, p)
    BY DEF NodeBuys, OnNode, NodeOpen, CurrentProvider
  <1>2. IsSequence(asked) /\ IsSequence(asked')
    BY <1>1, Appended DEF BuyInv
  <1>3. CASE NodeHasNoProvider
    <2>1. nodeB'.err = TRUE
      BY <1>1, <1>3 DEF NodeHasNoProvider, NodeKept, NewSupplyChainNodeBuilder
    <2>2. QED
      BY <1>2, <2>1 DEF BuyInv
  <1>4. CASE NodeBuysFromProvider(commodity)
    <2>1. k # 0 /\ nodeB' = [nodeB EXCEPT !.bought[k] = Append(@, commodity)]
      BY <1>4 DEF NodeBuysFromProvider, CurrentProvider
    <2>2. /\ IsSequence(nodeB.providers) /\ IsSequence(nodeB.bought)
          /\ Len(nodeB.bought) \in Nat /\ Len(nodeB.bought) = k
          /\ k \in 1 .. Len(nodeB.bought) /\ k \in 1 .. Len(nodeB.providers)
          /\ IsSequence(nodeB.bought[k]) /\ Provider(nodeB.providers[k])
      <3>1. /\ IsSequence(nodeB.providers) /\ IsSequence(nodeB.bought)
            /\ Len(nodeB.bought) = k
            /\ \A i \in 1 .. k : Provider(nodeB.providers[i]) /\ IsSequence(nodeB.bought[i])
        BY <1>1 DEF NodeKept, NodeLists
      <3>2. k \in Nat
        BY <3>1, SequenceElements
      <3>3. k \in 1 .. k
        BY <2>1, <3>2
      <3>4. QED
        BY <3>1, <3>2, <3>3
    <2>3. p = [from |-> nodeB.providers[k], what |-> commodity]
      BY <2>1
    <2> HIDE DEF k, p
    <2> DEFINE old == nodeB.bought
               new == Append(old[k], commodity)
    <2>4. /\ nodeB'.providers = nodeB.providers
          /\ nodeB'.bought = [old EXCEPT ![k] = new]
      BY <1>1, <2>1 DEF NodeKept, NewSupplyChainNodeBuilder
    <2>5. /\ Len(new) = Len(old[k]) + 1
          /\ \A j \in 1 .. Len(old[k]) : new[j] = old[k][j]
          /\ new[Len(old[k]) + 1] = commodity
          /\ Len(old[k]) \in Nat
      BY <2>2, Appended, SequenceElements
    <2>6. IsSequence(old) /\ k \in 1 .. Len(old) /\ Len(old) \in Nat
      BY <2>2
    <2> HIDE DEF old, new
    <2>7. /\ Len(nodeB'.bought) = Len(old)
          /\ nodeB'.bought[k] = new
          /\ \A i \in 1 .. Len(old) \ {k} : nodeB'.bought[i] = old[i]
      BY <2>4, <2>6, Replaced
    <2> DEFINE lists == Lists
               after == Lists'
    <2>8. /\ Len(lists) = Len(old)
          /\ \A n \in 1 .. Len(old) :
                lists[n].key = nodeB.providers[n] /\ lists[n].value = old[n]
      BY <2>6 DEF Lists, old
    <2>9. /\ Len(after) = Len(old)
          /\ \A n \in 1 .. Len(old) :
                after[n].key = nodeB.providers[n] /\ after[n].value = nodeB'.bought[n]
      BY <2>4, <2>6, <2>7 DEF Lists
    <2>10. HoldAsked(Lists) /\ \A i \in 1 .. Len(asked) : asked[i].from # Nil
      BY <1>1 DEF BuyInv
    <2> HIDE DEF lists, after
    <2>11. PICK at \in Bijection(1 .. Len(asked), Places(lists)) : Placed(at, asked, lists)
      BY <2>10 DEF HoldAsked, lists
    <2>12. /\ k \in 1 .. Len(lists) /\ Len(after) = Len(lists)
           /\ lists[k].key = p.from
           /\ Len(lists[k].value) \in Nat
           /\ Len(after[k].value) = Len(lists[k].value) + 1
           /\ \A j \in 1 .. Len(lists[k].value) : after[k].value[j] = lists[k].value[j]
           /\ after[k].value[Len(lists[k].value) + 1] = p.what
      <3>1. lists[k].key = nodeB.providers[k] /\ lists[k].value = old[k]
        BY <2>6, <2>8
      <3>2. after[k].value = new
        BY <2>6, <2>7, <2>9
      <3>3. p.from = nodeB.providers[k] /\ p.what = commodity
        BY <2>3
      <3>4. k \in 1 .. Len(lists) /\ Len(after) = Len(lists)
        BY <2>6, <2>8, <2>9
      <3>5. QED
        BY <2>5, <3>1, <3>2, <3>3, <3>4, Zenon
    <2>13. \A n \in 1 .. Len(lists) : /\ after[n].key = lists[n].key
                                      /\ n # k => after[n].value = lists[n].value
      <3>1. ASSUME NEW n \in 1 .. Len(lists)
            PROVE  after[n].key = lists[n].key /\ (n # k => after[n].value = lists[n].value)
        <4>1. n \in 1 .. Len(old)
          BY <2>8, <3>1
        <4>2. /\ lists[n].key = nodeB.providers[n] /\ lists[n].value = old[n]
              /\ after[n].key = nodeB.providers[n] /\ after[n].value = nodeB'.bought[n]
          BY <2>8, <2>9, <4>1
        <4>3. n # k => nodeB'.bought[n] = old[n]
          BY <2>7, <4>1
        <4>4. QED
          BY <4>2, <4>3
      <3>2. QED
        BY <3>1
    <2>14. \E to \in Bijection(1 .. Len(Append(asked, p)), Places(after)) :
              Placed(to, Append(asked, p), after)
      BY <1>2, <2>11, <2>12, <2>13, PurchasePlaced
    <2>15. HoldAsked(Lists)'
      BY <1>1, <2>14 DEF HoldAsked, after
    <2>16. ASSUME NEW i \in 1 .. Len(asked') PROVE asked'[i].from # Nil
      <3>1. /\ Len(asked) \in Nat
            /\ Len(asked') = Len(asked) + 1
            /\ \A j \in 1 .. Len(asked) : asked'[j] = asked[j]
            /\ asked'[Len(asked) + 1] = p
        BY <1>1, <1>2, Appended, SequenceElements
      <3>2. p.from # Nil
        BY <2>2, <2>3 DEF Provider, Has
      <3>3. i \in 1 .. Len(asked) \/ i = Len(asked) + 1
        BY <3>1
      <3>4. QED
        BY <2>10, <3>1, <3>2, <3>3
    <2>17. QED
      BY <1>2, <2>15, <2>16 DEF BuyInv
  <1>5. QED
    BY <1>3, <1>4 DEF NodeBuys

\* Every step leaves the node in the making with what was asked for.
LEMMA BuyStep ==
    ASSUME NodeKept, BuyInv, ChainNext
    PROVE  BuyInv'
  <1> DEFINE Same == /\ asked' = asked
                     /\ nodeB' # Nil => /\ nodeB # Nil
                                        /\ nodeB'.err = nodeB.err \/ nodeB'.err = TRUE
                                        /\ nodeB'.bought = nodeB.bought
                                        /\ nodeB'.providers = nodeB.providers
  <1>1. ASSUME Same PROVE BuyInv'
    BY <1>1, BuyUntouched
  <1>2. ASSUME UNCHANGED nodeVars PROVE BuyInv'
    BY <1>1, <1>2 DEF nodeVars
  <1>3. ASSUME NEW buyer, NEW seller, Link(buyer, seller)
        PROVE  BuyInv'
    BY <1>2, <1>3 DEF Link, OnLink
  <1>4. ASSUME NEW field, NEW part, LinkPart(field, part)
        PROVE  BuyInv'
    BY <1>2, <1>4 DEF LinkPart, OnLink
  <1>5. ASSUME NEW def, ExternalEntityPropertyDef(def)
        PROVE  BuyInv'
    BY <1>2, <1>5 DEF ExternalEntityPropertyDef
  <1>6. CASE BuildLink
    BY <1>2, <1>6 DEF BuildLink
  <1>7. ASSUME NEW class, NewNode(class)
        PROVE  BuyInv'
    BY <1>7, NewNodeBuys
  <1>8. ASSUME NEW class, NEW type, NodeProvider(class, type)
        PROVE  BuyInv'
    BY <1>8, ProviderBuys
  <1>9. ASSUME NEW commodity, NodeSells(commodity)
        PROVE  BuyInv'
    <2>1. /\ asked' = asked /\ nodeB # Nil
          /\ nodeB' = [nodeB EXCEPT !.commoditySold = Append(@, commodity)]
      BY <1>9 DEF NodeSells, OnNode, NodeOpen
    <2>2. Same
      BY <2>1 DEF NodeKept, NewSupplyChainNodeBuilder
    <2>3. QED
      BY <1>1, <2>2
  <1>10. ASSUME NEW commodity, NodeBuys(commodity)
         PROVE  BuyInv'
    BY <1>10, PurchaseBuys
  <1>11. CASE ConnectsTo
    <2>1. asked' = asked /\ nodeB # Nil
      BY <1>11 DEF ConnectsTo, NodeOpen
    <2>2. CASE OtherEnd(nodeB.templateClass, link) = {}
      <3>1. nodeB' = [nodeB EXCEPT !.err = TRUE]
        BY <1>11, <2>2 DEF ConnectsTo
      <3>2. Same
        BY <2>1, <3>1 DEF NodeKept, NewSupplyChainNodeBuilder
      <3>3. QED
        BY <1>1, <3>2
    <2>3. CASE OtherEnd(nodeB.templateClass, link) # {}
      <3>1. PICK l : nodeB' = [nodeB EXCEPT !.externalLink = Append(@, l)]
        BY <1>11, <2>3 DEF ConnectsTo
      <3>2. Same
        BY <2>1, <3>1 DEF NodeKept, NewSupplyChainNodeBuilder
      <3>3. QED
        BY <1>1, <3>2
    <2>4. QED
      BY <2>2, <2>3
  <1>12. CASE CreateNode
    BY <1>1, <1>12 DEF CreateNode
  <1>13. ASSUME NEW n, Top(n) \/ Entity(n)
         PROVE  BuyInv'
    BY <1>2, <1>13 DEF Top, Entity, OnChain
  <1>14. CASE CreateChain
    BY <1>2, <1>14 DEF CreateChain, OnChain
  <1>15. QED
    BY <1>3, <1>4, <1>5, <1>6, <1>7, <1>8, <1>9, <1>10, <1>11, <1>12, <1>13, <1>14
       DEF ChainNext

\* Once a node is made, what was asked for of it does not change.
LEMMA AskedStays ==
    ASSUME nodeB = Nil, node # Nil, ChainNext
    PROVE  asked' = asked
  <1>1. ASSUME NEW def, ExternalEntityPropertyDef(def) \/ BuildLink \/ ConnectsTo \/ CreateNode
        PROVE  asked' = asked
    BY <1>1 DEF ExternalEntityPropertyDef, BuildLink, ConnectsTo, CreateNode, nodeVars
  <1>2. ASSUME NEW buyer, NEW seller, Link(buyer, seller) \/ LinkPart(buyer, seller)
        PROVE  asked' = asked
    BY <1>2 DEF Link, LinkPart, OnLink, nodeVars
  <1>3. ASSUME NEW class, NewNode(class)
        PROVE  asked' = asked
    BY <1>3 DEF NewNode
  <1>4. ASSUME NEW class, NEW type, NodeProvider(class, type)
        PROVE  asked' = asked
    BY <1>4 DEF NodeProvider
  <1>5. ASSUME NEW commodity, NodeSells(commodity) \/ NodeBuys(commodity)
        PROVE  asked' = asked
    BY <1>5 DEF NodeSells, NodeBuys, OnNode, NodeOpen
  <1>6. ASSUME NEW n, Top(n) \/ Entity(n) \/ CreateChain
        PROVE  asked' = asked
    BY <1>6 DEF Top, Entity, CreateChain, OnChain, nodeVars
  <1>7. QED
    BY <1>1, <1>2, <1>3, <1>4, <1>5, <1>6 DEF ChainNext

\* Create hands out the lists the node in the making had.
LEMMA CreatedBuys ==
    ASSUME NodeKept, BuyInv, CreateNode
    PROVE  TemplateBuysAsAsked'
  <1>1. /\ nodeB # Nil /\ ~nodeB.err
        /\ asked' = asked
    BY DEF CreateNode, NodeOpen
  <1>2. PICK lists \in BoughtLists : node'.commodityBought = lists
    BY DEF CreateNode
  <1> DEFINE n == Len(nodeB.bought)
             keys == {i \in 1 .. n : nodeB.bought[i] # <<>>}
             old == Lists
  <1>3. PICK order \in SetToSeqs(keys) :
            lists = [i \in 1 .. Len(order) |-> [key |-> nodeB.providers[order[i]],
                                               value |-> nodeB.bought[order[i]]]]
    BY DEF BoughtLists
  <1>4. IsSequence(nodeB.bought) /\ n \in Nat /\ IsSequence(asked) /\ Len(asked) \in Nat
    BY <1>1, SequenceElements DEF NodeKept, NodeLists, BuyInv
  <1>5. /\ Len(old) = n
        /\ \A i \in 1 .. n : old[i] = [key |-> nodeB.providers[i], value |-> nodeB.bought[i]]
    BY <1>4 DEF Lists
  <1>6. Len(old) \in Nat /\ \A i \in 1 .. n : old[i].value = nodeB.bought[i]
    BY <1>4 DEF Lists
  <1>7. PICK at \in Bijection(1 .. Len(asked), Places(old)) : Placed(at, asked, old)
    BY <1>1 DEF BuyInv, HoldAsked
  <1>8. keys = {i \in 1 .. Len(old) : old[i].value # <<>>}
    <2> HIDE DEF old, n
    <2>1. QED
      BY <1>5, <1>6
  <1>9. \A i \in 1 .. Len(order) : order[i] \in 1 .. n
    <2>1. order \in [1 .. Cardinality(keys) -> keys]
      BY <1>3 DEF SetToSeqs
    <2>2. IsFiniteSet(keys)
      <3>1. IsFiniteSet(1 .. n)
        BY <1>4, FS_Interval
      <3>2. keys \subseteq 1 .. n
        OBVIOUS
      <3>3. QED
        BY <3>1, <3>2, FS_Subset
    <2>3. Cardinality(keys) \in Nat
      BY <2>2, FS_CardinalityType
    <2> HIDE DEF keys
    <2>4. Len(order) = Cardinality(keys)
      BY <2>1, <2>3
    <2>5. keys \subseteq 1 .. n
      BY DEF keys
    <2>6. QED
      BY <2>1, <2>4, <2>5
  <1> HIDE DEF old, keys, n
  <1>10. lists = [i \in 1 .. Len(order) |-> old[order[i]]]
    BY <1>3, <1>5, <1>9
  <1>11. \E to \in Bijection(1 .. Len(asked), Places(lists)) : Placed(to, asked, lists)
    <2>1. order \in SetToSeqs(keys)
      BY <1>3
    <2>2. at \in Bijection(1 .. Len(asked), Places(old)) /\ Placed(at, asked, old)
      BY <1>7
    <2>3. QED
      BY ONLY <1>4, <1>6, <1>8, <1>10, <2>1, <2>2, ReorderedPlaced, Zenon
  <1>12. HoldAsked(node.commodityBought)'
    BY <1>1, <1>2, <1>11 DEF HoldAsked
  <1>13. QED
    BY <1>1, <1>12 DEF TemplateBuysAsAsked, BuyInv

-----------------------------------------------------------------------------
(* The chain. *)

\* A builder that refused anything has its error, and keeps it.
LEMMA OfferKept ==
    ASSUME ChainTypeOK, OfferInv, ChainNext
    PROVE  /\ OfferInv'
           /\ DOMAIN chainB' = DOMAIN NewSupplyChainBuilder
           /\ {chainB'.err, refused', amiss'} \subseteq BOOLEAN
           /\ chain' # chain => chain' = offered /\ ~refused
  <1> DEFINE Types == /\ DOMAIN chainB' = DOMAIN NewSupplyChainBuilder
                      /\ {chainB'.err, refused', amiss'} \subseteq BOOLEAN
             Created == chain' # chain => chain' = offered /\ ~refused
  <1>1. /\ DOMAIN chainB = {"nodes", "err"}
        /\ {chainB.err, refused, amiss} \subseteq BOOLEAN
        /\ DOMAIN NewSupplyChainBuilder = {"nodes", "err"}
    BY DEF ChainTypeOK, NewSupplyChainBuilder
  <1>2. chainB.err = refused /\ (~refused => chainB.nodes = offered)
    BY DEF OfferInv
  <1>3. ASSUME UNCHANGED chainBVars, amiss' \in BOOLEAN
        PROVE  OfferInv' /\ Types /\ Created
    BY <1>1, <1>2, <1>3 DEF chainBVars, OfferInv
  <1>4. ASSUME NEW buyer, NEW seller, Link(buyer, seller)
        PROVE  UNCHANGED chainBVars /\ amiss' \in BOOLEAN
    BY <1>1, <1>4 DEF Link, OnLink
  <1>5. ASSUME NEW field, NEW part, LinkPart(field, part)
        PROVE  UNCHANGED chainBVars /\ amiss' \in BOOLEAN
    BY <1>1, <1>5 DEF LinkPart, OnLink
  <1>6. ASSUME NEW def, ExternalEntityPropertyDef(def)
        PROVE  UNCHANGED chainBVars /\ amiss' \in BOOLEAN
    BY <1>1, <1>6 DEF ExternalEntityPropertyDef
  <1>7. ASSUME BuildLink \/ ConnectsTo \/ CreateNode
        PROVE  UNCHANGED chainBVars /\ amiss' \in BOOLEAN
    BY <1>1, <1>7 DEF BuildLink, ConnectsTo, CreateNode
  <1>8. ASSUME NEW class, NewNode(class) \/ \E type \in ProviderTypes : NodeProvider(class, type)
        PROVE  UNCHANGED chainBVars /\ amiss' \in BOOLEAN
    BY <1>1, <1>8 DEF NewNode, NodeProvider, OnNode
  <1>9. ASSUME NEW commodity, NodeSells(commodity) \/ NodeBuys(commodity)
        PROVE  UNCHANGED chainBVars /\ amiss' \in BOOLEAN
    BY <1>1, <1>9 DEF NodeSells, NodeBuys, OnNode
  <1>10. ASSUME NEW n, Top(n)
         PROVE  OfferInv' /\ Types /\ Created
    <2>1. chain' = chain /\ offered' = <<n>> /\ amiss' = amiss
      BY <1>10 DEF Top, OnChain
    <2>2. CASE n = Nil
      <3>1. chainB' = [chainB EXCEPT !.err = TRUE] /\ refused' = TRUE
        BY <1>1, <1>10, <2>2 DEF Top
      <3>2. QED
        BY <1>1, <2>1, <3>1 DEF OfferInv
    <2>3. CASE n # Nil
      <3>1. chainB' = [chainB EXCEPT !.nodes = <<n>>] /\ refused' = refused
        BY <1>1, <1>10, <2>3 DEF Top
      <3>2. QED
        BY <1>1, <1>2, <2>1, <3>1 DEF OfferInv
    <2>4. QED
      BY <2>2, <2>3
  <1>11. ASSUME NEW n, Entity(n)
         PROVE  OfferInv' /\ Types /\ Created
    <2>1. /\ chain' = chain /\ offered' = Append(offered, n) /\ amiss' = amiss
          /\ ~chainB.err
      BY <1>11 DEF Entity, OnChain
    <2>2. CASE chainB.nodes = <<>>
      <3>1. chainB' = [chainB EXCEPT !.err = TRUE] /\ refused' = TRUE
        BY <1>1, <1>11, <2>2 DEF Entity
      <3>2. QED
        BY <1>1, <2>1, <3>1 DEF OfferInv
    <2>3. CASE chainB.nodes # <<>>
      <3>1. chainB' = [chainB EXCEPT !.nodes = Append(@, n)] /\ refused' = refused
        BY <1>1, <1>11, <2>3 DEF Entity
      <3>2. QED
        BY <1>1, <1>2, <2>1, <3>1 DEF OfferInv
    <2>4. QED
      BY <2>2, <2>3
  <1>12. CASE CreateChain
    BY <1>1, <1>2, <1>12 DEF CreateChain, OnChain, OfferInv
  <1>13. QED
    BY <1>3, <1>4, <1>5, <1>6, <1>7, <1>8, <1>9, <1>10, <1>11, <1>12 DEF ChainNext

-----------------------------------------------------------------------------
(* The invariant. *)

LEMMA ChainInitInv ==
    ASSUME NilIsNoMessage, ChainInit
    PROVE  ChainInv
  <1>1. ChainTypeOK /\ LinkInv
    <2>1. DOMAIN chainB = DOMAIN NewSupplyChainBuilder /\ chainB.err = FALSE
      BY DEF ChainInit, NewSupplyChainBuilder
    <2>2. linkB = NewExternalEntityLinkBuilder /\ link = Nil /\ nodeB = Nil /\ node = Nil
          /\ refused = FALSE /\ amiss = FALSE
      BY DEF ChainInit
    <2>3. EndsTogether(Nil)
      BY DEF EndsTogether, Has
    <2>4. QED
      BY <2>1, <2>2, <2>3, NewLink DEF ChainTypeOK, LinkInv
  <1>2. NodeInv /\ LinkKeyIsOtherEnd /\ CreatedTemplateIsWhole
    BY DEF ChainInit, NodeInv, LinkKeyIsOtherEnd, CreatedTemplateIsWhole
  <1>3. OfferInv
    BY DEF ChainInit, NewSupplyChainBuilder, OfferInv
  <1>4. BuyInv
    BY EmptyIsSequence DEF ChainInit, BuyInv
  <1>5. QED
    BY <1>1, <1>2, <1>3, <1>4 DEF ChainInv

\* A node in the making or a link in the making, and a node made, come one at a time.
LEMMA OneAtATime ==
    ASSUME ChainTypeOK, ChainNext
    PROVE  /\ node' # Nil => nodeB' = Nil
           /\ linkB' # NewExternalEntityLinkBuilder => nodeB' # Nil
           /\ CreateNode \/ UNCHANGED node
           /\ ~amiss' => ~amiss
  <1> DEFINE Quiet == UNCHANGED <<nodeB, node>> /\ (~amiss' => ~amiss)
             Goal == /\ node' # Nil => nodeB' = Nil
                     /\ linkB' # NewExternalEntityLinkBuilder => nodeB' # Nil
                     /\ CreateNode \/ UNCHANGED node
                     /\ ~amiss' => ~amiss
  <1>1. /\ node # Nil => nodeB = Nil
        /\ linkB # NewExternalEntityLinkBuilder => nodeB # Nil
    BY DEF ChainTypeOK
  <1>2. ASSUME Quiet, nodeB # Nil \/ UNCHANGED linkB
        PROVE  Goal
    BY <1>1, <1>2
  <1>3. ASSUME NEW buyer, NEW seller, Link(buyer, seller)
        PROVE  Goal
    BY <1>2, <1>3 DEF Link, OnLink, InLink, LinkTime, nodeVars
  <1>4. ASSUME NEW field, NEW part, LinkPart(field, part)
        PROVE  Goal
    BY <1>2, <1>4 DEF LinkPart, OnLink, InLink, LinkTime, nodeVars
  <1>5. ASSUME NEW def, ExternalEntityPropertyDef(def)
        PROVE  Goal
    <2>1. nodeB # Nil /\ Quiet
      BY <1>5 DEF ExternalEntityPropertyDef, InLink, LinkTime, nodeVars
    <2>2. QED
      BY <2>1, <1>2
  <1>6. CASE BuildLink
    BY <1>2, <1>6 DEF BuildLink, InLink, LinkTime, nodeVars
  <1>7. ASSUME NEW class, NewNode(class)
        PROVE  Goal
    BY <1>1, <1>7 DEF NewNode, linkVars
  <1>8. ASSUME nodeB # Nil, linkB = NewExternalEntityLinkBuilder, UNCHANGED <<linkB, node>>,
               ~amiss' => ~amiss
        PROVE  Goal
    BY <1>1, <1>8
  <1>9. ASSUME NEW class, NEW type, NodeProvider(class, type)
        PROVE  Goal
    BY <1>8, <1>9 DEF NodeProvider, OnNode, NodeOpen, linkVars
  <1>10. ASSUME NEW commodity, NodeSells(commodity) \/ NodeBuys(commodity)
         PROVE  Goal
    <2>1. OnNode /\ (~amiss' => ~amiss)
      BY <1>10 DEF NodeSells, NodeBuys
    <2>2. QED
      BY <2>1, <1>8 DEF OnNode, NodeOpen, linkVars
  <1>11. CASE ConnectsTo
    BY <1>8, <1>11 DEF ConnectsTo, NodeOpen
  <1>12. CASE CreateNode
    BY <1>12 DEF CreateNode, NodeOpen, linkVars
  <1>13. ASSUME NEW n, Top(n) \/ Entity(n)
         PROVE  Goal
    BY <1>2, <1>13 DEF Top, Entity, OnChain, nodeVars, linkVars
  <1>14. CASE CreateChain
    BY <1>2, <1>14 DEF CreateChain, OnChain, nodeVars, linkVars
  <1>15. QED
    BY <1>3, <1>4, <1>5, <1>6, <1>7, <1>9, <1>10, <1>11, <1>12, <1>13, <1>14 DEF ChainNext

\* Every step keeps the invariant, and a chain is created as it was offered.
LEMMA ChainNextInv ==
    ASSUME NilIsNoMessage, ChainInv, [ChainNext]_chainVars
    PROVE  ChainInv' /\ (chain' # chain => chain' = offered /\ ~refused)
  <1>1. ChainTypeOK /\ LinkInv /\ NodeInv /\ BuyInv /\ OfferInv
    BY DEF ChainInv
  <1>2. NodeKept
    BY <1>1 DEF NodeKept, ChainTypeOK, NodeInv
  <1>3. CASE UNCHANGED chainVars
    <2>1. UNCHANGED <<linkB, link, nodeB, node, chainB, chain, asked, offered, refused, amiss>>
      BY <1>3 DEF chainVars, linkVars, nodeVars, chainBVars
    <2>2. ChainTypeOK' /\ OfferInv'
      BY <1>1, <2>1 DEF ChainTypeOK, OfferInv
    <2>3. LinkInv'
      BY <1>1, <2>1, LinkUntouched DEF linkVars
    <2>4. NodeKept'
      BY <1>2, <2>1, NodeUntouched
    <2>5. LinkKeyIsOtherEnd' /\ CreatedTemplateIsWhole'
      BY <2>1 DEF ChainInv, LinkKeyIsOtherEnd, CreatedTemplateIsWhole
    <2>6. BuyInv'
      BY <1>1, <2>1, BuyUntouched
    <2>7. QED
      BY <2>1, <2>2, <2>3, <2>4, <2>5, <2>6 DEF ChainInv, NodeKept, NodeInv
  <1>4. CASE ChainNext
    <2>1. BuilderKept' /\ (link' # Nil => DOMAIN link' \subseteq LinkFields) /\ LinkInv'
      BY <1>1, <1>4, LinkStepKept
    <2>2. NodeKept'
      BY <1>1, <1>2, <1>4, NodeStepKept
    <2>3. /\ OfferInv'
          /\ DOMAIN chainB' = DOMAIN NewSupplyChainBuilder
          /\ {chainB'.err, refused', amiss'} \subseteq BOOLEAN
          /\ chain' # chain => chain' = offered /\ ~refused
      BY <1>1, <1>4, OfferKept
    <2>4. /\ node' # Nil => nodeB' = Nil
          /\ linkB' # NewExternalEntityLinkBuilder => nodeB' # Nil
          /\ CreateNode \/ UNCHANGED node
          /\ ~amiss' => ~amiss
      BY <1>1, <1>4, OneAtATime
    <2>5. ChainTypeOK'
      BY <2>1, <2>2, <2>3, <2>4 DEF ChainTypeOK, BuilderKept, NodeKept
    <2>6. NodeInv'
      BY <2>2 DEF NodeKept, NodeInv
    <2>7. LinkKeyIsOtherEnd' /\ CreatedTemplateIsWhole'
      <3>1. CASE CreateNode
        BY <1>2, <3>1, CreatedIsWhole
      <3>2. CASE UNCHANGED node
        BY <2>4, <3>2 DEF ChainInv, LinkKeyIsOtherEnd, CreatedTemplateIsWhole
      <3>3. QED
        BY <2>4, <3>1, <3>2
    <2>8. BuyInv'
      BY <1>1, <1>2, <1>4, BuyStep
    <2>9. QED
      BY <2>1, <2>3, <2>5, <2>6, <2>7, <2>8 DEF ChainInv
  <1>5. QED
    BY <1>3, <1>4

\* Every step leaves a template that holds what was asked for.
LEMMA TemplateBuysStep ==
    ASSUME ChainInv, TemplateBuysAsAsked, [ChainNext]_chainVars
    PROVE  TemplateBuysAsAsked'
  <1>1. ChainTypeOK /\ NodeInv /\ BuyInv
    BY DEF ChainInv
  <1>2. NodeKept
    BY <1>1 DEF NodeKept, ChainTypeOK, NodeInv
  <1>3. ASSUME node' = node, node # Nil => asked' = asked
        PROVE  TemplateBuysAsAsked'
    <2>1. CASE node = Nil
      BY <1>3, <2>1 DEF TemplateBuysAsAsked
    <2>2. CASE node # Nil
      <3>1. HoldAsked(node.commodityBought) /\ \A i \in 1 .. Len(asked) : asked[i].from # Nil
        BY <2>2 DEF TemplateBuysAsAsked
      <3>2. HoldAsked(node.commodityBought)'
        BY <1>3, <2>2, <3>1 DEF HoldAsked
      <3>3. QED
        BY <1>3, <2>2, <3>1, <3>2 DEF TemplateBuysAsAsked
    <2>3. QED
      BY <2>1, <2>2
  <1>4. CASE UNCHANGED chainVars
    BY <1>3, <1>4 DEF chainVars, nodeVars
  <1>5. CASE ChainNext
    <2>1. CASE CreateNode
      BY <1>1, <1>2, <2>1, CreatedBuys
    <2>2. CASE UNCHANGED node
      <3>1. node # Nil => nodeB = Nil
        BY <1>1 DEF ChainTypeOK
      <3>2. QED
        BY <1>3, <1>5, <2>2, <3>1, AskedStays
    <2>3. QED
      BY <1>1, <1>5, <2>1, <2>2, OneAtATime
  <1>6. QED
    BY <1>4, <1>5

(***************************************************************************)
(* Whatever is called, in whatever order: the builders, the template and   *)
(* the chain are in type, what a builder holds can be written unless it    *)
(* was handed something that cannot, and a builder that refused a node has *)
(* its error (pkg/supplychain).                                            *)
(***************************************************************************)
THEOREM ChainInvariant ==
    ASSUME NilIsNoMessage
    PROVE  ChainSpec => []ChainInv
  <1>1. ChainInit => ChainInv
    BY ChainInitInv
  <1>2. ChainInv /\ [ChainNext]_chainVars => ChainInv'
    BY ChainNextInv
  <1>3. QED
    BY <1>1, <1>2, PTL DEF ChainSpec

(***************************************************************************)
(* A template created can be written, unless a part that cannot be was     *)
(* handed over, or its class is Switch and it holds a link without ends    *)
(* (supply_chain_node_builder.go:36-48, 141-158).                          *)
(***************************************************************************)
THEOREM CreatedTemplateIsWholeHolds ==
    ASSUME NilIsNoMessage
    PROVE  ChainSpec => []CreatedTemplateIsWhole
  <1>1. ChainInv => CreatedTemplateIsWhole
    BY DEF ChainInv
  <1>2. QED
    BY <1>1, ChainInvariant, PTL

(***************************************************************************)
(* A link with ends is kept under the one that is not the node's class     *)
(* (supply_chain_node_builder.go:141-158).                                 *)
(***************************************************************************)
THEOREM LinkKeyIsOtherEndHolds ==
    ASSUME NilIsNoMessage
    PROVE  ChainSpec => []LinkKeyIsOtherEnd
  <1>1. ChainInv => LinkKeyIsOtherEnd
    BY DEF ChainInv
  <1>2. QED
    BY <1>1, ChainInvariant, PTL

(***************************************************************************)
(* A template holds every purchase once, under the provider chosen when it *)
(* was asked for and in the order of the calls, however many providers and *)
(* purchases there are and in whatever order the map gives its keys        *)
(* (supply_chain_node_builder.go:64-117, 168-181).                         *)
(***************************************************************************)
THEOREM TemplateBuysAsAskedHolds ==
    ASSUME NilIsNoMessage
    PROVE  ChainSpec => []TemplateBuysAsAsked
  <1>1. ChainInit => ChainInv /\ TemplateBuysAsAsked
    BY ChainInitInv DEF ChainInit, TemplateBuysAsAsked
  <1>2. ChainInv /\ TemplateBuysAsAsked /\ [ChainNext]_chainVars
            => ChainInv' /\ TemplateBuysAsAsked'
    BY ChainNextInv, TemplateBuysStep
  <1>3. QED
    BY <1>1, <1>2, PTL DEF ChainSpec

(***************************************************************************)
(* A chain is created of the nodes offered since the last Top, and only by *)
(* a builder that never refused one (supply_chain_builder.go:19-52).       *)
(***************************************************************************)
THEOREM ChainAsOfferedHolds ==
    ASSUME NilIsNoMessage
    PROVE  ChainSpec => ChainAsOffered
  <1>1. ChainInit => ChainInv
    BY ChainInitInv
  <1>2. ChainInv /\ [ChainNext]_chainVars
            => ChainInv' /\ [chain' # chain => chain' = offered /\ ~refused]_chainVars
    BY ChainNextInv
  <1>3. QED
    BY <1>1, <1>2, PTL DEF ChainSpec, ChainAsOffered
=============================================================================
