------------------------ MODULE EntityBuilderProofs ------------------------
(***************************************************************************)
(* What an entity DTO holds, for any commodities and providers and any     *)
(* number of calls of the builders.                                        *)
(***************************************************************************)
EXTENDS EntityBuilder, WireFormatProofs, FiniteSetTheorems

\* The entity's calls, and those of the builders beside it.
Buying ==
    \/ BuysCommodities(<<>>)
    \/ \E c \in Commodities :
          BuysCommodities(<<c>>) \/ \E d \in Commodities : BuysCommodities(<<c, d>>)

\* A step other than a purchase or Create leaves the ledger, the entity DTO, and a failure
\* of the builder, as they are.
LEMMA OtherStepsKeep ==
    ASSUME [BuildNext]_builderVars, ~Buying, ~CreateEntity
    PROVE  UNCHANGED <<ledger, entity>> /\ (failed => failed')
  <1>1. CASE UNCHANGED builderVars
    BY <1>1 DEF builderVars, draftVars
  <1>2. ASSUME NEW c, NEW f, SetsCommodity(c, f)
        PROVE  UNCHANGED <<ledger, entity, failed>>
    BY <1>2 DEF SetsCommodity, draftVars
  <1>3. ASSUME NEW c, CreateCommodity(c)
        PROVE  UNCHANGED <<ledger, entity, failed>>
    BY <1>3 DEF CreateCommodity, draftVars
  <1>4. ASSUME NEW c, SellsCommodity(c)
        PROVE  UNCHANGED <<ledger, entity, failed>>
    BY <1>4 DEF SellsCommodity, OnEntity
  <1>5. ASSUME NEW f, NEW what, Patches(f, what)
        PROVE  UNCHANGED <<ledger, entity, failed>>
    BY <1>5 DEF Patches, draftVars
  <1>6. ASSUME NEW f, SetsEntity(f)
        PROVE  UNCHANGED <<ledger, entity, failed>>
    BY <1>6 DEF SetsEntity, OnEntity
  <1>7. ASSUME NEW p, WithProperty(p)
        PROVE  UNCHANGED <<ledger, entity, failed>>
    BY <1>7 DEF WithProperty, OnEntity
  <1>8. ASSUME NEW r, ReplacedBy(r)
        PROVE  UNCHANGED <<ledger, entity, failed>>
    BY <1>8 DEF ReplacedBy, OnEntity
  <1>9. ASSUME NEW p, SetsProvider(p)
        PROVE  UNCHANGED <<ledger, entity, failed>>
    BY <1>9 DEF SetsProvider, OnEntity
  <1>10. ASSUME NEW d, NEW v, SetsData(d, v)
         PROVE  UNCHANGED <<ledger, entity>> /\ ~failed
    BY <1>10 DEF SetsData, OnEntity
  <1>11. QED
    BY <1>1, <1>2, <1>3, <1>4, <1>5, <1>6, <1>7, <1>8, <1>9, <1>10 DEF BuildNext, Buying

\* An entity that buys from one provider names it, although all lists share one variable
\* (entity_dto_builder.go:284-289).
THEOREM SoleProviderNamedHolds == BuildSpec => []SoleProviderNamed
  <1>1. EntityInit => SoleProviderNamed
    BY DEF EntityInit, SoleProviderNamed
  <1>2. ASSUME SoleProviderNamed, [BuildNext]_builderVars PROVE SoleProviderNamed'
    <2>1. CASE CreateEntity
      <3>1. PICK lists \in IF BoughtFrom = {} THEN {<<>>} ELSE CommodityBoughtFromMap :
              entity'.bought = lists
        BY <2>1 DEF CreateEntity
      <3>2. CASE BoughtFrom = {}
        <4>1. DOMAIN lists = {}
          BY <3>1, <3>2
        <4>2. QED
          BY <3>1, <4>1 DEF SoleProviderNamed
      <3>3. CASE BoughtFrom # {}
        <4>1. PICK last \in BoughtFrom :
                lists = [p \in BoughtFrom |-> [providerId |-> last, bought |-> bought[p]]]
          BY <3>1, <3>3 DEF CommodityBoughtFromMap
        <4>2. DOMAIN lists = BoughtFrom /\ \A p \in BoughtFrom : lists[p].providerId = last
          BY <4>1
        <4>3. QED
          BY <3>1, <4>2 DEF SoleProviderNamed
      <3>4. QED
        BY <3>2, <3>3
    <2>2. CASE ~CreateEntity
      <3>1. UNCHANGED entity
        BY <1>2, <2>2, OtherStepsKeep DEF Buying, BuysCommodities, OnEntity
      <3>2. QED
        BY <1>2, <3>1 DEF SoleProviderNamed
    <2>3. QED
      BY <2>1, <2>2
  <1>3. QED
    BY <1>1, <1>2, PTL DEF BuildSpec

-----------------------------------------------------------------------------
(* What is true between any two calls. *)

\* What the elements of a longer list are.
LEMMA RangeOfAppend ==
    ASSUME NEW S, NEW s \in Seq(S), NEW e
    PROVE  Range(Append(s, e)) = Range(s) \cup {e}
  <1>1. Len(s) \in Nat /\ DOMAIN s = 1 .. Len(s)
    BY LenProperties
  <1>2. /\ DOMAIN Append(s, e) = 1 .. Len(s) + 1
        /\ \A i \in 1 .. Len(s) : Append(s, e)[i] = s[i]
        /\ Append(s, e)[Len(s) + 1] = e
    BY OfSet, Appended, SequenceElements
  <1>3. QED
    BY <1>1, <1>2 DEF Range

LEMMA RangeOfConcat ==
    ASSUME NEW S, NEW s \in Seq(S), NEW t \in Seq(S)
    PROVE  Range(s \o t) = Range(s) \cup Range(t)
  <1>1. /\ Len(s) \in Nat /\ DOMAIN s = 1 .. Len(s)
        /\ Len(t) \in Nat /\ DOMAIN t = 1 .. Len(t)
    BY LenProperties
  <1>2. /\ DOMAIN (s \o t) = 1 .. Len(s) + Len(t)
        /\ \A i \in 1 .. Len(s) + Len(t) :
              (s \o t)[i] = IF i <= Len(s) THEN s[i] ELSE t[i - Len(s)]
    BY ConcatProperties, LenProperties
  <1>3. \A i \in 1 .. Len(s) : i \in 1 .. Len(s) + Len(t) /\ (s \o t)[i] = s[i]
    BY <1>1, <1>2
  <1>4. \A i \in 1 .. Len(t) : Len(s) + i \in 1 .. Len(s) + Len(t) /\ (s \o t)[Len(s) + i] = t[i]
    BY <1>1, <1>2
  <1>5. \A i \in 1 .. Len(s) + Len(t) :
           (s \o t)[i] \in {s[j] : j \in 1 .. Len(s)} \cup {t[j] : j \in 1 .. Len(t)}
    BY <1>1, <1>2
  <1>6. /\ Range(s) = {s[j] : j \in 1 .. Len(s)}
        /\ Range(t) = {t[j] : j \in 1 .. Len(t)}
        /\ Range(s \o t) = {(s \o t)[j] : j \in 1 .. Len(s) + Len(t)}
    BY <1>1, <1>2 DEF Range
  <1>7. Range(s) \cup Range(t) \subseteq Range(s \o t)
    BY <1>3, <1>4, <1>6
  <1>8. Range(s \o t) \subseteq Range(s) \cup Range(t)
    BY <1>5, <1>6
  <1>9. QED
    BY <1>7, <1>8

\* A commodity's DTO has its type, and no part that could be incomplete.
LEMMA CommodityIsWhole ==
    ASSUME NEW set \in SUBSET CommoditySetters, NEW c, NEW m, m # Nil,
           m = [f \in {"commodityType"} \cup (set \ {"resizable"}) |-> c]
    PROVE  CommodityDTO(m)
  <1>1. DOMAIN m \subseteq {"commodityType", "key", "capacity", "used"} /\ "commodityType" \in DOMAIN m
    BY DEF CommoditySetters
  <1>2. QED
    BY <1>1 DEF CommodityDTO, CommodityData, Has, Each, Sub

\* CreateCommodity gives a commodity without a DTO one; the lists made before stay lists of DTOs.
LEMMA CreateKeepsType ==
    ASSUME EntityTypeOK, NEW c \in Commodities, CreateCommodity(c)
    PROVE  EntityTypeOK'
  <1> DEFINE m == [f \in {"commodityType"} \cup (cb[c] \ {"resizable"}) |-> c]
             S == Range(made) \cup {Nil}
             T == Range(made') \cup {Nil}
  <1>1. made[c] = Nil /\ made' = [made EXCEPT ![c] = m]
    BY DEF CreateCommodity
  <1>2. cb[c] \in SUBSET CommoditySetters
    BY DEF EntityTypeOK
  <1>3. m # Nil => CommodityDTO(m)
    BY <1>2, CommodityIsWhole
  <1>4. UNCHANGED <<cb, patch, current, sold, bought, props, scalars, replaced, data,
                    dataHasSet, failed, ledger, spoiled>>
    BY DEF CreateCommodity, draftVars
  <1> HIDE DEF m
  <1>5. made = [d \in Commodities |-> made[d]]
    BY DEF EntityTypeOK
  <1>6. /\ DOMAIN made = Commodities
        /\ DOMAIN made' = Commodities
        /\ \A d \in Commodities : made'[d] = IF d = c THEN m ELSE made[d]
        /\ made' = [d \in Commodities |-> made'[d]]
    BY <1>1, <1>5
  <1>7. \A d \in Commodities : made'[d] # Nil => CommodityDTO(made'[d])
    BY <1>3, <1>6 DEF EntityTypeOK
  <1>8. S \subseteq T
    BY <1>1, <1>6 DEF Range
  <1>9. sold \in Seq(S) /\ bought \in [Providers -> Seq(S)]
    BY DEF EntityTypeOK
  <1>10. ledger \in Seq((Providers \cup {Nil}) \X S)
    BY DEF EntityTypeOK, Purchases
  <1> HIDE DEF S, T
  <1>11. sold \in Seq(T) /\ bought \in [Providers -> Seq(T)]
    BY <1>8, <1>9, SeqMonotonic
  <1>12. (Providers \cup {Nil}) \X S \subseteq (Providers \cup {Nil}) \X T
    BY <1>8
  <1>13. ledger \in Seq((Providers \cup {Nil}) \X T)
    BY <1>10, <1>12, SeqMonotonic
  <1>14. sold' \in Seq(T) /\ bought' \in [Providers -> Seq(T)] /\ ledger' \in Seq((Providers \cup {Nil}) \X T)
    BY <1>4, <1>11, <1>13
  <1>15. QED
    BY <1>4, <1>6, <1>7, <1>14 DEF EntityTypeOK, Purchases, S, T

\* What a purchase adds to the current provider's list, and to the ledger.
Dtos(cs) == [i \in 1 .. Len(cs) |-> made[cs[i]]]
Orders(cs) == [i \in 1 .. Len(cs) |-> <<current, made[cs[i]]>>]

LEMMA PurchaseTyped ==
    ASSUME EntityTypeOK, NEW cs \in Seq(Commodities), BuysCommodities(cs)
    PROVE  /\ Dtos(cs) \in Seq(Range(made) \cup {Nil}) /\ Len(Dtos(cs)) = Len(cs)
           /\ Orders(cs) \in Purchases /\ Len(Orders(cs)) = Len(cs)
           /\ ledger' = ledger \o Orders(cs)
           /\ ledger' \in Purchases
  <1>1. Len(cs) \in Nat /\ \A i \in 1 .. Len(cs) : cs[i] \in Commodities
    BY LenProperties
  <1>2. \A i \in 1 .. Len(cs) : made[cs[i]] \in Range(made)
    BY <1>1 DEF EntityTypeOK, Range
  <1>3. Dtos(cs) \in Seq(Range(made) \cup {Nil}) /\ Len(Dtos(cs)) = Len(cs)
    BY <1>1, <1>2 DEF Dtos
  <1>4. current \in Providers \cup {Nil}
    BY DEF EntityTypeOK
  <1>5. \A i \in 1 .. Len(cs) :
           <<current, made[cs[i]]>> \in (Providers \cup {Nil}) \X (Range(made) \cup {Nil})
    BY <1>2, <1>4
  <1>6. Orders(cs) \in Purchases /\ Len(Orders(cs)) = Len(cs)
    BY <1>1, <1>5 DEF Purchases, Orders
  <1>7. ledger' = ledger \o [i \in 1 .. Len(Dtos(cs)) |-> <<current, Dtos(cs)[i]>>]
    BY DEF BuysCommodities, Asks, Dtos
  <1>8. [i \in 1 .. Len(Dtos(cs)) |-> <<current, Dtos(cs)[i]>>] = Orders(cs)
    BY <1>3 DEF Dtos, Orders
  <1>9. ledger \in Purchases
    BY DEF EntityTypeOK
  <1>10. QED
    BY <1>3, <1>6, <1>7, <1>8, <1>9, ConcatProperties DEF Purchases

LEMMA PurchaseKeepsType ==
    ASSUME EntityTypeOK, NEW cs \in Seq(Commodities), BuysCommodities(cs)
    PROVE  EntityTypeOK'
  <1> DEFINE dtos == Dtos(cs)
  <1>1. dtos \in Seq(Range(made) \cup {Nil}) /\ ledger' \in Purchases
    BY PurchaseTyped
  <1>2. /\ \/ /\ current # Nil
              /\ bought' = [bought EXCEPT ![current] = @ \o dtos]
              /\ failed' = failed
           \/ bought' = bought /\ failed' = TRUE
        /\ spoiled' = (spoiled \/ \E i \in 1 .. Len(dtos) : dtos[i] = Nil)
        /\ UNCHANGED <<cb, made, patch, current, sold, props, scalars, replaced, data, dataHasSet>>
    BY DEF BuysCommodities, Buys, Refuses, OnEntity, partVars, Dtos
  <1> HIDE DEF dtos
  <1>3. /\ bought \in [Providers -> Seq(Range(made) \cup {Nil})]
        /\ current \in Providers \cup {Nil}
    BY DEF EntityTypeOK
  <1>4. \A s \in Seq(Range(made) \cup {Nil}) : s \o dtos \in Seq(Range(made) \cup {Nil})
    BY <1>1, ConcatProperties
  <1>5. bought' \in [Providers -> Seq(Range(made) \cup {Nil})]
    BY <1>2, <1>3, <1>4
  <1>6. {failed', spoiled', dataHasSet'} \subseteq BOOLEAN
    <2>1. spoiled' \in BOOLEAN
      BY <1>2 DEF EntityTypeOK
    <2>2. failed' \in BOOLEAN /\ dataHasSet' \in BOOLEAN
      BY <1>2 DEF EntityTypeOK
    <2>3. QED
      BY <2>1, <2>2
  <1>7. ledger' \in Purchases'
    BY <1>1, <1>2 DEF Purchases
  <1>8. QED
    BY <1>2, <1>5, <1>6, <1>7 DEF EntityTypeOK

\* So do the other calls of the builders.
LEMMA OthersKeepType ==
    ASSUME EntityTypeOK, [BuildNext]_builderVars, ~Buying,
           \A c \in Commodities : ~CreateCommodity(c)
    PROVE  EntityTypeOK'
  <1> USE DEF EntityTypeOK, Purchases
  <1>1. CASE UNCHANGED builderVars
    BY <1>1 DEF builderVars, partVars, draftVars
  <1>2. ASSUME NEW c \in Commodities, NEW f \in CommoditySetters, SetsCommodity(c, f)
        PROVE  EntityTypeOK'
    <2>1. /\ cb' = [cb EXCEPT ![c] = @ \cup {f}]
          /\ UNCHANGED <<made, patch, draftVars, ledger, spoiled>>
      BY <1>2 DEF SetsCommodity
    <2>2. cb' \in [Commodities -> SUBSET CommoditySetters]
      BY <2>1
    <2>3. QED
      BY <2>1, <2>2 DEF draftVars
  <1>3. ASSUME NEW c \in Commodities, SellsCommodity(c)
        PROVE  EntityTypeOK'
    <2>1. /\ sold' = Append(sold, made[c])
          /\ spoiled' = (spoiled \/ made[c] = Nil)
          /\ UNCHANGED <<partVars, current, bought, props, scalars, replaced, data, dataHasSet,
                         failed, ledger>>
      BY <1>3 DEF SellsCommodity, OnEntity
    <2>2. made[c] \in Range(made)
      BY DEF Range
    <2>3. sold' \in Seq(Range(made) \cup {Nil})
      BY <2>1, <2>2
    <2>4. spoiled' \in BOOLEAN
      BY <2>1
    <2>5. QED
      BY <2>1, <2>3, <2>4 DEF partVars
  <1>4. ASSUME NEW f \in PatchSetters, NEW what \in Patchable(f), Patches(f, what)
        PROVE  EntityTypeOK'
    <2>1. /\ patch' = [patch EXCEPT ![f] = Append(@, what)]
          /\ UNCHANGED <<cb, made, draftVars, ledger, spoiled>>
      BY <1>4 DEF Patches
    <2>2. what \in Commodities \cup {"IP"}
      BY DEF Patchable
    <2>3. patch' \in [PatchSetters -> Seq(Commodities \cup {"IP"})]
      <3>1. \A s \in Seq(Commodities \cup {"IP"}) : Append(s, what) \in Seq(Commodities \cup {"IP"})
        BY <2>2
      <3>2. QED
        BY <2>1, <3>1
    <2>4. QED
      BY <2>1, <2>3 DEF draftVars
  <1>5. ASSUME NEW f \in EntitySetters, SetsEntity(f)
        PROVE  EntityTypeOK'
    BY <1>5 DEF SetsEntity, OnEntity, partVars
  <1>6. ASSUME NEW p \in {Property, Nil}, WithProperty(p)
        PROVE  EntityTypeOK'
    <2>1. /\ props' = Append(props, p)
          /\ spoiled' = (spoiled \/ p = Nil)
          /\ UNCHANGED <<partVars, current, sold, bought, scalars, replaced, data, dataHasSet,
                         failed, ledger>>
      BY <1>6 DEF WithProperty, OnEntity
    <2>2. props' \in Seq({Property, Nil})
      BY <2>1
    <2>3. spoiled' \in BOOLEAN
      BY <2>1
    <2>4. QED
      BY <2>1, <2>2, <2>3 DEF partVars
  <1>7. ASSUME NEW r \in {"patch", Nil}, ReplacedBy(r)
        PROVE  EntityTypeOK'
    BY <1>7 DEF ReplacedBy, OnEntity, partVars
  <1>8. ASSUME NEW p \in Providers \cup {Nil}, SetsProvider(p)
        PROVE  EntityTypeOK'
    BY <1>8 DEF SetsProvider, OnEntity, partVars
  <1>9. ASSUME NEW d \in Data, NEW value \in {d, Nil}, SetsData(d, value)
        PROVE  EntityTypeOK'
    <2>1. /\ dataHasSet' = TRUE
          /\ \/ failed' = TRUE /\ data' = data
             \/ data' = (IF value = Nil THEN Nil ELSE d) /\ failed' = failed
          /\ UNCHANGED <<partVars, current, sold, bought, props, scalars, replaced, ledger, spoiled>>
      BY <1>9 DEF SetsData, OnEntity
    <2>2. data' \in Data \cup {Nil}
      BY <2>1
    <2>3. failed' \in BOOLEAN /\ dataHasSet' \in BOOLEAN /\ spoiled' \in BOOLEAN
      BY <2>1
    <2>4. QED
      BY <2>1, <2>2, <2>3 DEF partVars
  <1>10. CASE CreateEntity
    BY <1>10 DEF CreateEntity, partVars, draftVars
  <1> HIDE DEF EntityTypeOK, Purchases
  <1>11. QED
    BY <1>1, <1>2, <1>3, <1>4, <1>5, <1>6, <1>7, <1>8, <1>9, <1>10 DEF BuildNext, Buying

\* The builders begin and stay in their type.
LEMMA EntityTypeInit == EntityInit => EntityTypeOK
  <1> SUFFICES ASSUME EntityInit PROVE EntityTypeOK
    OBVIOUS
  <1>1. \A S : <<>> \in Seq(S)
    OBVIOUS
  <1>2. /\ sold \in Seq(Range(made) \cup {Nil})
        /\ bought \in [Providers -> Seq(Range(made) \cup {Nil})]
        /\ props \in Seq({Property, Nil})
        /\ ledger \in Purchases
    BY <1>1 DEF EntityInit, Purchases
  <1>3. /\ cb \in [Commodities -> SUBSET CommoditySetters]
        /\ made = [c \in Commodities |-> made[c]]
        /\ \A c \in Commodities : made[c] # Nil => CommodityDTO(made[c])
        /\ patch \in [PatchSetters -> Seq(Commodities \cup {"IP"})]
    BY <1>1 DEF EntityInit
  <1>4. QED
    BY <1>2, <1>3 DEF EntityInit, EntityTypeOK

LEMMA EntityTypeStep ==
    ASSUME EntityTypeOK, [BuildNext]_builderVars
    PROVE  EntityTypeOK'
  <1>1. CASE Buying
    <2>1. PICK cs \in Seq(Commodities) : BuysCommodities(cs)
      <3>1. /\ <<>> \in Seq(Commodities)
            /\ \A c, d \in Commodities : <<c>> \in Seq(Commodities) /\ <<c, d>> \in Seq(Commodities)
        OBVIOUS
      <3>2. QED
        BY <1>1, <3>1 DEF Buying
    <2>2. QED
      BY <2>1, PurchaseKeepsType
  <1>2. ASSUME NEW c \in Commodities, CreateCommodity(c) PROVE EntityTypeOK'
    BY <1>2, CreateKeepsType
  <1>3. QED
    BY <1>1, <1>2, OthersKeepType

-----------------------------------------------------------------------------
(* The map of what is bought against the purchases asked for. *)

LEMMA BuyingBuys ==
    ASSUME Buying
    PROVE  \E cs \in Seq(Commodities) : BuysCommodities(cs)
  <1>1. /\ <<>> \in Seq(Commodities)
        /\ \A c, d \in Commodities : <<c>> \in Seq(Commodities) /\ <<c, d>> \in Seq(Commodities)
    OBVIOUS
  <1>2. QED
    BY <1>1 DEF Buying

\* A purchase adds its commodities to the ledger, all from the current provider.
LEMMA LedgerGrows ==
    ASSUME EntityTypeOK, NEW cs \in Seq(Commodities), BuysCommodities(cs)
    PROVE  /\ Len(ledger) \in Nat /\ Len(cs) \in Nat
           /\ Len(ledger') = Len(ledger) + Len(cs)
           /\ \A i \in 1 .. Len(ledger) : ledger'[i] = ledger[i]
           /\ \A i \in 1 .. Len(cs) : ledger'[Len(ledger) + i] = <<current, made[cs[i]]>>
  <1> DEFINE new == Orders(cs)
  <1>1. new \in Purchases /\ Len(new) = Len(cs) /\ ledger' = ledger \o new
    BY PurchaseTyped
  <1>2. \A i \in 1 .. Len(cs) : new[i] = <<current, made[cs[i]]>>
    BY DEF Orders
  <1>3. ledger \in Purchases
    BY DEF EntityTypeOK
  <1> HIDE DEF new
  <1>4. Len(ledger) \in Nat /\ Len(cs) \in Nat
    BY <1>3, LenProperties DEF Purchases
  <1>5. /\ Len(ledger') = Len(ledger) + Len(cs)
        /\ \A i \in 1 .. Len(ledger) + Len(cs) :
              ledger'[i] = IF i <= Len(ledger) THEN ledger[i] ELSE new[i - Len(ledger)]
    <2>1. /\ Len(ledger \o new) = Len(ledger) + Len(new)
          /\ \A i \in 1 .. Len(ledger) + Len(new) :
                (ledger \o new)[i] = IF i <= Len(ledger) THEN ledger[i] ELSE new[i - Len(ledger)]
      BY <1>1, <1>3, ConcatProperties DEF Purchases
    <2>2. QED
      BY <1>1, <2>1
  <1>6. \A i \in 1 .. Len(ledger) : i \in 1 .. Len(ledger) + Len(cs) /\ i <= Len(ledger)
    BY <1>4
  <1>7. \A i \in 1 .. Len(cs) : /\ Len(ledger) + i \in 1 .. Len(ledger) + Len(cs)
                                /\ ~(Len(ledger) + i <= Len(ledger))
                                /\ Len(ledger) + i - Len(ledger) = i
    BY <1>4
  <1>8. \A i \in 1 .. Len(ledger) : ledger'[i] = ledger[i]
    BY ONLY <1>5, <1>6
  <1>9. \A i \in 1 .. Len(cs) : ledger'[Len(ledger) + i] = new[i]
    BY ONLY <1>5, <1>7
  <1>10. QED
    BY <1>2, <1>4, <1>5, <1>8, <1>9, Zenon

LEMMA NamedStep ==
    ASSUME EntityTypeOK, NamedOrFailed, [BuildNext]_builderVars
    PROVE  NamedOrFailed'
  <1>1. CASE Buying
    <2>1. PICK cs \in Seq(Commodities) : BuysCommodities(cs)
      BY <1>1, BuyingBuys
    <2>2. /\ ~failed /\ entity = Nil /\ entity' = Nil
          /\ current # Nil \/ failed'
      BY <2>1 DEF BuysCommodities, OnEntity, Buys, Refuses
    <2>3. \A i \in 1 .. Len(ledger) : ledger[i][1] # Nil
      BY <2>2 DEF NamedOrFailed
    <2>4. CASE current # Nil
      <3>1. ASSUME NEW i \in 1 .. Len(ledger') PROVE ledger'[i][1] # Nil
        <4>1. CASE i \in 1 .. Len(ledger)
          BY <2>1, <2>3, <4>1, LedgerGrows
        <4>2. CASE i \notin 1 .. Len(ledger)
          <5>1. i - Len(ledger) \in 1 .. Len(cs) /\ Len(ledger) + (i - Len(ledger)) = i
            BY <2>1, <4>2, LedgerGrows
          <5>2. ledger'[i] = <<current, made[cs[i - Len(ledger)]]>>
            BY <2>1, <5>1, LedgerGrows
          <5>3. QED
            BY <2>4, <5>2
        <4>3. QED
          BY <4>1, <4>2
      <3>2. QED
        BY <3>1 DEF NamedOrFailed
    <2>5. QED
      BY <2>2, <2>4 DEF NamedOrFailed
  <1>2. CASE CreateEntity
    <2>1. ~failed /\ UNCHANGED ledger
      BY <1>2 DEF CreateEntity
    <2>2. QED
      BY <2>1 DEF NamedOrFailed
  <1>3. CASE ~Buying /\ ~CreateEntity
    <2>1. UNCHANGED <<ledger, entity>> /\ (failed => failed')
      BY <1>3, OtherStepsKeep
    <2>2. QED
      BY <2>1 DEF NamedOrFailed
  <1>4. QED
    BY <1>1, <1>2, <1>3

\* What is not bought from p leaves the list of p in order.
LEMMA OthersKeepOrder ==
    ASSUME EntityTypeOK, NEW cs \in Seq(Commodities), BuysCommodities(cs),
           NEW p, p # current, bought'[p] = bought[p], ListsInOrder(bought[p], AskedFrom(p))
    PROVE  ListsInOrder(bought[p], AskedFrom(p))'
  <1>1. /\ Len(ledger) \in Nat /\ Len(cs) \in Nat
        /\ Len(ledger') = Len(ledger) + Len(cs)
        /\ \A i \in 1 .. Len(ledger) : ledger'[i] = ledger[i]
        /\ \A i \in 1 .. Len(cs) : ledger'[Len(ledger) + i] = <<current, made[cs[i]]>>
    BY LedgerGrows
  <1>2. ASSUME NEW i \in 1 .. Len(ledger'), i \notin 1 .. Len(ledger)
        PROVE  ledger'[i][1] = current
    <2>1. i - Len(ledger) \in 1 .. Len(cs) /\ Len(ledger) + (i - Len(ledger)) = i
      BY <1>1, <1>2
    <2>2. PICK j \in 1 .. Len(cs) : i = Len(ledger) + j
      BY <2>1
    <2>3. ledger'[i] = <<current, made[cs[j]]>>
      BY <1>1, <2>2
    <2>4. QED
      BY <2>3
  <1>3. 1 .. Len(ledger) \subseteq 1 .. Len(ledger')
    BY <1>1
  <1>4. AskedFrom(p)' = AskedFrom(p)
    BY <1>1, <1>2, <1>3 DEF AskedFrom
  <1>5. PICK at \in [1 .. Len(bought[p]) -> AskedFrom(p)] :
          /\ Range(at) = AskedFrom(p)
          /\ \A i, j \in 1 .. Len(bought[p]) : i < j => at[i] < at[j]
          /\ \A i \in 1 .. Len(bought[p]) : bought[p][i] = ledger[at[i]][2]
    BY DEF ListsInOrder
  <1>6. \A i \in 1 .. Len(bought[p]) : at[i] \in 1 .. Len(ledger)
    BY <1>5 DEF AskedFrom
  <1>7. \A i \in 1 .. Len(bought[p]) : bought[p][i] = ledger'[at[i]][2]
    BY <1>1, <1>5, <1>6
  <1>8. /\ at \in [1 .. Len(bought'[p]) -> AskedFrom(p)']
        /\ Range(at) = AskedFrom(p)'
        /\ \A i, j \in 1 .. Len(bought'[p]) : i < j => at[i] < at[j]
        /\ \A i \in 1 .. Len(bought'[p]) : bought'[p][i] = ledger'[at[i]][2]
    BY <1>4, <1>5, <1>7, Zenon
  <1>9. QED
    BY <1>8, Zenon DEF ListsInOrder

\* What is bought from p comes after what was.
LEMMA PurchaseKeepsOrder ==
    ASSUME EntityTypeOK, NEW cs \in Seq(Commodities), BuysCommodities(cs),
           current \in Providers, ListsInOrder(bought[current], AskedFrom(current)),
           bought'[current] = bought[current] \o Dtos(cs)
    PROVE  \A p : p = current => ListsInOrder(bought[p], AskedFrom(p))'
  <1> DEFINE p == current
             dtos == Dtos(cs)
             n == Len(bought[p])
             m == Len(ledger)
             k == Len(cs)
  <1>1. /\ m \in Nat /\ k \in Nat
        /\ Len(ledger') = m + k
        /\ \A i \in 1 .. m : ledger'[i] = ledger[i]
        /\ \A i \in 1 .. k : ledger'[m + i] = <<p, made[cs[i]]>>
    BY LedgerGrows
  <1>2. bought[p] \in Seq(Range(made) \cup {Nil})
    BY DEF EntityTypeOK
  <1>3. dtos \in Seq(Range(made) \cup {Nil}) /\ Len(dtos) = k
    <2> HIDE DEF dtos, k
    <2>1. Dtos(cs) \in Seq(Range(made) \cup {Nil}) /\ Len(Dtos(cs)) = Len(cs)
      BY PurchaseTyped
    <2>2. QED
      BY <2>1 DEF dtos, k
  <1>4. n \in Nat
    BY <1>2, LenProperties
  <1>5. /\ Len(bought'[p]) = n + k
        /\ \A i \in 1 .. n + k : bought'[p][i] = IF i <= n THEN bought[p][i] ELSE dtos[i - n]
    <2>1. bought'[p] = bought[p] \o dtos
      OBVIOUS
    <2> HIDE DEF p, dtos, k
    <2>2. /\ Len(bought[p] \o dtos) = Len(bought[p]) + Len(dtos)
          /\ \A i \in 1 .. Len(bought[p]) + Len(dtos) :
                (bought[p] \o dtos)[i] = IF i <= Len(bought[p]) THEN bought[p][i]
                                                                ELSE dtos[i - Len(bought[p])]
      BY <1>2, <1>3, ConcatProperties
    <2>3. QED
      BY <1>3, <2>1, <2>2
  <1>6. \A i \in 1 .. k : dtos[i] = made[cs[i]]
    BY DEF Dtos
  <1>7. PICK at \in [1 .. n -> AskedFrom(p)] :
          /\ Range(at) = AskedFrom(p)
          /\ \A i, j \in 1 .. n : i < j => at[i] < at[j]
          /\ \A i \in 1 .. n : bought[p][i] = ledger[at[i]][2]
    BY DEF ListsInOrder
  <1> DEFINE S == AskedFrom(p)
             T == S \cup {m + i : i \in 1 .. k}
             to == [i \in 1 .. n + k |-> IF i <= n THEN at[i] ELSE m + (i - n)]
  <1>8. \A i \in 1 .. n : at[i] \in S /\ at[i] \in 1 .. m
    BY <1>7 DEF AskedFrom
  <1>9. \A q : q = p => AskedFrom(q)' = T
    <2>1. ASSUME NEW i \in 1 .. m + k, i \notin 1 .. m
          PROVE  ledger'[i][1] = p /\ i \in {m + j : j \in 1 .. k}
      <3>1. i - m \in 1 .. k /\ m + (i - m) = i
        BY <1>1, <2>1
      <3>2. PICK j \in 1 .. k : i = m + j
        BY <3>1
      <3>3. ledger'[i] = <<p, made[cs[j]]>>
        BY <1>1, <3>2
      <3>4. QED
        BY <3>2, <3>3
    <2>2. \A i \in 1 .. k : m + i \in 1 .. m + k /\ m + i \notin 1 .. m
      BY <1>1
    <2>3. 1 .. m \subseteq 1 .. m + k
      BY <1>1
    <2>4. {i \in 1 .. m + k : ledger'[i][1] = p} = {i \in 1 .. m : ledger[i][1] = p} \cup {m + i : i \in 1 .. k}
      <3>1. \A i \in 1 .. m : i \in 1 .. m + k /\ ledger'[i] = ledger[i]
        BY <1>1, <2>3
      <3>2. \A i \in 1 .. k : m + i \in 1 .. m + k /\ ledger'[m + i][1] = p
        BY <1>1, <2>2
      <3> HIDE DEF m, k
      <3>3. ASSUME NEW i \in 1 .. m + k, ledger'[i][1] = p
            PROVE  i \in {j \in 1 .. m : ledger[j][1] = p} \cup {m + j : j \in 1 .. k}
        BY <2>1, <3>1, <3>3
      <3>4. ASSUME NEW i \in {j \in 1 .. m : ledger[j][1] = p} \cup {m + j : j \in 1 .. k}
            PROVE  i \in 1 .. m + k /\ ledger'[i][1] = p
        BY <3>1, <3>2
      <3>5. QED
        BY <3>3, <3>4
    <2>5. QED
      BY <1>1, <2>4 DEF AskedFrom
  <1> HIDE DEF p, dtos, n, m, k, S, T
  <1>10. \A i \in 1 .. n + k : i <= n \/ (i - n \in 1 .. k /\ m + (i - n) \in {m + j : j \in 1 .. k})
    BY <1>1, <1>4
  <1>11. to \in [1 .. n + k -> T]
    <2>1. ASSUME NEW i \in 1 .. n + k PROVE to[i] \in T
      <3>1. CASE i <= n
        <4>1. i \in 1 .. n
          BY <1>1, <1>4, <3>1
        <4>2. QED
          BY <1>8, <3>1, <4>1 DEF T
      <3>2. CASE ~(i <= n)
        BY <1>10, <3>2 DEF T
      <3>3. QED
        BY <3>1, <3>2
    <2>2. QED
      BY <2>1
  <1>12. Range(to) = T
    <2>1. Range(to) \subseteq T
      BY <1>11 DEF Range
    <2>2. ASSUME NEW x \in S PROVE x \in Range(to)
      <3>1. PICK i \in 1 .. n : at[i] = x
        BY <1>7, <2>2 DEF Range, S
      <3>2. i \in 1 .. n + k /\ i <= n
        BY <1>1, <1>4
      <3>3. QED
        BY <3>1, <3>2 DEF Range
    <2>3. ASSUME NEW i \in 1 .. k PROVE m + i \in Range(to)
      <3>1. n + i \in 1 .. n + k /\ ~(n + i <= n) /\ (n + i) - n = i
        BY <1>1, <1>4
      <3>2. to[n + i] = m + i
        BY <3>1
      <3>3. QED
        BY <3>1, <3>2 DEF Range
    <2>4. QED
      BY <2>1, <2>2, <2>3 DEF T
  <1>13. ASSUME NEW i \in 1 .. n + k, NEW j \in 1 .. n + k, i < j PROVE to[i] < to[j]
    <2>1. CASE j <= n
      <3>1. i \in 1 .. n /\ j \in 1 .. n /\ i <= n
        BY <1>1, <1>4, <1>13, <2>1
      <3>2. QED
        BY <1>7, <1>13, <2>1, <3>1 DEF n, p
    <2>2. CASE i <= n /\ ~(j <= n)
      <3>1. i \in 1 .. n
        BY <1>1, <1>4, <2>2
      <3>2. at[i] \in 1 .. m
        BY <1>8, <3>1
      <3>3. to[i] = at[i] /\ to[j] = m + (j - n)
        BY <2>2
      <3>4. QED
        BY ONLY <1>1, <1>4, <2>2, <3>2, <3>3, i \in 1 .. n + k, j \in 1 .. n + k
    <2>3. CASE ~(i <= n)
      <3>1. ~(j <= n)
        BY <1>1, <1>4, <1>13, <2>3
      <3>2. to[i] = m + (i - n) /\ to[j] = m + (j - n)
        BY <2>3, <3>1
      <3>3. m + (i - n) < m + (j - n)
        BY <1>1, <1>4, <1>13
      <3>4. QED
        BY <3>2, <3>3
    <2>4. QED
      BY <2>1, <2>2, <2>3
  <1>14. ASSUME NEW i \in 1 .. n + k PROVE bought'[p][i] = ledger'[to[i]][2]
    <2>1. CASE i <= n
      <3>1. i \in 1 .. n
        BY <1>1, <1>4, <2>1
      <3>2. bought'[p][i] = ledger[at[i]][2] /\ to[i] = at[i]
        BY <1>5, <1>7, <2>1, <3>1
      <3>3. QED
        BY <1>1, <1>8, <3>1, <3>2
    <2>2. CASE ~(i <= n)
      <3>1. i - n \in 1 .. k /\ to[i] = m + (i - n)
        BY <1>10, <2>2
      <3>2. bought'[p][i] = made[cs[i - n]]
        BY <1>5, <1>6, <2>2, <3>1
      <3>3. ledger'[m + (i - n)] = <<p, made[cs[i - n]]>>
        BY <1>1, <3>1
      <3>4. QED
        BY <3>1, <3>2, <3>3
    <2>3. QED
      BY <2>1, <2>2
  <1> HIDE DEF to
  <1>15. \A q : q = p => ListsInOrder(bought[q], AskedFrom(q))'
    BY <1>5, <1>9, <1>11, <1>12, <1>13, <1>14, SMTT(30) DEF ListsInOrder
  <1>16. QED
    BY <1>15 DEF p

\* Only purchases change the map.
LEMMA OnlyPurchasesChangeMap ==
    ASSUME [BuildNext]_builderVars, ~Buying
    PROVE  UNCHANGED <<ledger, bought>>
  BY DEF BuildNext, Buying, builderVars, draftVars, SetsCommodity, CreateCommodity, SellsCommodity,
         Patches, SetsEntity, WithProperty, ReplacedBy, SetsProvider, SetsData, CreateEntity, OnEntity

LEMMA MapStep ==
    ASSUME EntityTypeOK, MapInOrder, [BuildNext]_builderVars
    PROVE  MapInOrder'
  <1>1. CASE Buying
    <2>1. PICK cs \in Seq(Commodities) : BuysCommodities(cs)
      BY <1>1, BuyingBuys
    <2>2. \/ current # Nil /\ bought' = [bought EXCEPT ![current] = @ \o Dtos(cs)]
          \/ current = Nil /\ bought' = bought
      BY <2>1 DEF BuysCommodities, Buys, Refuses, Dtos
    <2>3. bought \in [Providers -> Seq(Range(made) \cup {Nil})] /\ current \in Providers \cup {Nil}
      BY DEF EntityTypeOK
    <2>4. ASSUME NEW p \in Providers PROVE ListsInOrder(bought[p], AskedFrom(p))'
      <3>1. ListsInOrder(bought[p], AskedFrom(p))
        BY DEF MapInOrder
      <3>2. CASE p = current
        <4>1. p # Nil
          BY EntityAssumption
        <4>2. bought'[current] = bought[current] \o Dtos(cs)
          BY <2>2, <2>3, <3>2, <4>1
        <4>3. current \in Providers /\ ListsInOrder(bought[current], AskedFrom(current))
          BY <3>1, <3>2
        <4>4. QED
          BY <2>1, <3>2, <4>2, <4>3, PurchaseKeepsOrder
      <3>3. CASE p # current
        <4>1. bought'[p] = bought[p]
          BY <2>2, <2>3, <3>3
        <4>2. QED
          BY <2>1, <3>1, <3>3, <4>1, OthersKeepOrder
      <3>4. QED
        BY <3>2, <3>3
    <2>5. QED
      BY <2>4 DEF MapInOrder
  <1>2. CASE ~Buying
    <2>1. UNCHANGED <<ledger, bought>>
      BY <1>2, OnlyPurchasesChangeMap
    <2>2. QED
      BY <2>1 DEF MapInOrder, ListsInOrder, AskedFrom
  <1>3. QED
    BY <1>1, <1>2

LEMMA NilsStep ==
    ASSUME EntityTypeOK, NilsAreKnown, [BuildNext]_builderVars
    PROVE  NilsAreKnown'
  <1>1. CASE Buying
    <2>1. PICK cs \in Seq(Commodities) : BuysCommodities(cs)
      BY <1>1, BuyingBuys
    <2>2. /\ \/ bought' = [bought EXCEPT ![current] = @ \o Dtos(cs)]
             \/ bought' = bought
          /\ spoiled' = (spoiled \/ \E i \in 1 .. Len(Dtos(cs)) : Dtos(cs)[i] = Nil)
          /\ UNCHANGED <<sold, props>>
      BY <2>1 DEF BuysCommodities, Buys, Refuses, Dtos
    <2>3. Dtos(cs) \in Seq(Range(made) \cup {Nil})
      BY <2>1, PurchaseTyped
    <2>4. bought \in [Providers -> Seq(Range(made) \cup {Nil})]
      BY DEF EntityTypeOK
    <2>5. SUFFICES ASSUME ~spoiled' PROVE NilsAreKnown'
      BY DEF NilsAreKnown
    <2>6. /\ Nil \notin Range(sold) /\ Nil \notin Range(props)
          /\ \A p \in Providers : Nil \notin Range(bought[p])
      BY <2>2, <2>5 DEF NilsAreKnown
    <2>7. Nil \notin Range(Dtos(cs))
      BY <2>2, <2>3, <2>5, LenProperties DEF Range
    <2>8. ASSUME NEW p \in Providers PROVE Nil \notin Range(bought'[p])
      <3>1. \/ bought'[p] = bought[p]
            \/ bought'[p] = bought[p] \o Dtos(cs)
        BY <2>2, <2>4
      <3>2. bought[p] \in Seq(Range(made) \cup {Nil})
        BY <2>4
      <3>3. Range(bought[p] \o Dtos(cs)) = Range(bought[p]) \cup Range(Dtos(cs))
        BY <2>3, <3>2, RangeOfConcat
      <3>4. QED
        BY <2>6, <2>7, <3>1, <3>3
    <2>9. QED
      BY <2>2, <2>6, <2>8 DEF NilsAreKnown
  <1>2. ASSUME NEW c \in Commodities, SellsCommodity(c) PROVE NilsAreKnown'
    <2>1. /\ sold' = Append(sold, made[c])
          /\ spoiled' = (spoiled \/ made[c] = Nil)
          /\ UNCHANGED <<bought, props>>
      BY <1>2 DEF SellsCommodity
    <2>2. Range(sold') = Range(sold) \cup {made[c]}
      BY <2>1, RangeOfAppend DEF EntityTypeOK
    <2>3. QED
      BY <2>1, <2>2 DEF NilsAreKnown
  <1>3. ASSUME NEW p \in {Property, Nil}, WithProperty(p) PROVE NilsAreKnown'
    <2>1. /\ props' = Append(props, p)
          /\ spoiled' = (spoiled \/ p = Nil)
          /\ UNCHANGED <<bought, sold>>
      BY <1>3 DEF WithProperty
    <2>2. Range(props') = Range(props) \cup {p}
      BY <2>1, RangeOfAppend DEF EntityTypeOK
    <2>3. QED
      BY <2>1, <2>2 DEF NilsAreKnown
  <1>4. CASE /\ ~Buying
             /\ \A c \in Commodities : ~SellsCommodity(c)
             /\ \A p \in {Property, Nil} : ~WithProperty(p)
    <2>1. UNCHANGED <<spoiled, sold, props, bought>>
      BY <1>4 DEF BuildNext, Buying, builderVars, draftVars, SetsCommodity, CreateCommodity,
           Patches, SetsEntity, ReplacedBy, SetsProvider, SetsData, CreateEntity
    <2>2. QED
      BY <2>1 DEF NilsAreKnown
  <1>5. QED
    BY <1>1, <1>2, <1>3, <1>4

LEMMA FiniteStep ==
    ASSUME EntityTypeOK, IsFiniteSet(BoughtFrom), [BuildNext]_builderVars
    PROVE  IsFiniteSet(BoughtFrom')
  <1>1. bought \in [Providers -> Seq(Range(made) \cup {Nil})]
    BY DEF EntityTypeOK
  <1>2. BoughtFrom' \subseteq BoughtFrom \cup {current}
    <2>1. CASE Buying
      <3>1. \/ \E dtos : bought' = [bought EXCEPT ![current] = @ \o dtos]
            \/ bought' = bought
        BY <2>1 DEF Buying, BuysCommodities, Buys, Refuses
      <3>2. \A p \in Providers : p # current => bought'[p] = bought[p]
        BY <1>1, <3>1
      <3>3. QED
        BY <3>2 DEF BoughtFrom
    <2>2. CASE ~Buying
      BY <2>2, OnlyPurchasesChangeMap DEF BoughtFrom
    <2>3. QED
      BY <2>1, <2>2
  <1>3. IsFiniteSet(BoughtFrom \cup {current})
    BY FS_AddElement
  <1>4. QED
    BY <1>2, <1>3, FS_Subset

LEMMA EntityInvInit == EntityInit => EntityInv
  <1> SUFFICES ASSUME EntityInit PROVE EntityInv
    OBVIOUS
  <1>1. /\ ledger = <<>> /\ sold = <<>> /\ props = <<>>
        /\ bought = [p \in Providers |-> <<>>]
    BY DEF EntityInit
  <1>2. Len(<<>>) = 0 /\ DOMAIN <<>> = {}
    OBVIOUS
  <1>3. NamedOrFailed
    BY <1>1, <1>2 DEF NamedOrFailed
  <1>4. MapInOrder
    <2>1. ASSUME NEW p \in Providers PROVE ListsInOrder(bought[p], AskedFrom(p))
      <3>1. AskedFrom(p) = {} /\ 1 .. Len(bought[p]) = {}
        BY <1>1, <1>2 DEF AskedFrom
      <3>2. <<>> \in [{} -> {}] /\ Range(<<>>) = {}
        BY <1>2 DEF Range
      <3>3. QED
        BY <3>1, <3>2 DEF ListsInOrder
    <2>2. QED
      BY <2>1 DEF MapInOrder
  <1>5. NilsAreKnown
    BY <1>1, <1>2 DEF NilsAreKnown, Range
  <1>6. BoughtFrom = {}
    BY <1>1 DEF BoughtFrom
  <1>7. QED
    BY <1>3, <1>4, <1>5, <1>6, EntityTypeInit, FS_EmptySet DEF EntityInv

LEMMA EntityInvStep ==
    ASSUME EntityInv, [BuildNext]_builderVars
    PROVE  EntityInv'
  BY EntityTypeStep, NamedStep, MapStep, NilsStep, FiniteStep DEF EntityInv

\* Between any two calls the builders hold exactly what they were told, or the failure, for any
\* commodities, providers and calls (entity_dto_builder.go:123-191, 193-221).
THEOREM EntityInvariant == BuildSpec => []EntityInv
  BY EntityInvInit, EntityInvStep, PTL DEF BuildSpec

\* An entity DTO is never created with a purchase missing (entity_dto_builder.go:158-176).
THEOREM NothingMissingHolds == BuildSpec => []NothingMissing
  <1>1. EntityInv => NothingMissing
    BY DEF EntityInv, NamedOrFailed, NothingMissing
  <1>2. QED
    BY <1>1, EntityInvariant, PTL

\* Create puts the map in the DTO as it is.
LEMMA CreateTakesMap ==
    ASSUME CreateEntity
    PROVE  /\ DOMAIN entity'.bought = BoughtFrom
           /\ \A p \in BoughtFrom : /\ entity'.bought[p].bought = bought[p]
                                    /\ "providerId" \in DOMAIN entity'.bought[p]
                                    /\ entity'.bought[p] = [f \in {"providerId", "bought"} |-> entity'.bought[p][f]]
           /\ entity'.fields = EntityFields
           /\ UNCHANGED <<ledger, bought, spoiled>>
  <1>1. PICK lists \in IF BoughtFrom = {} THEN {<<>>} ELSE CommodityBoughtFromMap :
          entity' = [fields |-> EntityFields, bought |-> lists, replaced |-> replaced]
    BY DEF CreateEntity
  <1>2. UNCHANGED <<ledger, bought, spoiled>>
    BY DEF CreateEntity, draftVars
  <1>3. CASE BoughtFrom = {}
    <2>1. lists = <<>> /\ DOMAIN <<>> = {}
      BY <1>1, <1>3
    <2>2. QED
      BY <1>1, <1>2, <1>3, <2>1
  <1>4. CASE BoughtFrom # {}
    <2>1. PICK last \in BoughtFrom :
            lists = [p \in BoughtFrom |-> [providerId |-> last, bought |-> bought[p]]]
      BY <1>1, <1>4 DEF CommodityBoughtFromMap
    <2>2. QED
      BY <1>1, <1>2, <2>1
  <1>5. QED
    BY <1>3, <1>4

\* An entity DTO holds each purchase asked for once, under its provider and in the order of the
\* calls, for any number of them (entity_dto_builder.go:145-191, 279-291).
THEOREM BoughtAsOrderedHolds == BuildSpec => []BoughtAsOrdered
  <1>1. EntityInit => BoughtAsOrdered
    BY DEF EntityInit, BoughtAsOrdered
  <1>2. ASSUME EntityInv, BoughtAsOrdered, [BuildNext]_builderVars
        PROVE  BoughtAsOrdered'
    <2>1. CASE CreateEntity
      <3>1. ASSUME NEW p \in Providers
            PROVE  /\ ListsInOrder(bought[p], AskedFrom(p))
                   /\ p \in BoughtFrom <=> AskedFrom(p) # {}
        <4>1. ListsInOrder(bought[p], AskedFrom(p))
          BY <1>2 DEF EntityInv, MapInOrder
        <4>2. bought[p] \in Seq(Range(made) \cup {Nil})
          BY <1>2 DEF EntityInv, EntityTypeOK
        <4>3. bought[p] # <<>> <=> 1 .. Len(bought[p]) # {}
          BY <4>2, EmptySeq
        <4>4. 1 .. Len(bought[p]) # {} <=> AskedFrom(p) # {}
          BY <4>1 DEF ListsInOrder, Range
        <4>5. QED
          BY <4>1, <4>3, <4>4 DEF BoughtFrom
      <3>3. \A p : AskedFrom(p)' = AskedFrom(p)
        BY <2>1, CreateTakesMap DEF AskedFrom
      <3>4. DOMAIN entity'.bought = {p \in Providers : AskedFrom(p)' # {}}
        BY <2>1, <3>1, <3>3, CreateTakesMap DEF BoughtFrom
      <3>5. ASSUME NEW p \in BoughtFrom
            PROVE  ListsInOrder(entity.bought[p].bought, AskedFrom(p))'
        <4>1. ListsInOrder(bought[p], AskedFrom(p)) /\ entity'.bought[p].bought = bought[p]
          BY <2>1, <3>1, CreateTakesMap DEF BoughtFrom
        <4>2. UNCHANGED ledger
          BY <2>1, CreateTakesMap
        <4>3. QED
          BY <3>3, <4>1, <4>2 DEF ListsInOrder
      <3>6. DOMAIN entity'.bought = BoughtFrom
        BY <2>1, CreateTakesMap
      <3>7. QED
        BY <3>4, <3>5, <3>6 DEF BoughtAsOrdered
    <2>2. CASE Buying
      <3>1. entity' = Nil
        BY <2>2 DEF Buying, BuysCommodities, OnEntity
      <3>2. QED
        BY <3>1 DEF BoughtAsOrdered
    <2>3. CASE ~Buying /\ ~CreateEntity
      <3>1. UNCHANGED <<ledger, entity>>
        BY <1>2, <2>3, OtherStepsKeep
      <3>2. \A p : AskedFrom(p)' = AskedFrom(p)
        BY <3>1 DEF AskedFrom
      <3>3. \A dtos, purchases : ListsInOrder(dtos, purchases)
                                   => ListsInOrder(dtos, purchases)'
        BY <3>1 DEF ListsInOrder
      <3>4. QED
        BY <1>2, <3>1, <3>2, <3>3 DEF BoughtAsOrdered
    <2>4. QED
      BY <2>1, <2>2, <2>3
  <1>3. QED
    BY <1>1, <1>2, EntityInvariant, PTL DEF BuildSpec

-----------------------------------------------------------------------------
(* The DTO that is written. *)

\* A list of the elements of a finite set.
LEMMA SetAsSequence ==
    ASSUME NEW S, IsFiniteSet(S)
    PROVE  IsSequence(SetToSeq(S)) /\ \A i \in 1 .. Len(SetToSeq(S)) : SetToSeq(S)[i] \in S
  <1> DEFINE n == Cardinality(S)
  <1>1. n \in Nat /\ ExistsBijection(1 .. n, S)
    BY FS_CardinalityType
  <1>2. \E f \in [1 .. n -> S] : IsInjective(f)
    BY <1>1 DEF ExistsBijection, Bijection, Injection, IsInjective
  <1>3. SetToSeq(S) \in [1 .. n -> S]
    BY <1>2 DEF SetToSeq
  <1>4. IsSequence(SetToSeq(S)) /\ Len(SetToSeq(S)) = n
    <2> HIDE DEF n
    <2>1. SetToSeq(S) = [i \in 1 .. n |-> SetToSeq(S)[i]]
      BY <1>3
    <2>2. QED
      BY <1>1, <2>1, SegmentIsSequence
  <1>5. QED
    BY <1>3, <1>4

\* The entity data is in order, if it is the empty data the builder was given.
LEMMA DataIsWhole ==
    ASSUME NilIsNoMessage, NEW m,
           DOMAIN m \cap {"disk_array_data", "storage_data", "physical_machine_data",
                          "virtual_datacenter_data"} = {},
           \A f \in DOMAIN m \cap Data : m[f] = <<>>
    PROVE  EntityData(m)
  <1>1. <<>> # Nil /\ DOMAIN <<>> = {}
    <2>1. <<>> = [x \in {} |-> x]
      OBVIOUS
    <2>2. QED
      BY <2>1, MessageExists
  <1>2. Plain(<<>>) /\ VirtualMachineData(<<>>)
    BY <1>1 DEF Plain, VirtualMachineData, Has, Each
  <1>3. Sub(m, "disk_array_data", DiskArrayData)
    BY DEF Sub
  <1>4. Sub(m, "virtual_machine_data", VirtualMachineData)
    BY <1>2 DEF Sub, Data
  <1>5. ASSUME NEW f \in {"storage_data", "application_data",
                          "physical_machine_data", "virtual_datacenter_data"}
        PROVE  Sub(m, f, Plain)
    BY <1>2 DEF Sub, Data
  <1>6. QED
    BY <1>3, <1>4, <1>5 DEF EntityData

\* What Create makes of a builder without nils can be written.
LEMMA CreatedIsWhole ==
    ASSUME NilIsNoMessage, EntityInv, CreateEntity, ~spoiled
    PROVE  EntityDTO(Written(entity'))
  <1> DEFINE R == Range(entity'.bought)
             single == [f \in {"entityType", "id"} \cup scalars \cup EntityDataField |->
                          IF f \notin EntityDataField THEN f ELSE IF data = Nil THEN Nil ELSE <<>>]
             m == Written(entity')
  <1>1. EntityTypeOK /\ NilsAreKnown /\ IsFiniteSet(BoughtFrom)
    BY DEF EntityInv
  <1>2. /\ DOMAIN m = {"entityType", "id", "commoditiesSold", "entityProperties",
                       "commoditiesBought"} \cup scalars \cup EntityDataField
        /\ m["commoditiesSold"] = sold
        /\ m["entityProperties"] = props
        /\ m["commoditiesBought"] = SetToSeq(R)
        /\ \A f \in EntityDataField : m[f] = <<>>
        /\ m = [f \in DOMAIN m |-> m[f]]
    <2>1. /\ entity'.fields = With(With(single, "commoditiesSold", sold), "entityProperties", props)
          /\ m = With(entity'.fields, "commoditiesBought", SetToSeq(R))
      BY CreateTakesMap DEF EntityFields, Written
    <2>2. EntityDataField \subseteq Data /\ \A f \in EntityDataField : data # Nil
      BY <1>1 DEF EntityDataField, EntityTypeOK
    <2>3. /\ DOMAIN single = {"entityType", "id"} \cup scalars \cup EntityDataField
          /\ \A f \in EntityDataField : single[f] = <<>>
      BY <2>2
    <2> HIDE DEF single, R, m
    <2>4. QED
      BY <2>1, <2>2, <2>3 DEF With, Data
  <1> HIDE DEF m, single, R
  <1>3. EntityDataField \subseteq Data /\ scalars \subseteq EntitySetters
    BY <1>1 DEF EntityDataField, EntityTypeOK
  <1>4. \A x \in Range(made) \cup {Nil} : x # Nil => CommodityDTO(x)
    BY <1>1 DEF EntityTypeOK, Range
  <1>5. Each(m, "commoditiesSold", CommodityDTO)
    <2>1. sold \in Seq(Range(made) \cup {Nil}) /\ Nil \notin Range(sold)
      BY <1>1 DEF EntityTypeOK, NilsAreKnown
    <2>2. \A i \in 1 .. Len(sold) : sold[i] \in Range(made) \cup {Nil} /\ sold[i] # Nil
      BY <2>1, LenProperties DEF Range
    <2>3. QED
      BY <1>2, <1>4, <2>2 DEF Each
  <1>6. Each(m, "entityProperties", EntityProperty)
    <2>1. props \in Seq({Property, Nil}) /\ Nil \notin Range(props)
      BY <1>1 DEF EntityTypeOK, NilsAreKnown
    <2>2. \A i \in 1 .. Len(props) : props[i] \in {Property, Nil} /\ props[i] # Nil
      BY <2>1, LenProperties DEF Range
    <2>3. Property # Nil => EntityProperty(Property)
      BY DEF EntityProperty, Has, Property
    <2>4. QED
      BY <1>2, <2>2, <2>3 DEF Each
  <1>7. Each(m, "commoditiesBought", CommodityBought)
    <2>1. IsFiniteSet(R)
      <3>1. R = {entity'.bought[p] : p \in BoughtFrom}
        BY CreateTakesMap DEF R, Range
      <3>2. [p \in BoughtFrom |-> entity'.bought[p]] \in Surjection(BoughtFrom, R)
        BY <3>1 DEF Surjection
      <3>3. QED
        BY <1>1, <3>2, FS_Surjection
    <2>2. \A i \in 1 .. Len(SetToSeq(R)) : SetToSeq(R)[i] \in R
      BY <2>1, SetAsSequence
    <2>3. ASSUME NEW p \in BoughtFrom PROVE CommodityBought(entity'.bought[p])
      <3>1. p \in Providers
        BY DEF BoughtFrom
      <3>2. bought[p] \in Seq(Range(made) \cup {Nil}) /\ Nil \notin Range(bought[p])
        BY <1>1, <3>1 DEF EntityTypeOK, NilsAreKnown
      <3>3. \A i \in 1 .. Len(bought[p]) : bought[p][i] \in Range(made) \cup {Nil} /\ bought[p][i] # Nil
        BY <3>2, LenProperties DEF Range
      <3>4. /\ entity'.bought[p].bought = bought[p]
            /\ "providerId" \in DOMAIN entity'.bought[p]
            /\ entity'.bought[p] # Nil
        <4>1. entity'.bought[p] = [f \in {"providerId", "bought"} |-> entity'.bought[p][f]]
          BY CreateTakesMap
        <4>2. QED
          BY <4>1, CreateTakesMap DEF NilIsNoMessage
      <3>5. QED
        BY <1>4, <3>3, <3>4 DEF CommodityBought, Has, Each
    <2>4. R = {entity'.bought[p] : p \in BoughtFrom}
      BY CreateTakesMap DEF R, Range
    <2>5. QED
      BY <1>2, <2>2, <2>3, <2>4 DEF Each
  <1>8. "notification" \notin DOMAIN m /\ RelatedEntityData(m)
    BY <1>2, <1>3 DEF RelatedEntityData, Sub, Data, EntitySetters
  <1>9. EntityData(m)
    <2>1. /\ DOMAIN m \cap {"disk_array_data", "storage_data", "physical_machine_data",
                            "virtual_datacenter_data"} = {}
          /\ DOMAIN m \cap Data = EntityDataField
      BY <1>2, <1>3 DEF Data, EntitySetters
    <2>2. QED
      BY <1>2, <2>1, DataIsWhole
  <1>10. Has(m, {"entityType", "id"})
    BY <1>2, MessageExists DEF Has
  <1>11. EntityDTO(m)
    BY <1>5, <1>6, <1>7, <1>8, <1>9, <1>10 DEF EntityDTO, Each
  <1>12. QED
    BY <1>11 DEF m

\* A nil handed over is not forgotten.
LEMMA SpoiledStays ==
    ASSUME [BuildNext]_builderVars, spoiled
    PROVE  spoiled'
  BY DEF BuildNext, builderVars, SetsCommodity, CreateCommodity, SellsCommodity, BuysCommodities,
         Patches, SetsEntity, WithProperty, ReplacedBy, SetsProvider, SetsData, CreateEntity

\* An entity DTO can be written unless the application handed over a nil, whatever the commodities,
\* the providers and the calls (entity_dto_builder.go:68-113, 251-277).
THEOREM EntityIsWholeHolds ==
    ASSUME NilIsNoMessage
    PROVE  BuildSpec => []EntityIsWhole
  <1>1. EntityInit => EntityIsWhole
    BY DEF EntityInit, EntityIsWhole
  <1>2. ASSUME EntityInv, EntityIsWhole, [BuildNext]_builderVars
        PROVE  EntityIsWhole'
    <2>1. CASE CreateEntity
      <3>1. UNCHANGED spoiled
        BY <2>1, CreateTakesMap
      <3>2. spoiled \/ EntityDTO(Written(entity'))
        BY <1>2, <2>1, CreatedIsWhole
      <3>3. QED
        BY <3>1, <3>2 DEF EntityIsWhole, Written
    <2>2. CASE ~CreateEntity
      <3>1. UNCHANGED entity
        BY <1>2, <2>2, OtherStepsKeep DEF Buying, BuysCommodities, OnEntity
      <3>2. spoiled => spoiled'
        BY <1>2, SpoiledStays
      <3>3. QED
        BY <1>2, <3>1, <3>2 DEF EntityIsWhole, Written
    <2>3. QED
      BY <2>1, <2>2
  <1>3. QED
    BY <1>1, <1>2, EntityInvariant, PTL DEF BuildSpec
=============================================================================
