----------------------------- MODULE MCBuilders -----------------------------
(***************************************************************************)
(* EntityBuilder and SupplyChain on small instances; the .cfg files give   *)
(* the sets.  The two share nothing, so that a behaviour uses one of them. *)
(***************************************************************************)
EXTENDS EntityBuilder, SupplyChain

BuildersInit == EntityInit /\ ChainInit

BuildersSpec ==
    /\ BuildersInit
    /\ [][\/ ChainInit /\ BuildNext /\ UNCHANGED chainVars
          \/ EntityInit /\ ChainNext /\ UNCHANGED builderVars]_<<builderVars, chainVars>>

Symmetry == Permutations(Commodities) \cup Permutations(Providers)
=============================================================================
