---------------------------- MODULE MCHandshake ----------------------------
(* Handshake on small instances; the .cfg files give the sets and the flags. *)
EXTENDS Handshake, TLC

\* Sessions are interchangeable: for the runs that check safety only.
Symmetry == Permutations(Sessions) \cup Permutations(Targets)
=============================================================================
