------------------------- MODULE MCRequestDispatch -------------------------
(* RequestDispatch on small instances; the .cfg files give the sets. *)
EXTENDS RequestDispatch, TLC

CONSTANTS r1, r2

Ask(k, r, p) == [kind |-> k, id |-> r, probe |-> p]

\* Every kind of frame, for a registered probe "p1" and an unknown one "p2".
AnyRequest == [kind  : RequestKinds \cup {"garbage"},
               id    : Requests,
               probe : ProbeTypes]

\* A discovery of the probe "p1" beside an action, executed by the same probe or
\* by the probe "p2", which hangs.
LongRequests == {Ask("Discovery", r1, "p1"),
                 Ask("Action", r2, "p1"), Ask("Action", r2, "p2")}

\* Message ids are interchangeable: for the runs that check safety only.
Symmetry == Permutations(Requests)
=============================================================================
