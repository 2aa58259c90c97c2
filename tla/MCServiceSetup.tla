--------------------------- MODULE MCServiceSetup ---------------------------
(* ServiceSetup on small instances: what the application's clients return. *)
EXTENDS ServiceSetup

Value(k, v) == [key |-> k, stringValue |-> v]

\* One whole registration client, and one whose supply chain has a node of nil.
TwoRegistrations == {"whole", "nil node"}

Fields == [r \in TwoRegistrations |-> "address"]
Accounts == [r \in TwoRegistrations |-> <<AccountDefEntryOf("address")>>]
Chains == [r \in TwoRegistrations |-> IF r = "whole" THEN <<>> ELSE <<Nil>>]

\* A client that describes the target "a1", and one that describes none.
TwoDiscoveries == {"a1's", "nil info"}

Values ==
    [d \in TwoDiscoveries |->
        IF d = "a1's" THEN <<Value("address", "a1"), Value("user", "a2")>> ELSE Nil]

SomeConfigs ==
    {[server |-> "url", local |-> "missing", login |-> "missing", rest |-> "set"],
     [server |-> "url", local |-> "malformed", login |-> "missing", rest |-> "missing"],
     [server |-> "malformed", local |-> "url", login |-> "set", rest |-> "set"]}

Symmetry == Permutations(ProbeTypes) \cup Permutations(Services)
=============================================================================
