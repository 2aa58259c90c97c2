-------------------------- MODULE RequestContract --------------------------
(***************************************************************************)
(* What a session promises the server about the messages it sends for a    *)
(* request it has accepted, whatever goroutines and channels produce them: *)
(*                                                                         *)
(*   - a discovery is kept alive, answered once, and then completed once;  *)
(*   - an action reports progress, but none once its result is given;      *)
(*   - a validation is answered once;                                      *)
(*   - the messages leave one at a time, and each of them either reaches   *)
(*     the server or is dropped as a whole.                                *)
(*                                                                         *)
(* The promise is taken from the comments of remote_mediation_client.go at *)
(* lines 279, 290, 329-331 and 357-358.                                    *)
(***************************************************************************)
CONSTANT Requests

VARIABLES
    accepted,   \* the kind of the request being served, "none" before
    said,       \* the final messages produced for it
    outbox,     \* the messages on their way
    heard       \* the final messages the server was sent

contractVars == <<accepted, said, outbox, heard>>

Kinds == {"Discovery", "Validation", "Action"}

Final == {"result", "completion"}

\* Whether a message of kind m may be produced for the request now.
MaySay(r, m) ==
    CASE m = "keepalive"  -> accepted[r] = "Discovery"
      [] m = "progress"   -> accepted[r] = "Action" /\ "result" \notin said[r]
      [] m = "result"     -> accepted[r] \in Kinds /\ "result" \notin said[r]
      [] m = "completion" -> /\ accepted[r] = "Discovery"
                             /\ "result" \in said[r]
                             /\ "completion" \notin said[r]

ContractInit ==
    /\ accepted = [r \in Requests |-> "none"]
    /\ said = [r \in Requests |-> {}]
    /\ outbox = {}
    /\ heard = [r \in Requests |-> {}]

Accepts(r) ==
    /\ accepted[r] = "none"
    /\ \E k \in Kinds : accepted' = [accepted EXCEPT ![r] = k]
    /\ UNCHANGED <<said, outbox, heard>>

Says(r, m) ==
    /\ outbox = {}
    /\ MaySay(r, m)
    /\ said' = [said EXCEPT ![r] = @ \cup ({m} \cap Final)]
    /\ outbox' = {<<r, m>>}
    /\ UNCHANGED <<accepted, heard>>

Settles(r, m) ==
    /\ outbox = {<<r, m>>}
    /\ outbox' = {}
    /\ heard' \in {heard, [heard EXCEPT ![r] = @ \cup ({m} \cap Final)]}
    /\ UNCHANGED <<accepted, said>>

ContractNext ==
    \E r \in Requests :
        \/ Accepts(r)
        \/ \E m \in {"keepalive", "progress", "result", "completion"} :
              Says(r, m) \/ Settles(r, m)

ContractSpec == ContractInit /\ [][ContractNext]_contractVars
=============================================================================
