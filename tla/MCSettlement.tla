---- MODULE MCSettlement ----
(* Instances of the settlement specification for TLC. *)
EXTENDS SettlementProperties, TLC

Symmetry == Permutations(Gateways)

\* From where leg 2 was quoted, sent and reported, and is in the last block it
\* may be in, which has just been confirmed; of leg 1 there is nothing yet.
\* (Bound: leg 2's own reports and block are in their place already.)
AfterOneLanded ==
    /\ rows = [l \in Legs |-> IF l = 2 THEN [source |-> "server", signature |-> TRUE,
                                             submit_result |-> "sent", chain_outcome |-> "none"]
                                       ELSE NoRow]
    /\ outbox = [l \in Legs |-> IF l = 2 THEN <<"quoted", "sent">> ELSE <<>>]
    /\ twins = {} /\ reports = {} /\ altered = {} /\ imported = {}
    /\ web = [l \in Legs |-> IF l = 2 THEN "submitted" ELSE "new"]
    /\ lastValid = [l \in Legs |-> IF l = 2 THEN 1 + BlockhashLife ELSE 0]
    /\ height = 1 + BlockhashLife
    /\ landing = [l \in Legs |-> IF l = 2 THEN [block |-> height, err |-> FALSE] ELSE NotIn]
    /\ broadcast = {2}
    /\ pass = [g \in Gateways |-> Idle]
    /\ notices = {}
    /\ importing = NoLeg
    /\ stops = 0

SecondLegSpec == AfterOneLanded /\ [][Next]_vars
====
