---- MODULE MCPurchase ----
(* Instances of the purchase flow for TLC. *)
EXTENDS PurchaseProperties, TLC

CONSTANTS w1, w2, m1, m2

Plan(kind, mints) == [kind |-> kind, mints |-> mints, atoms |-> [i \in DOMAIN mints |-> 1000]]

\* The same lot bought and sold, another one, and two lots at once.
OnePlan  == {Plan("sell", <<m1>>)}
TwoPlans == {Plan("buy", <<m1>>), Plan("sell", <<m1>>)}

Pair   == {<<m1, m2>>}
Weights == {<<>>, <<40, 60>>}
Even   == {<<>>}

Caps  == [m \in Mints |-> 5000]
Rents == [m \in Mints \union {"USDC"} |-> IF m = m1 THEN 1 ELSE 0]
====
