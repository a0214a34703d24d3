---- MODULE MCBrowser ----
(* Instances of the browser's execution engine for TLC. *)
EXTENDS BrowserProperties, TLC

CONSTANTS t1, t2, e1, e2, s1, s2

EachItsOwn == [l \in Legs |-> IF l = 1 THEN e1 ELSE e2]
OneForAll == [l \in Legs |-> e1]

Symmetry == Permutations(Tabs) \union Permutations(Slots)
====
