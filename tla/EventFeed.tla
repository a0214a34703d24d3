----------------------------- MODULE EventFeed -----------------------------
(* What an outbox promises the service that reads it: events are published   *)
(* in an order that never changes once they are, and the reader is told      *)
(* every event before any later one, and nothing that was not published.     *)
CONSTANT Before(_, _)   \* the order of the events

VARIABLES
    published,          \* the events a reader may already be given
    told                \* the events the reader has

feedVars == <<published, told>>

Init ==
    /\ published = {}
    /\ told = {}

\* What is published later comes later.
Publish ==
    /\ published \subseteq published'
    /\ \A new \in published' \ published, old \in published : Before(old, new)
    /\ UNCHANGED told

\* The reader is never told an event with an earlier one still untold.
Tell ==
    /\ told \subseteq told'
    /\ told' \subseteq published
    /\ \A new \in told', old \in published : Before(old, new) => old \in told'
    /\ UNCHANGED published

Next == Publish \/ Tell

Spec == Init /\ [][Next]_feedVars
=============================================================================
