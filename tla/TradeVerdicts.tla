--------------------------- MODULE TradeVerdicts ---------------------------
(* What settlement promises those who read the record and hear its notices:  *)
(* a trade is given a verdict once, however many rows it has and whoever     *)
(* finds it out, only after nothing can change what became of it, and the    *)
(* team hears that verdict or nothing.                                       *)
CONSTANTS Trades, Outcomes

VARIABLES
    fate,               \* per trade: what became of it, "open" while it may change
    verdict,            \* per trade: what the record says of it, "none" at first
    heard               \* what the team was told

verdictVars == <<fate, verdict, heard>>

Fates == [Trades -> Outcomes \union {"open"}]

\* Of some trades the chain may have decided before the record begins.
Init ==
    /\ fate \in Fates
    /\ verdict = [t \in Trades |-> "none"]
    /\ heard = {}

\* The chain decides of any trades at once, and for good.
Decide ==
    /\ fate' \in Fates
    /\ \A t \in Trades : fate[t] # "open" => fate'[t] = fate[t]
    /\ UNCHANGED <<verdict, heard>>

GiveVerdict(t) ==
    /\ fate[t] # "open"
    /\ verdict[t] = "none"
    /\ verdict' = [verdict EXCEPT ![t] = fate[t]]
    /\ UNCHANGED <<fate, heard>>

Hear ==
    /\ heard \subseteq heard'
    /\ \A n \in heard' : verdict[n.trade] = n.outcome
    /\ UNCHANGED <<fate, verdict>>

Next ==
    \/ Decide
    \/ \E t \in Trades : GiveVerdict(t)
    \/ Hear

Spec == Init /\ [][Next]_verdictVars
=============================================================================
