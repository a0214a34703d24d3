--------------------------- MODULE AllocationRules ---------------------------
(* The arithmetic of an Allocation (clients/web/src/lib/allocation/rules.ts   *)
(* and lib/amount.ts): how a spend is split, what may be spent, and what the  *)
(* routing fee is once it has borne Sender's tip.  All amounts are atoms.     *)
EXTENDS Integers, FiniteSets, Functions

BasisPoints == 10000

SumOf(f) == SumFunction(f)

minimumPlanAtoms(constituents, minLegAtoms) == constituents * minLegAtoms

\* The first shares take the remainder, one atom each.
splitEvenly(total, parts) ==
    [i \in 1 .. parts |->
        total \div parts + (IF i <= total % parts THEN 1 ELSE 0)]

\* Slip: the atoms left over go to the first shares, however many there are.
AheadInOrder(total, weights, i) == i

\* How many shares have a larger remainder than share i, or the same and stand
\* before it: its place in byRemainder.
Ahead(total, weights, i) ==
    LET Rest(j) == (total * weights[j]) % SumOf(weights)
    IN  Cardinality({j \in DOMAIN weights :
                        \/ Rest(j) > Rest(i)
                        \/ Rest(j) = Rest(i) /\ j < i})

splitByWeights(total, weights) ==
    LET share == [i \in DOMAIN weights |-> (total * weights[i]) \div SumOf(weights)]
        left  == total - SumOf(share)
    IN  [i \in DOMAIN weights |->
            share[i] + (IF Ahead(total, weights, i) < left THEN 1 ELSE 0)]

routingFeeBps(constituents) ==
    IF constituents >= 5 THEN 10 ELSE IF constituents >= 2 THEN 15 ELSE 25

routingFeeAtoms(inAtoms, bps) == (inAtoms * bps) \div BasisPoints

\* Whole basis points, rounded up.
RoundedUp(tipAtoms, notional) == (tipAtoms * BasisPoints + notional - 1) \div notional

\* Slip: the offset is not stopped at the tier.
OffsetPastTheTier(tipAtoms, notional, tierBps) == RoundedUp(tipAtoms, notional)

tipOffsetBps(tipAtoms, notional, tierBps) ==
    IF notional <= 0 \/ RoundedUp(tipAtoms, notional) >= tierBps
    THEN tierBps ELSE RoundedUp(tipAtoms, notional)
=============================================================================
