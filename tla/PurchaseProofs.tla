--------------------------- MODULE PurchaseProofs ---------------------------
(* Theorems about the purchase flow for any number of wallets, mints, pages'  *)
(* requests and legs, and every fee, window and balance.                      *)
EXTENDS PurchaseProperties, SequenceTheorems, SumLemmas

-----------------------------------------------------------------------------
(* Plans, splits and fees.                                                    *)

LEMMA SeqOfFunction ==
    ASSUME NEW S, NEW n \in Nat, NEW f \in [1 .. n -> S]
    PROVE  f \in Seq(S) /\ Len(f) = n /\ DOMAIN f = 1 .. n
  BY SeqDef

LEMMA Quotient ==
    ASSUME NEW a \in Nat, NEW b \in Nat \ {0}
    PROVE  a \div b \in Nat
  BY SMT

LEMMA Product ==
    ASSUME NEW a \in Nat, NEW b \in Nat
    PROVE  a * b \in Nat
  BY SMT

LEMMA EvenSplit ==
    ASSUME NEW total \in Nat, NEW parts \in Nat \ {0}
    PROVE  splitEvenly(total, parts) \in [1 .. parts -> Nat]
<1>1. total \div parts \in Nat
  BY Quotient
<1>2. \A i \in 1 .. parts :
         total \div parts + (IF i <= total % parts THEN 1 ELSE 0) \in Nat
  BY <1>1
<1>3. QED
  BY <1>2 DEF splitEvenly

LEMMA WeightedSplit ==
    ASSUME NEW total \in Nat, NEW weights \in Seq(Nat), SumOf(weights) = 100
    PROVE  splitByWeights(total, weights) \in [1 .. Len(weights) -> Nat]
<1> DEFINE share == [i \in DOMAIN weights |-> (total * weights[i]) \div SumOf(weights)]
           left == total - SumOf(share)
<1>1. DOMAIN weights = 1 .. Len(weights) /\ \A i \in DOMAIN weights : weights[i] \in Nat
  BY LenProperties
<1>2. \A i \in DOMAIN weights : share[i] \in Nat
  <2> TAKE i \in DOMAIN weights
  <2>1. total * weights[i] \in Nat
    BY <1>1, Product
  <2>2. (total * weights[i]) \div 100 \in Nat
    BY <2>1, Quotient
  <2>3. QED
    BY <2>2
<1> HIDE DEF share, left
<1>3. \A i \in DOMAIN weights :
         share[i] + (IF Ahead(total, weights, i) < left THEN 1 ELSE 0) \in Nat
  BY <1>2
<1>4. splitByWeights(total, weights) =
        [i \in DOMAIN weights |->
            share[i] + (IF Ahead(total, weights, i) < left THEN 1 ELSE 0)]
  BY DEF splitByWeights, share, left
<1>5. QED
  BY <1>1, <1>3, <1>4

LEMMA SplitIsALot ==
    ASSUME NEW typed \in Nat, NEW mints \in Seq(Mints) \ {<<>>}, NEW weights \in Seq(Nat),
           weights = <<>> \/ Len(weights) = Len(mints), ~ AmountProblem(typed, mints, weights)
    PROVE  /\ Split(typed, mints, weights) \in Seq(Nat)
           /\ Len(Split(typed, mints, weights)) = Len(mints)
<1>1. Len(mints) \in Nat \ {0}
  BY EmptySeq
<1>2. CASE weights = <<>>
  <2>1. Split(typed, mints, weights) \in [1 .. Len(mints) -> Nat]
    BY <1>1, <1>2, EvenSplit DEF Split
  <2>2. QED
    BY <1>1, <2>1, SeqOfFunction
<1>3. CASE weights # <<>>
  <2>1. SumOf(weights) = 100
    BY <1>3 DEF AmountProblem
  <2>2. Split(typed, mints, weights) \in [1 .. Len(mints) -> Nat]
    BY <1>3, <2>1, WeightedSplit DEF Split
  <2>3. QED
    BY <1>1, <2>2, SeqOfFunction
<1>4. QED
  BY <1>2, <1>3

LEMMA PlansAreRecords ==
    ASSUME NEW s \in Surfaces, NEW plan \in PlansOf(s)
    PROVE  plan \in PlanRecords /\ (s = "basket" => plan.kind = "buy")
<1>1. s \in {"basket", "trade", "sale"}
  BY PurchaseAssumption
<1>2. CASE s = "basket"
  <2>1. plan \in BasketPlans
    BY <1>2 DEF PlansOf
  <2>2. PICK c \in Spends \X Baskets \X WeightLists :
           /\ c[3] = <<>> \/ Len(c[3]) = Len(c[2])
           /\ ~ AmountProblem(c[1], c[2], c[3])
           /\ plan = [kind |-> "buy", mints |-> c[2], atoms |-> Split(c[1], c[2], c[3])]
    BY <2>1 DEF BasketPlans
  <2>3. c[1] \in Nat /\ c[2] \in Seq(Mints) \ {<<>>} /\ c[3] \in Seq(Nat)
    BY PurchaseAssumption
  <2>4. /\ Split(c[1], c[2], c[3]) \in Seq(Nat)
        /\ Len(Split(c[1], c[2], c[3])) = Len(c[2])
    BY <2>2, <2>3, SplitIsALot
  <2>5. QED
    BY <2>2, <2>3, <2>4 DEF PlanRecords, Kinds
<1>3. CASE s # "basket"
  <2>1. plan \in Plans
    BY <1>1, <1>3 DEF PlansOf
  <2>2. plan \in PlanRecords
    BY <2>1, PurchaseAssumption DEF PlanRecords, Kinds
  <2>3. QED
    BY <1>3, <2>2
<1>4. QED
  BY <1>2, <1>3

\* The fee is never below nothing, nor above the highest tier.
LEMMA FeeInRange ==
    ASSUME NEW constituents \in Nat, NEW worth \in Nat
    PROVE  FeeBps(constituents, worth) \in 0 .. 25
<1> DEFINE tier == routingFeeBps(constituents)
<1>1. tier \in 0 .. 25
  BY DEF routingFeeBps
<1>2. TipUsdcAtoms \in Nat
  BY PurchaseAssumption
<1> HIDE DEF tier
<1>3. tipOffsetBps(TipUsdcAtoms, worth, tier) \in 0 .. tier
  <2>1. CASE worth <= 0 \/ RoundedUp(TipUsdcAtoms, worth) >= tier
    BY <1>1, <2>1 DEF tipOffsetBps
  <2>2. CASE worth > 0 /\ ~ RoundedUp(TipUsdcAtoms, worth) >= tier
    <3>1. TipUsdcAtoms * BasisPoints + worth - 1 \in Nat
      BY <1>2, <2>2 DEF BasisPoints
    <3>2. RoundedUp(TipUsdcAtoms, worth) \in Nat
      BY <2>2, <3>1, Quotient DEF RoundedUp
    <3>3. QED
      BY <1>1, <2>2, <3>2 DEF tipOffsetBps
  <2>3. QED
    BY <2>1, <2>2
<1>4. FeeBps(constituents, worth) =
        IF HasSender THEN tier - tipOffsetBps(TipUsdcAtoms, worth, tier) ELSE tier
  BY DEF FeeBps, tier
<1>5. QED
  BY <1>1, <1>3, <1>4

-----------------------------------------------------------------------------
(* A split spends what was typed, and a fee leaves room for the tip.          *)

\* SumOf, as a sum over a set.
LEMMA SumIs == \A f : SumOf(f) = SumFunctionOnSet(f, DOMAIN f)
  BY DEF SumOf, SumFunction

\* An even split spends what was typed.
LEMMA EvenAddsUp ==
    ASSUME NEW total \in Nat, NEW parts \in Nat \ {0}
    PROVE  SumOf(splitEvenly(total, parts)) = total
<1> DEFINE q == total \div parts
           r == total % parts
           shares == splitEvenly(total, parts)
<1>1. q \in Nat /\ r \in 0 .. parts - 1 /\ total = parts * q + r
  BY DivMod
<1>2. DOMAIN shares = 1 .. parts
  BY DEF splitEvenly
<1>3. \A i \in 1 .. parts : shares[i] = q + (IF i \in 1 .. r THEN 1 ELSE 0)
  <2> SUFFICES ASSUME NEW i \in 1 .. parts
               PROVE  shares[i] = q + (IF i \in 1 .. r THEN 1 ELSE 0)
    OBVIOUS
  <2>1. shares[i] = q + (IF i <= r THEN 1 ELSE 0)
    BY DEF splitEvenly
  <2> HIDE DEF q, r, shares
  <2>2. i \in 1 .. r <=> i <= r
    BY <1>1
  <2>3. QED
    BY <2>1, <2>2
<1> HIDE DEF q, r, shares
<1>4. /\ IsFiniteSet(1 .. parts) /\ Cardinality(1 .. parts) = parts
      /\ Cardinality(1 .. r) = r /\ 1 .. r \in SUBSET (1 .. parts)
  <2>1. \A n \in Nat : IsFiniteSet(1 .. n) /\ Cardinality(1 .. n) = n
    <3> TAKE n \in Nat
    <3>1. n \in Int /\ 1 \in Int /\ (1 > n => n = 0)
      OBVIOUS
    <3>2. QED
      BY <3>1, FS_Interval
  <2>2. r \in Nat /\ 1 .. r \subseteq 1 .. parts
    BY <1>1
  <2>3. QED
    BY <2>1, <2>2
<1>5. SumFunctionOnSet(shares, 1 .. parts) = q * parts + r
  <2>1. q \in Int
    BY <1>1
  <2>2. SumFunctionOnSet(shares, 1 .. parts) = q * Cardinality(1 .. parts) + Cardinality(1 .. r)
    BY <1>3, <1>4, <2>1, SumOfShares
  <2>3. QED
    BY <1>4, <2>2
<1>6. SumOf(shares) = SumFunctionOnSet(shares, 1 .. parts)
  BY <1>2, SumIs
<1>7. q * parts + r = total
  BY <1>1
<1>8. QED
  BY <1>5, <1>6, <1>7 DEF shares

\* What the whole shares leave over is less than one for each.
LEMMA LittleIsLeft ==
    ASSUME NEW S, IsFiniteSet(S), NEW total \in Int, NEW W \in Nat \ {0},
           NEW weights, NEW whole, NEW share, NEW rest,
           \A i \in S : /\ weights[i] \in Int /\ whole[i] \in Int /\ share[i] \in Int
                        /\ rest[i] \in 0 .. W - 1
                        /\ total * weights[i] = whole[i]
                        /\ W * share[i] = whole[i] - rest[i],
           W = SumFunctionOnSet(weights, S)
    PROVE  /\ SumFunctionOnSet(share, S) \in Int
           /\ total - SumFunctionOnSet(share, S) \in 0 .. Cardinality(S)
<1> DEFINE minus == [i \in S |-> 0 - rest[i]]
           ones == [i \in S |-> IF i \in S THEN 1 ELSE 0]
           n == Cardinality(S)
           shares == SumFunctionOnSet(share, S)
           rests == SumFunctionOnSet(rest, S)
           wholes == SumFunctionOnSet(whole, S)
<1>1. n \in Nat
  BY FS_CardinalityType
<1>2. \A i \in S : minus[i] = 0 - rest[i] /\ ones[i] = 1
  OBVIOUS
<1>3. SumFunctionOnSet(ones, S) = n
  <2>1. S \cap S = S
    OBVIOUS
  <2>2. QED
    BY <2>1, SumCounts
<1> HIDE DEF minus, ones, n
<1>4. \A i \in S : rest[i] \in Int /\ minus[i] \in Int /\ ones[i] \in Int
  BY <1>2
<1>5. shares \in Int /\ rests \in Int /\ wholes \in Int /\ SumFunctionOnSet(minus, S) \in Int
  BY <1>4, SumIsInt
<1>6. total * W = wholes
  BY SumScales
<1>7. W * shares = wholes + SumFunctionOnSet(minus, S)
  <2>1. \A i \in S : W * share[i] = whole[i] + minus[i]
    BY <1>2, <1>4
  <2>2. W \in Int
    OBVIOUS
  <2>3. QED
    BY <1>4, <2>1, <2>2, SumsAdd
<1>8. (-1) * rests = SumFunctionOnSet(minus, S)
  <2>1. \A i \in S : (-1) * rest[i] = minus[i]
    BY <1>2, <1>4
  <2>2. -1 \in Int
    OBVIOUS
  <2>3. QED
    BY <1>4, <2>1, <2>2, SumScales
<1>9. 0 <= rests
  <2>1. \A i \in S : 0 * rest[i] <= rest[i]
    BY <1>4
  <2>2. 0 * rests <= rests
    BY <1>4, <2>1, ScaledSums, 0 \in Int
  <2>3. QED
    BY <1>5, <2>2
<1>10. rests <= W * n
  <2>1. \A i \in S : (-W) * ones[i] <= minus[i]
    <3> TAKE i \in S
    <3>1. (-W) * 1 = -W
      OBVIOUS
    <3>2. QED
      BY <1>2, <3>1
  <2>2. -W \in Int
    OBVIOUS
  <2>3. (-W) * n <= SumFunctionOnSet(minus, S)
    BY <1>3, <1>4, <2>1, <2>2, ScaledSums
  <2>4. (-W) * n = 0 - W * n /\ W * n \in Int
    BY <1>1, SMT
  <2>5. QED
    BY <1>5, <1>8, <2>3, <2>4
<1>11. W * (total - shares) = rests
  <2>1. W * (total - shares) = total * W - W * shares
    BY <1>5, SMT
  <2>2. total * W \in Int /\ W * shares \in Int
    BY <1>5, SMT
  <2>3. QED
    BY <1>5, <1>6, <1>7, <1>8, <2>1, <2>2
<1> HIDE DEF shares, rests
<1>12. total - shares \in 0 .. n
  <2>1. total - shares \in Int
    BY <1>5
  <2>2. 0 <= W * (total - shares) /\ W * (total - shares) <= W * n
    BY <1>9, <1>10, <1>11
  <2>3. QED
    BY <1>1, <2>1, <2>2, Cancels
<1>13. QED
  BY <1>5, <1>12 DEF shares, n

\* One more atom for each of the first shares, as many as are left.
LEMMA LeftGoesToTheFirst ==
    ASSUME NEW S, IsFiniteSet(S), NEW total \in Int, NEW share, NEW split, NEW Before,
           \A x \in S : share[x] \in Int,
           Ranks(Before, S),
           NEW rank, \A x \in S : rank[x] = Cardinality(Preceding(Before, S, x)),
           NEW left \in 0 .. Cardinality(S), left = total - SumFunctionOnSet(share, S),
           \A x \in S : split[x] = share[x] + (IF rank[x] < left THEN 1 ELSE 0)
    PROVE  SumFunctionOnSet(split, S) = total
<1> DEFINE T == {x \in S : rank[x] < left}
           marks == [x \in S |-> IF x \in T THEN 1 ELSE 0]
<1>1. Cardinality(T) = left
  BY FirstRanks
<1>2. \A x \in S : split[x] = share[x] + (IF x \in T THEN 1 ELSE 0)
  OBVIOUS
<1>3. T \subseteq S
  OBVIOUS
<1> HIDE DEF T
<1>4. SumFunctionOnSet(marks, S) = left
  <2>1. S \cap T = T
    BY <1>3
  <2>2. QED
    BY <1>1, <2>1, SumCounts
<1>5. \A x \in S : marks[x] = IF x \in T THEN 1 ELSE 0
  OBVIOUS
<1> HIDE DEF marks
<1>6. \A x \in S : /\ share[x] \in Int /\ split[x] \in Int /\ marks[x] \in Int
                   /\ 1 * split[x] = share[x] + marks[x]
  <2> TAKE x \in S
  <2>1. share[x] \in Int /\ marks[x] \in Int
    BY <1>5
  <2>2. split[x] = share[x] + marks[x]
    BY <1>2, <1>5
  <2>3. QED
    BY <2>1, <2>2
<1>7. 1 * SumFunctionOnSet(split, S) = SumFunctionOnSet(share, S) + SumFunctionOnSet(marks, S)
  BY <1>6, SumsAdd, 1 \in Int
<1>8. SumFunctionOnSet(split, S) \in Int /\ SumFunctionOnSet(share, S) \in Int
  BY <1>6, SumIsInt
<1>9. QED
  BY <1>4, <1>7, <1>8

\* A weighted split spends what was typed, to the atom.
LEMMA WeightedAddsUp ==
    ASSUME NEW total \in Nat, NEW weights \in Seq(Nat), SumOf(weights) \in Nat \ {0}
    PROVE  SumOf(splitByWeights(total, weights)) = total
<1> DEFINE S == 1 .. Len(weights)
           W == SumOf(weights)
           whole == [i \in S |-> total * weights[i]]
           share == [i \in S |-> (total * weights[i]) \div W]
           rest == [i \in S |-> (total * weights[i]) % W]
           left == total - SumOf(share)
           split == splitByWeights(total, weights)
           rank == [i \in S |-> Ahead(total, weights, i)]
           Before == {p \in S \X S : \/ rest[p[1]] > rest[p[2]]
                                     \/ rest[p[1]] = rest[p[2]] /\ p[1] < p[2]}
<1>1. /\ Len(weights) \in Nat /\ DOMAIN weights = S
      /\ \A i \in S : weights[i] \in Nat
  BY LenProperties, ElementOfSeq
<1>2. IsFiniteSet(S)
  BY <1>1, OneToN
<1>3. split = [i \in S |-> share[i] + (IF rank[i] < left THEN 1 ELSE 0)]
  BY <1>1 DEF splitByWeights
<1>4. W = SumFunctionOnSet(weights, S) /\ SumOf(share) = SumFunctionOnSet(share, S)
  BY <1>1, SumIs
<1>5. \A i \in S : rank[i] = Cardinality(Preceding(Before, S, i))
  <2> TAKE i \in S
  <2>1. rank[i] =
           Cardinality({j \in S : \/ rest[j] > rest[i]
                                  \/ rest[j] = rest[i] /\ j < i})
    BY <1>1 DEF Ahead
  <2>2. Preceding(Before, S, i) = {j \in S : \/ rest[j] > rest[i]
                                             \/ rest[j] = rest[i] /\ j < i}
    BY DEF Preceding
  <2>3. QED
    BY <2>1, <2>2
<1>6. \A i \in S : /\ whole[i] = total * weights[i]
                   /\ share[i] = (total * weights[i]) \div W
                   /\ rest[i] = (total * weights[i]) % W
  OBVIOUS
<1>7. \A i, j \in S : <<j, i>> \in Before <=> \/ rest[j] > rest[i]
                                              \/ rest[j] = rest[i] /\ j < i
  OBVIOUS
<1>8. W \in Nat \ {0} /\ S \subseteq Nat
  OBVIOUS
<1> HIDE DEF S, W, whole, share, rest, Before, rank, split
<1>9. \A i \in S : /\ weights[i] \in Int /\ whole[i] \in Int /\ share[i] \in Int
                   /\ rest[i] \in 0 .. W - 1
                   /\ total * weights[i] = whole[i]
                   /\ W * share[i] = whole[i] - rest[i]
  <2> TAKE i \in S
  <2>1. total * weights[i] \in Nat /\ weights[i] \in Nat
    BY <1>1, Product
  <2>2. /\ share[i] \in Nat /\ rest[i] \in 0 .. W - 1
        /\ whole[i] = W * share[i] + rest[i] /\ whole[i] \in Nat
    BY <1>6, <1>8, <2>1, DivMod
  <2>3. W * share[i] \in Nat
    BY <1>8, <2>2, Product
  <2>4. W * share[i] = whole[i] - rest[i]
    BY <2>2, <2>3
  <2>5. total * weights[i] = whole[i] /\ weights[i] \in Int /\ whole[i] \in Int /\ share[i] \in Int
    BY <1>6, <2>1, <2>2
  <2>6. QED
    BY <2>2, <2>4, <2>5
<1>10. left \in 0 .. Cardinality(S) /\ left = total - SumFunctionOnSet(share, S)
  <2>1. total \in Int
    OBVIOUS
  <2>2. W = SumFunctionOnSet(weights, S) /\ W \in Nat \ {0}
    BY <1>4, <1>8
  <2>3. total - SumFunctionOnSet(share, S) \in 0 .. Cardinality(S)
    BY <1>2, <1>9, <2>1, <2>2, LittleIsLeft
  <2>4. QED
    BY <1>4, <2>3
<1> HIDE DEF left
<1>11. \A x \in S : share[x] \in Int /\ rest[x] \in Int /\ x \in Int
  BY <1>8, <1>9
<1>12. Ranks(Before, S)
  <2>1. \A x \in S : <<x, x>> \notin Before
    BY <1>7, <1>11
  <2>2. \A x, y \in S : x = y \/ <<x, y>> \in Before \/ <<y, x>> \in Before
    <3> TAKE x, y \in S
    <3>1. rest[x] \in Int /\ rest[y] \in Int /\ x \in Int /\ y \in Int
      BY <1>11
    <3>2. /\ <<x, y>> \in Before <=> (rest[x] > rest[y] \/ (rest[x] = rest[y] /\ x < y))
          /\ <<y, x>> \in Before <=> (rest[y] > rest[x] \/ (rest[y] = rest[x] /\ y < x))
      BY <1>7
    <3>3. QED
      BY <3>1, <3>2
  <2>3. ASSUME NEW x \in S, NEW y \in S, NEW z \in S, <<x, y>> \in Before, <<y, z>> \in Before
        PROVE  <<x, z>> \in Before
    <3>1. /\ rest[x] \in Int /\ rest[y] \in Int /\ rest[z] \in Int
          /\ x \in Int /\ y \in Int /\ z \in Int
      BY <1>11
    <3>2. /\ rest[x] > rest[y] \/ (rest[x] = rest[y] /\ x < y)
          /\ rest[y] > rest[z] \/ (rest[y] = rest[z] /\ y < z)
      BY <1>7, <2>3
    <3>3. rest[x] > rest[z] \/ (rest[x] = rest[z] /\ x < z)
      BY <3>1, <3>2
    <3>4. QED
      BY <1>7, <3>3
  <2>4. QED
    BY <2>1, <2>2, <2>3 DEF Ranks
<1>13. \A x \in S : split[x] = share[x] + (IF rank[x] < left THEN 1 ELSE 0)
  BY <1>3
<1>14. SumFunctionOnSet(split, S) = total
  <2>1. total \in Int
    OBVIOUS
  <2>2. QED
    BY <1>2, <1>5, <1>10, <1>11, <1>12, <1>13, <2>1, LeftGoesToTheFirst
<1>15. SumOf(split) = SumFunctionOnSet(split, S)
  BY <1>3, SumIs
<1>16. QED
  BY <1>14, <1>15 DEF split

\* A basket's plan spends what was typed.
LEMMA BasketAddsUp ==
    ASSUME NEW plan \in PlansOf("basket")
    PROVE  SumOf(plan.atoms) \in Spends
<1>1. PICK c \in Spends \X Baskets \X WeightLists :
         /\ c[3] = <<>> \/ Len(c[3]) = Len(c[2])
         /\ ~ AmountProblem(c[1], c[2], c[3])
         /\ plan = [kind |-> "buy", mints |-> c[2], atoms |-> Split(c[1], c[2], c[3])]
  BY DEF PlansOf, BasketPlans
<1>2. c[1] \in Nat /\ c[1] \in Spends /\ c[2] \in Seq(Mints) \ {<<>>} /\ c[3] \in Seq(Nat)
  BY PurchaseAssumption
<1>3. SumOf(Split(c[1], c[2], c[3])) = c[1]
  <2>1. CASE c[3] = <<>>
    <3>1. Len(c[2]) \in Nat \ {0}
      BY <1>2, EmptySeq
    <3>2. QED
      BY <1>2, <2>1, <3>1, EvenAddsUp DEF Split
  <2>2. CASE c[3] # <<>>
    <3>1. SumOf(c[3]) = 100
      BY <1>1, <2>2 DEF AmountProblem
    <3>2. SumOf(c[3]) \in Nat \ {0}
      BY <3>1
    <3>3. QED
      BY <1>2, <2>2, <3>2, WeightedAddsUp DEF Split
  <2>3. QED
    BY <2>1, <2>2
<1>4. QED
  BY <1>1, <1>2, <1>3

\* While any fee is left to bear the tip, the two together stay within the tier.
LEMMA FeeBearsTheTip ==
    ASSUME NEW constituents \in Nat, NEW atoms \in Nat, HasSender,
           FeeBps(constituents, atoms) > 0
    PROVE  routingFeeAtoms(atoms, FeeBps(constituents, atoms)) + TipUsdcAtoms
              <= routingFeeAtoms(atoms, routingFeeBps(constituents))
<1> DEFINE tier == routingFeeBps(constituents)
           tip == TipUsdcAtoms
           offset == RoundedUp(tip, atoms)
           fee == FeeBps(constituents, atoms)
           charged == routingFeeAtoms(atoms, fee)
<1>1. tier \in 0 .. 25 /\ tip \in Nat /\ fee \in 0 .. 25 /\ fee > 0
  BY FeeInRange, PurchaseAssumption DEF routingFeeBps
<1>2. fee = tier - tipOffsetBps(tip, atoms, tier)
  BY DEF FeeBps
<1> HIDE DEF tier, fee, tip
<1>3. atoms > 0 /\ fee = tier - offset
  BY <1>1, <1>2 DEF tipOffsetBps
<1>4. offset \in Nat /\ tip * 10000 <= atoms * offset
  <2>1. tip * 10000 + atoms - 1 \in Nat
    BY <1>1, <1>3
  <2>2. offset = (tip * 10000 + atoms - 1) \div atoms
    BY DEF RoundedUp, BasisPoints
  <2>3. /\ offset \in Nat
        /\ tip * 10000 + atoms - 1 < atoms * offset + atoms
    <3>1. atoms \in Nat \ {0}
      BY <1>3
    <3>2. \A a \in Nat : /\ a \div atoms \in Nat
                          /\ a < atoms * (a \div atoms) + atoms
      BY <3>1, DivFloor
    <3> HIDE DEF offset
    <3>3. QED
      BY <2>1, <2>2, <3>2
  <2> HIDE DEF offset
  <2>4. atoms * offset \in Nat
    BY <2>3, Product
  <2>5. QED
    BY <1>1, <2>3, <2>4
<1> HIDE DEF offset
<1>5. charged \in Nat /\ 10000 * charged <= atoms * fee
  <2>1. atoms * fee \in Nat
    BY <1>1, Product
  <2>2. charged = (atoms * fee) \div 10000
    BY DEF routingFeeAtoms, BasisPoints
  <2>3. QED
    BY <2>1, <2>2, DivFloor
<1> HIDE DEF charged
<1>6. atoms * fee = atoms * tier - atoms * offset
  BY <1>1, <1>3, <1>4, SMT
<1>7. atoms * tier \in Nat /\ atoms * offset \in Nat
  BY <1>1, <1>4, Product
<1>8. 10000 * (charged + tip) <= atoms * tier
  BY <1>1, <1>4, <1>5, <1>6, <1>7
<1>9. charged + tip <= (atoms * tier) \div 10000
  <2>1. charged + tip \in Int
    BY <1>1, <1>5
  <2>2. QED
    BY <1>7, <1>8, <2>1, FitsFloor
<1>10. QED
  BY <1>9 DEF charged, tier, fee, tip, routingFeeAtoms, BasisPoints

-----------------------------------------------------------------------------
(* Types, part by part.                                                       *)

PageOK ==
    /\ connected \in Wallets
    /\ sheet \in [Surfaces -> [plan: PlanRecords,
                               stage: {"open", "quoting", "review", "signing"},
                               prepared: 0 .. MaxRequests]]

RequestsOK ==
    /\ request \in [Requests -> RequestRecords]
    /\ \A r \in Requests : Len(request[r].legs) = Len(request[r].plan.mints)

PromptsOK == prompt \in [Requests -> [wallet: Wallets, kind: Kinds, mints: Seq(Mints)]]

RecordsOK ==
    /\ record \in [Requests -> [wallet: Wallets, kind: Kinds, mints: Seq(Mints),
                                messages: Seq(Messages), signed: BOOLEAN]]
    /\ posted \subseteq [request: Requests, leg: Nat, accepted: BOOLEAN, at: Nat]

OutsideOK ==
    /\ sol \in [Wallets -> Nat] /\ usdc \in [Wallets -> Nat]
    /\ deployed \in [version: Nat, admitted: SUBSET Mints]
    /\ {now, changes} \subseteq Nat

LEMMA TypeParts == TypeOK <=> PageOK /\ RequestsOK /\ PromptsOK /\ RecordsOK /\ OutsideOK
  BY DEF TypeOK, PageOK, RequestsOK, PromptsOK, RecordsOK, OutsideOK

LEMMA TypeNext ==
    ASSUME PageOK', RequestsOK', PromptsOK', RecordsOK', OutsideOK'
    PROVE  TypeOK'
  BY DEF TypeOK, PageOK, RequestsOK, PromptsOK, RecordsOK, OutsideOK

LEMMA PageKept == ASSUME PageOK, UNCHANGED <<connected, sheet>> PROVE PageOK'
  BY DEF PageOK
LEMMA RequestsKept == ASSUME RequestsOK, UNCHANGED request PROVE RequestsOK'
  BY DEF RequestsOK
LEMMA PromptsKept == ASSUME PromptsOK, UNCHANGED prompt PROVE PromptsOK'
  BY DEF PromptsOK
LEMMA RecordsKept == ASSUME RecordsOK, UNCHANGED <<record, posted>> PROVE RecordsOK'
  BY DEF RecordsOK
LEMMA OutsideKept ==
    ASSUME OutsideOK, UNCHANGED <<sol, usdc, deployed, now, changes>> PROVE OutsideOK'
  BY DEF OutsideOK

LEMMA SheetFields ==
    ASSUME PageOK, NEW s \in Surfaces
    PROVE  /\ sheet[s].plan \in PlanRecords
           /\ sheet[s].stage \in {"open", "quoting", "review", "signing"}
           /\ sheet[s].prepared \in 0 .. MaxRequests
           /\ sheet[s].prepared # 0 => sheet[s].prepared \in Requests
  BY PurchaseAssumption DEF PageOK, Requests

LEMMA PlanFields ==
    ASSUME NEW plan \in PlanRecords
    PROVE  /\ plan.kind \in Kinds /\ plan.mints \in Seq(Mints) /\ plan.atoms \in Seq(Nat)
           /\ Len(plan.atoms) = Len(plan.mints) /\ Len(plan.mints) \in Nat
           /\ DOMAIN plan.mints = 1 .. Len(plan.mints)
           /\ \A i \in DOMAIN plan.mints : plan.mints[i] \in Mints /\ plan.atoms[i] \in Nat
<1>1. /\ plan.kind \in Kinds /\ plan.mints \in Seq(Mints) /\ plan.atoms \in Seq(Nat)
      /\ Len(plan.atoms) = Len(plan.mints)
  BY DEF PlanRecords
<1>2. QED
  BY <1>1, LenProperties, ElementOfSeq

LEMMA RequestFields ==
    ASSUME RequestsOK, NEW r \in Requests
    PROVE  /\ request[r] \in RequestRecords
           /\ request[r].wallet \in Wallets
           /\ request[r].plan \in PlanRecords
           /\ request[r].usdc \in Nat
           /\ request[r].on \in Surfaces \union {"none"}
           /\ request[r].server \in [version: Nat, admitted: SUBSET Mints]
           /\ request[r].legs \in Seq(LegRecords)
           /\ LegsOf(r) = 1 .. Len(request[r].plan.mints)
           /\ Len(request[r].plan.mints) \in Nat
           /\ Len(request[r].legs) = Len(request[r].plan.mints)
<1>1. request[r] \in RequestRecords /\ Len(request[r].legs) = Len(request[r].plan.mints)
  BY DEF RequestsOK
<1>2. request[r].legs \in Seq(LegRecords) /\ request[r].plan \in PlanRecords
  BY <1>1 DEF RequestRecords
<1>3. QED
  BY <1>1, <1>2, LenProperties, PlanFields DEF RequestRecords, LegsOf

LEMMA LegFields ==
    ASSUME RequestsOK, NEW r \in Requests, NEW i \in LegsOf(r)
    PROVE  /\ Leg(r, i) \in LegRecords
           /\ Leg(r, i).message \in Messages
           /\ Leg(r, i).sol \in Nat /\ Leg(r, i).expires \in Nat
           /\ Mint(r, i) \in Mints /\ Atoms(r, i) \in Nat
           /\ i \in 1 .. Len(request[r].legs) /\ i \in Nat
<1>1. Leg(r, i) \in LegRecords /\ i \in 1 .. Len(request[r].legs) /\ i \in Nat
  BY RequestFields, ElementOfSeq DEF Leg
<1>2. Mint(r, i) \in Mints /\ Atoms(r, i) \in Nat
  BY RequestFields, PlanFields DEF Mint, Atoms
<1>3. QED
  BY <1>1, <1>2 DEF LegRecords

\* One leg of one request is another.
LEMMA SetLegKeeps ==
    ASSUME RequestsOK, NEW r \in Requests, NEW i \in LegsOf(r), NEW leg \in LegRecords,
           SetLeg(r, i, leg)
    PROVE  /\ RequestsOK'
           /\ \A q \in Requests \ {r} : request'[q] = request[q]
           /\ request'[r] = [request[r] EXCEPT !.legs[i] = leg]
           /\ LegsOf(r)' = LegsOf(r)
           /\ \A j \in LegsOf(r) : Leg(r, j)' = IF j = i THEN leg ELSE Leg(r, j)
<1> DEFINE legs == [request[r].legs EXCEPT ![i] = leg]
<1>1. /\ request[r] \in RequestRecords /\ request[r].legs \in Seq(LegRecords)
      /\ LegsOf(r) = 1 .. Len(request[r].legs)
      /\ Len(request[r].legs) = Len(request[r].plan.mints)
  BY RequestFields
<1>2. /\ legs \in Seq(LegRecords) /\ Len(legs) = Len(request[r].legs)
      /\ \A j \in 1 .. Len(request[r].legs) : legs[j] = IF j = i THEN leg ELSE request[r].legs[j]
  BY <1>1, ExceptSeq
<1>3. DOMAIN legs = 1 .. Len(request[r].legs)
  BY <1>1, <1>2, LenProperties
<1> HIDE DEF legs
<1>4. /\ request' = [request EXCEPT ![r] = [request[r] EXCEPT !.legs = legs]]
      /\ request \in [Requests -> RequestRecords]
  BY DEF SetLeg, RequestsOK, legs
<1>5. [request[r] EXCEPT !.legs = legs] \in RequestRecords
  BY <1>1, <1>2 DEF RequestRecords
<1>6. /\ request' \in [Requests -> RequestRecords]
      /\ request'[r] = [request[r] EXCEPT !.legs = legs]
      /\ \A q \in Requests \ {r} : request'[q] = request[q]
  BY <1>4, <1>5
<1>7. request'[r].legs = legs /\ request'[r].plan = request[r].plan
  BY <1>1, <1>6 DEF RequestRecords
<1>8. RequestsOK'
  BY <1>1, <1>2, <1>6, <1>7 DEF RequestsOK
<1>9. request'[r] = [request[r] EXCEPT !.legs[i] = leg]
  BY <1>6 DEF legs
<1>10. LegsOf(r)' = LegsOf(r)
  BY <1>1, <1>3, <1>7 DEF LegsOf
<1>11. \A j \in LegsOf(r) : Leg(r, j)' = IF j = i THEN leg ELSE Leg(r, j)
  BY <1>1, <1>2, <1>7 DEF Leg
<1>12. QED
  BY <1>6, <1>8, <1>9, <1>10, <1>11

RequestSteps == {"none", "asked", "preparing", "answered", "refused", "quoted", "over"}

\* A request moves on.
LEMMA StepKeeps ==
    ASSUME RequestsOK, NEW r \in Requests, NEW step \in RequestSteps,
           request' = [request EXCEPT ![r].step = step]
    PROVE  /\ RequestsOK'
           /\ \A q \in Requests \ {r} : request'[q] = request[q]
           /\ request'[r] = [request[r] EXCEPT !.step = step]
           /\ LegsOf(r)' = LegsOf(r)
           /\ \A j : Leg(r, j)' = Leg(r, j)
<1>1. /\ request[r] \in RequestRecords
      /\ Len(request[r].legs) = Len(request[r].plan.mints)
  BY RequestFields
<1>2. [request[r] EXCEPT !.step = step] \in RequestRecords
  BY <1>1 DEF RequestRecords, RequestSteps
<1>3. /\ request' \in [Requests -> RequestRecords]
      /\ request'[r] = [request[r] EXCEPT !.step = step]
      /\ \A q \in Requests \ {r} : request'[q] = request[q]
  BY <1>2 DEF RequestsOK
<1>4. request'[r].legs = request[r].legs /\ request'[r].plan = request[r].plan
  BY <1>1, <1>3 DEF RequestRecords
<1>5. RequestsOK'
  BY <1>3, <1>4 DEF RequestsOK
<1>6. QED
  BY <1>3, <1>4, <1>5 DEF LegsOf, Leg

-----------------------------------------------------------------------------
(* What a step leaves as it was stays sound.                                  *)

LEMMA SameRequest ==
    ASSUME NEW r \in Requests, request'[r] = request[r], RequestSound(r)
    PROVE  RequestSound(r)'
  BY DEF RequestSound, LegSound, LegsOf, Leg, SolNeeded, Received, Mint

\* Nothing is signed, approved or posted, and no quote reaches a page.
LEMMA Frame ==
    ASSUME PurchaseInv, TypeOK',
           \A r \in Requests : \/ request'[r] = request[r]
                               \/ request[r].step # "quoted" /\ RequestSound(r)',
           UNCHANGED <<record, posted>>,
           \A r \in Requests : prompt'[r] \in {prompt[r], NoPrompt},
           \A s \in Surfaces :
              /\ sheet'[s].prepared \in {0, sheet[s].prepared}
              /\ s = "basket" => sheet'[s].plan = NoPlan \/ sheet'[s].plan.kind = "buy"
    PROVE  PurchaseInv'
<1>1. \A r \in Requests : RequestSound(r)'
  BY SameRequest DEF PurchaseInv
<1>2. \A r \in Requests : PromptSound(r)'
  BY DEF PurchaseInv, PromptSound
<1>3. \A r \in Requests : RecordSound(r)'
  <2> SUFFICES ASSUME NEW r \in Requests, record'[r].signed PROVE RecordSound(r)'
    BY DEF RecordSound
  <2>1. RecordSound(r) /\ record'[r] = record[r] /\ request'[r] = request[r]
    BY DEF PurchaseInv, RecordSound
  <2>2. prompt'[r] = NoPrompt
    BY <2>1 DEF RecordSound
  <2>3. \A s \in Surfaces : sheet'[s].prepared # r
    BY <2>1, PurchaseAssumption DEF RecordSound, Requests
  <2>4. /\ LegsOf(r)' = LegsOf(r)
        /\ \A i : Leg(r, i)' = Leg(r, i) /\ WalletReturns(r, i)' = WalletReturns(r, i)
    BY <2>1 DEF LegsOf, Leg, WalletReturns
  <2>5. \A i \in LegsOf(r) :
           /\ record[r].messages[i] \in WalletReturns(r, i)
           /\ ~ walletChanges(Leg(r, i).message, record[r].messages[i])
    BY <2>1 DEF RecordSound
  <2>6. \A i \in LegsOf(r)' :
           /\ record'[r].messages[i] \in WalletReturns(r, i)'
           /\ ~ walletChanges(Leg(r, i)'.message, record'[r].messages[i])
    BY <2>1, <2>4, <2>5
  <2>7. QED
    BY <2>1, <2>2, <2>3, <2>6 DEF RecordSound, walletChanges
<1>4. \A s \in Surfaces : SheetSound(s)'
  <2> SUFFICES ASSUME NEW s \in Surfaces PROVE SheetSound(s)'
    OBVIOUS
  <2>1. SheetSound(s)
    BY DEF PurchaseInv
  <2>2. s = "basket" => sheet'[s].prepared = 0
    BY <2>1 DEF SheetSound
  <2>3. ASSUME sheet'[s].prepared # 0
        PROVE  /\ request'[sheet'[s].prepared].on = s
               /\ request'[sheet'[s].prepared].step = "quoted"
    <3>1. sheet'[s].prepared = sheet[s].prepared
      BY <2>3
    <3>2. sheet[s].prepared \in Requests
      BY <2>3, <3>1, SheetFields, TypeParts DEF PurchaseInv
    <3>3. request[sheet[s].prepared].on = s /\ request[sheet[s].prepared].step = "quoted"
      BY <2>1, <2>3, <3>1 DEF SheetSound
    <3>4. QED
      BY <3>1, <3>2, <3>3
  <2>4. QED
    BY <2>2, <2>3 DEF SheetSound
<1>5. \A p \in posted' : PostSound(p)'
  <2> SUFFICES ASSUME NEW p \in posted PROVE PostSound(p)'
    OBVIOUS
  <2>1. PostSound(p) /\ p.request \in Requests
    BY DEF PurchaseInv, TypeOK
  <2>2. RecordSound(p.request) /\ record[p.request].signed
    BY <2>1 DEF PurchaseInv, PostSound
  <2>3. request'[p.request] = request[p.request] /\ record' = record
    BY <2>1, <2>2 DEF RecordSound
  <2>4. QED
    BY <2>1, <2>3 DEF PostSound, LegsOf, Leg
<1>6. QED
  BY <1>1, <1>2, <1>3, <1>4, <1>5 DEF PurchaseInv

\* On the server nothing but one request changes, and none that was answered.
LEMMA ServerFrame ==
    ASSUME PurchaseInv, NEW r \in Requests, RequestsOK',
           \A q \in Requests \ {r} : request'[q] = request[q],
           request[r].step # "quoted", RequestSound(r)',
           UNCHANGED <<connected, sheet, prompt, record, posted, sol, usdc, deployed, now, changes>>
    PROVE  PurchaseInv'
<1>1. TypeOK'
  BY TypeParts, TypeNext, PageKept, PromptsKept, RecordsKept, OutsideKept DEF PurchaseInv
<1>2. \A s \in Surfaces : s = "basket" => sheet'[s].plan = NoPlan \/ sheet'[s].plan.kind = "buy"
  BY DEF PurchaseInv, SheetSound
<1>3. QED
  BY <1>1, <1>2, Frame

\* A request that ends before it is answered.
LEMMA EndSound ==
    ASSUME PurchaseInv, NEW r \in Requests, NEW step \in {"refused", "over"},
           request' = [request EXCEPT ![r].step = step]
    PROVE  RequestsOK' /\ RequestSound(r)'
<1>1. RequestsOK /\ RequestSound(r)
  BY TypeParts DEF PurchaseInv
<1>2. /\ RequestsOK' /\ LegsOf(r)' = LegsOf(r)
      /\ request'[r] = [request[r] EXCEPT !.step = step]
      /\ \A j : Leg(r, j)' = Leg(r, j)
  BY <1>1, StepKeeps DEF RequestSteps
<1>3. request[r] \in RequestRecords
  BY <1>1, RequestFields
<1>4. /\ request'[r].step = step /\ request'[r].plan = request[r].plan
      /\ request'[r].on = request[r].on
  BY <1>2, <1>3 DEF RequestRecords
<1>5. \A j \in LegsOf(r)' : LegSound(r, j)'
  BY <1>1, <1>2, <1>4 DEF RequestSound, LegSound, SolNeeded, Received, Mint
<1>6. QED
  BY <1>1, <1>2, <1>4, <1>5 DEF RequestSound

LEMMA RefuseKeepsInv ==
    ASSUME PurchaseInv, NEW r \in Requests, request[r].step \in {"asked", "preparing"}, Refuse(r),
           UNCHANGED <<connected, sheet, prompt, record, posted, sol, usdc, deployed, now, changes>>
    PROVE  PurchaseInv'
<1>1. RequestsOK /\ request' = [request EXCEPT ![r].step = "refused"]
  BY TypeParts DEF PurchaseInv, Refuse
<1>2. RequestsOK' /\ RequestSound(r)'
  BY <1>1, EndSound
<1>3. \A q \in Requests \ {r} : request'[q] = request[q]
  BY <1>1, StepKeeps DEF RequestSteps
<1>4. QED
  BY <1>2, <1>3, ServerFrame

\* A leg under way moves on.
LEMMA LegKeepsInv ==
    ASSUME PurchaseInv, NEW r \in Requests, NEW i \in LegsOf(r), NEW leg \in LegRecords,
           request[r].step = "preparing", SetLeg(r, i, leg),
           leg.step \in {"built", "tightened", "ready"}
              => leg.needed = SolNeeded(r, i, leg.message),
           leg.step = "ready" => leg.tested = leg.message /\ leg.expires = Expires(leg.message),
           UNCHANGED <<connected, sheet, prompt, record, posted, sol, usdc, deployed, now, changes>>
    PROVE  PurchaseInv'
<1>1. RequestsOK /\ RequestSound(r)
  BY TypeParts DEF PurchaseInv
<1>2. /\ RequestsOK' /\ LegsOf(r)' = LegsOf(r)
      /\ \A q \in Requests \ {r} : request'[q] = request[q]
      /\ request'[r] = [request[r] EXCEPT !.legs[i] = leg]
      /\ \A j \in LegsOf(r) : Leg(r, j)' = IF j = i THEN leg ELSE Leg(r, j)
  BY <1>1, SetLegKeeps
<1>3. request[r] \in RequestRecords
  BY <1>1, RequestFields
<1>4. /\ request'[r].step = "preparing" /\ request'[r].plan = request[r].plan
      /\ request'[r].on = request[r].on /\ request'[r].usdc = request[r].usdc
  BY <1>2, <1>3 DEF RequestRecords
<1>5. \A j \in LegsOf(r)' : LegSound(r, j)'
  BY <1>1, <1>2, <1>4 DEF RequestSound, LegSound, SolNeeded, Received, Mint
<1>6. RequestSound(r)'
  BY <1>1, <1>4, <1>5 DEF RequestSound
<1>7. QED
  BY <1>2, <1>6, ServerFrame

-----------------------------------------------------------------------------
(* The prepare routes, step by step.                                          *)

LEMMA StartBatchKeepsInv ==
    ASSUME PurchaseInv, NEW r \in Requests, StartBatch(r)
    PROVE  PurchaseInv'
<1> DEFINE held == usdc[request[r].wallet]
           started == [request[r] EXCEPT !.step = "preparing", !.usdc = held, !.server = deployed]
<1>1. RequestsOK /\ OutsideOK /\ RequestSound(r) /\ request[r].step = "asked"
  BY TypeParts DEF PurchaseInv, StartBatch
<1>2. UNCHANGED <<connected, sheet, prompt, record, posted, sol, usdc, deployed, now, changes>>
  BY DEF StartBatch
<1>3. CASE Refuse(r)
  BY <1>1, <1>2, <1>3, RefuseKeepsInv
<1>4. CASE /\ request[r].plan.kind = "buy" => SumOf(request[r].plan.atoms) <= held
           /\ request' = [request EXCEPT ![r].step = "preparing", ![r].usdc = held,
                                         ![r].server = deployed]
  <2>1. /\ request[r] \in RequestRecords
        /\ Len(request[r].legs) = Len(request[r].plan.mints)
        /\ request \in [Requests -> RequestRecords]
    BY <1>1, RequestFields DEF RequestsOK
  <2>2. held \in Nat /\ deployed \in [version: Nat, admitted: SUBSET Mints]
    BY <1>1, RequestFields DEF OutsideOK
  <2> HIDE DEF held
  <2>3. started \in RequestRecords
    BY <2>1, <2>2 DEF RequestRecords
  <2>4. /\ started.plan = request[r].plan /\ started.legs = request[r].legs
        /\ started.step = "preparing" /\ started.usdc = held /\ started.on = request[r].on
    BY <2>1 DEF RequestRecords
  <2>5. request' = [request EXCEPT ![r] = started]
    BY <1>4, <2>1
  <2> HIDE DEF started
  <2>6. /\ request' \in [Requests -> RequestRecords] /\ request'[r] = started
        /\ \A q \in Requests \ {r} : request'[q] = request[q]
    BY <2>1, <2>3, <2>5
  <2>7. RequestsOK'
    BY <1>1, <2>1, <2>4, <2>6 DEF RequestsOK
  <2>8. LegsOf(r)' = LegsOf(r) /\ \A j : Leg(r, j)' = Leg(r, j)
    BY <2>4, <2>6 DEF LegsOf, Leg
  <2>9. \A j \in LegsOf(r)' : LegSound(r, j)'
    BY <1>1, <2>4, <2>6, <2>8 DEF RequestSound, LegSound, SolNeeded, Received, Mint
  <2>10. RequestSound(r)'
    BY <1>1, <1>4, <2>4, <2>6, <2>9 DEF RequestSound
  <2>11. QED
    BY <1>1, <1>2, <2>6, <2>7, <2>10, ServerFrame
<1>5. QED
  BY <1>3, <1>4 DEF StartBatch

LEMMA ReadBeforeKeepsInv ==
    ASSUME PurchaseInv, NEW r \in Requests, NEW i \in LegsOf(r), ReadBefore(r, i)
    PROVE  PurchaseInv'
<1>1. RequestsOK /\ OutsideOK /\ request[r].step = "preparing"
  BY TypeParts DEF PurchaseInv, ReadBefore
<1>2. UNCHANGED <<connected, sheet, prompt, record, posted, sol, usdc, deployed, now, changes>>
  BY DEF ReadBefore
<1>3. CASE Refuse(r)
  BY <1>1, <1>2, <1>3, RefuseKeepsInv
<1>4. ASSUME NEW worth \in Worths(r, i),
             SetLeg(r, i, [Leg(r, i) EXCEPT !.step = "routing",
                                            !.feeBps = FeeBps(Constituents(r), worth),
                                            !.sol = sol[request[r].wallet]])
      PROVE  PurchaseInv'
  <2> DEFINE leg == [Leg(r, i) EXCEPT !.step = "routing",
                                      !.feeBps = FeeBps(Constituents(r), worth),
                                      !.sol = sol[request[r].wallet]]
  <2>1. worth \in Nat
    BY <1>1, LegFields, PurchaseAssumption DEF Worths
  <2>2. Constituents(r) \in Nat
    BY <1>1, RequestFields DEF Constituents
  <2>3. FeeBps(Constituents(r), worth) \in 0 .. 25
    BY <2>1, <2>2, FeeInRange
  <2>4. sol[request[r].wallet] \in Nat
    BY <1>1, RequestFields DEF OutsideOK
  <2>5. Leg(r, i) \in LegRecords
    BY <1>1, LegFields
  <2>6. leg \in LegRecords /\ leg.step = "routing"
    BY <2>3, <2>4, <2>5 DEF LegRecords
  <2>7. SetLeg(r, i, leg)
    BY <1>4
  <2> HIDE DEF leg
  <2>8. QED
    BY <1>1, <1>2, <2>6, <2>7, LegKeepsInv
<1>5. QED
  BY <1>3, <1>4 DEF ReadBefore

LEMMA SolNeededIsNat ==
    ASSUME RequestsOK, NEW r \in Requests, NEW i \in LegsOf(r), NEW message \in Messages
    PROVE  SolNeeded(r, i, message) \in Nat
<1>1. Received(r, i) \in Mints \union {"USDC"}
  BY LegFields DEF Received
<1>2. Rent[Received(r, i)] \in Nat /\ SignatureFee \in Nat /\ TipLamports \in Nat
  BY <1>1, PurchaseAssumption
<1>3. message.fee \in Nat
  BY DEF Messages
<1>4. QED
  BY <1>2, <1>3 DEF SolNeeded

\* What Jupiter built is a message, and only Sender's pays a tip.
LEMMA BuiltIsAMessage ==
    ASSUME RequestsOK, OutsideOK, NEW r \in Requests, NEW i \in LegsOf(r), NEW built \in Builds(r, i)
    PROVE  built \in Messages /\ (built.tip => HasSender)
<1>1. <<r, i, Leg(r, i).avoided>> \in Requests \X Nat \X BOOLEAN
  BY LegFields DEF LegRecords
<1>2. /\ built.trade = <<r, i, Leg(r, i).avoided>>
      /\ built \in [trade: {<<r, i, Leg(r, i).avoided>>}, hash: {now}, fee: PriorityFees,
                    tip: IF HasSender THEN BOOLEAN ELSE {FALSE}, limit: {"ceiling", "none"}]
  BY DEF Builds
<1>3. now \in Nat /\ built.fee \in Nat
  BY <1>2, PurchaseAssumption DEF OutsideOK
<1>4. built.tip => HasSender
  BY <1>2
<1>5. QED
  BY <1>1, <1>2, <1>3, <1>4 DEF Messages

LEMMA RouteKeepsInv ==
    ASSUME PurchaseInv, NEW r \in Requests, NEW i \in LegsOf(r), Route(r, i)
    PROVE  PurchaseInv'
<1>1. RequestsOK /\ OutsideOK /\ request[r].step = "preparing"
  BY TypeParts DEF PurchaseInv, Route
<1>2. UNCHANGED <<connected, sheet, prompt, record, posted, sol, usdc, deployed, now, changes>>
  BY DEF Route
<1>3. CASE Refuse(r)
  BY <1>1, <1>2, <1>3, RefuseKeepsInv
<1>4. ASSUME NEW built \in Builds(r, i),
             SetLeg(r, i, [Leg(r, i) EXCEPT !.step = "built", !.message = built,
                                            !.needed = SolNeeded(r, i, built)])
      PROVE  PurchaseInv'
  <2> DEFINE leg == [Leg(r, i) EXCEPT !.step = "built", !.message = built,
                                      !.needed = SolNeeded(r, i, built)]
  <2>1. Leg(r, i) \in LegRecords /\ i \in Nat
    BY <1>1, LegFields
  <2>2. built \in Messages
    BY <1>1, BuiltIsAMessage
  <2>3. SolNeeded(r, i, built) \in Nat
    BY <1>1, <2>2, SolNeededIsNat
  <2>4. /\ leg \in LegRecords /\ leg.step = "built" /\ leg.message = built
        /\ leg.needed = SolNeeded(r, i, built)
    BY <2>1, <2>2, <2>3 DEF LegRecords
  <2>5. SetLeg(r, i, leg)
    BY <1>4
  <2> HIDE DEF leg
  <2>6. QED
    BY <1>1, <1>2, <2>4, <2>5, LegKeepsInv
<1>5. QED
  BY <1>3, <1>4 DEF Route

\* A leg that is built again needs what it needed.
LEMMA TightenedIsALeg ==
    ASSUME NEW leg \in LegRecords
    PROVE  /\ Tightened(leg) \in LegRecords
           /\ Tightened(leg).step = "tightened" /\ Tightened(leg).needed = leg.needed
           /\ Tightened(leg).message.fee = leg.message.fee
           /\ Tightened(leg).message.tip = leg.message.tip
<1> DEFINE message == [leg.message EXCEPT !.limit = "measured"]
<1>1. leg.message \in Messages
  BY DEF LegRecords
<1>2. message \in Messages /\ message.fee = leg.message.fee /\ message.tip = leg.message.tip
  BY <1>1 DEF Messages
<1>3. Tightened(leg) = [leg EXCEPT !.step = "tightened", !.message = message]
  BY DEF Tightened, LegRecords
<1> HIDE DEF message
<1>4. QED
  BY <1>2, <1>3 DEF LegRecords

LEMMA ApprovedIsALeg ==
    ASSUME NEW leg \in LegRecords
    PROVE  /\ Approved(leg) \in LegRecords
           /\ Approved(leg).step = "ready" /\ Approved(leg).needed = leg.needed
           /\ Approved(leg).message = leg.message /\ Approved(leg).tested = leg.message
           /\ Approved(leg).expires = Expires(leg.message)
<1>1. leg.message \in Messages /\ leg.message.hash \in Nat
  BY DEF LegRecords, Messages
<1>2. Expires(leg.message) \in Nat
  BY <1>1, PurchaseAssumption DEF Expires
<1>3. QED
  BY <1>1, <1>2 DEF Approved, LegRecords

LEMMA SimulatesKeepsInv ==
    ASSUME PurchaseInv, NEW r \in Requests, NEW i \in LegsOf(r), Simulates(r, i)
    PROVE  PurchaseInv'
<1> DEFINE leg == Leg(r, i)
<1>1. /\ RequestsOK /\ request[r].step = "preparing" /\ LegSound(r, i)
      /\ leg.step \in {"built", "tightened"}
  BY TypeParts DEF PurchaseInv, RequestSound, Simulates
<1>2. UNCHANGED <<connected, sheet, prompt, record, posted, sol, usdc, deployed, now, changes>>
  BY DEF Simulates
<1>3. leg \in LegRecords /\ leg.needed = SolNeeded(r, i, leg.message)
  BY <1>1, LegFields DEF LegSound
<1>4. CASE SetLeg(r, i, Tightened(leg))
  <2>1. SolNeeded(r, i, Tightened(leg).message) = SolNeeded(r, i, leg.message)
    BY <1>3, TightenedIsALeg DEF SolNeeded
  <2>2. QED
    BY <1>1, <1>2, <1>3, <1>4, <2>1, TightenedIsALeg, LegKeepsInv
<1>5. CASE SetLeg(r, i, Approved(leg))
  BY <1>1, <1>2, <1>3, <1>5, ApprovedIsALeg, LegKeepsInv
<1>6. CASE Refuse(r)
  BY <1>1, <1>2, <1>6, RefuseKeepsInv
<1>7. QED
  BY <1>4, <1>5, <1>6 DEF Simulates

LEMMA SimulationFailsKeepsInv ==
    ASSUME PurchaseInv, NEW r \in Requests, NEW i \in LegsOf(r), SimulationFails(r, i)
    PROVE  PurchaseInv'
<1> DEFINE leg == [Avoided(Leg(r, i)) EXCEPT !.step = "routing"]
<1>1. RequestsOK /\ request[r].step = "preparing"
  BY TypeParts DEF PurchaseInv, SimulationFails
<1>2. UNCHANGED <<connected, sheet, prompt, record, posted, sol, usdc, deployed, now, changes>>
  BY DEF SimulationFails
<1>3. CASE Refuse(r)
  BY <1>1, <1>2, <1>3, RefuseKeepsInv
<1>4. CASE SetLeg(r, i, leg)
  <2>1. leg \in LegRecords /\ leg.step = "routing"
    BY <1>1, LegFields DEF Avoided, LegRecords
  <2> HIDE DEF leg
  <2>2. QED
    BY <1>1, <1>2, <1>4, <2>1, LegKeepsInv
<1>5. QED
  BY <1>3, <1>4 DEF SimulationFails

LEMMA FinishBatchKeepsInv ==
    ASSUME PurchaseInv, NEW r \in Requests, FinishBatch(r)
    PROVE  PurchaseInv'
<1>1. /\ RequestsOK /\ RequestSound(r) /\ request[r].step = "preparing"
      /\ \A i \in LegsOf(r) : Leg(r, i).step = "ready"
  BY TypeParts DEF PurchaseInv, FinishBatch
<1>2. UNCHANGED <<connected, sheet, prompt, record, posted, sol, usdc, deployed, now, changes>>
  BY DEF FinishBatch
<1>3. CASE Refuse(r)
  BY <1>1, <1>2, <1>3, RefuseKeepsInv
<1>4. CASE request' = [request EXCEPT ![r].step = "answered"]
  <2>1. /\ RequestsOK' /\ LegsOf(r)' = LegsOf(r)
        /\ \A q \in Requests \ {r} : request'[q] = request[q]
        /\ request'[r] = [request[r] EXCEPT !.step = "answered"]
        /\ \A j : Leg(r, j)' = Leg(r, j)
    BY <1>1, <1>4, StepKeeps DEF RequestSteps
  <2>2. request[r] \in RequestRecords
    BY <1>1, RequestFields
  <2>3. /\ request'[r].step = "answered" /\ request'[r].plan = request[r].plan
        /\ request'[r].on = request[r].on
    BY <2>1, <2>2 DEF RequestRecords
  <2>4. \A j \in LegsOf(r)' : LegSound(r, j)'
    BY <1>1, <2>1, <2>3 DEF RequestSound, LegSound, SolNeeded, Received, Mint
  <2>5. RequestSound(r)'
    BY <1>1, <2>1, <2>3, <2>4 DEF RequestSound
  <2>6. QED
    BY <1>1, <1>2, <2>1, <2>5, ServerFrame
<1>5. QED
  BY <1>3, <1>4 DEF FinishBatch

-----------------------------------------------------------------------------
(* What happens around them.                                                  *)

LEMMA SheetsAreSound ==
    ASSUME PurchaseInv
    PROVE  \A s \in Surfaces :
              s = "basket" => /\ sheet[s].prepared = 0
                              /\ sheet[s].plan = NoPlan \/ sheet[s].plan.kind = "buy"
  BY DEF PurchaseInv, SheetSound

LEMMA OutsideKeepsInv ==
    ASSUME PurchaseInv, Redeploy \/ Tick \/ (\E w \in Wallets : Switch(w) \/ Spend(w))
    PROVE  PurchaseInv'
<1>1. PageOK /\ RequestsOK /\ PromptsOK /\ RecordsOK /\ OutsideOK
  BY TypeParts DEF PurchaseInv
<1>2. /\ UNCHANGED <<sheet, request, prompt, record, posted>>
      /\ connected' \in Wallets
  BY <1>1 DEF Redeploy, Tick, Switch, Spend, PageOK
<1>3. OutsideOK'
  <2>1. ASSUME NEW w \in Wallets, Spend(w) PROVE OutsideOK'
    BY <1>1, <2>1 DEF OutsideOK, Spend
  <2>2. ASSUME NEW w \in Wallets, Switch(w) PROVE OutsideOK'
    BY <1>1, <2>2 DEF OutsideOK, Switch
  <2>3. CASE Redeploy
    <3>1. PICK admitted \in SUBSET deployed.admitted :
             deployed' = [version |-> deployed.version + 1, admitted |-> admitted]
      BY <2>3 DEF Redeploy
    <3>2. deployed' \in [version: Nat, admitted: SUBSET Mints]
      BY <1>1, <3>1 DEF OutsideOK
    <3>3. QED
      BY <1>1, <2>3, <3>2 DEF OutsideOK, Redeploy
  <2>4. CASE Tick
    BY <1>1, <2>4 DEF OutsideOK, Tick
  <2>5. QED
    BY <2>1, <2>2, <2>3, <2>4
<1>4. PageOK'
  BY <1>1, <1>2 DEF PageOK
<1>5. TypeOK'
  BY <1>1, <1>2, <1>3, <1>4, TypeNext, RequestsKept, PromptsKept, RecordsKept
<1>6. QED
  BY <1>2, <1>5, SheetsAreSound, Frame

-----------------------------------------------------------------------------
(* The pages, step by step.                                                   *)

Sheets == [plan: PlanRecords, stage: {"open", "quoting", "review", "signing"},
           prepared: 0 .. MaxRequests]

LEMMA NoPlanIsARecord == NoPlan \in PlanRecords
  BY EmptySeq DEF NoPlan, PlanRecords, Kinds

LEMMA ClosedIsASheet == Closed \in Sheets
  BY NoPlanIsARecord, PurchaseAssumption DEF Closed, Sheets

\* A sheet is replaced by another.
LEMMA SetSheet ==
    ASSUME PageOK, NEW s \in Surfaces, NEW new \in Sheets,
           sheet' = [sheet EXCEPT ![s] = new], UNCHANGED connected
    PROVE  /\ PageOK' /\ sheet'[s] = new
           /\ \A t \in Surfaces \ {s} : sheet'[t] = sheet[t]
  BY DEF PageOK, Sheets

LEMMA ChooseKeepsInv ==
    ASSUME PurchaseInv, NEW s \in Surfaces, NEW plan \in PlansOf(s), Choose(s, plan)
    PROVE  PurchaseInv'
<1> DEFINE new == [plan |-> plan, stage |-> "open", prepared |-> 0]
<1>1. PageOK /\ RequestsOK /\ PromptsOK /\ RecordsOK /\ OutsideOK
  BY TypeParts DEF PurchaseInv
<1>2. plan \in PlanRecords /\ (s = "basket" => plan.kind = "buy")
  BY PlansAreRecords
<1>3. new \in Sheets
  BY <1>2, PurchaseAssumption DEF Sheets
<1>4. /\ UNCHANGED <<connected, request, prompt, record, posted, sol, usdc, deployed, now, changes>>
      /\ sheet' = [sheet EXCEPT ![s] = new]
  BY DEF Choose
<1>5. PageOK' /\ sheet'[s] = new /\ \A t \in Surfaces \ {s} : sheet'[t] = sheet[t]
  BY <1>1, <1>3, <1>4, SetSheet
<1>6. TypeOK'
  BY <1>1, <1>4, <1>5, TypeNext, RequestsKept, PromptsKept, RecordsKept, OutsideKept
<1>7. QED
  BY <1>2, <1>4, <1>5, <1>6, SheetsAreSound, Frame

LEMMA CloseKeepsInv ==
    ASSUME PurchaseInv, NEW s \in Surfaces, Close(s)
    PROVE  PurchaseInv'
<1>1. PageOK /\ RequestsOK /\ PromptsOK /\ RecordsOK /\ OutsideOK
  BY TypeParts DEF PurchaseInv
<1>2. /\ UNCHANGED <<connected, request, prompt, record, posted, sol, usdc, deployed, now, changes>>
      /\ sheet' = [sheet EXCEPT ![s] = Closed] /\ s # "basket"
  BY DEF Close
<1>3. PageOK' /\ sheet'[s] = Closed /\ \A t \in Surfaces \ {s} : sheet'[t] = sheet[t]
  BY <1>1, <1>2, ClosedIsASheet, SetSheet
<1>4. TypeOK'
  BY <1>1, <1>2, <1>3, TypeNext, RequestsKept, PromptsKept, RecordsKept, OutsideKept
<1>5. Closed.prepared = 0
  BY DEF Closed
<1>6. QED
  BY <1>2, <1>3, <1>4, <1>5, SheetsAreSound, Frame

LEMMA AskedIsARequest ==
    ASSUME NEW s \in Surfaces, NEW plan \in PlanRecords, NEW w \in Wallets
    PROVE  LET asked == [step |-> "asked", on |-> s, wallet |-> w, plan |-> plan, usdc |-> 0,
                         server |-> NoServer, legs |-> [i \in DOMAIN plan.mints |-> Waiting]]
           IN  /\ asked \in RequestRecords /\ Len(asked.legs) = Len(plan.mints)
               /\ asked.step = "asked" /\ asked.plan = plan /\ asked.on = s
               /\ \A i \in DOMAIN asked.legs : asked.legs[i].step = "waiting"
<1> DEFINE legs == [i \in DOMAIN plan.mints |-> Waiting]
<1>1. Waiting \in LegRecords /\ Waiting.step = "waiting"
  <2>1. NoMessage \in Messages
    BY DEF NoMessage, Messages
  <2>2. QED
    BY <2>1 DEF Waiting, LegRecords
<1>2. legs \in [1 .. Len(plan.mints) -> LegRecords] /\ Len(plan.mints) \in Nat
  BY <1>1, PlanFields
<1>3. legs \in Seq(LegRecords) /\ Len(legs) = Len(plan.mints)
  BY <1>2, SeqOfFunction
<1>4. \A i \in DOMAIN legs : legs[i].step = "waiting"
  BY <1>1
<1> HIDE DEF legs
<1>5. NoServer \in [version: Nat, admitted: SUBSET Mints]
  BY DEF NoServer
<1>6. [step |-> "asked", on |-> s, wallet |-> w, plan |-> plan, usdc |-> 0,
       server |-> NoServer, legs |-> legs] \in RequestRecords
  BY <1>3, <1>5 DEF RequestRecords
<1>7. QED
  BY <1>3, <1>4, <1>6 DEF legs

LEMMA AskKeepsInv ==
    ASSUME PurchaseInv, NEW s \in Surfaces, NEW r \in Requests, Ask(s, r)
    PROVE  PurchaseInv'
<1> DEFINE kept == IF s = "sale" THEN 0 ELSE sheet[s].prepared
           new == [sheet[s] EXCEPT !.stage = "quoting", !.prepared = kept]
           asked == [step |-> "asked", on |-> s, wallet |-> connected, plan |-> sheet[s].plan,
                     usdc |-> 0, server |-> NoServer,
                     legs |-> [i \in DOMAIN sheet[s].plan.mints |-> Waiting]]
<1>1. PageOK /\ RequestsOK /\ PromptsOK /\ RecordsOK /\ OutsideOK
  BY TypeParts DEF PurchaseInv
<1>2. /\ UNCHANGED <<connected, prompt, record, posted, sol, usdc, deployed, now, changes>>
      /\ request' = [request EXCEPT ![r] = asked]
      /\ request[r].step = "none" /\ sheet[s].plan # NoPlan
  BY DEF Ask
<1>3. sheet[s] \in Sheets
  BY <1>1 DEF PageOK, Sheets
<1>4. sheet' = [sheet EXCEPT ![s] = new]
  BY <1>1, <1>3 DEF Ask, Sheets, PageOK
<1>5. /\ new \in Sheets /\ new.plan = sheet[s].plan
      /\ new.prepared \in {0, sheet[s].prepared}
  <2>1. kept \in 0 .. MaxRequests /\ kept \in {0, sheet[s].prepared}
    BY <1>3, PurchaseAssumption DEF Sheets
  <2> HIDE DEF kept
  <2>2. QED
    BY <1>3, <2>1 DEF Sheets
<1>6. /\ asked \in RequestRecords /\ Len(asked.legs) = Len(sheet[s].plan.mints)
      /\ asked.step = "asked" /\ asked.plan = sheet[s].plan /\ asked.on = s
      /\ \A i \in DOMAIN asked.legs : asked.legs[i].step = "waiting"
  <2>1. sheet[s].plan \in PlanRecords /\ connected \in Wallets
    BY <1>1, SheetFields DEF PageOK
  <2>2. QED
    BY <2>1, AskedIsARequest
<1> HIDE DEF new, asked
<1>7. /\ request'[r] = asked /\ \A q \in Requests \ {r} : request'[q] = request[q]
      /\ request' \in [Requests -> RequestRecords]
  BY <1>1, <1>2, <1>6 DEF RequestsOK
<1>8. RequestsOK'
  BY <1>1, <1>6, <1>7 DEF RequestsOK
<1>9. PageOK' /\ sheet'[s] = new /\ \A t \in Surfaces \ {s} : sheet'[t] = sheet[t]
  BY <1>1, <1>2, <1>4, <1>5, SetSheet
<1>10. TypeOK'
  BY <1>1, <1>2, <1>8, <1>9, TypeNext, PromptsKept, RecordsKept, OutsideKept
<1>11. RequestSound(r)'
  <2>1. \A i \in LegsOf(r)' : Leg(r, i)'.step = "waiting"
    BY <1>6, <1>7 DEF LegsOf, Leg
  <2>2. \A i \in LegsOf(r)' : LegSound(r, i)'
    BY <2>1 DEF LegSound
  <2>3. s = "basket" => sheet[s].plan.kind = "buy"
    BY <1>2, SheetsAreSound
  <2>4. QED
    BY <1>6, <1>7, <2>2, <2>3 DEF RequestSound
<1>12. \A t \in Surfaces :
          /\ sheet'[t].prepared \in {0, sheet[t].prepared}
          /\ t = "basket" => sheet'[t].plan = NoPlan \/ sheet'[t].plan.kind = "buy"
  BY <1>5, <1>9, SheetsAreSound
<1>13. QED
  BY <1>2, <1>7, <1>10, <1>11, <1>12, Frame

Stages == {"open", "quoting", "review", "signing"}

\* A sheet stands on what it stood on, at another stage.
LEMMA SetStage ==
    ASSUME PageOK, NEW s, NEW stage \in Stages,
           sheet' = [sheet EXCEPT ![s].stage = stage], UNCHANGED connected
    PROVE  /\ PageOK'
           /\ \A t \in Surfaces : /\ sheet'[t].plan = sheet[t].plan
                                  /\ sheet'[t].prepared = sheet[t].prepared
<1>1. sheet \in [Surfaces -> Sheets]
  BY DEF PageOK, Sheets
<1>2. \A t \in Surfaces : [sheet[t] EXCEPT !.stage = stage] \in Sheets
  BY <1>1 DEF Sheets, Stages
<1>3. sheet' \in [Surfaces -> Sheets]
  BY <1>1, <1>2
<1>4. \A t \in Surfaces : sheet'[t] = sheet[t] \/ sheet'[t] = [sheet[t] EXCEPT !.stage = stage]
  BY <1>1
<1>5. QED
  BY <1>1, <1>3, <1>4 DEF PageOK, Sheets

LEMMA SignedStays ==
    ASSUME PurchaseInv, NEW r \in Requests, record'[r] = record[r],
           record[r].signed => /\ request'[r] = request[r] /\ prompt'[r] = NoPrompt
                               /\ \A s \in Surfaces : sheet'[s].prepared # r
    PROVE  RecordSound(r)'
<1> SUFFICES ASSUME record[r].signed PROVE RecordSound(r)'
  BY DEF RecordSound
<1>1. RecordSound(r)
  BY DEF PurchaseInv
<1>2. request'[r] = request[r] /\ LegsOf(r)' = LegsOf(r)
  BY DEF LegsOf
<1>3. \A i : Leg(r, i)' = Leg(r, i) /\ WalletReturns(r, i)' = WalletReturns(r, i)
  BY <1>2 DEF Leg, WalletReturns
<1>4. \A i \in LegsOf(r) :
         /\ record[r].messages[i] \in WalletReturns(r, i)
         /\ ~ walletChanges(Leg(r, i).message, record[r].messages[i])
  BY <1>1 DEF RecordSound
<1>5. \A i \in LegsOf(r)' :
         /\ record'[r].messages[i] \in WalletReturns(r, i)'
         /\ ~ walletChanges(Leg(r, i)'.message, record'[r].messages[i])
  BY <1>2, <1>3, <1>4
<1>6. QED
  BY <1>1, <1>2, <1>5 DEF RecordSound, walletChanges

LEMMA PostsStay ==
    ASSUME PurchaseInv, NEW p \in posted,
           \A r \in Requests : record[r].signed => /\ record'[r] = record[r]
                                                   /\ request'[r] = request[r]
    PROVE  PostSound(p)'
<1>1. PostSound(p) /\ p.request \in Requests
  BY DEF PurchaseInv, TypeOK
<1>2. record'[p.request] = record[p.request] /\ request'[p.request] = request[p.request]
  BY <1>1 DEF PostSound
<1>3. QED
  BY <1>1, <1>2 DEF PostSound, LegsOf, Leg

LEMMA SheetStays ==
    ASSUME PurchaseInv, NEW s \in Surfaces,
           sheet'[s].prepared \in {0, sheet[s].prepared},
           s = "basket" => sheet'[s].plan = NoPlan \/ sheet'[s].plan.kind = "buy",
           \A r \in Requests : request[r].step = "quoted" => request'[r] = request[r]
    PROVE  SheetSound(s)'
<1>1. SheetSound(s)
  BY DEF PurchaseInv
<1>2. s = "basket" => sheet'[s].prepared = 0
  BY <1>1 DEF SheetSound
<1>3. ASSUME sheet'[s].prepared # 0
      PROVE  /\ request'[sheet'[s].prepared].on = s
             /\ request'[sheet'[s].prepared].step = "quoted"
  <2>1. sheet'[s].prepared = sheet[s].prepared /\ sheet[s].prepared \in Requests
    BY <1>3, SheetFields, TypeParts DEF PurchaseInv
  <2>2. request[sheet[s].prepared].on = s /\ request[sheet[s].prepared].step = "quoted"
    BY <1>1, <1>3, <2>1 DEF SheetSound
  <2>3. QED
    BY <2>1, <2>2
<1>4. QED
  BY <1>2, <1>3 DEF SheetSound

LEMMA LoseAnswerKeepsInv ==
    ASSUME PurchaseInv, NEW r \in Requests, LoseAnswer(r)
    PROVE  PurchaseInv'
<1>1. PageOK /\ RequestsOK /\ PromptsOK /\ RecordsOK /\ OutsideOK
  BY TypeParts DEF PurchaseInv
<1>2. /\ UNCHANGED <<connected, prompt, record, posted, sol, usdc, deployed, now, changes>>
      /\ request' = [request EXCEPT ![r].step = "over"]
      /\ sheet' = [sheet EXCEPT ![request[r].on].stage = "open"]
      /\ request[r].step # "quoted"
  BY DEF LoseAnswer
<1>3. RequestsOK' /\ RequestSound(r)'
  BY <1>2, EndSound
<1>4. \A q \in Requests \ {r} : request'[q] = request[q]
  BY <1>1, <1>2, StepKeeps DEF RequestSteps
<1>5. PageOK' /\ \A t \in Surfaces : /\ sheet'[t].plan = sheet[t].plan
                                     /\ sheet'[t].prepared = sheet[t].prepared
  BY <1>1, <1>2, SetStage DEF Stages
<1>6. TypeOK'
  BY <1>1, <1>2, <1>3, <1>5, TypeNext, PromptsKept, RecordsKept, OutsideKept
<1>7. QED
  BY <1>2, <1>3, <1>4, <1>5, <1>6, SheetsAreSound, Frame

LEMMA NoPromptIsAPrompt == NoPrompt \in [wallet: Wallets, kind: Kinds, mints: Seq(Mints)]
<1>1. AnyWallet \in Wallets
  BY PurchaseAssumption DEF AnyWallet
<1>2. QED
  BY <1>1, EmptySeq DEF NoPrompt, Kinds

LEMMA NotSentKeepsInv ==
    ASSUME PurchaseInv, NEW r \in Requests, NotSent(r)
    PROVE  PurchaseInv'
<1> DEFINE s == request[r].on
<1>1. PageOK /\ RequestsOK /\ PromptsOK /\ RecordsOK /\ OutsideOK
  BY TypeParts DEF PurchaseInv
<1>2. /\ UNCHANGED <<connected, request, record, posted, sol, usdc, deployed, now, changes>>
      /\ prompt' = [prompt EXCEPT ![r] = NoPrompt]
      /\ \/ sheet' = sheet
         \/ sheet' = [sheet EXCEPT ![s].stage = "open"]
         \/ sheet' = [sheet EXCEPT ![s].stage = "review"]
  BY DEF NotSent
<1>3. PageOK' /\ \A t \in Surfaces : /\ sheet'[t].plan = sheet[t].plan
                                     /\ sheet'[t].prepared = sheet[t].prepared
  <2>1. CASE sheet' = sheet
    BY <1>1, <1>2, <2>1, PageKept
  <2>2. CASE sheet' = [sheet EXCEPT ![s].stage = "open"]
    BY <1>1, <1>2, <2>2, SetStage DEF Stages
  <2>3. CASE sheet' = [sheet EXCEPT ![s].stage = "review"]
    BY <1>1, <1>2, <2>3, SetStage DEF Stages
  <2>4. QED
    BY <1>2, <2>1, <2>2, <2>3
<1>4. PromptsOK' /\ \A q \in Requests : prompt'[q] \in {prompt[q], NoPrompt}
  BY <1>1, <1>2, NoPromptIsAPrompt DEF PromptsOK
<1>5. TypeOK'
  BY <1>1, <1>2, <1>3, <1>4, TypeNext, RequestsKept, RecordsKept, OutsideKept
<1>6. QED
  BY <1>2, <1>3, <1>4, <1>5, SheetsAreSound, Frame

\* An answer is taken with the legs it holds.
LEMMA QuotedSound ==
    ASSUME PurchaseInv, NEW r \in Requests, request[r].step = "answered",
           request' = [request EXCEPT ![r].step = "quoted"]
    PROVE  /\ RequestsOK' /\ RequestSound(r)'
           /\ request'[r] = [request[r] EXCEPT !.step = "quoted"]
           /\ request'[r].step = "quoted" /\ request'[r].plan = request[r].plan
           /\ request'[r].on = request[r].on /\ request'[r].wallet = request[r].wallet
           /\ \A q \in Requests \ {r} : request'[q] = request[q]
<1>1. RequestsOK /\ RequestSound(r)
  BY TypeParts DEF PurchaseInv
<1>2. /\ RequestsOK' /\ LegsOf(r)' = LegsOf(r)
      /\ request'[r] = [request[r] EXCEPT !.step = "quoted"]
      /\ \A q \in Requests \ {r} : request'[q] = request[q]
      /\ \A j : Leg(r, j)' = Leg(r, j)
  BY <1>1, StepKeeps DEF RequestSteps
<1>3. request[r] \in RequestRecords
  BY <1>1, RequestFields
<1>4. /\ request'[r].step = "quoted" /\ request'[r].plan = request[r].plan
      /\ request'[r].on = request[r].on /\ request'[r].wallet = request[r].wallet
  BY <1>2, <1>3 DEF RequestRecords
<1>5. \A j \in LegsOf(r)' : LegSound(r, j)'
  BY <1>1, <1>2, <1>4 DEF RequestSound, LegSound, SolNeeded, Received, Mint
<1>6. RequestSound(r)'
  BY <1>1, <1>2, <1>4, <1>5 DEF RequestSound
<1>7. QED
  BY <1>2, <1>4, <1>6

\* The basket asks for the signatures of the plan it asked with.
LEMMA BasketAsksKeepsInv ==
    ASSUME PurchaseInv, NEW r \in Requests, request[r].step = "answered",
           request' = [request EXCEPT ![r].step = "quoted"],
           AskToSign(r, request[r].plan),
           sheet' = [sheet EXCEPT ![request[r].on].stage = "signing"],
           UNCHANGED <<connected, record, posted, sol, usdc, deployed, now, changes>>
    PROVE  PurchaseInv'
<1> DEFINE asked == [wallet |-> request[r].wallet, kind |-> request[r].plan.kind,
                     mints |-> request[r].plan.mints]
<1>1. PageOK /\ RequestsOK /\ PromptsOK /\ RecordsOK /\ OutsideOK
  BY TypeParts DEF PurchaseInv
<1>2. /\ RequestsOK' /\ RequestSound(r)'
      /\ request'[r].step = "quoted" /\ request'[r].plan = request[r].plan
      /\ request'[r].on = request[r].on /\ request'[r].wallet = request[r].wallet
      /\ \A q \in Requests \ {r} : request'[q] = request[q]
  BY QuotedSound
<1>3. asked \in [wallet: Wallets, kind: Kinds, mints: Seq(Mints)]
  BY <1>1, RequestFields, PlanFields
<1>4. /\ PromptsOK' /\ prompt'[r] = asked
      /\ \A q \in Requests \ {r} : prompt'[q] = prompt[q]
  BY <1>1, <1>3 DEF AskToSign, PromptsOK
<1>5. PageOK' /\ \A t \in Surfaces : /\ sheet'[t].plan = sheet[t].plan
                                     /\ sheet'[t].prepared = sheet[t].prepared
  BY <1>1, SetStage DEF Stages
<1>6. TypeOK'
  BY <1>1, <1>2, <1>4, <1>5, TypeNext, RecordsKept, OutsideKept
<1>7. \A q \in Requests : record[q].signed => q # r
  BY DEF PurchaseInv, RecordSound
<1>8. \A q \in Requests : RequestSound(q)'
  BY <1>2, SameRequest DEF PurchaseInv
<1>9. \A q \in Requests : PromptSound(q)'
  BY <1>2, <1>4 DEF PurchaseInv, PromptSound
<1>10. \A q \in Requests : RecordSound(q)'
  <2> TAKE q \in Requests
  <2>1. record[q].signed => /\ request'[q] = request[q] /\ prompt'[q] = NoPrompt
                            /\ \A s \in Surfaces : sheet'[s].prepared # q
    BY <1>2, <1>4, <1>5, <1>7 DEF PurchaseInv, RecordSound
  <2>2. QED
    BY <2>1, SignedStays
<1>11. \A s \in Surfaces : SheetSound(s)'
  BY <1>2, <1>5, SheetsAreSound, SheetStays
<1>12. \A p \in posted' : PostSound(p)'
  BY <1>2, <1>7, PostsStay
<1>13. QED
  BY <1>6, <1>8, <1>9, <1>10, <1>11, <1>12 DEF PurchaseInv

\* A sheet shows the quotes, whatever it now stands on.
LEMMA SheetShowsKeepsInv ==
    ASSUME PurchaseInv, NEW r \in Requests, request[r].step = "answered",
           request' = [request EXCEPT ![r].step = "quoted"], request[r].on # "basket",
           sheet' = [sheet EXCEPT ![request[r].on].stage = "review",
                                  ![request[r].on].prepared = r],
           UNCHANGED <<connected, prompt, record, posted, sol, usdc, deployed, now, changes>>
    PROVE  PurchaseInv'
<1> DEFINE shown(s) == [sheet[s] EXCEPT !.stage = "review", !.prepared = r]
<1>1. PageOK /\ RequestsOK /\ PromptsOK /\ RecordsOK /\ OutsideOK
  BY TypeParts DEF PurchaseInv
<1>2. /\ RequestsOK' /\ RequestSound(r)'
      /\ request'[r].step = "quoted" /\ request'[r].on = request[r].on
      /\ \A q \in Requests \ {r} : request'[q] = request[q]
  BY QuotedSound
<1>3. sheet \in [Surfaces -> Sheets] /\ r \in 0 .. MaxRequests
  BY <1>1, PurchaseAssumption DEF PageOK, Sheets, Requests
<1>4. \A s \in Surfaces : /\ shown(s) \in Sheets /\ shown(s).plan = sheet[s].plan
                          /\ shown(s).prepared = r
  BY <1>3 DEF Sheets
<1>5. /\ sheet' \in [Surfaces -> Sheets]
      /\ \A s \in Surfaces :
            sheet'[s] = IF s = request[r].on THEN shown(s) ELSE sheet[s]
  BY <1>3, <1>4
<1> HIDE DEF shown
<1>6. PageOK' /\ TypeOK'
  BY <1>1, <1>2, <1>5, TypeNext, PromptsKept, RecordsKept, OutsideKept DEF PageOK, Sheets
<1>7. \A q \in Requests : record[q].signed => q # r
  BY DEF PurchaseInv, RecordSound
<1>8. \A q \in Requests : RequestSound(q)'
  BY <1>2, SameRequest DEF PurchaseInv
<1>9. \A q \in Requests : PromptSound(q)'
  BY <1>2 DEF PurchaseInv, PromptSound
<1>10. \A q \in Requests : RecordSound(q)'
  <2> TAKE q \in Requests
  <2>1. record[q].signed => /\ request'[q] = request[q] /\ prompt'[q] = NoPrompt
                            /\ \A s \in Surfaces : sheet'[s].prepared # q
    BY <1>2, <1>4, <1>5, <1>7 DEF PurchaseInv, RecordSound
  <2>2. QED
    BY <2>1, SignedStays
<1>11. \A s \in Surfaces : SheetSound(s)'
  <2> TAKE s \in Surfaces
  <2>1. CASE s = request[r].on
    BY <1>2, <1>4, <1>5, <2>1 DEF SheetSound
  <2>2. CASE s # request[r].on
    BY <1>2, <1>5, <2>2, SheetsAreSound, SheetStays
  <2>3. QED
    BY <2>1, <2>2
<1>12. \A p \in posted' : PostSound(p)'
  BY <1>2, <1>7, PostsStay
<1>13. QED
  BY <1>6, <1>8, <1>9, <1>10, <1>11, <1>12 DEF PurchaseInv

LEMMA ReceiveKeepsInv ==
    ASSUME PurchaseInv, NEW r \in Requests, Receive(r)
    PROVE  PurchaseInv'
<1> DEFINE s == request[r].on
<1>1. PageOK /\ RequestsOK /\ PromptsOK /\ RecordsOK /\ OutsideOK
  BY TypeParts DEF PurchaseInv
<1>2. UNCHANGED <<connected, record, posted, sol, usdc, deployed, now, changes>>
  BY DEF Receive
<1>3. \/ request[r].step = "refused" /\ request' = [request EXCEPT ![r].step = "over"]
      \/ request[r].step = "answered" /\ request' = [request EXCEPT ![r].step = "quoted"]
  BY <1>1 DEF Receive, RequestsOK
<1>4. /\ request[r].step # "quoted" /\ RequestsOK' /\ RequestSound(r)'
      /\ \A q \in Requests \ {r} : request'[q] = request[q]
  BY <1>1, <1>3, EndSound, QuotedSound, StepKeeps DEF RequestSteps
<1>5. ASSUME sheet' = sheet \/ sheet' = [sheet EXCEPT ![s].stage = "open"], UNCHANGED prompt
      PROVE  PurchaseInv'
  <2>1. PageOK' /\ \A t \in Surfaces : /\ sheet'[t].plan = sheet[t].plan
                                       /\ sheet'[t].prepared = sheet[t].prepared
    <3>1. CASE sheet' = sheet
      BY <1>1, <1>2, <3>1, PageKept
    <3>2. CASE sheet' = [sheet EXCEPT ![s].stage = "open"]
      BY <1>1, <1>2, <3>2, SetStage DEF Stages
    <3>3. QED
      BY <1>5, <3>1, <3>2
  <2>2. TypeOK'
    BY <1>1, <1>2, <1>4, <1>5, <2>1, TypeNext, PromptsKept, RecordsKept, OutsideKept
  <2>3. QED
    BY <1>2, <1>4, <1>5, <2>1, <2>2, SheetsAreSound, Frame
<1>6. CASE request[r].step = "refused" \/ (s = "basket" /\ ~ StillConnected(r))
  BY <1>5, <1>6 DEF Receive
<1>7. CASE request[r].step # "refused" /\ s = "basket" /\ StillConnected(r)
  BY <1>2, <1>3, <1>7, BasketAsksKeepsInv DEF Receive
<1>8. CASE request[r].step # "refused" /\ s # "basket"
  <2>1. UNCHANGED prompt
    BY <1>8 DEF Receive
  <2>2. CASE sheet[s].plan = NoPlan
    BY <1>5, <1>8, <2>1, <2>2 DEF Receive
  <2>3. CASE sheet[s].plan # NoPlan
    BY <1>2, <1>3, <1>8, <2>1, <2>3, SheetShowsKeepsInv DEF Receive
  <2>4. QED
    BY <2>2, <2>3
<1>9. QED
  BY <1>6, <1>7, <1>8

LEMMA ApproveKeepsInv ==
    ASSUME PurchaseInv, NEW s \in Surfaces, Approve(s)
    PROVE  PurchaseInv'
<1> DEFINE r == sheet[s].prepared
           n == Len(request[r].plan.mints)
           asked == [wallet |-> connected, kind |-> sheet[s].plan.kind,
                     mints |-> SubSeq(sheet[s].plan.mints, 1, n)]
<1>1. PageOK /\ RequestsOK /\ PromptsOK /\ RecordsOK /\ OutsideOK
  BY TypeParts DEF PurchaseInv
<1>2. /\ UNCHANGED <<connected, request, record, posted, sol, usdc, deployed, now, changes>>
      /\ sheet' = [sheet EXCEPT ![s].stage = "signing"]
      /\ prompt' = [prompt EXCEPT ![r] = asked]
      /\ s # "basket" /\ r # 0 /\ n <= Len(sheet[s].plan.mints)
  BY DEF Approve
<1>3. r \in Requests /\ request[r].on = s /\ request[r].step = "quoted"
  BY <1>1, <1>2, SheetFields DEF PurchaseInv, SheetSound
<1>4. asked \in [wallet: Wallets, kind: Kinds, mints: Seq(Mints)]
  <2>1. /\ connected \in Wallets /\ sheet[s].plan.kind \in Kinds
        /\ sheet[s].plan.mints \in Seq(Mints) /\ n \in Nat
    BY <1>1, <1>3, SheetFields, PlanFields, RequestFields DEF PageOK
  <2>2. SubSeq(sheet[s].plan.mints, 1, n) \in Seq(Mints)
    BY <1>2, <2>1
  <2>3. QED
    BY <2>1, <2>2
<1> HIDE DEF asked
<1>5. /\ PromptsOK' /\ \A q \in Requests \ {r} : prompt'[q] = prompt[q]
  BY <1>1, <1>2, <1>3, <1>4 DEF PromptsOK
<1>6. PageOK' /\ \A t \in Surfaces : /\ sheet'[t].plan = sheet[t].plan
                                     /\ sheet'[t].prepared = sheet[t].prepared
  BY <1>1, <1>2, SetStage DEF Stages
<1>7. TypeOK'
  BY <1>1, <1>2, <1>5, <1>6, TypeNext, RequestsKept, RecordsKept, OutsideKept
<1>8. \A q \in Requests : record[q].signed => q # r
  BY DEF PurchaseInv, RecordSound
<1>9. \A q \in Requests : RequestSound(q)'
  BY <1>2, SameRequest DEF PurchaseInv
<1>10. \A q \in Requests : PromptSound(q)'
  BY <1>2, <1>3, <1>5 DEF PurchaseInv, PromptSound
<1>11. \A q \in Requests : RecordSound(q)'
  <2> TAKE q \in Requests
  <2>1. record[q].signed => /\ request'[q] = request[q] /\ prompt'[q] = NoPrompt
                            /\ \A t \in Surfaces : sheet'[t].prepared # q
    BY <1>2, <1>5, <1>6, <1>8 DEF PurchaseInv, RecordSound
  <2>2. QED
    BY <1>2, <2>1, SignedStays
<1>12. \A t \in Surfaces : SheetSound(t)'
  BY <1>2, <1>6, SheetsAreSound, SheetStays
<1>13. \A p \in posted' : PostSound(p)'
  BY <1>2, PostsStay
<1>14. QED
  BY <1>7, <1>9, <1>10, <1>11, <1>12, <1>13 DEF PurchaseInv

LEMMA WalletReturnsMessages ==
    ASSUME RequestsOK, NEW r \in Requests, NEW i \in LegsOf(r)
    PROVE  WalletReturns(r, i) \subseteq Messages
<1> DEFINE approved == Leg(r, i).message
           Trades == {<<>>, <<"other">>} \union (Requests \X Nat \X BOOLEAN)
<1>1. approved \in Messages
  BY LegFields
<1>2. Messages = [trade: Trades, hash: Nat, fee: Nat, tip: BOOLEAN,
                  limit: {"none", "ceiling", "measured", "wallet"}]
  BY DEF Messages
<1>3. approved.trade \in Trades /\ <<"other">> \in Trades
  BY <1>1, <1>2
<1> HIDE DEF Trades
<1>4. ASSUME NEW trade \in {approved.trade, <<"other">>},
             NEW limit \in {approved.limit, "wallet"}
      PROVE  [approved EXCEPT !.trade = trade, !.limit = limit] \in Messages
  BY <1>1, <1>2, <1>3
<1>5. QED
  BY <1>4 DEF WalletReturns

LEMMA SameReturns ==
    ASSUME NEW r, request'[r] = request[r]
    PROVE  \A i : WalletReturns(r, i)' = WalletReturns(r, i)
  BY DEF Leg, WalletReturns

LEMMA SignKeepsInv ==
    ASSUME PurchaseInv, NEW r \in Requests, Sign(r)
    PROVE  PurchaseInv'
<1> DEFINE s == request[r].on
           new == IF s = "basket" THEN [sheet[s] EXCEPT !.stage = "open"] ELSE Closed
<1>1. PageOK /\ RequestsOK /\ PromptsOK /\ RecordsOK /\ OutsideOK
  BY TypeParts DEF PurchaseInv
<1>2. /\ UNCHANGED <<connected, request, posted, sol, usdc, deployed, now, changes>>
      /\ prompt' = [prompt EXCEPT ![r] = NoPrompt]
      /\ prompt[r] # NoPrompt
  BY DEF Sign
<1>3. PICK signed \in [LegsOf(r) -> UNION {WalletReturns(r, i) : i \in LegsOf(r)}] :
         /\ \A i \in LegsOf(r) : /\ signed[i] \in WalletReturns(r, i)
                                 /\ ~ walletChanges(Leg(r, i).message, signed[i])
         /\ record' = [record EXCEPT ![r] =
               [wallet |-> prompt[r].wallet, kind |-> prompt[r].kind,
                mints |-> prompt[r].mints, messages |-> signed,
                signed |-> connected = request[r].wallet]]
  BY DEF Sign
<1>4. request[r].step = "quoted" /\ ~ record[r].signed
  BY <1>2 DEF PurchaseInv, PromptSound, RecordSound
<1>5. signed \in Seq(Messages)
  <2>1. LegsOf(r) = 1 .. Len(request[r].plan.mints) /\ Len(request[r].plan.mints) \in Nat
    BY <1>1, RequestFields
  <2>2. \A i \in LegsOf(r) : signed[i] \in Messages
    BY <1>1, <1>3, WalletReturnsMessages
  <2>3. signed \in [1 .. Len(request[r].plan.mints) -> Messages]
    BY <1>3, <2>1, <2>2
  <2>4. QED
    BY <2>1, <2>3, SeqOfFunction
<1>6. /\ RecordsOK' /\ record'[r].messages = signed
      /\ \A q \in Requests \ {r} : record'[q] = record[q]
  <2>1. prompt[r] \in [wallet: Wallets, kind: Kinds, mints: Seq(Mints)]
    BY <1>1 DEF PromptsOK
  <2>2. [wallet |-> prompt[r].wallet, kind |-> prompt[r].kind, mints |-> prompt[r].mints,
         messages |-> signed, signed |-> connected = request[r].wallet]
           \in [wallet: Wallets, kind: Kinds, mints: Seq(Mints),
                messages: Seq(Messages), signed: BOOLEAN]
    BY <1>5, <2>1
  <2>3. QED
    BY <1>1, <1>2, <1>3, <2>2 DEF RecordsOK
<1>7. /\ PromptsOK' /\ prompt'[r] = NoPrompt
      /\ \A q \in Requests \ {r} : prompt'[q] = prompt[q]
  BY <1>1, <1>2, NoPromptIsAPrompt DEF PromptsOK
<1>8. /\ sheet \in [Surfaces -> Sheets] /\ sheet' = [sheet EXCEPT ![s] = new]
  BY <1>1 DEF Sign, PageOK, Sheets
<1>9. s \in Surfaces => /\ new \in Sheets
                        /\ new.prepared \in {0, sheet[s].prepared}
                        /\ s = "basket" => new.plan = sheet[s].plan
                        /\ s # "basket" => new.prepared = 0
  <2>1. Closed.prepared = 0
    BY DEF Closed
  <2>2. QED
    BY <1>8, <2>1, ClosedIsASheet DEF Sheets
<1> HIDE DEF new
<1>10. /\ sheet' \in [Surfaces -> Sheets]
       /\ \A t \in Surfaces : sheet'[t] = IF t = s THEN new ELSE sheet[t]
  BY <1>8, <1>9
<1>11. PageOK' /\ TypeOK'
  BY <1>1, <1>2, <1>6, <1>7, <1>10, TypeNext, RequestsKept, OutsideKept DEF PageOK, Sheets
<1>12. \A t \in Surfaces :
          /\ sheet'[t].prepared \in {0, sheet[t].prepared}
          /\ t = "basket" => sheet'[t].plan = NoPlan \/ sheet'[t].plan.kind = "buy"
  BY <1>9, <1>10, SheetsAreSound
<1>13. \A t \in Surfaces : sheet'[t].prepared # r
  <2> SUFFICES ASSUME NEW t \in Surfaces, sheet'[t].prepared = r PROVE FALSE
    OBVIOUS
  <2>1. r # 0
    BY DEF Requests
  <2>2. sheet[t].prepared = r
    BY <1>12, <2>1
  <2>3. request[r].on = t /\ t # "basket"
    BY <2>1, <2>2 DEF PurchaseInv, SheetSound
  <2>4. QED
    BY <1>9, <1>10, <2>1, <2>3
<1>14. \A q \in Requests : RequestSound(q)'
  BY <1>2, SameRequest DEF PurchaseInv
<1>15. \A q \in Requests : PromptSound(q)'
  BY <1>2, <1>7 DEF PurchaseInv, PromptSound
<1>16. \A q \in Requests : RecordSound(q)'
  <2> TAKE q \in Requests
  <2>1. CASE q = r
    <3>1. /\ LegsOf(r)' = LegsOf(r)
          /\ \A i \in LegsOf(r) : /\ Leg(r, i)' = Leg(r, i)
                                  /\ WalletReturns(r, i)' = WalletReturns(r, i)
      <4>1. request'[r] = request[r]
        BY <1>2
      <4>2. \A i \in LegsOf(r) : Leg(r, i)' = Leg(r, i)
        BY <4>1 DEF Leg
      <4>3. \A i : WalletReturns(r, i)' = WalletReturns(r, i)
        BY <4>1, SameReturns
      <4>4. QED
        BY <4>1, <4>2, <4>3 DEF LegsOf
    <3>2. \A i \in LegsOf(r)' :
             /\ record'[r].messages[i] \in WalletReturns(r, i)'
             /\ ~ walletChanges(Leg(r, i)'.message, record'[r].messages[i])
      BY <1>3, <1>6, <3>1
    <3>3. QED
      BY <1>2, <1>4, <1>7, <1>13, <2>1, <3>2 DEF RecordSound, walletChanges
  <2>2. CASE q # r
    <3>1. RecordSound(q) /\ record'[q] = record[q] /\ prompt'[q] = prompt[q]
      BY <1>6, <1>7, <2>2 DEF PurchaseInv
    <3>2. record[q].signed => /\ request'[q] = request[q] /\ prompt'[q] = NoPrompt
                              /\ \A t \in Surfaces : sheet'[t].prepared # q
      BY <1>2, <1>12, <3>1 DEF RecordSound, Requests
    <3>3. QED
      BY <3>1, <3>2, SignedStays
  <2>3. QED
    BY <2>1, <2>2
<1>17. \A t \in Surfaces : SheetSound(t)'
  BY <1>2, <1>12, SheetStays
<1>18. \A p \in posted' : PostSound(p)'
  BY <1>2, <1>4, <1>6, PostsStay
<1>19. QED
  BY <1>11, <1>14, <1>15, <1>16, <1>17, <1>18 DEF PurchaseInv

LEMMA PostKeepsInv ==
    ASSUME PurchaseInv, NEW r \in Requests, NEW i \in LegsOf(r), Post(r, i)
    PROVE  PurchaseInv'
<1> DEFINE new == [request |-> r, leg |-> i, accepted |-> Accepts(r, i), at |-> now]
<1>1. PageOK /\ RequestsOK /\ PromptsOK /\ RecordsOK /\ OutsideOK
  BY TypeParts DEF PurchaseInv
<1>2. /\ UNCHANGED <<connected, sheet, request, prompt, record, sol, usdc, deployed, now, changes>>
      /\ posted' = posted \union {new} /\ record[r].signed
  BY DEF Post
<1>3. new \in [request: Requests, leg: Nat, accepted: BOOLEAN, at: Nat]
  <2>1. Accepts(r, i) \in BOOLEAN
    BY DEF Accepts
  <2>2. i \in Nat /\ now \in Nat
    BY <1>1, LegFields DEF OutsideOK
  <2>3. QED
    BY <2>1, <2>2
<1>4. ASSUME NEW p, p = new PROVE PostSound(p)'
  <2>1. Accepts(r, i) => now <= Leg(r, i).expires
    BY DEF Accepts
  <2>2. /\ record'[r].signed /\ i \in LegsOf(r)'
        /\ Accepts(r, i) => now <= Leg(r, i)'.expires
    BY <1>2, <2>1 DEF LegsOf, Leg
  <2>3. /\ p.request = r /\ p.leg = i /\ p.at = now
        /\ p.accepted = Accepts(r, i)
    BY <1>4
  <2>4. QED
    BY <2>2, <2>3 DEF PostSound
<1> HIDE DEF new
<1>5. RecordsOK'
  BY <1>1, <1>2, <1>3 DEF RecordsOK
<1>6. TypeOK'
  BY <1>1, <1>2, <1>5, TypeNext, PageKept, RequestsKept, PromptsKept, OutsideKept
<1>7. \A q \in Requests : RequestSound(q)' /\ PromptSound(q)' /\ RecordSound(q)'
  <2> TAKE q \in Requests
  <2>1. RequestSound(q)' /\ PromptSound(q)'
    BY <1>2, SameRequest DEF PurchaseInv, PromptSound
  <2>2. record[q].signed => /\ request'[q] = request[q] /\ prompt'[q] = NoPrompt
                            /\ \A t \in Surfaces : sheet'[t].prepared # q
    BY <1>2 DEF PurchaseInv, RecordSound
  <2>3. QED
    BY <1>2, <2>1, <2>2, SignedStays
<1>8. \A t \in Surfaces : SheetSound(t)'
  BY <1>2, SheetsAreSound, SheetStays
<1>9. \A p \in posted' : PostSound(p)'
  <2> TAKE p \in posted'
  <2>1. p \in posted \/ p = new
    BY <1>2
  <2>2. QED
    BY <1>2, <1>4, <2>1, PostsStay
<1>10. QED
  BY <1>6, <1>7, <1>8, <1>9 DEF PurchaseInv

-----------------------------------------------------------------------------
(* The invariant, and what it promises.                                       *)

LEMMA InitInv == Init => PurchaseInv
<1> SUFFICES ASSUME Init PROVE PurchaseInv
  OBVIOUS
<1>1. AnyWallet \in Wallets
  BY PurchaseAssumption DEF AnyWallet
<1>2. PageOK
  BY <1>1, ClosedIsASheet DEF Init, PageOK, Sheets
<1>3. /\ NoRequest \in RequestRecords /\ NoRequest.step = "none" /\ NoRequest.on = "none"
      /\ NoRequest.legs = <<>> /\ NoRequest.plan.mints = <<>>
  <2>1. NoServer \in [version: Nat, admitted: SUBSET Mints]
    BY DEF NoServer
  <2>2. <<>> \in Seq(LegRecords)
    BY EmptySeq
  <2>3. QED
    BY <1>1, <2>1, <2>2, NoPlanIsARecord DEF NoRequest, RequestRecords, NoPlan
<1>4. RequestsOK
  BY <1>3 DEF Init, RequestsOK
<1>5. PromptsOK
  BY NoPromptIsAPrompt DEF Init, PromptsOK
<1>6. RecordsOK
  <2>1. <<>> \in Seq(Messages) /\ <<>> \in Seq(Mints)
    BY EmptySeq
  <2>2. NoRecord \in [wallet: Wallets, kind: Kinds, mints: Seq(Mints),
                      messages: Seq(Messages), signed: BOOLEAN]
    BY <1>1, <2>1 DEF NoRecord, Kinds
  <2>3. QED
    BY <2>2 DEF Init, RecordsOK
<1>7. OutsideOK
  BY PurchaseAssumption DEF Init, OutsideOK
<1>8. \A r \in Requests : RequestSound(r)
  BY <1>3, PurchaseAssumption DEF Init, RequestSound, LegsOf
<1>9. \A r \in Requests : PromptSound(r) /\ RecordSound(r)
  BY DEF Init, PromptSound, RecordSound, NoRecord
<1>10. \A s \in Surfaces : SheetSound(s)
  BY DEF Init, SheetSound, Closed
<1>11. posted = {}
  BY DEF Init
<1>12. QED
  BY <1>2, <1>4, <1>5, <1>6, <1>7, <1>8, <1>9, <1>10, <1>11, TypeParts DEF PurchaseInv

LEMMA SameInv ==
    ASSUME PurchaseInv, UNCHANGED vars
    PROVE  PurchaseInv'
<1>1. UNCHANGED <<connected, sheet, request, prompt, record, posted, sol, usdc, deployed, now,
                  changes>>
  BY DEF vars
<1>2. TypeOK'
  BY <1>1, TypeParts, TypeNext, PageKept, RequestsKept, PromptsKept, RecordsKept, OutsideKept
     DEF PurchaseInv
<1>3. QED
  BY <1>1, <1>2, SheetsAreSound, Frame

LEMMA NextInv == PurchaseInv /\ [Next]_vars => PurchaseInv'
<1> SUFFICES ASSUME PurchaseInv, [Next]_vars PROVE PurchaseInv'
  OBVIOUS
<1>1. CASE PageStep
  BY <1>1, ChooseKeepsInv, CloseKeepsInv, ApproveKeepsInv, AskKeepsInv, ReceiveKeepsInv,
     LoseAnswerKeepsInv, NotSentKeepsInv, SignKeepsInv DEF PageStep
<1>2. CASE ServerStep
  BY <1>2, StartBatchKeepsInv, FinishBatchKeepsInv, ReadBeforeKeepsInv, RouteKeepsInv,
     SimulatesKeepsInv, SimulationFailsKeepsInv, PostKeepsInv DEF ServerStep
<1>3. CASE Redeploy \/ Tick \/ (\E w \in Wallets : Switch(w) \/ Spend(w))
  BY <1>3, OutsideKeepsInv
<1>4. CASE UNCHANGED vars
  BY <1>4, SameInv
<1>5. QED
  BY <1>1, <1>2, <1>3, <1>4 DEF Next

\* What holds between the steps of the pages, the prepare routes and the
\* submit route, whatever order they come in.
THEOREM PurchaseInvariant == Spec => []PurchaseInv
<1>1. QED
  BY InitInv, NextInv, PTL DEF Spec

\* Sheets, requests, prompts, records and posts stay what the code can put in
\* them, a request keeps one leg per lot of its plan, and no fee goes below
\* nothing.
THEOREM PurchaseTypeCorrect == Spec => []TypeOK
<1>1. PurchaseInv => TypeOK
  BY DEF PurchaseInv
<1>2. QED
  BY <1>1, PurchaseInvariant, PTL

LEMMA InvSent ==
    ASSUME PurchaseInv, NEW p \in posted
    PROVE  LET leg  == Leg(p.request, p.leg)
               sent == record[p.request].messages[p.leg]
           IN  /\ sent \in WalletReturns(p.request, p.leg)
               /\ ~ walletChanges(leg.message, sent)
               /\ leg.message \in Messages
               /\ leg.tested = leg.message /\ leg.expires = Expires(leg.message)
               /\ p.at \in Nat
               /\ p.accepted => p.at <= leg.expires
<1> DEFINE r == p.request
           i == p.leg
<1>1. /\ r \in Requests /\ p.at \in Nat /\ record[r].signed /\ i \in LegsOf(r)
      /\ p.accepted => p.at <= Leg(r, i).expires
  BY DEF PurchaseInv, TypeOK, PostSound
<1>2. /\ request[r].step = "quoted" /\ record[r].messages[i] \in WalletReturns(r, i)
      /\ ~ walletChanges(Leg(r, i).message, record[r].messages[i])
  BY <1>1 DEF PurchaseInv, RecordSound
<1>3. Leg(r, i).step = "ready" /\ LegSound(r, i)
  BY <1>1, <1>2 DEF PurchaseInv, RequestSound
<1>4. Leg(r, i).message \in Messages
  BY <1>1, LegFields, TypeParts DEF PurchaseInv
<1>5. QED
  BY <1>1, <1>2, <1>3, <1>4 DEF LegSound

LEMMA Returned ==
    ASSUME NEW r, NEW i, NEW sent \in WalletReturns(r, i), Leg(r, i).message \in Messages,
           ~ walletChanges(Leg(r, i).message, sent)
    PROVE  /\ sent.limit \in {Leg(r, i).message.limit, "wallet"}
           /\ sent = [Leg(r, i).message EXCEPT !.limit = sent.limit]
<1> DEFINE approved == Leg(r, i).message
<1>1. PICK trade \in {approved.trade, <<"other">>}, limit \in {approved.limit, "wallet"} :
         sent = [approved EXCEPT !.trade = trade, !.limit = limit]
  BY DEF WalletReturns
<1>2. sent.trade = approved.trade
  BY DEF walletChanges
<1>3. approved \in Messages
  OBVIOUS
<1> HIDE DEF approved
<1>4. sent = [approved EXCEPT !.limit = sent.limit] /\ sent.limit \in {approved.limit, "wallet"}
  BY <1>1, <1>2, <1>3 DEF Messages
<1>5. QED
  BY <1>4 DEF approved

\* submitLeg lets through what was simulated, but for the data limit the wallet
\* may set: the digest binds the approved message and the routes approve the
\* message of the last simulation.
THEOREM AcceptedWasSimulated == Spec => []AcceptedIsWhatWasSimulated
<1>1. ASSUME PurchaseInv, NEW p \in posted
      PROVE  LET tested == Leg(p.request, p.leg).tested
                 sent   == record[p.request].messages[p.leg]
             IN  /\ sent.limit \in {tested.limit, "wallet"}
                 /\ sent = [tested EXCEPT !.limit = sent.limit]
  BY <1>1, InvSent, Returned
<1>2. PurchaseInv => AcceptedIsWhatWasSimulated
  BY <1>1 DEF AcceptedIsWhatWasSimulated
<1>3. QED
  BY <1>2, PurchaseInvariant, PTL

\* submitLeg lets nothing through whose blockhash is no longer accepted: the
\* window is counted from before the blockhash was fetched and is not longer
\* than a blockhash lives.
THEOREM AcceptedLands == Spec => []AcceptedCanLand
<1>1. ASSUME PurchaseInv, NEW p \in posted, p.accepted
      PROVE  p.at <= record[p.request].messages[p.leg].hash + BLOCKHASH_LIFE
  <2> DEFINE approved == Leg(p.request, p.leg).message
             sent == record[p.request].messages[p.leg]
  <2>1. /\ ~ walletChanges(approved, sent) /\ approved \in Messages
        /\ p.at \in Nat /\ p.at <= Expires(approved)
    BY <1>1, InvSent
  <2>2. sent.hash = approved.hash /\ approved.hash \in Nat
    BY <2>1 DEF walletChanges, Messages
  <2> HIDE DEF sent, approved
  <2>3. p.at <= sent.hash + BLOCKHASH_LIFE
    BY <2>1, <2>2, PurchaseAssumption DEF Expires
  <2>4. QED
    BY <2>3 DEF sent
<1>2. PurchaseInv => AcceptedCanLand
  BY <1>1 DEF AcceptedCanLand
<1>3. QED
  BY <1>2, PurchaseInvariant, PTL

\* Only a batch that is finished is answered.
LEMMA OnlyFinishAnswers ==
    ASSUME PurchaseInv, Next, NEW q \in Requests,
           request[q].step = "preparing", request'[q].step = "answered"
    PROVE  FinishBatch(q)
<1>1. request \in [Requests -> RequestRecords]
  BY TypeParts DEF PurchaseInv, RequestsOK
<1>2. request' # request
  OBVIOUS
<1>3. ~ PageStep
  <2>1. \A s \in Surfaces : /\ \A plan \in PlansOf(s) : ~ Choose(s, plan)
                            /\ ~ Close(s) /\ ~ Approve(s)
    BY <1>2 DEF Choose, Close, Approve
  <2>2. \A s \in Surfaces, r \in Requests : ~ Ask(s, r)
    <3> SUFFICES ASSUME NEW s \in Surfaces, NEW r \in Requests, Ask(s, r) PROVE FALSE
      OBVIOUS
    <3>1. request'[q] = request[q] \/ request'[q].step = "asked"
      BY <1>1 DEF Ask
    <3>2. QED
      BY <3>1
  <2>3. \A r \in Requests : ~ Receive(r) /\ ~ LoseAnswer(r)
    BY <1>1 DEF Receive, LoseAnswer, RequestRecords
  <2>4. \A r \in Requests : ~ NotSent(r) /\ ~ Sign(r)
    BY <1>2 DEF NotSent, Sign
  <2>5. QED
    BY <2>1, <2>2, <2>3, <2>4 DEF PageStep
<1>4. ~ (Redeploy \/ Tick \/ (\E w \in Wallets : Switch(w) \/ Spend(w)))
  BY <1>2 DEF Redeploy, Tick, Switch, Spend
<1>5. \A r \in Requests : ~ Refuse(r)
  BY <1>1 DEF Refuse, RequestRecords
<1>6. \A r \in Requests : \A i, leg : ~ SetLeg(r, i, leg)
  BY <1>1 DEF SetLeg, RequestRecords
<1>7. \A r \in Requests : ~ StartBatch(r)
  BY <1>1, <1>5 DEF StartBatch, RequestRecords
<1>8. ASSUME NEW r \in Requests, NEW i
      PROVE  /\ ~ ReadBefore(r, i) /\ ~ Route(r, i)
             /\ ~ Simulates(r, i) /\ ~ SimulationFails(r, i)
  <2>1. ~ Refuse(r) /\ \A leg : ~ SetLeg(r, i, leg)
    BY <1>5, <1>6
  <2>2. ~ ReadBefore(r, i) /\ ~ Route(r, i)
    BY <2>1 DEF ReadBefore, Route
  <2>3. ~ Simulates(r, i) /\ ~ SimulationFails(r, i)
    BY <2>1 DEF Simulates, SimulationFails
  <2>4. QED
    BY <2>2, <2>3
<1>9. \A r \in Requests : \A i : ~ Post(r, i)
  BY <1>2 DEF Post
<1>10. PICK r \in Requests : FinishBatch(r)
  BY <1>3, <1>4, <1>7, <1>8, <1>9 DEF Next, ServerStep
<1>11. request' = [request EXCEPT ![r].step = "answered"]
  BY <1>5, <1>10 DEF FinishBatch
<1>12. r = q
  BY <1>1, <1>11
<1>13. QED
  BY <1>10, <1>12

\* requireBatchFunds and the budget of a purchase: the page is answered with
\* the legs of a purchase only if the wallet can pay what all their messages
\* need, and it held the USDC of all of them.
THEOREM AnsweredIsAlwaysCovered == Spec => AnsweredIsCovered
<1>1. ASSUME PurchaseInv, Next, NEW r \in Requests,
             request[r].step = "preparing", request'[r].step = "answered",
             request[r].plan.kind = "buy"
      PROVE  /\ SumOf([i \in LegsOf(r) |-> SolNeeded(r, i, Leg(r, i).message)])
                    <= sol[request[r].wallet]
             /\ SumOf(request[r].plan.atoms) <= request[r].usdc
  <2>1. FinishBatch(r) /\ RequestSound(r)
    BY <1>1, OnlyFinishAnswers DEF PurchaseInv
  <2>2. request' = [request EXCEPT ![r].step = "refused"] => request'[r].step = "refused"
    BY <1>1, TypeParts DEF PurchaseInv, RequestsOK, RequestRecords
  <2>3. /\ \A i \in LegsOf(r) : Leg(r, i).step = "ready"
        /\ NeededTogether(r) <= sol[request[r].wallet]
    BY <1>1, <2>1, <2>2 DEF FinishBatch, Refuse
  <2>4. \A i \in LegsOf(r) : Leg(r, i).needed = SolNeeded(r, i, Leg(r, i).message)
    BY <2>1, <2>3 DEF RequestSound, LegSound
  <2>5. [i \in LegsOf(r) |-> Leg(r, i).needed]
           = [i \in LegsOf(r) |-> SolNeeded(r, i, Leg(r, i).message)]
    BY <2>4
  <2>6. SumOf([i \in LegsOf(r) |-> SolNeeded(r, i, Leg(r, i).message)])
           <= sol[request[r].wallet]
    BY <2>3, <2>5 DEF NeededTogether
  <2>7. SumOf(request[r].plan.atoms) <= request[r].usdc
    BY <1>1, <2>1 DEF RequestSound
  <2>8. QED
    BY <2>6, <2>7
<1>2. PurchaseInv /\ [Next]_vars =>
        [\A r \in Requests :
           LET plan == request[r].plan
           IN  /\ request[r].step = "preparing" /\ request'[r].step = "answered"
               /\ plan.kind = "buy"
               => /\ SumOf([i \in LegsOf(r) |-> SolNeeded(r, i, Leg(r, i).message)])
                         <= sol[request[r].wallet]
                  /\ SumOf(plan.atoms) <= request[r].usdc]_vars
  BY <1>1
<1>3. QED
  BY <1>2, PurchaseInvariant, PTL DEF Spec, AnsweredIsCovered

\* Only a wallet that has signed records an execution.
LEMMA OnlySignRecords ==
    ASSUME PurchaseInv, Next, NEW q \in Requests, record'[q] # record[q]
    PROVE  Sign(q)
<1>1. record' # record
  OBVIOUS
<1>2. ~ ServerStep
  BY <1>1 DEF ServerStep, StartBatch, FinishBatch, ReadBefore, Route, Simulates,
              SimulationFails, Post
<1>3. ~ (Redeploy \/ Tick \/ (\E w \in Wallets : Switch(w) \/ Spend(w)))
  BY <1>1 DEF Redeploy, Tick, Switch, Spend
<1>4. PICK r \in Requests : Sign(r)
  BY <1>1, <1>2, <1>3 DEF Next, PageStep, Choose, Close, Approve, Ask, Receive, LoseAnswer, NotSent
<1>5. r = q
  BY <1>4, TypeParts DEF Sign, PurchaseInv, RecordsOK
<1>6. QED
  BY <1>4, <1>5

LEMMA SignedByThePayer ==
    ASSUME NEW w, NEW k, NEW m, NEW sent, NEW payer, NEW signer, signer = payer
    PROVE  [wallet |-> w, kind |-> k, mints |-> m, messages |-> sent,
            signed |-> signer = payer].signed
  BY Zenon

\* approveAndSend reads the wallet again once it has signed: a basket is
\* recorded for the wallet that is connected then, which pays every leg, as the
\* purchase of what was quoted.
THEOREM BasketsAreAlwaysTheWallets == Spec => BasketsAreTheWallets
<1>1. ASSUME PurchaseInv, Next, NEW r \in Requests,
             request[r].on = "basket", record'[r] # record[r]
      PROVE  /\ record'[r].wallet = connected /\ record'[r].signed
             /\ record'[r].kind = "buy" /\ record'[r].mints = request[r].plan.mints
  <2>1. Sign(r) /\ RequestSound(r) /\ PromptSound(r)
    BY <1>1, OnlySignRecords DEF PurchaseInv
  <2>2. /\ prompt[r] = [wallet |-> request[r].wallet, kind |-> request[r].plan.kind,
                        mints |-> request[r].plan.mints]
        /\ connected = prompt[r].wallet
    BY <1>1, <2>1 DEF Sign, SignerConnected, PromptSound
  <2>3. request[r].plan.kind = "buy"
    BY <1>1, <2>1 DEF RequestSound
  <2>4. PICK signed : record' = [record EXCEPT ![r] =
               [wallet |-> prompt[r].wallet, kind |-> prompt[r].kind,
                mints |-> prompt[r].mints, messages |-> signed,
                signed |-> connected = request[r].wallet]]
    BY <2>1 DEF Sign
  <2>5. record'[r] = [wallet |-> prompt[r].wallet, kind |-> prompt[r].kind,
                      mints |-> prompt[r].mints, messages |-> signed,
                      signed |-> connected = request[r].wallet]
    BY <1>1, <2>4, TypeParts DEF PurchaseInv, RecordsOK
  <2>6. /\ record'[r].wallet = prompt[r].wallet /\ record'[r].kind = prompt[r].kind
        /\ record'[r].mints = prompt[r].mints
    BY <2>5
  <2>7. /\ prompt[r].wallet = request[r].wallet /\ prompt[r].kind = request[r].plan.kind
        /\ prompt[r].mints = request[r].plan.mints
    BY <2>2
  <2>8. connected = request[r].wallet
    BY <2>2, <2>7
  <2>9. record'[r].signed
    BY <2>5, <2>8, SignedByThePayer
  <2>10. QED
    BY <2>2, <2>3, <2>6, <2>7, <2>8, <2>9
<1>2. PurchaseInv /\ [Next]_vars =>
        [\A r \in Requests :
           request[r].on = "basket" /\ record'[r] # record[r] =>
              /\ record'[r].wallet = connected
              /\ record'[r].signed
              /\ record'[r].kind = "buy" /\ record'[r].mints = request[r].plan.mints]_vars
  BY <1>1
<1>3. QED
  BY <1>2, PurchaseInvariant, PTL DEF Spec, BasketsAreTheWallets

-----------------------------------------------------------------------------
(* Plans and fees, step by step.                                              *)

KeepsPlan(r) ==
    /\ request'[r].on = request[r].on
    /\ request'[r].plan = request[r].plan
    /\ request'[r].legs = request[r].legs

LEMMA KeptAdds ==
    ASSUME NEW r, RequestAdds(r), KeepsPlan(r)
    PROVE  RequestAdds(r)'
  BY DEF RequestAdds, KeepsPlan, LegCharged, LegsOf, Leg, Atoms

LEMMA PlansFrame ==
    ASSUME PlansInv,
           \A r \in Requests : KeepsPlan(r) \/ RequestAdds(r)',
           \A s \in Surfaces : sheet'[s].plan = sheet[s].plan
    PROVE  PlansInv'
<1>1. \A r \in Requests : RequestAdds(r)'
  BY KeptAdds DEF PlansInv
<1>2. QED
  BY <1>1 DEF PlansInv

\* A request that moves on keeps what it was asked for.
LEMMA StepKeepsPlans ==
    ASSUME RequestsOK, NEW r \in Requests, NEW step \in RequestSteps,
           request' = [request EXCEPT ![r].step = step]
    PROVE  \A q \in Requests : KeepsPlan(q)
<1>1. request'[r] = [request[r] EXCEPT !.step = step] /\ request[r] \in RequestRecords
  BY StepKeeps, RequestFields
<1>2. KeepsPlan(r)
  BY <1>1 DEF KeepsPlan, RequestRecords
<1>3. \A q \in Requests \ {r} : KeepsPlan(q)
  BY StepKeeps DEF KeepsPlan
<1>4. QED
  BY <1>2, <1>3

LEMMA SameRequestsKeep ==
    ASSUME request' = request PROVE \A q \in Requests : KeepsPlan(q)
  BY DEF KeepsPlan

LEMMA ChooseKeepsPlans ==
    ASSUME PurchaseInv, PlansInv, NEW s \in Surfaces, NEW plan \in PlansOf(s), Choose(s, plan)
    PROVE  PlansInv'
<1>1. PageOK /\ request' = request
  BY TypeParts DEF PurchaseInv, Choose
<1>2. \A r \in Requests : RequestAdds(r)'
  BY <1>1, SameRequestsKeep, KeptAdds DEF PlansInv
<1>3. sheet' = [sheet EXCEPT ![s] = [plan |-> plan, stage |-> "open", prepared |-> 0]]
  BY DEF Choose
<1>4. sheet'[s].plan = plan /\ \A t \in Surfaces \ {s} : sheet'[t] = sheet[t]
  BY <1>1, <1>3 DEF PageOK
<1>5. s = "basket" => SumOf(plan.atoms) \in Spends
  BY BasketAddsUp
<1>6. QED
  BY <1>2, <1>4, <1>5 DEF PlansInv

LEMMA CloseKeepsPlans ==
    ASSUME PurchaseInv, PlansInv, NEW s \in Surfaces, Close(s)
    PROVE  PlansInv'
<1>1. PageOK /\ request' = request /\ s # "basket"
  BY TypeParts DEF PurchaseInv, Close
<1>2. \A r \in Requests : RequestAdds(r)'
  BY <1>1, SameRequestsKeep, KeptAdds DEF PlansInv
<1>3. \A t \in Surfaces \ {s} : sheet'[t] = sheet[t]
  BY <1>1 DEF Close, PageOK
<1>4. QED
  BY <1>1, <1>2, <1>3 DEF PlansInv

\* The legs of a request that was just asked have paid no tip.
LEMMA AskKeepsPlans ==
    ASSUME PurchaseInv, PlansInv, NEW s \in Surfaces, NEW r \in Requests, Ask(s, r)
    PROVE  PlansInv'
<1> DEFINE plan == sheet[s].plan
           asked == [step |-> "asked", on |-> s, wallet |-> connected, plan |-> plan,
                     usdc |-> 0, server |-> NoServer,
                     legs |-> [i \in DOMAIN plan.mints |-> Waiting]]
<1>1. PageOK /\ RequestsOK
  BY TypeParts DEF PurchaseInv
<1>2. /\ request' = [request EXCEPT ![r] = asked] /\ plan # NoPlan
      /\ sheet' = [sheet EXCEPT ![s].stage = "quoting",
                                ![s].prepared = IF s = "sale" THEN 0 ELSE @]
  BY DEF Ask
<1>3. \A t \in Surfaces : sheet'[t].plan = sheet[t].plan
  BY <1>1, <1>2 DEF PageOK
<1>4. asked.on = s /\ asked.plan = plan /\ \A i \in DOMAIN asked.legs : asked.legs[i] = Waiting
  OBVIOUS
<1> HIDE DEF asked, plan
<1>5. request'[r] = asked /\ \A q \in Requests \ {r} : request'[q] = request[q]
  BY <1>1, <1>2 DEF RequestsOK
<1>6. \A i \in LegsOf(r)' : Leg(r, i)' = Waiting
  BY <1>4, <1>5 DEF LegsOf, Leg
<1>7. s = "basket" => SumOf(plan.atoms) \in Spends
  BY <1>2 DEF PlansInv, plan
<1>8. RequestAdds(r)'
  BY <1>4, <1>5, <1>6, <1>7 DEF RequestAdds, LegCharged, Waiting, NoMessage
<1>9. QED
  BY <1>3, <1>5, <1>8, PlansFrame DEF KeepsPlan

\* One leg moves on as the code charges it.
LEMMA LegKeepsPlans ==
    ASSUME PurchaseInv, PlansInv, NEW r \in Requests, NEW i \in LegsOf(r), NEW leg \in LegRecords,
           SetLeg(r, i, leg), sheet' = sheet,
           request[r].on = "basket"
              => LegCharged(leg, Len(request[r].plan.mints), Atoms(r, i))
    PROVE  PlansInv'
<1>1. RequestsOK
  BY TypeParts DEF PurchaseInv
<1>2. /\ LegsOf(r)' = LegsOf(r)
      /\ \A q \in Requests \ {r} : request'[q] = request[q]
      /\ request'[r] = [request[r] EXCEPT !.legs[i] = leg]
      /\ \A j \in LegsOf(r) : Leg(r, j)' = IF j = i THEN leg ELSE Leg(r, j)
  BY <1>1, SetLegKeeps
<1>3. request'[r].plan = request[r].plan /\ request'[r].on = request[r].on
  BY <1>1, <1>2, RequestFields DEF RequestRecords
<1>4. \A j : Atoms(r, j)' = Atoms(r, j)
  BY <1>3 DEF Atoms
<1>5. ASSUME request[r].on = "basket"
      PROVE  /\ SumOf(request[r].plan.atoms) \in Spends
             /\ \A j \in LegsOf(r) :
                   LegCharged(Leg(r, j)', Len(request[r].plan.mints), Atoms(r, j))
  <2>1. /\ SumOf(request[r].plan.atoms) \in Spends
        /\ \A j \in LegsOf(r) :
              LegCharged(Leg(r, j), Len(request[r].plan.mints), Atoms(r, j))
    BY <1>5 DEF PlansInv, RequestAdds
  <2>2. QED
    BY <1>2, <1>5, <2>1
<1>6. RequestAdds(r)'
  BY <1>2, <1>3, <1>4, <1>5 DEF RequestAdds, LegCharged
<1>7. QED
  BY <1>2, <1>6, PlansFrame DEF KeepsPlan

LEMMA RefuseKeepsPlans ==
    ASSUME PurchaseInv, PlansInv, NEW r \in Requests, Refuse(r), sheet' = sheet
    PROVE  PlansInv'
<1>1. RequestsOK /\ request' = [request EXCEPT ![r].step = "refused"]
  BY TypeParts DEF PurchaseInv, Refuse
<1>2. QED
  BY <1>1, StepKeepsPlans, PlansFrame DEF RequestSteps

\* The fee is set once the wallet was read: a purchase is worth what it spends.
LEMMA ReadBeforeKeepsPlans ==
    ASSUME PurchaseInv, PlansInv, NEW r \in Requests, NEW i \in LegsOf(r), ReadBefore(r, i)
    PROVE  PlansInv'
<1>1. RequestsOK /\ OutsideOK /\ sheet' = sheet /\ Leg(r, i).step = "waiting"
  BY TypeParts DEF PurchaseInv, ReadBefore
<1>2. CASE Refuse(r)
  BY <1>1, <1>2, RefuseKeepsPlans
<1>3. ASSUME NEW worth \in Worths(r, i),
             SetLeg(r, i, [Leg(r, i) EXCEPT !.step = "routing",
                                            !.feeBps = FeeBps(Constituents(r), worth),
                                            !.sol = sol[request[r].wallet]])
      PROVE  PlansInv'
  <2> DEFINE fee == FeeBps(Constituents(r), worth)
             leg == [Leg(r, i) EXCEPT !.step = "routing", !.feeBps = fee,
                                      !.sol = sol[request[r].wallet]]
  <2>1. worth \in Nat /\ Constituents(r) \in Nat
    BY <1>1, LegFields, RequestFields, PurchaseAssumption DEF Worths, Constituents
  <2>2. fee \in 0 .. 25 /\ sol[request[r].wallet] \in Nat
    BY <1>1, <2>1, FeeInRange, RequestFields DEF OutsideOK
  <2>3. request[r].on = "basket" => fee = FeeBps(Len(request[r].plan.mints), Atoms(r, i))
    <3>1. request[r].on = "basket" => request[r].plan.kind = "buy"
      BY DEF PurchaseInv, RequestSound
    <3>2. QED
      BY <3>1 DEF Worths, Constituents
  <2>4. SetLeg(r, i, leg)
    BY <1>3
  <2> HIDE DEF fee
  <2>5. Leg(r, i) \in LegRecords
    BY <1>1, LegFields
  <2>6. /\ leg \in LegRecords /\ leg.step = "routing" /\ leg.feeBps = fee
        /\ leg.message = Leg(r, i).message
    BY <2>2, <2>5 DEF LegRecords
  <2> HIDE DEF leg
  <2>7. request[r].on = "basket" => ~ Leg(r, i).message.tip
    BY <1>1 DEF PlansInv, RequestAdds, LegCharged
  <2>8. request[r].on = "basket"
           => LegCharged(leg, Len(request[r].plan.mints), Atoms(r, i))
    BY <2>3, <2>6, <2>7 DEF LegCharged
  <2>9. QED
    BY <1>1, <2>4, <2>6, <2>8, LegKeepsPlans
<1>4. QED
  BY <1>2, <1>3 DEF ReadBefore

\* A leg past the reading of its wallet is charged as it was, whatever message
\* is built for it: only Sender's messages pay a tip.
LEMMA MovedKeepsPlans ==
    ASSUME PurchaseInv, PlansInv, NEW r \in Requests, NEW i \in LegsOf(r), NEW leg \in LegRecords,
           SetLeg(r, i, leg), sheet' = sheet,
           Leg(r, i).step # "waiting", leg.step # "waiting",
           leg.feeBps = Leg(r, i).feeBps,
           leg.message.tip => HasSender \/ Leg(r, i).message.tip
    PROVE  PlansInv'
<1>1. ASSUME request[r].on = "basket"
      PROVE  LegCharged(leg, Len(request[r].plan.mints), Atoms(r, i))
  <2>1. LegCharged(Leg(r, i), Len(request[r].plan.mints), Atoms(r, i))
    BY <1>1 DEF PlansInv, RequestAdds
  <2>2. QED
    BY <2>1 DEF LegCharged
<1>2. QED
  BY <1>1, LegKeepsPlans

LEMMA RouteKeepsPlans ==
    ASSUME PurchaseInv, PlansInv, NEW r \in Requests, NEW i \in LegsOf(r), Route(r, i)
    PROVE  PlansInv'
<1>1. /\ RequestsOK /\ OutsideOK /\ sheet' = sheet /\ Leg(r, i).step = "routing"
      /\ Leg(r, i) \in LegRecords /\ i \in Nat
  BY TypeParts, LegFields DEF PurchaseInv, Route
<1>2. CASE Refuse(r)
  BY <1>1, <1>2, RefuseKeepsPlans
<1>3. ASSUME NEW built \in Builds(r, i),
             SetLeg(r, i, [Leg(r, i) EXCEPT !.step = "built", !.message = built,
                                            !.needed = SolNeeded(r, i, built)])
      PROVE  PlansInv'
  <2> DEFINE leg == [Leg(r, i) EXCEPT !.step = "built", !.message = built,
                                      !.needed = SolNeeded(r, i, built)]
  <2>1. built \in Messages /\ (built.tip => HasSender)
    BY <1>1, BuiltIsAMessage
  <2>2. SolNeeded(r, i, built) \in Nat
    BY <1>1, <2>1, SolNeededIsNat
  <2>3. /\ leg \in LegRecords /\ leg.step = "built" /\ leg.message = built
        /\ leg.feeBps = Leg(r, i).feeBps
    BY <1>1, <2>1, <2>2 DEF LegRecords
  <2>4. SetLeg(r, i, leg)
    BY <1>3
  <2> HIDE DEF leg
  <2>5. QED
    BY <1>1, <2>1, <2>3, <2>4, MovedKeepsPlans
<1>4. QED
  BY <1>2, <1>3 DEF Route

LEMMA SimulatesKeepsPlans ==
    ASSUME PurchaseInv, PlansInv, NEW r \in Requests, NEW i \in LegsOf(r), Simulates(r, i)
    PROVE  PlansInv'
<1> DEFINE leg == Leg(r, i)
<1>1. /\ RequestsOK /\ sheet' = sheet /\ leg.step # "waiting" /\ leg \in LegRecords
  BY TypeParts, LegFields DEF PurchaseInv, Simulates
<1>2. CASE SetLeg(r, i, Tightened(leg))
  <2>1. Tightened(leg).feeBps = leg.feeBps
    BY <1>1 DEF Tightened, LegRecords
  <2>2. /\ Tightened(leg) \in LegRecords /\ Tightened(leg).step = "tightened"
        /\ Tightened(leg).message.tip = leg.message.tip
    BY <1>1, TightenedIsALeg
  <2>3. QED
    BY <1>1, <1>2, <2>1, <2>2, MovedKeepsPlans
<1>3. CASE SetLeg(r, i, Approved(leg))
  <2>1. Approved(leg).feeBps = leg.feeBps
    BY <1>1 DEF Approved, LegRecords
  <2>2. /\ Approved(leg) \in LegRecords /\ Approved(leg).step = "ready"
        /\ Approved(leg).message = leg.message
    BY <1>1, ApprovedIsALeg
  <2>3. QED
    BY <1>1, <1>3, <2>1, <2>2, MovedKeepsPlans
<1>4. CASE Refuse(r)
  BY <1>1, <1>4, RefuseKeepsPlans
<1>5. QED
  BY <1>2, <1>3, <1>4 DEF Simulates

LEMMA SimulationFailsKeepsPlans ==
    ASSUME PurchaseInv, PlansInv, NEW r \in Requests, NEW i \in LegsOf(r), SimulationFails(r, i)
    PROVE  PlansInv'
<1> DEFINE leg == [Avoided(Leg(r, i)) EXCEPT !.step = "routing"]
<1>1. /\ RequestsOK /\ sheet' = sheet
      /\ Leg(r, i).step # "waiting" /\ Leg(r, i) \in LegRecords
  BY TypeParts, LegFields DEF PurchaseInv, SimulationFails
<1>2. CASE Refuse(r)
  BY <1>1, <1>2, RefuseKeepsPlans
<1>3. CASE SetLeg(r, i, leg)
  <2>1. /\ leg \in LegRecords /\ leg.step = "routing"
        /\ leg.feeBps = Leg(r, i).feeBps /\ leg.message = Leg(r, i).message
    BY <1>1 DEF Avoided, LegRecords
  <2> HIDE DEF leg
  <2>2. QED
    BY <1>1, <1>3, <2>1, MovedKeepsPlans
<1>4. QED
  BY <1>2, <1>3 DEF SimulationFails

LEMMA BatchKeepsPlans ==
    ASSUME PurchaseInv, PlansInv, NEW r \in Requests, StartBatch(r) \/ FinishBatch(r)
    PROVE  PlansInv'
<1>1. RequestsOK /\ sheet' = sheet
  BY TypeParts DEF PurchaseInv, StartBatch, FinishBatch
<1>2. CASE Refuse(r)
  BY <1>1, <1>2, RefuseKeepsPlans
<1>3. CASE request' = [request EXCEPT ![r].step = "answered"]
  BY <1>1, <1>3, StepKeepsPlans, PlansFrame DEF RequestSteps
<1>4. CASE request' = [request EXCEPT ![r].step = "preparing",
                                      ![r].usdc = usdc[request[r].wallet], ![r].server = deployed]
  <2>1. request[r] \in RequestRecords
    BY <1>1, RequestFields
  <2>2. KeepsPlan(r)
    BY <1>1, <1>4, <2>1 DEF RequestsOK, RequestRecords, KeepsPlan
  <2>3. \A q \in Requests \ {r} : KeepsPlan(q)
    BY <1>1, <1>4 DEF RequestsOK, KeepsPlan
  <2>4. QED
    BY <1>1, <2>2, <2>3, PlansFrame
<1>5. QED
  BY <1>2, <1>3, <1>4 DEF StartBatch, FinishBatch

\* The other steps of the pages keep every plan.
LEMMA AnswerKeepsPlans ==
    ASSUME PurchaseInv, PlansInv, NEW r \in Requests, Receive(r) \/ LoseAnswer(r)
    PROVE  PlansInv'
<1>1. PageOK /\ RequestsOK
  BY TypeParts DEF PurchaseInv
<1>2. \/ request' = [request EXCEPT ![r].step = "over"]
      \/ request' = [request EXCEPT ![r].step = "quoted"]
  BY <1>1 DEF Receive, LoseAnswer, RequestsOK
<1>3. \A q \in Requests : KeepsPlan(q)
  BY <1>1, <1>2, StepKeepsPlans DEF RequestSteps
<1>4. \A s \in Surfaces : sheet'[s].plan = sheet[s].plan
  <2> DEFINE t == request[r].on
  <2>1. \/ sheet' = sheet
        \/ \E stage \in Stages : sheet' = [sheet EXCEPT ![t].stage = stage]
        \/ sheet' = [sheet EXCEPT ![t].stage = "review", ![t].prepared = r]
    BY DEF Receive, LoseAnswer, Stages
  <2>2. sheet \in [Surfaces -> Sheets]
    BY <1>1 DEF PageOK, Sheets
  <2> HIDE DEF t
  <2>3. ASSUME NEW stage, sheet' = [sheet EXCEPT ![t].stage = stage]
        PROVE  \A s \in Surfaces : sheet'[s].plan = sheet[s].plan
    BY <2>2, <2>3 DEF Sheets
  <2>4. CASE sheet' = [sheet EXCEPT ![t].stage = "review", ![t].prepared = r]
    BY <2>2, <2>4 DEF Sheets
  <2>5. QED
    BY <2>1, <2>3, <2>4
<1>5. QED
  BY <1>3, <1>4, PlansFrame

LEMMA SignatureKeepsPlans ==
    ASSUME PurchaseInv, PlansInv,
           \/ \E s \in Surfaces : Approve(s)
           \/ \E r \in Requests : NotSent(r) \/ Sign(r)
    PROVE  PlansInv'
<1>1. PageOK /\ request' = request
  BY TypeParts DEF PurchaseInv, Approve, NotSent, Sign
<1>2. \A r \in Requests : RequestAdds(r)'
  BY <1>1, SameRequestsKeep, KeptAdds DEF PlansInv
<1>3. \A s \in Surfaces : s = "basket" => sheet'[s].plan = sheet[s].plan
  <2>1. CASE \E s \in Surfaces : Approve(s)
    BY <1>1, <2>1 DEF Approve, PageOK
  <2>2. CASE \E r \in Requests : NotSent(r)
    BY <1>1, <2>2 DEF NotSent, PageOK
  <2>3. CASE \E r \in Requests : Sign(r)
    BY <1>1, <2>3 DEF Sign, PageOK
  <2>4. QED
    BY <2>1, <2>2, <2>3
<1>4. QED
  BY <1>2, <1>3 DEF PlansInv

LEMMA InitPlans == Init => PlansInv
  BY DEF Init, PlansInv, RequestAdds, NoRequest, Closed

LEMMA NextPlans == PurchaseInv /\ PlansInv /\ [Next]_vars => PlansInv'
<1> SUFFICES ASSUME PurchaseInv, PlansInv, [Next]_vars PROVE PlansInv'
  OBVIOUS
<1>1. CASE PageStep
  BY <1>1, ChooseKeepsPlans, CloseKeepsPlans, AskKeepsPlans, AnswerKeepsPlans,
     SignatureKeepsPlans DEF PageStep
<1>2. ASSUME request' = request, sheet' = sheet PROVE PlansInv'
  BY <1>2, SameRequestsKeep, PlansFrame
<1>3. CASE ServerStep
  <2>1. \A r \in Requests : \A i : Post(r, i) => PlansInv'
    BY <1>2 DEF Post
  <2>2. QED
    BY <1>3, <2>1, BatchKeepsPlans, ReadBeforeKeepsPlans, RouteKeepsPlans,
       SimulatesKeepsPlans, SimulationFailsKeepsPlans DEF ServerStep
<1>4. CASE Redeploy \/ Tick \/ (\E w \in Wallets : Switch(w) \/ Spend(w))
  BY <1>2, <1>4 DEF Redeploy, Tick, Switch, Spend
<1>5. CASE UNCHANGED vars
  BY <1>2, <1>5 DEF vars
<1>6. QED
  BY <1>1, <1>3, <1>4, <1>5 DEF Next

\* splitEvenly and splitByWeights (rules.ts) spend what was typed to the atom,
\* and the fee of a leg, rounded down after tipOffsetBps was rounded up, leaves
\* room for the tip within the plan's tier for as long as it is not nothing.
THEOREM PlansAlwaysAddUp == Spec => []PlanAddsUp
<1>1. ASSUME PurchaseInv, PlansInv, NEW r \in Requests, request[r].on = "basket"
      PROVE  /\ SumOf(request[r].plan.atoms) \in Spends
             /\ \A i \in LegsOf(r) :
                   Leg(r, i).message.tip /\ Leg(r, i).feeBps > 0 =>
                      routingFeeAtoms(Atoms(r, i), Leg(r, i).feeBps) + TipUsdcAtoms
                         <= routingFeeAtoms(Atoms(r, i),
                                            routingFeeBps(Len(request[r].plan.mints)))
  <2>1. RequestsOK /\ RequestAdds(r)
    BY <1>1, TypeParts DEF PurchaseInv, PlansInv
  <2>2. Len(request[r].plan.mints) \in Nat
    BY <2>1, RequestFields
  <2>3. ASSUME NEW i \in LegsOf(r), Leg(r, i).message.tip, Leg(r, i).feeBps > 0
        PROVE  routingFeeAtoms(Atoms(r, i), Leg(r, i).feeBps) + TipUsdcAtoms
                  <= routingFeeAtoms(Atoms(r, i), routingFeeBps(Len(request[r].plan.mints)))
    <3>1. Atoms(r, i) \in Nat
      BY <2>1, LegFields
    <3>2. HasSender /\ Leg(r, i).feeBps = FeeBps(Len(request[r].plan.mints), Atoms(r, i))
      BY <1>1, <2>1, <2>3 DEF RequestAdds, LegCharged
    <3>3. QED
      BY <2>2, <2>3, <3>1, <3>2, FeeBearsTheTip
  <2>4. QED
    BY <1>1, <2>1, <2>3 DEF RequestAdds
<1>2. PurchaseInv /\ PlansInv => PlanAddsUp
  BY <1>1 DEF PlanAddsUp
<1>3. Spec => []PlansInv
  BY InitPlans, NextPlans, PurchaseInvariant, PTL DEF Spec
<1>4. QED
  BY <1>2, <1>3, PurchaseInvariant, PTL
=============================================================================
