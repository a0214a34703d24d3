-------------------------- MODULE HallClaimsProofs --------------------------
(***************************************************************************)
(* Theorems about what the Hall owes: the claims on a leg are covered,     *)
(* whatever issuers seize, so every share can be melted and every claim    *)
(* withdrawn.  For every set of wallets and every choice of the bounds.    *)
(***************************************************************************)
EXTENDS HallProofs

-----------------------------------------------------------------------------
(* What a sync does to the claims on a leg: nothing, or it voids them all  *)
(* with a new epoch, or it cuts the index by at least as much as unclaimed.*)

Cuts(leg, after) ==
    \/ /\ after.unclaimed = leg.unclaimed
       /\ Index(after) = Index(leg)
       /\ after.claim_epoch = leg.claim_epoch
    \/ after.claim_epoch > leg.claim_epoch
    \/ /\ after.claim_epoch = leg.claim_epoch
       /\ leg.unclaimed > 0
       /\ leg.unclaimed * Index(after) <= Index(leg) * after.unclaimed

\* ShrinkClaims rounds the index down, so it falls at least as unclaimed does.
LEMMA ShrinkCuts ==
    ASSUME NEW leg \in Leg, NEW before \in Leg, leg.unclaimed <= before.unclaimed,
           Index(leg) = Index(before), leg.claim_epoch = before.claim_epoch
    PROVE  Cuts(before, ShrinkClaims(leg, before.unclaimed))
<1> DEFINE index == MulDivFloor(Index(leg), leg.unclaimed, before.unclaimed)
           lowered == [leg EXCEPT !.claim_index = index]
           after == ShrinkClaims(leg, before.unclaimed)
<1>1. CASE leg.unclaimed = before.unclaimed
  BY <1>1 DEF ShrinkClaims, Cuts
<1>2. CASE leg.unclaimed # before.unclaimed /\ (leg.unclaimed = 0 \/ index = 0)
  <2>1. after = StartNewEpoch(leg)
    BY <1>2 DEF ShrinkClaims
  <2>2. after.claim_epoch = leg.claim_epoch + 1
    BY <2>1 DEF StartNewEpoch, Leg
  <2>3. QED
    BY <2>2 DEF Cuts, Leg
<1>3. CASE leg.unclaimed # before.unclaimed /\ leg.unclaimed # 0 /\ index # 0
  <2>1. before.unclaimed \in Nat \ {0} /\ leg.unclaimed \in Nat
    BY <1>3 DEF Leg
  <2>2. Index(leg) \in Nat
    BY RecipeAssumption DEF Index, Leg
  <2>3. Index(leg) * leg.unclaimed \in Nat
    BY <2>1, <2>2, SMT
  <2>4. before.unclaimed * index <= Index(leg) * leg.unclaimed
    BY <2>1, <2>3, DivFloor DEF MulDivFloor
  <2> HIDE DEF index
  <2>5. after = lowered
    BY <1>3 DEF ShrinkClaims, index
  <2>6. /\ lowered.unclaimed = leg.unclaimed
        /\ lowered.claim_epoch = leg.claim_epoch
        /\ lowered.claim_index = index
    BY DEF Leg
  <2> HIDE DEF lowered, after
  <2>7. Index(after) = index
    BY <2>5, <2>6, <1>3 DEF Index
  <2>8. Cuts(before, after)
    BY <2>1, <2>4, <2>5, <2>6, <2>7 DEF Cuts
  <2>9. QED
    BY <2>8 DEF after
<1>4. QED
  BY <1>1, <1>2, <1>3

\* A deficit reaches unclaimed last, and cuts it as ShrinkClaims does.
LEMMA DeficitCuts ==
    ASSUME NEW leg \in Leg, NEW deficit \in 1 .. Expected(leg)
    PROVE  Cuts(leg, ApplyDeficit(leg, deficit))
<1> DEFINE r == AfterPending(leg, deficit)
<1>1. CASE deficit <= leg.pending
  <2>1. r = 0
    BY <1>1 DEF AfterPending, Leg, Expected
  <2>2. ApplyDeficit(leg, deficit) = [leg EXCEPT !.pending = leg.pending - deficit]
    BY <2>1 DEF ApplyDeficit
  <2>3. QED
    BY <2>2 DEF Cuts, Index, Leg
<1>2. CASE deficit > leg.pending
  <2> DEFINE f == FromUnclaimed(leg, r)
             reduced == [leg EXCEPT !.pending = 0,
                                    !.ledger = leg.ledger - (r - f),
                                    !.unclaimed = leg.unclaimed - f]
  <2>1. /\ r \in Nat \ {0}
        /\ r <= leg.ledger + leg.unclaimed
    BY <1>2 DEF AfterPending, Leg, Expected
  <2>2. f \in 0 .. leg.unclaimed /\ f <= r /\ r - f <= leg.ledger
    BY <2>1, DeficitSplits
  <2>3. ApplyDeficit(leg, deficit) = ShrinkClaims(reduced, leg.unclaimed)
    BY <2>1 DEF ApplyDeficit
  <2> HIDE DEF f, r
  <2>4. reduced \in Leg
    <3>1. leg.ledger - (r - f) \in Nat /\ leg.unclaimed - f \in Nat
      BY <2>1, <2>2 DEF Leg
    <3>2. QED
      BY <3>1, EditLegThrice
  <2>5. /\ reduced.unclaimed = leg.unclaimed - f
        /\ reduced.claim_epoch = leg.claim_epoch
        /\ reduced.claim_index = leg.claim_index
    BY DEF Leg
  <2> HIDE DEF reduced
  <2>6. Index(reduced) = Index(leg) /\ reduced.unclaimed <= leg.unclaimed
    BY <2>2, <2>5 DEF Index, Leg
  <2>7. QED
    BY <2>3, <2>4, <2>5, <2>6, ShrinkCuts
<1>3. QED
  BY <1>1, <1>2 DEF Leg, Expected

\* So does a whole sync, whatever the balance and the time.
LEMMA SyncCuts ==
    ASSUME NEW leg \in Leg, NEW actual \in Nat, NEW t \in Nat
    PROVE  Cuts(leg, Sync(leg, actual, t))
<1> DEFINE folded == FoldVested(leg, t)
<1>1. /\ folded \in Leg
      /\ folded.unclaimed = leg.unclaimed
      /\ folded.claim_index = leg.claim_index
      /\ folded.claim_epoch = leg.claim_epoch
  BY FoldFacts
<1>2. Index(folded) = Index(leg) /\ Expected(folded) \in Nat
  BY <1>1 DEF Index, Expected, Leg
<1>3. CASE actual > Expected(folded)
  <2> DEFINE after == Credit(folded, actual - Expected(folded), t)
  <2>1. Sync(leg, actual, t) = after
    BY <1>3 DEF Sync
  <2> HIDE DEF folded
  <2>2. /\ after.unclaimed = folded.unclaimed
        /\ after.claim_index = folded.claim_index
        /\ after.claim_epoch = folded.claim_epoch
    BY <1>1 DEF Credit, Leg
  <2> HIDE DEF after
  <2>3. QED
    BY <1>1, <1>2, <2>1, <2>2 DEF Cuts, Index
<1>4. CASE actual < Expected(folded)
  <2> DEFINE d == Expected(folded) - actual
  <2>1. d \in 1 .. Expected(folded)
    BY <1>2, <1>4
  <2>2. Sync(leg, actual, t) = ApplyDeficit(folded, d)
    BY <1>2, <1>4 DEF Sync
  <2> HIDE DEF folded, d
  <2>3. Cuts(folded, ApplyDeficit(folded, d))
    BY <1>1, <2>1, DeficitCuts
  <2>4. QED
    BY <1>1, <1>2, <2>2, <2>3 DEF Cuts
<1>5. CASE actual = Expected(folded)
  <2>1. Sync(leg, actual, t) = folded
    BY <1>2, <1>5 DEF Sync
  <2>2. QED
    BY <1>1, <1>2, <2>1 DEF Cuts
<1>6. QED
  BY <1>2, <1>3, <1>4, <1>5

-----------------------------------------------------------------------------
(* What a claim is worth. *)

LEMMA WorthIsNat ==
    ASSUME NEW k \in Nat, NEW claim \in ClaimLeg, NEW leg \in Leg,
           SettleAccepts(claim, leg)
    PROVE  Worth(k, claim, leg) \in Nat
<1>1. Index(leg) \in Nat
  BY RecipeAssumption DEF Index, Leg
<1>2. CASE claim.units = 0 \/ claim.epoch < leg.claim_epoch
  BY <1>2 DEF Worth
<1>3. CASE ~ (claim.units = 0 \/ claim.epoch < leg.claim_epoch)
  <2>1. claim.index \in Nat \ {0} /\ claim.units \in Nat
    BY <1>3 DEF SettleAccepts, ClaimLeg
  <2>2. k * claim.units * Index(leg) \in Nat
    BY <1>1, <2>1, SMT
  <2>3. (k * claim.units * Index(leg)) \div claim.index \in Nat
    BY <2>1, <2>2, DivFloor
  <2>4. QED
    BY <1>3, <2>3 DEF Worth
<1>4. QED
  BY <1>2, <1>3

(* An index that fell with unclaimed cuts what each claim is worth alike.  *)
LEMMA WorthIsCut ==
    ASSUME NEW k \in Nat, NEW claim \in ClaimLeg, NEW leg \in Leg, NEW after \in Leg,
           SettleAccepts(claim, leg), SettleAccepts(claim, after),
           after.claim_epoch = leg.claim_epoch,
           leg.unclaimed * Index(after) <= Index(leg) * after.unclaimed
    PROVE  leg.unclaimed * Worth(k, claim, after)
             <= Worth(k * after.unclaimed, claim, leg)
<1> DEFINE u == leg.unclaimed
           v == after.unclaimed
           i == Index(leg)
           j == Index(after)
           n == claim.units
           d == claim.index
<1>1. u \in Nat /\ v \in Nat /\ i \in Nat /\ j \in Nat /\ n \in Nat /\ d \in Nat
  BY RecipeAssumption DEF Index, Leg, ClaimLeg
<1>2. CASE n = 0 \/ claim.epoch < leg.claim_epoch
  BY <1>1, <1>2, SMT DEF Worth
<1>3. CASE ~ (n = 0 \/ claim.epoch < leg.claim_epoch)
  <2> DEFINE x == (k * n * j) \div d
             y == (k * v * n * i) \div d
  <2>1. /\ Worth(k, claim, after) = x
        /\ Worth(k * v, claim, leg) = y
    BY <1>3 DEF Worth
  <2>2. d \in Nat \ {0}
    BY <1>1, <1>3 DEF SettleAccepts
  <2>3. u * j <= i * v
    OBVIOUS
  <2> HIDE DEF u, v, i, j, n, d
  <2>4. k * n * j \in Nat /\ k * v * n * i \in Nat /\ k * n \in Nat
    BY <1>1, SMT
  <2>5. x \in Nat /\ d * x <= k * n * j
    BY <2>2, <2>4, DivFloor
  <2> HIDE DEF x
  <2>6. d * (u * x) <= k * v * n * i
    <3>1. d * (u * x) = u * (d * x) /\ d * x \in Nat
      BY <1>1, <2>2, <2>5, SMT
    <3>2. u * (d * x) <= u * (k * n * j)
      <4> DEFINE a == d * x
                 b == k * n * j
      <4> HIDE DEF a, b
      <4>1. a \in Nat /\ b \in Nat /\ a <= b => u * a <= u * b
        BY <1>1, SMT
      <4>2. QED
        BY <2>4, <2>5, <3>1, <4>1 DEF a, b
    <3>3. u * (k * n * j) = (k * n) * (u * j)
      BY <1>1, SMT
    <3>4. (k * n) * (u * j) <= (k * n) * (i * v)
      <4> DEFINE a == u * j
                 b == i * v
                 m == k * n
      <4>1. a \in Nat /\ b \in Nat
        BY <1>1, SMT
      <4> HIDE DEF a, b, m
      <4>2. a \in Nat /\ b \in Nat /\ m \in Nat /\ a <= b => m * a <= m * b
        BY SMT
      <4>3. QED
        BY <2>3, <2>4, <4>1, <4>2 DEF a, b, m
    <3>5. (k * n) * (i * v) = k * v * n * i
      BY <1>1, SMT
    <3>6. u * (d * x) \in Int /\ u * (k * n * j) \in Int /\ (k * n) * (i * v) \in Int
      BY <1>1, <2>5, <3>1, SMT
    <3>7. QED
      BY <3>1, <3>2, <3>3, <3>4, <3>5, <3>6
  <2>7. u * x \in Int
    BY <1>1, <2>5, SMT
  <2>8. u * x <= y
    BY <2>2, <2>4, <2>6, <2>7, FitsFloor
  <2>9. QED
    BY <2>1, <2>8 DEF u, v, x
<1>4. QED
  BY <1>2, <1>3

\* A product is divided again without loss.
LEMMA DivBack ==
    ASSUME NEW a \in Nat, NEW i \in Nat \ {0}
    PROVE  (a * i) \div i = a
<1> DEFINE q == (a * i) \div i
<1>1. a * i \in Nat
  BY SMT
<1>2. q \in Nat /\ i * q <= a * i /\ a * i < i * q + i
  BY <1>1, DivFloor
<1> HIDE DEF q
<1>3. i * q \in Nat
  BY <1>2, SMT
<1>4. ~ (q >= a + 1)
  <2>1. SUFFICES ASSUME q >= a + 1 PROVE FALSE
    OBVIOUS
  <2>2. i * q >= i * (a + 1) /\ i * (a + 1) = a * i + i
    BY <1>2, <2>1, SMT
  <2>3. QED
    BY <1>1, <1>2, <1>3, <2>2
<1>5. ~ (q + 1 <= a)
  <2>1. SUFFICES ASSUME q + 1 <= a PROVE FALSE
    OBVIOUS
  <2>2. i * (q + 1) <= i * a /\ i * (q + 1) = i * q + i /\ i * a = a * i
    BY <1>2, <2>1, SMT
  <2>3. QED
    BY <1>1, <1>2, <1>3, <2>2
<1>6. q = a
  BY <1>2, <1>4, <1>5
<1>7. QED
  BY <1>6 DEF q

(* A claim that was settled at the leg's own index, then credited or paid  *)
(* m, is worth at most m more than before.                                 *)
LEMMA WorthMoves ==
    ASSUME NEW k \in Nat, NEW claim \in ClaimLeg, NEW leg \in Leg,
           SettleAccepts(claim, leg), NEW m \in Int, NEW after \in ClaimLeg,
           after.units = SettledUnits(claim, leg) + m,
           after.index = Index(leg), after.epoch = leg.claim_epoch
    PROVE  Worth(k, after, leg) <= Worth(k, claim, leg) + k * m
<1> DEFINE i == Index(leg)
           s == SettledUnits(claim, leg)
           u == after.units
           n == claim.units
           d == claim.index
<1>1. i \in Nat \ {0} /\ s \in Nat /\ u \in Nat /\ n \in Nat /\ d \in Nat
  BY SettledFacts, RecipeAssumption DEF Index, Leg, ClaimLeg
<1>2. Worth(k, after, leg) = k * u
  <2>1. CASE u = 0
    BY <1>1, <2>1, SMT DEF Worth
  <2>2. CASE u # 0
    <3>1. Worth(k, after, leg) = (k * u * i) \div i
      BY <2>2 DEF Worth, Leg
    <3> HIDE DEF i, u
    <3>2. (k * u * i) \div i = k * u
      <4> DEFINE a == k * u
      <4>1. a \in Nat
        BY <1>1, SMT
      <4> HIDE DEF a
      <4>2. (a * i) \div i = a
        BY <1>1, <4>1, DivBack
      <4>3. QED
        BY <4>2 DEF a
    <3>3. QED
      BY <3>1, <3>2 DEF i, u
  <2>3. QED
    BY <2>1, <2>2
<1>3. k * s <= Worth(k, claim, leg)
  <2>1. CASE n = 0 \/ claim.epoch < leg.claim_epoch
    BY <2>1, SMT DEF Worth, SettledUnits
  <2>2. CASE ~ (n = 0 \/ claim.epoch < leg.claim_epoch)
    <3>1. d \in Nat \ {0}
      BY <1>1, <2>2 DEF SettleAccepts
    <3>2. s = (n * i) \div d /\ Worth(k, claim, leg) = (k * n * i) \div d
      BY <2>2 DEF SettledUnits, Worth, MulDivFloor
    <3> HIDE DEF i, n, d, s
    <3>3. n * i \in Nat /\ k * n * i \in Nat
      BY <1>1, SMT
    <3>4. d * s <= n * i
      BY <3>1, <3>2, <3>3, DivFloor
    <3>5. d * (k * s) <= k * n * i
      <4>1. d * (k * s) = k * (d * s) /\ k * n * i = k * (n * i) /\ d * s \in Nat
        BY <1>1, <3>1, SMT
      <4> DEFINE a == d * s
                 b == n * i
      <4> HIDE DEF a, b
      <4>2. a \in Nat /\ b \in Nat /\ a <= b => k * a <= k * b
        BY SMT
      <4>3. QED
        BY <3>3, <3>4, <4>1, <4>2 DEF a, b
    <3>6. k * s \in Int
      BY <1>1, SMT
    <3>7. QED
      BY <3>1, <3>2, <3>3, <3>5, <3>6, FitsFloor
  <2>3. QED
    BY <2>1, <2>2
<1>4. k * u = k * s + k * m
  BY <1>1, SMT
<1>5. Worth(k, claim, leg) \in Nat /\ k * u \in Int /\ k * s \in Int /\ k * m \in Int
  BY <1>1, WorthIsNat, SMT
<1> HIDE DEF s, u
<1>6. QED
  BY <1>2, <1>3, <1>4, <1>5

(* Settled now, a claim is what it is worth once.                          *)
LEMMA WorthOnce ==
    ASSUME NEW claim \in ClaimLeg, NEW leg \in Leg
    PROVE  Worth(1, claim, leg) = SettledUnits(claim, leg)
<1>1. 1 * claim.units = claim.units
  BY DEF ClaimLeg
<1>2. QED
  BY <1>1 DEF Worth, SettledUnits, MulDivFloor

-----------------------------------------------------------------------------
(* What covers claims keeps covering them. *)

Settleable(entries, leg) ==
    \A w \in Wallets : entries[w] \in ClaimLeg /\ SettleAccepts(entries[w], leg)

\* Covers, as a sum over the set of wallets.
LEMMA CoversMeans ==
    ASSUME NEW leg, NEW entries
    PROVE  Covers(leg, entries) <=>
             \A k \in Nat :
               SumFunctionOnSet([w \in Wallets |-> Worth(k, entries[w], leg)], Wallets)
                 <= k * leg.unclaimed
<1>1. ASSUME NEW k \in Nat
      PROVE  SumFunction([w \in Wallets |-> Worth(k, entries[w], leg)]) =
             SumFunctionOnSet([w \in Wallets |-> Worth(k, entries[w], leg)], Wallets)
  BY DEF SumFunction
<1>2. QED
  BY <1>1 DEF Covers

(* Claims that stand for nothing are covered by anything.                  *)
LEMMA NothingIsCovered ==
    ASSUME NEW leg \in Leg, NEW entries,
           \A w \in Wallets : entries[w].units = 0 \/ entries[w].epoch < leg.claim_epoch
    PROVE  Covers(leg, entries)
<1>1. ASSUME NEW k \in Nat
      PROVE  SumFunctionOnSet([w \in Wallets |-> Worth(k, entries[w], leg)], Wallets)
               <= k * leg.unclaimed
  <2> DEFINE f == [w \in Wallets |-> Worth(k, entries[w], leg)]
             z == [w \in Wallets |-> IF w = 0 THEN 0 ELSE 0]
  <2>1. f = z
    BY DEF Worth
  <2>2. SumFunctionOnSet(z, Wallets) = 0
    BY SumOfOne, HallAssumption, 0 \in Int
  <2>3. k * leg.unclaimed \in Nat
    BY SMT DEF Leg
  <2> HIDE DEF f, z
  <2>4. SumFunctionOnSet(f, Wallets) = 0
    BY <2>1, <2>2
  <2>5. SumFunctionOnSet(f, Wallets) <= k * leg.unclaimed
    BY <2>3, <2>4
  <2>6. QED
    BY <2>5 DEF f
<1>2. QED
  BY <1>1, CoversMeans

\* A cut leaves the claims covered.
LEMMA CutCovers ==
    ASSUME NEW leg \in Leg, NEW after \in Leg, NEW entries, Covers(leg, entries),
           Settleable(entries, leg), Settleable(entries, after), Cuts(leg, after)
    PROVE  Covers(after, entries)
<1>1. CASE /\ after.unclaimed = leg.unclaimed
           /\ Index(after) = Index(leg)
           /\ after.claim_epoch = leg.claim_epoch
  <2>1. \A k \in Nat : [w \in Wallets |-> Worth(k, entries[w], after)] =
                       [w \in Wallets |-> Worth(k, entries[w], leg)]
    BY <1>1 DEF Worth
  <2>2. QED
    BY <1>1, <2>1 DEF Covers
<1>2. CASE after.claim_epoch > leg.claim_epoch
  <2>1. \A w \in Wallets : entries[w].units = 0 \/ entries[w].epoch < after.claim_epoch
    BY <1>2 DEF Settleable, SettleAccepts, ClaimLeg, Leg
  <2>2. QED
    BY <2>1, NothingIsCovered
<1>3. CASE /\ after.claim_epoch = leg.claim_epoch
           /\ leg.unclaimed > 0
           /\ leg.unclaimed * Index(after) <= Index(leg) * after.unclaimed
  <2> DEFINE u == leg.unclaimed
             v == after.unclaimed
  <2>1. u \in Nat \ {0} /\ v \in Nat
    BY <1>3 DEF Leg
  <2>2. ASSUME NEW k \in Nat
        PROVE  SumFunctionOnSet([w \in Wallets |-> Worth(k, entries[w], after)], Wallets)
                 <= k * v
    <3> DEFINE g == [w \in Wallets |-> Worth(k, entries[w], after)]
               f == [w \in Wallets |-> Worth(k * v, entries[w], leg)]
    <3>1. k * v \in Nat
      BY <2>1, SMT
    <3>2. \A w \in Wallets : f[w] \in Int /\ g[w] \in Int /\ u * g[w] <= f[w]
      <4> TAKE w \in Wallets
      <4>1. /\ entries[w] \in ClaimLeg
            /\ SettleAccepts(entries[w], leg) /\ SettleAccepts(entries[w], after)
        BY DEF Settleable
      <4>2. Worth(k, entries[w], after) \in Nat /\ Worth(k * v, entries[w], leg) \in Nat
        BY <3>1, <4>1, WorthIsNat
      <4>3. u * Worth(k, entries[w], after) <= Worth(k * v, entries[w], leg)
        BY <1>3, <4>1, WorthIsCut
      <4>4. QED
        BY <4>2, <4>3
    <3>3. SumFunctionOnSet(f, Wallets) <= (k * v) * u
      BY <3>1, CoversMeans
    <3> HIDE DEF f, g, u, v
    <3>4. u * SumFunctionOnSet(g, Wallets) <= SumFunctionOnSet(f, Wallets)
      BY <2>1, <3>2, ScaledSums, HallAssumption
    <3>5. SumFunctionOnSet(g, Wallets) \in Int /\ SumFunctionOnSet(f, Wallets) \in Int
      BY <3>2, SumIsInt, HallAssumption
    <3> DEFINE x == SumFunctionOnSet(g, Wallets)
               y == SumFunctionOnSet(f, Wallets)
               z == k * v
    <3> HIDE DEF x, y, z
    <3>6. /\ x \in Int /\ y \in Int /\ z \in Nat /\ u \in Nat \ {0}
          /\ u * x <= y /\ y <= z * u
      BY <2>1, <3>1, <3>3, <3>4, <3>5 DEF x, y, z
    <3>7. x <= z
      <4>1. SUFFICES ASSUME x >= z + 1 PROVE FALSE
        BY <3>6
      <4>2. u * x >= u * (z + 1) /\ u * (z + 1) = z * u + u
        BY <3>6, <4>1, SMT
      <4>3. u * x \in Int /\ z * u \in Int
        BY <3>6, SMT
      <4>4. QED
        BY <3>6, <4>2, <4>3
    <3>8. QED
      BY <3>7 DEF x, z, g
  <2>3. QED
    BY <2>2, CoversMeans
<1>4. QED
  BY <1>1, <1>2, <1>3 DEF Cuts

(* So does a leg that is synced, then credits one claim or pays it, and    *)
(* adds to unclaimed or takes from it as much.                             *)
LEMMA PaidCovers ==
    ASSUME NEW leg \in Leg, NEW after \in Leg, NEW entries, NEW entries1,
           Covers(leg, entries), Settleable(entries, leg), Settleable(entries1, leg),
           NEW w \in Wallets, NEW m \in Int,
           \A v \in Wallets \ {w} : entries1[v] = entries[v],
           entries1[w].units = SettledUnits(entries[w], leg) + m,
           entries1[w].index = Index(leg), entries1[w].epoch = leg.claim_epoch,
           Index(after) = Index(leg), after.claim_epoch = leg.claim_epoch,
           after.unclaimed = leg.unclaimed + m
    PROVE  Covers(after, entries1)
<1>1. ASSUME NEW k \in Nat
      PROVE  SumFunctionOnSet([v \in Wallets |-> Worth(k, entries1[v], after)], Wallets)
               <= k * after.unclaimed
  <2> DEFINE f == [v \in Wallets |-> Worth(k, entries[v], leg)]
             g == [v \in Wallets |-> Worth(k, entries1[v], after)]
  <2>1. \A v \in Wallets : Worth(k, entries1[v], after) = Worth(k, entries1[v], leg)
    BY DEF Worth
  <2>2. \A v \in Wallets : f[v] \in Int /\ g[v] \in Int
    BY <2>1, WorthIsNat DEF Settleable
  <2>3. g[w] <= f[w] + k * m
    BY <2>1, WorthMoves DEF Settleable
  <2>4. \A v \in Wallets \ {w} : g[v] <= f[v]
    BY <2>1, <2>2
  <2>5. SumFunctionOnSet(f, Wallets) <= k * leg.unclaimed
    BY CoversMeans
  <2>6. k * m \in Int
    BY SMT
  <2> HIDE DEF f, g
  <2>7. SumFunctionOnSet(g, Wallets) <= SumFunctionOnSet(f, Wallets) + k * m
    BY <2>2, <2>3, <2>4, <2>6, OneMoves, HallAssumption
  <2>8. SumFunctionOnSet(g, Wallets) \in Int /\ SumFunctionOnSet(f, Wallets) \in Int
    BY <2>2, SumIsInt, HallAssumption
  <2>9. k * after.unclaimed = k * leg.unclaimed + k * m /\ k * leg.unclaimed \in Int
    BY SMT DEF Leg
  <2>10. QED
    BY <2>5, <2>6, <2>7, <2>8, <2>9 DEF g
<1>2. QED
  BY <1>1, CoversMeans

-----------------------------------------------------------------------------
(* Every step keeps the claims on every leg covered. *)

Entries(c) == [w \in Wallets |-> claims[w][c]]

\* Every claim can be settled against its leg, as written and once synced.
LEMMA EntriesSettle ==
    ASSUME ReconcileInv, NEW c \in Constituents
    PROVE  Settleable(Entries(c), legs[c]) /\ Settleable(Entries(c), Synced[c])
<1>1. \A w \in Wallets : /\ claims[w][c] \in ClaimLeg
                         /\ SettleAccepts(claims[w][c], legs[c])
                         /\ SettleAccepts(claims[w][c], Synced[c])
  BY SyncedFacts DEF ReconcileInv, TypeOK
<1>2. QED
  BY <1>1 DEF Settleable, Entries

\* A sync leaves the claims on its leg covered.
LEMMA SyncedCovers ==
    ASSUME ReconcileInv, ClaimsInv, NEW c \in Constituents
    PROVE  Covers(Synced[c], Entries(c))
<1>1. /\ legs[c] \in Leg /\ balance[c] \in Nat /\ now \in Nat
      /\ Synced[c] \in Leg /\ Synced[c] = Sync(legs[c], balance[c], now)
  BY SyncedFacts, RecipeAssumption DEF ReconcileInv, TypeOK, Amount
<1>2. Cuts(legs[c], Synced[c])
  BY <1>1, SyncCuts
<1>3. Covers(legs[c], Entries(c))
  BY DEF ClaimsInv, Entries
<1>4. QED
  BY <1>1, <1>2, <1>3, EntriesSettle, CutCovers

(* A claim that was settled and then credited or paid. *)
LEMMA PaidEntry ==
    ASSUME NEW claim \in ClaimLeg, NEW leg \in Leg, NEW units \in Nat
    PROVE  /\ CreditClaim(claim, leg, units).units = SettledUnits(claim, leg) + units
           /\ CreditClaim(claim, leg, units).index = Index(leg)
           /\ CreditClaim(claim, leg, units).epoch = leg.claim_epoch
           /\ WithdrawClaim(claim, leg, units).units = SettledUnits(claim, leg) - units
           /\ WithdrawClaim(claim, leg, units).index = Index(leg)
           /\ WithdrawClaim(claim, leg, units).epoch = leg.claim_epoch
<1> DEFINE settled == Settle(claim, leg)
<1>1. /\ settled.units = SettledUnits(claim, leg)
      /\ settled.index = Index(leg)
      /\ settled.epoch = leg.claim_epoch
      /\ DOMAIN settled = {"units", "index", "epoch"}
  BY DEF Settle, Rebase, ClaimLeg
<1> HIDE DEF settled
<1>2. QED
  BY <1>1 DEF CreditClaim, WithdrawClaim, settled

(* A leg that lasts, with the claims on it, or changes in neither index,   *)
(* epoch nor unclaimed, keeps them covered.                                *)
LEMMA KeptCovers ==
    ASSUME ReconcileInv, ClaimsInv, ReconcileInv', NEW c \in Constituents,
           NEW leg \in {legs[c], Synced[c]},
           \A w \in Wallets : claims'[w][c] = claims[w][c],
           legs'[c].unclaimed = leg.unclaimed,
           Index(legs'[c]) = Index(leg),
           legs'[c].claim_epoch = leg.claim_epoch
    PROVE  Covers(legs'[c], Entries(c)')
<1>1. Entries(c)' = Entries(c)
  BY DEF Entries
<1>2. Covers(leg, Entries(c))
  BY SyncedCovers DEF ClaimsInv, Entries
<1>3. \A k \in Nat : [w \in Wallets |-> Worth(k, Entries(c)[w], legs'[c])] =
                     [w \in Wallets |-> Worth(k, Entries(c)[w], leg)]
  BY DEF Worth
<1>4. QED
  BY <1>1, <1>2, <1>3 DEF Covers

LEMMA FoundedCovers ==
    ASSUME ReconcileInv, ReconcileInv', Sponsor, NEW c \in Constituents
    PROVE  Covers(legs'[c], Entries(c)')
<1>1. \A w \in Wallets : claims'[w][c].units = 0
  BY DEF Sponsor, InitializeAlloy, ReconcileInv
<1>2. \A w \in Wallets : Entries(c)'[w].units = 0
  BY <1>1 DEF Entries
<1>3. legs'[c] \in Leg
  BY DEF ReconcileInv, TypeOK
<1>4. QED
  BY <1>2, <1>3, NothingIsCovered

LEMMA StrikeCovers ==
    ASSUME ReconcileInv, ClaimsInv, ReconcileInv', NEW c \in Constituents,
           NEW w \in Wallets, NEW n \in 1 .. MaxU64,
           NEW maximums \in [Constituents -> Maximums], Create(w, n, maximums)
    PROVE  Covers(legs'[c], Entries(c)')
<1>1. Synced[c] \in Leg
  BY SyncedFacts
<1>2. /\ legs'[c].unclaimed = Synced[c].unclaimed
      /\ legs'[c].claim_index = Synced[c].claim_index
      /\ legs'[c].claim_epoch = Synced[c].claim_epoch
      /\ claims' = claims
  BY <1>1 DEF Create, ApplyCreate, Leg
<1>3. Index(legs'[c]) = Index(Synced[c])
  BY <1>2 DEF Index
<1>4. QED
  BY <1>2, <1>3, KeptCovers

LEMMA MeltCovers ==
    ASSUME ReconcileInv, ClaimsInv, ReconcileInv', NEW c \in Constituents,
           NEW w \in Wallets, NEW n \in 1 .. MaxU64, Redeem(w, n)
    PROVE  Covers(legs'[c], Entries(c)')
<1> DEFINE units == Out(Synced[c], n, supply)
           leg == Synced[c]
           after == Melted(n)[c]
<1>1. leg \in Leg /\ n \in Nat /\ supply \in Nat \ {0} /\ n <= supply
  BY SyncedFacts, RecipeAssumption
  DEF Redeem, RedeemChecks, RedeemAccepts, ReconcileInv, TypeOK
<1>2. after = ApplyRedeem(leg, units) /\ legs'[c] = after
  BY DEF Melted, Redeem
<1>3. /\ units \in 0 .. leg.ledger
      /\ after \in Leg
      /\ after.claim_epoch = leg.claim_epoch
      /\ Index(after) = Index(leg)
  BY <1>1, <1>2, MeltFacts
<1>4. units \in Nat
  BY <1>1, <1>3 DEF Leg
<1> HIDE DEF units
<1>5. after.unclaimed = leg.unclaimed + units
  BY <1>1, <1>2 DEF ApplyRedeem, Leg
<1>6. claims = [v \in Wallets |-> [k \in Constituents |-> claims[v][k]]]
  BY DEF ReconcileInv, TypeOK
<1>7. \A v \in Wallets : claims'[v][c] =
         IF v = w THEN CreditClaim(claims[w][c], after, units) ELSE claims[v][c]
  BY <1>6 DEF Redeem, units
<1> HIDE DEF after, leg
<1>8. claims[w][c] \in ClaimLeg
  BY DEF ReconcileInv, TypeOK
<1>9. SettledUnits(claims[w][c], after) = SettledUnits(claims[w][c], leg)
  BY <1>3 DEF SettledUnits
<1>10. /\ claims'[w][c].units = SettledUnits(claims[w][c], leg) + units
       /\ claims'[w][c].index = Index(leg)
       /\ claims'[w][c].epoch = leg.claim_epoch
  BY <1>3, <1>4, <1>7, <1>8, <1>9, PaidEntry
<1>11. Settleable(Entries(c)', leg)
  <2>1. \A v \in Wallets : /\ claims'[v][c] \in ClaimLeg
                           /\ SettleAccepts(claims'[v][c], after)
    BY <1>2 DEF ReconcileInv, TypeOK
  <2>2. \A v \in Wallets : SettleAccepts(claims'[v][c], leg)
    BY <1>3, <2>1 DEF SettleAccepts
  <2>3. QED
    BY <2>1, <2>2 DEF Settleable, Entries
<1>12. Covers(leg, Entries(c)) /\ Settleable(Entries(c), leg)
  BY SyncedCovers, EntriesSettle DEF leg
<1>13. \A v \in Wallets : Entries(c)'[v] = claims'[v][c] /\ Entries(c)[v] = claims[v][c]
  BY DEF Entries
<1>14. Covers(after, Entries(c)')
  <2>1. /\ \A v \in Wallets \ {w} : Entries(c)'[v] = Entries(c)[v]
        /\ Entries(c)'[w].units = SettledUnits(Entries(c)[w], leg) + units
        /\ Entries(c)'[w].index = Index(leg)
        /\ Entries(c)'[w].epoch = leg.claim_epoch
    BY <1>7, <1>10, <1>13
  <2> DEFINE entries == Entries(c)
             entries1 == Entries(c)'
  <2> HIDE DEF entries, entries1
  <2>2. QED
    BY <1>1, <1>3, <1>4, <1>5, <1>11, <1>12, <2>1, PaidCovers, units \in Int DEF entries, entries1
<1>15. QED
  BY <1>2, <1>14 DEF after

LEMMA PaymentCovers ==
    ASSUME ReconcileInv, ClaimsInv, ReconcileInv', NEW c \in Constituents,
           NEW w \in Wallets, NEW k \in Constituents, NEW n \in 1 .. MaxU64,
           Withdraw(w, k, n)
    PROVE  Covers(legs'[c], Entries(c)')
<1> DEFINE leg == Synced[c]
           after == ApplyWithdraw(leg, n)
<1>1. /\ leg \in Leg /\ n \in Nat
      /\ legs = [x \in Constituents |-> legs[x]]
      /\ claims = [v \in Wallets |-> [x \in Constituents |-> claims[v][x]]]
  BY SyncedFacts, RecipeAssumption DEF ReconcileInv, TypeOK
<1>2. CASE c # k
  <2>1. legs'[c] = legs[c] /\ \A v \in Wallets : claims'[v][c] = claims[v][c]
    BY <1>1, <1>2 DEF Withdraw
  <2>2. QED
    BY <2>1, KeptCovers
<1>3. CASE c = k
  <2>1. legs'[c] = after
    BY <1>1, <1>3 DEF Withdraw
  <2>2. after \in Leg
    BY <2>1 DEF ReconcileInv, TypeOK
  <2>3. /\ after.unclaimed = leg.unclaimed + (0 - n)
        /\ after.claim_index = leg.claim_index
        /\ after.claim_epoch = leg.claim_epoch
    BY <1>1 DEF ApplyWithdraw, Leg
  <2>4. Index(after) = Index(leg)
    BY <2>3 DEF Index
  <2>5. \A v \in Wallets : claims'[v][c] =
           IF v = w THEN WithdrawClaim(claims[w][c], leg, n) ELSE claims[v][c]
    BY <1>1, <1>3 DEF Withdraw
  <2> HIDE DEF after, leg
  <2>6. claims[w][c] \in ClaimLeg
    BY DEF ReconcileInv, TypeOK
  <2>7. SettledUnits(claims[w][c], leg) \in Int
    <3>1. SettleAccepts(claims[w][c], leg)
      BY SyncedFacts DEF leg
    <3>2. QED
      BY <1>1, <2>6, <3>1, SettledFacts DEF ClaimLeg
  <2>8. /\ claims'[w][c].units = SettledUnits(claims[w][c], leg) + (0 - n)
        /\ claims'[w][c].index = Index(leg)
        /\ claims'[w][c].epoch = leg.claim_epoch
    BY <1>1, <2>5, <2>6, <2>7, PaidEntry
  <2>9. Settleable(Entries(c)', leg)
    <3>1. \A v \in Wallets : /\ claims'[v][c] \in ClaimLeg
                             /\ SettleAccepts(claims'[v][c], after)
      BY <2>1 DEF ReconcileInv, TypeOK
    <3>2. \A v \in Wallets : SettleAccepts(claims'[v][c], leg)
      BY <2>3, <2>4, <3>1 DEF SettleAccepts
    <3>3. QED
      BY <3>1, <3>2 DEF Settleable, Entries
  <2>10. Covers(leg, Entries(c)) /\ Settleable(Entries(c), leg)
    BY SyncedCovers, EntriesSettle DEF leg
  <2>11. \A v \in Wallets : Entries(c)'[v] = claims'[v][c] /\ Entries(c)[v] = claims[v][c]
    BY DEF Entries
  <2>12. /\ \A v \in Wallets \ {w} : Entries(c)'[v] = Entries(c)[v]
         /\ Entries(c)'[w].units = SettledUnits(Entries(c)[w], leg) + (0 - n)
         /\ Entries(c)'[w].index = Index(leg)
         /\ Entries(c)'[w].epoch = leg.claim_epoch
    BY <2>5, <2>8, <2>11
  <2> DEFINE entries == Entries(c)
             entries1 == Entries(c)'
             m == 0 - n
  <2>13. m \in Int
    BY <1>1
  <2> HIDE DEF entries, entries1, m
  <2>14. Covers(after, entries1)
    BY <1>1, <2>2, <2>3, <2>4, <2>9, <2>10, <2>12, <2>13, PaidCovers
    DEF entries, entries1, m
  <2>15. QED
    BY <2>1, <2>14 DEF entries1
<1>4. QED
  BY <1>2, <1>3

LEMMA LegSyncCovers ==
    ASSUME ReconcileInv, ClaimsInv, ReconcileInv', NEW c \in Constituents,
           NEW k \in Constituents, SyncLeg(k)
    PROVE  Covers(legs'[c], Entries(c)')
<1>1. legs = [x \in Constituents |-> legs[x]]
  BY DEF ReconcileInv, TypeOK
<1>2. legs'[c] = IF c = k THEN Synced[c] ELSE legs[c]
  BY <1>1 DEF SyncLeg
<1>3. claims' = claims
  BY DEF SyncLeg
<1>4. QED
  BY <1>2, <1>3, KeptCovers

\* Every step of the Hall and of those around it keeps claims covered.
LEMMA NextClaims == ReconcileInv /\ ClaimsInv /\ [Next]_vars => ClaimsInv'
<1> SUFFICES ASSUME ReconcileInv, ClaimsInv, [Next]_vars, NEW c \in Constituents
             PROVE  Covers(legs'[c], Entries(c)')
  BY DEF ClaimsInv, Entries
<1>1. ReconcileInv'
  BY NextInv
<1>2. CASE legs' = legs /\ claims' = claims
  BY <1>1, <1>2, KeptCovers
<1>3. CASE Sponsor
  BY <1>1, <1>3, FoundedCovers
<1>4. ASSUME NEW w \in Wallets, Wallet(w)
      PROVE  Covers(legs'[c], Entries(c)')
  BY <1>1, <1>2, <1>4, StrikeCovers, MeltCovers, PaymentCovers
  DEF Wallet, BurnShares, alloyVars
<1>5. ASSUME NEW k \in Constituents, SyncLeg(k) \/ Issuer(k)
      PROVE  Covers(legs'[c], Entries(c)')
  BY <1>1, <1>2, <1>5, LegSyncCovers
  DEF Issuer, Donate, Seize, ChangeStance, alloyVars
<1>6. CASE Tick \/ UNCHANGED vars
  BY <1>2, <1>6 DEF Tick, alloyVars, vars
<1>7. QED
  BY <1>3, <1>4, <1>5, <1>6 DEF Next

LEMMA InitClaims == Init => ClaimsInv
<1> SUFFICES ASSUME Init, NEW c \in Constituents PROVE Covers(legs[c], Entries(c))
  BY DEF ClaimsInv, Entries
<1>1. legs[c] \in Leg
  BY InitInv DEF ReconcileInv, TypeOK
<1>2. \A w \in Wallets : Entries(c)[w].units = 0
  BY DEF Init, Entries, NoClaim
<1>3. QED
  BY <1>1, <1>2, NothingIsCovered

LEMMA ClaimsStayCovered == Spec => [](ReconcileInv /\ ClaimsInv)
<1>1. ReconcileInv /\ [Next]_vars => ReconcileInv'
  BY NextInv
<1>2. QED
  BY <1>1, InitInv, InitClaims, NextClaims, PTL DEF Spec

(* The claims on a leg that was just synced fit into what it has set aside *)
(* for them.                                                               *)
LEMMA SettledFits ==
    ASSUME ReconcileInv, ClaimsInv, NEW c \in Constituents
    PROVE  /\ SumFunction([w \in Wallets |-> SettledNow(w, c)]) <= Synced[c].unclaimed
           /\ \A w \in Wallets : /\ SettledNow(w, c) \in Nat
                                 /\ SettledNow(w, c) <= Synced[c].unclaimed
<1> DEFINE f == [w \in Wallets |-> SettledNow(w, c)]
           g == [w \in Wallets |-> Worth(1, Entries(c)[w], Synced[c])]
<1>1. Synced[c] \in Leg /\ \A w \in Wallets : /\ claims[w][c] \in ClaimLeg
                                              /\ SettleAccepts(claims[w][c], Synced[c])
  BY SyncedFacts
<1>2. \A w \in Wallets : Entries(c)[w] = claims[w][c]
  BY DEF Entries
<1>3. \A w \in Wallets : /\ SettledNow(w, c) = Worth(1, Entries(c)[w], Synced[c])
                         /\ SettledNow(w, c) \in Nat
  BY <1>1, <1>2, WorthOnce, SettledFacts DEF SettledNow, ClaimLeg
<1>4. f = g
  BY <1>3
<1>5. SumFunctionOnSet(g, Wallets) <= Synced[c].unclaimed
  <2>1. SumFunctionOnSet(g, Wallets) <= 1 * Synced[c].unclaimed
    BY SyncedCovers, CoversMeans
  <2>2. QED
    BY <1>1, <2>1 DEF Leg
<1>6. SumFunction(f) = SumFunctionOnSet(f, Wallets)
  BY DEF SumFunction
<1>7. \A w \in Wallets : f[w] = SettledNow(w, c) /\ f[w] \in Nat
  BY <1>3
<1> HIDE DEF f, g
<1>8. \A w \in Wallets : f[w] <= SumFunctionOnSet(f, Wallets)
  BY <1>7, PartOfSum, HallAssumption
<1>9. SumFunctionOnSet(f, Wallets) \in Int
  BY <1>7, SumIsInt, HallAssumption
<1>10. SumFunctionOnSet(f, Wallets) <= Synced[c].unclaimed
  BY <1>4, <1>5
<1>11. \A w \in Wallets : SettledNow(w, c) <= Synced[c].unclaimed
  BY <1>1, <1>7, <1>8, <1>9, <1>10 DEF Leg
<1>12. QED
  BY <1>6, <1>7, <1>10, <1>11 DEF f

(* The claims on a leg never add up to more than is set aside for them.    *)
THEOREM ClaimsAreCovered == Spec => []ClaimsCovered
<1>1. ReconcileInv /\ ClaimsInv => ClaimsCovered
  BY SettledFits DEF ClaimsCovered
<1>2. QED
  BY <1>1, ClaimsStayCovered, PTL

-----------------------------------------------------------------------------
(* No more shares are held than issued, so a holder's are always there to  *)
(* be melted.                                                              *)

Issued == SharesIssued /\ (~founded => supply = 0)

(* The shares of one wallet change by d, and supply by at least as much.   *)
LEMMA IssuedTogether ==
    ASSUME NEW w \in Wallets, NEW d \in Int, shares \in [Wallets -> Nat],
           shares' \in [Wallets -> Nat], supply \in Nat, supply' \in Nat,
           shares' = [shares EXCEPT ![w] = shares[w] + d],
           SharesIssued, supply' >= supply + d
    PROVE  SharesIssued'
<1> DEFINE held == SumFunctionOnSet(shares, Wallets)
           heldNext == SumFunctionOnSet(shares', Wallets)
<1>1. held <= supply
  BY DEF SharesIssued, SumFunction
<1>2. /\ \A x \in Wallets : shares[x] \in Int /\ shares'[x] \in Int
      /\ shares'[w] <= shares[w] + d
      /\ \A x \in Wallets \ {w} : shares'[x] <= shares[x]
  OBVIOUS
<1>3. heldNext <= held + d
  BY <1>2, OneMoves, HallAssumption
<1>4. held \in Int /\ heldNext \in Int
  BY <1>2, SumIsInt, HallAssumption
<1>5. heldNext <= supply'
  BY <1>1, <1>3, <1>4
<1>6. QED
  BY <1>5 DEF SharesIssued, SumFunction

LEMMA InitIssued == Init => Issued
<1> SUFFICES ASSUME Init PROVE Issued
  OBVIOUS
<1> DEFINE none == [w \in Wallets |-> IF w = 0 THEN 0 ELSE 0]
<1>1. SumFunctionOnSet(none, Wallets) = 0
  BY SumOfOne, HallAssumption, 0 \in Int
<1>2. shares = none
  BY DEF Init
<1>3. DOMAIN shares = Wallets
  BY DEF Init
<1> HIDE DEF none
<1>4. QED
  BY <1>1, <1>2, <1>3 DEF Init, Issued, SharesIssued, SumFunction

LEMMA NextIssued == ReconcileInv /\ Issued /\ [Next]_vars => Issued'
<1> SUFFICES ASSUME ReconcileInv, Issued, [Next]_vars PROVE Issued'
  OBVIOUS
<1>1. ReconcileInv'
  BY NextInv
<1>2. /\ supply \in Nat /\ supply' \in Nat
      /\ shares \in [Wallets -> Nat] /\ shares' \in [Wallets -> Nat]
  BY <1>1 DEF ReconcileInv, TypeOK
<1>3. CASE founded' = founded /\ supply' = supply /\ shares' = shares
  BY <1>3 DEF Issued, SharesIssued
<1>4. CASE Sponsor
  <2>1. supply = 0 /\ supply' >= 0 /\ shares' = shares /\ founded'
    <3>1. ~founded /\ shares' = shares /\ founded'
      BY <1>4 DEF Sponsor, InitializeAlloy
    <3>2. QED
      BY <1>2, <3>1 DEF Issued
  <2>2. SumFunction(shares) <= 0
    BY <2>1 DEF Issued, SharesIssued
  <2>3. SumFunction(shares) \in Int
    BY <1>2, SumIsInt, HallAssumption DEF SumFunction
  <2>4. SumFunction(shares') <= supply'
    BY <1>2, <2>1, <2>2, <2>3
  <2>5. QED
    BY <2>1, <2>4 DEF Issued, SharesIssued
<1>5. ASSUME NEW w \in Wallets, Wallet(w) PROVE Issued'
  <2>1. ASSUME NEW n \in 1 .. MaxU64, NEW maximums \in [Constituents -> Maximums],
               Create(w, n, maximums)
        PROVE  Issued'
    <3>1. n \in Int
      OBVIOUS
    <3>2. /\ shares' = [shares EXCEPT ![w] = shares[w] + n]
          /\ supply' >= supply + n /\ founded'
      BY <1>2, <2>1 DEF Create
    <3>3. QED
      BY <1>2, <3>1, <3>2, IssuedTogether DEF Issued
  <2>2. ASSUME NEW n \in 1 .. MaxU64, Redeem(w, n) PROVE Issued'
    <3>1. n \in Int /\ 0 - n \in Int /\ shares[w] \in Int
      BY <1>2
    <3>2. shares[w] - n = shares[w] + (0 - n) /\ supply - n = supply + (0 - n)
      BY <1>2, <3>1
    <3>3. /\ shares' = [shares EXCEPT ![w] = shares[w] + (0 - n)]
          /\ supply' >= supply + (0 - n) /\ founded'
      <4>1. shares' = [shares EXCEPT ![w] = shares[w] - n] /\ supply' = supply - n /\ founded'
        BY <1>2, <2>2 DEF Redeem
      <4>2. supply' >= supply + (0 - n)
        BY <1>2, <3>1, <3>2, <4>1
      <4>3. QED
        BY <3>2, <4>1, <4>2
    <3>4. QED
      BY <1>2, <3>1, <3>3, IssuedTogether DEF Issued
  <2>3. ASSUME NEW n \in 1 .. MaxU64, BurnShares(w, n) PROVE Issued'
    <3>1. n \in Nat \ {0} /\ 0 - n \in Int /\ shares[w] \in Int
      BY <1>2, RecipeAssumption
    <3>2. shares[w] - n = shares[w] + (0 - n)
      BY <3>1
    <3>3. /\ shares' = [shares EXCEPT ![w] = shares[w] + (0 - n)]
          /\ supply' = supply /\ founded' = founded
      BY <2>3, <3>2 DEF BurnShares, alloyVars
    <3>4. supply' >= supply + (0 - n)
      BY <1>2, <3>1, <3>3
    <3>5. SharesIssued'
      BY <1>2, <3>1, <3>3, <3>4, IssuedTogether DEF Issued
    <3>6. QED
      BY <3>3, <3>5 DEF Issued
  <2>4. ASSUME NEW k \in Constituents, NEW n \in 1 .. MaxU64, Withdraw(w, k, n)
        PROVE  Issued'
    BY <1>3, <2>4 DEF Withdraw
  <2>5. QED
    BY <1>5, <2>1, <2>2, <2>3, <2>4 DEF Wallet
<1>6. ASSUME NEW k \in Constituents, SyncLeg(k) \/ Issuer(k) PROVE Issued'
  BY <1>3, <1>6 DEF SyncLeg, Issuer, Donate, Seize, ChangeStance, alloyVars
<1>7. CASE Tick \/ UNCHANGED vars
  BY <1>3, <1>7 DEF Tick, alloyVars, vars
<1>8. QED
  BY <1>4, <1>5, <1>6, <1>7 DEF Next

\* One wallet's shares are part of all shares.
LEMMA HeldIsIssued ==
    ASSUME ReconcileInv, Issued, NEW w \in Wallets
    PROVE  shares[w] <= supply
<1>1. shares \in [Wallets -> Nat] /\ supply \in Nat
  BY DEF ReconcileInv, TypeOK
<1>2. SumFunctionOnSet(shares, Wallets) <= supply
  BY <1>1 DEF Issued, SharesIssued, SumFunction
<1>3. shares[w] <= SumFunctionOnSet(shares, Wallets)
  BY <1>1, PartOfSum, HallAssumption
<1>4. SumFunctionOnSet(shares, Wallets) \in Int
  BY <1>1, SumIsInt, HallAssumption
<1>5. QED
  BY <1>1, <1>2, <1>3, <1>4

LEMMA SupplyInvariant == Spec => [](ReconcileInv /\ ClaimsInv /\ Issued)
<1>1. ReconcileInv /\ [Next]_vars => ReconcileInv'
  BY NextInv
<1>2. QED
  BY <1>1, InitInv, InitIssued, NextIssued, ClaimsStayCovered, PTL DEF Spec

(* No issuer can stand between a holder and a melt: nothing Redeem checks  *)
(* ever refuses the owner of the shares.                                   *)
THEOREM MeltIsNeverBlocked == Spec => []MeltNeverBlocked
<1>1. ASSUME ReconcileInv, ClaimsInv, Issued, NEW w \in Wallets,
             NEW n \in 1 .. shares[w], NEW c \in Constituents
      PROVE  LET units == Out(Synced[c], n, supply)
             IN  /\ units <= Synced[c].ledger
                 /\ Melted(n)[c].unclaimed <= MaxU64
                 /\ CreditClaimAccepts(claims[w][c], Melted(n)[c], units)
  <2> DEFINE units == Out(Synced[c], n, supply)
             leg == Synced[c]
             after == Melted(n)[c]
  <2>1. n \in Nat /\ supply \in Nat \ {0} /\ n <= supply
    BY <1>1, HeldIsIssued DEF ReconcileInv, TypeOK
  <2>2. leg \in Leg /\ Expected(leg) = balance[c]
    BY <1>1, SyncedFacts
  <2>3. after = ApplyRedeem(leg, units)
    BY DEF Melted
  <2>4. /\ units \in 0 .. leg.ledger
        /\ after \in Leg
        /\ Expected(after) = Expected(leg)
        /\ after.claim_epoch = leg.claim_epoch
        /\ Index(after) = Index(leg)
    BY <2>1, <2>2, <2>3, MeltFacts
  <2>5. balance[c] \in Nat /\ balance[c] <= MaxU64
    BY <1>1, RecipeAssumption DEF ReconcileInv, TypeOK, Amount
  <2>6. claims[w][c] \in ClaimLeg /\ SettleAccepts(claims[w][c], leg)
    BY <1>1, SyncedFacts
  <2>7. SettledUnits(claims[w][c], leg) \in Nat
        /\ SettledUnits(claims[w][c], leg) <= leg.unclaimed
    BY <1>1, SettledFits DEF SettledNow
  <2> HIDE DEF units
  <2>8. after.unclaimed = leg.unclaimed + units
    BY <2>2, <2>3 DEF ApplyRedeem, Leg
  <2> HIDE DEF after, leg
  <2>9. SettledUnits(claims[w][c], after) = SettledUnits(claims[w][c], leg)
    BY <2>4 DEF SettledUnits
  <2>10. SettleAccepts(claims[w][c], after)
    BY <2>4, <2>6 DEF SettleAccepts
  <2>11. after.unclaimed <= MaxU64
    BY <2>2, <2>4, <2>5, RecipeAssumption DEF Expected, Leg
  <2>12. units \in Nat /\ leg.unclaimed \in Nat
    BY <2>2, <2>4 DEF Leg
  <2>13. SettledUnits(claims[w][c], after) + units <= MaxU64
    BY <2>7, <2>8, <2>9, <2>11, <2>12, RecipeAssumption
  <2>14. CreditClaimAccepts(claims[w][c], after, units)
    BY <2>10, <2>13 DEF CreditClaimAccepts
  <2>15. units <= leg.ledger
    BY <2>4
  <2>16. QED
    BY <2>11, <2>14, <2>15 DEF units, leg, after
<1>2. ReconcileInv /\ ClaimsInv /\ Issued => MeltNeverBlocked
  <2> SUFFICES ASSUME ReconcileInv, ClaimsInv, Issued, NEW w \in Wallets,
                      NEW n \in 1 .. shares[w]
               PROVE  RedeemChecks(w, n)
    BY DEF MeltNeverBlocked
  <2>1. AllSyncAccept
    BY SyncedFacts DEF AllSyncAccept
  <2>2. RedeemAccepts(supply, n)
    <3>1. shares[w] \in Nat /\ supply \in Nat /\ shares[w] <= supply
      BY HeldIsIssued DEF ReconcileInv, TypeOK
    <3>2. QED
      BY <3>1 DEF RedeemAccepts
  <2>3. QED
    BY <1>1, <2>1, <2>2 DEF RedeemChecks
<1>3. QED
  BY <1>2, SupplyInvariant, PTL

(* Whatever a claim settles to, Withdraw pays it whole, unless the issuer  *)
(* is refusing transfers then.                                             *)
THEOREM ClaimsAreDeliverable == Spec => []ClaimsDeliverable
<1>1. ReconcileInv /\ ClaimsInv => ClaimsDeliverable
  <2> SUFFICES ASSUME ReconcileInv, ClaimsInv, NEW w \in Wallets,
                      NEW c \in Constituents, SettledNow(w, c) > 0
               PROVE  WithdrawChecks(w, c, SettledNow(w, c))
    BY DEF ClaimsDeliverable
  <2> DEFINE leg == Synced[c]
             n == SettledNow(w, c)
  <2>1. leg \in Leg /\ Expected(leg) = balance[c]
        /\ SyncAccepts(legs[c], balance[c], now)
        /\ SettleAccepts(claims[w][c], leg)
    BY SyncedFacts
  <2>2. n \in Nat /\ n <= leg.unclaimed
    BY SettledFits
  <2>3. WithdrawClaimAccepts(claims[w][c], leg, n)
    BY <2>1, <2>2 DEF WithdrawClaimAccepts, SettledNow
  <2> HIDE DEF n, leg
  <2>4. /\ ApplyWithdraw(leg, n).ledger = leg.ledger
        /\ ApplyWithdraw(leg, n).pending = leg.pending
        /\ ApplyWithdraw(leg, n).unclaimed = leg.unclaimed - n
    BY <2>1 DEF ApplyWithdraw, Leg
  <2>5. /\ n <= balance[c]
        /\ balance[c] - n = Expected(ApplyWithdraw(leg, n))
    BY <2>1, <2>2, <2>4 DEF Expected, Leg
  <2>6. n > 0
    BY DEF n
  <2>7. QED
    BY <2>1, <2>3, <2>5, <2>6 DEF WithdrawChecks, n, leg
<1>2. QED
  BY <1>1, ClaimsStayCovered, PTL

-----------------------------------------------------------------------------
(* What a wallet may withdraw falls only by what it is paid. *)

\* Quotients keep order.
LEMMA DivGrows ==
    ASSUME NEW a \in Nat, NEW b \in Nat, a <= b, NEW d \in Nat \ {0}
    PROVE  a \div d <= b \div d
<1> DEFINE q == a \div d
<1>1. q \in Nat /\ d * q <= a
  BY DivFloor
<1> HIDE DEF q
<1>2. d * q <= b
  <2>1. d * q \in Int
    BY <1>1, SMT
  <2>2. QED
    BY <1>1, <2>1
<1>3. q <= b \div d
  BY <1>1, <1>2, FitsFloor
<1>4. QED
  BY <1>3 DEF q

(* A leg that moves on never makes a claim settle to more. *)
LEMMA SettlesToLess ==
    ASSUME NEW claim \in ClaimLeg, NEW leg \in Leg, NEW after \in Leg,
           SettleAccepts(claim, leg),
           after.claim_epoch >= leg.claim_epoch,
           after.claim_epoch = leg.claim_epoch => Index(after) <= Index(leg)
    PROVE  SettledUnits(claim, after) <= SettledUnits(claim, leg)
<1> DEFINE n == claim.units
           d == claim.index
           i == Index(leg)
           j == Index(after)
<1>1. i \in Nat /\ j \in Nat /\ n \in Nat /\ d \in Nat
  BY RecipeAssumption DEF Index, Leg, ClaimLeg
<1>2. SettledUnits(claim, leg) \in Nat
  BY SettledFacts DEF ClaimLeg
<1>3. CASE n = 0 \/ claim.epoch < after.claim_epoch
  BY <1>2, <1>3 DEF SettledUnits
<1>4. CASE ~ (n = 0 \/ claim.epoch < after.claim_epoch)
  <2>1. /\ ~ (n = 0 \/ claim.epoch < leg.claim_epoch)
        /\ after.claim_epoch = leg.claim_epoch
        /\ d \in Nat \ {0}
    BY <1>1, <1>4 DEF SettleAccepts, ClaimLeg, Leg
  <2>2. /\ SettledUnits(claim, leg) = (n * i) \div d
        /\ SettledUnits(claim, after) = (n * j) \div d
    BY <1>4, <2>1 DEF SettledUnits, MulDivFloor
  <2>3. j <= i
    BY <2>1
  <2> HIDE DEF n, d, i, j
  <2>4. n * i \in Nat /\ n * j \in Nat /\ n * j <= n * i
    BY <1>1, <2>3, SMT
  <2>5. QED
    BY <2>1, <2>2, <2>4, DivGrows
<1>5. QED
  BY <1>3, <1>4

(* A claim at the leg's own index settles to itself. *)
LEMMA SettlesToItself ==
    ASSUME NEW claim \in ClaimLeg, NEW leg \in Leg,
           claim.index = Index(leg), claim.epoch = leg.claim_epoch
    PROVE  SettledUnits(claim, leg) = claim.units
<1> DEFINE i == Index(leg)
           n == claim.units
<1>1. i \in Nat \ {0} /\ n \in Nat /\ ~ (claim.epoch < leg.claim_epoch)
  BY RecipeAssumption DEF Index, Leg, ClaimLeg
<1>2. SettledUnits(claim, leg) = IF n = 0 THEN 0 ELSE (n * i) \div i
  BY <1>1 DEF SettledUnits, MulDivFloor
<1> HIDE DEF i, n
<1>3. (n * i) \div i = n
  BY <1>1, DivBack
<1>4. QED
  BY <1>2, <1>3 DEF n

(* Syncing with a balance that covers the leg leaves the claims on it.     *)
LEMMA SurplusKeepsClaims ==
    ASSUME NEW leg \in Leg, NEW actual \in Nat, NEW t \in Nat,
           actual >= Expected(leg)
    PROVE  /\ Index(Sync(leg, actual, t)) = Index(leg)
           /\ Sync(leg, actual, t).claim_epoch = leg.claim_epoch
<1> DEFINE folded == FoldVested(leg, t)
<1>1. /\ folded \in Leg
      /\ Expected(folded) = Expected(leg)
      /\ folded.claim_index = leg.claim_index
      /\ folded.claim_epoch = leg.claim_epoch
  BY FoldFacts
<1>2. Expected(leg) \in Nat
  BY DEF Expected, Leg
<1>3. CASE actual > Expected(folded)
  <2>1. Sync(leg, actual, t) = Credit(folded, actual - Expected(folded), t)
    BY <1>3 DEF Sync
  <2> HIDE DEF folded
  <2>2. /\ Credit(folded, actual - Expected(folded), t).claim_index = folded.claim_index
        /\ Credit(folded, actual - Expected(folded), t).claim_epoch = folded.claim_epoch
    BY <1>1 DEF Credit, Leg
  <2>3. QED
    BY <1>1, <2>1, <2>2 DEF Index
<1>4. CASE actual = Expected(folded)
  <2>1. Sync(leg, actual, t) = folded
    BY <1>1, <1>2, <1>4 DEF Sync
  <2>2. QED
    BY <1>1, <2>1 DEF Index
<1>5. QED
  BY <1>1, <1>2, <1>3, <1>4

(* The next sync of a leg the Hall holds enough for settles a claim as the *)
(* leg itself does.                                                        *)
LEMMA SettledNext ==
    ASSUME ReconcileInv', NEW w \in Wallets, NEW c \in Constituents,
           balance'[c] >= Expected(legs'[c])
    PROVE  SettledNow(w, c)' = SettledUnits(claims'[w][c], legs'[c])
<1>1. legs'[c] \in Leg /\ balance'[c] \in Nat /\ now' \in Nat
  BY RecipeAssumption DEF ReconcileInv, TypeOK, Amount
<1>2. Synced'[c] = Sync(legs'[c], balance'[c], now')
  BY DEF Synced
<1>3. /\ Index(Synced'[c]) = Index(legs'[c])
      /\ Synced'[c].claim_epoch = legs'[c].claim_epoch
  BY <1>1, <1>2, SurplusKeepsClaims
<1>4. QED
  BY <1>3 DEF SettledNow, SettledUnits

FallsByPayment(w, c) ==
    SettledNow(w, c)' < SettledNow(w, c) =>
      \/ balance'[c] < Expected(legs'[c])
      \/ /\ claims'[w][c] # claims[w][c]
         /\ SettledNow(w, c) - SettledNow(w, c)' = balance[c] - balance'[c]

(* The claim stays, and the leg under it but for ledger and unclaimed.     *)
LEMMA KeptIsNotLess ==
    ASSUME ReconcileInv, ReconcileInv', NEW w \in Wallets, NEW c \in Constituents,
           NEW leg \in {legs[c], Synced[c]},
           claims'[w][c] = claims[w][c],
           Index(legs'[c]) = Index(leg), legs'[c].claim_epoch = leg.claim_epoch
    PROVE  FallsByPayment(w, c)
<1> SUFFICES ASSUME balance'[c] >= Expected(legs'[c])
             PROVE  SettledNow(w, c)' >= SettledNow(w, c)
  <2>1. /\ balance'[c] \in Int /\ Expected(legs'[c]) \in Int
        /\ SettledNow(w, c)' \in Int /\ SettledNow(w, c) \in Int
    <3>1. balance'[c] \in Int /\ Expected(legs'[c]) \in Int
      <4>1. balance'[c] \in Amount /\ legs'[c] \in Leg
        BY DEF ReconcileInv, TypeOK
      <4>2. QED
        BY <4>1, RecipeAssumption DEF Amount, Leg, Expected
    <3>2. SettledNow(w, c) \in Int
      BY SyncedFacts, SettledFacts DEF SettledNow, ClaimLeg
    <3>3. SettledNow(w, c)' \in Int
      <4>1. /\ legs'[c] \in Leg /\ Expected(legs'[c]) <= MaxU64
            /\ balance'[c] \in Amount /\ now' \in Nat
            /\ claims'[w][c] \in ClaimLeg /\ SettleAccepts(claims'[w][c], legs'[c])
        BY DEF ReconcileInv, TypeOK
      <4>2. Synced'[c] = Sync(legs'[c], balance'[c], now')
        BY DEF Synced
      <4>3. /\ Synced'[c] \in Leg
            /\ Synced'[c].claim_epoch >= legs'[c].claim_epoch
            /\ Synced'[c].claim_epoch = legs'[c].claim_epoch
                 => Index(Synced'[c]) <= Index(legs'[c])
        BY <4>1, <4>2, SyncFacts
      <4>4. SettleAccepts(claims'[w][c], Synced'[c])
        BY <4>1, <4>3, SettleLater
      <4>5. SettledUnits(claims'[w][c], Synced'[c]) \in Int
        BY <4>1, <4>3, <4>4, SettledFacts DEF ClaimLeg
      <4>6. QED
        BY <4>5 DEF SettledNow
    <3>4. QED
      BY <3>1, <3>2, <3>3
  <2>2. QED
    BY <2>1 DEF FallsByPayment
<1>1. SettledNow(w, c)' = SettledUnits(claims[w][c], leg)
  BY SettledNext DEF SettledUnits
<1>2. SettledUnits(claims[w][c], Synced[c]) <= SettledUnits(claims[w][c], leg)
  <2>1. CASE leg = Synced[c]
    <3>1. SettledUnits(claims[w][c], Synced[c]) \in Nat
      BY SyncedFacts, SettledFacts DEF ClaimLeg
    <3>2. QED
      BY <2>1, <3>1
  <2>2. CASE leg = legs[c]
    <3>1. /\ leg \in Leg /\ Expected(leg) <= MaxU64
          /\ balance[c] \in Amount /\ now \in Nat
          /\ claims[w][c] \in ClaimLeg /\ SettleAccepts(claims[w][c], leg)
      BY <2>2 DEF ReconcileInv, TypeOK
    <3>2. Synced[c] = Sync(leg, balance[c], now)
      BY <2>2 DEF Synced
    <3>3. /\ Synced[c] \in Leg
          /\ Synced[c].claim_epoch >= leg.claim_epoch
          /\ Synced[c].claim_epoch = leg.claim_epoch => Index(Synced[c]) <= Index(leg)
      BY <3>1, <3>2, SyncFacts
    <3>4. QED
      BY <3>1, <3>3, SettlesToLess
  <2>3. QED
    BY <2>1, <2>2
<1>3. SettledNow(w, c) \in Int /\ SettledUnits(claims[w][c], leg) \in Int
  <2>1. /\ claims[w][c] \in ClaimLeg
        /\ legs[c] \in Leg /\ SettleAccepts(claims[w][c], legs[c])
        /\ Synced[c] \in Leg /\ SettleAccepts(claims[w][c], Synced[c])
    BY SyncedFacts DEF ReconcileInv, TypeOK
  <2>2. leg \in Leg /\ SettleAccepts(claims[w][c], leg)
    BY <2>1
  <2>3. QED
    BY <2>1, <2>2, SettledFacts DEF SettledNow, ClaimLeg
<1>4. QED
  BY <1>1, <1>2, <1>3 DEF SettledNow

(* The claim was settled at the leg's own index and then credited or paid. *)
LEMMA MovedSettles ==
    ASSUME ReconcileInv, ReconcileInv', NEW w \in Wallets, NEW c \in Constituents,
           balance'[c] >= Expected(legs'[c]),
           Index(legs'[c]) = Index(Synced[c]),
           legs'[c].claim_epoch = Synced[c].claim_epoch,
           claims'[w][c].index = Index(Synced[c]),
           claims'[w][c].epoch = Synced[c].claim_epoch
    PROVE  SettledNow(w, c)' = claims'[w][c].units
<1>1. claims'[w][c] \in ClaimLeg /\ legs'[c] \in Leg
  BY DEF ReconcileInv, TypeOK
<1>2. SettledNow(w, c)' = SettledUnits(claims'[w][c], legs'[c])
  BY SettledNext
<1>3. QED
  BY <1>1, <1>2, SettlesToItself

\* A melt credits its owner's claim and takes from nobody's.
LEMMA MeltTakesNothing ==
    ASSUME ReconcileInv, ReconcileInv', NEW c \in Constituents, NEW v \in Wallets,
           NEW w \in Wallets, NEW n \in 1 .. MaxU64, Redeem(w, n)
    PROVE  FallsByPayment(v, c)
<1> DEFINE units == Out(Synced[c], n, supply)
           leg == Synced[c]
           after == Melted(n)[c]
<1>1. leg \in Leg /\ n \in Nat /\ supply \in Nat \ {0} /\ n <= supply
  BY SyncedFacts, RecipeAssumption
  DEF Redeem, RedeemChecks, RedeemAccepts, ReconcileInv, TypeOK
<1>2. after = ApplyRedeem(leg, units) /\ legs'[c] = after
  BY DEF Melted, Redeem
<1>3. /\ units \in 0 .. leg.ledger
      /\ after.claim_epoch = leg.claim_epoch
      /\ Index(after) = Index(leg)
  BY <1>1, <1>2, MeltFacts
<1>4. units \in Nat
  BY <1>1, <1>3 DEF Leg
<1> HIDE DEF units
<1>5. claims = [x \in Wallets |-> [k \in Constituents |-> claims[x][k]]]
  BY DEF ReconcileInv, TypeOK
<1>6. claims'[v][c] =
         IF v = w THEN CreditClaim(claims[w][c], after, units) ELSE claims[v][c]
  BY <1>5 DEF Redeem, units
<1>7. CASE v # w
  BY <1>2, <1>3, <1>6, <1>7, KeptIsNotLess
<1>8. CASE v = w
  <2> HIDE DEF after, leg
  <2>1. claims[w][c] \in ClaimLeg /\ SettledUnits(claims[w][c], leg) \in Nat
    BY SyncedFacts, SettledFacts DEF ClaimLeg, leg
  <2>2. after \in Leg
    BY <1>2 DEF ReconcileInv, TypeOK
  <2>3. SettledUnits(claims[w][c], after) = SettledUnits(claims[w][c], leg)
    BY <1>3 DEF SettledUnits
  <2>4. /\ claims'[w][c].units = SettledUnits(claims[w][c], leg) + units
        /\ claims'[w][c].index = Index(leg)
        /\ claims'[w][c].epoch = leg.claim_epoch
    BY <1>3, <1>4, <1>6, <1>8, <2>1, <2>2, <2>3, PaidEntry
  <2>5. SUFFICES ASSUME balance'[c] >= Expected(legs'[c])
                 PROVE  ~ (SettledNow(w, c)' < SettledNow(w, c))
    <3>1. balance'[c] \in Int /\ Expected(legs'[c]) \in Int
      <4>1. balance'[c] \in Amount /\ legs'[c] \in Leg
        BY DEF ReconcileInv, TypeOK
      <4>2. QED
        BY <4>1, RecipeAssumption DEF Amount, Leg, Expected
    <3>2. QED
      BY <1>8, <3>1 DEF FallsByPayment
  <2>6. SettledNow(w, c)' = claims'[w][c].units
    BY <1>2, <1>3, <2>4, <2>5, MovedSettles DEF leg
  <2>7. SettledNow(w, c) = SettledUnits(claims[w][c], leg)
    BY DEF SettledNow, leg
  <2>8. QED
    BY <1>4, <2>1, <2>4, <2>6, <2>7
<1>9. QED
  BY <1>7, <1>8

\* A withdrawal takes what it pays, from its owner's claim alone.
LEMMA PaymentIsExact ==
    ASSUME ReconcileInv, ReconcileInv', NEW c \in Constituents, NEW v \in Wallets,
           NEW w \in Wallets, NEW k \in Constituents, NEW n \in 1 .. MaxU64,
           Withdraw(w, k, n)
    PROVE  FallsByPayment(v, c)
<1> DEFINE leg == Synced[c]
           after == ApplyWithdraw(leg, n)
<1>1. /\ leg \in Leg /\ n \in Nat \ {0}
      /\ legs = [x \in Constituents |-> legs[x]]
      /\ balance = [x \in Constituents |-> balance[x]]
      /\ claims = [x \in Wallets |-> [y \in Constituents |-> claims[x][y]]]
  BY SyncedFacts, RecipeAssumption DEF ReconcileInv, TypeOK
<1>2. CASE c # k
  <2>1. legs'[c] = legs[c] /\ claims'[v][c] = claims[v][c]
    BY <1>1, <1>2 DEF Withdraw
  <2>2. QED
    BY <2>1, KeptIsNotLess
<1>3. CASE c = k
  <2>1. legs'[c] = after
    BY <1>1, <1>3 DEF Withdraw
  <2>2. balance'[c] = balance[c] - n
    BY <1>1, <1>3 DEF Withdraw
  <2>3. /\ after.claim_index = leg.claim_index
        /\ after.claim_epoch = leg.claim_epoch
    BY <1>1 DEF ApplyWithdraw, Leg
  <2>4. Index(after) = Index(leg)
    BY <2>3 DEF Index
  <2>5. claims'[v][c] =
           IF v = w THEN WithdrawClaim(claims[w][c], leg, n) ELSE claims[v][c]
    BY <1>1, <1>3 DEF Withdraw
  <2>6. CASE v # w
    BY <2>1, <2>3, <2>4, <2>5, <2>6, KeptIsNotLess
  <2>7. CASE v = w
    <3> HIDE DEF after, leg
    <3>1. /\ claims[w][c] \in ClaimLeg
          /\ SettledUnits(claims[w][c], leg) \in 0 .. claims[w][c].units
      BY SyncedFacts, SettledFacts DEF leg
    <3>2. /\ claims'[w][c].units = SettledUnits(claims[w][c], leg) - n
          /\ claims'[w][c].index = Index(leg)
          /\ claims'[w][c].epoch = leg.claim_epoch
      BY <1>1, <2>5, <2>7, <3>1, PaidEntry
    <3>3. claims[w][c].units \in Nat
      BY <3>1 DEF ClaimLeg
    <3>4. claims'[w][c].units # claims[w][c].units
      BY <1>1, <3>1, <3>2, <3>3
    <3>5. balance[c] \in Int /\ balance'[c] \in Int /\ Expected(legs'[c]) \in Int
      <4>1. balance[c] \in Amount /\ balance'[c] \in Amount /\ legs'[c] \in Leg
        BY DEF ReconcileInv, TypeOK
      <4>2. QED
        BY <4>1, RecipeAssumption DEF Amount, Leg, Expected
    <3>6. SUFFICES ASSUME balance'[c] >= Expected(legs'[c])
                   PROVE  SettledNow(w, c) - SettledNow(w, c)' = balance[c] - balance'[c]
      BY <2>7, <3>4, <3>5 DEF FallsByPayment
    <3>7. SettledNow(w, c)' = claims'[w][c].units
      BY <2>1, <2>3, <2>4, <3>2, <3>6, MovedSettles DEF leg
    <3>8. SettledNow(w, c) = SettledUnits(claims[w][c], leg)
      BY DEF SettledNow, leg
    <3>9. QED
      BY <1>1, <2>2, <3>1, <3>2, <3>3, <3>5, <3>7, <3>8
  <2>8. QED
    BY <2>6, <2>7
<1>4. QED
  BY <1>2, <1>3

(* While the Hall holds all it expects, what a wallet may withdraw falls   *)
(* only by exactly what that wallet is paid.                               *)
THEOREM ClaimsFallByPayment == Spec => ClaimsFallOnlyByPayment
<1>1. ASSUME ReconcileInv, [Next]_vars, NEW w \in Wallets, NEW c \in Constituents
      PROVE  FallsByPayment(w, c)
  <2>1. ReconcileInv'
    BY <1>1, NextInv
  <2>2. CASE legs' = legs /\ claims' = claims
    BY <1>1, <2>1, <2>2, KeptIsNotLess
  <2>3. CASE Sponsor
    <3>1. claims' = claims /\ claims[w][c].units = 0
      BY <1>1, <2>3 DEF Sponsor, InitializeAlloy, ReconcileInv
    <3>2. SettledNow(w, c) = 0 /\ SettledNow(w, c)' = 0
      BY <3>1 DEF SettledNow, SettledUnits
    <3>3. QED
      BY <3>2 DEF FallsByPayment
  <2>4. ASSUME NEW v \in Wallets, NEW n \in 1 .. MaxU64,
               NEW maximums \in [Constituents -> Maximums], Create(v, n, maximums)
        PROVE  FallsByPayment(w, c)
    <3>1. Synced[c] \in Leg
      BY <1>1, SyncedFacts
    <3>2. /\ legs'[c].claim_index = Synced[c].claim_index
          /\ legs'[c].claim_epoch = Synced[c].claim_epoch
          /\ claims' = claims
      BY <2>4, <3>1 DEF Create, ApplyCreate, Leg
    <3>3. Index(legs'[c]) = Index(Synced[c])
      BY <3>2 DEF Index
    <3>4. QED
      BY <1>1, <2>1, <3>2, <3>3, KeptIsNotLess
  <2>5. ASSUME NEW v \in Wallets, Wallet(v) PROVE FallsByPayment(w, c)
    BY <1>1, <2>1, <2>2, <2>4, <2>5, MeltTakesNothing, PaymentIsExact
    DEF Wallet, BurnShares, alloyVars
  <2>6. ASSUME NEW k \in Constituents, SyncLeg(k) PROVE FallsByPayment(w, c)
    <3>1. legs = [x \in Constituents |-> legs[x]]
      BY <1>1 DEF ReconcileInv, TypeOK
    <3>2. legs'[c] = IF c = k THEN Synced[c] ELSE legs[c]
      BY <2>6, <3>1 DEF SyncLeg
    <3>3. claims' = claims
      BY <2>6 DEF SyncLeg
    <3>4. QED
      BY <1>1, <2>1, <3>2, <3>3, KeptIsNotLess
  <2>7. ASSUME NEW k \in Constituents, Issuer(k) PROVE FallsByPayment(w, c)
    BY <2>2, <2>7 DEF Issuer, Donate, Seize, ChangeStance, alloyVars
  <2>8. CASE Tick \/ UNCHANGED vars
    BY <2>2, <2>8 DEF Tick, alloyVars, vars
  <2>9. QED
    BY <1>1, <2>3, <2>5, <2>6, <2>7, <2>8 DEF Next
<1>2. ReconcileInv /\ [Next]_vars =>
        [\A w \in Wallets, c \in Constituents : FallsByPayment(w, c)]_vars
  BY <1>1
<1>3. ReconcileInv /\ [Next]_vars => ReconcileInv'
  BY NextInv
<1>4. ClaimsFallOnlyByPayment <=>
        [][\A w \in Wallets, c \in Constituents : FallsByPayment(w, c)]_vars
  BY DEF ClaimsFallOnlyByPayment, FallsByPayment
<1>5. QED
  BY <1>2, <1>3, <1>4, InitInv, PTL DEF Spec

(* The Hall never issues fewer shares than holders have, those its own     *)
(* books never saw burnt included.                                         *)
THEOREM SharesAreIssued == Spec => []SharesIssued
<1>1. Issued => SharesIssued
  BY DEF Issued
<1>2. QED
  BY <1>1, SupplyInvariant, PTL
=============================================================================
