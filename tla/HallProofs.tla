----------------------------- MODULE HallProofs -----------------------------
(***************************************************************************)
(* Theorems about the Hall for every alloy, every wallet, every balance    *)
(* and every choice of the bounds.                                         *)
(***************************************************************************)
EXTENDS HallProperties, SumLemmas

-----------------------------------------------------------------------------
(* Lemmas about records: an edit of a leg with naturals is a leg.  The     *)
(* provers decide one field at a time.                                     *)

LEMMA EditLeg ==
    ASSUME NEW leg \in Leg, NEW a \in Nat
    PROVE  /\ [leg EXCEPT !.ledger = a] \in Leg
           /\ [leg EXCEPT !.pending = a] \in Leg
           /\ [leg EXCEPT !.unclaimed = a] \in Leg
           /\ [leg EXCEPT !.vest_start = a] \in Leg
           /\ [leg EXCEPT !.vest_end = a] \in Leg
           /\ [leg EXCEPT !.claim_index = a] \in Leg
           /\ [leg EXCEPT !.claim_epoch = a] \in Leg
  BY SMT DEF Leg

LEMMA EditLegTwice ==
    ASSUME NEW leg \in Leg, NEW a \in Nat, NEW b \in Nat
    PROVE  /\ [leg EXCEPT !.pending = a, !.ledger = b] \in Leg
           /\ [leg EXCEPT !.ledger = a, !.pending = b] \in Leg
           /\ [leg EXCEPT !.pending = a, !.vest_start = b] \in Leg
           /\ [leg EXCEPT !.claim_epoch = a, !.claim_index = b] \in Leg
           /\ [leg EXCEPT !.ledger = a, !.unclaimed = b] \in Leg
<1> DEFINE withLedger  == [leg EXCEPT !.ledger = a]
           withPending == [leg EXCEPT !.pending = a]
           withEpoch   == [leg EXCEPT !.claim_epoch = a]
<1>1. withLedger \in Leg /\ withPending \in Leg /\ withEpoch \in Leg
  BY EditLeg
<1>2. /\ [withPending EXCEPT !.ledger = b] \in Leg
      /\ [withLedger EXCEPT !.pending = b] \in Leg
      /\ [withPending EXCEPT !.vest_start = b] \in Leg
      /\ [withEpoch EXCEPT !.claim_index = b] \in Leg
      /\ [withLedger EXCEPT !.unclaimed = b] \in Leg
  <2> HIDE DEF withLedger, withPending, withEpoch
  <2>1. QED
    BY <1>1, EditLeg
<1>3. QED
  BY <1>2

LEMMA EditLegThrice ==
    ASSUME NEW leg \in Leg, NEW a \in Nat, NEW b \in Nat, NEW d \in Nat
    PROVE  /\ [leg EXCEPT !.ledger = a, !.pending = b, !.vest_start = d] \in Leg
           /\ [leg EXCEPT !.pending = a, !.vest_start = b, !.vest_end = d] \in Leg
           /\ [leg EXCEPT !.pending = a, !.ledger = b, !.unclaimed = d] \in Leg
<1> DEFINE folded   == [leg EXCEPT !.ledger = a, !.pending = b]
           credited == [leg EXCEPT !.pending = a, !.vest_start = b]
           reduced  == [leg EXCEPT !.pending = a, !.ledger = b]
<1>1. folded \in Leg /\ credited \in Leg /\ reduced \in Leg
  BY EditLegTwice
<1>2. /\ [folded EXCEPT !.vest_start = d] \in Leg
      /\ [credited EXCEPT !.vest_end = d] \in Leg
      /\ [reduced EXCEPT !.unclaimed = d] \in Leg
  <2> HIDE DEF folded, credited, reduced
  <2>1. QED
    BY <1>1, EditLeg
<1>3. QED
  BY <1>2

-----------------------------------------------------------------------------
(* Lemmas about the arithmetic of the recipe. *)

(* Scaling an amount by a fraction of at most one never increases it. *)
LEMMA MulDivShrinks ==
    ASSUME NEW a \in Nat, NEW b \in Nat, NEW d \in Nat \ {0}, b <= d
    PROVE  MulDivFloor(a, b, d) \in 0 .. a
<1> DEFINE q == (a * b) \div d
<1>1. a * b \in Nat
  BY SMT
<1>2. q \in Nat /\ d * q <= a * b
  BY <1>1, DivFloor
<1>3. a * b <= a * d
  BY SMT
<1>4. d * q <= d * a
  BY <1>1, <1>2, <1>3, SMT
<1>5. q <= a
  <2>1. SUFFICES ASSUME q >= a + 1 PROVE FALSE
    BY <1>2
  <2>2. d * q >= d * (a + 1)
    BY <1>2, <2>1, SMT
  <2>3. d * (a + 1) = d * a + d
    BY SMT
  <2> HIDE DEF q
  <2>4. QED
    BY <1>4, <2>2, <2>3, <1>2, SMT
<1>6. QED
  BY <1>2, <1>5 DEF MulDivFloor

(* What has vested is a part of what was pending. *)
LEMMA VestedIsPending ==
    ASSUME NEW leg \in Leg, NEW t \in Nat
    PROVE  Vested(leg, t) \in 0 .. leg.pending
<1> DEFINE span == leg.vest_end - leg.vest_start
           elapsed == t - leg.vest_start
<1>1. CASE leg.pending > 0 /\ span > 0 /\ elapsed > 0 /\ elapsed < span
  <2>1. MulDivFloor(leg.pending, elapsed, span) \in 0 .. leg.pending
    BY <1>1, MulDivShrinks DEF Leg
  <2>2. QED
    BY <1>1, <2>1 DEF Vested, Leg
<1>2. CASE ~(leg.pending > 0 /\ span > 0 /\ elapsed > 0 /\ elapsed < span)
  BY <1>2 DEF Vested, Leg
<1>3. QED
  BY <1>1, <1>2

(* Folding vested credit moves it from pending to ledger and touches       *)
(* nothing else that is counted.                                           *)
LEMMA FoldFacts ==
    ASSUME NEW leg \in Leg, NEW t \in Nat
    PROVE  LET folded == FoldVested(leg, t)
           IN  /\ folded \in Leg
               /\ Expected(folded) = Expected(leg)
               /\ folded.unclaimed = leg.unclaimed
               /\ folded.ledger >= leg.ledger
               /\ folded.claim_index = leg.claim_index
               /\ folded.claim_epoch = leg.claim_epoch
<1>1. Vested(leg, t) \in 0 .. leg.pending
  BY VestedIsPending
<1> DEFINE v == Vested(leg, t)
           start == IF t > leg.vest_start /\ t < leg.vest_end
                    THEN t ELSE leg.vest_start
           folded == [leg EXCEPT !.ledger = leg.ledger + v,
                                 !.pending = leg.pending - v,
                                 !.vest_start = start]
<1>2. leg.ledger + v \in Nat /\ leg.pending - v \in Nat /\ start \in Nat
  BY <1>1 DEF Leg
<1>3. folded \in Leg
  BY <1>2, EditLegThrice
<1>4. /\ folded.ledger = leg.ledger + v
      /\ folded.pending = leg.pending - v
      /\ folded.unclaimed = leg.unclaimed
      /\ folded.claim_index = leg.claim_index
      /\ folded.claim_epoch = leg.claim_epoch
  BY DEF Leg
<1>5. folded = FoldVested(leg, t)
  BY DEF FoldVested
<1> HIDE DEF folded, v
<1>6. QED
  BY <1>1, <1>2, <1>3, <1>4, <1>5 DEF Expected, v, Leg

(* A surplus becomes pending, whole. *)
LEMMA CreditFacts ==
    ASSUME NEW leg \in Leg, NEW surplus \in Nat \ {0}, NEW t \in Nat
    PROVE  LET after == Credit(leg, surplus, t)
           IN  /\ after \in Leg
               /\ Expected(after) = Expected(leg) + surplus
               /\ after.claim_index = leg.claim_index
               /\ after.claim_epoch = leg.claim_epoch
<1> DEFINE total == leg.pending + surplus
           weighted == leg.pending * TimeLeft(leg, t) + surplus * VestWindow
<1>1. TimeLeft(leg, t) \in Nat
  BY DEF TimeLeft, Leg
<1>2. total \in Nat \ {0}
  BY DEF Leg
<1>3. weighted + total - 1 \in Nat
  <2>1. leg.pending * TimeLeft(leg, t) \in Nat
    BY <1>1, SMT DEF Leg
  <2>2. surplus * VestWindow \in Nat
    BY RecipeAssumption, SMT
  <2>3. QED
    BY <2>1, <2>2, <1>2
<1>4. (weighted + total - 1) \div total \in Nat
  BY <1>2, <1>3, DivFloor
<1> DEFINE ends == t + (weighted + total - 1) \div total
           after == [leg EXCEPT !.pending = total, !.vest_start = t,
                                !.vest_end = ends]
<1>5. after \in Leg
  <2>1. ends \in Nat
    BY <1>4
  <2> HIDE DEF ends, total
  <2>2. QED
    BY <2>1, <1>2, EditLegThrice
<1>6. /\ after.ledger = leg.ledger
      /\ after.pending = total
      /\ after.unclaimed = leg.unclaimed
      /\ after.claim_index = leg.claim_index
      /\ after.claim_epoch = leg.claim_epoch
  BY DEF Leg
<1>7. after = Credit(leg, surplus, t)
  BY DEF Credit
<1> HIDE DEF after
<1>8. QED
  BY <1>5, <1>6, <1>7 DEF Expected, Leg

LEMMA SplitProduct ==
    ASSUME NEW l \in Nat, NEW u \in Nat, NEW r \in Nat
    PROVE  (l + u) * (r - l) = r * u + l * (r - (l + u))
<1>1. (l + u) * (r - l) = l * r - l * l + u * r - u * l
  BY SMT
<1>2. l * (r - (l + u)) = l * r - l * l - l * u
  BY SMT
<1>3. u * r = r * u /\ u * l = l * u
  BY SMT
<1>4. QED
  BY <1>1, <1>2, <1>3, SMT

(* What is taken from the ledger never exceeds it, as long as the loss     *)
(* does not exceed ledger and unclaimed together.                          *)
LEMMA DeficitSplits ==
    ASSUME NEW leg \in Leg, NEW r \in Nat \ {0}, r <= leg.ledger + leg.unclaimed
    PROVE  /\ FromUnclaimed(leg, r) \in 0 .. leg.unclaimed
           /\ FromUnclaimed(leg, r) <= r
           /\ r - FromUnclaimed(leg, r) <= leg.ledger
<1> DEFINE l == leg.ledger
           u == leg.unclaimed
           base == l + u
           q == (r * u) \div base
<1>1. l \in Nat /\ u \in Nat /\ base \in Nat \ {0} /\ r * u \in Nat
      /\ u <= base
  BY SMT DEF Leg
<1>2. q \in Nat /\ base * q <= r * u /\ r * u < base * q + base
  BY <1>1, DivFloor
<1>3. q <= r
  <2>1. MulDivFloor(r, u, base) \in 0 .. r
    BY <1>1, MulDivShrinks
  <2>2. QED
    BY <2>1 DEF MulDivFloor
<1>4. q <= u
  <2>1. MulDivFloor(u, r, base) \in 0 .. u
    BY <1>1, MulDivShrinks
  <2>2. u * r = r * u
    BY <1>1, SMT
  <2>3. QED
    BY <2>1, <2>2 DEF MulDivFloor
<1>5. r - q <= l
  <2>1. SUFFICES ASSUME q <= r - l - 1 PROVE FALSE
    BY <1>1, <1>2
  <2>2. base * (r - l) = r * u + l * (r - base)
    BY <1>1, SplitProduct
  <2>3. l * (r - base) <= 0
    BY <1>1, SMT
  <2>4. base * (q + 1) <= base * (r - l)
    <3>1. q + 1 <= r - l /\ q + 1 \in Nat /\ r - l \in Nat
      BY <1>1, <1>2, <2>1
    <3> HIDE DEF base, q, l
    <3>2. QED
      BY <3>1, <1>1, SMT
  <2>5. base * (q + 1) = base * q + base
    <3> HIDE DEF base, q
    <3>1. QED
      BY <1>1, <1>2, SMT
  <2>6. l * (r - base) \in Int /\ base * q \in Nat
    BY <1>1, <1>2, SMT
  <2> HIDE DEF base, q, l, u
  <2>7. QED
    BY <1>1, <1>2, <2>2, <2>3, <2>4, <2>5, <2>6
<1>6. FromUnclaimed(leg, r) = q
  BY <1>1, <1>2, <1>4 DEF FromUnclaimed, MulDivFloor
<1>7. QED
  BY <1>1, <1>2, <1>3, <1>4, <1>5, <1>6

(* A loss that shrinks unclaimed lowers the index or starts a new epoch.   *)
LEMMA ShrinkFacts ==
    ASSUME NEW leg \in Leg, NEW before \in Nat, leg.unclaimed <= before
    PROVE  LET after == ShrinkClaims(leg, before)
           IN  /\ after \in Leg
               /\ Expected(after) = Expected(leg)
               /\ after.claim_epoch >= leg.claim_epoch
               /\ after.claim_epoch = leg.claim_epoch => Index(after) <= Index(leg)
<1> DEFINE index == MulDivFloor(Index(leg), leg.unclaimed, before)
           restarted == [leg EXCEPT !.claim_epoch = leg.claim_epoch + 1,
                                    !.claim_index = ClaimOne]
           lowered == [leg EXCEPT !.claim_index = index]
<1>1. CASE leg.unclaimed = before
  <2>1. ShrinkClaims(leg, before) = leg
    BY <1>1 DEF ShrinkClaims
  <2>2. Index(leg) \in Nat
    BY RecipeAssumption DEF Index, Leg
  <2>3. QED
    BY <2>1, <2>2 DEF Leg
<1>2. CASE leg.unclaimed # before /\ (leg.unclaimed = 0 \/ index = 0)
  <2>1. restarted \in Leg
    <3>1. leg.claim_epoch + 1 \in Nat /\ ClaimOne \in Nat
      BY RecipeAssumption DEF Leg
    <3>2. QED
      BY <3>1, EditLegTwice
  <2>2. /\ restarted.ledger = leg.ledger
        /\ restarted.pending = leg.pending
        /\ restarted.unclaimed = leg.unclaimed
        /\ restarted.claim_epoch = leg.claim_epoch + 1
    BY DEF Leg
  <2>3. ShrinkClaims(leg, before) = restarted
    BY <1>2 DEF ShrinkClaims, StartNewEpoch
  <2> HIDE DEF restarted
  <2>4. QED
    BY <2>1, <2>2, <2>3 DEF Expected, Leg
<1>3. CASE leg.unclaimed # before /\ leg.unclaimed # 0 /\ index # 0
  <2>1. before \in Nat \ {0}
    BY <1>3 DEF Leg
  <2>2. Index(leg) \in Nat
    BY RecipeAssumption DEF Index, Leg
  <2>3. index \in 0 .. Index(leg)
    BY <2>1, <2>2, MulDivShrinks DEF Leg
  <2> HIDE DEF index
  <2>4. lowered \in Leg
    <3>1. index \in Nat
      BY <2>2, <2>3
    <3>2. QED
      BY <3>1, EditLeg
  <2>5. /\ lowered.ledger = leg.ledger
        /\ lowered.pending = leg.pending
        /\ lowered.unclaimed = leg.unclaimed
        /\ lowered.claim_epoch = leg.claim_epoch
        /\ lowered.claim_index = index
    BY DEF Leg
  <2>6. ShrinkClaims(leg, before) = lowered
    BY <1>3 DEF ShrinkClaims, index
  <2> HIDE DEF lowered
  <2>7. Index(lowered) = index
    BY <2>5, <1>3 DEF Index
  <2>8. QED
    BY <2>3, <2>4, <2>5, <2>6, <2>7 DEF Expected, Leg
<1>4. QED
  BY <1>1, <1>2, <1>3

(* A deficit no larger than the holdings is taken from them exactly.       *)
LEMMA DeficitFacts ==
    ASSUME NEW leg \in Leg, Expected(leg) <= MaxU64,
           NEW deficit \in 1 .. Expected(leg)
    PROVE  LET after == ApplyDeficit(leg, deficit)
           IN  /\ DeficitAccepts(leg, deficit)
               /\ after \in Leg
               /\ Expected(after) = Expected(leg) - deficit
               /\ after.claim_epoch >= leg.claim_epoch
               /\ after.claim_epoch = leg.claim_epoch => Index(after) <= Index(leg)
<1> DEFINE r == AfterPending(leg, deficit)
<1>1. CASE deficit <= leg.pending
  <2> DEFINE after == [leg EXCEPT !.pending = leg.pending - deficit]
  <2>1. r = 0 /\ leg.pending - deficit \in Nat
    BY <1>1 DEF AfterPending, Leg, Expected
  <2>2. ApplyDeficit(leg, deficit) = after /\ DeficitAccepts(leg, deficit)
    BY <2>1 DEF ApplyDeficit, DeficitAccepts
  <2>3. after \in Leg
    BY <2>1, EditLeg
  <2>4. /\ after.ledger = leg.ledger
        /\ after.pending = leg.pending - deficit
        /\ after.unclaimed = leg.unclaimed
        /\ after.claim_epoch = leg.claim_epoch
        /\ after.claim_index = leg.claim_index
    BY DEF Leg
  <2> HIDE DEF after
  <2>5. Index(after) = Index(leg)
    BY <2>4 DEF Index
  <2>6. Index(leg) \in Nat
    BY RecipeAssumption DEF Index, Leg
  <2>7. QED
    BY <1>1, <2>2, <2>3, <2>4, <2>5, <2>6 DEF Expected, Leg
<1>2. CASE deficit > leg.pending
  <2> DEFINE f == FromUnclaimed(leg, r)
             reduced == [leg EXCEPT !.pending = 0,
                                    !.ledger = leg.ledger - (r - f),
                                    !.unclaimed = leg.unclaimed - f]
  <2>1. /\ r = deficit - leg.pending
        /\ r \in Nat \ {0}
        /\ r <= leg.ledger + leg.unclaimed
    BY <1>2 DEF AfterPending, Leg, Expected
  <2>2. f \in 0 .. leg.unclaimed /\ f <= r /\ r - f <= leg.ledger
    BY <2>1, DeficitSplits
  <2>3. DeficitAccepts(leg, deficit)
    <3>1. leg.ledger + leg.unclaimed \in 1 .. MaxU64
      BY <2>1, RecipeAssumption DEF Expected, Leg
    <3>2. QED
      BY <2>2, <3>1 DEF DeficitAccepts
  <2> HIDE DEF f, r
  <2>4. reduced \in Leg
    <3>1. leg.ledger - (r - f) \in Nat /\ leg.unclaimed - f \in Nat
      BY <2>1, <2>2 DEF Leg
    <3>2. QED
      BY <3>1, EditLegThrice
  <2>5. /\ reduced.ledger = leg.ledger - (r - f)
        /\ reduced.pending = 0
        /\ reduced.unclaimed = leg.unclaimed - f
        /\ reduced.claim_epoch = leg.claim_epoch
        /\ reduced.claim_index = leg.claim_index
    BY DEF Leg
  <2>6. ApplyDeficit(leg, deficit) = ShrinkClaims(reduced, leg.unclaimed)
    BY <2>1 DEF ApplyDeficit, f, r
  <2> HIDE DEF reduced
  <2>7. Expected(reduced) = Expected(leg) - deficit
    BY <2>1, <2>2, <2>5 DEF Expected, Leg
  <2>8. Index(reduced) = Index(leg)
    BY <2>5 DEF Index
  <2>9. leg.unclaimed \in Nat /\ reduced.unclaimed <= leg.unclaimed
    BY <2>2, <2>5 DEF Leg
  <2>10. QED
    BY <2>3, <2>4, <2>5, <2>6, <2>7, <2>8, <2>9, ShrinkFacts
<1>3. QED
  BY <1>1, <1>2 DEF Leg, Expected

(* A sync accepts every balance the account can hold, and makes the leg    *)
(* expect exactly that balance; indexes only fall and epochs only rise.    *)
LEMMA SyncFacts ==
    ASSUME NEW leg \in Leg, Expected(leg) <= MaxU64,
           NEW actual \in Amount, NEW t \in Nat
    PROVE  LET after == Sync(leg, actual, t)
           IN  /\ SyncAccepts(leg, actual, t)
               /\ after \in Leg
               /\ Expected(after) = actual
               /\ after.claim_epoch >= leg.claim_epoch
               /\ after.claim_epoch = leg.claim_epoch => Index(after) <= Index(leg)
<1> DEFINE folded == FoldVested(leg, t)
<1>1. /\ folded \in Leg
      /\ Expected(folded) = Expected(leg)
      /\ folded.claim_index = leg.claim_index
      /\ folded.claim_epoch = leg.claim_epoch
  BY FoldFacts
<1>2. Index(folded) = Index(leg) /\ Index(leg) \in Nat
  BY <1>1, RecipeAssumption DEF Index, Leg
<1>3. Expected(leg) \in Nat /\ actual \in Nat /\ leg.claim_epoch \in Nat
  BY RecipeAssumption DEF Expected, Leg, Amount
<1>4. CASE actual > Expected(folded)
  <2> DEFINE s == actual - Expected(folded)
  <2>1. s \in Nat \ {0}
    BY <1>1, <1>3, <1>4
  <2>2. Sync(leg, actual, t) = Credit(folded, s, t)
    BY <1>4 DEF Sync
  <2>3. SyncAccepts(leg, actual, t)
    BY <1>1, <1>3, <1>4 DEF SyncAccepts
  <2> HIDE DEF folded
  <2>4. /\ Credit(folded, s, t) \in Leg
        /\ Expected(Credit(folded, s, t)) = Expected(folded) + s
        /\ Credit(folded, s, t).claim_index = folded.claim_index
        /\ Credit(folded, s, t).claim_epoch = folded.claim_epoch
    BY <1>1, <2>1, CreditFacts
  <2>5. Index(Credit(folded, s, t)) = Index(folded)
    BY <2>4 DEF Index
  <2>6. QED
    BY <1>1, <1>2, <1>3, <2>1, <2>2, <2>3, <2>4, <2>5
<1>5. CASE actual < Expected(folded)
  <2> DEFINE d == Expected(folded) - actual
             after == ApplyDeficit(folded, d)
  <2>1. d \in 1 .. Expected(folded)
    BY <1>1, <1>3, <1>5
  <2>2. Sync(leg, actual, t) = after
    BY <1>1, <1>3, <1>5 DEF Sync
  <2>3. /\ DeficitAccepts(folded, d)
        /\ after \in Leg
        /\ Expected(after) = Expected(folded) - d
        /\ after.claim_epoch >= folded.claim_epoch
        /\ after.claim_epoch = folded.claim_epoch => Index(after) <= Index(folded)
    <3> HIDE DEF folded, d
    <3>1. QED
      BY <1>1, <2>1, DeficitFacts
  <2>4. SyncAccepts(leg, actual, t)
    BY <1>1, <2>3 DEF SyncAccepts
  <2> HIDE DEF after, folded
  <2>5. QED
    BY <1>1, <1>2, <1>3, <2>1, <2>2, <2>3, <2>4
<1>6. CASE actual = Expected(folded)
  <2>1. Sync(leg, actual, t) = folded
    BY <1>1, <1>3, <1>6 DEF Sync
  <2>2. SyncAccepts(leg, actual, t)
    BY <1>1, <1>3, <1>6 DEF SyncAccepts
  <2> HIDE DEF folded
  <2>3. QED
    BY <1>1, <1>2, <1>3, <1>6, <2>1, <2>2
<1>7. QED
  BY <1>1, <1>3, <1>4, <1>5, <1>6

-----------------------------------------------------------------------------
(* Lemmas about claims. *)

(* A leg that moved on, epochs up or index down, can still settle a claim  *)
(* it could settle before.                                                 *)
LEMMA SettleLater ==
    ASSUME NEW claim \in ClaimLeg, NEW leg \in Leg, NEW after \in Leg,
           SettleAccepts(claim, leg),
           after.claim_epoch >= leg.claim_epoch,
           after.claim_epoch = leg.claim_epoch => Index(after) <= Index(leg)
    PROVE  SettleAccepts(claim, after)
<1>1. Index(leg) \in Nat /\ Index(after) \in Nat
  BY RecipeAssumption DEF Index, Leg
<1>2. QED
  BY <1>1 DEF SettleAccepts, ClaimLeg, Leg

LEMMA EditClaim ==
    ASSUME NEW claim \in ClaimLeg, NEW a \in Nat, NEW b \in Nat, NEW d \in Nat
    PROVE  [claim EXCEPT !.units = a, !.index = b, !.epoch = d] \in ClaimLeg
<1> DEFINE one == [claim EXCEPT !.units = a]
           two == [one EXCEPT !.index = b]
           three == [two EXCEPT !.epoch = d]
<1>1. one \in ClaimLeg /\ one.units = a
  BY SMT DEF ClaimLeg
<1> HIDE DEF one
<1>2. two \in ClaimLeg /\ two.units = a /\ two.index = b
  BY <1>1, SMT DEF ClaimLeg
<1> HIDE DEF two
<1>3. three \in ClaimLeg /\ three.units = a /\ three.index = b /\ three.epoch = d
  BY <1>2, SMT DEF ClaimLeg
<1>4. QED
  BY <1>3 DEF one, two

(* What a claim settles to is an amount no larger than what it was.        *)
LEMMA SettledFacts ==
    ASSUME NEW claim \in ClaimLeg, NEW leg \in Leg, SettleAccepts(claim, leg)
    PROVE  SettledUnits(claim, leg) \in 0 .. claim.units
<1>1. Index(leg) \in Nat
  BY RecipeAssumption DEF Index, Leg
<1>2. CASE claim.units = 0 \/ claim.epoch < leg.claim_epoch
  BY <1>2 DEF SettledUnits, ClaimLeg
<1>3. CASE claim.units # 0 /\ ~(claim.epoch < leg.claim_epoch)
  <2>1. claim.index \in Nat \ {0} /\ Index(leg) <= claim.index
    BY <1>3 DEF SettleAccepts, ClaimLeg, Leg
  <2>2. MulDivFloor(claim.units, Index(leg), claim.index) \in 0 .. claim.units
    BY <1>1, <2>1, MulDivShrinks DEF ClaimLeg
  <2>3. QED
    BY <1>3, <2>2 DEF SettledUnits
<1>4. QED
  BY <1>2, <1>3

(* A claim just credited or paid stands at the leg's own index and epoch.  *)
LEMMA ClaimFacts ==
    ASSUME NEW claim \in ClaimLeg, NEW leg \in Leg, SettleAccepts(claim, leg),
           NEW units \in Nat
    PROVE  /\ CreditClaim(claim, leg, units) \in ClaimLeg
           /\ SettleAccepts(CreditClaim(claim, leg, units), leg)
           /\ units <= SettledUnits(claim, leg) =>
                /\ WithdrawClaim(claim, leg, units) \in ClaimLeg
                /\ SettleAccepts(WithdrawClaim(claim, leg, units), leg)
<1> DEFINE n == SettledUnits(claim, leg)
           settled == [claim EXCEPT !.units = n, !.index = Index(leg),
                                    !.epoch = leg.claim_epoch]
<1>1. n \in Nat
  BY SettledFacts DEF ClaimLeg
<1>2. Index(leg) \in Nat \ {0} /\ leg.claim_epoch \in Nat
  BY RecipeAssumption DEF Index, Leg
<1>3. /\ settled.units = n
      /\ settled.index = Index(leg)
      /\ settled.epoch = leg.claim_epoch
  BY DEF ClaimLeg
<1>3a. settled \in ClaimLeg
  <2> DEFINE idx == Index(leg)
             ep == leg.claim_epoch
  <2>1. idx \in Nat /\ ep \in Nat
    BY <1>2
  <2> HIDE DEF n, idx, ep
  <2>2. [claim EXCEPT !.units = n, !.index = idx, !.epoch = ep] \in ClaimLeg
    BY <1>1, <2>1, EditClaim
  <2>3. QED
    BY <2>2 DEF idx, ep
<1>4. Settle(claim, leg) = settled
  BY DEF Settle, Rebase
<1> HIDE DEF settled, n
<1>5. ASSUME NEW m \in Nat
      PROVE  /\ [settled EXCEPT !.units = m] \in ClaimLeg
             /\ SettleAccepts([settled EXCEPT !.units = m], leg)
  <2> DEFINE c == [settled EXCEPT !.units = m]
  <2>1. /\ c \in ClaimLeg
        /\ c.index = settled.index
        /\ c.epoch = settled.epoch
    BY <1>3a, SMT DEF ClaimLeg
  <2> HIDE DEF c
  <2>2. SettleAccepts(c, leg)
    BY <1>2, <1>3, <2>1 DEF SettleAccepts
  <2>3. QED
    BY <2>1, <2>2 DEF c
<1>6. CreditClaim(claim, leg, units) = [settled EXCEPT !.units = n + units]
  BY <1>3, <1>4 DEF CreditClaim
<1>7. WithdrawClaim(claim, leg, units) = [settled EXCEPT !.units = n - units]
  BY <1>3, <1>4 DEF WithdrawClaim
<1>8. units <= n => n - units \in Nat
  BY <1>1
<1>9. n + units \in Nat
  BY <1>1
<1>10. QED
  BY <1>5, <1>6, <1>7, <1>8, <1>9 DEF n

-----------------------------------------------------------------------------
(* Facts of every state that satisfies the invariant. *)

(* Every leg can be synced, and then expects just what the Hall holds.     *)
LEMMA SyncedFacts ==
    ASSUME ReconcileInv, NEW c \in Constituents
    PROVE  /\ SyncAccepts(legs[c], balance[c], now)
           /\ Synced[c] = Sync(legs[c], balance[c], now)
           /\ Synced[c] \in Leg
           /\ Expected(Synced[c]) = balance[c]
           /\ \A w \in Wallets :
                /\ claims[w][c] \in ClaimLeg
                /\ SettleAccepts(claims[w][c], Synced[c])
<1>1. /\ legs[c] \in Leg
      /\ Expected(legs[c]) <= MaxU64
      /\ balance[c] \in Amount
      /\ now \in Nat
      /\ \A w \in Wallets :
           /\ claims[w][c] \in ClaimLeg
           /\ SettleAccepts(claims[w][c], legs[c])
  BY DEF ReconcileInv, TypeOK
<1>2. Synced[c] = Sync(legs[c], balance[c], now)
  BY DEF Synced
<1>3. /\ SyncAccepts(legs[c], balance[c], now)
      /\ Synced[c] \in Leg
      /\ Expected(Synced[c]) = balance[c]
      /\ Synced[c].claim_epoch >= legs[c].claim_epoch
      /\ Synced[c].claim_epoch = legs[c].claim_epoch
           => Index(Synced[c]) <= Index(legs[c])
  BY <1>1, <1>2, SyncFacts
<1>4. \A w \in Wallets : SettleAccepts(claims[w][c], Synced[c])
  BY <1>1, <1>3, SettleLater
<1>5. QED
  BY <1>1, <1>2, <1>3, <1>4

LEMMA InvImpliesNoReconcileError == ReconcileInv => NoReconcileError
  BY SyncedFacts DEF NoReconcileError

(* A deposit that is accepted is received whole.                           *)
LEMMA DepositFacts ==
    ASSUME ReconcileInv, NEW c \in Constituents, NEW amount \in Nat,
           DepositAccepts(c, amount)
    PROVE  /\ Delivered(c, amount) = amount
           /\ balance[c] + amount \in Amount
  BY RecipeAssumption DEF DepositAccepts, ReconcileInv, TypeOK, Amount

LEMMA RequiredInFacts ==
    ASSUME NEW leg \in Leg, NEW n \in Nat, NEW s \in Nat \ {0}
    PROVE  RequiredIn(leg, n, s) \in Nat
<1>1. leg.ledger * n \in Nat
  BY SMT DEF Leg
<1>2. leg.ledger * n + s - 1 \in Nat
  BY <1>1
<1>3. QED
  BY <1>2, DivFloor DEF RequiredIn, MulDivCeil

(* What a melt takes from a leg is moved to unclaimed, whole.              *)
LEMMA MeltFacts ==
    ASSUME NEW leg \in Leg, NEW n \in Nat, NEW s \in Nat \ {0}, n <= s
    PROVE  LET units == Out(leg, n, s)
               after == ApplyRedeem(leg, units)
           IN  /\ units \in 0 .. leg.ledger
               /\ after \in Leg
               /\ Expected(after) = Expected(leg)
               /\ after.claim_epoch = leg.claim_epoch
               /\ Index(after) = Index(leg)
<1> DEFINE units == Out(leg, n, s)
           after == [leg EXCEPT !.ledger = leg.ledger - units,
                                !.unclaimed = leg.unclaimed + units]
<1>1. units \in 0 .. leg.ledger
  BY MulDivShrinks DEF Out, Leg
<1> HIDE DEF units
<1>2. leg.ledger - units \in Nat /\ leg.unclaimed + units \in Nat
  BY <1>1 DEF Leg
<1>3. after \in Leg
  BY <1>2, EditLegTwice
<1>4. /\ after.ledger = leg.ledger - units
      /\ after.pending = leg.pending
      /\ after.unclaimed = leg.unclaimed + units
      /\ after.claim_index = leg.claim_index
      /\ after.claim_epoch = leg.claim_epoch
  BY DEF Leg
<1>5. ApplyRedeem(leg, units) = after
  BY DEF ApplyRedeem
<1> HIDE DEF after
<1>6. Expected(after) = Expected(leg)
  BY <1>1, <1>4 DEF Expected, Leg
<1>7. Index(after) = Index(leg)
  BY <1>4 DEF Index
<1>8. QED
  BY <1>1, <1>3, <1>4, <1>5, <1>6, <1>7 DEF units

-----------------------------------------------------------------------------
(* The invariant is inductive.  A step that writes legs, claims or         *)
(* balances preserves it leg by leg; LegInv is its part about one leg.     *)

LegInv(c) ==
    /\ legs[c] \in Leg
    /\ Expected(legs[c]) <= MaxU64
    /\ balance[c] \in Amount
    /\ \A w \in Wallets :
         /\ claims[w][c] \in ClaimLeg
         /\ SettleAccepts(claims[w][c], legs[c])
         /\ ~founded => claims[w][c].units = 0

(* The step leaves a leg as it was, or expecting what the Hall then holds. *)
WrittenBalanced(c) == legs'[c] # legs[c] => Expected(legs'[c]) = balance'[c]

(* The part of the invariant about everything but the legs. *)
FrameInv ==
    /\ founded \in BOOLEAN
    /\ locked_genesis \in Nat
    /\ supply \in Nat
    /\ shares \in [Wallets -> Nat]
    /\ stance \in [Constituents -> Stances]
    /\ burnt \in Nat
    /\ now \in Nat

(* The functions whose entries LegInv speaks of. *)
ShapeInv ==
    /\ legs = [c \in Constituents |-> legs[c]]
    /\ balance = [c \in Constituents |-> balance[c]]
    /\ claims = [w \in Wallets |-> [c \in Constituents |-> claims[w][c]]]

LEMMA InvByParts ==
    ReconcileInv <=> FrameInv /\ ShapeInv /\ \A c \in Constituents : LegInv(c)
<1>1. ASSUME ReconcileInv
      PROVE  FrameInv /\ ShapeInv /\ \A c \in Constituents : LegInv(c)
  BY <1>1 DEF ReconcileInv, TypeOK, FrameInv, ShapeInv, LegInv
<1>2. ASSUME FrameInv, ShapeInv, \A c \in Constituents : LegInv(c)
      PROVE  ReconcileInv
  <2>1. legs \in [Constituents -> Leg]
    BY <1>2 DEF ShapeInv, LegInv
  <2>2. balance \in [Constituents -> Amount]
    BY <1>2 DEF ShapeInv, LegInv
  <2>3. claims \in [Wallets -> [Constituents -> ClaimLeg]]
    BY <1>2 DEF ShapeInv, LegInv
  <2>4. QED
    BY <1>2, <2>1, <2>2, <2>3 DEF ReconcileInv, TypeOK, FrameInv, LegInv
<1>3. QED
  BY <1>1, <1>2

(* The same, of the next state. *)
LEMMA InvNextByParts ==
    ASSUME FrameInv', ShapeInv', \A c \in Constituents : LegInv(c)'
    PROVE  ReconcileInv'
<1>1. legs' \in [Constituents -> Leg]
  BY DEF ShapeInv, LegInv
<1>2. balance' \in [Constituents -> Amount]
  BY DEF ShapeInv, LegInv
<1>3. claims' \in [Wallets -> [Constituents -> ClaimLeg]]
  BY DEF ShapeInv, LegInv
<1>4. QED
  BY <1>1, <1>2, <1>3 DEF ReconcileInv, TypeOK, FrameInv, LegInv

LEMMA InitInv == Init => ReconcileInv
<1> SUFFICES ASSUME Init PROVE ReconcileInv
  OBVIOUS
<1>1. NoLeg \in Leg /\ NoClaim \in ClaimLeg
  BY DEF NoLeg, Leg, NoClaim, ClaimLeg
<1>2. Expected(NoLeg) = 0 /\ MaxU64 \in Nat
  BY RecipeAssumption DEF Expected, NoLeg
<1>3. NoClaim.units = 0 /\ SettleAccepts(NoClaim, NoLeg)
  BY DEF NoClaim, SettleAccepts
<1>4. stance \in [Constituents -> Stances]
  BY HallAssumption DEF Init
<1>5. FrameInv
  BY <1>4 DEF Init, FrameInv
<1>6. ShapeInv
  BY DEF Init, ShapeInv
<1>7. ASSUME NEW c \in Constituents PROVE LegInv(c)
  BY <1>1, <1>2, <1>3 DEF Init, LegInv, Amount
<1>8. QED
  BY <1>5, <1>6, <1>7, InvByParts

LEMMA InitializeAlloyInv ==
    ASSUME ReconcileInv, NEW genesis \in GenesisShares,
           NEW deposits \in [Constituents -> GenesisDeposits],
           InitializeAlloy(genesis, deposits)
    PROVE  ReconcileInv' /\ \A c \in Constituents : WrittenBalanced(c)
<1>1. FrameInv /\ ShapeInv /\ \A c \in Constituents : LegInv(c)
  BY InvByParts
<1>2. FrameInv'
  BY <1>1, HallAssumption DEF InitializeAlloy, FrameInv
<1>3. ShapeInv'
  BY <1>1 DEF InitializeAlloy, ShapeInv
<1>4. ASSUME NEW c \in Constituents PROVE LegInv(c)' /\ WrittenBalanced(c)
  <2> DEFINE d == deposits[c]
             ends == now + VestWindow
  <2>1. d \in Nat /\ balance[c] \in Nat /\ now \in Nat /\ ends \in Nat
    <3>1. d \in GenesisDeposits /\ balance[c] \in Amount /\ now \in Nat
      BY <1>1 DEF LegInv, FrameInv
    <3>2. ends \in Nat
      BY <3>1, RecipeAssumption
    <3>3. balance[c] \in Nat
      BY <3>1, RecipeAssumption DEF Amount
    <3>4. d \in Nat
      BY <3>1, HallAssumption
    <3>5. QED
      BY <3>1, <3>2, <3>3, <3>4
  <2>2. /\ Delivered(c, d) = d
        /\ balance[c] + d \in Amount
    BY <2>1, DepositFacts DEF InitializeAlloy
  <2>3. balance'[c] = balance[c] + d
    BY <2>2 DEF InitializeAlloy
  <2>4. legs'[c] = [ledger |-> d, pending |-> balance[c], unclaimed |-> 0,
                    vest_start |-> now, vest_end |-> ends,
                    claim_index |-> 0, claim_epoch |-> 0]
    BY DEF InitializeAlloy, NoLeg
  <2> HIDE DEF d, ends
  <2>5. legs'[c] \in Leg
    BY <2>1, <2>4 DEF Leg
  <2>6. Expected(legs'[c]) = balance[c] + d
    BY <2>1, <2>4 DEF Expected
  <2>7. \A w \in Wallets : claims'[w][c] = claims[w][c] /\ claims[w][c].units = 0
    BY <1>1 DEF InitializeAlloy, LegInv
  <2>8. Expected(legs'[c]) <= MaxU64
    BY <2>2, <2>6, RecipeAssumption DEF Amount
  <2>9. QED
    BY <1>1, <2>2, <2>3, <2>5, <2>6, <2>7, <2>8
    DEF LegInv, SettleAccepts, WrittenBalanced
<1>5. QED
  BY <1>2, <1>3, <1>4, InvNextByParts

LEMMA CreateInv ==
    ASSUME ReconcileInv, NEW w \in Wallets, NEW n \in 1 .. MaxU64,
           NEW maximums \in [Constituents -> Maximums],
           Create(w, n, maximums)
    PROVE  ReconcileInv' /\ \A c \in Constituents : WrittenBalanced(c)
<1>1. FrameInv /\ ShapeInv /\ \A c \in Constituents : LegInv(c)
  BY InvByParts
<1>2. n \in Nat /\ supply \in Nat \ {0}
  BY <1>1, RecipeAssumption DEF Create, CreateAccepts, FrameInv
<1>3. FrameInv'
  BY <1>1, <1>2 DEF Create, FrameInv
<1>4. ShapeInv'
  BY <1>1 DEF Create, ShapeInv
<1>5. ASSUME NEW c \in Constituents PROVE LegInv(c)' /\ WrittenBalanced(c)
  <2> DEFINE input == RequiredIn(Synced[c], n, supply)
             after == [Synced[c] EXCEPT !.ledger = Synced[c].ledger + input]
  <2>1. /\ Synced[c] \in Leg
        /\ Expected(Synced[c]) = balance[c]
        /\ \A v \in Wallets : /\ claims[v][c] \in ClaimLeg
                               /\ SettleAccepts(claims[v][c], Synced[c])
    BY SyncedFacts
  <2>2. input \in Nat
    BY <1>2, <2>1, RequiredInFacts
  <2>3. /\ Delivered(c, input) = input
        /\ balance[c] + input \in Amount
    BY <2>2, DepositFacts DEF Create
  <2>4. balance'[c] = balance[c] + input /\ legs'[c] = after
    BY <2>3 DEF Create, ApplyCreate
  <2> HIDE DEF input
  <2>5. after \in Leg
    <3>1. Synced[c].ledger + input \in Nat
      BY <2>1, <2>2 DEF Leg
    <3>2. QED
      BY <2>1, <3>1, EditLeg
  <2>6. /\ after.ledger = Synced[c].ledger + input
        /\ after.pending = Synced[c].pending
        /\ after.unclaimed = Synced[c].unclaimed
        /\ after.claim_index = Synced[c].claim_index
        /\ after.claim_epoch = Synced[c].claim_epoch
    BY <2>1 DEF Leg
  <2> HIDE DEF after
  <2>7. Expected(after) = balance[c] + input
    BY <2>1, <2>2, <2>6 DEF Expected, Leg
  <2>8. \A v \in Wallets : SettleAccepts(claims[v][c], after)
    BY <2>1, <2>6 DEF SettleAccepts, Index
  <2>9. Expected(after) <= MaxU64
    BY <2>3, <2>7, RecipeAssumption DEF Amount
  <2>10. claims' = claims /\ founded'
    BY DEF Create
  <2>11. QED
    BY <2>1, <2>3, <2>4, <2>5, <2>7, <2>8, <2>9, <2>10
    DEF LegInv, WrittenBalanced
<1>6. QED
  BY <1>3, <1>4, <1>5, InvNextByParts

LEMMA RedeemInv ==
    ASSUME ReconcileInv, NEW w \in Wallets, NEW n \in 1 .. MaxU64, Redeem(w, n)
    PROVE  ReconcileInv' /\ \A c \in Constituents : WrittenBalanced(c)
<1>1. FrameInv /\ ShapeInv /\ \A c \in Constituents : LegInv(c)
  BY InvByParts
<1>2. n \in Nat /\ supply \in Nat \ {0} /\ n <= supply /\ n <= shares[w]
  BY <1>1, RecipeAssumption DEF Redeem, RedeemChecks, RedeemAccepts, FrameInv
<1>3. FrameInv'
  BY <1>1, <1>2 DEF Redeem, FrameInv
<1>4. ShapeInv'
  BY <1>1 DEF Redeem, Melted, ShapeInv
<1>5. ASSUME NEW c \in Constituents PROVE LegInv(c)' /\ WrittenBalanced(c)
  <2> DEFINE units == Out(Synced[c], n, supply)
             after == ApplyRedeem(Synced[c], units)
  <2>1. /\ Synced[c] \in Leg
        /\ Expected(Synced[c]) = balance[c]
        /\ \A v \in Wallets : /\ claims[v][c] \in ClaimLeg
                               /\ SettleAccepts(claims[v][c], Synced[c])
    BY SyncedFacts
  <2>2. /\ units \in 0 .. Synced[c].ledger
        /\ after \in Leg
        /\ Expected(after) = Expected(Synced[c])
        /\ after.claim_epoch = Synced[c].claim_epoch
        /\ Index(after) = Index(Synced[c])
    BY <1>2, <2>1, MeltFacts
  <2>3. Melted(n)[c] = after
    BY DEF Melted
  <2>4. units \in Nat
    BY <2>1, <2>2 DEF Leg
  <2>5. /\ legs'[c] = after
        /\ balance' = balance
        /\ founded'
    BY <2>3 DEF Redeem
  <2>6. \A v \in Wallets : claims'[v][c] =
           IF v = w THEN CreditClaim(claims[w][c], after, units) ELSE claims[v][c]
    BY <1>1, <2>3 DEF Redeem, ShapeInv
  <2> HIDE DEF after, units
  <2>7. \A v \in Wallets : SettleAccepts(claims[v][c], after)
    BY <2>1, <2>2 DEF SettleAccepts
  <2>8. /\ CreditClaim(claims[w][c], after, units) \in ClaimLeg
        /\ SettleAccepts(CreditClaim(claims[w][c], after, units), after)
    BY <2>1, <2>2, <2>4, <2>7, ClaimFacts
  <2>9. \A v \in Wallets : claims'[v][c] \in ClaimLeg /\ SettleAccepts(claims'[v][c], after)
    BY <2>1, <2>6, <2>7, <2>8
  <2>10. balance[c] \in Amount /\ Expected(after) <= MaxU64
    BY <1>1, <2>1, <2>2, RecipeAssumption DEF LegInv, Amount
  <2>11. QED
    BY <2>1, <2>2, <2>5, <2>9, <2>10 DEF LegInv, WrittenBalanced
<1>6. QED
  BY <1>3, <1>4, <1>5, InvNextByParts

LEMMA WithdrawInv ==
    ASSUME ReconcileInv, NEW w \in Wallets, NEW k \in Constituents,
           NEW n \in 1 .. MaxU64, Withdraw(w, k, n)
    PROVE  ReconcileInv' /\ \A c \in Constituents : WrittenBalanced(c)
<1>1. FrameInv /\ ShapeInv /\ \A c \in Constituents : LegInv(c)
  BY InvByParts
<1>2. FrameInv'
  BY <1>1 DEF Withdraw, FrameInv
<1>3. ShapeInv'
  BY <1>1 DEF Withdraw, ShapeInv
<1>4. LegInv(k)' /\ WrittenBalanced(k)
  <2> DEFINE after == [Synced[k] EXCEPT !.unclaimed = Synced[k].unclaimed - n]
  <2>1. /\ Synced[k] \in Leg
        /\ Expected(Synced[k]) = balance[k]
        /\ \A v \in Wallets : /\ claims[v][k] \in ClaimLeg
                               /\ SettleAccepts(claims[v][k], Synced[k])
    BY SyncedFacts
  <2>2. /\ n \in Nat
        /\ n <= SettledUnits(claims[w][k], Synced[k])
        /\ n <= Synced[k].unclaimed
        /\ n <= balance[k]
    BY RecipeAssumption DEF Withdraw, WithdrawChecks, WithdrawClaimAccepts
  <2>3. after \in Leg
    <3>1. Synced[k].unclaimed - n \in Nat
      BY <2>1, <2>2 DEF Leg
    <3>2. QED
      BY <2>1, <3>1, EditLeg
  <2>4. /\ after.ledger = Synced[k].ledger
        /\ after.pending = Synced[k].pending
        /\ after.unclaimed = Synced[k].unclaimed - n
        /\ after.claim_index = Synced[k].claim_index
        /\ after.claim_epoch = Synced[k].claim_epoch
    BY <2>1 DEF Leg
  <2>5. /\ legs'[k] = after
        /\ balance'[k] = balance[k] - n
        /\ founded'
    BY <1>1 DEF Withdraw, ApplyWithdraw, ShapeInv
  <2>6. \A v \in Wallets : claims'[v][k] =
           IF v = w THEN WithdrawClaim(claims[w][k], Synced[k], n) ELSE claims[v][k]
    BY <1>1 DEF Withdraw, ShapeInv
  <2> HIDE DEF after
  <2>7. /\ WithdrawClaim(claims[w][k], Synced[k], n) \in ClaimLeg
        /\ SettleAccepts(WithdrawClaim(claims[w][k], Synced[k], n), Synced[k])
    BY <2>1, <2>2, ClaimFacts
  <2>8. \A v \in Wallets : /\ claims'[v][k] \in ClaimLeg
                           /\ SettleAccepts(claims'[v][k], Synced[k])
    BY <2>1, <2>6, <2>7
  <2>9. \A v \in Wallets : SettleAccepts(claims'[v][k], after)
    BY <2>4, <2>8 DEF SettleAccepts, Index
  <2>10. /\ balance[k] - n \in Amount
         /\ Expected(after) <= MaxU64
         /\ Expected(after) = balance[k] - n
    <3>1. balance[k] \in Amount
      BY <1>1 DEF LegInv
    <3>2. Expected(after) = balance[k] - n
      BY <2>1, <2>2, <2>4 DEF Expected, Leg
    <3>3. QED
      BY <2>2, <3>1, <3>2, RecipeAssumption DEF Amount
  <2>11. QED
    BY <2>3, <2>5, <2>8, <2>9, <2>10 DEF LegInv, WrittenBalanced
<1>5. ASSUME NEW c \in Constituents, c # k PROVE LegInv(c)' /\ WrittenBalanced(c)
  <2>1. /\ legs'[c] = legs[c]
        /\ balance'[c] = balance[c]
        /\ founded' = founded
        /\ \A v \in Wallets : claims'[v][c] = claims[v][c]
    BY <1>1, <1>5 DEF Withdraw, ShapeInv
  <2>2. QED
    BY <1>1, <2>1 DEF LegInv, WrittenBalanced
<1>6. \A c \in Constituents : LegInv(c)' /\ WrittenBalanced(c)
  BY <1>4, <1>5
<1>7. QED
  BY <1>2, <1>3, <1>6, InvNextByParts

LEMMA SyncLegInv ==
    ASSUME ReconcileInv, NEW k \in Constituents, SyncLeg(k)
    PROVE  ReconcileInv' /\ \A c \in Constituents : WrittenBalanced(c)
<1>1. FrameInv /\ ShapeInv /\ \A c \in Constituents : LegInv(c)
  BY InvByParts
<1>2. FrameInv'
  BY <1>1 DEF SyncLeg, FrameInv
<1>3. ShapeInv'
  BY <1>1 DEF SyncLeg, ShapeInv
<1>4. LegInv(k)' /\ WrittenBalanced(k)
  <2>1. /\ Synced[k] \in Leg
        /\ Expected(Synced[k]) = balance[k]
        /\ \A v \in Wallets : /\ claims[v][k] \in ClaimLeg
                               /\ SettleAccepts(claims[v][k], Synced[k])
    BY SyncedFacts
  <2>2. /\ legs'[k] = Synced[k]
        /\ balance' = balance
        /\ claims' = claims
        /\ founded'
    BY <1>1 DEF SyncLeg, ShapeInv
  <2>3. balance[k] \in Amount /\ balance[k] <= MaxU64
    BY <1>1, RecipeAssumption DEF LegInv, Amount
  <2>4. QED
    BY <2>1, <2>2, <2>3 DEF LegInv, WrittenBalanced
<1>5. ASSUME NEW c \in Constituents, c # k PROVE LegInv(c)' /\ WrittenBalanced(c)
  <2>1. legs'[c] = legs[c]
    BY <1>1, <1>5 DEF SyncLeg, ShapeInv
  <2>2. QED
    BY <1>1, <2>1 DEF LegInv, WrittenBalanced, SyncLeg
<1>6. \A c \in Constituents : LegInv(c)' /\ WrittenBalanced(c)
  BY <1>4, <1>5
<1>7. QED
  BY <1>2, <1>3, <1>6, InvNextByParts

(* Issuers, holders and the clock leave the alloy alone and the balance    *)
(* within a u64.                                                           *)
LEMMA OutsideInv ==
    ASSUME ReconcileInv,
           \/ \E c \in Constituents : Issuer(c)
           \/ \E w \in Wallets, n \in 1 .. MaxU64 : BurnShares(w, n)
           \/ Tick
           \/ UNCHANGED vars
    PROVE  ReconcileInv' /\ \A c \in Constituents : WrittenBalanced(c)
<1>1. FrameInv /\ ShapeInv /\ \A c \in Constituents : LegInv(c)
  BY InvByParts
<1>2. ASSUME NEW k \in Constituents, NEW n \in 1 .. MaxU64,
             Donate(k, n) \/ Seize(k, n)
      PROVE  ReconcileInv'
  <2>1. FrameInv'
    BY <1>1, <1>2 DEF Donate, Seize, alloyVars, FrameInv
  <2>2. ShapeInv'
    BY <1>1, <1>2 DEF Donate, Seize, alloyVars, ShapeInv
  <2>3. ASSUME NEW c \in Constituents PROVE balance'[c] \in Amount
    <3>1. balance[c] \in Amount /\ balance[k] \in Amount
      BY <1>1 DEF LegInv
    <3>2. \/ balance'[c] = balance[c]
          \/ balance'[c] = balance[k] + n /\ balance[k] + n <= MaxU64
          \/ balance'[c] = balance[k] - n /\ n <= balance[k]
      BY <1>1, <1>2 DEF Donate, Seize, ShapeInv
    <3>3. QED
      BY <3>1, <3>2, RecipeAssumption DEF Amount
  <2>4. \A c \in Constituents : LegInv(c)'
    BY <1>1, <1>2, <2>3 DEF Donate, Seize, alloyVars, LegInv
  <2>5. QED
    BY <2>1, <2>2, <2>4, InvNextByParts
<1>3. ASSUME NEW k \in Constituents, NEW s \in Stances, ChangeStance(k, s)
      PROVE  ReconcileInv'
  BY <1>1, <1>3, InvNextByParts
  DEF ChangeStance, alloyVars, FrameInv, ShapeInv, LegInv
<1>4. ASSUME NEW w \in Wallets, NEW n \in 1 .. MaxU64, BurnShares(w, n)
      PROVE  ReconcileInv'
  <2>1. n \in Nat
    BY RecipeAssumption
  <2>2. FrameInv'
    BY <1>1, <1>4, <2>1 DEF BurnShares, alloyVars, FrameInv
  <2>3. QED
    BY <1>1, <1>4, <2>2, InvNextByParts DEF BurnShares, alloyVars, ShapeInv, LegInv
<1>5. ASSUME Tick PROVE ReconcileInv'
  BY <1>1, <1>5, InvNextByParts
  DEF Tick, alloyVars, FrameInv, ShapeInv, LegInv
<1>6. ASSUME UNCHANGED vars PROVE ReconcileInv'
  BY <1>1, <1>6, InvNextByParts DEF vars, FrameInv, ShapeInv, LegInv
<1>7. legs' = legs
  BY DEF Issuer, Donate, Seize, ChangeStance, BurnShares, Tick, alloyVars, vars
<1>8. QED
  BY <1>2, <1>3, <1>4, <1>5, <1>6, <1>7 DEF Issuer, WrittenBalanced

LEMMA NextInv ==
    ReconcileInv /\ [Next]_vars =>
      ReconcileInv' /\ \A c \in Constituents : WrittenBalanced(c)
<1> SUFFICES ASSUME ReconcileInv, [Next]_vars PROVE ReconcileInv' /\ \A c \in Constituents : WrittenBalanced(c)
  OBVIOUS
<1>1. CASE Sponsor
  BY <1>1, InitializeAlloyInv DEF Sponsor
<1>2. ASSUME NEW w \in Wallets, Wallet(w)
      PROVE ReconcileInv' /\ \A c \in Constituents : WrittenBalanced(c)
  BY <1>2, RedeemInv, CreateInv, WithdrawInv, OutsideInv DEF Wallet
<1>3. ASSUME NEW k \in Constituents, SyncLeg(k) \/ Issuer(k)
      PROVE  ReconcileInv' /\ \A c \in Constituents : WrittenBalanced(c)
  BY <1>3, SyncLegInv, OutsideInv
<1>4. CASE Tick \/ UNCHANGED vars
  BY <1>4, OutsideInv
<1>5. QED
  BY <1>1, <1>2, <1>3, <1>4 DEF Next

(* The Hall's state is well formed in every reachable state: no leg, claim *)
(* or balance ever becomes negative, and no balance exceeds a u64.         *)
THEOREM TypeCorrect == Spec => []TypeOK
<1>1. ReconcileInv => TypeOK
  BY DEF ReconcileInv
<1>2. QED
  BY <1>1, InitInv, NextInv, PTL DEF Spec

(* No error path of sync or settle is ever reached, whatever issuers seize *)
(* and donate: a melt and a withdrawal can always be priced.               *)
THEOREM ReconcileNeverFails == Spec => []NoReconcileError
  BY InitInv, NextInv, InvImpliesNoReconcileError, PTL DEF Spec

(* Whatever instruction writes a leg, the leg then expects exactly what    *)
(* the Hall's account holds.                                               *)
THEOREM LegsBalance == Spec => WrittenLegsBalance
<1>1. ReconcileInv /\ [Next]_vars =>
        [\A c \in Constituents :
           legs'[c] # legs[c] => Expected(legs'[c]) = balance'[c]]_vars
  BY NextInv DEF WrittenBalanced
<1>2. ReconcileInv /\ [Next]_vars => ReconcileInv'
  BY NextInv
<1>3. QED
  BY <1>1, <1>2, InitInv, PTL DEF Spec, WrittenLegsBalance

-----------------------------------------------------------------------------
(* No strike and no melt dilutes those who hold shares through it.         *)

LEMMA StrikeRaises ==
    ASSUME NEW l \in Nat, NEW n \in Nat, NEW s \in Nat \ {0}
    PROVE  (l + MulDivCeil(l, n, s)) * s >= l * (s + n)
<1> DEFINE q == (l * n + s - 1) \div s
<1>1. l * n \in Nat
  BY SMT
<1>2. l * n + s - 1 \in Nat
  BY <1>1
<1>3. q \in Nat /\ l * n + s - 1 < s * q + s
  BY <1>2, DivFloor
<1> HIDE DEF q
<1>4. s * q \in Nat
  BY <1>3, SMT
<1>5. s * q >= l * n
  BY <1>1, <1>3, <1>4
<1>6. (l + q) * s = l * s + s * q
  BY <1>3, SMT
<1>7. l * (s + n) = l * s + l * n
  BY SMT
<1>8. l * s \in Nat
  BY SMT
<1>9. QED
  BY <1>1, <1>4, <1>5, <1>6, <1>7, <1>8 DEF MulDivCeil, q

LEMMA MeltRaises ==
    ASSUME NEW l \in Nat, NEW n \in Nat, NEW s \in Nat \ {0}, n <= s
    PROVE  (l - MulDivFloor(l, n, s)) * s >= l * (s - n)
<1> DEFINE q == (l * n) \div s
<1>1. l * n \in Nat /\ l * s \in Nat
  BY SMT
<1>2. q \in Nat /\ s * q <= l * n
  BY <1>1, DivFloor
<1> HIDE DEF q
<1>3. s * q \in Nat
  BY <1>2, SMT
<1>4. (l - q) * s = l * s - s * q
  BY <1>2, SMT
<1>5. l * (s - n) = l * s - l * n
  BY SMT
<1>6. QED
  BY <1>1, <1>2, <1>3, <1>4, <1>5 DEF MulDivFloor, q

(* What a share is worth in any constituent never falls through a strike   *)
(* or a melt.                                                              *)
THEOREM SharesNeverDiluted == Spec => NoDilution
<1> DEFINE Undiluted ==
             founded /\ supply' # supply =>
               \A c \in Constituents :
                 legs'[c].ledger * supply >= Synced[c].ledger * supply'
<1>1. ASSUME ReconcileInv, founded, NEW w \in Wallets, NEW n \in 1 .. MaxU64,
             NEW maximums \in [Constituents -> Maximums],
             Create(w, n, maximums), NEW c \in Constituents
      PROVE  legs'[c].ledger * supply >= Synced[c].ledger * supply'
  <2>1. Synced[c] \in Leg /\ Synced[c].ledger \in Nat
    BY <1>1, SyncedFacts DEF Leg
  <2>2. n \in Nat /\ supply \in Nat \ {0}
    BY <1>1, RecipeAssumption DEF Create, CreateAccepts, ReconcileInv, TypeOK
  <2>3. supply' = supply + n
    BY <1>1 DEF Create
  <2>4. legs'[c].ledger =
          Synced[c].ledger + MulDivCeil(Synced[c].ledger, n, supply)
    BY <1>1, <2>1 DEF Create, ApplyCreate, RequiredIn, Leg
  <2>5. QED
    BY <2>1, <2>2, <2>3, <2>4, StrikeRaises
<1>2. ASSUME ReconcileInv, founded, NEW w \in Wallets, NEW n \in 1 .. MaxU64,
             Redeem(w, n), NEW c \in Constituents
      PROVE  legs'[c].ledger * supply >= Synced[c].ledger * supply'
  <2>1. Synced[c] \in Leg /\ Synced[c].ledger \in Nat
    BY <1>2, SyncedFacts DEF Leg
  <2>2. n \in Nat /\ supply \in Nat \ {0} /\ n <= supply
    BY <1>2, RecipeAssumption
    DEF Redeem, RedeemChecks, RedeemAccepts, ReconcileInv, TypeOK
  <2>3. supply' = supply - n
    BY <1>2 DEF Redeem
  <2>4. legs'[c].ledger =
          Synced[c].ledger - MulDivFloor(Synced[c].ledger, n, supply)
    BY <1>2, <2>1 DEF Redeem, Melted, ApplyRedeem, Out, Leg
  <2>5. QED
    BY <2>1, <2>2, <2>3, <2>4, MeltRaises
<1>3. ReconcileInv /\ [Next]_vars => [Undiluted]_vars
  <2> SUFFICES ASSUME ReconcileInv, Next PROVE Undiluted
    OBVIOUS
  <2>1. CASE Sponsor
    BY <2>1 DEF Sponsor, InitializeAlloy
  <2>2. ASSUME NEW w \in Wallets, Wallet(w) PROVE Undiluted
    BY <1>1, <1>2, <2>2 DEF Wallet, Withdraw, BurnShares, alloyVars
  <2>3. ASSUME NEW c \in Constituents, SyncLeg(c) \/ Issuer(c) PROVE Undiluted
    BY <2>3 DEF SyncLeg, Issuer, Donate, Seize, ChangeStance, alloyVars
  <2>4. CASE Tick
    BY <2>4 DEF Tick, alloyVars
  <2>5. QED
    BY <2>1, <2>2, <2>3, <2>4 DEF Next
<1>4. ReconcileInv /\ [Next]_vars => ReconcileInv'
  BY NextInv
<1>5. QED
  BY <1>3, <1>4, InitInv, PTL DEF Spec, NoDilution

-----------------------------------------------------------------------------
(* Vesting.  A leg rests at t when nothing of it vests before t is over.   *)

Rests(leg, t) == leg.pending > 0 => leg.vest_start = t /\ t < leg.vest_end

VestsInTime(leg, t) ==
    /\ leg.vest_start <= t
    /\ leg.vest_end <= t + VestWindow

(* Once folded, a leg rests; and pending whose vest has not ended is not   *)
(* used up by folding it.                                                  *)
LEMMA FoldRests ==
    ASSUME NEW leg \in Leg, NEW t \in Nat, leg.vest_start <= t
    PROVE  LET folded == FoldVested(leg, t)
           IN  /\ folded.vest_start <= t
               /\ folded.vest_end = leg.vest_end
               /\ Rests(folded, t)
               /\ leg.pending > 0 /\ t < leg.vest_end => folded.pending > 0
<1> DEFINE v == Vested(leg, t)
           span == leg.vest_end - leg.vest_start
           elapsed == t - leg.vest_start
           start == IF t > leg.vest_start /\ t < leg.vest_end
                    THEN t ELSE leg.vest_start
           folded == [leg EXCEPT !.ledger = leg.ledger + v,
                                 !.pending = leg.pending - v,
                                 !.vest_start = start]
<1>1. v \in 0 .. leg.pending
  BY VestedIsPending
<1>2. /\ folded.pending = leg.pending - v
      /\ folded.vest_start = start
      /\ folded.vest_end = leg.vest_end
  BY DEF Leg
<1>3. folded = FoldVested(leg, t)
  BY DEF FoldVested
<1>4. v < leg.pending => t < leg.vest_end
  BY DEF Vested, Leg
<1>5. leg.pending > 0 /\ t < leg.vest_end => v < leg.pending
  <2>1. SUFFICES ASSUME leg.pending > 0, t < leg.vest_end PROVE v < leg.pending
    OBVIOUS
  <2>2. CASE elapsed = 0
    BY <2>1, <2>2 DEF Vested, Leg
  <2>3. CASE elapsed > 0
    <3> DEFINE p == leg.pending
               q == (p * elapsed) \div span
    <3>1. /\ p \in Nat \ {0} /\ elapsed \in Nat /\ span \in Nat \ {0}
          /\ elapsed < span
      BY <2>1, <2>3 DEF Leg
    <3>2. v = q
      BY <2>1, <2>3, <3>1 DEF Vested, MulDivFloor, Leg
    <3> HIDE DEF p, elapsed, span
    <3>3. p * elapsed \in Nat /\ p * elapsed < p * span
      BY <3>1, SMT
    <3>4. q \in Nat /\ span * q <= p * elapsed
      BY <3>1, <3>3, DivFloor
    <3> HIDE DEF q
    <3>5. p * span = span * p /\ span * q \in Nat /\ span * p \in Nat
      BY <3>1, <3>4, SMT
    <3>6. span * q < span * p
      BY <3>3, <3>4, <3>5
    <3>7. q < p
      <4>1. SUFFICES ASSUME q >= p PROVE FALSE
        BY <3>1, <3>4
      <4>2. span * q >= span * p
        BY <3>1, <3>4, <4>1, SMT
      <4>3. QED
        BY <3>5, <3>6, <4>2
    <3>8. QED
      BY <3>2, <3>7 DEF p
  <2>4. QED
    BY <2>2, <2>3 DEF Leg
<1> HIDE DEF folded, v
<1>6. QED
  BY <1>1, <1>2, <1>3, <1>4, <1>5 DEF Rests, Leg

(* Nothing vests from a leg at rest, and folding it changes no amount.     *)
LEMMA RestStays ==
    ASSUME NEW leg \in Leg, NEW t \in Nat, Rests(leg, t)
    PROVE  LET folded == FoldVested(leg, t)
           IN  /\ folded.ledger = leg.ledger
               /\ folded.pending = leg.pending
               /\ folded.unclaimed = leg.unclaimed
               /\ folded.vest_end = leg.vest_end
<1>1. Vested(leg, t) = 0
  BY DEF Vested, Rests, Leg
<1>2. QED
  BY <1>1 DEF FoldVested, Leg

(* Rounding up never falls short, nor past a whole bound.                  *)
LEMMA DivCeil ==
    ASSUME NEW a \in Nat, NEW n \in Nat \ {0}, NEW b \in Nat, a <= n * b
    PROVE  LET q == (a + n - 1) \div n
           IN  q \in Nat /\ a <= n * q /\ q <= b
<1> DEFINE q == (a + n - 1) \div n
<1>1. a + n - 1 \in Nat
  OBVIOUS
<1>2. q \in Nat /\ n * q <= a + n - 1 /\ a + n - 1 < n * q + n
  BY <1>1, DivFloor
<1> HIDE DEF q
<1>3. n * q \in Nat /\ n * b \in Nat
  BY <1>2, SMT
<1>4. q <= b
  <2>1. SUFFICES ASSUME q >= b + 1 PROVE FALSE
    BY <1>2
  <2>2. n * q >= n * (b + 1)
    BY <1>2, <2>1, SMT
  <2>3. n * (b + 1) = n * b + n
    BY SMT
  <2>4. QED
    BY <1>2, <1>3, <2>2, <2>3
<1>5. QED
  BY <1>2, <1>3, <1>4 DEF q

(* The rate at which a remainder p with l left and a surplus s vest        *)
(* together: never more than p / l + s / w.                                *)
LEMMA RatesAdd ==
    ASSUME NEW p \in Nat, NEW s \in Nat \ {0}, NEW l \in Nat \ {0},
           NEW w \in Nat \ {0}, NEW span \in Nat,
           p * l + s * w <= (p + s) * span
    PROVE  (p + s) * l * w <= span * (p * w + s * l)
<1> DEFINE n == p + s
           rates == p * w + s * l
           spread == p * l + s * w
           whole == n * l * w
<1>1. n \in Nat \ {0} /\ rates \in Nat /\ spread \in Nat /\ whole \in Nat
  BY SMT
<1>2. spread * rates = n * whole + p * s * ((l - w) * (l - w))
  BY SMT
<1>3. p * s * ((l - w) * (l - w)) >= 0
  <2>1. (l - w) * (l - w) \in Nat /\ p * s \in Nat
    BY SMT
  <2>2. QED
    BY <2>1, SMT
<1>4. spread <= n * span
  OBVIOUS
<1>5. p * s * ((l - w) * (l - w)) \in Int
  BY SMT
<1> HIDE DEF n, rates, spread, whole
<1>6. spread * rates <= (n * span) * rates
  <2>1. n * span \in Nat
    BY <1>1, SMT
  <2> DEFINE m == n * span
  <2> HIDE DEF m
  <2>2. m \in Nat /\ spread <= m => spread * rates <= m * rates
    BY <1>1, SMT
  <2>3. QED
    BY <1>4, <2>1, <2>2 DEF m
<1>7. (n * span) * rates = n * (span * rates)
  BY <1>1, SMT
<1>8. span * rates \in Nat
  BY <1>1, SMT
<1>9. spread * rates \in Int /\ n * whole \in Int /\ n * (span * rates) \in Int
  BY <1>1, <1>8, SMT
<1>10. n * whole <= n * (span * rates)
  BY <1>2, <1>3, <1>5, <1>6, <1>7, <1>9
<1>11. whole <= span * rates
  <2> DEFINE m == span * rates
  <2> HIDE DEF m
  <2>1. m \in Nat /\ n * whole <= n * m => whole <= m
    BY <1>1, SMT
  <2>2. QED
    BY <1>8, <1>10, <2>1 DEF m
<1>12. QED
  BY <1>11 DEF whole, rates, n

(* A surplus joins pending at rest, by no more than a full window and no   *)
(* faster than it would alone.                                             *)
LEMMA CreditRests ==
    ASSUME NEW leg \in Leg, NEW surplus \in Nat \ {0}, NEW t \in Nat,
           leg.vest_end <= t + VestWindow
    PROVE  LET after == Credit(leg, surplus, t)
               left  == TimeLeft(leg, t)
               span  == after.vest_end - t
           IN  /\ after.ledger = leg.ledger
               /\ after.pending = leg.pending + surplus
               /\ after.vest_start = t
               /\ span \in 1 .. VestWindow
               /\ leg.pending * left + surplus * VestWindow
                     <= (leg.pending + surplus) * span
<1> DEFINE p == leg.pending
           left == TimeLeft(leg, t)
           n == p + surplus
           weighted == p * left + surplus * VestWindow
           span == (weighted + n - 1) \div n
           after == [leg EXCEPT !.pending = n, !.vest_start = t,
                                !.vest_end = t + span]
<1>1. p \in Nat /\ left \in 0 .. VestWindow /\ n \in Nat \ {0}
      /\ VestWindow \in Nat \ {0}
  BY RecipeAssumption DEF TimeLeft, Leg
<1>2. weighted \in Nat \ {0} /\ weighted <= n * VestWindow
  <2>1. p * left <= p * VestWindow /\ p * left \in Nat
    BY <1>1, SMT
  <2>2. n * VestWindow = p * VestWindow + surplus * VestWindow
    BY <1>1, SMT
  <2>3. surplus * VestWindow \in Nat \ {0}
    BY <1>1, SMT
  <2>4. p * VestWindow \in Nat
    BY <1>1, SMT
  <2> HIDE DEF p, left, n
  <2>5. QED
    BY <2>1, <2>2, <2>3, <2>4
<1>3. span \in Nat /\ weighted <= n * span /\ span <= VestWindow
  <2> HIDE DEF weighted, n
  <2>1. QED
    BY <1>1, <1>2, DivCeil
<1>4. span # 0
  BY <1>1, <1>2, <1>3, SMT
<1>5. /\ after.ledger = leg.ledger
      /\ after.pending = n
      /\ after.vest_start = t
      /\ after.vest_end = t + span
  BY DEF Leg
<1>6. after = Credit(leg, surplus, t)
  BY DEF Credit
<1> HIDE DEF after, span
<1>7. QED
  BY <1>1, <1>3, <1>4, <1>5, <1>6

(* A deficit lifts nothing and moves no vest.                              *)
LEMMA DeficitLiftsNothing ==
    ASSUME NEW leg \in Leg, NEW deficit \in 1 .. Expected(leg)
    PROVE  LET after == ApplyDeficit(leg, deficit)
           IN  /\ after.ledger <= leg.ledger
               /\ after.pending \in 0 .. leg.pending
               /\ after.vest_start = leg.vest_start
               /\ after.vest_end = leg.vest_end
<1> DEFINE r == AfterPending(leg, deficit)
<1>1. CASE deficit <= leg.pending
  <2>1. r = 0
    BY <1>1 DEF AfterPending, Leg, Expected
  <2>2. ApplyDeficit(leg, deficit) = [leg EXCEPT !.pending = leg.pending - deficit]
    BY <2>1 DEF ApplyDeficit
  <2>3. QED
    BY <1>1, <2>2 DEF Leg, Expected
<1>2. CASE deficit > leg.pending
  <2> DEFINE f == FromUnclaimed(leg, r)
             reduced == [leg EXCEPT !.pending = 0,
                                    !.ledger = leg.ledger - (r - f),
                                    !.unclaimed = leg.unclaimed - f]
  <2>1. /\ r \in Nat \ {0}
        /\ r <= leg.ledger + leg.unclaimed
    BY <1>2 DEF AfterPending, Leg, Expected
  <2>2. f \in 0 .. leg.unclaimed /\ f <= r
    BY <2>1, DeficitSplits
  <2>3. ApplyDeficit(leg, deficit) = ShrinkClaims(reduced, leg.unclaimed)
    BY <2>1 DEF ApplyDeficit
  <2> HIDE DEF f, r
  <2>4. /\ reduced.ledger = leg.ledger - (r - f)
        /\ reduced.pending = 0
        /\ reduced.vest_start = leg.vest_start
        /\ reduced.vest_end = leg.vest_end
    BY DEF Leg
  <2>5. /\ DOMAIN reduced = DOMAIN leg
        /\ ShrinkClaims(reduced, leg.unclaimed).ledger = reduced.ledger
        /\ ShrinkClaims(reduced, leg.unclaimed).pending = reduced.pending
        /\ ShrinkClaims(reduced, leg.unclaimed).vest_start = reduced.vest_start
        /\ ShrinkClaims(reduced, leg.unclaimed).vest_end = reduced.vest_end
    BY DEF ShrinkClaims, StartNewEpoch, Leg
  <2> HIDE DEF reduced
  <2>6. QED
    BY <2>1, <2>2, <2>3, <2>4, <2>5 DEF Leg
<1>3. QED
  BY <1>1, <1>2 DEF Leg, Expected

(* A sync leaves a leg at rest, on time, and with its pending unless the   *)
(* balance has fallen short or the vest is over.                           *)
LEMMA SyncRests ==
    ASSUME NEW leg \in Leg, NEW actual \in Nat, NEW t \in Nat,
           VestsInTime(leg, t)
    PROVE  LET after == Sync(leg, actual, t)
           IN  /\ VestsInTime(after, t)
               /\ Rests(after, t)
               /\ /\ leg.pending > 0 /\ t < leg.vest_end
                  /\ actual >= Expected(leg)
                  => after.pending > 0
<1> DEFINE folded == FoldVested(leg, t)
<1>1. /\ folded \in Leg
      /\ Expected(folded) = Expected(leg) /\ Expected(leg) \in Nat
      /\ folded.vest_start <= t
      /\ folded.vest_end = leg.vest_end
      /\ Rests(folded, t)
      /\ leg.pending > 0 /\ t < leg.vest_end => folded.pending > 0
  <2>1. /\ folded \in Leg
        /\ Expected(folded) = Expected(leg)
    BY FoldFacts
  <2>2. Expected(leg) \in Nat
    BY DEF Expected, Leg
  <2>3. leg.vest_start <= t
    BY DEF VestsInTime
  <2>4. QED
    BY <2>1, <2>2, <2>3, FoldRests
<1>2. folded.vest_end <= t + VestWindow
  BY <1>1 DEF VestsInTime
<1>3. CASE actual > Expected(folded)
  <2> DEFINE s == actual - Expected(folded)
  <2>1. s \in Nat \ {0}
    BY <1>1, <1>3
  <2>2. Sync(leg, actual, t) = Credit(folded, s, t)
    BY <1>3 DEF Sync
  <2> HIDE DEF folded, s
  <2>3. /\ Credit(folded, s, t).vest_start = t
        /\ Credit(folded, s, t).vest_end - t \in 1 .. VestWindow
        /\ Credit(folded, s, t).pending = folded.pending + s
    BY <1>1, <1>2, <2>1, CreditRests
  <2>4. Credit(folded, s, t).vest_end \in Nat
    BY <1>1, <2>1, CreditFacts DEF Leg
  <2>5. QED
    BY <1>1, <2>1, <2>2, <2>3, <2>4, RecipeAssumption DEF VestsInTime, Rests, Leg
<1>4. CASE actual < Expected(folded)
  <2> DEFINE d == Expected(folded) - actual
  <2>1. d \in 1 .. Expected(folded)
    BY <1>1, <1>4
  <2>2. Sync(leg, actual, t) = ApplyDeficit(folded, d)
    BY <1>1, <1>4 DEF Sync
  <2> HIDE DEF folded, d
  <2>3. /\ ApplyDeficit(folded, d).pending \in 0 .. folded.pending
        /\ ApplyDeficit(folded, d).vest_start = folded.vest_start
        /\ ApplyDeficit(folded, d).vest_end = folded.vest_end
    BY <1>1, <2>1, DeficitLiftsNothing
  <2>4. ~ (actual >= Expected(leg))
    BY <1>1, <1>4 DEF folded
  <2>5. QED
    BY <1>1, <1>2, <2>2, <2>3, <2>4 DEF VestsInTime, Rests, Leg
<1>5. CASE actual = Expected(folded)
  <2>1. Sync(leg, actual, t) = folded
    BY <1>1, <1>5 DEF Sync
  <2> HIDE DEF folded
  <2>2. QED
    BY <1>1, <1>2, <2>1 DEF VestsInTime, Rests
<1>6. QED
  BY <1>1, <1>3, <1>4, <1>5

(* What a step may do to a leg and the clock: leave the leg, found it, or  *)
(* write it as synced now, up to its ledger and unclaimed.                 *)
SameVest(leg, other) ==
    /\ leg.pending = other.pending
    /\ leg.vest_start = other.vest_start
    /\ leg.vest_end = other.vest_end

LEMMA LegSteps ==
    ASSUME ReconcileInv, Next, NEW c \in Constituents
    PROVE  \/ legs'[c] = legs[c] /\ now' \in {now, now + 1}
           \/ /\ now' = now
              /\ legs'[c].pending = balance[c]
              /\ legs'[c].vest_start = now
              /\ legs'[c].vest_end = now + VestWindow
           \/ now' = now /\ SameVest(legs'[c], Synced[c])
<1>1. Synced[c] \in Leg /\ legs = [k \in Constituents |-> legs[k]]
  BY SyncedFacts DEF ReconcileInv, TypeOK
<1>2. CASE Sponsor
  BY <1>2 DEF Sponsor, InitializeAlloy, NoLeg
<1>3. ASSUME NEW w \in Wallets, NEW n \in 1 .. MaxU64,
             NEW maximums \in [Constituents -> Maximums], Create(w, n, maximums)
      PROVE  now' = now /\ SameVest(legs'[c], Synced[c])
  BY <1>1, <1>3 DEF Create, ApplyCreate, SameVest, Leg
<1>4. ASSUME NEW w \in Wallets, NEW n \in 1 .. MaxU64, Redeem(w, n)
      PROVE  now' = now /\ SameVest(legs'[c], Synced[c])
  BY <1>1, <1>4 DEF Redeem, Melted, ApplyRedeem, SameVest, Leg
<1>5. ASSUME NEW w \in Wallets, NEW k \in Constituents, NEW n \in 1 .. MaxU64,
             Withdraw(w, k, n)
      PROVE  now' = now /\ (legs'[c] = legs[c] \/ SameVest(legs'[c], Synced[c]))
  <2>1. legs'[c] = IF c = k THEN ApplyWithdraw(Synced[c], n) ELSE legs[c]
    BY <1>1, <1>5 DEF Withdraw
  <2>2. QED
    BY <1>1, <1>5, <2>1 DEF Withdraw, ApplyWithdraw, SameVest, Leg
<1>6. ASSUME NEW k \in Constituents, SyncLeg(k)
      PROVE  now' = now /\ (legs'[c] = legs[c] \/ SameVest(legs'[c], Synced[c]))
  <2>1. legs'[c] = IF c = k THEN Synced[c] ELSE legs[c]
    BY <1>1, <1>6 DEF SyncLeg
  <2>2. QED
    BY <1>6, <2>1 DEF SyncLeg, SameVest
<1>7. ASSUME NEW w \in Wallets, Wallet(w)
      PROVE  \/ now' = now /\ legs'[c] = legs[c]
             \/ now' = now /\ SameVest(legs'[c], Synced[c])
  BY <1>3, <1>4, <1>5, <1>7 DEF Wallet, BurnShares, alloyVars
<1>8. ASSUME NEW k \in Constituents, SyncLeg(k) \/ Issuer(k)
      PROVE  \/ now' = now /\ legs'[c] = legs[c]
             \/ now' = now /\ SameVest(legs'[c], Synced[c])
  BY <1>6, <1>8 DEF Issuer, Donate, Seize, ChangeStance, alloyVars
<1>9. CASE Tick
  BY <1>9 DEF Tick, alloyVars
<1>10. QED
  BY <1>2, <1>7, <1>8, <1>9 DEF Next

(* Every leg, synced now, is at rest now.                                  *)
LEMMA SyncedRests ==
    ASSUME ReconcileInv, VestTimes, NEW c \in Constituents
    PROVE  /\ VestsInTime(Synced[c], now)
           /\ Rests(Synced[c], now)
           /\ /\ legs[c].pending > 0 /\ now < legs[c].vest_end
              /\ balance[c] >= Expected(legs[c])
              => Synced[c].pending > 0
<1>1. legs[c] \in Leg /\ balance[c] \in Nat /\ now \in Nat
  BY RecipeAssumption DEF ReconcileInv, TypeOK, Amount
<1>2. VestsInTime(legs[c], now)
  BY DEF VestTimes, VestsInTime
<1>3. Synced[c] = Sync(legs[c], balance[c], now)
  BY DEF Synced
<1>4. QED
  BY <1>1, <1>2, <1>3, SyncRests

LEMMA NextVestTimes ==
    ReconcileInv /\ VestTimes /\ [Next]_vars => VestTimes'
<1>1. ASSUME ReconcileInv, VestTimes, Next, NEW c \in Constituents
      PROVE  legs'[c].vest_start <= now' /\ legs'[c].vest_end <= now' + VestWindow
  <2>1. legs[c] \in Leg /\ now \in Nat
    BY <1>1 DEF ReconcileInv, TypeOK
  <2>2. VestsInTime(Synced[c], now)
    BY <1>1, SyncedRests
  <2>3. QED
    BY <1>1, <2>1, <2>2, LegSteps, RecipeAssumption
    DEF VestTimes, VestsInTime, SameVest, Leg
<1>2. VestTimes /\ UNCHANGED vars => VestTimes'
  BY DEF VestTimes, vars
<1>3. QED
  BY <1>1, <1>2 DEF VestTimes

LEMMA InitVestTimes == Init => VestTimes
  BY RecipeAssumption DEF Init, VestTimes, NoLeg

LEMMA VestsOnTime == Spec => [](ReconcileInv /\ VestTimes)
<1>1. ReconcileInv /\ [Next]_vars => ReconcileInv'
  BY NextInv
<1>2. QED
  BY <1>1, InitInv, InitVestTimes, NextVestTimes, PTL DEF Spec

(* Pending credit outlasts every sync until its vest ends, unless the      *)
(* Hall's balance falls short.                                             *)
THEOREM PendingIsNeverVestedEarly == Spec => NeverVestedEarly
<1> DEFINE Kept == \A c \in Constituents :
             /\ legs[c].pending > 0
             /\ balance[c] >= Expected(legs[c])
             /\ now' < legs[c].vest_end
             => legs'[c].pending > 0
<1>1. ReconcileInv /\ VestTimes /\ Next => Kept
  <2> SUFFICES ASSUME ReconcileInv, VestTimes, Next, NEW c \in Constituents,
                      legs[c].pending > 0,
                      balance[c] >= Expected(legs[c]),
                      now' < legs[c].vest_end
               PROVE  legs'[c].pending > 0
    OBVIOUS
  <2>1. legs[c] \in Leg /\ balance[c] \in Nat /\ now \in Nat
    BY RecipeAssumption DEF ReconcileInv, TypeOK, Amount
  <2>2. balance[c] > 0
    BY <2>1 DEF Expected, Leg
  <2>3. now' = now => Synced[c].pending > 0
    BY SyncedRests
  <2>4. QED
    BY <2>1, <2>2, <2>3, LegSteps DEF SameVest
<1>2. ReconcileInv /\ VestTimes /\ [Next]_vars => [Kept]_vars
  BY <1>1
<1>3. QED
  BY <1>2, VestsOnTime, PTL DEF Spec, NeverVestedEarly

(* In the instant a leg is synced no balance whatever can lift its ledger  *)
(* any further, however often it is synced again.                          *)
LEMMA RestLiftsNothing ==
    ASSUME NEW leg \in Leg, NEW t \in Nat, NEW actual \in Nat, Rests(leg, t)
    PROVE  Sync(leg, actual, t).ledger <= leg.ledger
<1> DEFINE folded == FoldVested(leg, t)
<1>1. /\ folded \in Leg
      /\ Expected(folded) = Expected(leg) /\ Expected(leg) \in Nat
      /\ folded.ledger = leg.ledger
  <2>1. folded \in Leg /\ Expected(folded) = Expected(leg)
    BY FoldFacts
  <2>2. folded.ledger = leg.ledger
    BY RestStays
  <2>3. Expected(leg) \in Nat
    BY DEF Expected, Leg
  <2>4. QED
    BY <2>1, <2>2, <2>3
<1>2. CASE actual > Expected(folded)
  <2>1. Sync(leg, actual, t) = Credit(folded, actual - Expected(folded), t)
    BY <1>2 DEF Sync
  <2> HIDE DEF folded
  <2>2. Credit(folded, actual - Expected(folded), t).ledger = folded.ledger
    BY <1>1 DEF Credit, Leg
  <2>3. QED
    BY <1>1, <2>1, <2>2 DEF Leg
<1>3. CASE actual < Expected(folded)
  <2> DEFINE d == Expected(folded) - actual
  <2>1. d \in 1 .. Expected(folded)
    BY <1>1, <1>3
  <2>2. Sync(leg, actual, t) = ApplyDeficit(folded, d)
    BY <1>1, <1>3 DEF Sync
  <2> HIDE DEF folded, d
  <2>3. QED
    BY <1>1, <2>1, <2>2, DeficitLiftsNothing
<1>4. CASE actual = Expected(folded)
  <2>1. Sync(leg, actual, t) = folded
    BY <1>1, <1>4 DEF Sync
  <2>2. QED
    BY <1>1, <2>1 DEF Leg
<1>5. QED
  BY <1>1, <1>2, <1>3, <1>4

THEOREM NothingLiftsWithinAnInstant == Spec => []NoLiftWithinAnInstant
<1>1. ReconcileInv /\ VestTimes => NoLiftWithinAnInstant
  <2> SUFFICES ASSUME ReconcileInv, VestTimes, NEW c \in Constituents,
                      NEW actual \in Amount
               PROVE  Sync(Synced[c], actual, now).ledger <= Synced[c].ledger
    BY DEF NoLiftWithinAnInstant
  <2>1. Synced[c] \in Leg /\ Rests(Synced[c], now)
    BY SyncedFacts, SyncedRests
  <2>2. now \in Nat /\ actual \in Nat
    BY RecipeAssumption DEF ReconcileInv, TypeOK, Amount
  <2>3. QED
    BY <2>1, <2>2, RestLiftsNothing
<1>2. QED
  BY <1>1, VestsOnTime, PTL

(* A donation to a leg that was just synced adds at most its own amount    *)
(* over a full window to the rate at which pending vests.                  *)
THEOREM DonationsVestAtTheirPace == Spec => []DonationPace
<1>1. ASSUME ReconcileInv, VestTimes, NEW c \in Constituents,
             NEW s \in 1 .. (MaxU64 - balance[c])
      PROVE  LET before == Synced[c]
                 left   == TimeLeft(before, now)
                 pace   == IF left = 0 THEN 1 ELSE left
                 after  == Sync(before, balance[c] + s, now)
                 span   == after.vest_end - now
             IN  /\ after.pending * pace * VestWindow
                      <= span * (before.pending * VestWindow + s * pace)
                 /\ span <= VestWindow
  <2> DEFINE before == Synced[c]
             left == TimeLeft(before, now)
             folded == FoldVested(before, now)
             after == Credit(folded, s, now)
             span == after.vest_end - now
             p == before.pending
  <2>1. before \in Leg /\ Expected(before) = balance[c] /\ balance[c] \in Nat
        /\ now \in Nat /\ s \in Nat \ {0} /\ p \in Nat
    <3>1. before \in Leg /\ Expected(before) = balance[c]
      BY <1>1, SyncedFacts
    <3>2. balance[c] \in Nat /\ now \in Nat
      BY <1>1, RecipeAssumption DEF ReconcileInv, TypeOK, Amount
    <3>3. QED
      BY <1>1, <3>1, <3>2, RecipeAssumption DEF Leg
  <2>2. Rests(before, now) /\ VestsInTime(before, now)
    BY <1>1, SyncedRests
  <2> HIDE DEF before
  <2>3. folded \in Leg /\ Expected(folded) = balance[c]
    BY <2>1, FoldFacts
  <2>4. folded.pending = p /\ folded.vest_end = before.vest_end
    BY <2>1, <2>2, RestStays
  <2>5. Sync(before, balance[c] + s, now) = after
    BY <2>1, <2>3 DEF Sync
  <2>6. TimeLeft(folded, now) = left
    BY <2>4 DEF TimeLeft
  <2>7. folded.vest_end <= now + VestWindow
    BY <2>2, <2>4 DEF VestsInTime
  <2> HIDE DEF folded
  <2>8. /\ after.pending = p + s
        /\ span \in 1 .. VestWindow
        /\ p * left + s * VestWindow <= (p + s) * span
    BY <2>1, <2>3, <2>4, <2>6, <2>7, CreditRests
  <2>9. left \in Nat /\ (left = 0 => p = 0)
    BY <2>1, <2>2 DEF Rests, TimeLeft, Leg
  <2> HIDE DEF after, span, left, p
  <2>10. span \in Nat /\ VestWindow \in Nat \ {0}
    BY <2>8, RecipeAssumption
  <2> DEFINE pace == IF left = 0 THEN 1 ELSE left
  <2>11. CASE left # 0
    <3>1. (p + s) * left * VestWindow <= span * (p * VestWindow + s * left)
      BY <2>1, <2>8, <2>9, <2>10, <2>11, RatesAdd
    <3>2. pace = left
      BY <2>11
    <3> HIDE DEF pace
    <3>3. after.pending * pace * VestWindow <= span * (p * VestWindow + s * pace)
      BY <2>8, <3>1, <3>2
    <3>4. QED
      BY <2>5, <2>8, <2>10, <3>3 DEF pace, before, span, left, p
  <2>12. CASE left = 0
    <3>1. s * VestWindow <= s * span
      BY <2>1, <2>8, <2>9, <2>10, <2>12, SMT
    <3>2. (p + s) * 1 * VestWindow <= span * (p * VestWindow + s * 1)
      BY <2>1, <2>9, <2>10, <2>12, <3>1, SMT
    <3>3. pace = 1
      BY <2>12
    <3> HIDE DEF pace
    <3>4. after.pending * pace * VestWindow <= span * (p * VestWindow + s * pace)
      BY <2>8, <3>2, <3>3
    <3>5. QED
      BY <2>5, <2>8, <2>10, <3>4 DEF pace, before, span, left, p
  <2>13. QED
    BY <2>11, <2>12
<1>2. ReconcileInv /\ VestTimes => DonationPace
  BY <1>1 DEF DonationPace
<1>3. QED
  BY <1>2, VestsOnTime, PTL
=============================================================================
