----------------------------- MODULE HallRecipe -----------------------------
(***************************************************************************)
(* The arithmetic of the Hall (chain/programs/hall/src/recipe.rs): what a  *)
(* strike costs, what a melt returns, how pending credit vests, and how a  *)
(* leg and the claims on it reconcile with a balance an issuer moved.      *)
(*                                                                         *)
(* A function of the code that returns Result<T> is two operators here:    *)
(* one for the value and one, named ...Accepts, for the condition under    *)
(* which it is not an Err.  Amounts are u64 in the code: every checked     *)
(* operation is bounded by MaxU64.  Timestamps and epochs keep their       *)
(* order and differences only (i64 seconds and 2^64 total seizures are out *)
(* of reach of any execution).                                             *)
(***************************************************************************)
EXTENDS Integers

CONSTANTS
    MaxU64,      \* the largest amount of tokens or shares, u64::MAX
    ClaimOne,    \* 1.0 of a claim index, CLAIM_ONE
    VestWindow   \* VEST_WINDOW_SECONDS, in ticks of the clock

ASSUME RecipeAssumption ==
    /\ MaxU64 \in Nat \ {0}
    /\ ClaimOne \in Nat \ {0}
    /\ VestWindow \in Nat \ {0}

Amount == 0 .. MaxU64

Leg == [ledger : Nat, pending : Nat, unclaimed : Nat,
        vest_start : Nat, vest_end : Nat,
        claim_index : Nat, claim_epoch : Nat]

ClaimLeg == [units : Nat, index : Nat, epoch : Nat]

NoLeg == [ledger |-> 0, pending |-> 0, unclaimed |-> 0,
          vest_start |-> 0, vest_end |-> 0,
          claim_index |-> 0, claim_epoch |-> 0]

NoClaim == [units |-> 0, index |-> 0, epoch |-> 0]

(* A zeroed account has index 0 and means 1.0. *)
Index(leg) == IF leg.claim_index = 0 THEN ClaimOne ELSE leg.claim_index

Expected(leg) == leg.ledger + leg.pending + leg.unclaimed

MulDivFloor(a, b, divisor) == (a * b) \div divisor

MulDivCeil(a, b, divisor) == (a * b + divisor - 1) \div divisor

(* Slip: a strike rounded in the striker's favour. *)
RequiredInRoundedDown(leg, shares, supply) ==
    MulDivFloor(leg.ledger, shares, supply)

RequiredIn(leg, shares, supply) == MulDivCeil(leg.ledger, shares, supply)

Out(leg, shares, supply) == MulDivFloor(leg.ledger, shares, supply)

-----------------------------------------------------------------------------
(* Vesting and reconciliation. *)

(* Slip: the last instant of the window is not waited for. *)
VestedAnInstantEarly(leg, now) ==
    IF now - leg.vest_start >= leg.vest_end - leg.vest_start - 1
    THEN leg.pending ELSE 0

Vested(leg, now) ==
    LET span    == leg.vest_end - leg.vest_start
        elapsed == now - leg.vest_start
    IN  IF leg.pending = 0 THEN 0
        ELSE IF span <= 0 THEN leg.pending
        ELSE IF elapsed <= 0 THEN 0
        ELSE IF elapsed >= span THEN leg.pending
        ELSE MulDivFloor(leg.pending, elapsed, span)

(* Slip: vest_start stays where it was. *)
FoldVestedAgain(leg, now) ==
    [leg EXCEPT !.ledger = @ + Vested(leg, now),
                !.pending = @ - Vested(leg, now)]

FoldVested(leg, now) ==
    LET vested_in == Vested(leg, now)
    IN  [leg EXCEPT !.ledger = @ + vested_in,
                    !.pending = @ - vested_in,
                    !.vest_start = IF now > @ /\ now < leg.vest_end
                                   THEN now ELSE @]

TimeLeft(leg, now) ==
    IF leg.pending > 0 /\ leg.vest_end > now THEN leg.vest_end - now ELSE 0

(* Slip: the surplus vests by the remainder's end, if there is one. *)
CreditKeepsEnd(leg, surplus, now) ==
    [leg EXCEPT !.pending = @ + surplus,
                !.vest_start = now,
                !.vest_end = now + (IF leg.pending > 0 THEN TimeLeft(leg, now)
                                    ELSE VestWindow)]

(* A surplus joins pending; the vest ends at the average of what was left  *)
(* and a full window, weighted by amount and rounded up.                   *)
Credit(leg, surplus, now) ==
    LET total    == leg.pending + surplus
        weighted == leg.pending * TimeLeft(leg, now) + surplus * VestWindow
    IN  [leg EXCEPT !.pending = total,
                    !.vest_start = now,
                    !.vest_end = now + (weighted + total - 1) \div total]

(* Slip: the index restarts in the same epoch. *)
StartOverInEpoch(leg) == [leg EXCEPT !.claim_index = ClaimOne]

StartNewEpoch(leg) ==
    [leg EXCEPT !.claim_epoch = @ + 1, !.claim_index = ClaimOne]

ShrinkClaims(leg, before) ==
    LET index == MulDivFloor(Index(leg), leg.unclaimed, before)
    IN  IF leg.unclaimed = before THEN leg
        ELSE IF leg.unclaimed = 0 \/ index = 0 THEN StartNewEpoch(leg)
        ELSE [leg EXCEPT !.claim_index = index]

AfterPending(leg, deficit) ==
    IF deficit > leg.pending THEN deficit - leg.pending ELSE 0

FromUnclaimed(leg, remaining) ==
    LET base  == leg.ledger + leg.unclaimed
        share == MulDivFloor(remaining, leg.unclaimed, base)
    IN  IF share > leg.unclaimed THEN leg.unclaimed ELSE share

(* DeficitExceedsHoldings is the only error apart from an overflow. *)
DeficitAccepts(leg, deficit) ==
    LET remaining == AfterPending(leg, deficit)
    IN  remaining > 0 =>
          /\ leg.ledger + leg.unclaimed \in 1 .. MaxU64
          /\ remaining - FromUnclaimed(leg, remaining) <= leg.ledger

(* Slip: the ledger bears the whole loss. *)
ApplyDeficitOnLedger(leg, deficit) ==
    LET remaining == AfterPending(leg, deficit)
    IN  [leg EXCEPT !.pending = @ - (deficit - remaining),
                    !.ledger = @ - remaining]

(* Slip: unclaimed falls and the claims on it do not. *)
ApplyDeficitClaimsKept(leg, deficit) ==
    LET remaining      == AfterPending(leg, deficit)
        from_unclaimed == IF remaining = 0 THEN 0
                          ELSE FromUnclaimed(leg, remaining)
    IN  [leg EXCEPT !.pending = @ - (deficit - remaining),
                    !.ledger = @ - (remaining - from_unclaimed),
                    !.unclaimed = @ - from_unclaimed]

(* A deficit takes pending first, then ledger and unclaimed in proportion. *)
ApplyDeficit(leg, deficit) ==
    LET remaining      == AfterPending(leg, deficit)
        from_unclaimed == FromUnclaimed(leg, remaining)
    IN  IF remaining = 0
        THEN [leg EXCEPT !.pending = @ - deficit]
        ELSE ShrinkClaims([leg EXCEPT !.pending = 0,
                                      !.ledger = @ - (remaining - from_unclaimed),
                                      !.unclaimed = @ - from_unclaimed],
                          leg.unclaimed)

SyncAccepts(leg, actual, now) ==
    LET folded == FoldVested(leg, now)
    IN  /\ Expected(folded) <= MaxU64
        /\ actual < Expected(folded) =>
             DeficitAccepts(folded, Expected(folded) - actual)

Sync(leg, actual, now) ==
    LET folded == FoldVested(leg, now)
    IN  IF actual > Expected(folded)
        THEN Credit(folded, actual - Expected(folded), now)
        ELSE IF actual < Expected(folded)
        THEN ApplyDeficit(folded, Expected(folded) - actual)
        ELSE folded

-----------------------------------------------------------------------------
(* Claims. *)

Rebase(claim, leg) ==
    [claim EXCEPT !.index = Index(leg), !.epoch = leg.claim_epoch]

SettleAccepts(claim, leg) ==
    claim.units > 0 =>
      /\ claim.index # 0
      /\ claim.epoch <= leg.claim_epoch
      /\ claim.epoch = leg.claim_epoch => claim.index >= Index(leg)

SettledUnits(claim, leg) ==
    IF claim.units = 0 \/ claim.epoch < leg.claim_epoch THEN 0
    ELSE MulDivFloor(claim.units, Index(leg), claim.index)

Settle(claim, leg) ==
    Rebase([claim EXCEPT !.units = SettledUnits(claim, leg)], leg)

CreditClaimAccepts(claim, leg, units) ==
    /\ SettleAccepts(claim, leg)
    /\ SettledUnits(claim, leg) + units <= MaxU64

(* Slip: new units join a claim that was not settled. *)
CreditClaimUnsettled(claim, leg, units) ==
    [Rebase(claim, leg) EXCEPT !.units = @ + units]

CreditClaim(claim, leg, units) ==
    [Settle(claim, leg) EXCEPT !.units = @ + units]

WithdrawClaimAccepts(claim, leg, units) ==
    /\ SettleAccepts(claim, leg)
    /\ units <= SettledUnits(claim, leg)
    /\ units <= leg.unclaimed

(* Slip: a partial withdrawal closes the claim. *)
WithdrawClaimWhole(claim, leg, units) ==
    [Settle(claim, leg) EXCEPT !.units = 0]

WithdrawClaim(claim, leg, units) ==
    [Settle(claim, leg) EXCEPT !.units = @ - units]

ApplyWithdraw(leg, units) == [leg EXCEPT !.unclaimed = @ - units]

-----------------------------------------------------------------------------
(* Strikes and melts, over all the legs of an alloy. *)

CreateAccepts(legs, supply, shares, maximums) ==
    /\ shares > 0
    /\ supply > 0
    /\ \A c \in DOMAIN legs : RequiredIn(legs[c], shares, supply) <= maximums[c]
    /\ \E c \in DOMAIN legs : RequiredIn(legs[c], shares, supply) # 0

RedeemAccepts(supply, shares) == shares > 0 /\ shares <= supply

ApplyCreate(leg, input) == [leg EXCEPT !.ledger = @ + input]

ApplyRedeem(leg, units) ==
    [leg EXCEPT !.ledger = @ - units, !.unclaimed = @ + units]
=============================================================================
