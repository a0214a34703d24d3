--------------------------- MODULE HallProperties ---------------------------
(***************************************************************************)
(* What the Hall promises to holders, to claimants and to a striker,       *)
(* whatever the issuers of its constituents do (docs/prd/HALL.md,          *)
(* and the tests of chain/programs/hall/tests).                            *)
(***************************************************************************)
EXTENDS Hall, Functions

(* Every variable holds what the program and the token programs can put in *)
(* it.                                                                     *)
TypeOK ==
    /\ founded \in BOOLEAN
    /\ locked_genesis \in Nat
    /\ supply \in Nat
    /\ legs \in [Constituents -> Leg]
    /\ shares \in [Wallets -> Nat]
    /\ claims \in [Wallets -> [Constituents -> ClaimLeg]]
    /\ balance \in [Constituents -> Amount]
    /\ stance \in [Constituents -> Stances]
    /\ burnt \in Nat
    /\ now \in Nat

SettledNow(w, c) == SettledUnits(claims[w][c], Synced[c])

(* The claims on a leg, each settled now, never add up to more than the    *)
(* leg has set aside for them: seizures, rounding and new epochs included, *)
(* the last claimant to withdraw is still paid.                            *)
ClaimsCovered ==
    \A c \in Constituents :
        SumFunction([w \in Wallets |-> SettledNow(w, c)])
            <= Synced[c].unclaimed

(* No error path of sync or of settle is reachable: a deficit never        *)
(* exceeds the holdings it is taken from, no sum overflows, and no claim   *)
(* is without an index, ahead of its leg's epoch or below its leg's index. *)
NoReconcileError ==
    \A c \in Constituents :
      /\ SyncAccepts(legs[c], balance[c], now)
      /\ \A w \in Wallets : SettleAccepts(claims[w][c], Synced[c])

(* The inductive invariant behind NoReconcileError: what a leg expects     *)
(* never exceeds a u64 and every claim can be settled against its leg.     *)
ReconcileInv ==
    /\ TypeOK
    /\ \A c \in Constituents : Expected(legs[c]) <= MaxU64
    /\ \A w \in Wallets, c \in Constituents :
         /\ SettleAccepts(claims[w][c], legs[c])
         /\ ~founded => claims[w][c].units = 0

(* What a claim is worth on a leg, k times over and only then rounded      *)
(* down: for a large k, all but its exact worth.                           *)
Worth(k, claim, leg) ==
    IF claim.units = 0 \/ claim.epoch < leg.claim_epoch THEN 0
    ELSE (k * claim.units * Index(leg)) \div claim.index

Covers(leg, entries) ==
    \A k \in Nat :
        SumFunction([w \in Wallets |-> Worth(k, entries[w], leg)])
            <= k * leg.unclaimed

(* The inductive invariant behind ClaimsCovered.  Claims rounded one by    *)
(* one may fit a leg now and no longer once a deficit shrinks it; what     *)
(* they are worth exactly fits for good.                                   *)
ClaimsInv ==
    \A c \in Constituents : Covers(legs[c], [w \in Wallets |-> claims[w][c]])

(* No more shares are held than the Hall has issued.                       *)
SharesIssued == SumFunction(shares) <= supply

(* The inductive invariant behind the vesting properties: no vest starts   *)
(* in the future, and none ends more than a full window from now.          *)
VestTimes ==
    \A c \in Constituents :
      /\ legs[c].vest_start <= now
      /\ legs[c].vest_end <= now + VestWindow

(* Every share a wallet still holds can be melted at once, whatever the    *)
(* issuers have done: no check of Redeem can refuse its owner (redeem.rs:  *)
(* "a melt impossible for an issuer to block").                            *)
MeltNeverBlocked ==
    founded => \A w \in Wallets : \A n \in 1 .. shares[w] : RedeemChecks(w, n)

(* Whatever a claim settles to can be withdrawn whole, unless the issuer   *)
(* is refusing transfers at that moment.                                   *)
ClaimsDeliverable ==
    founded => \A w \in Wallets, c \in Constituents :
        SettledNow(w, c) > 0 => WithdrawChecks(w, c, SettledNow(w, c))

(* Once a leg has been synced, no balance that appears in the same instant *)
(* can lift its ledger: a donation cannot move the share price inside one  *)
(* block, and a second sync cannot vest the same fraction twice.           *)
NoLiftWithinAnInstant ==
    founded => \A c \in Constituents : \A actual \in Amount :
        Sync(Synced[c], actual, now).ledger <= Synced[c].ledger

(* A donation s on top of a remainder r with d instants left vests, from   *)
(* then on, no faster than r / d + s / VestWindow, and ends no later than  *)
(* a full window from now (recipe.rs: "can raise the rate at which pending *)
(* vests by at most s / W").                                               *)
DonationPace ==
    founded => \A c \in Constituents :
      LET before == Synced[c]
          left   == TimeLeft(before, now)
          pace   == IF left = 0 THEN 1 ELSE left
      IN  \A surplus \in 1 .. (MaxU64 - balance[c]) :
            LET after == Sync(before, balance[c] + surplus, now)
                span  == after.vest_end - now
            IN  /\ after.pending * pace * VestWindow
                     <= span * (before.pending * VestWindow + surplus * pace)
                /\ span <= VestWindow

(* Pending credit is never used up before its vest ends, however often the *)
(* leg is synced: only a shortfall of the Hall's balance can consume it.   *)
NeverVestedEarly ==
    [][\A c \in Constituents :
         /\ legs[c].pending > 0
         /\ balance[c] >= Expected(legs[c])
         /\ now' < legs[c].vest_end
         => legs'[c].pending > 0]_vars

(* Whenever an instruction writes a leg, ledger + pending + unclaimed is   *)
(* exactly what the Hall's account holds when the instruction ends.        *)
WrittenLegsBalance ==
    [][\A c \in Constituents :
         legs'[c] # legs[c] => Expected(legs'[c]) = balance'[c]]_vars

(* No strike and no melt lowers what a share is worth in any constituent:  *)
(* ledger / supply after is at least ledger / supply just after the sync,  *)
(* so rounding always favours the holders who stay.                        *)
NoDilution ==
    [][founded /\ supply' # supply =>
         \A c \in Constituents :
           legs'[c].ledger * supply >= Synced[c].ledger * supply']_vars

(* While the Hall holds all it expects, what a wallet may withdraw falls   *)
(* only by exactly what that wallet is being paid: no other party's melt,  *)
(* withdrawal or sync, and no passing of time, takes from it.              *)
ClaimsFallOnlyByPayment ==
    [][\A w \in Wallets, c \in Constituents :
         (SettledNow(w, c))' < SettledNow(w, c) =>
            \/ balance'[c] < Expected(legs'[c])
            \/ /\ claims'[w][c] # claims[w][c]
               /\ SettledNow(w, c) - (SettledNow(w, c))' = balance[c] - balance'[c]
      ]_vars
=============================================================================
