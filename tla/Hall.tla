-------------------------------- MODULE Hall --------------------------------
(***************************************************************************)
(* One alloy of the Hall, the Solana program that holds the constituents   *)
(* of a basket and issues shares against them                              *)
(* (chain/programs/hall/src/instructions).                                 *)
(*                                                                         *)
(* An instruction is a transaction: it runs whole or it reverts, so each   *)
(* is one action whose guard is the conjunction of every check it makes.   *)
(* Between two instructions anyone may send tokens to the Hall's accounts, *)
(* and the issuer of a constituent may seize from them, refuse transfers   *)
(* (a freeze, a pause, a hook) or take a fee; a holder may burn shares     *)
(* through the token program without telling the Hall.                     *)
(***************************************************************************)
EXTENDS HallRecipe, FiniteSets

CONSTANTS
    Constituents,     \* the mints of the alloy
    Wallets,          \* those who strike, melt and withdraw
    GenesisShares,    \* the genesis_shares a sponsor may name
    GenesisDeposits,  \* the deposit a sponsor may name for a constituent
    Maximums,         \* the limits a striker may name for a constituent
    Stances,          \* what an issuer may do to a transfer
    MaxTime,          \* bound: the last instant of the clock
    MaxBurnt,         \* bound: shares holders burn without the Hall knowing
    MaxEpoch          \* bound: an issuer stops seizing at this claim epoch

ASSUME HallAssumption ==
    /\ Constituents # {}
    /\ IsFiniteSet(Wallets)
    /\ GenesisShares \subseteq Nat \ {0}
    /\ GenesisDeposits \subseteq Nat \ {0}
    /\ Maximums \subseteq Nat
    /\ "open" \in Stances /\ Stances \subseteq {"open", "refusing", "fee"}
    /\ MaxTime \in Nat
    /\ MaxBurnt \in Nat
    /\ MaxEpoch \in Nat

VARIABLES
    founded,          \* InitializeAlloy has run
    locked_genesis,   \* shares nothing in the program can move
    supply,           \* alloy.supply
    legs,             \* alloy.legs
    shares,           \* the share token account of each wallet
    claims,           \* claims[w][c]: the claim entry of wallet w on c
    balance,          \* what the Hall's token account of c really holds
    stance,           \* what the issuer of c does to a transfer
    burnt,            \* shares burnt through the token program itself
    now               \* the clock sysvar

alloyVars == <<founded, locked_genesis, supply, legs>>
vars == <<founded, locked_genesis, supply, legs, shares, claims, balance,
          stance, burnt, now>>

Init ==
    /\ founded = FALSE
    /\ locked_genesis = 0
    /\ supply = 0
    /\ legs = [c \in Constituents |-> NoLeg]
    /\ shares = [w \in Wallets |-> 0]
    /\ claims = [w \in Wallets |-> [c \in Constituents |-> NoClaim]]
    /\ balance = [c \in Constituents |-> 0]
    /\ stance = [c \in Constituents |-> "open"]
    /\ burnt = 0
    /\ now = 0

-----------------------------------------------------------------------------
(* Token transfers, as the constituent's token program decides them.  A    *)
(* fee is withheld from what the receiver gets and is at least one unit.   *)

Delivered(c, amount) ==
    IF stance[c] = "fee" /\ amount > 0 THEN amount - 1 ELSE amount

(* Slip: the amount received is not compared with the amount asked for. *)
DepositUnchecked(c, amount) ==
    stance[c] # "refusing" /\ balance[c] + amount <= MaxU64

(* deposit.rs: the Hall's account takes exactly the amount, or nothing.    *)
DepositAccepts(c, amount) ==
    /\ stance[c] # "refusing"
    /\ balance[c] + amount <= MaxU64
    /\ Delivered(c, amount) = amount

Synced == [c \in Constituents |-> Sync(legs[c], balance[c], now)]

AllSyncAccept == \A c \in Constituents : SyncAccepts(legs[c], balance[c], now)

-----------------------------------------------------------------------------
(* The instructions. *)

InitializeAlloy(genesis, deposits) ==
    /\ ~founded
    /\ genesis > 0
    /\ \A c \in Constituents : deposits[c] > 0 /\ DepositAccepts(c, deposits[c])
    /\ founded' = TRUE
    /\ locked_genesis' = genesis
    /\ supply' = genesis
    /\ legs' = [c \in Constituents |->
                  [NoLeg EXCEPT !.ledger = deposits[c],
                                !.pending = balance[c],
                                !.vest_start = now,
                                !.vest_end = now + VestWindow]]
    /\ balance' = [c \in Constituents |-> balance[c] + Delivered(c, deposits[c])]
    /\ UNCHANGED <<shares, claims, stance, burnt, now>>

Create(w, n, maximums) ==
    LET inputs == [c \in Constituents |-> RequiredIn(Synced[c], n, supply)]
    IN  /\ founded
        /\ AllSyncAccept
        /\ CreateAccepts(Synced, supply, n, maximums)
        /\ supply + n <= MaxU64
        /\ \A c \in Constituents :
             /\ Synced[c].ledger + inputs[c] <= MaxU64
             /\ DepositAccepts(c, inputs[c])
        /\ legs' = [c \in Constituents |-> ApplyCreate(Synced[c], inputs[c])]
        /\ balance' = [c \in Constituents |-> balance[c] + Delivered(c, inputs[c])]
        /\ supply' = supply + n
        /\ shares' = [shares EXCEPT ![w] = @ + n]
        /\ UNCHANGED <<founded, locked_genesis, claims, stance, burnt, now>>

Melted(n) ==
    [c \in Constituents |->
       ApplyRedeem(Synced[c], Out(Synced[c], n, supply))]

(* Slip: a melt that invokes the constituents' token programs. *)
RedeemInvokesTokenProgram(w, n) ==
    \A c \in Constituents : stance[c] # "refusing"

(* Everything Redeem checks but that the caller owns the shares it burns.  *)
RedeemChecks(w, n) ==
    /\ AllSyncAccept
    /\ RedeemAccepts(supply, n)
    /\ \A c \in Constituents :
         LET units == Out(Synced[c], n, supply)
         IN  /\ units <= Synced[c].ledger
             /\ Melted(n)[c].unclaimed <= MaxU64
             /\ CreditClaimAccepts(claims[w][c], Melted(n)[c], units)

Redeem(w, n) ==
    /\ founded
    /\ n <= shares[w]
    /\ RedeemChecks(w, n)
    /\ legs' = Melted(n)
    /\ claims' = [claims EXCEPT ![w] = [c \in Constituents |->
                    CreditClaim(@[c], Melted(n)[c], Out(Synced[c], n, supply))]]
    /\ supply' = supply - n
    /\ shares' = [shares EXCEPT ![w] = @ - n]
    /\ UNCHANGED <<founded, locked_genesis, balance, stance, burnt, now>>

(* Everything Withdraw checks but that the token program lets units go.    *)
WithdrawChecks(w, c, units) ==
    /\ units > 0
    /\ SyncAccepts(legs[c], balance[c], now)
    /\ WithdrawClaimAccepts(claims[w][c], Synced[c], units)
    /\ units <= balance[c]
    /\ balance[c] - units = Expected(ApplyWithdraw(Synced[c], units))

Withdraw(w, c, units) ==
    /\ founded
    /\ WithdrawChecks(w, c, units)
    /\ stance[c] # "refusing"
    /\ legs' = [legs EXCEPT ![c] = ApplyWithdraw(Synced[c], units)]
    /\ claims' = [claims EXCEPT ![w][c] = WithdrawClaim(@, Synced[c], units)]
    /\ balance' = [balance EXCEPT ![c] = @ - units]
    /\ UNCHANGED <<founded, locked_genesis, supply, shares, stance, burnt, now>>

SyncLeg(c) ==
    /\ founded
    /\ SyncAccepts(legs[c], balance[c], now)
    /\ legs' = [legs EXCEPT ![c] = Synced[c]]
    /\ UNCHANGED <<founded, locked_genesis, supply, shares, claims, balance,
                   stance, burnt, now>>

-----------------------------------------------------------------------------
(* What happens to the Hall without an instruction of its own. *)

Donate(c, n) ==
    /\ balance[c] + n <= MaxU64
    /\ balance' = [balance EXCEPT ![c] = @ + n]
    /\ UNCHANGED <<alloyVars, shares, claims, stance, burnt, now>>

Seize(c, n) ==
    /\ n <= balance[c]
    /\ legs[c].claim_epoch < MaxEpoch
    /\ balance' = [balance EXCEPT ![c] = @ - n]
    /\ UNCHANGED <<alloyVars, shares, claims, stance, burnt, now>>

ChangeStance(c, s) ==
    /\ stance[c] # s
    /\ stance' = [stance EXCEPT ![c] = s]
    /\ UNCHANGED <<alloyVars, shares, claims, balance, burnt, now>>

BurnShares(w, n) ==
    /\ n <= shares[w]
    /\ burnt + n <= MaxBurnt
    /\ burnt' = burnt + n
    /\ shares' = [shares EXCEPT ![w] = @ - n]
    /\ UNCHANGED <<alloyVars, claims, balance, stance, now>>

Tick ==
    /\ now < MaxTime
    /\ now' = now + 1
    /\ UNCHANGED <<alloyVars, shares, claims, balance, stance, burnt>>

Issuer(c) ==
    \/ \E n \in 1 .. MaxU64 : Donate(c, n) \/ Seize(c, n)
    \/ \E s \in Stances : ChangeStance(c, s)

Wallet(w) ==
    \/ \E n \in 1 .. MaxU64 :
         \/ Redeem(w, n)
         \/ BurnShares(w, n)
         \/ \E maximums \in [Constituents -> Maximums] : Create(w, n, maximums)
    \/ \E c \in Constituents, n \in 1 .. MaxU64 : Withdraw(w, c, n)

Sponsor ==
    \E genesis \in GenesisShares, deposits \in [Constituents -> GenesisDeposits] :
        InitializeAlloy(genesis, deposits)

Next ==
    \/ Sponsor
    \/ \E w \in Wallets : Wallet(w)
    \/ \E c \in Constituents : SyncLeg(c) \/ Issuer(c)
    \/ Tick

Spec == Init /\ [][Next]_vars
=============================================================================
