------------------------------ MODULE Purchase ------------------------------
(* From a holder's plan to a leg the server sends: the basket page, the trade *)
(* sheet and the Sell All sheet (app/allocation/flow.tsx and                  *)
(* app/positions/positions.tsx), the routes that prepare and submit           *)
(* (lib/allocation/execution.ts, approval.ts, wallet-changes.ts) and the hand *)
(* over to the browser's execution engine (lib/execution/run.ts).  Answers    *)
(* are awaited while sheets are closed and chosen anew, wallets switched,     *)
(* funds spent elsewhere, deployments replaced and blockhashes age.           *)
EXTENDS AllocationRules, Sequences

CONSTANTS
    Wallets, Mints,
    Surfaces,           \* of "basket", "trade" and "sale", those in use
    Plans,              \* what a holder may choose: [kind, mints, atoms]
    Spends, WeightLists,\* baskets: what may be typed, and whole percents or <<>>
    Baskets,            \* the lists of mints a basket may hold
    CapAtoms,           \* per mint: lotCapAtoms
    MIN_LEG_USDC_ATOMS,
    SIGNING_WINDOW,     \* SIGNING_WINDOW_MS on the model's clock
    BLOCKHASH_LIFE,     \* how long a blockhash is accepted (external)
    HasSender,          \* config.senderUrl is set
    TipLamports, TipUsdcAtoms, SignatureFee,
    PriorityFees,       \* what Jupiter may ask a route to pay (external)
    SaleWorths,         \* USDC a sale may be quoted at (external)
    Rent,               \* per mint: lamports to open an account for it, if not open
    SolAtGenesis, UsdcAtGenesis,
    MaxRequests, MaxTime, MaxChanges   \* bounds

ASSUME PurchaseAssumption ==
    /\ Surfaces \subseteq {"basket", "trade", "sale"}
    /\ HasSender \in BOOLEAN
    /\ {MIN_LEG_USDC_ATOMS, TipLamports, TipUsdcAtoms, SignatureFee,
        SolAtGenesis, UsdcAtGenesis, SIGNING_WINDOW, BLOCKHASH_LIFE,
        MaxRequests, MaxTime, MaxChanges} \subseteq Nat
    /\ PriorityFees \subseteq Nat /\ SaleWorths \subseteq Nat
    /\ Wallets # {}
    /\ Plans \subseteq [kind: {"buy", "sell"}, mints: Seq(Mints), atoms: Seq(Nat)]
    /\ \A plan \in Plans : Len(plan.atoms) = Len(plan.mints)
    /\ Spends \subseteq Nat
    /\ WeightLists \subseteq Seq(Nat)
    /\ Baskets \subseteq Seq(Mints) \ {<<>>}
    /\ CapAtoms \in [Mints -> Nat] /\ Rent \in [Mints \union {"USDC"} -> Nat]
    \* A blockhash lives 32 seconds at mainnet's fastest and the window is 30.
    /\ SIGNING_WINDOW <= BLOCKHASH_LIFE

VARIABLES
    connected,          \* the wallet the page is connected to
    sheet,              \* per surface: [plan, stage, prepared]
    request,            \* per request: the POST to a prepare route and its legs
    prompt,             \* per request: what the wallet is being asked to sign for
    record,             \* per request: the execution recorded for it
    posted,             \* the legs posted to the submit route, and its judgements
    sol, usdc,          \* per wallet: what it holds
    deployed,           \* [version, admitted] of the deployment now serving
    now,
    changes             \* switches, spendings and deployments so far

vars == <<connected, sheet, request, prompt, record, posted, sol, usdc,
          deployed, now, changes>>

Requests == 1 .. MaxRequests

NoPlan  == [kind |-> "none", mints |-> <<>>, atoms |-> <<>>]
Closed  == [plan |-> NoPlan, stage |-> "open", prepared |-> 0]
NoMessage == [trade |-> <<>>, hash |-> 0, fee |-> 0, tip |-> FALSE, limit |-> "none"]
Waiting == [step |-> "waiting", sol |-> 0, feeBps |-> 0, avoided |-> FALSE, needed |-> 0,
            message |-> NoMessage, tested |-> NoMessage, expires |-> 0]
AnyWallet == CHOOSE w \in Wallets : TRUE
NoServer == [version |-> 0, admitted |-> {}]
NoRequest == [step |-> "none", on |-> "none", wallet |-> AnyWallet,
              plan |-> NoPlan, usdc |-> 0, server |-> NoServer, legs |-> <<>>]
NoPrompt == [wallet |-> AnyWallet, kind |-> "none", mints |-> <<>>]
NoRecord == [wallet |-> AnyWallet, kind |-> "none", mints |-> <<>>,
             messages |-> <<>>, signed |-> FALSE]

LegsOf(r) == DOMAIN request[r].legs
Leg(r, i) == request[r].legs[i]
Mint(r, i) == request[r].plan.mints[i]
Atoms(r, i) == request[r].plan.atoms[i]

-----------------------------------------------------------------------------
(* The pages.                                                                 *)

\* The split of a typed spend over the constituents, or nothing while the
\* amount, a weight, a share or a capacity is refused.
Split(typed, mints, weights) ==
    IF weights = <<>> THEN splitEvenly(typed, Len(mints))
                      ELSE splitByWeights(typed, weights)

AmountProblem(typed, mints, weights) ==
    \/ weights # <<>> /\ (SumOf(weights) # 100 \/ \E i \in DOMAIN weights : weights[i] < 1)
    \/ typed < minimumPlanAtoms(Len(mints), MIN_LEG_USDC_ATOMS)
    \/ \E i \in DOMAIN mints :
          LET share == Split(typed, mints, weights)[i]
          IN  share > CapAtoms[mints[i]] \/ share < minimumPlanAtoms(1, MIN_LEG_USDC_ATOMS)

BasketPlans ==
    {[kind |-> "buy", mints |-> choice[2], atoms |-> Split(choice[1], choice[2], choice[3])] :
        choice \in {c \in Spends \X Baskets \X WeightLists :
                      /\ c[3] = <<>> \/ Len(c[3]) = Len(c[2])
                      /\ ~ AmountProblem(c[1], c[2], c[3])}}

\* What can be chosen where: a basket to buy, one lot to buy or sell, or the
\* lots of an Allocation to sell.
PlansOf(s) ==
    CASE s = "basket" -> BasketPlans
      [] s = "trade"  -> {plan \in Plans : Len(plan.mints) = 1}
      [] s = "sale"   -> {plan \in Plans : plan.kind = "sell"}

\* The plan of a basket is locked from the request until the wallet answered;
\* a sheet may be closed, and another opened, at any time.  (Bound: a basket is
\* chosen while there is a request left to ask for it with.)
Choose(s, plan) ==
    /\ s = "basket" => /\ sheet[s].stage = "open"
                       /\ \E r \in Requests : request[r].step = "none"
    /\ plan # sheet[s].plan \/ sheet[s].stage # "open"
    /\ sheet' = [sheet EXCEPT ![s] = [plan |-> plan, stage |-> "open", prepared |-> 0]]
    /\ UNCHANGED <<connected, request, prompt, record, posted, sol, usdc, deployed, now, changes>>

Close(s) ==
    /\ s # "basket"
    /\ sheet[s].plan # NoPlan
    /\ sheet' = [sheet EXCEPT ![s] = Closed]
    /\ UNCHANGED <<connected, request, prompt, record, posted, sol, usdc, deployed, now, changes>>

\* The quotes on the trade sheet are past their window: it asks again.
Stale(s) ==
    /\ s = "trade" /\ sheet[s].stage = "review" /\ sheet[s].prepared # 0
    /\ \A i \in LegsOf(sheet[s].prepared) : Leg(sheet[s].prepared, i).expires <= now

\* buyAll, reviewSale, reviewPurchase, reviewAllocationSale: one request for
\* every leg, from the wallet connected now.
Ask(s, r) ==
    /\ request[r].step = "none"
    /\ \A q \in Requests : q < r => request[q].step # "none"
    /\ sheet[s].plan # NoPlan
    /\ sheet[s].stage = "open" \/ Stale(s)
    /\ sheet' = [sheet EXCEPT ![s].stage = "quoting",
                              ![s].prepared = IF s = "sale" THEN 0 ELSE @]
    /\ request' = [request EXCEPT ![r] =
            [step |-> "asked", on |-> s, wallet |-> connected, plan |-> sheet[s].plan,
             usdc |-> 0, server |-> NoServer,
             legs |-> [i \in DOMAIN sheet[s].plan.mints |-> Waiting]]]
    /\ UNCHANGED <<connected, prompt, record, posted, sol, usdc, deployed, now, changes>>

\* The answer reaches the page that waits for it.  The basket drops quotes made
\* for a wallet that is no longer connected and asks for the signatures of the
\* plan it asked with; a sheet shows the quotes, whatever it now stands on, for
\* approval.
AskToSign(r, plan) ==
    prompt' = [prompt EXCEPT ![r] =
                  [wallet |-> request[r].wallet, kind |-> plan.kind, mints |-> plan.mints]]

StillConnected(r) == connected = request[r].wallet

Receive(r) ==
    LET s == request[r].on
    IN  /\ request[r].step \in {"answered", "refused"}
        /\ request' = [request EXCEPT ![r].step =
                          IF @ = "answered" THEN "quoted" ELSE "over"]
        /\ IF request[r].step = "refused" \/ (s = "basket" /\ ~ StillConnected(r))
           THEN /\ sheet' = [sheet EXCEPT ![s].stage = "open"]
                /\ UNCHANGED prompt
           ELSE IF s = "basket"
           THEN /\ sheet' = [sheet EXCEPT ![s].stage = "signing"]
                /\ AskToSign(r, request[r].plan)
           ELSE /\ sheet' = IF sheet[s].plan = NoPlan THEN sheet
                            ELSE [sheet EXCEPT ![s].stage = "review", ![s].prepared = r]
                /\ UNCHANGED prompt
        /\ UNCHANGED <<connected, record, posted, sol, usdc, deployed, now, changes>>

\* Whether it was prepared or not, the answer may be lost on its way.
LoseAnswer(r) ==
    /\ request[r].step \in {"asked", "preparing", "answered", "refused"}
    /\ request' = [request EXCEPT ![r].step = "over"]
    /\ sheet' = [sheet EXCEPT ![request[r].on].stage = "open"]
    /\ UNCHANGED <<connected, prompt, record, posted, sol, usdc, deployed, now, changes>>

\* signSale, signPurchase, approveAllocationSale: the sheet's wallet, direction
\* and names as it stands, with the quotes it shows.
Approve(s) ==
    LET r == sheet[s].prepared
    IN  /\ s # "basket"
        /\ sheet[s].stage = "review" /\ r # 0 /\ sheet[s].plan # NoPlan
        /\ ~ Stale(s)
        /\ Len(request[r].plan.mints) <= Len(sheet[s].plan.mints)
        /\ sheet' = [sheet EXCEPT ![s].stage = "signing"]
        /\ prompt' = [prompt EXCEPT ![r] =
                [wallet |-> connected, kind |-> sheet[s].plan.kind,
                 mints |-> SubSeq(sheet[s].plan.mints, 1, Len(request[r].plan.mints))]]
        /\ UNCHANGED <<connected, request, record, posted, sol, usdc, deployed, now, changes>>

\* Nothing is sent: the wallet declined, changed a trade, or is no longer the
\* one connected.  The sheet that is open says so.
NotSent(r) ==
    LET s == request[r].on
    IN  /\ prompt[r] # NoPrompt
        /\ prompt' = [prompt EXCEPT ![r] = NoPrompt]
        /\ sheet' = IF s = "basket" THEN [sheet EXCEPT ![s].stage = "open"]
                    ELSE IF sheet[s].plan = NoPlan THEN sheet
                    ELSE [sheet EXCEPT ![s].stage = "review"]
        /\ UNCHANGED <<connected, request, record, posted, sol, usdc, deployed, now, changes>>

\* What a signed message differs in from the approved one: guards and the
\* compute budget, with its data limit, are the wallet's to change.
walletChanges(approved, signed) ==
    \/ signed.hash # approved.hash
    \/ signed.trade # approved.trade
    \/ signed.tip # approved.tip

\* What the wallet hands back: signed by the payer if that is the wallet it is
\* on, with its own budget, and perhaps with another trade in it.
WalletReturns(r, i) ==
    LET approved == Leg(r, i).message
    IN  {[approved EXCEPT !.trade = trade, !.limit = limit] :
            trade \in {approved.trade, <<"other">>}, limit \in {approved.limit, "wallet"}}

\* Slip: the wallet is not read again once it has signed.
WhoeverSigned(r) == TRUE

\* approveAndSend once the wallet has answered: the baskets read the wallet now
\* connected, a sheet the one of its own last rendering.
SignerConnected(r) ==
    request[r].on = "basket" => connected = prompt[r].wallet

Sign(r) ==
    LET s == request[r].on
    IN  /\ prompt[r] # NoPrompt
        /\ SignerConnected(r)
        /\ \E signed \in [LegsOf(r) -> UNION {WalletReturns(r, i) : i \in LegsOf(r)}] :
              /\ \A i \in LegsOf(r) : /\ signed[i] \in WalletReturns(r, i)
                                      /\ ~ walletChanges(Leg(r, i).message, signed[i])
              /\ record' = [record EXCEPT ![r] =
                    [wallet |-> prompt[r].wallet, kind |-> prompt[r].kind,
                     mints |-> prompt[r].mints, messages |-> signed,
                     signed |-> connected = request[r].wallet]]
        /\ prompt' = [prompt EXCEPT ![r] = NoPrompt]
        /\ sheet' = [sheet EXCEPT ![s] = IF s = "basket" THEN [@ EXCEPT !.stage = "open"]
                                                         ELSE Closed]
        /\ UNCHANGED <<connected, request, posted, sol, usdc, deployed, now, changes>>

-----------------------------------------------------------------------------
(* The prepare routes.                                                        *)

Refuse(r) == request' = [request EXCEPT ![r].step = "refused"]

\* A purchase is refused when it names a mint twice, one that is not admitted
\* or an amount out of its bounds; then the wallet must hold the USDC of all
\* its legs together.
Admissible(plan, server) ==
    /\ plan.mints # <<>>
    /\ \A i, j \in DOMAIN plan.mints : plan.mints[i] = plan.mints[j] => i = j
    /\ plan.kind = "buy" =>
          \A i \in DOMAIN plan.mints :
             /\ plan.mints[i] \in server.admitted
             /\ plan.atoms[i] \in MIN_LEG_USDC_ATOMS .. CapAtoms[plan.mints[i]]
    /\ plan.kind = "sell" => \A i \in DOMAIN plan.atoms : plan.atoms[i] > 0

StartBatch(r) ==
    LET plan == request[r].plan
        held == usdc[request[r].wallet]
    IN  /\ request[r].step = "asked"
        /\ IF Admissible(plan, deployed) /\ (plan.kind = "buy" => SumOf(plan.atoms) <= held)
           THEN request' = [request EXCEPT ![r].step = "preparing",
                                           ![r].usdc = held, ![r].server = deployed]
           ELSE Refuse(r)
        /\ UNCHANGED <<connected, sheet, prompt, record, posted, sol, usdc, deployed, now, changes>>

SetLeg(r, i, leg) == request' = [request EXCEPT ![r].legs[i] = leg]

\* The balances the leg is checked against are read once, and the fee is the
\* plan's tier less what covers the tip.  What a sale is worth is quoted first.
FeeBps(constituents, worth) ==
    LET tier == routingFeeBps(constituents)
    IN  IF HasSender THEN tier - tipOffsetBps(TipUsdcAtoms, worth, tier) ELSE tier

Worths(r, i) == IF request[r].plan.kind = "buy" THEN {Atoms(r, i)} ELSE SaleWorths

\* A sale is its own tier, however many it is sold with.
Constituents(r) ==
    IF request[r].plan.kind = "buy" THEN Len(request[r].plan.mints) ELSE 1

ReadBefore(r, i) ==
    /\ request[r].step = "preparing"
    /\ Leg(r, i).step = "waiting"
    /\ \/ Refuse(r)                 \* nothing to sell, no account for the fee
       \/ /\ request[r].plan.kind = "buy" => usdc[request[r].wallet] >= Atoms(r, i)
          /\ \E worth \in Worths(r, i) :
                SetLeg(r, i, [Leg(r, i) EXCEPT !.step = "routing",
                                               !.feeBps = FeeBps(Constituents(r), worth),
                                               !.sol = sol[request[r].wallet]])
    /\ UNCHANGED <<connected, sheet, prompt, record, posted, sol, usdc, deployed, now, changes>>

\* Jupiter's builds of the route, for Sender when it fits a packet with the tip.
Builds(r, i) ==
    {message \in [trade: {<<r, i, Leg(r, i).avoided>>}, hash: {now}, fee: PriorityFees,
                  tip: IF HasSender THEN BOOLEAN ELSE {FALSE}, limit: {"ceiling", "none"}] :
        message.limit = "ceiling" <=> message.tip}

\* A new account for what the leg receives, the signature, the priority fee
\* and the tip: refuseUnfunded.
Received(r, i) == IF request[r].plan.kind = "buy" THEN Mint(r, i) ELSE "USDC"

SolNeeded(r, i, message) ==
    Rent[Received(r, i)] + SignatureFee + message.fee + (IF message.tip THEN TipLamports ELSE 0)

Route(r, i) ==
    /\ request[r].step = "preparing"
    /\ Leg(r, i).step = "routing"
    /\ \/ Refuse(r)                 \* no route, or one that may not be offered
       \/ \E built \in Builds(r, i) :
             IF Leg(r, i).sol < SolNeeded(r, i, built)
             THEN Refuse(r)
             ELSE SetLeg(r, i, [Leg(r, i) EXCEPT !.step = "built", !.message = built,
                                     !.needed = SolNeeded(r, i, built)])
    /\ UNCHANGED <<connected, sheet, prompt, record, posted, sol, usdc, deployed, now, changes>>

\* Slip: counted from when the quotes are ready.
ExpiresFromNow(message) == now + SIGNING_WINDOW

\* The window the holder has, counted from before the blockhash was fetched.
Expires(message) == message.hash + SIGNING_WINDOW

\* A run at the ceiling measured the leg: it is built again and run again.
Tightened(leg) == [leg EXCEPT !.step = "tightened", !.message.limit = "measured"]

\* Slip: the tightened message is approved on the run that measured it.
Untested(leg) ==
    [leg EXCEPT !.step = "ready", !.tested = leg.message, !.expires = Expires(leg.message),
                !.message.limit = "measured"]

\* signApproval, over the message as it was simulated.
Approved(leg) ==
    [leg EXCEPT !.step = "ready", !.tested = leg.message, !.expires = Expires(leg.message)]

Simulates(r, i) ==
    LET leg == Leg(r, i)
    IN  /\ request[r].step = "preparing"
        /\ leg.step \in {"built", "tightened"}
        /\ \/ /\ leg.step = "built" /\ leg.message.limit = "ceiling"
              /\ SetLeg(r, i, Tightened(leg))
           \/ /\ now <= Expires(leg.message)
              /\ SetLeg(r, i, Approved(leg))
           \/ /\ now > Expires(leg.message)
              /\ Refuse(r)
        /\ UNCHANGED <<connected, sheet, prompt, record, posted, sol, usdc, deployed, now, changes>>

\* Slip: every venue that fails is left out in its turn.
NotRemembered(leg) == leg

\* A venue that failed is left out of one more route; any other failure, or a
\* second one, refuses the leg.
Avoided(leg) == [leg EXCEPT !.avoided = TRUE]

SimulationFails(r, i) ==
    LET leg == Leg(r, i)
    IN  /\ request[r].step = "preparing"
        /\ leg.step \in {"built", "tightened"}
        /\ IF leg.avoided THEN Refuse(r)
           ELSE \/ Refuse(r)
                \/ SetLeg(r, i, [Avoided(leg) EXCEPT !.step = "routing"])
        /\ UNCHANGED <<connected, sheet, prompt, record, posted, sol, usdc, deployed, now, changes>>

\* Slip: every leg has already been checked.
NeededAlone(r) == 0

\* The legs of a purchase must be payable together; the first leg that is
\* refused refuses the batch.
NeededTogether(r) == SumOf([i \in LegsOf(r) |-> Leg(r, i).needed])

FinishBatch(r) ==
    /\ request[r].step = "preparing"
    /\ \A i \in LegsOf(r) : Leg(r, i).step = "ready"
    /\ IF request[r].plan.kind = "buy" => NeededTogether(r) <= sol[request[r].wallet]
       THEN request' = [request EXCEPT ![r].step = "answered"]
       ELSE Refuse(r)
    /\ UNCHANGED <<connected, sheet, prompt, record, posted, sol, usdc, deployed, now, changes>>

-----------------------------------------------------------------------------
(* The submit route: submitLeg.                                               *)

\* The digest binds the approved message; the wallet may only have guarded it.
Accepts(r, i) ==
    /\ now <= Leg(r, i).expires
    /\ ~ walletChanges(Leg(r, i).message, record[r].messages[i])
    /\ request[r].plan.kind = "buy" => Mint(r, i) \in deployed.admitted
    /\ deployed.version = request[r].server.version

Post(r, i) ==
    /\ record[r].signed
    /\ \A p \in posted : p.request = r => p.leg # i
    /\ posted' = posted \union
          {[request |-> r, leg |-> i, accepted |-> Accepts(r, i), at |-> now]}
    /\ UNCHANGED <<connected, sheet, request, prompt, record, sol, usdc, deployed, now, changes>>

-----------------------------------------------------------------------------
(* Around them: the holder's wallet, its other spending, deployments, time.   *)

Switch(w) ==
    /\ w # connected
    /\ changes < MaxChanges
    /\ connected' = w
    /\ changes' = changes + 1
    /\ UNCHANGED <<sheet, request, prompt, record, posted, sol, usdc, deployed, now>>

\* The holder spends elsewhere.  (Bound: a balance is read only while a request
\* of its wallet is being prepared, so it changes only then.)
Spend(w) ==
    /\ changes < MaxChanges
    /\ changes' = changes + 1
    /\ \E r \in Requests : /\ request[r].wallet = w
                           /\ request[r].step \in {"asked", "preparing"}
    /\ \/ sol[w] > 0 /\ sol' = [sol EXCEPT ![w] = @ - 1] /\ UNCHANGED usdc
       \/ usdc[w] > 0 /\ usdc' = [usdc EXCEPT ![w] = @ - 1] /\ UNCHANGED sol
    /\ UNCHANGED <<connected, sheet, request, prompt, record, posted, deployed, now>>

Redeploy ==
    /\ changes < MaxChanges
    /\ changes' = changes + 1
    /\ \E admitted \in SUBSET deployed.admitted :
          deployed' = [version |-> deployed.version + 1, admitted |-> admitted]
    /\ UNCHANGED <<connected, sheet, request, prompt, record, posted, sol, usdc, now>>

Tick ==
    /\ now < MaxTime
    /\ now' = now + 1
    /\ UNCHANGED <<connected, sheet, request, prompt, record, posted, sol, usdc, deployed, changes>>

-----------------------------------------------------------------------------
Init ==
    /\ connected = AnyWallet
    /\ sheet = [s \in Surfaces |-> Closed]
    /\ request = [r \in Requests |-> NoRequest]
    /\ prompt = [r \in Requests |-> NoPrompt]
    /\ record = [r \in Requests |-> NoRecord]
    /\ posted = {}
    /\ sol = [w \in Wallets |-> SolAtGenesis]
    /\ usdc = [w \in Wallets |-> UsdcAtGenesis]
    /\ deployed = [version |-> 0, admitted |-> Mints]
    /\ now = 0 /\ changes = 0

PageStep ==
    \/ \E s \in Surfaces : \/ \E plan \in PlansOf(s) : Choose(s, plan)
                            \/ Close(s)
                            \/ Approve(s)
                            \/ \E r \in Requests : Ask(s, r)
    \/ \E r \in Requests : \/ Receive(r)
                            \/ LoseAnswer(r)
                            \/ NotSent(r)
                            \/ Sign(r)

ServerStep ==
    \E r \in Requests :
        \/ StartBatch(r)
        \/ FinishBatch(r)
        \/ \E i \in LegsOf(r) : \/ ReadBefore(r, i)
                                \/ Route(r, i)
                                \/ Simulates(r, i)
                                \/ SimulationFails(r, i)
                                \/ Post(r, i)

Next ==
    \/ PageStep
    \/ ServerStep
    \/ \E w \in Wallets : Switch(w) \/ Spend(w)
    \/ Redeploy
    \/ Tick

Spec == Init /\ [][Next]_vars
=============================================================================
