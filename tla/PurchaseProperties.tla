------------------------- MODULE PurchaseProperties -------------------------
(* What a holder is promised between a plan and the sending of its legs,      *)
(* whatever is closed, switched, spent, redeployed or late in between.        *)
EXTENDS Purchase

Kinds == {"none", "buy", "sell"}

PlanRecords ==
    {plan \in [kind: Kinds, mints: Seq(Mints), atoms: Seq(Nat)] :
        Len(plan.atoms) = Len(plan.mints)}

Messages ==
    [trade: {<<>>, <<"other">>} \union (Requests \X Nat \X BOOLEAN), hash: Nat, fee: Nat,
     tip: BOOLEAN, limit: {"none", "ceiling", "measured", "wallet"}]

LegRecords ==
    [step: {"waiting", "routing", "built", "tightened", "ready"}, sol: Nat, feeBps: 0 .. 25,
     avoided: BOOLEAN, needed: Nat, message: Messages, tested: Messages, expires: Nat]

RequestRecords ==
    [step: {"none", "asked", "preparing", "answered", "refused", "quoted", "over"},
     on: Surfaces \union {"none"}, wallet: Wallets, plan: PlanRecords, usdc: Nat,
     server: [version: Nat, admitted: SUBSET Mints], legs: Seq(LegRecords)]

\* Every variable holds what the code can put in it: a fee never goes below
\* nothing, and a request has one leg per lot of its plan.
TypeOK ==
    /\ connected \in Wallets
    /\ sheet \in [Surfaces -> [plan: PlanRecords,
                               stage: {"open", "quoting", "review", "signing"},
                               prepared: 0 .. MaxRequests]]
    /\ request \in [Requests -> RequestRecords]
    /\ \A r \in Requests : Len(request[r].legs) = Len(request[r].plan.mints)
    /\ prompt \in [Requests -> [wallet: Wallets, kind: Kinds, mints: Seq(Mints)]]
    /\ record \in [Requests -> [wallet: Wallets, kind: Kinds, mints: Seq(Mints),
                                messages: Seq(Messages), signed: BOOLEAN]]
    /\ posted \subseteq [request: Requests, leg: Nat, accepted: BOOLEAN, at: Nat]
    /\ sol \in [Wallets -> Nat] /\ usdc \in [Wallets -> Nat]
    /\ deployed \in [version: Nat, admitted: SUBSET Mints]
    /\ {now, changes} \subseteq Nat

\* "the wallet never signs a set whose combined spend was already larger than
\* its balance": when a purchase is answered, the wallet pays for the messages
\* it is about to sign, all of them.
AnsweredIsCovered ==
    [][\A r \in Requests :
         LET plan == request[r].plan
         IN  /\ request[r].step = "preparing" /\ request'[r].step = "answered"
             /\ plan.kind = "buy"
             => /\ SumOf([i \in LegsOf(r) |-> SolNeeded(r, i, Leg(r, i).message)])
                       <= sol[request[r].wallet]
                /\ SumOf(plan.atoms) <= request[r].usdc]_vars

\* What the submit route lets through is what was simulated, but for what the
\* wallet may change.
AcceptedIsWhatWasSimulated ==
    \A p \in posted : p.accepted =>
        LET tested == Leg(p.request, p.leg).tested
            sent   == record[p.request].messages[p.leg]
        IN  /\ sent.limit \in {tested.limit, "wallet"}
            /\ sent = [tested EXCEPT !.limit = sent.limit]

\* What it lets through can still land: "the blockhash is the real deadline".
AcceptedCanLand ==
    \A p \in posted : p.accepted =>
        p.at <= record[p.request].messages[p.leg].hash + BLOCKHASH_LIFE

\* What a basket spends is what was typed, to the atom, and what each leg costs
\* its holder in fee and tip together stays within the plan's tier for as long
\* as any fee is left to bear the tip.
PlanAddsUp ==
    \A r \in Requests : request[r].on = "basket" =>
        /\ SumOf(request[r].plan.atoms) \in Spends
        /\ \A i \in LegsOf(r) :
              Leg(r, i).message.tip /\ Leg(r, i).feeBps > 0 =>
                 routingFeeAtoms(Atoms(r, i), Leg(r, i).feeBps) + TipUsdcAtoms
                    <= routingFeeAtoms(Atoms(r, i), routingFeeBps(Len(request[r].plan.mints)))

\* A basket is recorded for the wallet that is connected and pays every leg of
\* it, as the purchase of what was quoted.
BasketsAreTheWallets ==
    [][\A r \in Requests :
         request[r].on = "basket" /\ record'[r] # record[r] =>
            /\ record'[r].wallet = connected
            /\ record'[r].signed
            /\ record'[r].kind = "buy" /\ record'[r].mints = request[r].plan.mints]_vars

\* "checked, approved and recorded as every purchase is" (positions.tsx, l. 60):
\* what is recorded is what was quoted and signed.
RecordsNameWhatWasSigned ==
    \A r \in Requests : record[r].signed =>
        /\ record[r].kind = request[r].plan.kind
        /\ record[r].mints = request[r].plan.mints

-----------------------------------------------------------------------------
(* Why these hold, step after step.                                           *)

LegSound(r, i) ==
    LET leg == Leg(r, i)
    IN  /\ leg.step \in {"built", "tightened", "ready"}
              => leg.needed = SolNeeded(r, i, leg.message)
        /\ leg.step = "ready"
              => leg.tested = leg.message /\ leg.expires = Expires(leg.message)

\* An answer holds legs that are ready; a basket is a purchase.
RequestSound(r) ==
    /\ \A i \in LegsOf(r) : LegSound(r, i)
    /\ request[r].step \in {"answered", "quoted"}
          => \A i \in LegsOf(r) : Leg(r, i).step = "ready"
    /\ request[r].step = "preparing" /\ request[r].plan.kind = "buy"
          => SumOf(request[r].plan.atoms) <= request[r].usdc
    /\ request[r].on = "basket" => request[r].plan.kind = "buy"

SheetSound(s) ==
    /\ s = "basket" => /\ sheet[s].prepared = 0
                       /\ sheet[s].plan = NoPlan \/ sheet[s].plan.kind = "buy"
    /\ sheet[s].prepared # 0 => /\ request[sheet[s].prepared].on = s
                                /\ request[sheet[s].prepared].step = "quoted"

PromptSound(r) ==
    prompt[r] # NoPrompt =>
        /\ request[r].step = "quoted"
        /\ request[r].on = "basket" =>
              prompt[r] = [wallet |-> request[r].wallet, kind |-> request[r].plan.kind,
                           mints |-> request[r].plan.mints]

\* What was signed is not quoted, prompted or shown again.
RecordSound(r) ==
    record[r].signed =>
        /\ request[r].step = "quoted"
        /\ prompt[r] = NoPrompt
        /\ \A s \in Surfaces : sheet[s].prepared # r
        /\ \A i \in LegsOf(r) :
              /\ record[r].messages[i] \in WalletReturns(r, i)
              /\ ~ walletChanges(Leg(r, i).message, record[r].messages[i])

PostSound(p) ==
    /\ record[p.request].signed
    /\ p.leg \in LegsOf(p.request)
    /\ p.accepted => p.at <= Leg(p.request, p.leg).expires

PurchaseInv ==
    /\ TypeOK
    /\ \A r \in Requests : RequestSound(r) /\ PromptSound(r) /\ RecordSound(r)
    /\ \A s \in Surfaces : SheetSound(s)
    /\ \A p \in posted : PostSound(p)

\* The fee of a leg, once its wallet was read, is its plan's tier less what
\* covers the tip, and a leg pays no tip before that.
LegCharged(leg, constituents, atoms) ==
    /\ leg.step = "waiting" => ~ leg.message.tip
    /\ leg.step # "waiting" => leg.feeBps = FeeBps(constituents, atoms)
    /\ leg.message.tip => HasSender

\* A basket asks for a split of what was typed.
RequestAdds(r) ==
    request[r].on = "basket" =>
        /\ SumOf(request[r].plan.atoms) \in Spends
        /\ \A i \in LegsOf(r) :
              LegCharged(Leg(r, i), Len(request[r].plan.mints), Atoms(r, i))

PlansInv ==
    /\ \A r \in Requests : RequestAdds(r)
    /\ \A s \in Surfaces :
          s = "basket" => sheet[s].plan = NoPlan \/ SumOf(sheet[s].plan.atoms) \in Spends

-----------------------------------------------------------------------------
(* A request to Jupiter or to an RPC is answered or fails in the end, and a   *)
(* page takes the answer; nothing obliges a wallet to sign.                   *)

Fairness ==
    \A r \in Requests :
        /\ WF_vars(StartBatch(r))
        /\ WF_vars(FinishBatch(r))
        /\ WF_vars(Receive(r))
        /\ \A i \in 1 .. Cardinality(Mints) : WF_vars(/\ i \in LegsOf(r)
                                     /\ \/ ReadBefore(r, i)
                                        \/ Route(r, i)
                                        \/ Simulates(r, i)
                                        \/ SimulationFails(r, i))

FairSpec == Spec /\ Fairness

\* A page that asked is answered, however often its routes fail.
RequestsAreAnswered ==
    \A r \in Requests : (request[r].step = "asked") ~> (request[r].step \in {"quoted", "over"})
=============================================================================
