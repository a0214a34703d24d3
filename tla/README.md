# Seametry: formal models

TLA+ models of Seametry's stateful core, the TLC runs that check them on small
instances, and theorems TLAPS proves for every instance. The modules follow the
code; where a document says something else, the code was modelled and the
difference is a run of its own (see *Where the code and its documents part*).

`PROJECT.json` lists components, runs, mutated definitions that each property
is known to catch, the source lines behind every definition (`map`), hazards and
theorems. To repeat the work, in this directory:

    tlc -workers 2 -config MCHallClaims.cfg MCHall      # any run: module + cfg
    tlapm HallProofs.tla                                # any *Proofs module

## The system and its parts

Seametry sells baskets of tokenised stocks on Solana. Its stateful systems are
the *Hall*, an on-chain program that holds constituents and issues shares; the
*purchase flow*, from a holder's plan through the prepare and submit routes to
an accepted transaction; the *browser execution engine*, which sends what was
signed and follows it to its end; *Execution*, the server's record of what
wallets traded; *Growth*, which turns that record into timelines; and the
*account service*, where wallets are signed in with and linked.

| Component | State | Operations | Hard behaviour | What makes it correct | Here |
|---|---|---|---|---|---|
| Hall program (`chain/programs/hall`) | per alloy: supply, legs (ledger, pending, unclaimed, vest, claim index and epoch); per wallet: shares, claims | initialize, create, redeem, withdraw, sync | issuers seize, donate, freeze, charge fees between any two instructions; rounding; vesting; stale claims | claims are covered and deliverable, melts never blocked, no dilution, no sudden lift | modelled |
| Activity record (`server/internal/execution/activity.go`, web `lib/activity.ts`) | quotes, legs, wallets, funnel steps, outbox | record quote, record submission, record step | reports lost, late, repeated, out of order | each change is told once, in order | partly |
| Settlement and import (`settle.go`, `import.go`) | chain outcome per leg, notices | reconcile loop, import from the fee account | two Gateways overlap in a deploy; stops; node reads lag or fail; forks | an answer is the chain's, is final, stands, and comes | partly |
| Timeline projection (`execution/outbox.go`, `growth/events.go`) | cursor, events | projection step, funnel retention | transactions commit out of order; overlapping projectors | nothing skipped, told in order, told at last | partly |
| Purchase flow (`app/allocation/flow.tsx`, `app/positions/positions.tsx`, web `lib/allocation`) | sheets, requests, quotes, prompts, records | choose, ask, prepare (read, route, simulate, retry), approve, sign, submit | answers awaited while sheets close, wallets switch, balances move, deployments change, blockhashes age | what is signed is paid for, was simulated, can land, and is recorded as what it is | partly |
| Browser execution engine (web `lib/execution`) | list in localStorage, each tab's copy, sends, ticks | approve and send, receive, read, judge, settle | two tabs, reloads, a late answer, a lagging node | an end is the chain's, is not undone, and comes | partly |
| Sign-in and wallet links (`server/auth/src`) | accounts, identities, wallet links, nonces, sessions | sign in, link, unlink | concurrent requests statement by statement, a stop between two | every account keeps a way in, no lost race leaves an account behind | partly |
| Growth's chain reader (`growth/hall.go`) | cursor, Hall transactions | page through a program's signatures | paging, early ends, overlap | nothing skipped | not modelled |
| Receipt ledger (`internal/receipt`) and anchoring (`anchor.go`) | serials, receipts, batches, keys, anchors, evidence files | allocate, issue, seal, register key, anchor | concurrent runs, a stop between memo, file and row | one batch per receipt, one anchor found again | not modelled |
| Rate-limited transport | token bucket | wait | callers that give up | rate never exceeded | not modelled |
| Policy, identity, registry, liquidity, Merkle trees, recipe twins, observation store, mail, other web pages | none of their own, or rows written by one statement | pure evaluation, presentation | none of order | data and wording | not modelled |

How they interact: a page asks the web routes to *prepare* legs (transactions
with a deadline block), hands the signed ones to the execution engine, and that
posts them to be *submitted* and watches the chain for what became of them. The
routes answer first and report to the Gateway afterwards, so a report can be
lost while its leg lands. The Gateway's settle loop asks the chain about every
unsettled leg and records the answer; an operator's import finds trades the
record missed. Each change writes a row of the outbox in the same transaction.
Growth's projector reads the outbox from a stored cursor and writes events with
the cursor in one transaction. The Hall is reached only by chain transactions,
and the account service shares nothing with the rest but the user's id.

## Modules

| Module | Models | Lines of the code |
|---|---|---|
| `HallRecipe` | the Hall's arithmetic: vesting, reconciliation, claims, strike and melt pricing | `hall/src/recipe.rs` |
| `Hall` (extends it) | one alloy: every instruction, and issuers, donors and share burners around it | `hall/src/instructions/*.rs` |
| `HallProperties`, `MCHall`, `HallProofs`, `HallClaimsProofs` | its properties, TLC instance and theorems (those about sums over wallets apart) | |
| `ActivityRecord` | leg rows, their outbox, reports with retries and losses | `activity.go`, `queries/execution/activity.sql`, web `lib/activity.ts` |
| `Settlement` (extends it) | the chain, the web routes, Gateways' passes, the import | `settle.go`, `import.go`, `queries/execution/settlement.sql`, `cmd/seametry/settle.go` |
| `TradeVerdicts` | the abstract specification: what settlement promises readers and the team | |
| `SettlementProperties`, `MCSettlement`, `SettlementProofs` | how far the code implements `TradeVerdicts`, other properties, TLC instance, theorems | |
| `Timeline` | transactions writing the outbox, projectors reading it | `outbox.go`, `growth/events.go`, `cmd/seametry/project.go`, migration `00005_outbox.sql` |
| `EventFeed` | the abstract specification: what a reader of an outbox is promised | |
| `TimelineProperties`, `TimelineProofs` | the refinement of `EventFeed`, other properties, theorems | |
| `AllocationRules` | splitting a spend, fee tiers, the tip's offset | web `lib/allocation/rules.ts`, `lib/amount.ts` |
| `Purchase` (extends it) | the two trading pages, the prepare routes, the submit route's acceptance | `flow.tsx`, `positions.tsx`, `lib/allocation/execution.ts`, `wallet-changes.ts`, `lib/execution/run.ts` |
| `PurchaseProperties`, `MCPurchase`, `PurchaseProofs` | its properties, TLC instance and theorems | |
| `BrowserExecution` | the shared list, sending, the watcher, the submit route and the chain around them | `lib/execution/{run,store,record,watcher,chain}.ts` |
| `BrowserProperties`, `MCBrowser`, `BrowserProofs` | its properties, TLC instance and theorems | |
| `Accounts` | sign-in, linking and unlinking as concurrent statements | `auth/src/solana-sign-in.mjs`, `account-routes.mjs` |
| `AccountsProperties`, `MCAccounts`, `AccountsProofs` | its properties, TLC instance and theorems | |
| `SumLemmas` | what folds, sums, quotients and ranks compute, for the Hall's and the purchase flow's proofs | |

Definitions commented as a *slip*, and a few that stand just before the
definition they vary (`SettlesAnyway`, `UnsettledSurely`, ...), are wrong on
purpose: each is a bug the code could have had, and `PROJECT.json` names the
property that finds it. Nothing else uses them.

### Hall

An instruction is a Solana transaction and runs whole or reverts, so each is one
action, and its guard is the conjunction of every check it makes. A Rust function that returns
`Result` is two operators: the value, and `...Accepts` for when it is not an
error. `MaxU64` bounds every checked operation, so the runs reach overflow.
What is not the program's is external: `Donate` and `Seize` move the token
account's balance, `ChangeStance` lets an issuer refuse transfers or charge a
fee, `BurnShares` burns through the token program, `Tick` moves the clock. Left
out: account addresses and Anchor's account checks (every action is given the
accounts the program requires); `i64` time and the epoch counter keep their
order only, and cannot overflow in any execution.

### Activity record and settlement

`rows[l]` is a row of `execution.legs`, `outbox[l]` the outbox rows written
about it in order (each change and its outbox row are one statement), `reports`
what the web routes still try to deliver. A report gets two attempts, is retried
after a lost answer or a 5xx and never after a 4xx; a lost answer may follow a
change that was made.

`pass[g]` is a Gateway's reconcile pass with every point where something else
can happen between two reads or writes: read the unsettled legs, ask all
statuses in one call, judge the legs one by one (the height is read once, at
the first unseen leg, with 0 for "not read"), write, count the wallet's landed
legs, finish. Each read and write may fail with the code's consequence: a leg
skipped, the pass ended early, a notice lost. `Stop` cuts a pass anywhere. The
chain is external: a leg enters a block not past its deadline, a block above the
confirmed height may be abandoned (`Fork`), status reads lag by `StatusLag`.

A wallet may add guards to the message it signs (`Alterable`, `altered`). Then
the digest the server recorded is not the one on chain, and an import writes a
*second* row for the same signature (`twins`); the submission report that comes
later breaks the signature's uniqueness. `SettledOnce` says what still holds.

`TradeVerdicts` says: a trade gets one verdict, in whatever row, which is its
fate once that is sealed, and the team hears that verdict or nothing. It is
instantiated with `fate <- Fates` (what confirmed blocks say, or dropped once no
block can hold the leg any more), `verdict <- Answers` (the answer in the leg's
row or its twin's) and `heard <- Announced`. The code does not implement it: a
pass reads the height after the statuses, and nothing bounds the time between
(`settlement_drops`). `GivesVerdicts` says how far it does: every step is a step
of `TradeVerdicts`, a stutter, or a `LateDrop`, the recording of a drop whose
height was read further after its status than margin and lag allow (`ReadInTime`).
For that alone a pass keeps the height at which it asked (`asked`); no action
reads it.

Each quote has one leg, all legs belong to one wallet, numbered in the order of
`submitted_at`; the browser sends a leg once. Left out: the wallets table
(`TouchWallet`), funnel steps, amounts and fees, the orphan quote an import can
leave, and paging through the fee account.

### Timeline

A transaction takes its id at its first write and a row its identity value at
insertion; neither waits for the commit. `Final` is the rows of transactions
older than every running one, the reader's `xid < pg_snapshot_xmin(...)`. A long
transaction that writes no outbox row is a writer that inserts nothing. A
step reads the cursor, reads the outbox, and writes events and cursor
atomically. Two projectors may move the cursor *backwards*: the code has no
guard against it. It is harmless, as events are keyed by their row and written
`ON CONFLICT DO NOTHING`, which is why `timeline` is a set. `Fail` is an error
or a stop. That the loop steps again at once after a full batch is timing only.

`EventFeed` says: what a reader may be given only grows at its end, and the
reader gets every event before any later one. `IsAFeed` refines it with
`published <- Final`, `told <- timeline`.

### Purchase flow

`sheet[s]` is what one surface shows (the basket page, the trade sheet, the
Sell All sheet) and `request[r]` one POST to a prepare route with its legs.
The page and the server are split where the code awaits: `Ask` sends, `Receive`
acts on the answer with whatever the page holds by then, `Approve` and `Sign`
are the two sides of the wallet's prompt. `Choose` and `Close` are free at every
moment the pages allow: a basket is locked from its request to its signature, a
sheet never is. On the server `StartBatch` checks the plan and the USDC of all
legs, then each leg goes through `ReadBefore` (balances and fee), `Route`
(Jupiter's build, the SOL it needs), and `Simulates` or `SimulationFails` in
any order with the others, and `FinishBatch` checks the SOL of all of them.
What Jupiter, the token rules and the simulator say is a free choice, refusal
included. A message is its trade, blockhash time, fee, tip and data limit:
what the code compares. `tested` keeps the message of the last simulation.
`Accepts` is `submitLeg`: the approval's digest binds the approved message and
the deployment that signed it. `Switch`, `Spend`, `Redeploy` and `Tick` are the
outside. Left out: the eligibility of a Sell All, prices shown, venue rules.

### Browser execution engine

`stored` is the list in localStorage, `cache[t]` a tab's copy, `notified` the
tabs a storage event has yet to reach. A list is `place` (the order, newest
first) and a phase per leg; records are cut at `KEPT`. `Commit` is every write:
whole list, own copy, others notified. `request[l]` is a POST as the tab sees
it, `server[l]` as the submit route does, so a broadcast may follow a lost
answer. A tick of the watcher reads the height, then the statuses, then settles
what is *still* open; ticks of an effect that is gone finish (`current`), so
several may overlap (`Slots`). `Reload` ends a tab's loops and keeps what the
server holds. The chain is external as in `Settlement`. The assumption
`StatusLag <= DROP_MARGIN_BLOCKS + 1` is the code's own, in `record.ts`: a
status read lags by less than the margin. Left out: the history the server
serves, Activity's marks beyond the write they cause, the wording of errors.

### Accounts

`attempt[n]` is a sign-in with nonce `n`, one step per statement: consume the
nonce, look up the wallet's owner, find or make the user, claim the wallet,
yield if another claimed it first, ensure the identity row, open the session.
`unlinking[t]` is the one operation in a transaction: `Lock` is its
`FOR UPDATE` on the account's links, `Commit` counts under that lock and
deletes. `email` keeps the wallet whose address the account's unique email is
made of, also after that wallet is unlinked, as the code does. Better Auth and
Postgres are external: deleting a user takes its rows (foreign keys), ids are
never reused, and `createUser` fails on an email that is taken. `Stop` ends a
request between two statements. Left out: tokens, rate limits, mail, and Better
Auth's own routes. One of those, which `auth.mjs` does not disable, unlinks a
Google identity; no action does, so `KeepsAWayIn` and its theorem are about
wallet unlinks, claims, sign-ins and account deletions only.

## What the runs check

| Run | Instance | Shows |
|---|---|---|
| `hall_claims` | 2 wallets, 1 constituent, `MaxU64` 4, issuers open, refusing or charging, a share burnt, no clock, a second claim epoch | claims settled now never exceed what is set aside (`ClaimsCovered`) and can be withdrawn whole (`ClaimsDeliverable`); no error path of sync or settle is reachable; melts are never refused; no dilution; a claim falls only by what its owner is paid; a written leg expects what the account holds |
| `hall_vesting` | 1 wallet, window 4, clock to 5 | no balance lifts a leg twice in an instant; a donation's pace; pending lasts to the end of its vest |
| `settlement_races` | 2 legs of a wallet, one from its quote on and altered or not, one just confirmed; 2 attempts, 2 Gateways, an import, a stop, forks | outbox, row and chain agree; settled once; no answer replaced; notices tell the record, once; at most one first trade; a verdict is the trade's fate (`TradeVerdicts`), late drops apart |
| `settlement_drops` | 1 leg, 1 Gateway, margin 2 | *violation*, below |
| `settlement_live` | 2 legs, one read per pass, failures, a stop | every sent leg the record knows is settled in the end |
| `timeline` | 2 writers, 2 projectors, batch 2, 3 transactions, 4 rows | nothing skipped, the refinement, every published event told in the end |
| `browser_tabs` | 2 tabs, 1 leg, 2 ticks of a tab at once, 3 blocks, a reload | an end any tab shows is the chain's; quiet tabs agree; an up-to-date tab undoes no end |
| `browser_page` | 1 tab, 2 executions (one for Sender, one for the RPC), 1 kept | only the oldest record is cut; every leg ends, also those a reload left unsent |
| `purchase` | a basket page and a trade sheet, 2 wallets, 2 mints, one request, one outside change | a basket is paid for together, a fee and a split add up, what is accepted was simulated and can land, it is recorded for the wallet that signed, and every request is answered |
| `purchase_sheets` | the trade and Sell All sheets, one holding bought or sold | *violation*, below |
| `accounts` | 2 wallets, 2 users, 3 sign-ins, 2 unlinks, a Google account, a stop | a lost race leaves no account behind; no account loses its last way in |
| `accounts_lockout` | 2 wallets, 2 sign-ins, 1 unlink | *violation*, below |

**Bounds.** Every bound is a constant whose comment says *bound*, and stands in a
guard or an enumerated set. The Hall's amounts stop at 4 because claims, the index and the vest are
all quotients of small numbers there: rounding to zero, an index that hits zero
(a new epoch), full seizures and overflow all happen at 4. `ClaimOne` 4 gives the
index values between one and none. Two wallets are what claims need
to compete; constituents meet only in the conjunction of a melt's checks, so one is run. The vesting clock
passes the window by one tick, so a vest is seen before, at and after its end. Two
Gateways are the number that overlaps in a deploy. `MaxHeight` lets a
leg be prepared, land or expire, and pass the margin (0 to 2 blocks for 20:
only the comparison at the margin matters). `settlement_races` has margin 0 and
lag 1, so a drop decided at the margin instead of past it is a wrong verdict; it starts
where the wallet's second leg has been submitted, reported and just confirmed (`AfterOneLanded`),
as both legs from their quotes on do not fit, and has one stop, in either Gateway. Three transactions over two writers
give every commit order with one still open, four rows give a full batch of two
that ends inside a transaction. In the browser runs the margin is 0 and the lag
1, the largest the assumption allows, so the comparison at the margin decides;
3 blocks let a leg expire or land and pass it; a tab has two ticks at once in
`browser_tabs`, as after its effect has run again, and one in `browser_page`; two tabs and one leg are what a
lost write needs, and a list that keeps one record of two what a cut needs.
A purchase spends 2667 atoms on two mints evenly or 40/60, so that both splits
leave a remainder and the tip's offset is rounded; each wallet holds 6
lamports, enough for one leg with everything and not always for two; time runs
to 2, past a signing window of 1. One change around it (a switch, spending or a
deployment) may come between any two steps, and balances change only while a
request of their wallet is prepared, the only time they are read. Three
sign-ins over two wallets give two of one wallet beside one of another; two
unlinks are what a last-wallet race needs. Deadlock checking is off in every cfg since a bounded
clock, chain or outbox really stops. Symmetry is used for wallets, Gateways,
tabs, ticks, users, nonces and unlinks in safety runs only.

**Fairness.** The settle loop and the projection loop are tickers that run as
long as the Gateway does, and a stopped Gateway is started again: weak fairness
on their first step and on steps that only compute. A remote read or a database
write can fail any number of times but not for ever: strong fairness on asking
statuses, reading the height or a transaction, settling, and on a projector's
reads and writes. The chain grows (weak fairness on `Grow`), with none on
landing. Every database transaction ends (weak fairness on commit or abort);
without it the timeline does stall, which is a hazard of its own.

In the browser the page stays open or is opened again, React renders what
changed, a storage event is delivered and the watcher's timer fires: weak
fairness on those, and strong fairness on its reads, which may fail any number
of times but not for ever. Nothing obliges a wallet to sign, a queued leg to be
posted, an answer to arrive or a leg to land: `EveryLegEnds` needs none of it.
A prepare route's outward requests have timeouts, so each server step is taken
or refused (weak fairness), and the page receives what was answered.

## Where the code and its documents part

Each of these is a run that ends in a counterexample; `PROJECT.json` quotes the lines.

- `settlement_drops`: "dropped legs reached no block and moved nothing", the
  team is told (`notices.go:100`), and a leg is dropped "once its deadline has
  passed unseen" (`settle.go:76-78`). A pass reads its statuses at `settle.go:93` and the
  height at `settle.go:109`, after a read for each confirmed leg before the
  first unseen one. A leg that lands in between is recorded as dropped, for good,
  if the height has then passed its deadline by the margin of 20 blocks. The
  browser's judge reads the two in the other order and says why
  (`record.ts:124-128`).
- `purchase_sheets`: a quote that arrives after its sheet was turned from buying
  a holding to selling it, or back, is shown there and then approved and
  recorded under the new direction. A basket locks its plan while it waits
  (`BasketsAreTheWallets`); the sheets do not. A sheet closed and opened on
  another holding gives the late quote that holding's name by the same lines
  (`positions.tsx:183-196, 212-225`); the run's trace has one holding.
- `accounts_lockout`: an account made by signing in with wallet A has an email
  made of A. Link B, unlink A: A is nobody's, and a wallet nobody owns is
  promised an account of its own, but making it fails on the email.

**Observations** met while modelling, read from the code and without a run:

- `recipe.rs:154`: a donation joins a remainder and vests by the averaged end,
  so its own units may vest faster than alone; `DonationPace` states the rate
  that does hold.
- `settlement.sql:54-57`: an import of a trade whose submission report was lost
  conflicts with the unsigned row and changes nothing; that trade never settles.
- `settle.go:158`: two overlapping passes may each settle one of a wallet's first
  legs before either counts; then no first trade is announced (`OneFirstTrade`
  says only that there is at most one).
- `record.ts:132` calls a leg failed on an error at any confirmation, and the
  block may still be abandoned; `EndsAreTheChains` therefore says nothing of failed.
- `positions.tsx:84` closes over the wallet of the last render, so the check in
  `run.ts:92` compares a sheet's wallet with itself; only the basket page reads
  the wallet now connected. A record may then name a wallet that signed nothing;
  `BasketsAreTheWallets` is about baskets for that reason.
- `execution.ts:508` prepares several sales without a check that the wallet has
  the SOL for all of them; `AnsweredIsCovered` is about purchases.
- A sale in flight is not subtracted from what Sell All offers.

## What is proved

TLAPS checks these for every value of the constants that the named assumptions
allow (`RecipeAssumption` and `HallAssumption`: limits are positive, wallets
finitely many; `RecordAssumption` and `SettlementAssumption`: finitely many legs,
natural bounds; `TimelineAssumption`: a positive batch; `BrowserAssumption`:
natural bounds, a lag the margin allows for; `AccountsAssumption`: finitely many
wallets; `PurchaseAssumption`, below), so for any number of wallets,
constituents, Gateways, projectors, tabs, sign-ins, legs and any margin. Every
safety property that a passing run checks is proved; each inductive invariant
below holds in TLC too on the component's instances (`ClaimsInv` with its `k`
up to 6).

- **Hall, reconciliation** (`HallProofs`): `TypeCorrect`, `ReconcileNeverFails`,
  `LegsBalance`, `SharesNeverDiluted`. "No error path is reachable" is not inductive: a claim
  left alone must stay settleable while its leg goes through seizures and
  epochs. `ReconcileInv` adds that a leg expects at most `MaxU64` and that each
  claim is settleable against its leg as written; `SyncFacts` shows that a sync
  never lowers the epoch, never raises the index within one, and ends expecting
  exactly the balance, and `SettleLater` carries a claim over it. The floor
  and ceiling arithmetic is in lemmas (`DivFloor`, `DeficitSplits`, ...) used
  by name. Dilution follows from the two rounding directions.
- **Hall, vesting** (`HallProofs`): `PendingIsNeverVestedEarly`,
  `NothingLiftsWithinAnInstant`, `DonationsVestAtTheirPace`. `VestTimes` adds
  that no vest starts in the future or ends more than a window from now. A leg
  just synced is at rest (`Rests`: what is pending starts vesting now and ends
  later), so a surplus in the same instant finds nothing elapsed. A fraction
  vested is rounded down, so something is left until the end; the averaged end
  is rounded up, which is what the pace of a donation rests on.
- **Hall, claims** (`HallClaimsProofs`): `ClaimsAreCovered`,
  `ClaimsAreDeliverable`, `MeltIsNeverBlocked`, `ClaimsFallByPayment`,
  `SharesAreIssued`. That the claims fit what is set aside is not inductive:
  each is rounded down by itself, and a deficit that shrinks the leg by a factor
  may shrink rounded claims by less. `ClaimsInv` speaks of
  exact worths instead, in integers: for every `k`, the claims taken `k` times
  and only then rounded fit `k` times what is set aside (`Worth`, `Covers`).
  A sync keeps that (`shrink_claims` rounds the index down), a melt adds the same
  units to both sides, a withdrawal takes at least as much worth as it pays;
  `k = 1` is the property. A melt's checks need that no wallet holds more shares than
  were issued (`SharesIssued`). Wallets are assumed finitely many, since the
  sum means nothing otherwise.
- **Settlement** (`SettlementProofs`): `SettlementTypeCorrect`,
  `OutboxAlwaysTellsTheRow`, `AnswersAreAlwaysTheChains`, `AlwaysSettledOnce`,
  `FirstAnswerAlwaysStands`, `SettledIsAlwaysFinal` (what the chain does after an
  answer changes nothing about it; no run repeats it). `SettlementInv` adds what a
  row may be (`RowsSound`), that a block never holds a leg past its deadline
  (`LegsSound`), that a pass's confirmed statuses and its answer hold now
  although they were read earlier (`PassSound`), the same for an import
  (`ImportSound`), and that a twin's own row has no signature (`TwinsSound`).
  That an answer survives the time between read and write rests on two facts:
  confirmed blocks are not abandoned, and heights only grow.
  Of the notices, `NoticesAlwaysTellTheRecord` and `AlwaysOneFirstTrade`:
  `NoticesInv` says that a leg whose wallet is being counted is settled, told by
  nobody yet and counted by this pass alone (`CountingSound`), and that whoever
  is announced first landed (`FirstSound`). A count of one then means that the
  counted leg is the only landed row (`OneLandedRow`), so nobody was told first
  before; `NextKeepsAnswers` keeps the answer until the notice is posted.
  `SettlementGivesVerdicts` relates it to `TradeVerdicts`, action by
  action: a block, a fork, a preparation or a broadcast is `Decide` or a stutter
  (`FateIsFinal`: nothing replaces a fate); settling a leg and importing a trade
  are `GiveVerdict`, as the answer in hand is that leg's fate (`AnswerIsFate`),
  and, for an import, the trade had none; only the end of
  a pass is `Hear` (`FinishPassIsHeard`). For a drop this takes `ReadingsInv`: a
  leg a pass has not seen is in no block, or in one too new to be seen when it
  asked, and a drop in hand is past its deadline by the margin. If the height
  was read in time, the two leave no block for the leg (`InTimeIsInNoBlock`);
  if not, the step is a `LateDrop`. `PromptSettlementGivesVerdicts` is the
  corollary: a settlement that takes no such step implements `TradeVerdicts`.
- **Timeline** (`TimelineProofs`): `TimelineTypeCorrect`, `NothingIsEverSkipped`,
  `ProjectionIsAFeed` (the refinement). `TimelineInv` says that the cursor, and
  every projector's stale copy of it, is at a place no row can appear at or
  before any more (`Passed`), and that a batch follows its cursor without a gap
  (`StepSound`), so that writing an old batch after a newer one tells nothing
  out of order.
- **Browser** (`BrowserProofs`): `BrowserTypeCorrect`, `EndsAreAlwaysTheChains`,
  `TabsAlwaysAgree`, `EndsAlwaysStand`, `OnlyTheOldestIsEverCut`. That ends are the chain's is not
  inductive: a reading is made in one step and used later, by a tick whose
  effect may be gone, on a list that may have changed. `BrowserInv` says that
  every end, in storage, in each tab and in each pending reading, is `Certain`:
  it holds and will (`CertainStays`); that nothing is known of a leg no tab has
  asked for (`Fresh`), so no stale reading can end a new one; and that a leg
  refused was never in the route's hands (`LegSound`). `JudgementIsCertain` is
  where the order height-then-status and the margin are needed. For the cut,
  `OrderInv` says that the places of each list, stored or cached, are `1 .. n` for some `n` up to
  `KEPT`, and that only what was asked for is listed; `PlacesCount` counts the
  records above a place by a bijection, so what a write drops was the last of
  `KEPT` (`CutIsTheOldest`).
- **Accounts** (`AccountsProofs`): `AccountsTypeCorrect`, `NobodyIsStranded`,
  `AWayInIsKept`. `AccountsInv` adds that an account being made is known to its
  sign-in and to nobody else (`MadeSound`), so deleting it in `yield` takes
  nothing of anybody's; that what an unlink counted under its lock is still
  linked (`LockSound`), which claims may only add to; and which attempts may
  still explain an account without a way in (`WaysIn`).
- **Purchase** (`PurchaseProofs`): `PurchaseTypeCorrect`, `AcceptedWasSimulated`,
  `AcceptedLands`, `AnsweredIsAlwaysCovered`, `BasketsAreAlwaysTheWallets`, `PlansAlwaysAddUp`. From
  the moment a page asks to the moment a leg is posted, five parties act in any
  order, so `PurchaseInv` carries what each step leaves to the next: a leg knows
  what its message needs and, once ready, that it was simulated as it is
  (`LegSound`); an answer holds ready legs only (`RequestSound`); what a sheet
  shows and a prompt asks about is quoted, and no longer changes (`SheetSound`,
  `PromptSound`); what was signed is shown and prompted nowhere any more, and
  each of its messages is one the wallet may return (`RecordSound`); a post is
  of something signed and, if accepted, in its window (`PostSound`). `Frame`
  says that a step which only moves requests not yet quoted keeps all of it.
  `PurchaseAssumption` asks for a wallet, plans that name an amount per lot, and
  `SIGNING_WINDOW <= BLOCKHASH_LIFE`, which only `AcceptedLands` uses.
  `PlansAlwaysAddUp` is about `splitByWeights` and the fee: the floored shares
  fall short of the total by fewer atoms than there are shares, one atom goes to
  each rank below the remainder, and ranks are a permutation, so the split sums
  to the total for every list of weights that is not all zeros. What a tip takes off the fee is rounded
  up to basis points and the fee itself down, so both together stay within the
  tier; `PlansInv` carries the sum and the fee charged from the page to every
  leg of the request.

**Sums.** `SumLemmas` gets what a sum over a finite set is from the recursive
function it is defined by, with `<` on the naturals well-founded as the one
induction: the sum of an empty set and with one more element, of a changed function, of two
functions, bounds, the sum of a sequence, and how many elements lie below a rank.

**Model-checked only.** The liveness properties `EverySentLegIsSettled`,
`EveryEventIsTold`, `EveryLegEnds` and `RequestsAreAnswered`: they rest on
fairness and `ENABLED`, which TLAPS does not handle here. The three properties the code violates
have no theorem, naturally.

## What is not modelled

Pure evaluation (policy, identity, liquidity, registry), hashing and canonical
encoding (receipt documents, Merkle trees), presentation and mail
carry no interleaving of their own. The Go and TypeScript copies of the
Hall's arithmetic are held to the Rust by shared vectors in the repository;
the model is translated from the Rust. Read-only reports have no state. Of the
TypeScript most lines are components, drawings, isometric scenes and
documentation pages: nothing there is a state machine, which is why the modelled
share of those lines is small although every TypeScript module that changes
shared state on the way from a plan to a settled leg is modelled, and most of
the modelled Rust, Go and SQL is not counted among them.

The receipt ledger, anchoring, Growth's chain reader and the transport's
limiter do have state. The first three are run by hand or by one process at a
time, and their hazards are listed in `PROJECT.json` with their lines. The limiter's is
one token count, read and written in one critical section; no hazard of it is listed.

## Plan

What was planned and is done: the Hall, the record with settlement and import,
the timeline, the browser's engine, the purchase flow, the account service.
Worth doing next, in this order:

1. `ReceiptLedger` with anchoring, as concurrent transactions and a stop between
   memo, file and row; abstractly, a list of batches that places a receipt once.
2. The chain reader's paging; `TouchWallet`; retention of funnel events.
3. Abstract specifications of the purchase flow (a holder gets what was shown or
   nothing) and of the Hall's claims (an account per wallet that only seizures
   shrink), with the proofs that `Purchase` and `Hall` implement them.
