----------------------------- MODULE Settlement -----------------------------
(* How a sent leg is settled (server/internal/execution/settle.go and         *)
(* import.go, server/cmd/seametry/settle.go): each Gateway's loop reads the   *)
(* unsettled legs, asks the chain about all of them at once, reads the block  *)
(* height at the first one the chain has not seen, and writes the answers one *)
(* by one; the import writes trades found only on chain.  Two Gateways run    *)
(* side by side while a deploy overlaps, either may stop at any step, and the *)
(* chain, the web routes and their reports move between any two steps.        *)
EXTENDS ActivityRecord

CONSTANTS
    Gateways,       \* the processes running the settle loop
    Limit,          \* legs one pass reads (256 in settlement.sql)
    DropMargin,     \* DropMarginBlocks
    BlockhashLife,  \* blocks a prepared leg stays valid (external)
    StatusLag,      \* blocks a status read may lag the chain (external)
    Alterable,      \* the legs whose wallet may change the message it signs (external)
    MaxHeight,      \* bound: the chain stops growing here
    MaxStops,       \* bound: how often a Gateway is stopped mid-pass
    MaxImports      \* bound: how many legs imports are run for

ASSUME SettlementAssumption ==
    /\ Limit \in Nat \ {0}
    /\ MaxHeight \in Nat \ {0}
    /\ Alterable \subseteq Legs
    /\ {DropMargin, BlockhashLife, StatusLag, MaxStops, MaxImports} \subseteq Nat

VARIABLES
    web,            \* per leg: how far the browser and the web routes are
    lastValid,      \* per leg: last_valid_block_height
    altered,        \* the legs whose wallet changed the message it signed
    height,         \* the chain's confirmed block height
    landing,        \* per leg: the block it is in and whether it failed there
    broadcast,      \* the legs that reached the cluster
    pass,           \* per Gateway: the reconcile pass it is in
    notices,        \* what the team has been told
    importing,      \* the leg importOne is between its check and its write of
    imported,       \* the legs some import counted as Imported
    stops           \* how many passes were cut short

chainVars == <<height, landing, broadcast>>
webVars   == <<web, lastValid, altered>>
vars == <<recordVars, chainVars, webVars, pass, notices, importing, imported, stops>>

-----------------------------------------------------------------------------
(* The chain, as the code in src/ uses it.  A block above the confirmed       *)
(* height is still only processed and may be abandoned.                       *)

\* No leg, where a pass or an import is between two.
NoLeg == 0

\* Where a leg that is in no block is.
NotIn == [block |-> 0, err |-> FALSE]

Status(l) == CASE landing[l] = NotIn -> "unseen"
               [] landing[l].block > height -> "processed"
               [] OTHER -> "confirmed"

\* What getSignatureStatuses may answer: a read may lag the chain.
StatusAnswers(l) ==
    {Status(l)} \union {s \in {"unseen"} : landing[l].block + StatusLag > height}

Grow ==
    /\ height < MaxHeight
    /\ height' = height + 1
    /\ UNCHANGED <<landing, broadcast, recordVars, webVars, pass, notices,
                   importing, imported, stops>>

\* A block past a leg's last valid height never holds it.
Land(l) ==
    /\ l \in broadcast
    /\ landing[l] = NotIn
    /\ \E b \in height + 1 .. lastValid[l], err \in BOOLEAN :
           landing' = [landing EXCEPT ![l] = [block |-> b, err |-> err]]
    /\ UNCHANGED <<height, broadcast, recordVars, webVars, pass, notices,
                   importing, imported, stops>>

Fork(l) ==
    /\ Status(l) = "processed"
    /\ landing' = [landing EXCEPT ![l] = NotIn]
    /\ UNCHANGED <<height, broadcast, recordVars, webVars, pass, notices,
                   importing, imported, stops>>

-----------------------------------------------------------------------------
(* The web routes: prepare and submit, each reporting after it has answered.  *)

\* Bounded by MaxHeight: a leg's deadline passes before the chain stops growing.
Prepare(l) ==
    /\ web[l] = "new"
    /\ height + BlockhashLife + DropMargin < MaxHeight
    /\ web' = [web EXCEPT ![l] = "prepared"]
    /\ lastValid' = [lastValid EXCEPT ![l] = height + BlockhashLife]
    /\ reports' = reports \union {Report("quote", l, "none")}
    /\ UNCHANGED <<rowVars, altered, chainVars, pass, notices, importing, imported, stops>>

\* An uncertain submission is one whose answer was lost: it may have arrived.
\* What the wallet signed may carry guards and another compute budget than what
\* was approved; the report names the approved message all the same.
Submit(l) ==
    /\ web[l] = "prepared"
    /\ web' = [web EXCEPT ![l] = "submitted"]
    /\ altered' \in {altered, altered \union ({l} \intersect Alterable)}
    /\ \E result \in Results :
        /\ reports' = reports \union {Report("submission", l, result)}
        /\ \/ result # "refused_not_sent" /\ broadcast' = broadcast \union {l}
           \/ result # "sent" /\ UNCHANGED broadcast
    /\ UNCHANGED <<rowVars, lastValid, height, landing, pass, notices,
                   importing, imported, stops>>

Deliver ==
    /\ \E m \in reports : DeliverQuote(m) \/ DeliverSubmission(m) \/ LoseReport(m)
    /\ UNCHANGED <<chainVars, webVars, pass, notices, importing, imported, stops>>

-----------------------------------------------------------------------------
(* Reconcile.  A pass is "idle", has "read" the unsettled legs, is "judging"  *)
(* them against the statuses it was given, is "writing" the answer for the    *)
(* first of them, or is "counting" the wallet's landed legs.  What height the *)
(* chain had when the statuses were asked for is kept as history: the code    *)
(* does not know it and no action reads it.                                   *)

Idle == [step |-> "idle", todo |-> {}, statuses |-> [l \in Legs |-> "unseen"],
         height |-> 0, asked |-> 0, leg |-> NoLeg, answer |-> "none", settled |-> {}]
Settlements == [leg: Legs, outcome: Outcomes, first: BOOLEAN]

UnsettledSurely == {l \in Legs : /\ rows[l].signature
                                 /\ rows[l].chain_outcome = "none"
                                 /\ rows[l].submit_result = "sent"}

Unsettled == {l \in Legs : /\ rows[l].signature
                           /\ rows[l].chain_outcome = "none"
                           /\ rows[l].submit_result # "refused_not_sent"}
Oldest(S) == {l \in S : Cardinality({m \in S : m < l}) < Limit}

ReadUnsettled(g) ==
    /\ pass[g].step = "idle"
    /\ Unsettled # {}
    /\ pass' = [pass EXCEPT ![g] = [@ EXCEPT !.step = "read", !.todo = Oldest(Unsettled)]]
    /\ UNCHANGED <<recordVars, chainVars, webVars, notices, importing, imported, stops>>

\* One call for every leg of the pass.
AskStatuses(g) ==
    /\ pass[g].step = "read"
    /\ \E answers \in [Legs -> {"unseen", "processed", "confirmed"}] :
        /\ \A l \in Legs : IF l \in pass[g].todo THEN answers[l] \in StatusAnswers(l)
                                                 ELSE answers[l] = "unseen"
        /\ pass' = [pass EXCEPT ![g] = [@ EXCEPT !.step = "judging", !.statuses = answers,
                                               !.asked = height]]
    /\ UNCHANGED <<recordVars, chainVars, webVars, notices, importing, imported, stops>>

\* The legs are taken in the order they were read.
Judging(g, l) ==
    /\ pass[g].step = "judging"
    /\ l \in pass[g].todo
    /\ \A m \in pass[g].todo : l <= m

\* On to the next leg: this one's status and answer are not read again.
Skipped(p, l) == [p EXCEPT !.step = "judging", !.todo = @ \ {l},
                           !.statuses[l] = "unseen", !.leg = NoLeg, !.answer = "none"]
Answering(p, l, outcome) ==
    [p EXCEPT !.step = "writing", !.leg = l, !.answer = outcome]

AtTheDeadline(h, l) == h >= lastValid[l] + DropMargin

PastDeadline(h, l) == h > lastValid[l] + DropMargin

\* The height is read once a pass, at the first leg the chain has not seen.
JudgeUnseen(g, l) ==
    /\ Judging(g, l)
    /\ pass[g].statuses[l] = "unseen"
    /\ LET h == IF pass[g].height = 0 THEN height ELSE pass[g].height
           p == [pass[g] EXCEPT !.height = h]
       IN  pass' = [pass EXCEPT ![g] = IF PastDeadline(h, l) THEN Answering(p, l, "dropped")
                                                              ELSE Skipped(p, l)]
    /\ UNCHANGED <<recordVars, chainVars, webVars, notices, importing, imported, stops>>

Landed(l) == "landed"

\* What the transaction, once read, says of its leg.
Outcome(l) == IF landing[l].err THEN "failed" ELSE "landed"

SkipUnconfirmed(g, l) ==
    /\ Judging(g, l)
    /\ pass[g].statuses[l] = "processed"
    /\ pass' = [pass EXCEPT ![g] = Skipped(@, l)]
    /\ UNCHANGED <<recordVars, chainVars, webVars, notices, importing, imported, stops>>

ReadTransaction(g, l) ==
    /\ Judging(g, l)
    /\ pass[g].statuses[l] = "confirmed"
    /\ pass' = [pass EXCEPT ![g] = Answering(@, l, Outcome(l))]
    /\ UNCHANGED <<recordVars, chainVars, webVars, notices, importing, imported, stops>>

\* The read failed, or the node has the status and not yet the transaction.
MissTransaction(g, l) ==
    /\ Judging(g, l)
    /\ pass[g].statuses[l] = "confirmed"
    /\ pass' = [pass EXCEPT ![g] = Skipped(@, l)]
    /\ UNCHANGED <<recordVars, chainVars, webVars, notices, importing, imported, stops>>

-----------------------------------------------------------------------------
\* The condition of SettleLeg's UPDATE: only an unsettled leg is settled.
SettlesAnyway(l) == TRUE

StillUnsettled(l) == rows[l].chain_outcome = "none"

Heard(p, l, first) ==
    [Skipped(p, l) EXCEPT
        !.settled = @ \union {[leg |-> l, outcome |-> p.answer, first |-> first]}]

SettleLeg(g) ==
    /\ pass[g].step = "writing"
    /\ LET l == pass[g].leg
       IN  IF StillUnsettled(l)
             THEN /\ rows' = [rows EXCEPT ![l].chain_outcome = pass[g].answer]
                  /\ Tell(l, "settled")
                  /\ pass' = [pass EXCEPT ![g] =
                                 IF @.answer = "landed" THEN [@ EXCEPT !.step = "counting"]
                                                        ELSE Heard(@, l, FALSE)]
             ELSE /\ pass' = [pass EXCEPT ![g] = Skipped(@, l)]
                  /\ UNCHANGED <<rows, outbox>>
    /\ UNCHANGED <<twins, reports, chainVars, webVars, notices, importing, imported, stops>>

\* The write failed; the leg is asked about again next pass.
MissSettleLeg(g) ==
    /\ pass[g].step = "writing"
    /\ pass' = [pass EXCEPT ![g] = Skipped(@, @.leg)]
    /\ UNCHANGED <<recordVars, chainVars, webVars, notices, importing, imported, stops>>

\* The rows of the wallet's landed legs: a leg's own, and a second one.
LandedRows == {l \in Legs : rows[l].chain_outcome = "landed"}

FirstUnlessCounted == LandedRows # {}

IsFirstLanded == Cardinality(LandedRows) + Cardinality(twins) = 1

\* LandedLegsForWallet, a query of its own after the leg is settled; when it
\* fails, the leg is not called a first.
CountLanded(g) ==
    /\ pass[g].step = "counting"
    /\ \E first \in {IsFirstLanded, FALSE} :
           pass' = [pass EXCEPT ![g] = Heard(@, @.leg, first)]
    /\ UNCHANGED <<recordVars, chainVars, webVars, notices, importing, imported, stops>>

-----------------------------------------------------------------------------
\* worthANotice: a leg that did not land, or the wallet's first that did.
Worth(S) == {s \in S : s.outcome # "landed" \/ s.first}

\* The pass is over: no leg is left, or the block height could not be read.
\* A notice that could not be kept is logged and gone.
FinishPass(g) ==
    /\ pass[g].step = "judging"
    /\ \/ pass[g].todo = {}
       \/ /\ \E l \in Legs : Judging(g, l) /\ pass[g].statuses[l] = "unseen"
          /\ pass[g].height = 0
    /\ pass' = [pass EXCEPT ![g] = Idle]
    /\ notices' \in {notices \union Worth(pass[g].settled), notices}
    /\ UNCHANGED <<recordVars, chainVars, webVars, importing, imported, stops>>

\* The statuses could not be read: nothing was settled.
MissStatuses(g) ==
    /\ pass[g].step = "read"
    /\ pass' = [pass EXCEPT ![g] = Idle]
    /\ UNCHANGED <<recordVars, chainVars, webVars, notices, importing, imported, stops>>

\* The Gateway stops in the middle of a pass: what it settled is settled, and
\* what it would have told the team is gone.
Stop(g) ==
    /\ pass[g].step # "idle"
    /\ stops < MaxStops
    /\ pass' = [pass EXCEPT ![g] = Idle]
    /\ stops' = stops + 1
    /\ UNCHANGED <<recordVars, chainVars, webVars, notices, importing, imported>>

-----------------------------------------------------------------------------
(* ImportFromFeeAccount, one trade at a time: importOne looks for a leg with  *)
(* the signature, reads the transaction, and writes a row of its own.         *)

StartImport(l) ==
    /\ importing = NoLeg
    /\ Cardinality(imported) < MaxImports
    /\ Status(l) = "confirmed"
    /\ ~ landing[l].err
    /\ ~ rows[l].signature
    /\ l \notin twins
    /\ importing' = l
    /\ UNCHANGED <<recordVars, chainVars, webVars, pass, notices, imported, stops>>

ImportedRow == [source |-> "chain", signature |-> TRUE,
                submit_result |-> "sent", chain_outcome |-> "landed"]

ImportConflictsOnIdOnly(l) == rows[l].source = "chain" \/ l \in twins

ImportConflictsOnMessage(l) == IF l \in altered THEN l \in twins ELSE rows[l].source # "none"

\* ON CONFLICT DO NOTHING: the id, the signature or the message is recorded.  An
\* altered leg's message on chain is not the one its server row was given.
ImportConflicts(l) ==
    \/ rows[l].source # "none" /\ l \notin altered
    \/ rows[l].signature
    \/ l \in twins

\* The imported trade's row: the leg's own, or a second one when the leg's row,
\* already there or still to come, is under the message before it was altered.
InsertImportedLeg(l) ==
    IF l \in altered
      THEN /\ twins' = twins \union {l}
           /\ UNCHANGED <<rows, outbox>>
      ELSE /\ rows' = [rows EXCEPT ![l] = ImportedRow]
           /\ Tell(l, "settled")
           /\ UNCHANGED twins

WriteImport ==
    /\ importing # NoLeg
    /\ IF ImportConflicts(importing)
         THEN UNCHANGED rowVars
         ELSE InsertImportedLeg(importing)
    /\ imported' = imported \union {importing}
    /\ importing' = NoLeg
    /\ UNCHANGED <<reports, chainVars, webVars, pass, notices, stops>>

StopImport ==
    /\ importing # NoLeg
    /\ importing' = NoLeg
    /\ UNCHANGED <<recordVars, chainVars, webVars, pass, notices, imported, stops>>

-----------------------------------------------------------------------------
Init ==
    /\ InitRecord
    /\ web = [l \in Legs |-> "new"]
    /\ lastValid = [l \in Legs |-> 0]
    /\ altered = {}
    /\ height = 1
    /\ landing = [l \in Legs |-> NotIn]
    /\ broadcast = {}
    /\ pass = [g \in Gateways |-> Idle]
    /\ notices = {}
    /\ importing = NoLeg
    /\ imported = {}
    /\ stops = 0

PassStep(g) ==
    \/ ReadUnsettled(g) \/ AskStatuses(g) \/ MissStatuses(g)
    \/ \E l \in Legs : \/ JudgeUnseen(g, l) \/ SkipUnconfirmed(g, l)
                       \/ ReadTransaction(g, l) \/ MissTransaction(g, l)
    \/ SettleLeg(g) \/ MissSettleLeg(g) \/ CountLanded(g)
    \/ FinishPass(g) \/ Stop(g)

Next ==
    \/ Grow
    \/ \E l \in Legs : Land(l) \/ Fork(l) \/ Prepare(l) \/ Submit(l) \/ StartImport(l)
    \/ Deliver
    \/ \E g \in Gateways : PassStep(g)
    \/ WriteImport
    \/ StopImport

Spec == Init /\ [][Next]_vars
=============================================================================
