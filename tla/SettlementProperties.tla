------------------------ MODULE SettlementProperties ------------------------
(* What the activity record promises about settlement, whatever order passes, *)
(* imports, reports and the chain take their steps in.                        *)
EXTENDS Settlement

Passes == [step: {"idle", "read", "judging", "writing", "counting"},
           todo: SUBSET Legs,
           statuses: [Legs -> {"unseen", "processed", "confirmed"}],
           height: 0 .. MaxHeight, asked: 0 .. MaxHeight, leg: Legs \union {NoLeg},
           answer: Outcomes \union {"none"}, settled: SUBSET Settlements]

RecordTypeOK ==
    /\ rows \in [Legs -> Rows]
    /\ outbox \in [Legs -> Seq({"quoted", "sent", "settled"})]
    /\ twins \subseteq Legs
    /\ reports \subseteq Reports

ChainTypeOK ==
    /\ height \in 1 .. MaxHeight
    /\ landing \in [Legs -> [block: Nat, err: BOOLEAN]]
    /\ broadcast \subseteq Legs

\* Every variable holds what the code can put in it.
TypeOK ==
    /\ RecordTypeOK
    /\ ChainTypeOK
    /\ web \in [Legs -> {"new", "prepared", "submitted"}]
    /\ lastValid \in [Legs -> Nat]
    /\ altered \subseteq Legs
    /\ pass \in [Gateways -> Passes]
    /\ notices \subseteq Settlements
    /\ importing \in Legs \union {NoLeg}
    /\ imported \subseteq Legs
    /\ stops \in 0 .. MaxStops

\* What the outbox should say of a row, in order.
Story(r) ==
    CASE r.source = "none"  -> <<>>
      [] r.source = "chain" -> <<"settled">>
      [] OTHER -> IF r.submit_result = "none" THEN <<"quoted">>
                  ELSE IF r.chain_outcome = "none" THEN <<"quoted", "sent">>
                  ELSE <<"quoted", "sent", "settled">>

\* The outbox tells each change of a leg exactly once and in order, whatever
\* was retried, raced or imported: a row quoted twice, sent twice or settled
\* twice, or a row an import replaced, would tell it again or out of turn.
OutboxTellsTheRow == \A l \in Legs : outbox[l] = Story(rows[l])

\* A leg is called landed or failed only when the chain's confirmed answer is
\* that, and it is never called so while its block may still be abandoned.
AnswersAreTheChains ==
    \A l \in Legs : rows[l].chain_outcome \in {"landed", "failed"} =>
        /\ Status(l) = "confirmed"
        /\ rows[l].chain_outcome = "failed" <=> landing[l].err

\* A trade is told as settled once.  A leg whose wallet altered its message can
\* end in two rows, the server's and an import's; only one of them is settled,
\* however the import, the reports and the passes interleave.
SettledOnce ==
    \A l \in twins : \A i \in DOMAIN outbox[l] : outbox[l][i] # "settled"

\* "The chain's first answer stands" (settlement.sql): two passes racing in
\* overlapping Gateways, or an import beside them, never replace an answer.
FirstAnswerStands ==
    [][\A l \in Legs : rows[l].chain_outcome # "none" =>
            rows'[l].chain_outcome = rows[l].chain_outcome]_vars

\* Nothing the chain can still do changes what a settled leg's answer should
\* have been: a leg is not called dropped while it could yet land.
SettledIsFinal ==
    [][\A l \in Legs : rows[l].chain_outcome # "none" =>
            landing'[l] = landing[l]]_vars

\* What the team hears of a leg, and what a pass is about to tell it, is what
\* the record holds, and one pass only tells it.
NoticesTellTheRecord ==
    /\ \A n \in notices : rows[n.leg].chain_outcome = n.outcome
    /\ \A g \in Gateways : \A s \in pass[g].settled :
        /\ rows[s.leg].chain_outcome = s.outcome
        /\ \A n \in notices : n.leg # s.leg
        /\ \A h \in Gateways \ {g} : \A t \in pass[h].settled : t.leg # s.leg

\* What the team was told, and what a pass is about to tell it.
Told == notices \union UNION {pass[g].settled : g \in Gateways}

\* At most one landed leg of a wallet is ever announced as its first trade.
OneFirstTrade == Cardinality({s \in Told : s.first}) <= 1

-----------------------------------------------------------------------------
(* The abstract specification, and how far settlement implements it.          *)

\* What became of a leg, once no block, fork or submission can change it.
Fate(l) ==
    IF Status(l) = "confirmed" THEN Outcome(l)
    ELSE IF landing[l] = NotIn /\ web[l] # "new" /\ height >= lastValid[l] THEN "dropped"
    ELSE "open"

\* What the record says of a trade, in its own row or in an import's second one.
Verdict(l) == IF l \in twins THEN "landed" ELSE rows[l].chain_outcome

Fates     == [l \in Legs |-> Fate(l)]
Answers   == [l \in Legs |-> Verdict(l)]
Announced == {[trade |-> n.leg, outcome |-> n.outcome] : n \in notices}

Verdicts == INSTANCE TradeVerdicts
                WITH Trades <- Legs, fate <- Fates, verdict <- Answers, heard <- Announced

\* A lagging status and a height read after it are what the margin allows for.
ReadInTime(p) == p.height + StatusLag <= p.asked + DropMargin + 1

LateDrop == \E g \in Gateways : /\ pass[g].answer = "dropped"
                                /\ ~ ReadInTime(pass[g])
                                /\ SettleLeg(g)

\* Passes, imports, late reports and notices, whatever order they come in, keep
\* the record TradeVerdicts describes: one verdict for a trade, in one row, after
\* its fate and the same as that.  The code leaves one gap (settle.go:93, 109):
\* a drop whose height was read more blocks after its status than the margin is.
GivesVerdicts ==
    /\ Verdicts!Init
    /\ [][\/ UNCHANGED Verdicts!verdictVars
         \/ Verdicts!Next
         \/ LateDrop]_vars

\* What the team is told of dropped legs (notices.go: "dropped legs reached no
\* block and moved nothing").
DroppedReachedNoBlock ==
    \A n \in notices : n.outcome = "dropped" => landing[n.leg] = NotIn

-----------------------------------------------------------------------------
(* Why these hold, step after step: what a row, a leg on the chain and a pass *)
(* can be while the rest of the system moves.                                 *)

RowsSound ==
    \A l \in Legs :
        /\ rows[l].source = "none" => rows[l] = NoRow
        /\ rows[l].source = "chain" => rows[l] = ImportedRow
        /\ rows[l].signature <=> rows[l].submit_result # "none"
        /\ ~ rows[l].signature => rows[l].chain_outcome = "none"

\* A leg is prepared before anything else happens to it, and a block past its
\* deadline never holds it.
LegsSound ==
    \A l \in Legs :
        /\ web[l] = "new" => /\ rows[l].source = "none"
                             /\ l \notin broadcast
                             /\ \A m \in reports : m.leg # l
        /\ landing[l] # NotIn => /\ l \in broadcast
                                 /\ landing[l].block \in 1 .. lastValid[l]

\* Only an altered leg has a second row, and then the signature is on that one.
TwinsSound ==
    \A l \in twins : /\ l \in altered
                     /\ ~ rows[l].signature
                     /\ Status(l) = "confirmed"
                     /\ ~ landing[l].err

\* An answer the chain gives, or can no longer take back.
AnswerHolds(l, outcome) ==
    /\ outcome \in {"landed", "failed"} => /\ Status(l) = "confirmed"
                                           /\ outcome = "failed" <=> landing[l].err
    /\ outcome = "dropped" => height > lastValid[l] + DropMargin

PassSound(p) ==
    /\ p.height <= height
    /\ \A l \in p.todo : rows[l].signature
    /\ \A l \in Legs : p.statuses[l] = "confirmed" => Status(l) = "confirmed"
    /\ p.step = "writing" => /\ p.leg \in p.todo
                             /\ p.answer \in Outcomes
                             /\ AnswerHolds(p.leg, p.answer)
    /\ p.step = "counting" => p.leg \in p.todo /\ p.answer = "landed"

\* What a pass has not seen was not there when it asked, or too new to be seen;
\* what it is about to call dropped was unseen, its deadline past by the margin.
ReadingSound(p) ==
    /\ p.asked <= height
    /\ p.step \in {"idle", "read"} => p.asked = 0
    /\ \A l \in p.todo : p.statuses[l] = "unseen" /\ landing[l] # NotIn
                            => p.asked < landing[l].block + StatusLag
    /\ p.step = "writing" /\ p.answer = "dropped"
          => /\ p.statuses[p.leg] = "unseen"
             /\ p.height > lastValid[p.leg] + DropMargin

ReadingsInv == \A g \in Gateways : ReadingSound(pass[g])

ImportSound ==
    importing # NoLeg => Status(importing) = "confirmed" /\ ~ landing[importing].err

SettlementInv ==
    /\ TypeOK
    /\ RowsSound
    /\ OutboxTellsTheRow
    /\ LegsSound
    /\ \A l \in Legs : AnswerHolds(l, rows[l].chain_outcome)
    /\ \A g \in Gateways : PassSound(pass[g])
    /\ ImportSound
    /\ TwinsSound

\* A leg whose wallet's trades are being counted is settled by this pass alone.
CountingSound(g) ==
    LET l == pass[g].leg
    IN  /\ rows[l].chain_outcome = "landed"
        /\ \A s \in Told : s.leg # l
        /\ \A h \in Gateways \ {g} : pass[h].step = "counting" => pass[h].leg # l

FirstSound ==
    \A s \in Told : s.first => /\ s.outcome = "landed"
                              /\ \A t \in Told : t.first => t.leg = s.leg

NoticesInv ==
    /\ NoticesTellTheRecord
    /\ \A g \in Gateways : pass[g].step = "counting" => CountingSound(g)
    /\ FirstSound

-----------------------------------------------------------------------------
(* The settle loop keeps ticking, the chain keeps growing, and a read or      *)
(* write that is tried again and again is answered at last.                   *)

Fairness ==
    /\ WF_vars(Grow)
    /\ \A g \in Gateways :
        /\ WF_vars(ReadUnsettled(g))
        /\ SF_vars(AskStatuses(g))
        /\ SF_vars(SettleLeg(g))
        /\ WF_vars(CountLanded(g))
        /\ WF_vars(FinishPass(g))
        /\ \A l \in Legs : /\ SF_vars(JudgeUnseen(g, l))
                           /\ WF_vars(SkipUnconfirmed(g, l))
                           /\ SF_vars(ReadTransaction(g, l))

FairSpec == Spec /\ Fairness

\* Every submitted leg the record knows is settled in the end, however many
\* older ones stand before it in the pass's limit and wherever a pass stopped.
EverySentLegIsSettled ==
    \A l \in Legs :
        (rows[l].signature /\ rows[l].submit_result \in {"sent", "uncertain"})
            ~> (rows[l].chain_outcome # "none")
=============================================================================
