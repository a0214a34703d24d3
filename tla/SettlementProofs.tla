-------------------------- MODULE SettlementProofs --------------------------
(* Theorems about settlement for every number of legs and Gateways and every  *)
(* margin, lifetime and bound.                                                *)
EXTENDS SettlementProperties, SequenceTheorems, TLAPS, FiniteSetTheorems

-----------------------------------------------------------------------------
(* Appending to a short sequence, which the provers only see entry by entry.  *)

LEMMA AppendToOne ==
    ASSUME NEW S, NEW a \in S, NEW b \in S
    PROVE  Append(<<a>>, b) = <<a, b>>
<1>1. <<a>> \in Seq(S) /\ <<a, b>> \in Seq(S) /\ Append(<<a>>, b) \in Seq(S)
  OBVIOUS
<1>2. Len(Append(<<a>>, b)) = 2 /\ Len(<<a, b>>) = 2
  BY <1>1
<1>3. \A i \in 1 .. 2 : Append(<<a>>, b)[i] = <<a, b>>[i]
  <2>1. Append(<<a>>, b)[1] = <<a, b>>[1] /\ Append(<<a>>, b)[2] = <<a, b>>[2]
    BY <1>1
  <2>2. \A i \in 1 .. 2 : i = 1 \/ i = 2
    OBVIOUS
  <2>3. QED
    BY <2>1, <2>2
<1>4. QED
  BY <1>1, <1>2, <1>3, SeqEqual

LEMMA AppendToTwo ==
    ASSUME NEW S, NEW a \in S, NEW b \in S, NEW c \in S
    PROVE  Append(<<a, b>>, c) = <<a, b, c>>
<1>1. <<a, b>> \in Seq(S) /\ <<a, b, c>> \in Seq(S) /\ Append(<<a, b>>, c) \in Seq(S)
  OBVIOUS
<1>2. Len(Append(<<a, b>>, c)) = 3 /\ Len(<<a, b, c>>) = 3
  BY <1>1
<1>3. \A i \in 1 .. 3 : Append(<<a, b>>, c)[i] = <<a, b, c>>[i]
  <2>1. /\ Append(<<a, b>>, c)[1] = <<a, b, c>>[1]
        /\ Append(<<a, b>>, c)[2] = <<a, b, c>>[2]
        /\ Append(<<a, b>>, c)[3] = <<a, b, c>>[3]
    BY <1>1
  <2>2. \A i \in 1 .. 3 : i = 1 \/ i = 2 \/ i = 3
    OBVIOUS
  <2>3. QED
    BY <2>1, <2>2
<1>4. QED
  BY <1>1, <1>2, <1>3, SeqEqual

LEMMA StoriesGrow ==
    /\ Append(<<"quoted">>, "sent") = <<"quoted", "sent">>
    /\ Append(<<"quoted", "sent">>, "settled") = <<"quoted", "sent", "settled">>
<1> DEFINE S == {"quoted", "sent", "settled"}
<1>1. \A a \in S, b \in S : Append(<<a>>, b) = <<a, b>>
  BY AppendToOne
<1>2. \A a \in S, b \in S, c \in S : Append(<<a, b>>, c) = <<a, b, c>>
  BY AppendToTwo
<1>3. QED
  BY <1>1, <1>2

-----------------------------------------------------------------------------
(* What a pass becomes is a pass.  The provers decide one field at a time.    *)

LEMMA EditPass ==
    ASSUME NEW p \in Passes
    PROVE  /\ \A s \in {"idle", "read", "judging", "writing", "counting"} :
                  [p EXCEPT !.step = s] \in Passes
           /\ \A S \in SUBSET Legs : [p EXCEPT !.todo = S] \in Passes
           /\ \A f \in [Legs -> {"unseen", "processed", "confirmed"}] :
                  [p EXCEPT !.statuses = f] \in Passes
           /\ \A h \in 0 .. MaxHeight : [p EXCEPT !.height = h] \in Passes
           /\ \A h \in 0 .. MaxHeight : [p EXCEPT !.asked = h] \in Passes
           /\ \A l \in Legs \union {NoLeg} : [p EXCEPT !.leg = l] \in Passes
           /\ \A a \in Outcomes \union {"none"} : [p EXCEPT !.answer = a] \in Passes
           /\ \A S \in SUBSET Settlements : [p EXCEPT !.settled = S] \in Passes
  BY SMT DEF Passes

LEMMA SkippedIsPass ==
    ASSUME NEW p \in Passes, NEW l \in Legs
    PROVE  Skipped(p, l) \in Passes
<1> DEFINE p1 == [p EXCEPT !.step = "judging"]
           p2 == [p1 EXCEPT !.todo = p.todo \ {l}]
           p3 == [p2 EXCEPT !.statuses = [p.statuses EXCEPT ![l] = "unseen"]]
           p4 == [p3 EXCEPT !.leg = NoLeg]
           p5 == [p4 EXCEPT !.answer = "none"]
<1>1. p.todo \ {l} \in SUBSET Legs
  BY DEF Passes
<1>2. [p.statuses EXCEPT ![l] = "unseen"] \in [Legs -> {"unseen", "processed", "confirmed"}]
  BY DEF Passes
<1>3. p1 \in Passes
  BY EditPass
<1>4. p2 \in Passes
  <2> HIDE DEF p1
  <2>1. QED
    BY <1>1, <1>3, EditPass
<1>5. p3 \in Passes
  <2> HIDE DEF p2
  <2>1. QED
    BY <1>2, <1>4, EditPass
<1>6. p4 \in Passes
  <2> HIDE DEF p3
  <2>1. QED
    BY <1>5, EditPass
<1>7. p5 \in Passes
  <2> HIDE DEF p4
  <2>1. QED
    BY <1>6, EditPass
<1>8. p5 = Skipped(p, l)
  BY DEF Skipped, Passes
<1>9. QED
  BY <1>7, <1>8

LEMMA AnsweringIsPass ==
    ASSUME NEW p \in Passes, NEW l \in Legs, NEW o \in Outcomes
    PROVE  Answering(p, l, o) \in Passes
<1> DEFINE p1 == [p EXCEPT !.step = "writing"]
           p2 == [p1 EXCEPT !.leg = l]
           p3 == [p2 EXCEPT !.answer = o]
<1>1. p1 \in Passes
  BY EditPass
<1>2. p2 \in Passes
  <2> HIDE DEF p1
  <2>1. QED
    BY <1>1, EditPass
<1>3. p3 \in Passes
  <2> HIDE DEF p2
  <2>1. QED
    BY <1>2, EditPass
<1>4. p3 = Answering(p, l, o)
  BY DEF Answering, Passes
<1>5. QED
  BY <1>3, <1>4

\* The fields of a pass that has moved on to its next leg.
LEMMA SkippedFields ==
    ASSUME NEW p \in Passes, NEW l \in Legs
    PROVE  /\ Skipped(p, l).step = "judging"
           /\ Skipped(p, l).todo = p.todo \ {l}
           /\ Skipped(p, l).height = p.height
           /\ Skipped(p, l).asked = p.asked
           /\ \A m \in Legs \ {l} : Skipped(p, l).statuses[m] = p.statuses[m]
           /\ \A m \in Legs : Skipped(p, l).statuses[m] \in {p.statuses[m], "unseen"}
           /\ Skipped(p, l).settled = p.settled
  BY DEF Skipped, Passes

LEMMA AnsweringFields ==
    ASSUME NEW p \in Passes, NEW l \in Legs, NEW o \in Outcomes
    PROVE  /\ Answering(p, l, o).step = "writing"
           /\ Answering(p, l, o).todo = p.todo
           /\ Answering(p, l, o).height = p.height
           /\ Answering(p, l, o).asked = p.asked
           /\ Answering(p, l, o).statuses = p.statuses
           /\ Answering(p, l, o).leg = l
           /\ Answering(p, l, o).answer = o
  BY DEF Answering, Passes

LEMMA HeardFields ==
    ASSUME NEW p \in Passes, NEW l \in Legs, p.answer \in Outcomes, NEW first \in BOOLEAN
    PROVE  /\ Heard(p, l, first) \in Passes
           /\ Heard(p, l, first).step = "judging"
           /\ Heard(p, l, first).todo = p.todo \ {l}
           /\ Heard(p, l, first).height = p.height
           /\ Heard(p, l, first).asked = p.asked
           /\ \A m \in Legs \ {l} : Heard(p, l, first).statuses[m] = p.statuses[m]
           /\ \A m \in Legs : Heard(p, l, first).statuses[m] \in {p.statuses[m], "unseen"}
<1> DEFINE q == Skipped(p, l)
           S == p.settled \union {[leg |-> l, outcome |-> p.answer, first |-> first]}
<1>1. q \in Passes
  BY SkippedIsPass
<1>2. S \in SUBSET Settlements
  BY DEF Passes, Settlements
<1>3. q.settled = p.settled
  BY SkippedFields
<1>4. Heard(p, l, first) = [q EXCEPT !.settled = S]
  BY <1>3 DEF Heard
<1>5. [q EXCEPT !.settled = S] \in Passes
  <2> HIDE DEF q, S
  <2>1. QED
    BY <1>1, <1>2, EditPass
<1>6. \A f \in {"step", "todo", "height", "asked", "statuses"} :
          [q EXCEPT !.settled = S][f] = q[f]
  <2> HIDE DEF q, S
  <2>1. QED
    BY <1>1 DEF Passes
<1>7. QED
  BY <1>4, <1>5, <1>6, SkippedFields

-----------------------------------------------------------------------------
(* The initial state, and the steps that move only a pass.                    *)

LEMMA InitInv == Init => SettlementInv
<1> SUFFICES ASSUME Init PROVE SettlementInv
  OBVIOUS
<1> USE DEF Init, InitRecord
<1>1. RecordTypeOK
  BY DEF RecordTypeOK, NoRow, Rows
<1>2. ChainTypeOK
  BY SettlementAssumption DEF ChainTypeOK, NotIn
<1>3. Idle \in Passes
  BY SettlementAssumption DEF Idle, Passes
<1>4. TypeOK
  BY <1>1, <1>2, <1>3, SettlementAssumption DEF TypeOK
<1>5. RowsSound /\ OutboxTellsTheRow /\ LegsSound /\ ImportSound
  BY DEF RowsSound, OutboxTellsTheRow, Story, NoRow, LegsSound, ImportSound
<1>10. TwinsSound
  BY DEF TwinsSound
<1>6. \A l \in Legs : AnswerHolds(l, rows[l].chain_outcome)
  BY DEF AnswerHolds, NoRow
<1>7. PassSound(Idle)
  BY DEF PassSound, Idle
<1>8. \A g \in Gateways : PassSound(pass[g])
  BY <1>7
<1>9. QED
  BY <1>4, <1>5, <1>6, <1>8, <1>10 DEF SettlementInv

LEMMA PassMoves ==
    ASSUME SettlementInv,
           UNCHANGED <<recordVars, chainVars, webVars, importing, imported>>,
           notices' \subseteq Settlements, stops' \in 0 .. MaxStops,
           NEW g \in Gateways, NEW p \in Passes, PassSound(p),
           pass' = [pass EXCEPT ![g] = p]
    PROVE  SettlementInv'
<1> USE DEF SettlementInv, recordVars, rowVars, chainVars, webVars
<1>1. TypeOK'
  BY DEF TypeOK, RecordTypeOK, ChainTypeOK
<1>2. RowsSound' /\ OutboxTellsTheRow' /\ LegsSound'
  BY DEF RowsSound, OutboxTellsTheRow, LegsSound
<1>3. ImportSound' /\ TwinsSound'
  BY DEF ImportSound, TwinsSound, Status
<1>4. (\A l \in Legs : AnswerHolds(l, rows[l].chain_outcome))'
  BY DEF AnswerHolds, Status
<1>5. ASSUME NEW h \in Gateways PROVE PassSound(pass[h])'
  BY DEF PassSound, AnswerHolds, Status, TypeOK
<1>6. QED
  BY <1>1, <1>2, <1>3, <1>4, <1>5

LEMMA IdleIsSound == SettlementInv => Idle \in Passes /\ PassSound(Idle)
  BY SettlementAssumption DEF Idle, Passes, PassSound, SettlementInv, TypeOK, ChainTypeOK

\* A pass that moves on to its next leg keeps what is sound about the rest.
LEMMA SkippedIsSound ==
    ASSUME SettlementInv, NEW p \in Passes, NEW l \in Legs, NEW h \in 0 .. MaxHeight,
           PassSound(p), h <= height
    PROVE  LET q == Skipped([p EXCEPT !.height = h], l)
           IN  q \in Passes /\ PassSound(q)
<1> DEFINE r == [p EXCEPT !.height = h]
<1>1. r \in Passes
  BY EditPass
<1>2. r.height = h /\ r.todo = p.todo /\ r.statuses = p.statuses
  BY DEF Passes
<1> HIDE DEF r
<1>3. Skipped(r, l) \in Passes
  BY <1>1, SkippedIsPass
<1>4. PassSound(Skipped(r, l))
  BY <1>1, <1>2, SkippedFields DEF PassSound
<1>5. QED
  BY <1>3, <1>4 DEF r

LEMMA SkippedKeepsSound ==
    ASSUME SettlementInv, NEW p \in Passes, NEW l \in Legs, PassSound(p)
    PROVE  Skipped(p, l) \in Passes /\ PassSound(Skipped(p, l))
  BY SkippedIsPass, SkippedFields DEF PassSound

-----------------------------------------------------------------------------
(* The steps of a pass.                                                       *)

LEMMA ReadUnsettledKeeps ==
    ASSUME SettlementInv, NEW g \in Gateways, ReadUnsettled(g)
    PROVE  SettlementInv'
<1> DEFINE p == [pass[g] EXCEPT !.step = "read"]
           q == [p EXCEPT !.todo = Oldest(Unsettled)]
<1>1. pass[g] \in Passes /\ PassSound(pass[g])
  BY DEF SettlementInv, TypeOK
<1>2. p \in Passes
  BY <1>1, EditPass
<1>3. Oldest(Unsettled) \in SUBSET Legs /\ \A l \in Oldest(Unsettled) : rows[l].signature
  BY DEF Oldest, Unsettled
<1>4. q \in Passes
  <2> HIDE DEF p
  <2>1. QED
    BY <1>2, <1>3, EditPass
<1>5. PassSound(q)
  BY <1>1, <1>3 DEF PassSound, Passes
<1>6. pass' = [pass EXCEPT ![g] = q]
  BY DEF ReadUnsettled
<1>7. QED
  <2> HIDE DEF q
  <2>1. QED
    BY <1>4, <1>5, <1>6, PassMoves DEF ReadUnsettled, SettlementInv, TypeOK

LEMMA AskStatusesKeeps ==
    ASSUME SettlementInv, NEW g \in Gateways, AskStatuses(g)
    PROVE  SettlementInv'
<1>1. PICK answers \in [Legs -> {"unseen", "processed", "confirmed"}] :
        /\ \A l \in Legs : IF l \in pass[g].todo THEN answers[l] \in StatusAnswers(l)
                                                 ELSE answers[l] = "unseen"
        /\ pass' = [pass EXCEPT ![g] = [@ EXCEPT !.step = "judging", !.statuses = answers,
                                               !.asked = height]]
  BY DEF AskStatuses
<1> DEFINE p == [pass[g] EXCEPT !.step = "judging"]
           r == [p EXCEPT !.statuses = answers]
           q == [r EXCEPT !.asked = height]
<1>2. pass[g] \in Passes /\ PassSound(pass[g])
  BY DEF SettlementInv, TypeOK
<1>3. p \in Passes
  BY <1>2, EditPass
<1>4. q \in Passes
  <2>1. r \in Passes
    <3> HIDE DEF p
    <3>1. QED
      BY <1>3, EditPass
  <2>2. height \in 0 .. MaxHeight
    BY SettlementAssumption DEF SettlementInv, TypeOK, ChainTypeOK
  <2> HIDE DEF r
  <2>3. QED
    BY <2>1, <2>2, EditPass
<1>5. \A l \in Legs : answers[l] = "confirmed" => Status(l) = "confirmed"
  BY <1>1 DEF StatusAnswers
<1>6. PassSound(q)
  BY <1>2, <1>5 DEF PassSound, Passes
<1>7. pass' = [pass EXCEPT ![g] = q]
  BY <1>1
<1>8. QED
  <2> HIDE DEF q
  <2>1. QED
    BY <1>4, <1>6, <1>7, PassMoves DEF AskStatuses, SettlementInv, TypeOK

LEMMA JudgeUnseenKeeps ==
    ASSUME SettlementInv, NEW g \in Gateways, NEW l \in Legs, JudgeUnseen(g, l)
    PROVE  SettlementInv'
<1> DEFINE h == IF pass[g].height = 0 THEN height ELSE pass[g].height
           p == [pass[g] EXCEPT !.height = h]
           q == IF PastDeadline(h, l) THEN Answering(p, l, "dropped") ELSE Skipped(p, l)
<1>1. pass[g] \in Passes /\ PassSound(pass[g]) /\ l \in pass[g].todo
  BY DEF SettlementInv, TypeOK, JudgeUnseen, Judging
<1>2. h \in 0 .. MaxHeight /\ h <= height
  BY <1>1, SettlementAssumption DEF SettlementInv, TypeOK, ChainTypeOK, PassSound, Passes
<1>3. p \in Passes /\ p.todo = pass[g].todo /\ p.height = h /\ p.statuses = pass[g].statuses
  <2>1. p \in Passes
    BY <1>1, <1>2, EditPass
  <2>2. QED
    BY <1>1, <2>1 DEF Passes
<1>4. CASE PastDeadline(h, l)
  <2>1. height > lastValid[l] + DropMargin
    BY <1>2, <1>4, SettlementAssumption DEF PastDeadline, SettlementInv, TypeOK, ChainTypeOK
  <2>2. Answering(p, l, "dropped") \in Passes
    BY <1>3, AnsweringIsPass DEF Outcomes
  <2>3. PassSound(Answering(p, l, "dropped"))
    <3> HIDE DEF p, h
    <3>1. QED
      BY <1>1, <1>2, <1>3, <2>1, AnsweringFields DEF PassSound, Outcomes, AnswerHolds
  <2>4. QED
    <3>1. pass' = [pass EXCEPT ![g] = Answering(p, l, "dropped")]
      BY <1>4 DEF JudgeUnseen
    <3>2. QED
      BY <2>2, <2>3, <3>1, PassMoves DEF JudgeUnseen, SettlementInv, TypeOK
<1>5. CASE ~ PastDeadline(h, l)
  <2>1. Skipped(p, l) \in Passes /\ PassSound(Skipped(p, l))
    BY <1>1, <1>2, SkippedIsSound
  <2>2. pass' = [pass EXCEPT ![g] = Skipped(p, l)]
    BY <1>5 DEF JudgeUnseen
  <2>3. QED
    BY <2>1, <2>2, PassMoves DEF JudgeUnseen, SettlementInv, TypeOK
<1>6. QED
  BY <1>4, <1>5

LEMMA SkipKeeps ==
    ASSUME SettlementInv, NEW g \in Gateways, NEW l \in Legs,
           SkipUnconfirmed(g, l) \/ MissTransaction(g, l)
    PROVE  SettlementInv'
<1>1. Skipped(pass[g], l) \in Passes /\ PassSound(Skipped(pass[g], l))
  BY SkippedKeepsSound DEF SettlementInv, TypeOK
<1>2. QED
  BY <1>1, PassMoves DEF SkipUnconfirmed, MissTransaction, SettlementInv, TypeOK

LEMMA ReadTransactionKeeps ==
    ASSUME SettlementInv, NEW g \in Gateways, NEW l \in Legs, ReadTransaction(g, l)
    PROVE  SettlementInv'
<1> DEFINE p == pass[g]
           q == Answering(p, l, Outcome(l))
<1>1. p \in Passes /\ PassSound(p) /\ l \in p.todo
  BY DEF SettlementInv, TypeOK, ReadTransaction, Judging
<1>2. Status(l) = "confirmed"
  BY <1>1 DEF PassSound, ReadTransaction
<1>3. Outcome(l) \in Outcomes /\ AnswerHolds(l, Outcome(l))
  BY <1>2 DEF Outcome, Outcomes, AnswerHolds, SettlementInv, TypeOK, ChainTypeOK
<1>4. q \in Passes
  BY <1>1, <1>3, AnsweringIsPass
<1>5. PassSound(q)
  BY <1>1, <1>3, AnsweringFields DEF PassSound
<1>6. QED
  BY <1>4, <1>5, PassMoves DEF ReadTransaction, SettlementInv, TypeOK

LEMMA MissSettleLegKeeps ==
    ASSUME SettlementInv, NEW g \in Gateways, MissSettleLeg(g)
    PROVE  SettlementInv'
<1>1. pass[g] \in Passes /\ PassSound(pass[g]) /\ pass[g].leg \in Legs
  BY DEF SettlementInv, TypeOK, MissSettleLeg, PassSound, Passes
<1>2. Skipped(pass[g], pass[g].leg) \in Passes /\ PassSound(Skipped(pass[g], pass[g].leg))
  BY <1>1, SkippedKeepsSound
<1>3. QED
  BY <1>2, PassMoves DEF MissSettleLeg, SettlementInv, TypeOK

LEMMA CountLandedKeeps ==
    ASSUME SettlementInv, NEW g \in Gateways, CountLanded(g)
    PROVE  SettlementInv'
<1>1. pass[g] \in Passes /\ PassSound(pass[g]) /\ pass[g].leg \in Legs /\ pass[g].answer = "landed"
  BY DEF SettlementInv, TypeOK, CountLanded, PassSound, Passes
<1>2. PICK first \in {IsFirstLanded, FALSE} :
          pass' = [pass EXCEPT ![g] = Heard(@, @.leg, first)]
  BY DEF CountLanded
<1> DEFINE q == Heard(pass[g], pass[g].leg, first)
<1>3. first \in BOOLEAN
  BY <1>2 DEF IsFirstLanded
<1>4. /\ q \in Passes
      /\ q.step = "judging"
      /\ q.todo = pass[g].todo \ {pass[g].leg}
      /\ q.height = pass[g].height
      /\ \A m \in Legs : q.statuses[m] \in {pass[g].statuses[m], "unseen"}
  BY <1>1, <1>3, HeardFields DEF Outcomes
<1>5. PassSound(q)
  <2> HIDE DEF q
  <2>1. QED
    BY <1>1, <1>4 DEF PassSound
<1>6. QED
  BY <1>2, <1>4, <1>5, PassMoves DEF CountLanded, SettlementInv, TypeOK

LEMMA PassEndsKeeps ==
    ASSUME SettlementInv, NEW g \in Gateways,
           FinishPass(g) \/ MissStatuses(g) \/ Stop(g)
    PROVE  SettlementInv'
<1>1. notices' \subseteq Settlements
  BY DEF FinishPass, MissStatuses, Stop, Worth, SettlementInv, TypeOK, Passes
<1>2. stops' \in 0 .. MaxStops
  BY SettlementAssumption DEF FinishPass, MissStatuses, Stop, SettlementInv, TypeOK
<1>3. QED
  BY <1>1, <1>2, IdleIsSound, PassMoves DEF FinishPass, MissStatuses, Stop

-----------------------------------------------------------------------------
(* The steps around the passes.  What is confirmed stays so, the height never *)
(* falls, and a signed leg keeps its signature and its deadline: so whatever  *)
(* a pass already holds stays sound.                                          *)

LEMMA MovedUnder ==
    ASSUME SettlementInv, TypeOK', pass' = pass, height <= height',
           \A l \in Legs : Status(l) = "confirmed" => landing'[l] = landing[l],
           \A l \in Legs : rows[l].signature =>
               rows'[l].signature /\ lastValid'[l] = lastValid[l],
           twins' = twins, altered \subseteq altered',
           \A l \in twins : ~ rows'[l].signature
    PROVE  /\ \A l \in Legs : Status(l) = "confirmed" => Status(l)' = "confirmed"
           /\ \A l \in Legs, o \in Outcomes \union {"none"} :
                  rows[l].signature /\ AnswerHolds(l, o) => AnswerHolds(l, o)'
           /\ \A g \in Gateways : PassSound(pass[g])'
           /\ importing' = importing => ImportSound'
           /\ TwinsSound'
<1> USE DEF SettlementInv
<1>1. height \in Nat /\ height' \in Nat /\ DropMargin \in Nat
  BY SettlementAssumption DEF TypeOK, ChainTypeOK
<1>2. ASSUME NEW l \in Legs, Status(l) = "confirmed" PROVE Status(l)' = "confirmed"
  <2>1. landing'[l] = landing[l] /\ landing[l].block \in Nat
    BY <1>2 DEF TypeOK, ChainTypeOK
  <2>2. QED
    BY <1>1, <1>2, <2>1 DEF Status
<1>3. ASSUME NEW l \in Legs, NEW o \in Outcomes \union {"none"},
             rows[l].signature, AnswerHolds(l, o)
      PROVE  AnswerHolds(l, o)'
  <2>1. lastValid'[l] = lastValid[l] /\ lastValid[l] \in Nat
    BY <1>3 DEF TypeOK
  <2>2. (o = "dropped" => height > lastValid[l] + DropMargin)'
    BY <1>1, <1>3, <2>1 DEF AnswerHolds
  <2>3. QED
    BY <1>2, <1>3, <2>2 DEF AnswerHolds
<1>4. ASSUME NEW g \in Gateways PROVE PassSound(pass[g])'
  <2>1. pass[g] \in Passes /\ PassSound(pass[g])
    BY DEF TypeOK
  <2>2. pass[g].height \in Nat /\ pass[g].height <= height'
    BY <1>1, <2>1, SettlementAssumption DEF PassSound, Passes
  <2>3. \A l \in pass[g].todo : rows'[l].signature
    BY <2>1 DEF PassSound, Passes
  <2>4. pass[g].step = "writing" => AnswerHolds(pass[g].leg, pass[g].answer)'
    BY <1>3, <2>1 DEF PassSound, Passes
  <2>5. QED
    BY <1>2, <2>1, <2>2, <2>3, <2>4 DEF PassSound
<1>5. importing' = importing => ImportSound'
  <2>1. ASSUME importing' = importing, importing # NoLeg
        PROVE  Status(importing)' = "confirmed" /\ ~ landing'[importing].err
    BY <1>2, <2>1 DEF ImportSound, TypeOK
  <2>2. QED
    BY <2>1 DEF ImportSound
<1>6. TwinsSound'
  <2>1. \A l \in twins : l \in Legs /\ Status(l)' = "confirmed" /\ landing'[l] = landing[l]
    BY <1>2 DEF TwinsSound, TypeOK, RecordTypeOK
  <2>2. QED
    BY <2>1 DEF TwinsSound
<1>7. QED
  BY <1>2, <1>3, <1>4, <1>5, <1>6

\* The chain's own steps.
LEMMA ChainMovesKeep ==
    ASSUME SettlementInv, Grow \/ \E l \in Legs : Land(l) \/ Fork(l)
    PROVE  SettlementInv'
<1> USE DEF recordVars, rowVars, webVars
<1>1. TypeOK' /\ height <= height' /\ pass' = pass /\ importing' = importing
  <2>1. CASE Grow
    BY <2>1, SettlementAssumption DEF Grow, SettlementInv, TypeOK, RecordTypeOK, ChainTypeOK
  <2>2. ASSUME NEW l \in Legs, Land(l) PROVE TypeOK' /\ height' = height
    <3>1. PICK b \in height + 1 .. lastValid[l], err \in BOOLEAN :
              landing' = [landing EXCEPT ![l] = [block |-> b, err |-> err]]
      BY <2>2 DEF Land
    <3>2. b \in Nat
      BY SettlementAssumption DEF SettlementInv, TypeOK, ChainTypeOK
    <3>3. QED
      BY <2>2, <3>1, <3>2 DEF Land, SettlementInv, TypeOK, RecordTypeOK, ChainTypeOK
  <2>3. ASSUME NEW l \in Legs, Fork(l) PROVE TypeOK' /\ height' = height
    BY <2>3 DEF Fork, NotIn, SettlementInv, TypeOK, RecordTypeOK, ChainTypeOK
  <2>4. QED
    BY <2>1, <2>2, <2>3, SettlementAssumption
       DEF Land, Fork, SettlementInv, TypeOK, ChainTypeOK
<1>2. UNCHANGED <<rows, outbox, twins, reports, web, lastValid, altered>>
  BY DEF Grow, Land, Fork
<1>3. \A l \in Legs : Status(l) = "confirmed" => landing'[l] = landing[l]
  BY DEF Grow, Land, Fork, Status, SettlementInv, TypeOK, ChainTypeOK
<1>4. RowsSound' /\ OutboxTellsTheRow'
  BY <1>2 DEF RowsSound, OutboxTellsTheRow, SettlementInv
<1>5. LegsSound'
  <2>1. CASE Grow
    BY <2>1 DEF Grow, LegsSound, SettlementInv
  <2>2. ASSUME NEW l \in Legs, Land(l) PROVE LegsSound'
    <3>1. PICK b \in height + 1 .. lastValid[l], err \in BOOLEAN :
              landing' = [landing EXCEPT ![l] = [block |-> b, err |-> err]]
      BY <2>2 DEF Land
    <3>2. b \in 1 .. lastValid[l]
      BY SettlementAssumption DEF SettlementInv, TypeOK, ChainTypeOK
    <3>3. QED
      BY <2>2, <3>1, <3>2 DEF Land, LegsSound, SettlementInv, TypeOK, ChainTypeOK
  <2>3. ASSUME NEW l \in Legs, Fork(l) PROVE LegsSound'
    BY <2>3 DEF Fork, LegsSound, SettlementInv, TypeOK, ChainTypeOK
  <2>4. QED
    BY <2>1, <2>2, <2>3
<1>6. QED
  <2>1. \A l \in Legs : AnswerHolds(l, rows[l].chain_outcome)'
    <3> SUFFICES ASSUME NEW l \in Legs PROVE AnswerHolds(l, rows[l].chain_outcome)'
      OBVIOUS
    <3>1. rows[l].chain_outcome \in Outcomes \union {"none"}
      BY DEF SettlementInv, TypeOK, RecordTypeOK, Rows
    <3>2. CASE rows[l].signature
      <4>1. \A k \in twins : ~ rows'[k].signature
        BY <1>2 DEF SettlementInv, TwinsSound
      <4>2. QED
        BY <1>1, <1>2, <1>3, <3>1, <3>2, <4>1, MovedUnder DEF SettlementInv
    <3>3. CASE ~ rows[l].signature
      BY <1>2, <3>3 DEF SettlementInv, RowsSound, AnswerHolds
    <3>4. QED
      BY <3>2, <3>3
  <2>2. \A l \in twins : ~ rows'[l].signature
    BY <1>2 DEF SettlementInv, TwinsSound
  <2>3. QED
    BY <1>1, <1>2, <1>3, <1>4, <1>5, <2>1, <2>2, MovedUnder DEF SettlementInv

-----------------------------------------------------------------------------
(* The web routes' steps, and their reports.                                  *)

LEMMA ReportsStay ==
    ASSUME reports \subseteq Reports, NEW m \in reports, Answered(m) \/ Unanswered(m)
    PROVE  /\ reports' \subseteq Reports
           /\ \A r \in reports' : \E q \in reports : r.leg = q.leg
<1>1. CASE Answered(m)
  BY <1>1 DEF Answered
<1>2. CASE Unanswered(m)
  <2>1. m \in Reports
    OBVIOUS
  <2>2. ASSUME [m EXCEPT !.tries = @ - 1].tries > 0
        PROVE  [m EXCEPT !.tries = @ - 1] \in Reports
    BY <2>1, <2>2, RecordAssumption DEF Reports
  <2>3. [m EXCEPT !.tries = @ - 1].leg = m.leg
    BY <2>1 DEF Reports
  <2>4. QED
    BY <1>2, <2>2, <2>3 DEF Unanswered
<1>3. QED
  BY <1>1, <1>2

LEMMA PrepareKeeps ==
    ASSUME SettlementInv, NEW l \in Legs, Prepare(l)
    PROVE  SettlementInv'
<1> USE DEF SettlementInv, rowVars, chainVars
<1>1. rows[l] = NoRow /\ landing[l] = NotIn
  BY DEF Prepare, LegsSound, RowsSound
<1>2. Report("quote", l, "none") \in Reports
  BY RecordAssumption DEF Report, Reports
<1>3. height + BlockhashLife \in Nat
  BY SettlementAssumption DEF TypeOK, ChainTypeOK
<1>4. TypeOK'
  BY <1>2, <1>3 DEF Prepare, TypeOK, RecordTypeOK, ChainTypeOK
<1>5. RowsSound' /\ OutboxTellsTheRow'
  BY DEF Prepare, RowsSound, OutboxTellsTheRow
<1>6. LegsSound'
  BY <1>1 DEF Prepare, LegsSound, Report, TypeOK
<1>7. \A k \in Legs : rows[k].signature => lastValid'[k] = lastValid[k]
  BY <1>1 DEF Prepare, NoRow, TypeOK
<1>8. \A k \in Legs : AnswerHolds(k, rows[k].chain_outcome)'
  <2> SUFFICES ASSUME NEW k \in Legs PROVE AnswerHolds(k, rows[k].chain_outcome)'
    OBVIOUS
  <2>1. CASE k = l
    BY <1>1, <2>1 DEF Prepare, NoRow, AnswerHolds
  <2>2. CASE k # l
    BY <2>2 DEF Prepare, AnswerHolds, Status, TypeOK
  <2>3. QED
    BY <2>1, <2>2
<1>9. QED
  <2>1. /\ pass' = pass /\ importing' = importing /\ height <= height'
        /\ landing' = landing /\ rows' = rows /\ twins' = twins /\ altered' = altered
        /\ \A k \in twins : ~ rows'[k].signature
    BY DEF Prepare, TypeOK, ChainTypeOK, TwinsSound
  <2>2. QED
    BY <1>4, <1>5, <1>6, <1>7, <1>8, <2>1, MovedUnder

LEMMA SubmitKeeps ==
    ASSUME SettlementInv, NEW l \in Legs, Submit(l)
    PROVE  SettlementInv'
<1> USE DEF SettlementInv, rowVars
<1>1. PICK result \in Results :
        /\ reports' = reports \union {Report("submission", l, result)}
        /\ broadcast' \in {broadcast, broadcast \union {l}}
  BY DEF Submit
<1>2. Report("submission", l, result) \in Reports
  BY RecordAssumption DEF Report, Reports
<1>3. TypeOK'
  BY <1>1, <1>2 DEF Submit, TypeOK, RecordTypeOK, ChainTypeOK
<1>4. RowsSound' /\ OutboxTellsTheRow'
  BY DEF Submit, RowsSound, OutboxTellsTheRow
<1>5. LegsSound'
  BY <1>1 DEF Submit, LegsSound, Report, TypeOK
<1>6. \A k \in Legs : AnswerHolds(k, rows[k].chain_outcome)'
  BY DEF Submit, AnswerHolds, Status
<1>7. QED
  <2>1. /\ pass' = pass /\ importing' = importing /\ height <= height'
        /\ landing' = landing /\ rows' = rows /\ lastValid' = lastValid
        /\ twins' = twins /\ altered \subseteq altered'
        /\ \A k \in twins : ~ rows'[k].signature
    BY DEF Submit, TypeOK, ChainTypeOK, TwinsSound
  <2>2. QED
    BY <1>3, <1>4, <1>5, <1>6, <2>1, MovedUnder

\* What recording a quote or a submission of leg l leaves of the record.
LEMMA RecordedIsSound ==
    ASSUME SettlementInv, NEW l \in Legs, web[l] # "new",
           \/ QuoteRecorded(l)
           \/ \E result \in Results : /\ rows[l].source # "none"
                                     /\ l \notin twins
                                     /\ SubmissionRecorded(l, result)
           \/ UNCHANGED <<rows, outbox>>
    PROVE  /\ rows' \in [Legs -> Rows]
           /\ outbox' \in [Legs -> Seq({"quoted", "sent", "settled"})]
           /\ RowsSound' /\ OutboxTellsTheRow'
           /\ \A k \in Legs : rows'[k].source # "none" => web[k] # "new"
           /\ \A k \in Legs : rows'[k].chain_outcome = rows[k].chain_outcome
           /\ \A k \in Legs : rows[k].signature => rows'[k].signature
           /\ \A k \in twins : rows'[k].signature = rows[k].signature
<1> USE DEF SettlementInv
<1>1. RecordTypeOK /\ RowsSound /\ OutboxTellsTheRow
  BY DEF TypeOK
<1>2. \A k \in Legs : rows[k].source # "none" => web[k] # "new"
  BY DEF LegsSound
<1>3. CASE UNCHANGED <<rows, outbox>>
  BY <1>1, <1>2, <1>3 DEF RecordTypeOK, RowsSound, OutboxTellsTheRow
<1>7. twins \subseteq Legs
  BY <1>1 DEF RecordTypeOK
<1>4. CASE QuoteRecorded(l) /\ ~ UNCHANGED <<rows, outbox>>
  <2>1. /\ rows[l] = NoRow /\ outbox[l] = <<>>
        /\ rows' = [rows EXCEPT ![l].source = "server"]
        /\ outbox' = [outbox EXCEPT ![l] = Append(@, "quoted")]
    BY <1>1, <1>4 DEF QuoteRecorded, Tell, RowsSound, OutboxTellsTheRow, Story
  <2>2. rows'[l] = [NoRow EXCEPT !.source = "server"] /\ outbox'[l] = <<"quoted">>
    BY <1>1, <2>1 DEF RecordTypeOK
  <2>3. \A k \in Legs \ {l} : rows'[k] = rows[k] /\ outbox'[k] = outbox[k]
    BY <1>1, <2>1 DEF RecordTypeOK
  <2>4. rows' \in [Legs -> Rows] /\ outbox' \in [Legs -> Seq({"quoted", "sent", "settled"})]
    <3>1. [NoRow EXCEPT !.source = "server"] \in Rows
      BY DEF NoRow, Rows
    <3>2. rows' = [rows EXCEPT ![l] = [NoRow EXCEPT !.source = "server"]]
      BY <1>1, <2>1 DEF RecordTypeOK
    <3>3. QED
      BY <1>1, <2>1, <3>1, <3>2 DEF RecordTypeOK
  <2>5. RowsSound'
    BY <1>1, <2>2, <2>3 DEF RowsSound, NoRow, ImportedRow
  <2>6. OutboxTellsTheRow'
    BY <1>1, <2>2, <2>3 DEF OutboxTellsTheRow, Story, NoRow
  <2>7. QED
    BY <1>2, <1>7, <2>1, <2>2, <2>3, <2>4, <2>5, <2>6 DEF NoRow
<1>5. ASSUME NEW result \in Results, rows[l].source # "none", l \notin twins,
             SubmissionRecorded(l, result), ~ UNCHANGED <<rows, outbox>>
      PROVE  /\ rows' \in [Legs -> Rows]
             /\ outbox' \in [Legs -> Seq({"quoted", "sent", "settled"})]
             /\ RowsSound' /\ OutboxTellsTheRow'
             /\ \A k \in Legs : rows'[k].source # "none" => web[k] # "new"
             /\ \A k \in Legs : rows'[k].chain_outcome = rows[k].chain_outcome
             /\ \A k \in Legs : rows[k].signature => rows'[k].signature
             /\ \A k \in twins : rows'[k].signature = rows[k].signature
  <2> DEFINE r == [rows[l] EXCEPT !.signature = TRUE, !.submit_result = result]
  <2>1. /\ rows[l].submit_result = "none" /\ ~ rows[l].signature
        /\ rows[l].source = "server" /\ rows[l].chain_outcome = "none"
        /\ rows[l] \in Rows /\ outbox[l] = <<"quoted">>
    BY <1>1, <1>5 DEF SubmissionRecorded, RowsSound, OutboxTellsTheRow, Story,
                      ImportedRow, RecordTypeOK, Rows
  <2>2. r \in Rows /\ r.source = "server" /\ r.signature /\ r.submit_result = result
        /\ r.chain_outcome = "none"
    BY <2>1 DEF Rows
  <2>3. /\ rows' = [rows EXCEPT ![l] = r]
        /\ outbox' = [outbox EXCEPT ![l] = <<"quoted", "sent">>]
    <3>1. Append(outbox[l], "sent") = <<"quoted", "sent">>
      BY <2>1, StoriesGrow
    <3>2. rows' = [rows EXCEPT ![l] = r]
      BY <1>1, <1>5, <2>1 DEF SubmissionRecorded, RecordTypeOK, Rows
    <3>3. outbox' = [outbox EXCEPT ![l] = Append(outbox[l], "sent")]
      BY <1>1, <1>5, <2>1 DEF SubmissionRecorded, Tell, RecordTypeOK
    <3>4. QED
      BY <3>1, <3>2, <3>3
  <2> HIDE DEF r
  <2>4. rows' \in [Legs -> Rows] /\ outbox' \in [Legs -> Seq({"quoted", "sent", "settled"})]
    BY <1>1, <2>2, <2>3 DEF RecordTypeOK
  <2>5. RowsSound'
    BY <1>1, <2>2, <2>3 DEF RowsSound, RecordTypeOK, Results
  <2>6. OutboxTellsTheRow'
    BY <1>1, <2>2, <2>3 DEF OutboxTellsTheRow, Story, RecordTypeOK, Results
  <2>7. QED
    BY <1>1, <1>2, <1>5, <1>7, <2>1, <2>2, <2>3, <2>4, <2>5, <2>6 DEF RecordTypeOK
<1>6. QED
  BY <1>3, <1>4, <1>5

LEMMA DeliverKeeps ==
    ASSUME SettlementInv, Deliver
    PROVE  SettlementInv'
<1> USE DEF SettlementInv, chainVars, webVars
<1>1. PICK m \in reports : DeliverQuote(m) \/ DeliverSubmission(m) \/ LoseReport(m)
  BY DEF Deliver
<1>2. m \in Reports /\ m.leg \in Legs /\ web[m.leg] # "new"
  BY DEF TypeOK, RecordTypeOK, Reports, LegsSound
<1>3. Answered(m) \/ Unanswered(m)
  BY <1>1 DEF DeliverQuote, DeliverSubmission, LoseReport
<1>5. reports' \subseteq Reports /\ \A r \in reports' : \E q \in reports : r.leg = q.leg
  BY <1>3, ReportsStay DEF TypeOK, RecordTypeOK
<1>6. /\ rows' \in [Legs -> Rows]
      /\ outbox' \in [Legs -> Seq({"quoted", "sent", "settled"})]
      /\ RowsSound' /\ OutboxTellsTheRow'
      /\ \A k \in Legs : rows'[k].source # "none" => web[k] # "new"
      /\ \A k \in Legs : rows'[k].chain_outcome = rows[k].chain_outcome
      /\ \A k \in Legs : rows[k].signature => rows'[k].signature
      /\ \A k \in twins : rows'[k].signature = rows[k].signature
  <2>1. DeliverSubmission(m) => m.result \in Results
    BY <1>2 DEF DeliverSubmission, Reports
  <2>2. \/ QuoteRecorded(m.leg)
        \/ \E result \in Results :
               /\ rows[m.leg].source # "none"
               /\ m.leg \notin twins
               /\ SubmissionRecorded(m.leg, result)
        \/ UNCHANGED <<rows, outbox>>
    BY <1>1, <2>1 DEF DeliverQuote, DeliverSubmission, LoseReport, rowVars
  <2>3. QED
    BY <1>2, <2>2, RecordedIsSound
<1>7. UNCHANGED <<height, landing, broadcast, web, lastValid, altered, twins, pass, notices,
                  importing, imported, stops>>
  BY <1>1 DEF Deliver, DeliverQuote, DeliverSubmission, LoseReport, rowVars
<1>8. TypeOK'
  BY <1>5, <1>6, <1>7 DEF TypeOK, RecordTypeOK, ChainTypeOK
<1>9. LegsSound'
  <2>1. ASSUME NEW k \in Legs, web[k] = "new"
        PROVE  rows'[k].source = "none" /\ \A r \in reports' : r.leg # k
    <3>1. rows'[k].source = "none"
      BY <1>6, <2>1
    <3>2. \A q \in reports : q.leg # k
      BY <2>1 DEF LegsSound
    <3>3. QED
      BY <1>5, <3>1, <3>2
  <2>2. QED
    BY <1>7, <2>1 DEF LegsSound
<1>10. \A k \in Legs : AnswerHolds(k, rows[k].chain_outcome)'
  BY <1>6, <1>7 DEF AnswerHolds, Status
<1>11. QED
  <2>1. height <= height'
    BY <1>7 DEF TypeOK, ChainTypeOK
  <2>2. \A k \in twins : ~ rows'[k].signature
    BY <1>6 DEF TwinsSound
  <2>3. QED
    BY <1>6, <1>7, <1>8, <1>9, <1>10, <2>1, <2>2, MovedUnder

-----------------------------------------------------------------------------
(* Settling a leg, and importing one.                                         *)

\* The rows and outbox rows once leg l, signed and unsettled, is answered.
LEMMA SettledIsSound ==
    ASSUME SettlementInv, NEW l \in Legs, NEW a \in Outcomes,
           rows[l].signature, rows[l].chain_outcome = "none", AnswerHolds(l, a),
           rows' = [rows EXCEPT ![l].chain_outcome = a],
           Tell(l, "settled")
    PROVE  /\ rows' \in [Legs -> Rows]
           /\ outbox' \in [Legs -> Seq({"quoted", "sent", "settled"})]
           /\ RowsSound' /\ OutboxTellsTheRow'
           /\ \A k \in Legs : AnswerHolds(k, rows'[k].chain_outcome)
           /\ \A k \in Legs : /\ rows'[k].signature = rows[k].signature
                              /\ rows'[k].source = rows[k].source
<1> USE DEF SettlementInv
<1> DEFINE r == [rows[l] EXCEPT !.chain_outcome = a]
<1>1. RecordTypeOK /\ RowsSound /\ OutboxTellsTheRow
  BY DEF TypeOK
<1>2. /\ rows[l] \in Rows /\ rows[l].source = "server" /\ rows[l].submit_result # "none"
      /\ outbox[l] = <<"quoted", "sent">>
  BY <1>1 DEF RecordTypeOK, Rows, RowsSound, OutboxTellsTheRow, Story, NoRow, ImportedRow
<1>3. /\ r \in Rows /\ r.source = "server" /\ r.signature /\ r.chain_outcome = a
      /\ r.submit_result = rows[l].submit_result
  BY <1>2 DEF Rows
<1>4. rows' = [rows EXCEPT ![l] = r]
  BY <1>1 DEF RecordTypeOK, Rows
<1>5. outbox' = [outbox EXCEPT ![l] = <<"quoted", "sent", "settled">>]
  BY <1>1, <1>2, StoriesGrow DEF Tell, RecordTypeOK
<1> HIDE DEF r
<1>6. rows' \in [Legs -> Rows] /\ outbox' \in [Legs -> Seq({"quoted", "sent", "settled"})]
  <2>1. <<"quoted", "sent", "settled">> \in Seq({"quoted", "sent", "settled"})
    OBVIOUS
  <2>2. rows' \in [Legs -> Rows]
    BY <1>1, <1>3, <1>4 DEF RecordTypeOK
  <2>3. outbox' \in [Legs -> Seq({"quoted", "sent", "settled"})]
    BY <1>1, <1>5, <2>1 DEF RecordTypeOK
  <2>4. QED
    BY <2>2, <2>3
<1>7. RowsSound'
  BY <1>1, <1>2, <1>3, <1>4 DEF RowsSound, RecordTypeOK
<1>8. OutboxTellsTheRow'
  <2>1. Story(r) = <<"quoted", "sent", "settled">>
    BY <1>2, <1>3 DEF Story, Outcomes
  <2>2. rows'[l] = r /\ outbox'[l] = <<"quoted", "sent", "settled">>
    BY <1>1, <1>4, <1>5 DEF RecordTypeOK
  <2>3. \A k \in Legs \ {l} : rows'[k] = rows[k] /\ outbox'[k] = outbox[k]
    BY <1>1, <1>4, <1>5 DEF RecordTypeOK
  <2>4. \A k \in Legs : outbox'[k] = Story(rows'[k])
    BY <1>1, <2>1, <2>2, <2>3 DEF OutboxTellsTheRow
  <2>5. QED
    BY <2>4 DEF OutboxTellsTheRow, Story
<1>9. \A k \in Legs : AnswerHolds(k, rows'[k].chain_outcome)
  BY <1>1, <1>3, <1>4 DEF RecordTypeOK
<1>10. QED
  BY <1>1, <1>3, <1>4, <1>6, <1>7, <1>8, <1>9 DEF RecordTypeOK

\* The chain stands still and the record only gains: everything else is kept.
LEMMA RecordGains ==
    ASSUME SettlementInv, UNCHANGED <<reports, chainVars, webVars, notices, stops>>,
           rows' \in [Legs -> Rows],
           outbox' \in [Legs -> Seq({"quoted", "sent", "settled"})],
           RowsSound', OutboxTellsTheRow',
           \A k \in Legs : AnswerHolds(k, rows'[k].chain_outcome),
           \A k \in Legs : rows[k].signature => rows'[k].signature,
           \A k \in Legs : rows[k].source = "none" /\ web[k] = "new"
                              => rows'[k].source = "none",
           importing' \in Legs \union {NoLeg}, imported' \subseteq Legs, ImportSound',
           twins' \subseteq Legs, TwinsSound',
           pass' \in [Gateways -> Passes], \A g \in Gateways : PassSound(pass'[g])
    PROVE  SettlementInv'
<1> USE DEF SettlementInv, chainVars, webVars
<1>1. TypeOK'
  BY DEF TypeOK, RecordTypeOK, ChainTypeOK
<1>2. LegsSound'
  BY DEF LegsSound
<1>3. (\A k \in Legs : AnswerHolds(k, rows[k].chain_outcome))'
  BY DEF AnswerHolds, Status
<1>4. ASSUME NEW q \in Passes, PassSound(q) PROVE PassSound(q)'
  BY <1>4 DEF PassSound, AnswerHolds, Status, Passes
<1>5. (\A g \in Gateways : PassSound(pass[g]))'
  BY <1>4
<1>6. QED
  BY <1>1, <1>2, <1>3, <1>5

LEMMA SettleLegKeeps ==
    ASSUME SettlementInv, NEW g \in Gateways, SettleLeg(g)
    PROVE  SettlementInv'
<1> DEFINE p == pass[g]
           l == p.leg
           q == IF p.answer = "landed" THEN [p EXCEPT !.step = "counting"]
                                       ELSE Heard(p, l, FALSE)
<1>1. /\ p \in Passes /\ PassSound(p) /\ l \in Legs /\ l \in p.todo
      /\ p.answer \in Outcomes /\ AnswerHolds(l, p.answer) /\ rows[l].signature
  BY DEF SettlementInv, TypeOK, SettleLeg, PassSound, Passes
<1>2. CASE ~ StillUnsettled(l)
  <2>1. Skipped(p, l) \in Passes /\ PassSound(Skipped(p, l))
    BY <1>1, SkippedKeepsSound
  <2>2. pass' = [pass EXCEPT ![g] = Skipped(p, l)] /\ UNCHANGED <<rows, outbox>>
    BY <1>2 DEF SettleLeg
  <2>3. QED
    BY <2>1, <2>2, PassMoves DEF SettleLeg, SettlementInv, TypeOK, recordVars, rowVars
<1>3. CASE StillUnsettled(l)
  <2>1. /\ rows' = [rows EXCEPT ![l].chain_outcome = p.answer]
        /\ Tell(l, "settled")
        /\ pass' = [pass EXCEPT ![g] = q]
    BY <1>3 DEF SettleLeg
  <2>2. q \in Passes
    BY <1>1, EditPass, HeardFields
  <2>3. PassSound(q)
    <3>1. CASE p.answer = "landed"
      BY <1>1, <3>1 DEF PassSound, Passes
    <3>2. CASE p.answer # "landed"
      <4> HIDE DEF p
      <4>1. /\ q.step = "judging" /\ q.todo = p.todo \ {l} /\ q.height = p.height
            /\ \A m \in Legs : q.statuses[m] \in {p.statuses[m], "unseen"}
        BY <1>1, <3>2, HeardFields
      <4> HIDE DEF q
      <4>2. QED
        BY <1>1, <4>1 DEF PassSound
    <3>3. QED
      BY <3>1, <3>2
  <2>4. /\ rows' \in [Legs -> Rows]
        /\ outbox' \in [Legs -> Seq({"quoted", "sent", "settled"})]
        /\ RowsSound' /\ OutboxTellsTheRow'
        /\ \A k \in Legs : AnswerHolds(k, rows'[k].chain_outcome)
        /\ \A k \in Legs : /\ rows'[k].signature = rows[k].signature
                           /\ rows'[k].source = rows[k].source
    BY <1>1, <1>3, <2>1, SettledIsSound DEF StillUnsettled
  <2>5. UNCHANGED <<twins, reports, chainVars, webVars, notices, importing, imported, stops>>
    BY DEF SettleLeg
  <2>6. ImportSound' /\ importing' \in Legs \union {NoLeg} /\ imported' \subseteq Legs
    BY <2>5 DEF SettlementInv, ImportSound, Status, chainVars, TypeOK
  <2>9. twins' \subseteq Legs /\ TwinsSound'
    BY <2>4, <2>5 DEF SettlementInv, TwinsSound, Status, chainVars, webVars, TypeOK, RecordTypeOK
  <2> HIDE DEF q, p
  <2>7. pass' \in [Gateways -> Passes] /\ \A h \in Gateways : PassSound(pass'[h])
    BY <2>1, <2>2, <2>3 DEF SettlementInv, TypeOK
  <2>8. QED
    BY <2>4, <2>5, <2>6, <2>7, <2>9, RecordGains
<1>4. QED
  BY <1>2, <1>3

LEMMA ImportKeeps ==
    ASSUME SettlementInv, WriteImport \/ StopImport \/ \E l \in Legs : StartImport(l)
    PROVE  SettlementInv'
<1> USE DEF SettlementInv
<1>1. ASSUME NEW l \in Legs, StartImport(l) PROVE SettlementInv'
  <2> USE DEF recordVars, rowVars, chainVars, webVars
  <2>1. TypeOK' /\ RowsSound' /\ OutboxTellsTheRow' /\ LegsSound'
    BY <1>1 DEF StartImport, TypeOK, RecordTypeOK, ChainTypeOK, RowsSound,
                OutboxTellsTheRow, LegsSound
  <2>2. ImportSound' /\ TwinsSound'
    BY <1>1 DEF StartImport, ImportSound, TwinsSound, Status
  <2>3. (\A k \in Legs : AnswerHolds(k, rows[k].chain_outcome))'
    BY <1>1 DEF StartImport, AnswerHolds, Status
  <2>4. \A g \in Gateways : PassSound(pass[g])'
    BY <1>1 DEF StartImport, PassSound, AnswerHolds, Status
  <2>5. pass' = pass
    BY <1>1 DEF StartImport
  <2>6. QED
    BY <2>1, <2>2, <2>3, <2>4, <2>5
<1>2. ASSUME StopImport PROVE SettlementInv'
  <2> USE DEF recordVars, rowVars, chainVars, webVars
  <2>1. TypeOK' /\ RowsSound' /\ OutboxTellsTheRow' /\ LegsSound' /\ ImportSound' /\ TwinsSound'
    BY <1>2 DEF StopImport, TypeOK, RecordTypeOK, ChainTypeOK, RowsSound,
                OutboxTellsTheRow, LegsSound, ImportSound, TwinsSound, Status
  <2>2. (\A k \in Legs : AnswerHolds(k, rows[k].chain_outcome))'
    BY <1>2 DEF StopImport, AnswerHolds, Status
  <2>3. \A g \in Gateways : PassSound(pass[g])'
    BY <1>2 DEF StopImport, PassSound, AnswerHolds, Status
  <2>4. pass' = pass
    BY <1>2 DEF StopImport
  <2>5. QED
    BY <2>1, <2>2, <2>3, <2>4
<1>3. ASSUME WriteImport PROVE SettlementInv'
  <2> DEFINE l == importing
  <2>1. /\ l \in Legs /\ Status(l) = "confirmed" /\ ~ landing[l].err
        /\ importing' = NoLeg /\ imported' = imported \union {l} /\ imported' \subseteq Legs
        /\ UNCHANGED <<reports, chainVars, webVars, pass, notices, stops>>
    BY <1>3 DEF WriteImport, ImportSound, TypeOK
  <2>2. ImportSound'
    BY <2>1 DEF ImportSound
  <2>3. RecordTypeOK /\ RowsSound /\ OutboxTellsTheRow
    BY DEF TypeOK
  <2>4. /\ rows' \in [Legs -> Rows]
        /\ outbox' \in [Legs -> Seq({"quoted", "sent", "settled"})]
        /\ RowsSound' /\ OutboxTellsTheRow'
        /\ \A k \in Legs : AnswerHolds(k, rows'[k].chain_outcome)
        /\ \A k \in Legs : rows[k].signature => rows'[k].signature
        /\ \A k \in Legs : rows[k].source = "none" /\ web[k] = "new"
                              => rows'[k].source = "none"
        /\ twins' \subseteq Legs /\ TwinsSound'
    <3>1. CASE ImportConflicts(l)
      BY <1>3, <2>1, <2>3, <3>1 DEF WriteImport, RecordTypeOK, RowsSound, OutboxTellsTheRow,
                                    TwinsSound, Status, rowVars, chainVars, webVars
    <3>4. CASE ~ ImportConflicts(l) /\ l \in altered
      BY <1>3, <2>1, <2>3, <3>4 DEF WriteImport, ImportConflicts, InsertImportedLeg, RecordTypeOK,
                                    RowsSound, OutboxTellsTheRow, TwinsSound, Status,
                                    chainVars, webVars
    <3>2. CASE ~ ImportConflicts(l) /\ l \notin altered
      <4>1. /\ rows[l] = NoRow /\ outbox[l] = <<>>
            /\ rows' = [rows EXCEPT ![l] = ImportedRow]
            /\ outbox' = [outbox EXCEPT ![l] = <<"settled">>]
        BY <1>3, <2>1, <2>3, <3>2 DEF ImportConflicts, WriteImport, InsertImportedLeg, Tell,
                                      RowsSound, OutboxTellsTheRow, Story, RecordTypeOK
      <4>2. web[l] # "new"
        BY <2>1 DEF Status, LegsSound
      <4>3. ImportedRow \in Rows
        BY DEF ImportedRow, Rows, Results, Outcomes
      <4>4. rows' \in [Legs -> Rows] /\ outbox' \in [Legs -> Seq({"quoted", "sent", "settled"})]
        BY <2>1, <2>3, <4>1, <4>3 DEF RecordTypeOK
      <4>5. RowsSound'
        BY <2>3, <4>1 DEF RowsSound, ImportedRow, RecordTypeOK
      <4>6. OutboxTellsTheRow'
        BY <2>3, <4>1 DEF OutboxTellsTheRow, Story, ImportedRow, RecordTypeOK
      <4>7. AnswerHolds(l, "landed")
        BY <2>1 DEF AnswerHolds
      <4>8. \A k \in Legs : AnswerHolds(k, rows'[k].chain_outcome)
        BY <2>3, <4>1, <4>7 DEF ImportedRow, RecordTypeOK
      <4>9. twins' = twins
        BY <1>3, <3>2 DEF WriteImport, InsertImportedLeg
      <4>10. twins' \subseteq Legs /\ TwinsSound'
        BY <2>1, <2>3, <3>2, <4>1, <4>9 DEF TwinsSound, Status, chainVars, webVars, RecordTypeOK
      <4>11. QED
        BY <2>3, <4>1, <4>2, <4>4, <4>5, <4>6, <4>8, <4>10 DEF NoRow, RecordTypeOK
    <3>3. QED
      BY <3>1, <3>2, <3>4
  <2>5. QED
    BY <2>1, <2>2, <2>4, RecordGains DEF TypeOK
<1>4. QED
  BY <1>1, <1>2, <1>3

-----------------------------------------------------------------------------
(* The theorems.                                                              *)

LEMMA StatusOfALeg ==
    ASSUME ChainTypeOK, NEW l \in Legs
    PROVE  /\ landing[l] = NotIn => Status(l) = "unseen"
           /\ Status(l) = "processed" => landing[l] # NotIn /\ landing[l].block > height
<1>1. landing[l] = NotIn => ~ landing[l].block > height
  BY SettlementAssumption DEF ChainTypeOK, NotIn
<1>2. QED
  BY <1>1 DEF Status

LEMMA NextKeepsInv == SettlementInv /\ [Next]_vars => SettlementInv'
<1> SUFFICES ASSUME SettlementInv, [Next]_vars PROVE SettlementInv'
  OBVIOUS
<1>1. CASE UNCHANGED vars
  <2> USE DEF vars, recordVars, rowVars, chainVars, webVars
  <2>1. TypeOK' /\ RowsSound' /\ OutboxTellsTheRow' /\ LegsSound' /\ ImportSound' /\ TwinsSound'
    BY <1>1 DEF SettlementInv, TypeOK, RecordTypeOK, ChainTypeOK, RowsSound,
                OutboxTellsTheRow, LegsSound, ImportSound, TwinsSound, Status
  <2>2. (\A l \in Legs : AnswerHolds(l, rows[l].chain_outcome))'
    BY <1>1 DEF SettlementInv, AnswerHolds, Status
  <2>3. \A g \in Gateways : PassSound(pass[g])'
    BY <1>1 DEF SettlementInv, PassSound, AnswerHolds, Status
  <2>4. QED
    BY <1>1, <2>1, <2>2, <2>3 DEF SettlementInv
<1>2. CASE Grow \/ \E l \in Legs : Land(l) \/ Fork(l)
  BY <1>2, ChainMovesKeep
<1>3. ASSUME NEW l \in Legs, Prepare(l) \/ Submit(l) PROVE SettlementInv'
  BY <1>3, PrepareKeeps, SubmitKeeps
<1>4. CASE Deliver
  BY <1>4, DeliverKeeps
<1>5. ASSUME NEW g \in Gateways, PassStep(g) PROVE SettlementInv'
  BY <1>5, ReadUnsettledKeeps, AskStatusesKeeps, JudgeUnseenKeeps, SkipKeeps,
     ReadTransactionKeeps, SettleLegKeeps, MissSettleLegKeeps, CountLandedKeeps,
     PassEndsKeeps DEF PassStep
<1>6. CASE WriteImport \/ StopImport \/ \E l \in Legs : StartImport(l)
  BY <1>6, ImportKeeps
<1>7. QED
  BY <1>1, <1>2, <1>3, <1>4, <1>5, <1>6 DEF Next

\* Whatever order the routes, passes, imports and the chain move in.
LEMMA AlwaysSound == Spec => []SettlementInv
<1>1. QED
  BY InitInv, NextKeepsInv, PTL DEF Spec

\* Every variable keeps to what the code can put in it.
THEOREM SettlementTypeCorrect == Spec => []TypeOK
<1>1. SettlementInv => TypeOK
  BY DEF SettlementInv
<1>2. QED
  BY <1>1, AlwaysSound, PTL

\* The outbox holds each change of every leg once and in order, through retried
\* and lost reports, racing passes, stopped Gateways and imports.
THEOREM OutboxAlwaysTellsTheRow == Spec => []OutboxTellsTheRow
<1>1. SettlementInv => OutboxTellsTheRow
  BY DEF SettlementInv
<1>2. QED
  BY <1>1, AlwaysSound, PTL

\* A leg recorded as landed or failed is confirmed on chain, and did just that.
THEOREM AnswersAreAlwaysTheChains == Spec => []AnswersAreTheChains
<1>1. SettlementInv => AnswersAreTheChains
  BY DEF SettlementInv, AnswersAreTheChains, AnswerHolds
<1>2. QED
  BY <1>1, AlwaysSound, PTL

\* A trade recorded in two rows is told as settled by one of them only.
THEOREM AlwaysSettledOnce == Spec => []SettledOnce
<1>1. SettlementInv => SettledOnce
  <2> SUFFICES ASSUME SettlementInv, NEW l \in twins, NEW i \in DOMAIN outbox[l]
               PROVE  outbox[l][i] # "settled"
    BY DEF SettledOnce
  <2>1. l \in Legs /\ ~ rows[l].signature
    BY DEF SettlementInv, TwinsSound, TypeOK, RecordTypeOK
  <2>2. rows[l].source \in {"none", "server"} /\ rows[l].submit_result = "none"
    BY <2>1 DEF SettlementInv, RowsSound, ImportedRow, TypeOK, RecordTypeOK, Rows
  <2>3. outbox[l] = <<>> \/ outbox[l] = <<"quoted">>
    BY <2>1, <2>2 DEF SettlementInv, OutboxTellsTheRow, Story
  <2>4. QED
    BY <2>3
<1>2. QED
  BY <1>1, AlwaysSound, PTL

AnswersStay == \A l \in Legs : rows[l].chain_outcome # "none" =>
                  rows'[l].chain_outcome = rows[l].chain_outcome

LEMMA NextKeepsAnswers == ASSUME SettlementInv, Next PROVE AnswersStay
<1> USE DEF recordVars, rowVars, AnswersStay
<1>1. CASE UNCHANGED rows
  BY <1>1
<1>2. CASE Deliver
  <2>1. PICK m \in reports : DeliverQuote(m) \/ DeliverSubmission(m) \/ LoseReport(m)
    BY <1>2 DEF Deliver
  <2>2. CASE UNCHANGED rows
    BY <2>2
  <2>3. CASE rows[m.leg].source = "none" /\ rows' = [rows EXCEPT ![m.leg].source = "server"]
    BY <2>3 DEF SettlementInv, TypeOK, RecordTypeOK, Rows
  <2>4. CASE rows' = [rows EXCEPT ![m.leg].signature = TRUE,
                                  ![m.leg].submit_result = m.result]
    BY <2>4 DEF SettlementInv, TypeOK, RecordTypeOK, Rows
  <2>5. QED
    BY <2>1, <2>2, <2>3, <2>4 DEF DeliverQuote, DeliverSubmission, LoseReport,
                                  QuoteRecorded, SubmissionRecorded
<1>3. ASSUME NEW g \in Gateways, SettleLeg(g) PROVE AnswersStay
  BY <1>3 DEF SettleLeg, StillUnsettled, SettlementInv, TypeOK, RecordTypeOK, Rows
<1>4. CASE WriteImport
  <2>1. CASE UNCHANGED rows
    BY <2>1
  <2>2. CASE rows[importing].source = "none" /\ rows' = [rows EXCEPT ![importing] = ImportedRow]
    <3>1. importing \in Legs
      BY <1>4 DEF WriteImport, SettlementInv, TypeOK
    <3>2. rows[importing].chain_outcome = "none"
      BY <2>2, <3>1 DEF SettlementInv, RowsSound, NoRow
    <3>3. QED
      BY <2>2, <3>1, <3>2 DEF SettlementInv, TypeOK, RecordTypeOK
  <2>3. QED
    <3>1. importing \in Legs
      BY <1>4 DEF WriteImport, SettlementInv, TypeOK
    <3>2. CASE ImportConflicts(importing) \/ importing \in altered
      BY <1>4, <2>1, <3>2 DEF WriteImport, InsertImportedLeg
    <3>3. QED
      BY <1>4, <2>2, <3>1, <3>2 DEF WriteImport, InsertImportedLeg, ImportConflicts
<1>5. QED
  BY <1>1, <1>2, <1>3, <1>4
     DEF Next, PassStep, Grow, Land, Fork, Prepare, Submit, StartImport, StopImport,
         ReadUnsettled, AskStatuses, MissStatuses, JudgeUnseen, SkipUnconfirmed,
         ReadTransaction, MissTransaction, MissSettleLeg, CountLanded, FinishPass, Stop

\* No step of any process replaces the answer a leg was first given.
THEOREM FirstAnswerAlwaysStands == Spec => FirstAnswerStands
<1>1. SettlementInv /\ [Next]_vars => AnswersStay \/ UNCHANGED vars
  BY NextKeepsAnswers
<1>2. QED
  BY <1>1, AlwaysSound, PTL DEF Spec, FirstAnswerStands, AnswersStay

\* Once a leg is settled the chain never again changes where it is: nothing is
\* called dropped that can still land, nor landed that can still be abandoned.
THEOREM SettledIsAlwaysFinal == Spec => SettledIsFinal
<1> DEFINE Stays == \A l \in Legs : rows[l].chain_outcome # "none" =>
                        landing'[l] = landing[l]
<1>1. SettlementInv /\ [Next]_vars => Stays \/ UNCHANGED vars
  <2> SUFFICES ASSUME SettlementInv, Next PROVE Stays
    OBVIOUS
  <2> USE DEF chainVars
  <2>1. CASE UNCHANGED landing
    BY <2>1
  <2>2. \A l \in Legs : /\ rows[l].chain_outcome \in Outcomes \union {"none"}
                        /\ AnswerHolds(l, rows[l].chain_outcome)
                        /\ landing[l] # NotIn => landing[l].block <= lastValid[l]
                        /\ lastValid[l] \in Nat /\ landing[l].block \in Nat
    BY DEF SettlementInv, TypeOK, RecordTypeOK, ChainTypeOK, Rows, LegsSound
  <2>3. height \in Nat /\ DropMargin \in Nat
    BY SettlementAssumption DEF SettlementInv, TypeOK, ChainTypeOK
  <2>4. ASSUME NEW l \in Legs, Land(l) PROVE rows[l].chain_outcome = "none"
    <3>1. PICK b \in height + 1 .. lastValid[l] : TRUE
      BY <2>4 DEF Land
    <3>2. Status(l) = "unseen"
      BY <2>4, StatusOfALeg DEF Land, SettlementInv, TypeOK
    <3>3. QED
      BY <2>2, <2>3, <3>1, <3>2 DEF AnswerHolds, Outcomes
  <2>5. ASSUME NEW l \in Legs, Fork(l) PROVE rows[l].chain_outcome = "none"
    <3>1. Status(l) = "processed" /\ landing[l] # NotIn /\ landing[l].block > height
      BY <2>5, StatusOfALeg DEF Fork, SettlementInv, TypeOK
    <3>2. QED
      BY <2>2, <2>3, <3>1 DEF AnswerHolds, Outcomes
  <2>6. QED
    BY <2>1, <2>4, <2>5
       DEF Next, PassStep, Grow, Land, Fork, Prepare, Submit, Deliver, StartImport,
           WriteImport, StopImport, ReadUnsettled, AskStatuses, MissStatuses,
           JudgeUnseen, SkipUnconfirmed, ReadTransaction, MissTransaction, SettleLeg,
           MissSettleLeg, CountLanded, FinishPass, Stop, SettlementInv, TypeOK, ChainTypeOK
<1>2. QED
  BY <1>1, AlwaysSound, PTL DEF Spec, SettledIsFinal

-----------------------------------------------------------------------------
(* What the team is told of settlement. *)

\* What a notice and a pass's settlement name.
LEMMA ToldAreSettlements ==
    ASSUME SettlementInv
    PROVE  /\ Told \subseteq Settlements
           /\ \A g \in Gateways : pass[g] \in Passes /\ pass[g].settled \subseteq Settlements
  BY DEF SettlementInv, TypeOK, Passes, Told

LEMMA ToldAreAnswered ==
    ASSUME SettlementInv, NoticesInv, NEW s \in Told
    PROVE  /\ s.leg \in Legs /\ s.outcome \in Outcomes
           /\ rows[s.leg].chain_outcome = s.outcome /\ s.outcome # "none"
<1>1. s \in Settlements
  BY ToldAreSettlements
<1>2. rows[s.leg].chain_outcome = s.outcome
  BY DEF NoticesInv, NoticesTellTheRecord, Told
<1>3. QED
  BY <1>1, <1>2 DEF Settlements, Outcomes

LEMMA CountingFields ==
    ASSUME SettlementInv, NEW g \in Gateways, pass[g].step \in {"writing", "counting"}
    PROVE  /\ pass[g].leg \in Legs /\ pass[g].answer \in Outcomes
           /\ pass[g].step = "counting" => pass[g].answer = "landed"
  BY DEF SettlementInv, TypeOK, PassSound, Passes, Outcomes

LEMMA InitNotices == Init => NoticesInv
  BY DEF Init, Idle, NoticesInv, NoticesTellTheRecord, FirstSound, Told

\* Nothing new is settled, counted or told.
LEMMA QuietKeeps ==
    ASSUME SettlementInv, NoticesInv, AnswersStay, UNCHANGED notices,
           \A g \in Gateways :
              /\ pass'[g].settled \subseteq pass[g].settled
              /\ pass'[g].step = "counting"
                    => pass[g].step = "counting" /\ pass'[g].leg = pass[g].leg
    PROVE  NoticesInv'
<1>1. Told' \subseteq Told
  BY DEF Told
<1>2. \A s \in Told : rows'[s.leg].chain_outcome = s.outcome
  BY ToldAreAnswered DEF AnswersStay
<1>3. NoticesTellTheRecord'
  <2>1. \A n \in notices' : rows'[n.leg].chain_outcome = n.outcome
    BY <1>2 DEF Told
  <2>2. ASSUME NEW g \in Gateways, NEW s \in pass'[g].settled
        PROVE  /\ rows'[s.leg].chain_outcome = s.outcome
               /\ \A n \in notices' : n.leg # s.leg
               /\ \A h \in Gateways \ {g} : \A t \in pass'[h].settled : t.leg # s.leg
    <3>1. s \in pass[g].settled /\ s \in Told
      BY DEF Told
    <3>2. QED
      BY <1>2, <3>1 DEF NoticesInv, NoticesTellTheRecord
  <2>3. QED
    BY <2>1, <2>2 DEF NoticesTellTheRecord
<1>4. ASSUME NEW g \in Gateways, pass'[g].step = "counting" PROVE CountingSound(g)'
  <2>1. pass[g].step = "counting" /\ pass'[g].leg = pass[g].leg /\ CountingSound(g)
    BY <1>4 DEF NoticesInv
  <2>2. rows'[pass[g].leg].chain_outcome = "landed"
    BY <2>1, CountingFields DEF CountingSound, AnswersStay
  <2>3. QED
    BY <1>1, <2>1, <2>2 DEF CountingSound
<1>5. FirstSound'
  BY <1>1 DEF NoticesInv, FirstSound
<1>6. QED
  BY <1>3, <1>4, <1>5 DEF NoticesInv

LEMMA PassMovesQuietly ==
    ASSUME SettlementInv, NoticesInv, AnswersStay, UNCHANGED notices,
           NEW g \in Gateways, NEW p, pass' = [pass EXCEPT ![g] = p],
           p.settled \subseteq pass[g].settled, p.step # "counting"
    PROVE  NoticesInv'
<1>1. pass'[g] = p /\ \A h \in Gateways \ {g} : pass'[h] = pass[h]
  BY DEF SettlementInv, TypeOK
<1>2. QED
  BY <1>1, QuietKeeps

LEMMA QuietPassSteps ==
    ASSUME SettlementInv, NoticesInv, AnswersStay, NEW g \in Gateways,
           \/ ReadUnsettled(g) \/ AskStatuses(g) \/ MissStatuses(g) \/ MissSettleLeg(g) \/ Stop(g)
           \/ \E l \in Legs : \/ JudgeUnseen(g, l) \/ SkipUnconfirmed(g, l)
                              \/ ReadTransaction(g, l) \/ MissTransaction(g, l)
    PROVE  NoticesInv'
<1>1. pass[g] \in Passes /\ UNCHANGED notices
  BY ToldAreSettlements
     DEF ReadUnsettled, AskStatuses, MissStatuses, MissSettleLeg, Stop, JudgeUnseen,
         SkipUnconfirmed, ReadTransaction, MissTransaction
<1>2. CASE ReadUnsettled(g) \/ AskStatuses(g)
  <2>1. ASSUME NEW S \in SUBSET Legs
        PROVE  /\ [pass[g] EXCEPT !.step = "read", !.todo = S].settled = pass[g].settled
               /\ [pass[g] EXCEPT !.step = "read", !.todo = S].step = "read"
    BY <1>1 DEF Passes
  <2>2. Oldest(Unsettled) \in SUBSET Legs
    BY DEF Oldest, Unsettled
  <2>3. CASE ReadUnsettled(g)
    BY <1>1, <2>1, <2>2, <2>3, PassMovesQuietly DEF ReadUnsettled
  <2>4. CASE AskStatuses(g)
    <3>1. PICK answers :
            pass' = [pass EXCEPT ![g] = [@ EXCEPT !.step = "judging", !.statuses = answers,
                                                  !.asked = height]]
      BY <2>4 DEF AskStatuses
    <3> DEFINE q == [pass[g] EXCEPT !.step = "judging", !.statuses = answers, !.asked = height]
    <3>2. q.settled = pass[g].settled /\ q.step = "judging"
      BY <1>1 DEF Passes
    <3>3. pass' = [pass EXCEPT ![g] = q]
      BY <3>1
    <3> HIDE DEF q
    <3>4. QED
      BY <1>1, <3>2, <3>3, PassMovesQuietly
  <2>5. QED
    BY <1>2, <2>3, <2>4
<1>3. CASE MissStatuses(g) \/ Stop(g)
  BY <1>1, <1>3, PassMovesQuietly DEF MissStatuses, Stop, Idle
<1>4. ASSUME NEW l \in Legs, pass' = [pass EXCEPT ![g] = Skipped(pass[g], l)] PROVE NoticesInv'
  BY <1>1, <1>4, SkippedFields, PassMovesQuietly
<1>5. CASE MissSettleLeg(g)
  BY <1>4, <1>5, CountingFields DEF MissSettleLeg
<1>6. ASSUME NEW l \in Legs, SkipUnconfirmed(g, l) \/ MissTransaction(g, l) PROVE NoticesInv'
  BY <1>4, <1>6 DEF SkipUnconfirmed, MissTransaction
<1>7. ASSUME NEW l \in Legs, NEW p \in Passes, NEW o \in Outcomes,
             p.settled = pass[g].settled, pass' = [pass EXCEPT ![g] = Answering(p, l, o)]
      PROVE  NoticesInv'
  <2>1. Answering(p, l, o).settled = p.settled /\ Answering(p, l, o).step = "writing"
    BY DEF Answering, Passes
  <2>2. QED
    BY <1>1, <1>7, <2>1, PassMovesQuietly
<1>8. ASSUME NEW l \in Legs, ReadTransaction(g, l) PROVE NoticesInv'
  <2>1. Outcome(l) \in Outcomes
    BY DEF Outcome, Outcomes
  <2>2. QED
    BY <1>1, <1>7, <1>8, <2>1 DEF ReadTransaction
<1>9. ASSUME NEW l \in Legs, JudgeUnseen(g, l) PROVE NoticesInv'
  <2> DEFINE h == IF pass[g].height = 0 THEN height ELSE pass[g].height
             p == [pass[g] EXCEPT !.height = h]
  <2>1. h \in 0 .. MaxHeight
    BY <1>1, SettlementAssumption DEF SettlementInv, TypeOK, ChainTypeOK, Passes
  <2>2. \/ pass' = [pass EXCEPT ![g] = Answering(p, l, "dropped")]
        \/ pass' = [pass EXCEPT ![g] = Skipped(p, l)]
    BY <1>9 DEF JudgeUnseen
  <2> HIDE DEF h
  <2>3. p \in Passes /\ p.settled = pass[g].settled
    BY <1>1, <2>1 DEF Passes
  <2> HIDE DEF p
  <2>4. QED
    BY <1>1, <1>7, <2>2, <2>3, SkippedFields, PassMovesQuietly DEF Outcomes
<1>10. QED
  BY <1>2, <1>3, <1>5, <1>6, <1>8, <1>9

-----------------------------------------------------------------------------
(* The steps that settle, count and tell.                                     *)

\* A pass hears of one more leg, which nobody else tells of.
LEMMA HeardKeeps ==
    ASSUME SettlementInv, NoticesInv, AnswersStay, UNCHANGED notices,
           NEW g \in Gateways, NEW first \in BOOLEAN,
           pass[g].step \in {"writing", "counting"},
           pass' = [pass EXCEPT ![g] = Heard(pass[g], pass[g].leg, first)],
           rows'[pass[g].leg].chain_outcome = pass[g].answer,
           \A s \in Told : s.leg # pass[g].leg,
           \A h \in Gateways \ {g} : pass[h].step = "counting" => pass[h].leg # pass[g].leg,
           first => /\ pass[g].answer = "landed"
                    /\ \A t \in Told : ~ t.first
    PROVE  NoticesInv'
<1> DEFINE l == pass[g].leg
           new == [leg |-> l, outcome |-> pass[g].answer, first |-> first]
<1>1. pass[g] \in Passes /\ l \in Legs /\ pass[g].answer \in Outcomes
  BY ToldAreSettlements, CountingFields
<1>2. /\ pass'[g].settled = pass[g].settled \union {new} /\ pass'[g].step = "judging"
      /\ \A h \in Gateways \ {g} : pass'[h] = pass[h]
  <2>1. pass'[g] = Heard(pass[g], l, first) /\ \A h \in Gateways \ {g} : pass'[h] = pass[h]
    BY DEF SettlementInv, TypeOK
  <2>2. Skipped(pass[g], l) \in Passes /\ Skipped(pass[g], l).settled = pass[g].settled
    BY <1>1, SkippedIsPass, SkippedFields
  <2>3. Heard(pass[g], l, first).settled = pass[g].settled \union {new}
    BY <2>2 DEF Heard, Passes
  <2>4. QED
    BY <1>1, <2>1, <2>3, HeardFields
<1>3. new.leg = l /\ new.outcome = pass[g].answer /\ new.first = first
  OBVIOUS
<1> HIDE DEF new
<1>4. Told' = Told \union {new}
  BY <1>2 DEF Told
<1>5. \A s \in Told : rows'[s.leg].chain_outcome = s.outcome
  BY ToldAreAnswered DEF AnswersStay
<1>6. NoticesTellTheRecord'
  <2>1. \A n \in notices' : rows'[n.leg].chain_outcome = n.outcome
    BY <1>5 DEF Told
  <2>2. ASSUME NEW h \in Gateways, NEW s \in pass'[h].settled
        PROVE  /\ rows'[s.leg].chain_outcome = s.outcome
               /\ \A n \in notices' : n.leg # s.leg
               /\ \A k \in Gateways \ {h} : \A t \in pass'[k].settled : t.leg # s.leg
    <3>1. CASE s = new /\ h = g
      BY <1>2, <1>3, <3>1 DEF Told
    <3>2. CASE s \in pass[h].settled
      <4>1. s \in Told /\ s.leg # new.leg
        BY <1>3, <3>2 DEF Told
      <4>2. \A k \in Gateways \ {h} : \A t \in pass'[k].settled :
               t \in pass[k].settled \/ t = new
        BY <1>2
      <4>3. QED
        BY <1>5, <3>2, <4>1, <4>2 DEF NoticesInv, NoticesTellTheRecord
    <3>3. QED
      BY <1>2, <3>1, <3>2
  <2>3. QED
    BY <2>1, <2>2 DEF NoticesTellTheRecord
<1>7. ASSUME NEW h \in Gateways, pass'[h].step = "counting" PROVE CountingSound(h)'
  <2>1. h # g /\ pass'[h] = pass[h] /\ CountingSound(h)
    BY <1>2, <1>7 DEF NoticesInv
  <2>2. rows'[pass[h].leg].chain_outcome = "landed"
    BY <1>2, <1>7, <2>1, CountingFields DEF CountingSound, AnswersStay
  <2>3. \A s \in Told' : s.leg # pass[h].leg
    BY <1>2, <1>3, <1>4, <1>7, <2>1 DEF CountingSound
  <2>4. \A k \in Gateways \ {h} : pass'[k].step = "counting" => pass'[k].leg # pass[h].leg
    BY <1>2, <2>1 DEF CountingSound
  <2>5. QED
    BY <2>1, <2>2, <2>3, <2>4 DEF CountingSound
<1>8. FirstSound'
  BY <1>3, <1>4 DEF NoticesInv, FirstSound
<1>9. QED
  BY <1>6, <1>7, <1>8 DEF NoticesInv

LEMMA SettleLegTells ==
    ASSUME SettlementInv, NoticesInv, AnswersStay, NEW g \in Gateways, SettleLeg(g)
    PROVE  NoticesInv'
<1> DEFINE l == pass[g].leg
<1>1. /\ pass[g] \in Passes /\ l \in Legs /\ pass[g].answer \in Outcomes
      /\ pass[g].step = "writing" /\ UNCHANGED notices
  BY ToldAreSettlements, CountingFields DEF SettleLeg
<1>2. CASE ~ StillUnsettled(l)
  BY <1>1, <1>2, SkippedFields, PassMovesQuietly DEF SettleLeg
<1>3. CASE StillUnsettled(l)
  <2>1. rows[l].chain_outcome = "none" /\ rows'[l].chain_outcome = pass[g].answer
    BY <1>1, <1>3 DEF SettleLeg, StillUnsettled, SettlementInv, TypeOK, RecordTypeOK, Rows
  <2>2. \A s \in Told : s.leg # l
    BY <2>1, ToldAreAnswered
  <2>3. \A h \in Gateways : pass[h].step = "counting" => pass[h].leg # l
    BY <2>1 DEF NoticesInv, CountingSound
  <2>4. CASE pass[g].answer # "landed"
    <3>1. pass' = [pass EXCEPT ![g] = Heard(pass[g], l, FALSE)]
      BY <1>3, <2>4 DEF SettleLeg
    <3>2. QED
      BY <1>1, <2>1, <2>2, <2>3, <3>1, HeardKeeps
  <2>5. CASE pass[g].answer = "landed"
    <3> DEFINE p == [pass[g] EXCEPT !.step = "counting"]
    <3>1. pass' = [pass EXCEPT ![g] = p]
      BY <1>3, <2>5 DEF SettleLeg
    <3>2. p.step = "counting" /\ p.leg = l /\ p.settled = pass[g].settled
      BY <1>1 DEF Passes
    <3> HIDE DEF p
    <3>3. /\ pass'[g].step = "counting" /\ pass'[g].leg = l
          /\ \A h \in Gateways : pass'[h].settled = pass[h].settled
          /\ \A h \in Gateways \ {g} : pass'[h] = pass[h]
      BY <3>1, <3>2 DEF SettlementInv, TypeOK
    <3>4. Told' = Told
      BY <1>1, <3>3 DEF Told
    <3>5. \A s \in Told : rows'[s.leg].chain_outcome = s.outcome
      BY ToldAreAnswered DEF AnswersStay
    <3>6. NoticesTellTheRecord'
      <4>1. \A h \in Gateways : \A s \in pass[h].settled : s \in Told
        BY DEF Told
      <4>2. \A n \in notices : n \in Told
        BY DEF Told
      <4>3. QED
        BY <1>1, <3>3, <3>5, <4>1, <4>2 DEF NoticesInv, NoticesTellTheRecord
    <3>7. CountingSound(g)'
      BY <2>1, <2>2, <2>3, <2>5, <3>3, <3>4 DEF CountingSound
    <3>8. ASSUME NEW h \in Gateways \ {g}, pass'[h].step = "counting" PROVE CountingSound(h)'
      <4>1. pass'[h] = pass[h] /\ CountingSound(h) /\ pass[h].leg # l
        BY <2>3, <3>3, <3>8 DEF NoticesInv
      <4>2. rows'[pass[h].leg].chain_outcome = "landed"
        BY <3>8, <4>1, CountingFields DEF CountingSound, AnswersStay
      <4>3. QED
        BY <3>3, <3>4, <4>1, <4>2 DEF CountingSound
    <3>9. FirstSound'
      BY <3>4 DEF NoticesInv, FirstSound
    <3>10. QED
      BY <3>6, <3>7, <3>8, <3>9 DEF NoticesInv
  <2>6. QED
    BY <2>4, <2>5
<1>4. QED
  BY <1>2, <1>3

\* While one leg's trades are counted as one, no other leg was told as a first.
LEMMA OneLandedRow ==
    ASSUME SettlementInv, IsFirstLanded, NEW k \in LandedRows, NEW l \in LandedRows
    PROVE  k = l
<1>1. IsFiniteSet(LandedRows) /\ IsFiniteSet(twins)
  BY RecordAssumption, FS_Subset DEF LandedRows, SettlementInv, TypeOK, RecordTypeOK
<1>2. Cardinality(LandedRows) \in Nat /\ Cardinality(twins) \in Nat
  BY <1>1, FS_CardinalityType
<1>3. {k} \union {l} \in SUBSET LandedRows
  OBVIOUS
<1>4. Cardinality({k} \union {l}) <= Cardinality(LandedRows)
  BY <1>1, <1>3, FS_Subset
<1>5. Cardinality({k} \union {l}) = IF l \in {k} THEN 1 ELSE 1 + 1
  <2>1. IsFiniteSet({k}) /\ Cardinality({k}) = 1
    BY FS_Singleton
  <2>2. Cardinality({k} \union {l}) =
          IF l \in {k} THEN Cardinality({k}) ELSE Cardinality({k}) + 1
    BY <2>1, FS_AddElement
  <2>3. QED
    BY <2>1, <2>2
<1>6. QED
  BY <1>2, <1>4, <1>5 DEF IsFirstLanded

LEMMA CountLandedTells ==
    ASSUME SettlementInv, NoticesInv, AnswersStay, NEW g \in Gateways, CountLanded(g)
    PROVE  NoticesInv'
<1> DEFINE l == pass[g].leg
<1>1. /\ l \in Legs /\ pass[g].answer = "landed" /\ CountingSound(g)
      /\ pass[g].step = "counting" /\ UNCHANGED <<notices, rows>>
  BY CountingFields DEF CountLanded, NoticesInv, recordVars, rowVars
<1>2. PICK first \in {IsFirstLanded, FALSE} : pass' = [pass EXCEPT ![g] = Heard(pass[g], l, first)]
  BY DEF CountLanded
<1>3. first \in BOOLEAN
  BY <1>2 DEF IsFirstLanded
<1>4. ASSUME IsFirstLanded, NEW t \in Told, t.first PROVE FALSE
  <2>1. t.outcome = "landed" /\ t.leg # l
    BY <1>1, <1>4 DEF NoticesInv, FirstSound, CountingSound
  <2>2. t.leg \in LandedRows /\ l \in LandedRows
    BY <1>1, <2>1, ToldAreAnswered DEF LandedRows, CountingSound
  <2>3. QED
    BY <1>4, <2>1, <2>2, OneLandedRow
<1>5. first => \A t \in Told : ~ t.first
  BY <1>2, <1>4
<1>6. QED
  BY <1>1, <1>2, <1>3, <1>5, HeardKeeps DEF CountingSound

LEMMA FinishPassTells ==
    ASSUME SettlementInv, NoticesInv, AnswersStay, NEW g \in Gateways, FinishPass(g)
    PROVE  NoticesInv'
<1>1. /\ rows' = rows /\ pass' = [pass EXCEPT ![g] = Idle]
      /\ notices' \subseteq notices \union pass[g].settled
  BY DEF FinishPass, Worth, recordVars, rowVars
<1>2. /\ pass'[g].settled = {} /\ pass'[g].step = "idle"
      /\ \A h \in Gateways \ {g} : pass'[h] = pass[h]
  BY <1>1 DEF SettlementInv, TypeOK, Idle
<1>3. Told' \subseteq Told
  <2>1. \A h \in Gateways : pass'[h].settled \subseteq pass[h].settled
    BY <1>2
  <2>2. QED
    BY <1>1, <2>1 DEF Told
<1>4. \A s \in Told : rows'[s.leg].chain_outcome = s.outcome
  BY ToldAreAnswered DEF AnswersStay
<1>5. NoticesTellTheRecord'
  <2>1. \A n \in notices' : rows'[n.leg].chain_outcome = n.outcome
    BY <1>1, <1>4 DEF Told
  <2>2. ASSUME NEW h \in Gateways, NEW s \in pass'[h].settled
        PROVE  /\ rows'[s.leg].chain_outcome = s.outcome
               /\ \A n \in notices' : n.leg # s.leg
               /\ \A k \in Gateways \ {h} : \A t \in pass'[k].settled : t.leg # s.leg
    <3>1. h # g /\ s \in pass[h].settled /\ s \in Told
      BY <1>2, <2>2 DEF Told
    <3>2. \A n \in notices' : n.leg # s.leg
      BY <1>1, <3>1 DEF NoticesInv, NoticesTellTheRecord
    <3>3. \A k \in Gateways \ {h} : \A t \in pass'[k].settled : t.leg # s.leg
      BY <1>2, <3>1 DEF NoticesInv, NoticesTellTheRecord
    <3>4. QED
      BY <1>4, <3>1, <3>2, <3>3
  <2>3. QED
    BY <2>1, <2>2 DEF NoticesTellTheRecord
<1>6. ASSUME NEW h \in Gateways, pass'[h].step = "counting" PROVE CountingSound(h)'
  <2>1. h # g /\ pass'[h] = pass[h] /\ CountingSound(h)
    BY <1>2, <1>6 DEF NoticesInv
  <2>2. QED
    BY <1>1, <1>2, <1>3, <2>1 DEF CountingSound
<1>7. FirstSound'
  BY <1>3 DEF NoticesInv, FirstSound
<1>8. QED
  BY <1>5, <1>6, <1>7 DEF NoticesInv

LEMMA NextKeepsNotices ==
    ASSUME SettlementInv, NoticesInv, [Next]_vars
    PROVE  NoticesInv'
<1>1. CASE UNCHANGED <<pass, notices>>
  <2>1. AnswersStay
    <3>1. CASE Next
      BY <3>1, NextKeepsAnswers
    <3>2. CASE UNCHANGED vars
      BY <3>2 DEF vars, recordVars, rowVars, AnswersStay
    <3>3. QED
      BY <3>1, <3>2
  <2>2. QED
    BY <1>1, <2>1, QuietKeeps
<1>2. ASSUME Next, NEW g \in Gateways, PassStep(g) PROVE NoticesInv'
  <2>1. AnswersStay
    BY <1>2, NextKeepsAnswers
  <2>2. QED
    BY <1>2, <2>1, QuietPassSteps, SettleLegTells, CountLandedTells, FinishPassTells DEF PassStep
<1>3. QED
  BY <1>1, <1>2
     DEF Next, vars, Grow, Land, Fork, Prepare, Submit, Deliver, StartImport, WriteImport, StopImport

LEMMA AlwaysTold == Spec => []NoticesInv
<1>1. SettlementInv /\ NoticesInv /\ [Next]_vars => NoticesInv'
  BY NextKeepsNotices
<1>2. QED
  BY <1>1, InitNotices, AlwaysSound, PTL DEF Spec

\* What the team has been told of a leg, or is about to be, is what the record
\* holds, and overlapping Gateways, stopped passes and imports never have it
\* told by two of them.
THEOREM NoticesAlwaysTellTheRecord == Spec => []NoticesTellTheRecord
<1>1. NoticesInv => NoticesTellTheRecord
  BY DEF NoticesInv
<1>2. QED
  BY <1>1, AlwaysTold, PTL

\* LandedLegsForWallet is a query of its own, after the leg is settled: still no
\* two landed legs of a wallet are both announced as its first trade.
THEOREM AlwaysOneFirstTrade == Spec => []OneFirstTrade
<1>1. SettlementInv /\ NoticesInv => OneFirstTrade
  <2> SUFFICES ASSUME SettlementInv, NoticesInv PROVE OneFirstTrade
    OBVIOUS
  <2> DEFINE firsts == {s \in Told : s.first}
  <2>1. \A s, t \in firsts : s = t
    <3> SUFFICES ASSUME NEW s \in firsts, NEW t \in firsts PROVE s = t
      OBVIOUS
    <3>1. s.leg = t.leg /\ s.outcome = "landed" /\ t.outcome = "landed"
      BY DEF NoticesInv, FirstSound
    <3>2. s \in Settlements /\ t \in Settlements
      BY ToldAreSettlements
    <3>3. s.first = TRUE /\ t.first = TRUE
      BY <3>2 DEF Settlements
    <3>4. QED
      BY <3>1, <3>2, <3>3 DEF Settlements
  <2>2. CASE firsts = {}
    BY <2>2, FS_EmptySet DEF OneFirstTrade
  <2>3. CASE firsts # {}
    <3>1. PICK s : s \in firsts
      BY <2>3
    <3>2. firsts = {s}
      BY <2>1, <3>1
    <3>3. QED
      BY <3>2, FS_Singleton DEF OneFirstTrade
  <2>4. QED
    BY <2>2, <2>3
<1>2. QED
  BY <1>1, AlwaysSound, AlwaysTold, PTL

-----------------------------------------------------------------------------
(* Settlement gives verdicts.                                                 *)

\* What is known of a leg and of the chain.
LEMMA LegFacts ==
    ASSUME SettlementInv, NEW l \in Legs
    PROVE  /\ rows[l] \in Rows /\ web[l] \in {"new", "prepared", "submitted"}
           /\ lastValid[l] \in Nat /\ height \in Nat /\ DropMargin \in Nat
           /\ landing[l] \in [block: Nat, err: BOOLEAN]
           /\ landing[l] # NotIn => landing[l].block <= lastValid[l] /\ web[l] # "new"
           /\ rows[l].signature => web[l] # "new"
<1>1. rows[l].signature => rows[l].source # "none"
  BY DEF SettlementInv, RowsSound, NoRow
<1>2. QED
  BY <1>1, SettlementAssumption DEF SettlementInv, TypeOK, RecordTypeOK, ChainTypeOK, LegsSound

\* A leg is confirmed in a block the chain has reached.
LEMMA ConfirmedIs ==
    ASSUME SettlementInv, NEW l \in Legs
    PROVE  Status(l) = "confirmed" <=> landing[l] # NotIn /\ landing[l].block <= height
  BY LegFacts DEF Status

-----------------------------------------------------------------------------
(* What a pass has read of the legs it judges, however old its reads are.     *)

LEMMA InitReadings == Init => ReadingsInv
  BY DEF Init, Idle, ReadingsInv, ReadingSound

LEMMA ReadingsMove ==
    ASSUME SettlementInv, ReadingsInv, UNCHANGED <<height, landing, lastValid>>,
           NEW g \in Gateways, NEW p, ReadingSound(p), pass' = [pass EXCEPT ![g] = p]
    PROVE  ReadingsInv'
<1>1. \A h \in Gateways : pass'[h] = IF h = g THEN p ELSE pass[h]
  BY DEF SettlementInv, TypeOK
<1>2. \A h \in Gateways : ReadingSound(pass[h])'
  BY <1>1 DEF ReadingsInv, ReadingSound
<1>3. QED
  BY <1>2 DEF ReadingsInv

\* A block a leg enters later is above every height a pass has asked at.
LEMMA ReadingsUnder ==
    ASSUME SettlementInv, ReadingsInv, UNCHANGED pass, height' \in Nat, height <= height',
           \A l \in Legs : \/ landing'[l] \in {landing[l], NotIn}
                           \/ landing'[l].block \in Nat /\ landing'[l].block > height,
           \A l \in Legs : rows[l].signature => lastValid'[l] = lastValid[l]
    PROVE  ReadingsInv'
<1> SUFFICES ASSUME NEW g \in Gateways PROVE ReadingSound(pass[g])'
  BY DEF ReadingsInv
<1>1. /\ pass[g] \in Passes /\ PassSound(pass[g]) /\ ReadingSound(pass[g])
      /\ height \in Nat /\ StatusLag \in Nat
  BY SettlementAssumption DEF SettlementInv, TypeOK, ChainTypeOK, ReadingsInv
<1>2. pass[g].asked \in Nat /\ pass[g].asked <= height
  BY <1>1, SettlementAssumption DEF Passes, ReadingSound
<1>3. pass[g].asked <= height'
  BY <1>1, <1>2
<1>4. ASSUME NEW l \in pass[g].todo, pass[g].statuses[l] = "unseen", landing'[l] # NotIn
      PROVE  pass[g].asked < landing'[l].block + StatusLag
  <2>1. l \in Legs
    BY <1>1 DEF Passes
  <2>2. CASE landing'[l] = landing[l]
    BY <1>1, <1>4, <2>2 DEF ReadingSound
  <2>3. CASE landing'[l].block \in Nat /\ landing'[l].block > height
    BY <1>1, <1>2, <2>3
  <2>4. QED
    BY <1>4, <2>1, <2>2, <2>3
<1>5. ASSUME pass[g].step = "writing", pass[g].answer = "dropped"
      PROVE  /\ pass[g].statuses[pass[g].leg] = "unseen"
             /\ pass[g].height > lastValid'[pass[g].leg] + DropMargin
  BY <1>1, <1>5 DEF PassSound, ReadingSound, Passes
<1>6. QED
  BY <1>1, <1>3, <1>4, <1>5 DEF ReadingSound

LEMMA SkippedReading ==
    ASSUME NEW p \in Passes, NEW l \in Legs, ReadingSound(p)
    PROVE  ReadingSound(Skipped(p, l))
<1>1. p.todo \subseteq Legs
  BY DEF Passes
<1>2. QED
  BY <1>1, SkippedFields DEF ReadingSound

LEMMA HeardReading ==
    ASSUME NEW p \in Passes, NEW l \in Legs, p.answer \in Outcomes, NEW first \in BOOLEAN,
           ReadingSound(p)
    PROVE  ReadingSound(Heard(p, l, first))
<1>1. p.todo \subseteq Legs
  BY DEF Passes
<1>2. QED
  BY <1>1, HeardFields DEF ReadingSound

LEMMA AskStatusesReads ==
    ASSUME SettlementInv, ReadingsInv, NEW g \in Gateways, AskStatuses(g)
    PROVE  ReadingsInv'
<1>1. PICK answers \in [Legs -> {"unseen", "processed", "confirmed"}] :
        /\ \A l \in Legs : IF l \in pass[g].todo THEN answers[l] \in StatusAnswers(l)
                                                 ELSE answers[l] = "unseen"
        /\ pass' = [pass EXCEPT ![g] = [@ EXCEPT !.step = "judging", !.statuses = answers,
                                               !.asked = height]]
  BY DEF AskStatuses
<1> DEFINE q == [pass[g] EXCEPT !.step = "judging", !.statuses = answers, !.asked = height]
<1>2. pass[g] \in Passes /\ height \in Nat
  BY DEF SettlementInv, TypeOK, ChainTypeOK
<1>3. /\ q.step = "judging" /\ q.asked = height /\ q.todo = pass[g].todo
      /\ q.statuses = answers
  BY <1>2 DEF Passes
<1>4. ASSUME NEW l \in pass[g].todo, answers[l] = "unseen", landing[l] # NotIn
      PROVE  height < landing[l].block + StatusLag
  <2>1. l \in Legs /\ answers[l] \in StatusAnswers(l)
    BY <1>1, <1>2 DEF Passes
  <2>2. landing[l].block \in Nat /\ StatusLag \in Nat
    BY <2>1, SettlementAssumption DEF SettlementInv, TypeOK, ChainTypeOK
  <2>3. Status(l) # "unseen"
    BY <1>4 DEF Status
  <2>4. landing[l].block + StatusLag > height
    BY <1>4, <2>1, <2>3 DEF StatusAnswers
  <2>5. QED
    BY <1>2, <2>2, <2>4
<1>5. pass' = [pass EXCEPT ![g] = q]
  BY <1>1
<1> HIDE DEF q
<1>6. ReadingSound(q)
  BY <1>2, <1>3, <1>4 DEF ReadingSound
<1>7. QED
  BY <1>5, <1>6, ReadingsMove DEF AskStatuses, chainVars, webVars

LEMMA JudgeUnseenReads ==
    ASSUME SettlementInv, ReadingsInv, NEW g \in Gateways, NEW l \in Legs, JudgeUnseen(g, l)
    PROVE  ReadingsInv'
<1> DEFINE h == IF pass[g].height = 0 THEN height ELSE pass[g].height
           p == [pass[g] EXCEPT !.height = h]
<1>1. /\ pass[g] \in Passes /\ ReadingSound(pass[g])
      /\ pass[g].step = "judging" /\ pass[g].statuses[l] = "unseen"
  BY DEF SettlementInv, TypeOK, ReadingsInv, JudgeUnseen, Judging
<1>2. h \in 0 .. MaxHeight
  BY <1>1, SettlementAssumption DEF SettlementInv, TypeOK, ChainTypeOK, Passes
<1>3. p \in Passes
  BY <1>1, <1>2, EditPass
<1>4. /\ p.todo = pass[g].todo /\ p.statuses = pass[g].statuses /\ p.asked = pass[g].asked
      /\ p.step = "judging" /\ p.height = h
  BY <1>1 DEF Passes
<1>5. \/ /\ PastDeadline(h, l)
         /\ pass' = [pass EXCEPT ![g] = Answering(p, l, "dropped")]
      \/ pass' = [pass EXCEPT ![g] = Skipped(p, l)]
  BY DEF JudgeUnseen
<1> HIDE DEF p, h
<1>6. ReadingSound(p)
  BY <1>1, <1>4 DEF ReadingSound
<1>7. ReadingSound(Skipped(p, l))
  BY <1>3, <1>6, SkippedReading
<1>8. PastDeadline(h, l) => ReadingSound(Answering(p, l, "dropped"))
  BY <1>1, <1>3, <1>4, <1>6, AnsweringFields DEF ReadingSound, PastDeadline, Outcomes
<1>9. QED
  BY <1>5, <1>7, <1>8, ReadingsMove DEF JudgeUnseen, chainVars, webVars

LEMMA SettleLegReads ==
    ASSUME SettlementInv, ReadingsInv, NEW g \in Gateways, SettleLeg(g)
    PROVE  ReadingsInv'
<1> DEFINE p == pass[g]
           q == [p EXCEPT !.step = "counting"]
<1>1. /\ p \in Passes /\ ReadingSound(p) /\ p.step = "writing"
      /\ p.leg \in Legs /\ p.answer \in Outcomes
  BY CountingFields DEF SettlementInv, TypeOK, ReadingsInv, SettleLeg
<1>2. /\ q.step = "counting" /\ q.asked = p.asked /\ q.todo = p.todo
      /\ q.statuses = p.statuses
  BY <1>1 DEF Passes
<1>3. \/ pass' = [pass EXCEPT ![g] = q]
      \/ pass' = [pass EXCEPT ![g] = Heard(p, p.leg, FALSE)]
      \/ pass' = [pass EXCEPT ![g] = Skipped(p, p.leg)]
  BY DEF SettleLeg
<1> HIDE DEF p, q
<1>4. ReadingSound(q)
  BY <1>1, <1>2 DEF ReadingSound
<1>5. ReadingSound(Heard(p, p.leg, FALSE)) /\ ReadingSound(Skipped(p, p.leg))
  BY <1>1, HeardReading, SkippedReading
<1>6. QED
  BY <1>3, <1>4, <1>5, ReadingsMove DEF SettleLeg, chainVars, webVars

LEMMA PassStepReads ==
    ASSUME SettlementInv, ReadingsInv, NEW g \in Gateways, PassStep(g)
    PROVE  ReadingsInv'
<1>1. pass[g] \in Passes /\ PassSound(pass[g]) /\ ReadingSound(pass[g]) /\ ReadingSound(Idle)
  BY SettlementAssumption
     DEF SettlementInv, TypeOK, ChainTypeOK, ReadingsInv, ReadingSound, Idle
<1>2. ASSUME ReadUnsettled(g) PROVE ReadingsInv'
  <2> DEFINE q == [pass[g] EXCEPT !.step = "read", !.todo = Oldest(Unsettled)]
  <2>1. /\ q.step = "read" /\ q.asked = pass[g].asked /\ q.todo = Oldest(Unsettled)
        /\ pass' = [pass EXCEPT ![g] = q]
    BY <1>1, <1>2 DEF ReadUnsettled, Passes
  <2>2. pass[g].asked = 0
    BY <1>1, <1>2 DEF ReadUnsettled, ReadingSound
  <2>3. \A l \in Oldest(Unsettled) : landing[l] # NotIn => 0 < landing[l].block + StatusLag
    BY SettlementAssumption
       DEF Oldest, Unsettled, SettlementInv, LegsSound, TypeOK, ChainTypeOK
  <2> HIDE DEF q
  <2>4. ReadingSound(q)
    BY <1>1, <2>1, <2>2, <2>3 DEF ReadingSound
  <2>5. QED
    BY <1>2, <2>1, <2>4, ReadingsMove DEF ReadUnsettled, chainVars, webVars
<1>3. ASSUME NEW l \in Legs, SkipUnconfirmed(g, l) \/ MissTransaction(g, l) PROVE ReadingsInv'
  BY <1>1, <1>3, SkippedReading, ReadingsMove
     DEF SkipUnconfirmed, MissTransaction, chainVars, webVars
<1>4. ASSUME NEW l \in Legs, ReadTransaction(g, l) PROVE ReadingsInv'
  <2>1. Outcome(l) \in Outcomes \ {"dropped"}
    BY DEF Outcome, Outcomes
  <2>2. ReadingSound(Answering(pass[g], l, Outcome(l)))
    BY <1>1, <2>1, AnsweringFields DEF ReadingSound
  <2>3. QED
    BY <1>4, <2>2, ReadingsMove DEF ReadTransaction, chainVars, webVars
<1>5. ASSUME MissSettleLeg(g) PROVE ReadingsInv'
  BY <1>1, <1>5, CountingFields, SkippedReading, ReadingsMove
     DEF MissSettleLeg, chainVars, webVars
<1>6. ASSUME CountLanded(g) PROVE ReadingsInv'
  <2>1. PICK first \in {IsFirstLanded, FALSE} :
            pass' = [pass EXCEPT ![g] = Heard(@, @.leg, first)]
    BY <1>6 DEF CountLanded
  <2>2. first \in BOOLEAN
    BY <2>1 DEF IsFirstLanded
  <2>3. pass[g].leg \in Legs /\ pass[g].answer \in Outcomes
    BY <1>6, CountingFields DEF CountLanded
  <2>4. ReadingSound(Heard(pass[g], pass[g].leg, first))
    BY <1>1, <2>2, <2>3, HeardReading
  <2>5. QED
    BY <1>6, <2>1, <2>4, ReadingsMove DEF CountLanded, chainVars, webVars
<1>7. ASSUME FinishPass(g) \/ MissStatuses(g) \/ Stop(g) PROVE ReadingsInv'
  BY <1>1, <1>7, ReadingsMove DEF FinishPass, MissStatuses, Stop, chainVars, webVars
<1>8. QED
  BY <1>2, <1>3, <1>4, <1>5, <1>6, <1>7, AskStatusesReads, JudgeUnseenReads, SettleLegReads
     DEF PassStep

LEMMA NextKeepsReadings ==
    ASSUME SettlementInv, ReadingsInv, [Next]_vars
    PROVE  ReadingsInv'
<1>1. height \in Nat
  BY DEF SettlementInv, TypeOK, ChainTypeOK
<1>2. ASSUME UNCHANGED <<pass, height, landing, lastValid>> PROVE ReadingsInv'
  BY <1>1, <1>2, ReadingsUnder
<1>3. CASE Grow
  BY <1>1, <1>3, ReadingsUnder DEF Grow, webVars
<1>4. ASSUME NEW l \in Legs, Land(l) PROVE ReadingsInv'
  <2>1. PICK b \in height + 1 .. lastValid[l], err \in BOOLEAN :
            landing' = [landing EXCEPT ![l] = [block |-> b, err |-> err]]
    BY <1>4 DEF Land
  <2>2. lastValid[l] \in Nat
    BY DEF SettlementInv, TypeOK
  <2>3. \A k \in Legs : \/ landing'[k] = landing[k]
                        \/ landing'[k].block \in Nat /\ landing'[k].block > height
    BY <1>1, <2>1, <2>2 DEF SettlementInv, TypeOK, ChainTypeOK
  <2>4. QED
    BY <1>1, <1>4, <2>3, ReadingsUnder DEF Land, webVars
<1>5. ASSUME NEW l \in Legs, Fork(l) PROVE ReadingsInv'
  <2>1. \A k \in Legs : landing'[k] \in {landing[k], NotIn}
    BY <1>5 DEF Fork, SettlementInv, TypeOK, ChainTypeOK
  <2>2. QED
    BY <1>1, <1>5, <2>1, ReadingsUnder DEF Fork, webVars
<1>6. ASSUME NEW l \in Legs, Prepare(l) PROVE ReadingsInv'
  <2>1. \A k \in Legs : rows[k].signature => k # l
    BY <1>6, LegFacts DEF Prepare
  <2>2. \A k \in Legs : rows[k].signature => lastValid'[k] = lastValid[k]
    BY <1>6, <2>1 DEF Prepare, SettlementInv, TypeOK
  <2>3. QED
    BY <1>1, <1>6, <2>2, ReadingsUnder DEF Prepare, chainVars
<1>7. ASSUME \/ \E l \in Legs : Submit(l) \/ StartImport(l)
             \/ Deliver \/ WriteImport \/ StopImport \/ UNCHANGED vars
      PROVE  ReadingsInv'
  BY <1>2, <1>7 DEF Submit, StartImport, Deliver, WriteImport, StopImport, vars,
                    chainVars, webVars
<1>8. QED
  BY <1>3, <1>4, <1>5, <1>6, <1>7, PassStepReads DEF Next

\* A pass never has a leg unseen that was old enough to be seen when it asked,
\* and it calls one dropped only past the margin, as high as it has read.
LEMMA AlwaysRead == Spec => []ReadingsInv
<1>1. SettlementInv /\ ReadingsInv /\ [Next]_vars => ReadingsInv'
  BY NextKeepsReadings
<1>2. QED
  BY <1>1, InitReadings, AlwaysSound, PTL DEF Spec

\* A leg dropped in time is in no block: one it is in was there to be seen.
LEMMA InTimeIsInNoBlock ==
    ASSUME SettlementInv, NEW p \in Passes, PassSound(p), ReadingSound(p),
           p.step = "writing", p.answer = "dropped", ReadInTime(p)
    PROVE  landing[p.leg] = NotIn
<1> DEFINE l == p.leg
<1>1. l \in p.todo /\ l \in Legs /\ p.statuses[l] = "unseen"
  BY DEF PassSound, ReadingSound, Passes
<1>2. SUFFICES ASSUME landing[l] # NotIn PROVE FALSE
  OBVIOUS
<1>3. /\ p.asked \in Nat /\ p.height \in Nat /\ StatusLag \in Nat /\ DropMargin \in Nat
      /\ landing[l].block \in Nat /\ lastValid[l] \in Nat
  BY <1>1, SettlementAssumption DEF Passes, SettlementInv, TypeOK, ChainTypeOK
<1>4. p.asked < landing[l].block + StatusLag /\ p.height > lastValid[l] + DropMargin
  BY <1>1, <1>2 DEF ReadingSound
<1>5. landing[l].block <= lastValid[l]
  BY <1>1, <1>2, LegFacts
<1>6. p.height + StatusLag <= p.asked + DropMargin + 1
  BY DEF ReadInTime
<1> HIDE DEF l
<1>7. QED
  BY <1>3, <1>4, <1>5, <1>6

-----------------------------------------------------------------------------
(* The steps of settlement are steps of TradeVerdicts.                        *)

\* An answer that holds of a leg in the record is its fate, where a dropped leg
\* is in no block.
LEMMA AnswerIsFate ==
    ASSUME SettlementInv, NEW l \in Legs, rows[l].signature,
           NEW outcome \in Outcomes, AnswerHolds(l, outcome),
           outcome = "dropped" => landing[l] = NotIn
    PROVE  outcome = Fate(l) /\ Fate(l) # "open"
<1>1. CASE outcome \in {"landed", "failed"}
  BY <1>1 DEF AnswerHolds, Fate, Outcome
<1>2. CASE outcome = "dropped"
  <2>1. height > lastValid[l] + DropMargin
    BY <1>2 DEF AnswerHolds
  <2>2. height >= lastValid[l] /\ web[l] # "new"
    BY <2>1, LegFacts
  <2>3. landing[l] = NotIn
    BY <1>2
  <2>4. Status(l) = "unseen"
    BY <2>3, LegFacts DEF Status, NotIn
  <2>5. QED
    BY <1>2, <2>2, <2>3, <2>4 DEF Fate
<1>3. QED
  BY <1>1, <1>2 DEF Outcomes

\* A second row is of a leg that landed for good, and whose own row is not settled.
LEMMA TwinsLanded ==
    ASSUME SettlementInv, NEW l \in twins
    PROVE  l \in Legs /\ Fate(l) = "landed" /\ rows[l].chain_outcome = "none"
  BY DEF SettlementInv, TypeOK, RecordTypeOK, TwinsSound, RowsSound, Fate, Outcome

\* No move of the chain or of the routes changes what became of a leg.
LEMMA FateIsFinal ==
    ASSUME SettlementInv, SettlementInv',
           Grow \/ \E k \in Legs : Land(k) \/ Fork(k) \/ Prepare(k) \/ Submit(k),
           NEW l \in Legs, Fate(l) # "open"
    PROVE  Fate(l)' = Fate(l)
<1>0. /\ Fate(l) = IF Status(l) = "confirmed" THEN Outcome(l) ELSE "dropped"
      /\ Status(l) # "confirmed" =>
            landing[l] = NotIn /\ web[l] # "new" /\ height >= lastValid[l]
  BY DEF Fate
<1>1. ASSUME landing'[l] = landing[l], height' \in Nat, height' >= height,
             lastValid'[l] = lastValid[l], web[l] # "new" => web'[l] # "new"
      PROVE  Fate(l)' = Fate(l)
  <2>1. Outcome(l)' = Outcome(l)
    BY <1>1 DEF Outcome
  <2>2. Status(l) = "confirmed" => Status(l)' = "confirmed"
    BY <1>1, LegFacts DEF Status
  <2>3. landing[l] = NotIn => Status(l)' # "confirmed"
    BY <1>1 DEF Status
  <2>4. CASE Status(l) = "confirmed"
    BY <1>0, <2>1, <2>2, <2>4 DEF Fate
  <2>5. CASE Status(l) # "confirmed"
    <3>1. landing[l] = NotIn /\ web'[l] # "new" /\ height' >= lastValid'[l]
      BY <1>0, <1>1, <2>5, LegFacts
    <3>2. QED
      BY <1>0, <1>1, <2>3, <2>5, <3>1 DEF Fate
  <2>6. QED
    BY <2>4, <2>5
<1>2. CASE Grow
  BY <1>1, <1>2, LegFacts DEF Grow, webVars
<1>3. ASSUME NEW k \in Legs, Land(k) PROVE Fate(l)' = Fate(l)
  <2>1. PICK b \in height + 1 .. lastValid[k] : TRUE
    BY <1>3 DEF Land
  <2>2. landing[k] = NotIn /\ ~ (height >= lastValid[k])
    BY <1>3, <2>1, LegFacts DEF Land
  <2>3. k # l
    BY <1>0, <2>2, ConfirmedIs
  <2>4. landing'[l] = landing[l]
    BY <1>3, <2>3 DEF Land, SettlementInv, TypeOK, ChainTypeOK
  <2>5. QED
    BY <1>1, <1>3, <2>4, LegFacts DEF Land, webVars
<1>4. ASSUME NEW k \in Legs, Fork(k) PROVE Fate(l)' = Fate(l)
  <2>1. Status(k) = "processed" /\ landing[k] # NotIn
    BY <1>4, StatusOfALeg DEF Fork, SettlementInv, TypeOK
  <2>2. k # l
    BY <1>0, <2>1
  <2>3. landing'[l] = landing[l]
    BY <1>4, <2>2 DEF Fork, SettlementInv, TypeOK, ChainTypeOK
  <2>4. QED
    BY <1>1, <1>4, <2>3, LegFacts DEF Fork, webVars
<1>5. ASSUME NEW k \in Legs, Prepare(k) PROVE Fate(l)' = Fate(l)
  <2>1. web[l] # "new"
    BY <1>0, ConfirmedIs, LegFacts
  <2>2. k # l /\ lastValid'[l] = lastValid[l] /\ web'[l] = web[l]
    BY <1>5, <2>1 DEF Prepare, SettlementInv, TypeOK
  <2>3. QED
    BY <1>1, <1>5, <2>2, LegFacts DEF Prepare, chainVars
<1>6. ASSUME NEW k \in Legs, Submit(k) PROVE Fate(l)' = Fate(l)
  <2>1. web'[l] = IF l = k THEN "submitted" ELSE web[l]
    BY <1>6 DEF Submit, SettlementInv, TypeOK
  <2>2. QED
    BY <1>1, <1>6, <2>1, LegFacts DEF Submit
<1>7. QED
  BY <1>2, <1>3, <1>4, <1>5, <1>6

\* A pass's answer is a verdict on a leg without one, or changes nothing, unless
\* it is a drop whose height was read too late.
LEMMA SettleLegGives ==
    ASSUME SettlementInv, ReadingsInv, NEW g \in Gateways, SettleLeg(g)
    PROVE  \/ UNCHANGED <<rows, twins>>
           \/ \E l \in Legs : Verdicts!GiveVerdict(l)
           \/ LateDrop
<1> DEFINE l == pass[g].leg
           answer == pass[g].answer
<1>1. /\ pass[g] \in Passes /\ PassSound(pass[g]) /\ ReadingSound(pass[g])
      /\ pass[g].step = "writing"
      /\ UNCHANGED <<chainVars, webVars, notices, twins>>
  BY DEF SettleLeg, SettlementInv, TypeOK, ReadingsInv
<1>2. l \in Legs /\ rows[l].signature /\ answer \in Outcomes /\ AnswerHolds(l, answer)
  BY <1>1 DEF PassSound, Passes
<1>3. SUFFICES ASSUME StillUnsettled(l), answer = "dropped" => ReadInTime(pass[g])
               PROVE  Verdicts!GiveVerdict(l)
  BY <1>2 DEF SettleLeg, LateDrop
<1>4. rows' = [rows EXCEPT ![l].chain_outcome = answer] /\ rows[l].chain_outcome = "none"
  BY <1>3 DEF SettleLeg, StillUnsettled
<1>5. l \notin twins
  BY <1>2 DEF SettlementInv, TwinsSound
<1>6. UNCHANGED <<Fates, Announced>>
  BY <1>1 DEF Fates, Fate, Status, Outcome, Announced, chainVars, webVars
<1>7. answer = Fates[l] /\ Fates[l] # "open"
  <2>1. answer = "dropped" => landing[l] = NotIn
    BY <1>1, <1>3, InTimeIsInNoBlock
  <2>2. QED
    BY <1>2, <2>1, AnswerIsFate DEF Fates
<1>8. Answers[l] = "none"
  BY <1>2, <1>4, <1>5 DEF Answers, Verdict
<1>9. Answers' = [Answers EXCEPT ![l] = answer]
  <2>1. \A k \in Legs : rows'[k].chain_outcome =
                           IF k = l THEN answer ELSE rows[k].chain_outcome
    BY <1>2, <1>4 DEF SettlementInv, TypeOK, RecordTypeOK, Rows
  <2>2. \A k \in Legs : Verdict(k)' = IF k = l THEN answer ELSE Verdict(k)
    BY <1>1, <1>5, <2>1 DEF Verdict
  <2> HIDE DEF l, answer
  <2>3. QED
    BY <2>2 DEF Answers
<1> HIDE DEF l, answer
<1>10. QED
  BY <1>6, <1>7, <1>8, <1>9 DEF Verdicts!GiveVerdict

\* So is an import's row, the leg's own or a second one.
LEMMA ImportGives ==
    ASSUME SettlementInv, WriteImport
    PROVE  \/ UNCHANGED <<rows, twins>>
           \/ \E l \in Legs : Verdicts!GiveVerdict(l)
<1> DEFINE l == importing
<1>1. l \in Legs /\ Status(l) = "confirmed" /\ ~ landing[l].err
  BY DEF WriteImport, SettlementInv, TypeOK, ImportSound
<1>2. UNCHANGED <<chainVars, webVars, notices>>
  BY DEF WriteImport
<1>3. SUFFICES ASSUME ~ ImportConflicts(l) PROVE Verdicts!GiveVerdict(l)
  BY <1>1 DEF WriteImport, rowVars
<1>4. /\ l \notin twins /\ ~ rows[l].signature
      /\ IF l \in altered THEN twins' = twins \union {l} /\ UNCHANGED rows
         ELSE rows' = [rows EXCEPT ![l] = ImportedRow] /\ UNCHANGED twins
  BY <1>3 DEF WriteImport, InsertImportedLeg, ImportConflicts
<1>5. UNCHANGED <<Fates, Announced>>
  BY <1>2 DEF Fates, Fate, Status, Outcome, Announced, chainVars, webVars
<1>6. Fates[l] = "landed"
  BY <1>1 DEF Fates, Fate, Outcome
<1>7. Answers[l] = "none"
  BY <1>1, <1>4 DEF Answers, Verdict, SettlementInv, RowsSound
<1>8. Answers' = [Answers EXCEPT ![l] = "landed"]
  <2>1. \A k \in Legs : Verdict(k)' = IF k = l THEN "landed" ELSE Verdict(k)
    <3>1. CASE l \in altered
      BY <1>4, <3>1 DEF Verdict
    <3>2. CASE l \notin altered
      <4>1. \A k \in Legs : rows'[k] = IF k = l THEN ImportedRow ELSE rows[k]
        BY <1>1, <1>4, <3>2 DEF SettlementInv, TypeOK, RecordTypeOK
      <4>2. QED
        BY <1>4, <3>2, <4>1 DEF Verdict, ImportedRow
    <3>3. QED
      BY <3>1, <3>2
  <2> HIDE DEF l
  <2>2. QED
    BY <2>1 DEF Answers
<1> HIDE DEF l
<1>9. QED
  BY <1>1, <1>5, <1>6, <1>7, <1>8 DEF Verdicts!GiveVerdict

\* What a pass tells the team is what the record says.
LEMMA FinishPassIsHeard ==
    ASSUME SettlementInv, NoticesInv, NEW g \in Gateways, FinishPass(g)
    PROVE  Verdicts!Hear
<1>1. /\ notices \subseteq notices' /\ notices' \subseteq Told
      /\ UNCHANGED <<recordVars, chainVars, webVars>>
  BY DEF FinishPass, Worth, Told
<1>2. UNCHANGED <<Fates, Answers>>
  BY <1>1 DEF Fates, Fate, Status, Outcome, Answers, Verdict, recordVars, rowVars,
              chainVars, webVars
<1>3. Announced \subseteq Announced'
  BY <1>1 DEF Announced
<1>4. ASSUME NEW s \in Told PROVE Answers[s.leg] = s.outcome
  <2>1. s.leg \in Legs /\ s.outcome # "none" /\ rows[s.leg].chain_outcome = s.outcome
    BY ToldAreSettlements, ToldAreAnswered DEF Settlements, Outcomes
  <2>2. s.leg \notin twins
    BY <2>1, TwinsLanded
  <2>3. QED
    BY <2>1, <2>2 DEF Answers, Verdict
<1>5. \A n \in Announced' : Answers[n.trade] = n.outcome
  BY <1>1, <1>4 DEF Announced
<1>6. QED
  BY <1>2, <1>3, <1>5 DEF Verdicts!Hear

\* A report changes no verdict.
LEMMA DeliveryGivesNothing ==
    ASSUME SettlementInv, Deliver
    PROVE  UNCHANGED <<Fates, Answers, Announced>>
<1>1. PICK m \in reports : DeliverQuote(m) \/ DeliverSubmission(m) \/ LoseReport(m)
  BY DEF Deliver
<1>2. UNCHANGED <<twins, chainVars, webVars, notices>>
  BY <1>1 DEF Deliver, DeliverQuote, DeliverSubmission, LoseReport, rowVars
<1>3. \A l \in Legs : rows'[l].chain_outcome = rows[l].chain_outcome
  <2>1. CASE UNCHANGED rows
    BY <2>1
  <2>2. CASE rows' = [rows EXCEPT ![m.leg].source = "server"]
    BY <2>2 DEF SettlementInv, TypeOK, RecordTypeOK, Rows
  <2>3. CASE rows' = [rows EXCEPT ![m.leg].signature = TRUE, ![m.leg].submit_result = m.result]
    BY <2>3 DEF SettlementInv, TypeOK, RecordTypeOK, Rows
  <2>4. QED
    BY <1>1, <2>1, <2>2, <2>3 DEF DeliverQuote, DeliverSubmission, LoseReport,
                                  QuoteRecorded, SubmissionRecorded, rowVars
<1>4. QED
  BY <1>2, <1>3 DEF Fates, Fate, Status, Outcome, Answers, Verdict, Announced,
                    chainVars, webVars

LEMMA VerdictStep ==
    ASSUME SettlementInv, SettlementInv', NoticesInv, ReadingsInv, [Next]_vars
    PROVE  UNCHANGED Verdicts!verdictVars \/ Verdicts!Next \/ LateDrop
<1> USE DEF Verdicts!verdictVars
<1> DEFINE Goal == \/ UNCHANGED <<Fates, Answers, Announced>>
                   \/ Verdicts!Next
                   \/ LateDrop
<1>1. ASSUME UNCHANGED <<rows, twins, chainVars, webVars, notices>> PROVE Goal
  BY <1>1 DEF Fates, Fate, Status, Outcome, Answers, Verdict, Announced, chainVars, webVars
<1>2. CASE Grow \/ \E k \in Legs : Land(k) \/ Fork(k) \/ Prepare(k) \/ Submit(k)
  <2>1. UNCHANGED <<rows, twins, notices>>
    BY <1>2 DEF Grow, Land, Fork, Prepare, Submit, recordVars, rowVars
  <2>2. UNCHANGED <<Answers, Announced>>
    BY <2>1 DEF Answers, Verdict, Announced
  <2>3. \A l \in Legs : Fate(l)' \in Outcomes \union {"open"}
    BY DEF Fate, Outcome, Outcomes
  <2>4. Fates' \in [Legs -> Outcomes \union {"open"}]
    BY <2>3 DEF Fates
  <2>5. \A l \in Legs : Fates[l] # "open" => Fates'[l] = Fates[l]
    BY <1>2, FateIsFinal DEF Fates
  <2>6. Verdicts!Decide
    BY <2>2, <2>4, <2>5 DEF Verdicts!Decide, Verdicts!Fates
  <2>7. QED
    BY <2>6 DEF Verdicts!Next
<1>3. CASE Deliver
  BY <1>3, DeliveryGivesNothing
<1>4. ASSUME NEW g \in Gateways, SettleLeg(g) PROVE Goal
  BY <1>1, <1>4, SettleLegGives DEF Verdicts!Next, SettleLeg
<1>5. CASE WriteImport
  BY <1>1, <1>5, ImportGives DEF Verdicts!Next, WriteImport
<1>6. ASSUME NEW g \in Gateways, FinishPass(g) PROVE Goal
  BY <1>6, FinishPassIsHeard DEF Verdicts!Next
<1>7. ASSUME NEW g \in Gateways, PassStep(g), ~ SettleLeg(g), ~ FinishPass(g) PROVE Goal
  BY <1>1, <1>7 DEF PassStep, ReadUnsettled, AskStatuses, MissStatuses, JudgeUnseen,
                    SkipUnconfirmed, ReadTransaction, MissTransaction, MissSettleLeg,
                    CountLanded, Stop, recordVars, rowVars
<1>8. CASE StopImport \/ \E l \in Legs : StartImport(l)
  BY <1>1, <1>8 DEF StopImport, StartImport, recordVars, rowVars
<1>9. CASE UNCHANGED vars
  BY <1>1, <1>9 DEF vars, recordVars, rowVars
<1>10. QED
  BY <1>2, <1>3, <1>4, <1>5, <1>6, <1>7, <1>8, <1>9 DEF Next

LEMMA VerdictInit == Init => Verdicts!Init
<1> SUFFICES ASSUME Init PROVE Verdicts!Init
  OBVIOUS
<1>1. \A l \in Legs : Fate(l) = "open" /\ Verdict(l) = "none"
  BY DEF Init, InitRecord, NoRow, NotIn, Fate, Status, Verdict
<1>2. Announced = {}
  BY DEF Init, Announced
<1>3. QED
  BY <1>1, <1>2 DEF Verdicts!Init, Verdicts!Fates, Fates, Answers

\* Settlement keeps the record of TradeVerdicts, for any number of legs,
\* Gateways, retries, imports and stops and any margin and lag: a trade is given
\* one verdict, in one row, its fate and no other, and the team hears no other,
\* but for a drop whose height was read too many blocks after its status.
THEOREM SettlementGivesVerdicts == Spec => GivesVerdicts
<1>1. SettlementInv /\ SettlementInv' /\ NoticesInv /\ ReadingsInv /\ [Next]_vars
        => [\/ UNCHANGED Verdicts!verdictVars
            \/ Verdicts!Next
            \/ LateDrop]_vars
  BY VerdictStep
<1>2. QED
  BY <1>1, VerdictInit, AlwaysSound, AlwaysTold, AlwaysRead, PTL DEF Spec, GivesVerdicts

\* A settlement that is never that late implements TradeVerdicts: no trade that
\* is in a block is ever called dropped.
THEOREM PromptSettlementGivesVerdicts == Spec /\ [][~ LateDrop]_vars => Verdicts!Spec
<1>1. SettlementInv /\ SettlementInv' /\ NoticesInv /\ ReadingsInv
        /\ [Next]_vars /\ [~ LateDrop]_vars
        => [Verdicts!Next]_(Verdicts!verdictVars)
  <2> SUFFICES ASSUME SettlementInv, SettlementInv', NoticesInv, ReadingsInv,
                      [Next]_vars, [~ LateDrop]_vars
               PROVE  Verdicts!Next \/ UNCHANGED Verdicts!verdictVars
    OBVIOUS
  <2>1. UNCHANGED vars => UNCHANGED Verdicts!verdictVars
    BY DEF vars, recordVars, rowVars, chainVars, webVars, Verdicts!verdictVars, Fates, Fate,
           Status, Outcome, Answers, Verdict, Announced
  <2>2. QED
    BY <2>1, VerdictStep
<1>2. QED
  BY <1>1, VerdictInit, AlwaysSound, AlwaysTold, AlwaysRead, PTL DEF Spec, Verdicts!Spec
=============================================================================
