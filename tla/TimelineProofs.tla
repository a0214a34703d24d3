--------------------------- MODULE TimelineProofs ---------------------------
(* Theorems about the projection for every number of transactions, rows and  *)
(* Gateways and every batch.                                                 *)
EXTENDS TimelineProperties, FiniteSetTheorems, TLAPS

-----------------------------------------------------------------------------
(* The order of the outbox.                                                  *)

LEMMA OrderOfRows ==
    /\ \A a \in Rows, b \in Rows : Before(a, b) \/ Before(b, a) \/ a = b
    /\ \A a \in Rows, b \in Rows, c \in Rows : Before(a, b) /\ Before(b, c) => Before(a, c)
    /\ \A a \in Rows : ~ Before(a, a)
  BY DEF Rows, Before

\* A batch leaves no gap: what stands before a row of it, after the cursor,
\* is in it too.
LEMMA BatchHasNoGap ==
    ASSUME IsFiniteSet(outbox), outbox \subseteq Rows, NEW from \in Rows,
           NEW r \in OutboxSince(from), NEW q \in Final, Before(q, r), Before(from, q)
    PROVE  q \in OutboxSince(from)
<1> DEFINE after == {x \in Final : Before(from, x)}
           under(y) == {x \in after : Before(x, y)}
<1>1. r \in after /\ q \in after /\ Cardinality(under(r)) < Batch
  BY DEF OutboxSince
<1>2. after \subseteq outbox /\ after \subseteq Rows
  BY DEF Final
<1>3. under(q) \subseteq under(r)
  BY <1>1, <1>2, OrderOfRows
<1>4. IsFiniteSet(under(r)) /\ IsFiniteSet(under(q))
  BY <1>2, FS_Subset
<1>5. Cardinality(under(q)) <= Cardinality(under(r))
  BY <1>3, <1>4, FS_Subset
<1>6. Cardinality(under(q)) \in Nat /\ Cardinality(under(r)) \in Nat
  BY <1>4, FS_CardinalityType
<1>7. Cardinality(under(q)) < Batch
  BY <1>1, <1>5, <1>6, TimelineAssumption
<1>8. QED
  BY <1>1, <1>7 DEF OutboxSince

-----------------------------------------------------------------------------
(* The writers' steps: rows become final at the end of what is final.        *)

WriterStep == \E w \in Writers : Begin(w) \/ Insert(w) \/ Commit(w) \/ Abort(w)

LEMMA InitInv == Init => TimelineInv
<1> SUFFICES ASSUME Init PROVE TimelineInv
  OBVIOUS
<1> USE DEF Init
<1>1. TypeOK
  BY TimelineAssumption DEF TypeOK, NoTransaction, Resting, Start, Rows
<1>2. TransactionsSound
  BY FS_EmptySet DEF TransactionsSound, NoTransaction
<1>3. NothingIsSkipped /\ Passed(cursor)
  BY DEF NothingIsSkipped, Passed, NoTransaction, Start
<1>4. QED
  BY <1>1, <1>2, <1>3 DEF TimelineInv, Resting

LEMMA WritersKeepTransactions ==
    ASSUME TypeOK, TransactionsSound, NEW w \in Writers,
           Begin(w) \/ Insert(w) \/ Commit(w) \/ Abort(w)
    PROVE  /\ TypeOK'
           /\ TransactionsSound'
           /\ nextXid <= nextXid'
           /\ UNCHANGED readerVars
<1> USE DEF TypeOK, TransactionsSound
<1>1. CASE Begin(w)
  <2>1. /\ running[w].xid = 0 /\ running[w].rows = {} /\ nextXid <= MaxXid
        /\ running' = [running EXCEPT ![w].xid = nextXid]
        /\ nextXid' = nextXid + 1 /\ UNCHANGED <<nextId, outbox>> /\ UNCHANGED readerVars
    BY <1>1 DEF Begin
  <2>2. /\ running'[w].xid = nextXid /\ running'[w].rows = {}
        /\ \A v \in Writers \ {w} : running'[v] = running[v]
    BY <2>1
  <2>3. nextXid' \in 1 .. MaxXid + 1 /\ nextXid <= nextXid' /\ nextXid < nextXid'
    BY <2>1, TimelineAssumption
  <2>4. TypeOK'
    BY <2>1, <2>3 DEF readerVars
  <2>5. TransactionsSound'
    <3>1. \A r \in outbox : r.xid < nextXid'
      BY <2>1 DEF Rows
    <3>2. \A v \in Writers : running'[v].xid < nextXid'
      BY <2>1, <2>2
    <3>3. \A v \in Writers : IsFiniteSet(running'[v].rows)
      BY <2>2, FS_EmptySet
    <3>4. QED
      BY <2>1, <2>2, <3>1, <3>2, <3>3
  <2>6. QED
    BY <2>1, <2>3, <2>4, <2>5
<1>2. CASE Insert(w)
  <2> DEFINE r == [xid |-> running[w].xid, id |-> nextId]
  <2>1. r \in Rows /\ r.xid = running[w].xid
    BY DEF Rows
  <2>2. IsFiniteSet(running[w].rows \union {r})
    BY FS_AddElement
  <2>3. running' = [running EXCEPT ![w].rows = running[w].rows \union {r}]
    BY <1>2 DEF Insert
  <2>4. nextId' = nextId + 1 /\ nextId <= MaxId /\ UNCHANGED <<nextXid, outbox>>
    BY <1>2 DEF Insert
  <2> HIDE DEF r
  <2>5. TypeOK'
    BY <1>2, <2>1, <2>3, <2>4, TimelineAssumption DEF Insert, readerVars
  <2>6. /\ running'[w].xid = running[w].xid
        /\ running'[w].rows = running[w].rows \union {r}
        /\ \A v \in Writers \ {w} : running'[v] = running[v]
    BY <2>3
  <2>7. running[w].xid # 0
    BY <1>2 DEF Insert
  <2>8. TransactionsSound'
    BY <2>1, <2>2, <2>4, <2>6, <2>7
  <2>9. nextXid <= nextXid' /\ UNCHANGED readerVars
    BY <1>2 DEF Insert
  <2>10. QED
    BY <2>5, <2>8, <2>9
<1>3. CASE Commit(w)
  <2>1. IsFiniteSet(outbox \union running[w].rows)
    BY FS_Union
  <2>2. QED
    BY <1>3, <2>1, FS_EmptySet DEF Commit, NoTransaction, readerVars
<1>4. CASE Abort(w)
  BY <1>4, FS_EmptySet DEF Abort, NoTransaction, readerVars
<1>5. QED
  BY <1>1, <1>2, <1>3, <1>4

\* What is final stays so, and what becomes final stands after it.
LEMMA FinalGrowsAtItsEnd ==
    ASSUME TypeOK, TransactionsSound, WriterStep
    PROVE  /\ Final \subseteq Final'
           /\ \A new \in Final' \ Final, old \in Final : Before(old, new)
           /\ \A r \in outbox' \ outbox :
                  \E w \in Writers : running[w].xid # 0 /\ r.xid = running[w].xid
           /\ \A place \in Rows : Passed(place) => Passed(place)'
<1> USE DEF TypeOK, TransactionsSound
<1>1. ASSUME NEW w \in Writers, Begin(w)
      PROVE  /\ Final' = Final /\ outbox' = outbox
             /\ \A place \in Rows : Passed(place) => Passed(place)'
  BY <1>1 DEF Begin, Final, Passed, Rows
<1>2. ASSUME NEW w \in Writers, Insert(w)
      PROVE  /\ Final' = Final /\ outbox' = outbox
             /\ \A place \in Rows : Passed(place) => Passed(place)'
  BY <1>2 DEF Insert, Final, Passed, Rows
<1>3. ASSUME NEW w \in Writers, Commit(w) \/ Abort(w)
      PROVE  /\ Final \subseteq Final'
             /\ \A new \in Final' \ Final, old \in Final : Before(old, new)
             /\ \A r \in outbox' \ outbox : running[w].xid # 0 /\ r.xid = running[w].xid
             /\ \A place \in Rows : Passed(place) => Passed(place)'
  <2>1. /\ running[w].xid # 0 /\ running' = [running EXCEPT ![w] = NoTransaction]
        /\ outbox' \in {outbox, outbox \union running[w].rows} /\ nextXid' = nextXid
    BY <1>3 DEF Commit, Abort
  <2>2. running'[w].xid = 0 /\ \A v \in Writers \ {w} : running'[v] = running[v]
    BY <2>1 DEF NoTransaction
  <2>3. Final \subseteq Final'
    BY <2>1, <2>2 DEF Final
  <2>4. \A r \in outbox' \ outbox : r.xid = running[w].xid
    BY <2>1
  <2>5. ASSUME NEW new \in Final' \ Final, NEW old \in Final PROVE Before(old, new)
    <3>1. new \in Rows /\ old \in Rows
      BY <2>1 DEF Final
    <3>2. ~ new.xid < running[w].xid
      <4>1. CASE new \in outbox
        BY <2>2, <2>5, <4>1 DEF Final
      <4>2. CASE new \notin outbox
        BY <2>4, <2>5, <3>1, <4>2 DEF Final, Rows
      <4>3. QED
        BY <4>1, <4>2
    <3>3. old.xid < running[w].xid
      BY <2>1 DEF Final
    <3>4. QED
      BY <3>1, <3>2, <3>3 DEF Before, Rows
  <2>6. \A place \in Rows : Passed(place) => Passed(place)'
    BY <2>1, <2>2 DEF Passed
  <2>7. QED
    BY <2>1, <2>3, <2>4, <2>5, <2>6
<1>4. QED
  BY <1>1, <1>2, <1>3 DEF WriterStep

-----------------------------------------------------------------------------
(* Each step keeps the invariant.                                            *)

LEMMA WritersKeepInv ==
    ASSUME TimelineInv, WriterStep
    PROVE  TimelineInv'
<1> USE DEF TimelineInv
<1>1. TypeOK' /\ TransactionsSound' /\ UNCHANGED <<cursor, projector, timeline>>
  BY WritersKeepTransactions DEF WriterStep, readerVars
<1>2. /\ Final \subseteq Final'
      /\ \A new \in Final' \ Final, old \in Final : Before(old, new)
      /\ \A r \in outbox' \ outbox :
             \E w \in Writers : running[w].xid # 0 /\ r.xid = running[w].xid
      /\ \A place \in Rows : Passed(place) => Passed(place)'
  BY FinalGrowsAtItsEnd
<1>3. Final \subseteq Rows /\ Final' \subseteq Rows
  BY <1>1 DEF Final, TypeOK
<1>4. Passed(cursor)'
  BY <1>1, <1>2 DEF TypeOK
\* A new row stands after every place that was passed.
<1>5. \A place \in Rows, r \in outbox' \ outbox : Passed(place) => Before(place, r)
  BY <1>2 DEF Passed, Before
<1>6. NothingIsSkipped'
  BY <1>1, <1>4, <1>5 DEF NothingIsSkipped, Passed, TypeOK
<1>7. timeline' \subseteq Final' /\ \A e \in timeline', d \in Final' : Before(d, e) => d \in timeline'
  <2>1. ASSUME NEW e \in timeline, NEW d \in Final', Before(d, e) PROVE d \in timeline
    <3>1. d \in Final
      BY <1>2, <1>3, <2>1, OrderOfRows
    <3>2. QED
      BY <2>1, <3>1
  <2>2. QED
    BY <1>1, <1>2, <2>1
<1>8. ASSUME NEW p \in Projectors, projector[p].step # "idle" PROVE StepSound(projector[p])'
  <2> DEFINE s == projector[p]
  <2>1. StepSound(s) /\ s.from \in Rows /\ s.batch \subseteq Rows
    BY <1>8 DEF TypeOK
  <2>2. Passed(s.from)'
    BY <1>1, <1>2, <2>1 DEF StepSound
  <2>3. \A r \in outbox' : Before(s.from, r) \/ r \in timeline
    BY <1>5, <2>1 DEF StepSound
  <2>4. ASSUME NEW r \in s.batch, NEW q \in Final', Before(q, r)
        PROVE  q \in s.batch \/ ~ Before(s.from, q)
    <3>1. q \in Final
      BY <1>2, <1>3, <2>1, <2>4, OrderOfRows DEF StepSound
    <3>2. QED
      BY <2>1, <2>4, <3>1 DEF StepSound
  <2>5. s.batch \subseteq Final'
    BY <1>2, <2>1 DEF StepSound
  <2>6. QED
    BY <1>1, <2>2, <2>3, <2>4, <2>5 DEF StepSound
<1>9. QED
  BY <1>1, <1>4, <1>6, <1>7, <1>8

LEMMA ProjectorMoves ==
    ASSUME TimelineInv, NEW p \in Projectors, UNCHANGED <<writerVars, cursor, timeline>>,
           NEW s \in [step : {"idle", "reading", "writing"}, from : Rows, batch : SUBSET Rows],
           projector' = [projector EXCEPT ![p] = s],
           s.step # "idle" => StepSound(s)
    PROVE  TimelineInv'
<1> USE DEF TimelineInv
<1>1. UNCHANGED <<nextXid, nextId, running, outbox>>
  BY DEF writerVars
<1>2. TypeOK'
  BY <1>1 DEF TypeOK
<1>3. ASSUME NEW t, StepSound(t) PROVE StepSound(t)'
  BY <1>1, <1>3 DEF StepSound, Passed, Final
<1>4. \A q \in Projectors : projector'[q].step # "idle" => StepSound(projector'[q])
  BY DEF TypeOK
<1>5. (\A q \in Projectors : projector[q].step # "idle" => StepSound(projector[q]))'
  BY <1>3, <1>4
<1>6. QED
  BY <1>1, <1>2, <1>5 DEF TransactionsSound, NothingIsSkipped, Passed, Final

LEMMA ReadCursorKeepsInv ==
    ASSUME TimelineInv, NEW p \in Projectors, ReadCursor(p)
    PROVE  TimelineInv'
<1> DEFINE s == [step |-> "reading", from |-> cursor, batch |-> {}]
<1>1. s \in [step : {"idle", "reading", "writing"}, from : Rows, batch : SUBSET Rows]
  BY DEF TimelineInv, TypeOK
<1>2. StepSound(s)
  BY DEF TimelineInv, StepSound, NothingIsSkipped
<1>3. QED
  BY <1>1, <1>2, ProjectorMoves DEF ReadCursor

LEMMA RestingKeepsInv ==
    ASSUME TimelineInv, NEW p \in Projectors, UNCHANGED <<writerVars, cursor, timeline>>,
           projector' = [projector EXCEPT ![p] = Resting]
    PROVE  TimelineInv'
  BY ProjectorMoves DEF Resting, Start, Rows

LEMMA ReadOutboxKeepsInv ==
    ASSUME TimelineInv, NEW p \in Projectors, ReadOutbox(p)
    PROVE  TimelineInv'
<1> DEFINE s == projector[p]
           batch == OutboxSince(s.from)
           t == [s EXCEPT !.step = "writing", !.batch = batch]
<1>1. /\ s \in [step : {"idle", "reading", "writing"}, from : Rows, batch : SUBSET Rows]
      /\ StepSound(s) /\ outbox \subseteq Rows /\ IsFiniteSet(outbox)
  BY DEF TimelineInv, TypeOK, TransactionsSound, ReadOutbox
<1>2. CASE batch = {}
  BY <1>2, RestingKeepsInv DEF ReadOutbox
<1>3. CASE batch # {}
  <2>1. batch \subseteq Final /\ Final \subseteq Rows
    BY <1>1 DEF OutboxSince, Final
  <2>2. t.step = "writing" /\ t.from = s.from /\ t.batch = batch
    BY <1>1
  <2>3. t \in [step : {"idle", "reading", "writing"}, from : Rows, batch : SUBSET Rows]
    BY <1>1, <2>1
  <2>4. \A r \in batch, q \in Final : Before(q, r) => q \in batch \/ ~ Before(s.from, q)
    BY <1>1, BatchHasNoGap
  <2> HIDE DEF t, batch
  <2>5. StepSound(t)
    BY <1>1, <2>1, <2>2, <2>4 DEF StepSound
  <2>6. projector' = [projector EXCEPT ![p] = t] /\ UNCHANGED <<writerVars, cursor, timeline>>
    BY <1>3 DEF ReadOutbox, batch, t
  <2>7. QED
    BY <2>3, <2>5, <2>6, ProjectorMoves
<1>4. QED
  BY <1>2, <1>3

\* What writing a batch does to the timelines: they stay a feed.
LEMMA WrittenInOrder ==
    ASSUME TimelineInv, NEW p \in Projectors, WriteEvents(p)
    PROVE  /\ timeline' \subseteq Final
           /\ \A e \in timeline', d \in Final : Before(d, e) => d \in timeline'
           /\ cursor' \in projector[p].batch
           /\ \A r \in outbox : Before(cursor', r) \/ r \in timeline'
<1> DEFINE s == projector[p]
<1>1. /\ s.batch \subseteq Rows /\ StepSound(s) /\ timeline' = timeline \union s.batch
      /\ outbox \subseteq Rows /\ Final \subseteq outbox
  BY DEF TimelineInv, TypeOK, WriteEvents, Final
<1>2. PICK last \in s.batch : /\ \A r \in s.batch : r = last \/ Before(r, last)
                              /\ cursor' = last
  BY DEF WriteEvents
<1>3. ASSUME NEW e \in timeline', NEW d \in Final, Before(d, e) PROVE d \in timeline'
  BY <1>1, <1>3 DEF TimelineInv, StepSound
<1>4. ASSUME NEW r \in outbox, ~ Before(last, r) PROVE r \in timeline'
  <2>1. CASE r = last
    BY <1>1, <2>1
  <2>2. CASE Before(r, last)
    <3>1. last \in Final
      BY <1>1 DEF StepSound
    <3>2. r \in Final
      BY <1>1, <2>2, <3>1 DEF Final, Before, Rows, TimelineInv, TypeOK
    <3>3. QED
      BY <1>1, <1>2, <2>2, <3>2 DEF StepSound
  <2>3. QED
    BY <1>1, <1>4, <2>1, <2>2, OrderOfRows
<1>5. timeline' \subseteq Final
  BY <1>1 DEF TimelineInv, StepSound
<1>6. QED
  BY <1>2, <1>3, <1>4, <1>5

LEMMA WriteEventsKeepsInv ==
    ASSUME TimelineInv, NEW p \in Projectors, WriteEvents(p)
    PROVE  TimelineInv'
<1> USE DEF TimelineInv
<1>1. /\ timeline' \subseteq Final
      /\ \A e \in timeline', d \in Final : Before(d, e) => d \in timeline'
      /\ cursor' \in projector[p].batch
      /\ \A r \in outbox : Before(cursor', r) \/ r \in timeline'
  BY WrittenInOrder
<1>2. /\ UNCHANGED <<nextXid, nextId, running, outbox>>
      /\ projector' = [projector EXCEPT ![p] = Resting]
      /\ timeline \subseteq timeline' /\ projector[p].step # "idle"
  BY DEF WriteEvents, writerVars
<1>3. Final' = Final
  BY <1>2 DEF Final
<1>4. TypeOK'
  BY <1>1, <1>2 DEF TypeOK, Resting, Start, Rows, Final
<1>5. Passed(cursor')
  <2>1. cursor' \in Final
    BY <1>1, <1>2 DEF StepSound
  <2>2. QED
    BY <2>1 DEF Final, Passed, TransactionsSound
<1>6. NothingIsSkipped' /\ Passed(cursor)'
  BY <1>1, <1>2, <1>5 DEF NothingIsSkipped, Passed
<1>7. ASSUME NEW t, StepSound(t) PROVE StepSound(t)'
  BY <1>2, <1>3, <1>7 DEF StepSound, Passed
<1>8. \A q \in Projectors : projector'[q].step # "idle" => StepSound(projector'[q])
  BY <1>2 DEF TypeOK, Resting
<1>9. (\A q \in Projectors : projector[q].step # "idle" => StepSound(projector[q]))'
  BY <1>7, <1>8
<1>10. (timeline \subseteq Final /\ \A e \in timeline, d \in Final : Before(d, e) => d \in timeline)'
  BY <1>1, <1>3
<1>11. TransactionsSound'
  BY <1>2 DEF TransactionsSound
<1>12. QED
  BY <1>4, <1>6, <1>9, <1>10, <1>11

LEMMA NextKeepsInv == TimelineInv /\ [Next]_vars => TimelineInv'
<1> SUFFICES ASSUME TimelineInv, [Next]_vars PROVE TimelineInv'
  OBVIOUS
<1>1. CASE UNCHANGED vars
  BY <1>1 DEF vars, writerVars, readerVars, TimelineInv, TypeOK, TransactionsSound,
              NothingIsSkipped, Passed, Final, StepSound
<1>2. CASE WriterStep
  BY <1>2, WritersKeepInv
<1>3. ASSUME NEW p \in Projectors, ReadCursor(p) \/ ReadOutbox(p) \/ WriteEvents(p) \/ Fail(p)
      PROVE  TimelineInv'
  BY <1>3, ReadCursorKeepsInv, ReadOutboxKeepsInv, WriteEventsKeepsInv, RestingKeepsInv DEF Fail
<1>4. QED
  BY <1>1, <1>2, <1>3 DEF Next, WriterStep

-----------------------------------------------------------------------------
(* The theorems.                                                             *)

LEMMA AlwaysInv == Spec => []TimelineInv
<1>1. QED
  BY InitInv, NextKeepsInv, PTL DEF Spec

\* Every variable keeps to what the code can put in it.
THEOREM TimelineTypeCorrect == Spec => []TypeOK
<1>1. TimelineInv => TypeOK
  BY DEF TimelineInv
<1>2. QED
  BY <1>1, AlwaysInv, PTL

\* A reader that resumes from the cursor never skips a row, for any number of
\* transactions committing in any order and any number of overlapping Gateways.
THEOREM NothingIsEverSkipped == Spec => []NothingIsSkipped
<1>1. TimelineInv => NothingIsSkipped
  BY DEF TimelineInv
<1>2. QED
  BY <1>1, AlwaysInv, PTL

\* The projection implements the feed: every step of it publishes at the end,
\* tells in order, or changes nothing the reader of a feed can see.
THEOREM ProjectionIsAFeed == Spec => IsAFeed
<1>1. Init => Feed!Init
  BY DEF Init, Feed!Init, Published, Final
<1>2. TimelineInv /\ [Next]_vars => [Feed!Next]_(Feed!feedVars)
  <2> SUFFICES ASSUME TimelineInv, [Next]_vars PROVE [Feed!Next]_(Feed!feedVars)
    OBVIOUS
  <2> USE DEF Feed!Next, Feed!feedVars, Published
  <2>1. CASE WriterStep
    <3>1. UNCHANGED timeline
      BY <2>1, WritersKeepTransactions DEF WriterStep, TimelineInv, readerVars
    <3>2. QED
      BY <2>1, <3>1, FinalGrowsAtItsEnd DEF Feed!Publish, TimelineInv
  <2>2. ASSUME NEW p \in Projectors, WriteEvents(p) PROVE Feed!Tell
    <3>1. UNCHANGED Final
      BY <2>2 DEF WriteEvents, writerVars, Final
    <3>2. timeline \subseteq timeline'
      BY <2>2 DEF WriteEvents
    <3>3. QED
      BY <2>2, <3>1, <3>2, WrittenInOrder DEF Feed!Tell
  <2>3. ASSUME NEW p \in Projectors, ReadCursor(p) \/ ReadOutbox(p) \/ Fail(p)
        PROVE  UNCHANGED <<Final, timeline>>
    BY <2>3 DEF ReadCursor, ReadOutbox, Fail, writerVars, Final
  <2>4. CASE UNCHANGED vars
    BY <2>4 DEF vars, writerVars, readerVars, Final
  <2>5. QED
    BY <2>1, <2>2, <2>3, <2>4 DEF Next, WriterStep
<1>3. QED
  BY <1>1, <1>2, AlwaysInv, PTL DEF Spec, IsAFeed, Feed!Spec
=============================================================================
