------------------------- MODULE TimelineProperties -------------------------
(* What the projection promises, whatever order transactions commit in and   *)
(* however projection steps overlap or stop.                                 *)
EXTENDS Timeline

\* Every variable holds what the code can put in it.
TypeOK ==
    /\ nextXid \in 1 .. MaxXid + 1
    /\ nextId \in 1 .. MaxId + 1
    /\ running \in [Writers -> [xid : Nat, rows : SUBSET Rows]]
    /\ outbox \subseteq Rows
    /\ cursor \in Rows
    /\ projector \in [Projectors -> [step : {"idle", "reading", "writing"},
                                     from : Rows, batch : SUBSET Rows]]
    /\ timeline \subseteq Rows

\* "Resuming from the last event's cursor never skips one" (outbox.go): every
\* row at or before the cursor is on a timeline, and no transaction still
\* running can add one there, not even once overlapping Gateways have moved
\* the cursor backwards.
NothingIsSkipped ==
    /\ \A r \in outbox : Before(cursor, r) \/ r \in timeline
    /\ \A w \in Writers : running[w].xid # 0 => cursor.xid < running[w].xid

\* The rows a reader can be given: those of transactions older than every one
\* that runs or is still to come.
Published == Final

\* The feed the projection carries out.
Feed == INSTANCE EventFeed WITH published <- Published, told <- timeline

\* The projection is the feed EventFeed describes: what a reader may be given
\* only grows at its end, and timelines take events in that order without a
\* gap, from rows that are committed for good.
IsAFeed == Feed!Spec

\* Every change the record commits reaches its wallet's timeline, however
\* often passes fail, stop or overlap.
EveryEventIsTold ==
    \A x \in 1 .. MaxXid, i \in 1 .. MaxId :
        LET r == [xid |-> x, id |-> i] IN r \in outbox ~> r \in timeline

-----------------------------------------------------------------------------
(* Why it holds, step after step.                                            *)

\* No transaction that runs, or is still to begin, shares an id with a
\* committed row or with another one.
TransactionsSound ==
    /\ \A w \in Writers :
        /\ running[w].xid < nextXid
        /\ running[w].xid = 0 => running[w].rows = {}
        /\ IsFiniteSet(running[w].rows)
        /\ \A r \in running[w].rows : r.xid = running[w].xid
    /\ IsFiniteSet(outbox)
    /\ \A r \in outbox : r.xid < nextXid

\* A place in the outbox no row can appear at or before any more.
Passed(place) ==
    /\ place.xid < nextXid
    /\ \A w \in Writers : running[w].xid # 0 => place.xid < running[w].xid

\* A projector's batch is what follows its cursor, without a gap.
StepSound(s) ==
    /\ Passed(s.from)
    /\ \A r \in outbox : Before(s.from, r) \/ r \in timeline
    /\ s.batch \subseteq Final
    /\ \A r \in s.batch, q \in Final :
           Before(q, r) => q \in s.batch \/ ~ Before(s.from, q)

TimelineInv ==
    /\ TypeOK
    /\ TransactionsSound
    /\ NothingIsSkipped
    /\ Passed(cursor)
    /\ timeline \subseteq Final
    /\ \A e \in timeline, d \in Final : Before(d, e) => d \in timeline
    /\ \A p \in Projectors : projector[p].step # "idle" => StepSound(projector[p])
=============================================================================
