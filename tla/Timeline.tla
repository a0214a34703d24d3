------------------------------ MODULE Timeline ------------------------------
(* How the activity record's outbox reaches the wallets' timelines.  Each    *)
(* database transaction of Execution writes outbox rows beside its changes;  *)
(* Growth's projector (server/internal/growth/events.go, server/cmd/seametry *)
(* /project.go) reads them from a stored cursor (server/internal/execution/  *)
(* outbox.go) and writes them with the cursor in one transaction.  Several   *)
(* transactions run at once and commit in any order, two Gateways project    *)
(* while a deploy overlaps, and any pass may fail or be cut short anywhere.  *)
EXTENDS Naturals, FiniteSets

CONSTANTS
    Writers,        \* the connections Execution's transactions run on
    Projectors,     \* the Gateways' projection loops
    Batch,          \* how many rows a step reads (batch, 500)
    MaxXid,         \* bound: transactions that are begun
    MaxId           \* bound: outbox rows that are written

ASSUME TimelineAssumption ==
    /\ Batch \in Nat \ {0}
    /\ {MaxXid, MaxId} \subseteq Nat

VARIABLES
    nextXid,        \* the next transaction's id (external, Postgres)
    nextId,         \* the next row's identity value (external, Postgres)
    running,        \* per writer: its transaction and the rows it wrote
    outbox,         \* execution.outbox as committed
    cursor,         \* growth.cursors, of the execution outbox
    projector,      \* per projector: the step it is in
    timeline        \* growth.events, by the row each was projected from

writerVars == <<nextXid, nextId, running, outbox>>
readerVars == <<cursor, projector, timeline>>
vars == <<writerVars, readerVars>>

\* A row is where it stands: its transaction and its identity value.
Rows == [xid : Nat, id : Nat]
Start == [xid |-> 0, id |-> 0]

\* Slip: identity values alone, which are handed out before commit.
BeforeById(a, b) == a.id < b.id

\* ORDER BY xid, id.
Before(a, b) == a.xid < b.xid \/ (a.xid = b.xid /\ a.id < b.id)

-----------------------------------------------------------------------------
(* Execution's transactions.  A transaction gets its id at its first write,  *)
(* a row its identity value when it is inserted: neither waits for a commit. *)

NoTransaction == [xid |-> 0, rows |-> {}]

Begin(w) ==
    /\ running[w].xid = 0
    /\ nextXid <= MaxXid
    /\ running' = [running EXCEPT ![w].xid = nextXid]
    /\ nextXid' = nextXid + 1
    /\ UNCHANGED <<nextId, outbox, readerVars>>

Insert(w) ==
    /\ running[w].xid # 0
    /\ nextId <= MaxId
    /\ running' = [running EXCEPT ![w].rows = @ \union {[xid |-> running[w].xid, id |-> nextId]}]
    /\ nextId' = nextId + 1
    /\ UNCHANGED <<nextXid, outbox, readerVars>>

Commit(w) ==
    /\ running[w].xid # 0
    /\ outbox' = outbox \union running[w].rows
    /\ running' = [running EXCEPT ![w] = NoTransaction]
    /\ UNCHANGED <<nextXid, nextId, readerVars>>

\* The change failed, or its process stopped: its rows are gone, and neither
\* its id nor theirs is used again.
Abort(w) ==
    /\ running[w].xid # 0
    /\ running' = [running EXCEPT ![w] = NoTransaction]
    /\ UNCHANGED <<nextXid, nextId, outbox, readerVars>>

-----------------------------------------------------------------------------
(* OutboxSince: rows after the cursor, only of transactions older than every *)
(* one still running, the first of them.                                     *)

\* Slip: every row a reader can see.
AllCommitted == outbox

Final == {r \in outbox : \A w \in Writers : running[w].xid # 0 => r.xid < running[w].xid}

\* Slip: a cursor that keeps the transaction and not the row.
AfterTransaction(from) ==
    LET after == {r \in Final : r.xid > from.xid}
    IN  {r \in after : Cardinality({q \in after : Before(q, r)}) < Batch}

OutboxSince(from) ==
    LET after == {r \in Final : Before(from, r)}
    IN  {r \in after : Cardinality({q \in after : Before(q, r)}) < Batch}

-----------------------------------------------------------------------------
(* A projection step: read the cursor, read the outbox, write both.          *)

Resting == [step |-> "idle", from |-> Start, batch |-> {}]

\* Slip: the last row written is read again.
ReadCursorBefore(p) ==
    /\ projector[p].step = "idle"
    /\ projector' = [projector EXCEPT ![p] =
           [step |-> "reading", from |-> [cursor EXCEPT !.id = @ - 1], batch |-> {}]]
    /\ UNCHANGED <<writerVars, cursor, timeline>>

ReadCursor(p) ==
    /\ projector[p].step = "idle"
    /\ projector' = [projector EXCEPT ![p] = [step |-> "reading", from |-> cursor, batch |-> {}]]
    /\ UNCHANGED <<writerVars, cursor, timeline>>

ReadOutbox(p) ==
    /\ projector[p].step = "reading"
    /\ LET batch == OutboxSince(projector[p].from)
       IN  projector' = [projector EXCEPT ![p] =
               IF batch = {} THEN Resting
                             ELSE [@ EXCEPT !.step = "writing", !.batch = batch]]
    /\ UNCHANGED <<writerVars, cursor, timeline>>

\* The cursor moves to the last row of the batch, wherever it was moved since.
WriteEvents(p) ==
    /\ projector[p].step = "writing"
    /\ timeline' = timeline \union projector[p].batch
    /\ \E last \in projector[p].batch :
        /\ \A r \in projector[p].batch : r = last \/ Before(r, last)
        /\ cursor' = last
    /\ projector' = [projector EXCEPT ![p] = Resting]
    /\ UNCHANGED writerVars

\* A read failed, the transaction rolled back, or the Gateway was stopped.
Fail(p) ==
    /\ projector[p].step # "idle"
    /\ projector' = [projector EXCEPT ![p] = Resting]
    /\ UNCHANGED <<writerVars, cursor, timeline>>

-----------------------------------------------------------------------------
Init ==
    /\ nextXid = 1
    /\ nextId = 1
    /\ running = [w \in Writers |-> NoTransaction]
    /\ outbox = {}
    /\ cursor = Start
    /\ projector = [p \in Projectors |-> Resting]
    /\ timeline = {}

Next ==
    \/ \E w \in Writers : Begin(w) \/ Insert(w) \/ Commit(w) \/ Abort(w)
    \/ \E p \in Projectors : ReadCursor(p) \/ ReadOutbox(p) \/ WriteEvents(p) \/ Fail(p)

Spec == Init /\ [][Next]_vars

-----------------------------------------------------------------------------
(* Every transaction ends, and a pass that is tried again and again is       *)
(* answered at last.                                                         *)

Fairness ==
    /\ \A w \in Writers : WF_vars(Commit(w) \/ Abort(w))
    /\ \A p \in Projectors : /\ WF_vars(ReadCursor(p))
                             /\ SF_vars(ReadOutbox(p))
                             /\ SF_vars(WriteEvents(p))

FairSpec == Spec /\ Fairness
=============================================================================
