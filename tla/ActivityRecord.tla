--------------------------- MODULE ActivityRecord ---------------------------
(* The activity record Execution keeps (server/internal/execution), and the   *)
(* web routes' reports that fill it.  A leg is one signed trade; its message  *)
(* digest is how a submission finds its row.  Each quote here holds one leg   *)
(* and every leg is one wallet's: legs of other quotes and wallets share no   *)
(* row with these.  Every change of a row and its outbox row are one          *)
(* statement, so outbox[l] is what the outbox holds about leg l, in order.    *)
EXTENDS Naturals, Sequences, FiniteSets

CONSTANTS
    Legs,           \* numbers, in the order of their submitted_at
    Attempts        \* how often the web route tries to deliver a report

ASSUME RecordAssumption ==
    /\ Legs \subseteq Nat \ {0}
    /\ IsFiniteSet(Legs)
    /\ Attempts \in Nat \ {0}

VARIABLES
    rows,           \* execution.legs, by leg; NoRow where there is none
    outbox,         \* per leg, the kinds of outbox row written about it
    twins,          \* the legs an import gave a second row and settled outbox row
    reports         \* the reports the web route is still trying to deliver

rowVars    == <<rows, outbox, twins>>
recordVars == <<rowVars, reports>>

Results  == {"sent", "refused_not_sent", "uncertain"}
Outcomes == {"landed", "failed", "dropped"}

NoRow == [source |-> "none", signature |-> FALSE,
          submit_result |-> "none", chain_outcome |-> "none"]
Rows  == [source: {"none", "server", "chain"}, signature: BOOLEAN,
          submit_result: Results \union {"none"},
          chain_outcome: Outcomes \union {"none"}]

\* A prepare request's report, and a submission's; "none" is a quote's result.
Report(kind, l, result) ==
    [kind |-> kind, leg |-> l, result |-> result, tries |-> Attempts]
Reports == [kind: {"quote"}, leg: Legs, result: {"none"}, tries: 1 .. Attempts]
    \union [kind: {"submission"}, leg: Legs, result: Results, tries: 1 .. Attempts]

InitRecord ==
    /\ rows = [l \in Legs |-> NoRow]
    /\ outbox = [l \in Legs |-> <<>>]
    /\ twins = {}
    /\ reports = {}

Tell(l, kind) == outbox' = [outbox EXCEPT ![l] = Append(@, kind)]

-----------------------------------------------------------------------------
(* The web route's side of a report: answered, it is done with; unanswered    *)
(* (a lost connection or the Gateway's own failure), it is tried again while  *)
(* attempts are left and then lost.                                           *)

Answered(m)   == reports' = reports \ {m}
UnansweredForever(m) ==
    reports' = (reports \ {m}) \union {[m EXCEPT !.tries = @ - 1]}
Unanswered(m) ==
    reports' = (reports \ {m}) \union
               {r \in {[m EXCEPT !.tries = @ - 1]} : r.tries > 0}

\* The report never reached the Gateway.
LoseReport(m) ==
    /\ Unanswered(m)
    /\ UNCHANGED rowVars

-----------------------------------------------------------------------------
(* RecordQuote and RecordSubmission, each one transaction.                    *)

\* InsertQuote and InsertLeg: a quote id already recorded changes nothing.
QuoteRecorded(l) ==
    IF rows[l].source = "none"
      THEN /\ rows' = [rows EXCEPT ![l].source = "server"]
           /\ Tell(l, "quoted")
      ELSE UNCHANGED <<rows, outbox>>

\* A quote for a message an import already holds breaks the digest's UNIQUE
\* constraint: the transaction rolls back and the Gateway answers 500.
DeliverQuote(m) ==
    /\ m.kind = "quote"
    /\ QuoteRecorded(m.leg)
    /\ UNCHANGED twins
    /\ \/ rows[m.leg].source # "chain" /\ Answered(m)
       \/ Unanswered(m)

LatestSubmissionRecorded(l, result) ==
    /\ rows' = [rows EXCEPT ![l].signature = TRUE, ![l].submit_result = result]
    /\ Tell(l, "sent")

\* The first submission of a leg is kept; a repeat changes nothing.
SubmissionRecorded(l, result) ==
    IF rows[l].submit_result = "none"
      THEN /\ rows' = [rows EXCEPT ![l].signature = TRUE, ![l].submit_result = result]
           /\ Tell(l, "sent")
      ELSE UNCHANGED <<rows, outbox>>

\* A digest no recorded leg carries is refused with 404, which is not retried.
\* A signature an import has put on a second row breaks its UNIQUE constraint:
\* the statement changes nothing and the Gateway answers 500.
DeliverSubmission(m) ==
    /\ m.kind = "submission"
    /\ UNCHANGED twins
    /\ \/ /\ rows[m.leg].source = "none"
          /\ Answered(m)
          /\ UNCHANGED <<rows, outbox>>
       \/ /\ rows[m.leg].source # "none"
          /\ m.leg \in twins
          /\ Unanswered(m)
          /\ UNCHANGED <<rows, outbox>>
       \/ /\ rows[m.leg].source # "none"
          /\ m.leg \notin twins
          /\ SubmissionRecorded(m.leg, m.result)
          /\ Answered(m) \/ Unanswered(m)

=============================================================================
