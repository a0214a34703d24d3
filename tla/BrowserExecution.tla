-------------------------- MODULE BrowserExecution --------------------------
(* The browser's execution engine (clients/web/src/lib/execution).  A page    *)
(* records what the wallet signed, posts each leg to the submit route, and    *)
(* watches the chain until every leg has an end.  The tabs of one browser     *)
(* share localStorage but each keeps the list in memory and writes it back    *)
(* whole; a tab may be reloaded between any two steps, a request or its       *)
(* answer may be lost, and ticks of one tab may overlap.                      *)
EXTENDS Integers, FiniteSets

CONSTANTS
    Tabs,
    Executions,
    Legs,               \* positions in the baskets: a set of numbers
    ExecutionOf,        \* the execution each leg belongs to
    ToRpc,              \* the legs whose landing is "rpc"; the others go to Sender
    KEPT,
    DROP_MARGIN_BLOCKS,
    Lives,              \* blocks a blockhash may have left when the wallet signs (external)
    StatusLag,          \* blocks a status read may lag the chain (external)
    Slots,              \* bound: ticks of one tab in flight at once
    MaxHeight,          \* bound: the chain stops growing here
    MaxReloads          \* bound: how often tabs are reloaded

ASSUME BrowserAssumption ==
    /\ Legs \subseteq Nat
    /\ ExecutionOf \in [Legs -> Executions]
    /\ ToRpc \subseteq Legs
    /\ Lives \subseteq Nat
    /\ {KEPT, DROP_MARGIN_BLOCKS, StatusLag, MaxHeight, MaxReloads} \subseteq Nat
    \* "A status read can lag the block it reports on by a few slots": no more
    \* than the margin allows for.
    /\ StatusLag <= DROP_MARGIN_BLOCKS + 1

VARIABLES
    stored,             \* the list in localStorage
    cache,              \* per tab: the list it holds
    notified,           \* the tabs a storage event is on its way to
    origin,             \* per execution: the tab that asked for it
    request,            \* per leg: its POST to the submit route, as its tab sees it
    server,             \* per leg: that POST as the submit route sees it
    broadcast,          \* the legs that reached the cluster
    landing,            \* per leg: the block it is in and whether it failed there
    height,             \* the chain's confirmed block height
    lastValid,          \* per leg: lastValidBlockHeight
    watching,           \* per tab: openKey of the effect now mounted
    ticks,              \* per tab and slot: a tick of the watcher
    reloads             \* how many tabs were reloaded

storeVars == <<stored, cache, notified>>
sendVars  == <<origin, request, server, lastValid>>
chainVars == <<broadcast, landing, height>>
watchVars == <<watching, ticks>>
vars == <<storeVars, sendVars, chainVars, watchVars, reloads>>

Terminal == {"landed", "failed", "dropped", "refused"}
Phases   == {"signed", "sent"} \union Terminal

LegsOf(e) == {l \in Legs : ExecutionOf[l] = e}

\* A list of records, newest first: place[e] is 1 at the front, 0 for an execution
\* the list does not hold.
NoRecords == [place |-> [e \in Executions |-> 0],
              phase |-> [l \in Legs |-> "none"],
              unreadable |-> {}]

Holds(list, e) == list.place[e] # 0

\* Slip: a leg is watched only once its send was answered.
OpenOnceSent(list) == {l \in Legs : list.phase[l] = "sent"}

\* openKey.  A leg the wallet returned unsigned is refused from the start, so
\* an open leg always has a signature.
Open(list) == {l \in Legs : list.phase[l] \in {"signed", "sent"}}

Ended(list, e) == Holds(list, e) /\ \A l \in LegsOf(e) : list.phase[l] \in Terminal

-----------------------------------------------------------------------------
(* store.ts *)

\* Slip: the newest records are the ones cut off.
KeptOldest(list, e) ==
    list.place[e] > Cardinality({f \in Executions : Holds(list, f)}) - KEPT

Kept(list, e) == list.place[e] \in 1 .. KEPT

Truncated(list) ==
    [place |-> [e \in Executions |-> IF Kept(list, e) THEN list.place[e] ELSE 0],
     phase |-> [l \in Legs |-> IF Kept(list, ExecutionOf[l]) THEN list.phase[l] ELSE "none"],
     unreadable |-> {e \in list.unreadable : Kept(list, e)}]

\* The list is cut, kept in memory and written whole; the browser tells every
\* other tab, some time later.
Commit(t, list) ==
    /\ stored' = Truncated(list)
    /\ cache' = [cache EXCEPT ![t] = Truncated(list)]
    /\ notified' = notified \union (Tabs \ {t})

\* Executions.update on one leg: legs of records the tab does not hold stay out.
WithPhase(list, l, phase) ==
    IF Holds(list, ExecutionOf[l]) THEN [list EXCEPT !.phase[l] = phase] ELSE list

\* Slip: the listener renders again what the tab holds in memory.
RenderAgain(t) ==
    /\ t \in notified
    /\ notified' = notified \ {t}
    /\ UNCHANGED <<stored, cache, sendVars, chainVars, watchVars, reloads>>

\* The listener drops the memory and React reads the list again at once.
FromAnotherTab(t) ==
    /\ t \in notified
    /\ cache' = [cache EXCEPT ![t] = stored]
    /\ notified' = notified \ {t}
    /\ UNCHANGED <<stored, sendVars, chainVars, watchVars, reloads>>

\* Opening Activity marks the ended records as seen.  The mark itself is left
\* out: what matters is that the tab writes its whole list.
MarkSeen(t) ==
    /\ \E e \in Executions : Ended(cache[t], e)
    /\ Commit(t, cache[t])
    /\ UNCHANGED <<sendVars, chainVars, watchVars, reloads>>

-----------------------------------------------------------------------------
(* run.ts *)

Added(list, e, unsigned) ==
    [list EXCEPT
        !.place = [f \in Executions |-> IF f = e THEN 1
                                        ELSE IF Holds(list, f) THEN @[f] + 1 ELSE 0],
        !.phase = [l \in Legs |-> IF ExecutionOf[l] # e THEN @[l]
                                  ELSE IF l \in unsigned THEN "refused" ELSE "signed"]]

\* Everything up to the record: a wallet that declines, changes a transaction
\* or is switched ends the run with nothing recorded and nothing sent.  Sender
\* legs are posted at once, the others queue for their turn.
\* Bounded by MaxHeight: every deadline passes before the chain stops growing.
ApproveAndSend(t, e) ==
    /\ origin[e] = {}
    /\ origin' = [origin EXCEPT ![e] = {t}]
    /\ \E unsigned \in SUBSET LegsOf(e), life \in Lives :
        LET signed == LegsOf(e) \ unsigned
        IN  /\ height + life + DROP_MARGIN_BLOCKS < MaxHeight
            /\ Commit(t, Added(cache[t], e, unsigned))
            /\ lastValid' = [l \in Legs |-> IF l \in LegsOf(e) THEN height + life
                                            ELSE lastValid[l]]
            /\ request' = [l \in Legs |-> CASE l \in signed \ ToRpc -> "flying"
                                            [] l \in signed \intersect ToRpc -> "queued"
                                            [] OTHER -> request[l]]
            /\ server' = [l \in Legs |-> IF l \in signed \ ToRpc THEN "inbox"
                                         ELSE server[l]]
    /\ UNCHANGED <<chainVars, watchVars, reloads>>

\* The loop of one execution posts its next RPC leg once the last was answered.
PostNext(l) ==
    /\ request[l] = "queued"
    /\ \A k \in LegsOf(ExecutionOf[l]) \intersect ToRpc :
          /\ request[k] # "flying"
          /\ k < l => request[k] # "queued"
    /\ request' = [request EXCEPT ![l] = "flying"]
    /\ server' = [server EXCEPT ![l] = "inbox"]
    /\ UNCHANGED <<storeVars, origin, lastValid, chainVars, watchVars, reloads>>

\* An answer nobody waits for any more is gone.
Answer(l, answer) == IF request[l] = "flying" THEN answer ELSE "none"

\* The submit route says sent:false only of what surely never left it; any
\* other answer may or may not follow a broadcast, and so may no answer.
Submit(l) ==
    /\ server[l] = "inbox"
    /\ \/ /\ broadcast' = broadcast \union {l}
          /\ server' = [server EXCEPT ![l] = Answer(l, "sent")]
       \/ /\ UNCHANGED broadcast
          /\ \E answer \in {"sent", "refused"} :
                server' = [server EXCEPT ![l] = Answer(l, answer)]
    /\ UNCHANGED <<storeVars, origin, request, lastValid, landing, height, watchVars, reloads>>

\* Slip: the late answer wins over what the watcher has settled.
AfterAnyAnswer(list, l, phase) == WithPhase(list, l, phase)

\* The end of send(): the answer, or the fetch that failed, moves a leg on only
\* while it is still signed.
AfterAnswer(list, l, phase) ==
    IF list.phase[l] = "signed" THEN WithPhase(list, l, phase) ELSE list

Answered(l, phase) ==
    /\ request[l] = "flying"
    /\ request' = [request EXCEPT ![l] = "over"]
    /\ server' = [server EXCEPT ![l] = IF @ = "inbox" THEN @ ELSE "none"]
    /\ \E t \in origin[ExecutionOf[l]] :
          Commit(t, AfterAnswer(cache[t], l, phase))
    /\ UNCHANGED <<origin, lastValid, chainVars, watchVars, reloads>>

Receive(l) == server[l] \in {"sent", "refused"} /\ Answered(l, server[l])

LoseAnswer(l) == Answered(l, "sent")

-----------------------------------------------------------------------------
(* The chain, as the code in src/ uses it.  A block above the confirmed       *)
(* height is only processed and may still be abandoned.                       *)

NotIn == [block |-> 0, err |-> FALSE]

Confirmed(l) == landing[l] # NotIn /\ landing[l].block <= height

Grow ==
    /\ height < MaxHeight
    /\ height' = height + 1
    /\ UNCHANGED <<broadcast, landing, storeVars, sendVars, watchVars, reloads>>

\* A block past a leg's last valid height never holds it.
Land(l) ==
    /\ l \in broadcast
    /\ landing[l] = NotIn
    /\ \E block \in height + 1 .. lastValid[l], err \in BOOLEAN :
          landing' = [landing EXCEPT ![l] = [block |-> block, err |-> err]]
    /\ UNCHANGED <<broadcast, height, storeVars, sendVars, watchVars, reloads>>

Fork(l) ==
    /\ landing[l] # NotIn
    /\ ~ Confirmed(l)
    /\ landing' = [landing EXCEPT ![l] = NotIn]
    /\ UNCHANGED <<broadcast, height, storeVars, sendVars, watchVars, reloads>>

-----------------------------------------------------------------------------
(* watcher.ts, the status route and chain.ts *)

NoReading == [l \in Legs |-> "none"]
NoTick == [step |-> "idle", asked |-> {}, height |-> 0, reading |-> NoReading,
           current |-> FALSE]

SetTick(t, i, tick) == ticks' = [ticks EXCEPT ![t] = [@ EXCEPT ![i] = tick]]

\* The effect runs again when openKey changes: its timer is new, and a tick
\* still in flight is left to finish but not to go on.
Rerender(t) ==
    /\ watching[t] # Open(cache[t])
    /\ watching' = [watching EXCEPT ![t] = Open(cache[t])]
    /\ ticks' = [ticks EXCEPT ![t] = [i \in Slots |-> [@[i] EXCEPT !.current = FALSE]]]
    /\ UNCHANGED <<storeVars, sendVars, chainVars, reloads>>

StartTick(t, i) ==
    /\ watching[t] # {}
    /\ Open(cache[t]) # {}
    /\ ticks[t][i] = NoTick
    /\ \A j \in Slots : ~ ticks[t][j].current
    /\ SetTick(t, i, [NoTick EXCEPT !.step = "asked", !.asked = Open(cache[t]),
                                    !.current = TRUE])
    /\ UNCHANGED <<watching, storeVars, sendVars, chainVars, reloads>>

ReadHeight(t, i) ==
    /\ ticks[t][i].step = "asked"
    /\ SetTick(t, i, [ticks[t][i] EXCEPT !.step = "judging", !.height = height])
    /\ UNCHANGED <<watching, storeVars, sendVars, chainVars, reloads>>

\* Slip: the deadline is enough, and a status read is taken never to lag.
JudgeLegTight(l, seen, at) ==
    IF ~ seen THEN IF at >= lastValid[l] + DROP_MARGIN_BLOCKS THEN "dropped" ELSE "sent"
    ELSE IF landing[l].err THEN "failed" ELSE IF Confirmed(l) THEN "landed" ELSE "sent"

\* judgeLeg: an error counts at any confirmation, a success once confirmed.
JudgeLeg(l, seen, at) ==
    CASE seen /\ landing[l].err -> "failed"
      [] seen /\ ~ landing[l].err -> IF Confirmed(l) THEN "landed" ELSE "sent"
      [] ~ seen -> IF at > lastValid[l] + DROP_MARGIN_BLOCKS THEN "dropped" ELSE "sent"

\* What one answer of getSignatureStatuses may show: a node that lags by some
\* blocks has not seen what is newer.
Shown(lag) == {l \in Legs : landing[l] # NotIn /\ landing[l].block + lag <= height}

ReadStatuses(t, i) ==
    /\ ticks[t][i].step = "judging"
    /\ \E shown \in {Shown(lag) : lag \in 0 .. StatusLag}
                      \union {{l \in Legs : landing[l] # NotIn}} :
          SetTick(t, i, [ticks[t][i] EXCEPT
              !.step = "read", !.height = 0,
              !.reading = [l \in Legs |->
                  IF l \in ticks[t][i].asked
                  THEN JudgeLeg(l, l \in shown, ticks[t][i].height) ELSE "none"]])
    /\ UNCHANGED <<watching, storeVars, sendVars, chainVars, reloads>>

Touched(t, i) ==
    {e \in Executions : Holds(cache[t], e) /\ ticks[t][i].asked \intersect LegsOf(e) # {}}

\* Slip: a leg signed since the tick began is settled with no reading at all.
SettledUnasked(list, reading) ==
    [l \in Legs |-> IF list.phase[l] \in {"signed", "sent"} /\ reading[l] # "sent"
                    THEN reading[l] ELSE list.phase[l]]

\* settle: a reading moves a leg on only if it is still open.
Settled(list, reading) ==
    [l \in Legs |-> IF list.phase[l] \in {"signed", "sent"} /\ reading[l] \in Terminal
                    THEN reading[l] ELSE list.phase[l]]

ApplyReadings(t, i) ==
    /\ ticks[t][i].step = "read"
    /\ Commit(t, [cache[t] EXCEPT !.phase = Settled(cache[t], ticks[t][i].reading),
                                  !.unreadable = @ \ Touched(t, i)])
    /\ SetTick(t, i, NoTick)
    /\ UNCHANGED <<watching, sendVars, chainVars, reloads>>

\* A read that fails anywhere fails for every leg it asked about.
ReadFails(t, i) ==
    /\ ticks[t][i].step # "idle"
    /\ Commit(t, [cache[t] EXCEPT !.unreadable = @ \union Touched(t, i)])
    /\ SetTick(t, i, NoTick)
    /\ UNCHANGED <<watching, sendVars, chainVars, reloads>>

-----------------------------------------------------------------------------

\* A reload ends the tab's loops: queued legs are never posted, answers on their
\* way are lost, and what the submit route already holds goes on without it.
Reload(t) ==
    /\ reloads < MaxReloads
    /\ reloads' = reloads + 1
    /\ cache' = [cache EXCEPT ![t] = stored]
    /\ notified' = notified \ {t}
    /\ LET ended == {l \in Legs : t \in origin[ExecutionOf[l]] /\ request[l] # "none"}
       IN  /\ request' = [l \in Legs |-> IF l \in ended THEN "over" ELSE request[l]]
           /\ server' = [l \in Legs |-> IF l \in ended /\ server[l] # "inbox" THEN "none"
                                        ELSE server[l]]
    /\ watching' = [watching EXCEPT ![t] = Open(stored)]
    /\ ticks' = [ticks EXCEPT ![t] = [i \in Slots |-> NoTick]]
    /\ UNCHANGED <<stored, origin, lastValid, chainVars>>

Init ==
    /\ stored = NoRecords
    /\ cache = [t \in Tabs |-> NoRecords]
    /\ notified = {}
    /\ origin = [e \in Executions |-> {}]
    /\ request = [l \in Legs |-> "none"]
    /\ server = [l \in Legs |-> "none"]
    /\ lastValid = [l \in Legs |-> 0]
    /\ broadcast = {}
    /\ landing = [l \in Legs |-> NotIn]
    /\ height = 0
    /\ watching = [t \in Tabs |-> {}]
    /\ ticks = [t \in Tabs |-> [i \in Slots |-> NoTick]]
    /\ reloads = 0

TabStep(t) ==
    \/ FromAnotherTab(t)
    \/ MarkSeen(t)
    \/ Reload(t)
    \/ Rerender(t)
    \/ \E e \in Executions : ApproveAndSend(t, e)
    \/ \E i \in Slots : \/ StartTick(t, i)
                        \/ ReadHeight(t, i)
                        \/ ReadStatuses(t, i)
                        \/ ApplyReadings(t, i)
                        \/ ReadFails(t, i)

LegStep(l) ==
    \/ PostNext(l)
    \/ Submit(l)
    \/ Receive(l)
    \/ LoseAnswer(l)
    \/ Land(l)
    \/ Fork(l)

Next ==
    \/ \E t \in Tabs : TabStep(t)
    \/ \E l \in Legs : LegStep(l)
    \/ Grow

Spec == Init /\ [][Next]_vars
=============================================================================
