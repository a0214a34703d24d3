------------------------- MODULE BrowserProperties -------------------------
(* What the browser's own record of an execution promises its holder          *)
(* (lib/execution/record.ts, l. 10-17; watcher.ts, l. 49-55), whatever tabs,  *)
(* reloads, lost answers, forks and lagging nodes do.                         *)
EXTENDS BrowserExecution

\* A list holds a phase for exactly the legs of its records.
Lists ==
    {list \in [place: [Executions -> Nat], phase: [Legs -> Phases \union {"none"}],
               unreadable: SUBSET Executions] :
       \A l \in Legs : list.phase[l] # "none" <=> Holds(list, ExecutionOf[l])}

Ticks == [step: {"idle", "asked", "judging", "read"}, asked: SUBSET Legs, height: Nat,
          reading: [Legs -> {"none", "sent"} \union Terminal], current: BOOLEAN]

\* Every variable holds what the code can put in it.
TypeOK ==
    /\ stored \in Lists
    /\ cache \in [Tabs -> Lists]
    /\ notified \subseteq Tabs
    /\ origin \in [Executions -> SUBSET Tabs]
    /\ request \in [Legs -> {"none", "queued", "flying", "over"}]
    /\ server \in [Legs -> {"none", "inbox", "sent", "refused"}]
    /\ lastValid \in [Legs -> Nat]
    /\ broadcast \subseteq Legs
    /\ landing \in [Legs -> [block: Nat, err: BOOLEAN]]
    /\ height \in Nat
    /\ watching \in [Tabs -> SUBSET Legs]
    /\ ticks \in [Tabs -> [Slots -> Ticks]]
    /\ reloads \in Nat

\* What is known of the chain when a leg is given that end.
Justifies(phase, l) ==
    CASE phase = "landed"  -> Confirmed(l) /\ ~ landing[l].err
      [] phase = "dropped" -> landing[l] = NotIn /\ height > lastValid[l]
      [] phase = "refused" -> l \notin broadcast
      [] OTHER -> TRUE

\* In every tab and in storage, a leg called landed has landed for good, one
\* called dropped can never land, and one called refused never reached the
\* cluster: what is offered to buy again cannot be bought twice that way.
EndsAreTheChains ==
    \A l \in Legs : /\ Justifies(stored.phase[l], l)
                    /\ \A t \in Tabs : Justifies(cache[t].phase[l], l)

\* A tab that no storage event is on its way to holds exactly what is stored,
\* whichever tabs wrote in whatever order.
TabsAgree == \A t \in Tabs \ notified : cache[t] = stored

\* A tab that is up to date never takes back the end of a leg when it writes:
\* late answers, late ticks of an effect long gone and marks leave it alone.
EndsStand ==
    [][\A t \in Tabs \ notified :
         cache'[t] # cache[t] /\ t \notin notified' =>
            \A l \in Legs : cache[t].phase[l] \in Terminal =>
                cache'[t].phase[l] \in {cache[t].phase[l], "none"}]_vars

\* A tab that is up to date loses a record, old or just made, only to KEPT
\* newer ones.
OnlyTheOldestIsCut ==
    [][\A t \in Tabs \ notified : \A e \in Executions :
         /\ t \notin notified'
         /\ Holds(cache[t], e) \/ origin'[e] \ origin[e] = {t}
         /\ ~ Holds(cache'[t], e)
         => /\ Cardinality({f \in Executions : Holds(cache'[t], f)}) = KEPT
            /\ \A f \in Executions : Holds(cache[t], f) =>
                   cache[t].place[f] <= cache[t].place[e]]_vars

-----------------------------------------------------------------------------
(* Why a leg's end is the chain's, step after step: what is known of a leg    *)
(* stays true of it, and nothing is known of one no tab has asked for.        *)

Certain(phase, l) ==
    /\ Justifies(phase, l)
    /\ phase = "refused" => server[l] = "none" /\ request[l] \in {"none", "over"}

Fresh(l) == origin[ExecutionOf[l]] = {}

ListSound(list) ==
    \A l \in Legs : Certain(list.phase[l], l) /\ (Fresh(l) => list.phase[l] = "none")

TickSound(tick) ==
    /\ tick.height <= height
    /\ \A l \in Legs : /\ Certain(tick.reading[l], l)
                       /\ tick.reading[l] # "refused"
                       /\ Fresh(l) => l \notin tick.asked /\ tick.reading[l] = "none"

LegSound(l) ==
    /\ Fresh(l) => request[l] = "none"
    /\ request[l] \in {"none", "queued"} => server[l] = "none"
    /\ request[l] \in {"none", "queued"} \/ server[l] \in {"inbox", "refused"}
          => l \notin broadcast
    /\ landing[l] # NotIn => l \in broadcast /\ landing[l].block \in 1 .. lastValid[l]

BrowserInv ==
    /\ TypeOK
    /\ ListSound(stored)
    /\ \A t \in Tabs : ListSound(cache[t])
    /\ \A t \in Tabs, i \in Slots : TickSound(ticks[t][i])
    /\ \A l \in Legs : LegSound(l)

-----------------------------------------------------------------------------
(* Why only the oldest is cut: the places of a list's records are 1 .. n for  *)
(* some n up to KEPT, and no list holds an execution no tab has asked for.    *)

Ordered(list) ==
    \E n \in 0 .. KEPT :
        /\ \A k \in 1 .. n : \E e \in Executions : list.place[e] = k
        /\ \A e \in Executions : list.place[e] <= n
        /\ \A e, f \in Executions :
              Holds(list, e) /\ list.place[e] = list.place[f] => e = f

HoldsOnlyAsked(list) == \A e \in Executions : Holds(list, e) => origin[e] # {}

OrderInv ==
    /\ Ordered(stored) /\ HoldsOnlyAsked(stored)
    /\ \A t \in Tabs : Ordered(cache[t]) /\ HoldsOnlyAsked(cache[t])

-----------------------------------------------------------------------------
(* The page keeps running, a timer fires, and a read tried again and again is *)
(* answered at last; nothing obliges a wallet to sign or an answer to come.   *)

Fairness ==
    /\ WF_vars(Grow)
    /\ \A t \in Tabs :
        /\ WF_vars(Rerender(t))
        /\ WF_vars(FromAnotherTab(t))
        /\ \A i \in Slots : /\ WF_vars(StartTick(t, i))
                            /\ SF_vars(ReadHeight(t, i))
                            /\ SF_vars(ReadStatuses(t, i))
                            /\ SF_vars(ApplyReadings(t, i))

FairSpec == Spec /\ Fairness

\* A leg cannot stay signed or sent past its deadline once the chain has been
\* read again, whether or not it was ever posted and whatever was reloaded.
EveryLegEnds ==
    \A l \in Legs : (stored.phase[l] \in {"signed", "sent"})
                        ~> (stored.phase[l] \notin {"signed", "sent"})
=============================================================================
