---------------------------- MODULE BrowserProofs ----------------------------
(* Theorems about the browser's execution engine for every number of tabs,    *)
(* executions, legs and ticks in flight, and every margin, lag and lifetime.  *)
EXTENDS BrowserProperties, FiniteSetTheorems, TLAPS

-----------------------------------------------------------------------------
(* What the store makes of a list is a list.                                  *)

LEMMA ListFields ==
    ASSUME NEW list \in Lists
    PROVE  /\ list.place \in [Executions -> Nat]
           /\ list.phase \in [Legs -> Phases \union {"none"}]
           /\ list.unreadable \subseteq Executions
           /\ \A l \in Legs : list.phase[l] # "none" <=> Holds(list, ExecutionOf[l])
  BY DEF Lists

LEMMA NoRecordsIsAList == NoRecords \in Lists
  BY BrowserAssumption DEF Lists, NoRecords, Holds

LEMMA TruncatedIsAList ==
    ASSUME NEW list \in Lists
    PROVE  /\ Truncated(list) \in Lists
           /\ \A l \in Legs : Truncated(list).phase[l] \in {list.phase[l], "none"}
<1> DEFINE cut == Truncated(list)
<1>1. /\ cut.place \in [Executions -> Nat]
      /\ cut.phase \in [Legs -> Phases \union {"none"}]
      /\ cut.unreadable \subseteq Executions
  BY ListFields DEF Truncated
<1>2. \A e \in Executions : Holds(cut, e) <=> Kept(list, e)
  BY ListFields, BrowserAssumption DEF Truncated, Holds, Kept
<1>3. \A l \in Legs : Kept(list, ExecutionOf[l]) => list.phase[l] # "none"
  BY ListFields, BrowserAssumption DEF Holds, Kept
<1>4. \A l \in Legs : cut.phase[l] # "none" <=> Holds(cut, ExecutionOf[l])
  BY <1>2, <1>3, BrowserAssumption DEF Truncated
<1>5. cut = [place |-> cut.place, phase |-> cut.phase, unreadable |-> cut.unreadable]
  BY DEF Truncated
<1>6. QED
  <2>1. cut \in Lists
    <3> HIDE DEF cut
    <3>1. QED
      BY <1>1, <1>4, <1>5 DEF Lists
  <2>2. QED
    BY <2>1 DEF Truncated

LEMMA EditList ==
    ASSUME NEW list \in Lists
    PROVE  /\ \A S \in SUBSET Executions : [list EXCEPT !.unreadable = S] \in Lists
           /\ \A f \in [Legs -> Phases \union {"none"}] :
                 (\A l \in Legs : f[l] # "none" <=> list.phase[l] # "none")
                    => [list EXCEPT !.phase = f] \in Lists
<1>1. ASSUME NEW S \in SUBSET Executions PROVE [list EXCEPT !.unreadable = S] \in Lists
  BY DEF Lists, Holds
<1>2. ASSUME NEW f \in [Legs -> Phases \union {"none"}],
             \A l \in Legs : f[l] # "none" <=> list.phase[l] # "none"
      PROVE  [list EXCEPT !.phase = f] \in Lists
  BY <1>2, ListFields, BrowserAssumption DEF Lists, Holds
<1>3. QED
  BY <1>1, <1>2

LEMMA AddedIsAList ==
    ASSUME NEW list \in Lists, NEW e \in Executions, NEW unsigned \in SUBSET LegsOf(e)
    PROVE  /\ Added(list, e, unsigned) \in Lists
           /\ \A l \in Legs : Added(list, e, unsigned).phase[l] =
                 IF ExecutionOf[l] # e THEN list.phase[l]
                 ELSE IF l \in unsigned THEN "refused" ELSE "signed"
<1> DEFINE new == Added(list, e, unsigned)
<1>1. new = [place |-> new.place, phase |-> new.phase, unreadable |-> list.unreadable]
  <2> DEFINE place == [f \in Executions |-> IF f = e THEN 1
                              ELSE IF Holds(list, f) THEN list.place[f] + 1 ELSE 0]
             phase == [l \in Legs |-> IF ExecutionOf[l] # e THEN list.phase[l]
                                      ELSE IF l \in unsigned THEN "refused" ELSE "signed"]
  <2>1. new = [list EXCEPT !.place = place, !.phase = phase]
    BY DEF Added, Lists
  <2> HIDE DEF new, place, phase
  <2>2. QED
    BY <2>1 DEF Lists
<1>2. new.place = [f \in Executions |-> IF f = e THEN 1
                                        ELSE IF Holds(list, f) THEN list.place[f] + 1 ELSE 0]
  BY DEF Added, Lists
<1>3. new.phase = [l \in Legs |-> IF ExecutionOf[l] # e THEN list.phase[l]
                                  ELSE IF l \in unsigned THEN "refused" ELSE "signed"]
  BY DEF Added, Lists
<1> HIDE DEF new
<1>4. new.place \in [Executions -> Nat]
  BY <1>2, ListFields
<1>5. new.phase \in [Legs -> Phases \union {"none"}]
  BY <1>3, ListFields DEF Phases, Terminal
<1>6. \A f \in Executions : Holds(new, f) <=> (f = e \/ Holds(list, f))
  BY <1>2, ListFields DEF Holds
<1>7. \A l \in Legs : new.phase[l] # "none" <=> Holds(new, ExecutionOf[l])
  BY <1>3, <1>6, ListFields, BrowserAssumption
<1>8. new \in Lists
  BY <1>1, <1>4, <1>5, <1>7, ListFields DEF Lists
<1>9. QED
  BY <1>3, <1>8 DEF new

LEMMA WithPhaseIsAList ==
    ASSUME NEW list \in Lists, NEW l \in Legs, NEW phase \in Phases
    PROVE  /\ AfterAnswer(list, l, phase) \in Lists
           /\ \A m \in Legs : AfterAnswer(list, l, phase).phase[m] =
                 IF m = l /\ list.phase[l] = "signed" THEN phase ELSE list.phase[m]
<1>1. phase # "none"
  BY DEF Phases, Terminal
<1>2. CASE list.phase[l] # "signed"
  BY <1>2 DEF AfterAnswer
<1>3. CASE list.phase[l] = "signed"
  <2> DEFINE f == [list.phase EXCEPT ![l] = phase]
  <2>1. AfterAnswer(list, l, phase) = [list EXCEPT !.phase = f]
    BY <1>3, ListFields DEF AfterAnswer, WithPhase
  <2>2. f \in [Legs -> Phases \union {"none"}]
    BY ListFields
  <2>3. \A m \in Legs : f[m] = IF m = l THEN phase ELSE list.phase[m]
    BY ListFields
  <2>4. [list EXCEPT !.phase = f] \in Lists
    <3> HIDE DEF f
    <3>1. QED
      BY <1>1, <1>3, <2>2, <2>3, EditList
  <2>5. [list EXCEPT !.phase = f].phase = f
    BY DEF Lists
  <2>6. QED
    <3> HIDE DEF f
    <3>1. QED
      BY <1>3, <2>1, <2>3, <2>4, <2>5
<1>4. QED
  BY <1>2, <1>3

LEMMA SettledIsAList ==
    ASSUME NEW list \in Lists, NEW reading \in [Legs -> {"none", "sent"} \union Terminal], NEW S \in SUBSET Executions
    PROVE  /\ [list EXCEPT !.phase = Settled(list, reading), !.unreadable = S] \in Lists
           /\ [list EXCEPT !.phase = Settled(list, reading), !.unreadable = S].phase
                 = Settled(list, reading)
<1> DEFINE f == Settled(list, reading)
<1>1. f \in [Legs -> Phases \union {"none"}]
  BY ListFields DEF Settled, Phases
<1>2. \A l \in Legs : f[l] # "none" <=> list.phase[l] # "none"
  BY ListFields DEF Settled, Terminal
<1>3. [list EXCEPT !.phase = f] \in Lists
  <2> HIDE DEF f
  <2>1. QED
    BY <1>1, <1>2, EditList
<1>4. [[list EXCEPT !.phase = f] EXCEPT !.unreadable = S] \in Lists
  <2> DEFINE g == [list EXCEPT !.phase = f]
  <2>1. g \in Lists
    BY <1>3
  <2> HIDE DEF g, f
  <2>2. QED
    BY <2>1, EditList DEF g
<1>5. QED
  <2> HIDE DEF f
  <2>1. [[list EXCEPT !.phase = f] EXCEPT !.unreadable = S]
          = [list EXCEPT !.phase = f, !.unreadable = S]
    BY DEF Lists
  <2>2. [list EXCEPT !.phase = f, !.unreadable = S].phase = f
    BY DEF Lists
  <2>3. QED
    BY <1>4, <2>1, <2>2 DEF f

-----------------------------------------------------------------------------
(* Ticks and commits.                                                         *)

LEMMA TickFields ==
    ASSUME NEW tick \in Ticks
    PROVE  /\ tick.step \in {"idle", "asked", "judging", "read"}
           /\ tick.asked \subseteq Legs /\ tick.height \in Nat
           /\ tick.reading \in [Legs -> {"none", "sent"} \union Terminal]
           /\ tick.current \in BOOLEAN
  BY DEF Ticks

LEMMA TickOf ==
    ASSUME TypeOK, NEW t \in Tabs, NEW i \in Slots
    PROVE  ticks[t][i] \in Ticks
  BY DEF TypeOK

LEMMA NoTickIsATick == NoTick \in Ticks
  BY DEF NoTick, Ticks, NoReading

LEMMA EditTick ==
    ASSUME NEW tick \in Ticks
    PROVE  /\ [tick EXCEPT !.current = FALSE] \in Ticks
           /\ \A S \in SUBSET Legs :
                 [NoTick EXCEPT !.step = "asked", !.asked = S, !.current = TRUE] \in Ticks
           /\ \A h \in Nat : [tick EXCEPT !.step = "judging", !.height = h] \in Ticks
           /\ \A f \in [Legs -> {"none", "sent"} \union Terminal] :
                 [tick EXCEPT !.step = "read", !.height = 0, !.reading = f] \in Ticks
<1>1. [tick EXCEPT !.current = FALSE] \in Ticks
  BY DEF Ticks
<1>2. ASSUME NEW S \in SUBSET Legs
      PROVE  [NoTick EXCEPT !.step = "asked", !.asked = S, !.current = TRUE] \in Ticks
  BY DEF NoTick, Ticks, NoReading
<1>3. ASSUME NEW h \in Nat PROVE [tick EXCEPT !.step = "judging", !.height = h] \in Ticks
  BY DEF Ticks
<1>4. ASSUME NEW f \in [Legs -> {"none", "sent"} \union Terminal]
      PROVE  [tick EXCEPT !.step = "read", !.height = 0, !.reading = f] \in Ticks
  BY DEF Ticks
<1>5. QED
  BY <1>1, <1>2, <1>3, <1>4

LEMMA SetTickKeeps ==
    ASSUME TypeOK, NEW t \in Tabs, NEW i \in Slots, NEW tick \in Ticks, SetTick(t, i, tick)
    PROVE  /\ ticks' \in [Tabs -> [Slots -> Ticks]]
           /\ \A u \in Tabs, j \in Slots :
                 ticks'[u][j] = IF u = t /\ j = i THEN tick ELSE ticks[u][j]
  BY DEF TypeOK, SetTick

LEMMA CommitKeeps ==
    ASSUME TypeOK, NEW t \in Tabs, NEW list \in Lists, Commit(t, list)
    PROVE  /\ stored' \in Lists
           /\ cache' \in [Tabs -> Lists]
           /\ notified' \subseteq Tabs
           /\ stored' = Truncated(list)
           /\ \A u \in Tabs : cache'[u] = IF u = t THEN Truncated(list) ELSE cache[u]
           /\ \A u \in Tabs : u # t => u \in notified'
<1>1. Truncated(list) \in Lists
  BY TruncatedIsAList
<1>2. cache \in [Tabs -> Lists]
  BY DEF TypeOK
<1>3. stored' = Truncated(list) /\ notified' = notified \union (Tabs \ {t})
  BY DEF Commit
<1>4. cache' = [cache EXCEPT ![t] = Truncated(list)]
  BY DEF Commit
<1>5. QED
  BY <1>1, <1>2, <1>3, <1>4 DEF TypeOK

LEMMA CacheIsAList ==
    ASSUME TypeOK, NEW t \in Tabs
    PROVE  cache[t] \in Lists
  BY DEF TypeOK

\* What each step that writes a list commits.
LEMMA ApprovalCommits ==
    ASSUME TypeOK, NEW t \in Tabs, NEW e \in Executions, ApproveAndSend(t, e)
    PROVE  \E unsigned \in SUBSET LegsOf(e) :
              /\ Added(cache[t], e, unsigned) \in Lists
              /\ Commit(t, Added(cache[t], e, unsigned))
              /\ \A l \in Legs : Added(cache[t], e, unsigned).phase[l] =
                    IF ExecutionOf[l] # e THEN cache[t].phase[l]
                    ELSE IF l \in unsigned THEN "refused" ELSE "signed"
              /\ \A l \in unsigned : request'[l] = request[l] /\ server'[l] = server[l]
<1>1. PICK unsigned \in SUBSET LegsOf(e), life \in Lives :
          /\ Commit(t, Added(cache[t], e, unsigned))
          /\ \A l \in unsigned : request'[l] = request[l] /\ server'[l] = server[l]
  BY DEF ApproveAndSend, LegsOf
<1>2. QED
  BY <1>1, CacheIsAList, AddedIsAList

LEMMA AnswerCommits ==
    ASSUME TypeOK, NEW l \in Legs, NEW phase \in {"sent", "refused"}, Answered(l, phase)
    PROVE  \E t \in Tabs :
              /\ AfterAnswer(cache[t], l, phase) \in Lists
              /\ Commit(t, AfterAnswer(cache[t], l, phase))
              /\ \A m \in Legs : AfterAnswer(cache[t], l, phase).phase[m] =
                    IF m = l /\ cache[t].phase[l] = "signed" THEN phase ELSE cache[t].phase[m]
<1>1. PICK t \in Tabs : Commit(t, AfterAnswer(cache[t], l, phase))
  BY BrowserAssumption DEF Answered, TypeOK
<1>2. phase \in Phases
  BY DEF Phases, Terminal
<1>3. QED
  BY <1>1, <1>2, CacheIsAList, WithPhaseIsAList

Settles(t, i) ==
    [cache[t] EXCEPT !.phase = Settled(cache[t], ticks[t][i].reading),
                     !.unreadable = @ \ Touched(t, i)]

LEMMA ReadingsCommit ==
    ASSUME TypeOK, NEW t \in Tabs, NEW i \in Slots, ApplyReadings(t, i)
    PROVE  /\ Settles(t, i) \in Lists
           /\ Commit(t, Settles(t, i))
           /\ Settles(t, i).phase = Settled(cache[t], ticks[t][i].reading)
<1>1. /\ cache[t] \in Lists
      /\ ticks[t][i].reading \in [Legs -> {"none", "sent"} \union Terminal]
  BY CacheIsAList, TickOf, TickFields
<1>2. cache[t].unreadable \ Touched(t, i) \in SUBSET Executions
  BY <1>1, ListFields
<1>3. Commit(t, Settles(t, i))
  BY DEF ApplyReadings, Settles
<1>4. QED
  BY <1>1, <1>2, <1>3, SettledIsAList DEF Settles

Marked(t, i) == [cache[t] EXCEPT !.unreadable = @ \union Touched(t, i)]

LEMMA FailureCommits ==
    ASSUME TypeOK, NEW t \in Tabs, NEW i \in Slots, ReadFails(t, i)
    PROVE  /\ Marked(t, i) \in Lists
           /\ Commit(t, Marked(t, i))
           /\ Marked(t, i).phase = cache[t].phase
<1>1. cache[t] \in Lists
  BY CacheIsAList
<1>2. cache[t].unreadable \union Touched(t, i) \in SUBSET Executions
  BY <1>1, ListFields DEF Touched
<1>3. Commit(t, Marked(t, i))
  BY DEF ReadFails, Marked
<1>4. Marked(t, i).phase = cache[t].phase
  BY <1>1 DEF Marked, Lists
<1>5. QED
  BY <1>1, <1>2, <1>3, <1>4, EditList DEF Marked

-----------------------------------------------------------------------------
(* Type correctness.                                                          *)

StoreOK == stored \in Lists /\ cache \in [Tabs -> Lists] /\ notified \subseteq Tabs

SendOK ==
    /\ origin \in [Executions -> SUBSET Tabs]
    /\ request \in [Legs -> {"none", "queued", "flying", "over"}]
    /\ server \in [Legs -> {"none", "inbox", "sent", "refused"}]
    /\ lastValid \in [Legs -> Nat]

ChainOK ==
    /\ broadcast \subseteq Legs
    /\ landing \in [Legs -> [block: Nat, err: BOOLEAN]]
    /\ height \in Nat

WatchOK ==
    /\ watching \in [Tabs -> SUBSET Legs]
    /\ ticks \in [Tabs -> [Slots -> Ticks]]

LEMMA TypeParts == TypeOK <=> StoreOK /\ SendOK /\ ChainOK /\ WatchOK /\ reloads \in Nat
  BY DEF TypeOK, StoreOK, SendOK, ChainOK, WatchOK

LEMMA OpenIsLegs == \A list : Open(list) \subseteq Legs
  BY DEF Open

LEMMA JudgedIsAReading ==
    ASSUME NEW asked, NEW shown, NEW at
    PROVE  [l \in Legs |-> IF l \in asked THEN JudgeLeg(l, l \in shown, at) ELSE "none"]
              \in [Legs -> {"none", "sent"} \union Terminal]
<1>1. \A l \in Legs : JudgeLeg(l, l \in shown, at) \in {"failed", "landed", "sent", "dropped"}
  BY DEF JudgeLeg
<1>2. QED
  BY <1>1 DEF Terminal

LEMMA TypeInit == Init => TypeOK
<1> SUFFICES ASSUME Init PROVE TypeOK
  OBVIOUS
<1>1. StoreOK
  BY NoRecordsIsAList DEF Init, StoreOK
<1>2. SendOK /\ ChainOK /\ reloads \in Nat
  BY DEF Init, SendOK, ChainOK, NotIn
<1>3. WatchOK
  BY NoTickIsATick DEF Init, WatchOK
<1>4. QED
  BY <1>1, <1>2, <1>3, TypeParts

LEMMA TypeStep ==
    ASSUME TypeOK, Next
    PROVE  TypeOK'
<1>0. StoreOK /\ SendOK /\ ChainOK /\ WatchOK /\ reloads \in Nat
  BY TypeParts
<1>p. StoreOK' /\ SendOK' /\ ChainOK' /\ WatchOK' /\ reloads' \in Nat => TypeOK'
  BY DEF TypeOK, StoreOK, SendOK, ChainOK, WatchOK
<1>u. /\ UNCHANGED storeVars => StoreOK'
      /\ UNCHANGED sendVars => SendOK'
      /\ UNCHANGED chainVars => ChainOK'
      /\ UNCHANGED watchVars => WatchOK'
      /\ UNCHANGED reloads => reloads' \in Nat
  BY <1>0 DEF storeVars, sendVars, chainVars, watchVars, StoreOK, SendOK, ChainOK, WatchOK
<1>1. ASSUME NEW t \in Tabs, FromAnotherTab(t) PROVE TypeOK'
  <2>1. StoreOK'
    BY <1>0, <1>1 DEF FromAnotherTab, StoreOK
  <2>2. QED
    BY <1>1, <1>p, <1>u, <2>1 DEF FromAnotherTab
<1>2. ASSUME NEW t \in Tabs, MarkSeen(t) PROVE TypeOK'
  <2>1. Commit(t, cache[t]) /\ cache[t] \in Lists
    BY <1>2, CacheIsAList DEF MarkSeen
  <2>2. StoreOK'
    BY <2>1, CommitKeeps DEF StoreOK
  <2>3. QED
    BY <1>2, <1>p, <1>u, <2>2 DEF MarkSeen
<1>3. ASSUME NEW t \in Tabs, Reload(t) PROVE TypeOK'
  <2>1. StoreOK'
    BY <1>0, <1>3 DEF Reload, StoreOK
  <2>2. SendOK'
    BY <1>0, <1>3 DEF Reload, SendOK
  <2>3. WatchOK'
    BY <1>0, <1>3, NoTickIsATick, OpenIsLegs DEF Reload, WatchOK
  <2>4. QED
    BY <1>0, <1>3, <1>p, <1>u, <2>1, <2>2, <2>3 DEF Reload
<1>4. ASSUME NEW t \in Tabs, Rerender(t) PROVE TypeOK'
  <2>1. watching' \in [Tabs -> SUBSET Legs]
    BY <1>0, <1>4, OpenIsLegs DEF Rerender, WatchOK
  <2>2. \A i \in Slots : [ticks[t][i] EXCEPT !.current = FALSE] \in Ticks
    BY TickOf, EditTick
  <2>3. ticks' \in [Tabs -> [Slots -> Ticks]]
    BY <1>0, <1>4, <2>2 DEF Rerender, WatchOK
  <2>4. QED
    BY <1>4, <1>p, <1>u, <2>1, <2>3 DEF Rerender, WatchOK
<1>5. ASSUME NEW t \in Tabs, NEW e \in Executions, ApproveAndSend(t, e) PROVE TypeOK'
  <2>1. StoreOK'
    <3>1. PICK list \in Lists : Commit(t, list)
      BY <1>5, ApprovalCommits
    <3>2. QED
      BY <3>1, CommitKeeps DEF StoreOK
  <2>2. SendOK'
    <3>1. PICK unsigned \in SUBSET LegsOf(e), life \in Lives :
             LET signed == LegsOf(e) \ unsigned
             IN  /\ lastValid' = [l \in Legs |-> IF l \in LegsOf(e) THEN height + life
                                                 ELSE lastValid[l]]
                 /\ request' = [l \in Legs |-> CASE l \in signed \ ToRpc -> "flying"
                                                 [] l \in signed \intersect ToRpc -> "queued"
                                                 [] OTHER -> request[l]]
                 /\ server' = [l \in Legs |-> IF l \in signed \ ToRpc THEN "inbox"
                                              ELSE server[l]]
      BY <1>5 DEF ApproveAndSend
    <3>2. height \in Nat /\ life \in Nat
      BY <1>0, BrowserAssumption DEF ChainOK
    <3>3. QED
      BY <1>0, <1>5, <3>1, <3>2 DEF ApproveAndSend, SendOK
  <2>3. QED
    BY <1>5, <1>p, <1>u, <2>1, <2>2 DEF ApproveAndSend
<1>6. ASSUME NEW t \in Tabs, NEW i \in Slots,
             StartTick(t, i) \/ ReadHeight(t, i) \/ ReadStatuses(t, i)
      PROVE  TypeOK'
  <2>1. PICK tick \in Ticks : SetTick(t, i, tick)
    <3>1. CASE StartTick(t, i)
      BY <3>1, OpenIsLegs, NoTickIsATick, EditTick DEF StartTick
    <3>2. CASE ReadHeight(t, i)
      BY <1>0, <3>2, TickOf, EditTick DEF ReadHeight, ChainOK
    <3>3. CASE ReadStatuses(t, i)
      <4>1. PICK shown \in {Shown(lag) : lag \in 0 .. StatusLag}
                              \union {{l \in Legs : landing[l] # NotIn}} :
               SetTick(t, i, [ticks[t][i] EXCEPT
                  !.step = "read", !.height = 0,
                  !.reading = [l \in Legs |->
                      IF l \in ticks[t][i].asked
                      THEN JudgeLeg(l, l \in shown, ticks[t][i].height) ELSE "none"]])
        BY <3>3 DEF ReadStatuses
      <4> DEFINE f == [l \in Legs |->
                         IF l \in ticks[t][i].asked
                         THEN JudgeLeg(l, l \in shown, ticks[t][i].height) ELSE "none"]
      <4>2. f \in [Legs -> {"none", "sent"} \union Terminal]
        BY JudgedIsAReading
      <4>3. SetTick(t, i, [ticks[t][i] EXCEPT !.step = "read", !.height = 0, !.reading = f])
        BY <4>1
      <4> HIDE DEF f
      <4>4. [ticks[t][i] EXCEPT !.step = "read", !.height = 0, !.reading = f] \in Ticks
        BY <4>2, TickOf, EditTick
      <4>5. QED
        BY <4>3, <4>4
    <3>4. QED
      BY <1>6, <3>1, <3>2, <3>3
  <2>2. ticks' \in [Tabs -> [Slots -> Ticks]]
    BY <2>1, SetTickKeeps
  <2>3. QED
    BY <1>0, <1>6, <1>p, <1>u, <2>2 DEF StartTick, ReadHeight, ReadStatuses, WatchOK
<1>7. ASSUME NEW t \in Tabs, NEW i \in Slots, ApplyReadings(t, i) \/ ReadFails(t, i)
      PROVE  TypeOK'
  <2>1. PICK list \in Lists : Commit(t, list)
    BY <1>7, ReadingsCommit, FailureCommits
  <2>2. StoreOK'
    BY <2>1, CommitKeeps DEF StoreOK
  <2>3. ticks' \in [Tabs -> [Slots -> Ticks]]
    BY <1>7, NoTickIsATick, SetTickKeeps DEF ApplyReadings, ReadFails
  <2>4. QED
    BY <1>0, <1>7, <1>p, <1>u, <2>2, <2>3 DEF ApplyReadings, ReadFails, WatchOK
<1>8. ASSUME NEW l \in Legs, PostNext(l) \/ Submit(l) PROVE TypeOK'
  <2>1. SendOK'
    BY <1>0, <1>8 DEF PostNext, Submit, Answer, SendOK
  <2>2. ChainOK'
    BY <1>0, <1>8, <1>u DEF PostNext, Submit, ChainOK
  <2>3. QED
    BY <1>8, <1>p, <1>u, <2>1, <2>2 DEF PostNext, Submit
<1>9. ASSUME NEW l \in Legs, NEW phase \in {"sent", "refused"}, Answered(l, phase)
      PROVE  TypeOK'
  <2>1. PICK t \in Tabs, list \in Lists : Commit(t, list)
    BY <1>9, AnswerCommits
  <2>2. StoreOK'
    BY <2>1, CommitKeeps DEF StoreOK
  <2>3. SendOK'
    BY <1>0, <1>9 DEF Answered, SendOK
  <2>4. QED
    BY <1>9, <1>p, <1>u, <2>2, <2>3 DEF Answered
<1>10. ASSUME NEW l \in Legs, Receive(l) \/ LoseAnswer(l) PROVE TypeOK'
  BY <1>9, <1>10 DEF Receive, LoseAnswer
<1>11. ASSUME NEW l \in Legs, Land(l) \/ Fork(l) PROVE TypeOK'
  <2>1. ASSUME Land(l) PROVE ChainOK'
    <3>1. PICK block \in height + 1 .. lastValid[l], err \in BOOLEAN :
             landing' = [landing EXCEPT ![l] = [block |-> block, err |-> err]]
      BY <2>1 DEF Land
    <3>2. block \in Nat
      BY <1>0 DEF ChainOK, SendOK
    <3>3. [block |-> block, err |-> err] \in [block: Nat, err: BOOLEAN]
      BY <3>2
    <3>4. QED
      BY <1>0, <2>1, <3>1, <3>3 DEF Land, ChainOK
  <2>2. ASSUME Fork(l) PROVE ChainOK'
    <3>1. NotIn \in [block: Nat, err: BOOLEAN]
      BY DEF NotIn
    <3>2. QED
      BY <1>0, <2>2, <3>1 DEF Fork, ChainOK
  <2>3. QED
    BY <1>11, <1>p, <1>u, <2>1, <2>2 DEF Land, Fork
<1>12. ASSUME Grow PROVE TypeOK'
  <2>1. ChainOK'
    BY <1>0, <1>12 DEF Grow, ChainOK
  <2>2. QED
    BY <1>12, <1>p, <1>u, <2>1 DEF Grow
<1>13. QED
  BY <1>1, <1>2, <1>3, <1>4, <1>5, <1>6, <1>7, <1>8, <1>10, <1>11, <1>12
     DEF Next, TabStep, LegStep

\* Every list, request, reading and block stays what the code can make of it,
\* for any number of tabs, executions and legs.
THEOREM BrowserTypeCorrect == Spec => []TypeOK
<1>1. Init => TypeOK
  BY TypeInit
<1>2. TypeOK /\ [Next]_vars => TypeOK'
  <2>1. CASE UNCHANGED vars
    BY <2>1 DEF vars, storeVars, sendVars, chainVars, watchVars, TypeOK
  <2>2. QED
    BY <2>1, TypeStep
<1>3. QED
  BY <1>1, <1>2, PTL DEF Spec

-----------------------------------------------------------------------------
(* What is known of a leg stays true of it: the same facts as Certain,        *)
(* ListSound and TickSound state, of the state a step leads to.               *)

CertainThen(phase, l) ==
    /\ phase = "landed" => /\ landing'[l] # NotIn /\ landing'[l].block <= height'
                           /\ ~ landing'[l].err
    /\ phase = "dropped" => landing'[l] = NotIn /\ height' > lastValid'[l]
    /\ phase = "refused" => /\ l \notin broadcast'
                            /\ server'[l] = "none" /\ request'[l] \in {"none", "over"}

FreshThen(l) == origin'[ExecutionOf[l]] = {}

ListThen(list) ==
    \A l \in Legs : CertainThen(list.phase[l], l) /\ (FreshThen(l) => list.phase[l] = "none")

TickThen(tick) ==
    /\ tick.height <= height'
    /\ \A l \in Legs : /\ CertainThen(tick.reading[l], l)
                       /\ tick.reading[l] # "refused"
                       /\ FreshThen(l) => l \notin tick.asked /\ tick.reading[l] = "none"

LEMMA CertainMeans ==
    ASSUME NEW phase, NEW l
    PROVE  Certain(phase, l) <=>
              /\ phase = "landed" => /\ landing[l] # NotIn /\ landing[l].block <= height
                                     /\ ~ landing[l].err
              /\ phase = "dropped" => landing[l] = NotIn /\ height > lastValid[l]
              /\ phase = "refused" => /\ l \notin broadcast
                                      /\ server[l] = "none" /\ request[l] \in {"none", "over"}
  BY DEF Certain, Justifies, Confirmed

LEMMA OpenLegsAreUncertain ==
    ASSUME NEW l PROVE /\ CertainThen("none", l) /\ CertainThen("sent", l)
                       /\ CertainThen("signed", l) /\ CertainThen("failed", l)
  BY DEF CertainThen

\* No step takes back what is known of a leg some tab has asked for.
LEMMA CertainStays ==
    ASSUME BrowserInv, Next, NEW l \in Legs, ~ Fresh(l), NEW phase, Certain(phase, l)
    PROVE  CertainThen(phase, l)
<1> USE CertainMeans DEF CertainThen
<1>1. /\ height \in Nat /\ lastValid[l] \in Nat /\ LegSound(l)
      /\ request \in [Legs -> {"none", "queued", "flying", "over"}]
      /\ server \in [Legs -> {"none", "inbox", "sent", "refused"}]
      /\ lastValid \in [Legs -> Nat]
      /\ landing \in [Legs -> [block: Nat, err: BOOLEAN]]
  BY DEF BrowserInv, TypeOK
<1>2. CASE UNCHANGED <<sendVars, chainVars>>
  BY <1>2 DEF sendVars, chainVars
<1>3. ASSUME NEW t \in Tabs, NEW e \in Executions, ApproveAndSend(t, e)
      PROVE  CertainThen(phase, l)
  <2>1. l \notin LegsOf(e)
    BY <1>3 DEF ApproveAndSend, Fresh, LegsOf
  <2>2. lastValid'[l] = lastValid[l] /\ request'[l] = request[l] /\ server'[l] = server[l]
    BY <1>3, <2>1 DEF ApproveAndSend
  <2>3. QED
    BY <1>3, <2>2 DEF ApproveAndSend, chainVars
<1>4. ASSUME NEW k \in Legs, PostNext(k) PROVE CertainThen(phase, l)
  BY <1>1, <1>4 DEF PostNext, chainVars
<1>5. ASSUME NEW k \in Legs, Submit(k) PROVE CertainThen(phase, l)
  BY <1>1, <1>5 DEF Submit
<1>6. ASSUME NEW k \in Legs, NEW answer, Answered(k, answer) PROVE CertainThen(phase, l)
  BY <1>1, <1>6 DEF Answered, chainVars
<1>7. ASSUME NEW k \in Legs, Land(k) PROVE CertainThen(phase, l)
  <2>1. PICK block \in height + 1 .. lastValid[k] : TRUE
    BY <1>7 DEF Land
  <2>2. k = l => phase # "dropped" /\ phase # "landed"
    BY <1>1, <1>7, <2>1 DEF Land
  <2>3. k # l => landing'[l] = landing[l]
    BY <1>1, <1>7 DEF Land
  <2>4. QED
    BY <1>7, <2>2, <2>3 DEF Land, sendVars
<1>8. ASSUME NEW k \in Legs, Fork(k) PROVE CertainThen(phase, l)
  BY <1>1, <1>8 DEF Fork, Confirmed, sendVars
<1>9. ASSUME Grow PROVE CertainThen(phase, l)
  <2>1. landing[l].block \in Nat
    BY <1>1
  <2>2. QED
    BY <1>1, <1>9, <2>1 DEF Grow, sendVars
<1>10. ASSUME NEW t \in Tabs, Reload(t) PROVE CertainThen(phase, l)
  BY <1>1, <1>10 DEF Reload, chainVars
<1>11. QED
  BY <1>2, <1>3, <1>4, <1>5, <1>6, <1>7, <1>8, <1>9, <1>10
     DEF Next, TabStep, LegStep, FromAnotherTab, MarkSeen, Rerender, StartTick, ReadHeight,
         ReadStatuses, ApplyReadings, ReadFails, Receive, LoseAnswer

\* Once an execution was asked for, it stays so.
LEMMA AskedStaysAsked ==
    ASSUME TypeOK, Next, NEW l \in Legs, FreshThen(l)
    PROVE  Fresh(l)
<1>1. ExecutionOf[l] \in Executions
  BY BrowserAssumption
<1>2. CASE UNCHANGED origin
  BY <1>2 DEF FreshThen, Fresh
<1>3. ASSUME NEW t \in Tabs, NEW e \in Executions, ApproveAndSend(t, e)
      PROVE  Fresh(l)
  BY <1>1, <1>3 DEF ApproveAndSend, FreshThen, Fresh, TypeOK
<1>4. QED
  BY <1>2, <1>3
     DEF Next, TabStep, LegStep, FromAnotherTab, MarkSeen, Rerender, StartTick, ReadHeight,
         ReadStatuses, ApplyReadings, ReadFails, Receive, LoseAnswer, Answered, PostNext,
         Submit, Land, Fork, Grow, Reload, sendVars

LEMMA ListStays ==
    ASSUME BrowserInv, Next, NEW list, ListSound(list)
    PROVE  ListThen(list)
<1>1. TypeOK
  BY DEF BrowserInv
<1> SUFFICES ASSUME NEW l \in Legs
             PROVE  CertainThen(list.phase[l], l) /\ (FreshThen(l) => list.phase[l] = "none")
  BY DEF ListThen
<1>2. Certain(list.phase[l], l) /\ (Fresh(l) => list.phase[l] = "none")
  BY DEF ListSound
<1>3. CASE Fresh(l)
  BY <1>2, <1>3, OpenLegsAreUncertain
<1>4. CASE ~ Fresh(l)
  BY <1>1, <1>2, <1>4, CertainStays, AskedStaysAsked
<1>5. QED
  BY <1>3, <1>4

LEMMA TickStays ==
    ASSUME BrowserInv, Next, NEW tick \in Ticks, TickSound(tick)
    PROVE  TickThen(tick)
<1>1. TypeOK /\ TypeOK'
  BY TypeStep DEF BrowserInv
<1>2. height <= height'
  <2>1. height \in Nat
    BY <1>1 DEF TypeOK
  <2>2. height' = height \/ height' = height + 1
    BY DEF Next, TabStep, LegStep, FromAnotherTab, MarkSeen, Rerender, StartTick,
           ReadHeight, ReadStatuses, ApplyReadings, ReadFails, Receive, LoseAnswer, Answered,
           PostNext, Submit, Land, Fork, Grow, Reload, ApproveAndSend, chainVars
  <2>3. QED
    BY <2>1, <2>2
<1>3. tick.height <= height'
  BY <1>1, <1>2, TickFields DEF TickSound, TypeOK
<1>4. ASSUME NEW l \in Legs
      PROVE  /\ CertainThen(tick.reading[l], l)
             /\ FreshThen(l) => l \notin tick.asked /\ tick.reading[l] = "none"
  <2>1. /\ Certain(tick.reading[l], l)
        /\ Fresh(l) => l \notin tick.asked /\ tick.reading[l] = "none"
    BY DEF TickSound
  <2>2. CASE Fresh(l)
    BY <2>1, <2>2, OpenLegsAreUncertain
  <2>3. CASE ~ Fresh(l)
    BY <1>1, <2>1, <2>3, CertainStays, AskedStaysAsked
  <2>4. QED
    BY <2>2, <2>3
<1>5. QED
  BY <1>3, <1>4 DEF TickThen, TickSound

LEMMA TruncatedThen ==
    ASSUME NEW list \in Lists, ListThen(list)
    PROVE  ListThen(Truncated(list))
  BY TruncatedIsAList, OpenLegsAreUncertain DEF ListThen

-----------------------------------------------------------------------------
(* Every list a step writes, and every tick it takes on, is sound.            *)

LEMMA ListsStepSound ==
    ASSUME BrowserInv, Next
    PROVE  ListThen(stored') /\ \A u \in Tabs : ListThen(cache'[u])
<1>0. TypeOK /\ cache \in [Tabs -> Lists] /\ stored \in Lists
  BY DEF BrowserInv, TypeOK
<1>1. ListThen(stored) /\ \A u \in Tabs : ListThen(cache[u])
  BY ListStays DEF BrowserInv
<1>2. ASSUME NEW t \in Tabs, NEW list \in Lists, ListThen(list), Commit(t, list)
      PROVE  ListThen(stored') /\ \A u \in Tabs : ListThen(cache'[u])
  BY <1>0, <1>1, <1>2, CommitKeeps, TruncatedThen
<1>3. CASE UNCHANGED storeVars
  BY <1>1, <1>3 DEF storeVars
<1>4. ASSUME NEW t \in Tabs, FromAnotherTab(t) \/ Reload(t)
      PROVE  ListThen(stored') /\ \A u \in Tabs : ListThen(cache'[u])
  <2>1. stored' = stored /\ \A u \in Tabs : cache'[u] = IF u = t THEN stored ELSE cache[u]
    BY <1>0, <1>4 DEF FromAnotherTab, Reload
  <2>2. QED
    BY <1>1, <2>1
<1>5. ASSUME NEW t \in Tabs, MarkSeen(t)
      PROVE  ListThen(stored') /\ \A u \in Tabs : ListThen(cache'[u])
  BY <1>0, <1>1, <1>2, <1>5 DEF MarkSeen
<1>6. ASSUME NEW t \in Tabs, NEW e \in Executions, ApproveAndSend(t, e)
      PROVE  ListThen(stored') /\ \A u \in Tabs : ListThen(cache'[u])
  <2>1. PICK unsigned \in SUBSET LegsOf(e) :
              /\ Added(cache[t], e, unsigned) \in Lists
              /\ Commit(t, Added(cache[t], e, unsigned))
              /\ \A l \in Legs : Added(cache[t], e, unsigned).phase[l] =
                    IF ExecutionOf[l] # e THEN cache[t].phase[l]
                    ELSE IF l \in unsigned THEN "refused" ELSE "signed"
              /\ \A l \in unsigned : request'[l] = request[l] /\ server'[l] = server[l]
    BY <1>0, <1>6, ApprovalCommits
  <2>2. origin[e] = {} /\ origin'[e] # {} /\ broadcast' = broadcast
    BY <1>0, <1>6 DEF ApproveAndSend, chainVars, TypeOK
  <2>3. ASSUME NEW l \in Legs, ExecutionOf[l] = e
        PROVE  /\ CertainThen(IF l \in unsigned THEN "refused" ELSE "signed", l)
               /\ ~ FreshThen(l)
    <3>1. Fresh(l) /\ LegSound(l)
      BY <2>2, <2>3 DEF Fresh, BrowserInv
    <3>2. request[l] = "none" /\ server[l] = "none" /\ l \notin broadcast
      BY <3>1 DEF LegSound
    <3>3. CertainThen(IF l \in unsigned THEN "refused" ELSE "signed", l)
      BY <2>1, <2>2, <3>2 DEF CertainThen
    <3>4. QED
      BY <2>2, <2>3, <3>3 DEF FreshThen
  <2>4. ListThen(Added(cache[t], e, unsigned))
    <3> SUFFICES ASSUME NEW l \in Legs
                 PROVE  /\ CertainThen(Added(cache[t], e, unsigned).phase[l], l)
                        /\ FreshThen(l) => Added(cache[t], e, unsigned).phase[l] = "none"
      BY DEF ListThen
    <3>1. CASE ExecutionOf[l] = e
      BY <2>1, <2>3, <3>1
    <3>2. CASE ExecutionOf[l] # e
      BY <1>1, <2>1, <3>2 DEF ListThen
    <3>3. QED
      BY <3>1, <3>2
  <2>5. QED
    BY <1>2, <2>1, <2>4
<1>7. ASSUME NEW l \in Legs, Receive(l) \/ LoseAnswer(l)
      PROVE  ListThen(stored') /\ \A u \in Tabs : ListThen(cache'[u])
  <2>1. PICK phase \in {"sent", "refused"} :
           Answered(l, phase) /\ (phase = "refused" => server[l] = "refused")
    BY <1>7 DEF Receive, LoseAnswer
  <2>2. PICK t \in Tabs :
              /\ AfterAnswer(cache[t], l, phase) \in Lists
              /\ Commit(t, AfterAnswer(cache[t], l, phase))
              /\ \A m \in Legs : AfterAnswer(cache[t], l, phase).phase[m] =
                    IF m = l /\ cache[t].phase[l] = "signed" THEN phase ELSE cache[t].phase[m]
    BY <1>0, <2>1, AnswerCommits
  <2>3. CertainThen(phase, l)
    <3>1. CASE phase = "sent"
      BY <3>1, OpenLegsAreUncertain
    <3>2. CASE phase = "refused"
      <4>1. server[l] = "refused" /\ l \notin broadcast
        BY <2>1, <3>2 DEF BrowserInv, LegSound
      <4>2. server'[l] = "none" /\ request'[l] = "over" /\ broadcast' = broadcast
        BY <1>0, <2>1, <4>1 DEF Answered, chainVars, TypeOK
      <4>3. QED
        BY <3>2, <4>1, <4>2 DEF CertainThen
    <3>3. QED
      BY <3>1, <3>2
  <2>4. ~ FreshThen(l)
    <3>1. request[l] = "flying"
      BY <2>1 DEF Answered
    <3>2. ~ Fresh(l)
      BY <3>1 DEF BrowserInv, LegSound
    <3>3. QED
      BY <1>0, <3>2, AskedStaysAsked
  <2>5. ListThen(AfterAnswer(cache[t], l, phase))
    BY <1>1, <2>2, <2>3, <2>4 DEF ListThen
  <2>6. QED
    BY <1>2, <2>2, <2>5
<1>8. ASSUME NEW t \in Tabs, NEW i \in Slots, ApplyReadings(t, i)
      PROVE  ListThen(stored') /\ \A u \in Tabs : ListThen(cache'[u])
  <2>1. /\ Settles(t, i) \in Lists
        /\ Commit(t, Settles(t, i))
        /\ Settles(t, i).phase = Settled(cache[t], ticks[t][i].reading)
    BY <1>0, <1>8, ReadingsCommit
  <2>2. TickThen(ticks[t][i])
    BY <1>0, TickOf, TickStays DEF BrowserInv
  <2>3. \A l \in Legs : Settles(t, i).phase[l] =
            IF cache[t].phase[l] \in {"signed", "sent"} /\ ticks[t][i].reading[l] \in Terminal
            THEN ticks[t][i].reading[l] ELSE cache[t].phase[l]
    BY <2>1 DEF Settled
  <2>4. "none" \notin Terminal
    BY DEF Terminal
  <2>5. ListThen(Settles(t, i))
    BY <1>1, <2>2, <2>3, <2>4 DEF ListThen, TickThen
  <2>6. QED
    BY <1>2, <2>1, <2>5
<1>9. ASSUME NEW t \in Tabs, NEW i \in Slots, ReadFails(t, i)
      PROVE  ListThen(stored') /\ \A u \in Tabs : ListThen(cache'[u])
  <2>1. /\ Marked(t, i) \in Lists
        /\ Commit(t, Marked(t, i))
        /\ Marked(t, i).phase = cache[t].phase
    BY <1>0, <1>9, FailureCommits
  <2>2. ListThen(Marked(t, i))
    BY <1>1, <2>1 DEF ListThen
  <2>3. QED
    BY <1>2, <2>1, <2>2
<1>10. QED
  BY <1>3, <1>4, <1>5, <1>6, <1>7, <1>8, <1>9
     DEF Next, TabStep, LegStep, Rerender, StartTick, ReadHeight, ReadStatuses,
         PostNext, Submit, Land, Fork, Grow

LEMMA NoTickThen ==
    ASSUME TypeOK'
    PROVE  TickThen(NoTick)
<1>1. 0 <= height'
  BY DEF TypeOK
<1>2. QED
  BY <1>1, OpenLegsAreUncertain DEF TickThen, NoTick, NoReading

\* What a leg is judged to be, from statuses read after the height, is certain:
\* a node lags by no more than the margin, so a leg past it that no status
\* shows is in no block and can enter none.
LEMMA JudgementIsCertain ==
    ASSUME BrowserInv, UNCHANGED <<sendVars, chainVars>>,
           NEW l \in Legs, NEW at \in Nat, at <= height,
           NEW lag \in 0 .. StatusLag, NEW shown,
           shown = Shown(lag) \/ shown = {k \in Legs : landing[k] # NotIn}
    PROVE  /\ CertainThen(JudgeLeg(l, l \in shown, at), l)
           /\ JudgeLeg(l, l \in shown, at) \in {"sent", "landed", "failed", "dropped"}
<1>1. /\ height \in Nat /\ lastValid[l] \in Nat /\ landing[l].block \in Nat
      /\ landing[l].err \in BOOLEAN
      /\ landing[l] # NotIn => landing[l].block <= lastValid[l]
  BY DEF BrowserInv, TypeOK, LegSound
<1>2. DROP_MARGIN_BLOCKS \in Nat /\ StatusLag \in Nat /\ StatusLag <= DROP_MARGIN_BLOCKS + 1
  BY BrowserAssumption
<1>3. landing' = landing /\ height' = height /\ lastValid' = lastValid
  BY DEF sendVars, chainVars
<1>4. CASE l \in shown
  <2>1. landing[l] # NotIn
    BY <1>4 DEF Shown
  <2>2. CASE landing[l].err
    BY <1>4, <2>2 DEF JudgeLeg, CertainThen
  <2>3. CASE ~ landing[l].err
    BY <1>1, <1>3, <1>4, <2>1, <2>3 DEF JudgeLeg, CertainThen, Confirmed
  <2>4. QED
    BY <1>1, <2>2, <2>3
<1>5. CASE l \notin shown
  <2>1. JudgeLeg(l, l \in shown, at) =
            IF at > lastValid[l] + DROP_MARGIN_BLOCKS THEN "dropped" ELSE "sent"
    BY <1>5 DEF JudgeLeg
  <2>2. CASE at > lastValid[l] + DROP_MARGIN_BLOCKS
    <3>1. landing[l] # NotIn => landing[l].block + lag <= height
      BY <1>1, <1>2, <2>2
    <3>2. landing[l] = NotIn
      BY <1>5, <3>1 DEF Shown
    <3>3. height > lastValid[l]
      BY <1>1, <1>2, <2>2
    <3>4. QED
      BY <1>3, <2>1, <2>2, <3>2, <3>3 DEF CertainThen
  <2>3. CASE ~ (at > lastValid[l] + DROP_MARGIN_BLOCKS)
    BY <2>1, <2>3, OpenLegsAreUncertain
  <2>4. QED
    BY <2>2, <2>3
<1>6. QED
  BY <1>4, <1>5

LEMMA TicksStepSound ==
    ASSUME BrowserInv, Next
    PROVE  \A u \in Tabs, j \in Slots : TickThen(ticks'[u][j])
<1>0. TypeOK /\ TypeOK' /\ ticks \in [Tabs -> [Slots -> Ticks]]
  BY TypeStep DEF BrowserInv, TypeOK
<1>1. \A u \in Tabs, j \in Slots : ticks[u][j] \in Ticks /\ TickSound(ticks[u][j])
                                  /\ TickThen(ticks[u][j])
  BY <1>0, TickOf, TickStays DEF BrowserInv
<1>2. ASSUME NEW t \in Tabs, NEW i \in Slots, NEW tick \in Ticks,
             SetTick(t, i, tick), TickThen(tick)
      PROVE  \A u \in Tabs, j \in Slots : TickThen(ticks'[u][j])
  BY <1>0, <1>1, <1>2, SetTickKeeps
<1>3. CASE UNCHANGED ticks
  BY <1>1, <1>3
<1>4. ASSUME NEW t \in Tabs, Rerender(t)
      PROVE  \A u \in Tabs, j \in Slots : TickThen(ticks'[u][j])
  <2>1. \A u \in Tabs, j \in Slots :
           ticks'[u][j] = IF u = t THEN [ticks[u][j] EXCEPT !.current = FALSE] ELSE ticks[u][j]
    BY <1>0, <1>4 DEF Rerender
  <2>2. \A u \in Tabs, j \in Slots : TickThen([ticks[u][j] EXCEPT !.current = FALSE])
    <3> SUFFICES ASSUME NEW u \in Tabs, NEW j \in Slots
                 PROVE  TickThen([ticks[u][j] EXCEPT !.current = FALSE])
      OBVIOUS
    <3> DEFINE tick == ticks[u][j]
               still == [tick EXCEPT !.current = FALSE]
    <3>1. tick \in Ticks /\ TickThen(tick)
      BY <1>1
    <3> HIDE DEF tick
    <3>2. still.height = tick.height /\ still.reading = tick.reading /\ still.asked = tick.asked
      BY <3>1 DEF Ticks
    <3> HIDE DEF still
    <3>3. TickThen(still)
      BY <3>1, <3>2 DEF TickThen
    <3>4. QED
      BY <3>3 DEF still, tick
  <2>3. QED
    BY <1>1, <2>1, <2>2
<1>5. ASSUME NEW t \in Tabs, Reload(t)
      PROVE  \A u \in Tabs, j \in Slots : TickThen(ticks'[u][j])
  <2>1. \A u \in Tabs, j \in Slots : ticks'[u][j] = IF u = t THEN NoTick ELSE ticks[u][j]
    BY <1>0, <1>5 DEF Reload
  <2>2. QED
    BY <1>0, <1>1, <2>1, NoTickThen
<1>6. ASSUME NEW t \in Tabs, NEW i \in Slots, StartTick(t, i)
      PROVE  \A u \in Tabs, j \in Slots : TickThen(ticks'[u][j])
  <2> DEFINE tick == [NoTick EXCEPT !.step = "asked", !.asked = Open(cache[t]), !.current = TRUE]
  <2>1. tick \in Ticks /\ SetTick(t, i, tick)
    BY <1>6, OpenIsLegs, NoTickIsATick, EditTick DEF StartTick
  <2>2. tick.height = 0 /\ tick.asked = Open(cache[t]) /\ tick.reading = NoReading
    BY DEF NoTick
  <2>3. ASSUME NEW l \in Legs, FreshThen(l) PROVE l \notin Open(cache[t])
    <3>1. cache[t].phase[l] = "none"
      BY <1>0, <2>3, AskedStaysAsked DEF BrowserInv, ListSound
    <3>2. QED
      BY <3>1 DEF Open
  <2>4. 0 <= height'
    BY <1>0 DEF TypeOK
  <2> HIDE DEF tick
  <2>5. TickThen(tick)
    BY <2>2, <2>3, <2>4, OpenLegsAreUncertain DEF TickThen, NoReading
  <2>6. QED
    BY <1>2, <2>1, <2>5
<1>7. ASSUME NEW t \in Tabs, NEW i \in Slots, ReadHeight(t, i)
      PROVE  \A u \in Tabs, j \in Slots : TickThen(ticks'[u][j])
  <2> DEFINE old == ticks[t][i]
             tick == [old EXCEPT !.step = "judging", !.height = height]
  <2>1. old \in Ticks /\ TickThen(old) /\ height \in Nat /\ height' = height
    BY <1>0, <1>1, <1>7 DEF ReadHeight, chainVars, TypeOK
  <2>2. tick \in Ticks /\ SetTick(t, i, tick)
    BY <1>7, <2>1, EditTick DEF ReadHeight
  <2> HIDE DEF old
  <2>3. tick.height = height /\ tick.asked = old.asked /\ tick.reading = old.reading
    BY <2>1 DEF Ticks
  <2> HIDE DEF tick
  <2>4. TickThen(tick)
    BY <2>1, <2>3 DEF TickThen
  <2>5. QED
    BY <1>2, <2>2, <2>4
<1>8. ASSUME NEW t \in Tabs, NEW i \in Slots, ReadStatuses(t, i)
      PROVE  \A u \in Tabs, j \in Slots : TickThen(ticks'[u][j])
  <2>1. PICK shown \in {Shown(lag) : lag \in 0 .. StatusLag}
                          \union {{l \in Legs : landing[l] # NotIn}} :
           SetTick(t, i, [ticks[t][i] EXCEPT
              !.step = "read", !.height = 0,
              !.reading = [l \in Legs |->
                  IF l \in ticks[t][i].asked
                  THEN JudgeLeg(l, l \in shown, ticks[t][i].height) ELSE "none"]])
    BY <1>8 DEF ReadStatuses
  <2>2. PICK lag \in 0 .. StatusLag :
           shown = Shown(lag) \/ shown = {l \in Legs : landing[l] # NotIn}
    BY <2>1, BrowserAssumption
  <2> DEFINE old == ticks[t][i]
             f == [l \in Legs |-> IF l \in old.asked
                                  THEN JudgeLeg(l, l \in shown, old.height) ELSE "none"]
             tick == [old EXCEPT !.step = "read", !.height = 0, !.reading = f]
  <2>3. old \in Ticks /\ TickThen(old) /\ old.height \in Nat /\ old.height <= height
    BY <1>1, TickFields DEF TickSound
  <2>4. f \in [Legs -> {"none", "sent"} \union Terminal]
    BY JudgedIsAReading
  <2>5. \A l \in Legs : /\ f[l] # "none" => l \in old.asked
                        /\ CertainThen(f[l], l) /\ f[l] # "refused"
    <3> SUFFICES ASSUME NEW l \in Legs
                 PROVE  /\ f[l] # "none" => l \in old.asked
                        /\ CertainThen(f[l], l) /\ f[l] # "refused"
      OBVIOUS
    <3>1. UNCHANGED <<sendVars, chainVars>>
      BY <1>8 DEF ReadStatuses
    <3>2. CASE l \notin old.asked
      BY <3>2, OpenLegsAreUncertain
    <3>3. CASE l \in old.asked
      BY <2>2, <2>3, <3>1, <3>3, JudgementIsCertain
    <3>4. QED
      BY <3>2, <3>3
  <2>6. SetTick(t, i, tick)
    BY <2>1
  <2>7. 0 <= height'
    BY <1>0 DEF TypeOK
  <2> HIDE DEF old, f
  <2>8. tick \in Ticks
    BY <2>3, <2>4, EditTick
  <2>9. tick.height = 0 /\ tick.asked = old.asked /\ tick.reading = f
    BY <2>3 DEF Ticks
  <2> HIDE DEF tick
  <2>10. TickThen(tick)
    BY <2>3, <2>5, <2>7, <2>9 DEF TickThen
  <2>11. QED
    BY <1>2, <2>6, <2>8, <2>10
<1>9. ASSUME NEW t \in Tabs, NEW i \in Slots, ApplyReadings(t, i) \/ ReadFails(t, i)
      PROVE  \A u \in Tabs, j \in Slots : TickThen(ticks'[u][j])
  <2>1. SetTick(t, i, NoTick)
    BY <1>9 DEF ApplyReadings, ReadFails
  <2>2. QED
    BY <1>0, <1>2, <2>1, NoTickIsATick, NoTickThen
<1>10. QED
  BY <1>3, <1>4, <1>5, <1>6, <1>7, <1>8, <1>9
     DEF Next, TabStep, LegStep, FromAnotherTab, MarkSeen, ApproveAndSend, Answered,
         Receive, LoseAnswer, PostNext, Submit, Land, Fork, Grow, watchVars

LEMMA LegsStepSound ==
    ASSUME BrowserInv, Next, NEW l \in Legs
    PROVE  LegSound(l)'
<1>1. /\ LegSound(l) /\ height \in Nat /\ ExecutionOf[l] \in Executions
      /\ origin \in [Executions -> SUBSET Tabs]
      /\ request \in [Legs -> {"none", "queued", "flying", "over"}]
      /\ server \in [Legs -> {"none", "inbox", "sent", "refused"}]
      /\ lastValid \in [Legs -> Nat] /\ broadcast \subseteq Legs
      /\ landing \in [Legs -> [block: Nat, err: BOOLEAN]]
  BY BrowserAssumption DEF BrowserInv, TypeOK
<1> USE DEF LegSound, Fresh
<1>2. CASE UNCHANGED <<sendVars, chainVars>>
  BY <1>1, <1>2 DEF sendVars, chainVars
<1>3. ASSUME NEW t \in Tabs, NEW e \in Executions, ApproveAndSend(t, e)
      PROVE  LegSound(l)'
  <2>1. origin[e] = {} /\ origin'[e] = {t}
    BY <1>1, <1>3 DEF ApproveAndSend
  <2>2. CASE ExecutionOf[l] = e
    <3>1. /\ request[l] = "none" /\ server[l] = "none"
          /\ l \notin broadcast /\ landing[l] = NotIn
      BY <1>1, <2>1, <2>2
    <3>2. /\ server'[l] # "none" => request'[l] = "flying"
          /\ broadcast' = broadcast /\ landing' = landing
      <4>1. PICK unsigned \in SUBSET LegsOf(e) :
               LET signed == LegsOf(e) \ unsigned
               IN  /\ request' = [k \in Legs |-> CASE k \in signed \ ToRpc -> "flying"
                                                   [] k \in signed \intersect ToRpc -> "queued"
                                                   [] OTHER -> request[k]]
                   /\ server' = [k \in Legs |-> IF k \in signed \ ToRpc THEN "inbox"
                                                ELSE server[k]]
        BY <1>3 DEF ApproveAndSend
      <4>2. QED
        BY <1>3, <3>1, <4>1 DEF ApproveAndSend, chainVars
    <3>3. QED
      BY <2>1, <2>2, <3>1, <3>2
  <2>3. CASE ExecutionOf[l] # e
    <3>1. l \notin LegsOf(e)
      BY <2>3 DEF LegsOf
    <3>2. /\ lastValid'[l] = lastValid[l] /\ request'[l] = request[l]
          /\ server'[l] = server[l] /\ origin'[ExecutionOf[l]] = origin[ExecutionOf[l]]
      BY <1>1, <1>3, <2>3, <3>1 DEF ApproveAndSend
    <3>3. QED
      BY <1>1, <1>3, <3>2 DEF ApproveAndSend, chainVars
  <2>4. QED
    BY <2>2, <2>3
<1>4. ASSUME NEW k \in Legs, PostNext(k) PROVE LegSound(l)'
  BY <1>1, <1>4 DEF PostNext, chainVars
<1>5. ASSUME NEW k \in Legs, Submit(k) PROVE LegSound(l)'
  <2>1. CASE k = l
    BY <1>1, <1>5, <2>1 DEF Submit, Answer
  <2>2. CASE k # l
    BY <1>1, <1>5, <2>2 DEF Submit, Answer
  <2>3. QED
    BY <2>1, <2>2
<1>6. ASSUME NEW k \in Legs, NEW answer, Answered(k, answer) PROVE LegSound(l)'
  BY <1>1, <1>6 DEF Answered, chainVars
<1>7. ASSUME NEW k \in Legs, Land(k) PROVE LegSound(l)'
  <2>1. PICK block \in height + 1 .. lastValid[k], err \in BOOLEAN :
           landing' = [landing EXCEPT ![k] = [block |-> block, err |-> err]]
    BY <1>7 DEF Land
  <2>2. k = l => landing'[l].block = block /\ block \in 1 .. lastValid[l]
    BY <1>1, <2>1
  <2>3. k # l => landing'[l] = landing[l]
    BY <1>1, <2>1
  <2>4. QED
    BY <1>1, <1>7, <2>2, <2>3 DEF Land, sendVars
<1>8. ASSUME NEW k \in Legs, Fork(k) PROVE LegSound(l)'
  BY <1>1, <1>8 DEF Fork, sendVars
<1>9. ASSUME Grow PROVE LegSound(l)'
  BY <1>1, <1>9 DEF Grow, sendVars
<1>10. ASSUME NEW t \in Tabs, Reload(t) PROVE LegSound(l)'
  BY <1>1, <1>10 DEF Reload, chainVars
<1>11. QED
  BY <1>2, <1>3, <1>4, <1>5, <1>6, <1>7, <1>8, <1>9, <1>10
     DEF Next, TabStep, LegStep, FromAnotherTab, MarkSeen, Rerender, StartTick, ReadHeight,
         ReadStatuses, ApplyReadings, ReadFails, Receive, LoseAnswer

-----------------------------------------------------------------------------
(* The theorems.                                                              *)

LEMMA SoundInit == Init => BrowserInv
<1> SUFFICES ASSUME Init PROVE BrowserInv
  OBVIOUS
<1>1. TypeOK
  BY TypeInit
<1>2. \A l \in Legs : Certain("none", l)
  BY CertainMeans
<1>3. ListSound(NoRecords)
  BY <1>2 DEF ListSound, NoRecords
<1>4. TickSound(NoTick)
  BY <1>2 DEF Init, TickSound, NoTick, NoReading
<1>5. \A l \in Legs : LegSound(l)
  BY DEF Init, LegSound
<1>6. QED
  BY <1>1, <1>3, <1>4, <1>5 DEF Init, BrowserInv

LEMMA SoundStep == BrowserInv /\ [Next]_vars => BrowserInv'
<1> SUFFICES ASSUME BrowserInv, [Next]_vars PROVE BrowserInv'
  OBVIOUS
<1>1. CASE UNCHANGED vars
  <2> USE DEF vars, storeVars, sendVars, chainVars, watchVars
  <2>1. TypeOK'
    BY <1>1 DEF BrowserInv, TypeOK
  <2>2. ListSound(stored)' /\ \A t \in Tabs : ListSound(cache[t])'
    BY <1>1 DEF BrowserInv, ListSound, Certain, Justifies, Confirmed, Fresh
  <2>3. \A t \in Tabs, i \in Slots : TickSound(ticks[t][i])'
    BY <1>1 DEF BrowserInv, TickSound, Certain, Justifies, Confirmed, Fresh
  <2>4. \A l \in Legs : LegSound(l)'
    BY <1>1 DEF BrowserInv, LegSound, Fresh
  <2>5. QED
    BY <2>1, <2>2, <2>3, <2>4 DEF BrowserInv
<1>2. CASE Next
  <2>1. TypeOK'
    BY <1>2, TypeStep DEF BrowserInv
  <2>2. ListSound(stored)' /\ \A t \in Tabs : ListSound(cache[t])'
    BY <1>2, ListsStepSound
       DEF ListThen, ListSound, CertainThen, Certain, Justifies, Confirmed, FreshThen, Fresh
  <2>3. \A t \in Tabs, i \in Slots : TickSound(ticks[t][i])'
    BY <1>2, TicksStepSound
       DEF TickThen, TickSound, CertainThen, Certain, Justifies, Confirmed, FreshThen, Fresh
  <2>4. \A l \in Legs : LegSound(l)'
    BY <1>2, LegsStepSound
  <2>5. QED
    BY <2>1, <2>2, <2>3, <2>4 DEF BrowserInv
<1>3. QED
  BY <1>1, <1>2

LEMMA AlwaysSound == Spec => []BrowserInv
  BY SoundInit, SoundStep, PTL DEF Spec

\* No tab ever calls a leg landed that may be abandoned, dropped that may still
\* land, or refused that reached the cluster, for every number of tabs,
\* reloads and ticks in flight, and every lag the margin allows for.
THEOREM EndsAreAlwaysTheChains == Spec => []EndsAreTheChains
<1>1. BrowserInv => EndsAreTheChains
  BY DEF BrowserInv, EndsAreTheChains, ListSound, Certain
<1>2. QED
  BY <1>1, AlwaysSound, PTL

LEMMA AgreementStep == TypeOK /\ TabsAgree /\ [Next]_vars => TabsAgree'
<1> SUFFICES ASSUME TypeOK, TabsAgree, [Next]_vars PROVE TabsAgree'
  OBVIOUS
<1> USE DEF TabsAgree
<1>1. CASE UNCHANGED storeVars
  BY <1>1 DEF storeVars
<1>2. ASSUME NEW t \in Tabs, NEW list \in Lists, Commit(t, list) PROVE TabsAgree'
  BY <1>2, CommitKeeps
<1>3. ASSUME NEW t \in Tabs, FromAnotherTab(t) \/ Reload(t) PROVE TabsAgree'
  BY <1>3 DEF FromAnotherTab, Reload, TypeOK
<1>4. ASSUME NEW t \in Tabs, MarkSeen(t) PROVE TabsAgree'
  BY <1>2, <1>4, CacheIsAList DEF MarkSeen
<1>5. ASSUME NEW t \in Tabs, NEW e \in Executions, ApproveAndSend(t, e) PROVE TabsAgree'
  BY <1>2, <1>5, ApprovalCommits
<1>6. ASSUME NEW l \in Legs, Receive(l) \/ LoseAnswer(l) PROVE TabsAgree'
  BY <1>2, <1>6, AnswerCommits DEF Receive, LoseAnswer
<1>7. ASSUME NEW t \in Tabs, NEW i \in Slots, ApplyReadings(t, i) \/ ReadFails(t, i)
      PROVE  TabsAgree'
  BY <1>2, <1>7, ReadingsCommit, FailureCommits
<1>8. QED
  BY <1>1, <1>3, <1>4, <1>5, <1>6, <1>7
     DEF Next, TabStep, LegStep, Rerender, StartTick, ReadHeight, ReadStatuses, PostNext,
         Submit, Land, Fork, Grow, vars, storeVars

\* A tab with no storage event on its way to it holds what is stored.
THEOREM TabsAlwaysAgree == Spec => []TabsAgree
<1>1. Init => TabsAgree
  BY DEF Init, TabsAgree
<1>2. QED
  BY <1>1, AgreementStep, BrowserTypeCorrect, PTL DEF Spec

\* A tab that is up to date never takes back the end of a leg.
THEOREM EndsAlwaysStand == Spec => EndsStand
<1> DEFINE Stand ==
      \A t \in Tabs \ notified :
         cache'[t] # cache[t] /\ t \notin notified' =>
            \A l \in Legs : cache[t].phase[l] \in Terminal =>
                cache'[t].phase[l] \in {cache[t].phase[l], "none"}
<1>1. BrowserInv /\ TabsAgree /\ [Next]_vars => Stand
  <2> SUFFICES ASSUME BrowserInv, TabsAgree, [Next]_vars, NEW t \in Tabs, t \notin notified,
                      cache'[t] # cache[t], t \notin notified',
                      NEW l \in Legs, cache[t].phase[l] \in Terminal
               PROVE  cache'[t].phase[l] \in {cache[t].phase[l], "none"}
    OBVIOUS
  <2>0. TypeOK /\ cache \in [Tabs -> Lists] /\ cache[t] = stored
    BY DEF BrowserInv, TypeOK, TabsAgree
  <2>1. ASSUME NEW u \in Tabs, NEW list \in Lists, Commit(u, list),
               u = t => list.phase[l] = cache[t].phase[l]
        PROVE  cache'[t].phase[l] \in {cache[t].phase[l], "none"}
    BY <2>0, <2>1, CommitKeeps, TruncatedIsAList
  <2>2. ASSUME NEW u \in Tabs, FromAnotherTab(u) \/ Reload(u)
        PROVE  cache'[t] = cache[t]
    BY <2>0, <2>2 DEF FromAnotherTab, Reload
  <2>3. ASSUME NEW u \in Tabs, MarkSeen(u)
        PROVE  cache'[t].phase[l] \in {cache[t].phase[l], "none"}
    BY <2>0, <2>1, <2>3, CacheIsAList DEF MarkSeen
  <2>4. ASSUME NEW u \in Tabs, NEW e \in Executions, ApproveAndSend(u, e)
        PROVE  cache'[t].phase[l] \in {cache[t].phase[l], "none"}
    <3>1. ~ Fresh(l)
      BY DEF BrowserInv, ListSound, Terminal
    <3>2. ExecutionOf[l] # e
      BY <2>4, <3>1 DEF Fresh, ApproveAndSend
    <3>3. PICK list \in Lists : Commit(u, list) /\ list.phase[l] = cache[u].phase[l]
      BY <2>0, <2>4, <3>2, ApprovalCommits
    <3>4. QED
      BY <2>1, <3>3
  <2>5. ASSUME NEW k \in Legs, Receive(k) \/ LoseAnswer(k)
        PROVE  cache'[t].phase[l] \in {cache[t].phase[l], "none"}
    <3>1. PICK phase \in {"sent", "refused"} : Answered(k, phase)
      BY <2>5 DEF Receive, LoseAnswer
    <3>2. PICK u \in Tabs :
              /\ AfterAnswer(cache[u], k, phase) \in Lists
              /\ Commit(u, AfterAnswer(cache[u], k, phase))
              /\ \A m \in Legs : AfterAnswer(cache[u], k, phase).phase[m] =
                    IF m = k /\ cache[u].phase[k] = "signed" THEN phase ELSE cache[u].phase[m]
      BY <2>0, <3>1, AnswerCommits
    <3>3. cache[t].phase[l] # "signed"
      BY DEF Terminal
    <3>4. QED
      BY <2>1, <3>2, <3>3
  <2>6. ASSUME NEW u \in Tabs, NEW i \in Slots, ApplyReadings(u, i) \/ ReadFails(u, i)
        PROVE  cache'[t].phase[l] \in {cache[t].phase[l], "none"}
    <3>1. cache[t].phase[l] \notin {"signed", "sent"}
      BY DEF Terminal
    <3>2. PICK list \in Lists :
             Commit(u, list) /\ (u = t => list.phase[l] = cache[t].phase[l])
      <4>1. CASE ApplyReadings(u, i)
        <5>1. Settles(u, i).phase = Settled(cache[u], ticks[u][i].reading)
          BY <2>0, <4>1, ReadingsCommit
        <5>2. u = t => Settles(u, i).phase[l] = cache[t].phase[l]
          BY <3>1, <5>1 DEF Settled
        <5>3. QED
          BY <2>0, <4>1, <5>2, ReadingsCommit
      <4>2. CASE ReadFails(u, i)
        BY <2>0, <4>2, FailureCommits
      <4>3. QED
        BY <2>6, <4>1, <4>2
    <3>3. QED
      BY <2>1, <3>2
  <2>7. QED
    BY <2>2, <2>3, <2>4, <2>5, <2>6
       DEF Next, TabStep, LegStep, Rerender, StartTick, ReadHeight, ReadStatuses, PostNext,
           Submit, Land, Fork, Grow, vars, storeVars
<1>2. QED
  BY <1>1, AlwaysSound, TabsAlwaysAgree, PTL DEF Spec, EndsStand

-----------------------------------------------------------------------------
(* Only the oldest is cut.                                                    *)

PlacesUpTo(list, n) ==
    /\ \A k \in 1 .. n : \E e \in Executions : list.place[e] = k
    /\ \A e \in Executions : list.place[e] <= n
    /\ \A e, f \in Executions : Holds(list, e) /\ list.place[e] = list.place[f] => e = f

\* A list whose places are 1 .. n holds n records.
LEMMA PlacesCount ==
    ASSUME NEW list \in Lists, NEW n \in Nat, PlacesUpTo(list, n)
    PROVE  Cardinality({f \in Executions : Holds(list, f)}) = n
<1> DEFINE Held == {f \in Executions : Holds(list, f)}
           at == [k \in 1 .. n |-> CHOOSE e \in Executions : list.place[e] = k]
<1>1. \A k \in 1 .. n : at[k] \in Executions /\ list.place[at[k]] = k
  BY DEF PlacesUpTo
<1>2. \A k \in 1 .. n : at[k] \in Held
  BY <1>1 DEF Holds
<1>3. at \in [1 .. n -> Held]
  BY <1>2
<1>4. \A e \in Held : list.place[e] \in 1 .. n /\ at[list.place[e]] = e
  <2> TAKE e \in Held
  <2>1. list.place[e] \in 1 .. n
    BY ListFields DEF PlacesUpTo, Holds
  <2>2. at[list.place[e]] \in Executions /\ list.place[at[list.place[e]]] = list.place[e]
    BY <1>1, <2>1
  <2> HIDE DEF at
  <2>3. QED
    BY <2>1, <2>2 DEF PlacesUpTo
<1> HIDE DEF at, Held
<1>5. at \in Injection(1 .. n, Held)
  BY <1>1, <1>3 DEF Injection, IsInjective
<1>6. at \in Surjection(1 .. n, Held)
  BY <1>3, <1>4 DEF Surjection
<1>7. ExistsBijection(1 .. n, Held)
  BY <1>5, <1>6 DEF ExistsBijection, Bijection
<1>8. QED
  BY <1>7, FS_CountingElements DEF Held

LEMMA OrderedMeans ==
    ASSUME NEW list
    PROVE  Ordered(list) <=> \E n \in 0 .. KEPT : PlacesUpTo(list, n)
  BY DEF Ordered, PlacesUpTo

LEMMA NoRecordsAreOrdered == Ordered(NoRecords)
<1>1. PlacesUpTo(NoRecords, 0)
  BY DEF PlacesUpTo, NoRecords, Holds
<1>2. 0 \in 0 .. KEPT
  BY BrowserAssumption
<1>3. QED
  BY <1>1, <1>2, OrderedMeans

\* A list that is in order loses nothing when it is cut.
LEMMA OrderedIsNotCut ==
    ASSUME NEW list \in Lists, NEW old \in Lists, Ordered(old), list.place = old.place
    PROVE  Truncated(list).place = old.place /\ Ordered(Truncated(list))
<1>1. PICK n \in 0 .. KEPT : PlacesUpTo(old, n)
  BY OrderedMeans
<1>2. n \in Nat /\ KEPT \in Nat /\ n <= KEPT
  BY BrowserAssumption
<1>3. \A e \in Executions : Kept(list, e) \/ list.place[e] = 0
  BY <1>1, <1>2, ListFields DEF Kept, PlacesUpTo
<1>4. Truncated(list).place = [e \in Executions |-> list.place[e]]
  BY <1>3 DEF Truncated
<1>5. Truncated(list).place = old.place
  BY <1>4, ListFields
<1>6. QED
  BY <1>5 DEF Ordered, Holds

\* Where a new record puts the others, once the list is cut.
LEMMA PlacesOnceAdded ==
    ASSUME NEW list \in Lists, NEW e \in Executions, NEW unsigned \in SUBSET LegsOf(e)
    PROVE  LET cut == Truncated(Added(list, e, unsigned))
           IN  \A f \in Executions :
                  cut.place[f] = IF f = e THEN IF KEPT = 0 THEN 0 ELSE 1
                                 ELSE IF Holds(list, f) /\ list.place[f] + 1 <= KEPT
                                      THEN list.place[f] + 1 ELSE 0
<1> DEFINE new == Added(list, e, unsigned)
<1>1. new.place = [f \in Executions |-> IF f = e THEN 1
                                        ELSE IF Holds(list, f) THEN list.place[f] + 1 ELSE 0]
  BY DEF Added, Lists
<1> HIDE DEF new
<1>2. \A f \in Executions : Truncated(new).place[f] = IF Kept(new, f) THEN new.place[f] ELSE 0
  BY DEF Truncated
<1>3. ASSUME NEW f \in Executions
      PROVE  Truncated(new).place[f] = IF f = e THEN IF KEPT = 0 THEN 0 ELSE 1
                                       ELSE IF Holds(list, f) /\ list.place[f] + 1 <= KEPT
                                            THEN list.place[f] + 1 ELSE 0
  <2>1. list.place[f] \in Nat /\ KEPT \in Nat
    BY ListFields, BrowserAssumption
  <2>2. Kept(new, f) <=> 1 <= new.place[f] /\ new.place[f] <= KEPT
    BY <1>1, <2>1 DEF Kept
  <2>3. QED
    BY <1>1, <1>2, <2>1, <2>2
<1>4. QED
  BY <1>3 DEF new

\* A new record moves the others down, and only one at place KEPT falls off.
LEMMA AddedInOrder ==
    ASSUME NEW list \in Lists, NEW n \in 0 .. KEPT, PlacesUpTo(list, n),
           NEW e \in Executions, ~ Holds(list, e), NEW unsigned \in SUBSET LegsOf(e)
    PROVE  PlacesUpTo(Truncated(Added(list, e, unsigned)), IF n < KEPT THEN n + 1 ELSE KEPT)
<1> DEFINE cut == Truncated(Added(list, e, unsigned))
           m == IF n < KEPT THEN n + 1 ELSE KEPT
<1>1. n \in Nat /\ KEPT \in Nat /\ n <= KEPT /\ m \in Nat /\ m <= KEPT
  BY BrowserAssumption
<1>2. \A f \in Executions : list.place[f] \in Nat /\ list.place[f] <= n
  BY ListFields DEF PlacesUpTo
<1>3. \A f \in Executions :
         cut.place[f] = IF f = e THEN IF KEPT = 0 THEN 0 ELSE 1
                        ELSE IF Holds(list, f) /\ list.place[f] + 1 <= KEPT
                             THEN list.place[f] + 1 ELSE 0
  BY PlacesOnceAdded
<1> HIDE DEF cut
<1>4. \A f \in Executions : cut.place[f] <= m
  BY <1>1, <1>2, <1>3
<1>5. ASSUME NEW k \in 1 .. m PROVE \E f \in Executions : cut.place[f] = k
  <2>1. CASE k = 1
    <3>1. cut.place[e] = 1
      BY <1>1, <1>3, <2>1
    <3>2. QED
      BY <2>1, <3>1
  <2>2. CASE k # 1
    <3>1. k - 1 \in 1 .. n /\ k <= KEPT
      BY <1>1, <2>2
    <3>2. PICK f \in Executions : list.place[f] = k - 1
      BY <3>1 DEF PlacesUpTo
    <3>3. Holds(list, f) /\ f # e
      BY <3>1, <3>2 DEF Holds
    <3>4. list.place[f] + 1 = k /\ k <= KEPT
      BY <3>1, <3>2
    <3>5. QED
      BY <1>3, <3>3, <3>4
  <2>3. QED
    BY <2>1, <2>2
<1>6. ASSUME NEW f \in Executions, NEW g \in Executions,
             Holds(cut, f), cut.place[f] = cut.place[g]
      PROVE  f = g
  <2>1. cut.place[f] # 0 /\ cut.place[g] # 0
    BY <1>6 DEF Holds
  <2>2. ASSUME NEW x \in Executions, NEW y \in Executions, x = e, y # e,
               cut.place[x] # 0, cut.place[y] # 0
        PROVE  cut.place[x] # cut.place[y]
    <3>1. cut.place[x] = 1
      BY <1>3, <2>2
    <3>2. cut.place[y] = list.place[y] + 1 /\ Holds(list, y)
      BY <1>3, <2>2
    <3>3. QED
      BY <1>2, <3>1, <3>2 DEF Holds
  <2>3. CASE f # e /\ g # e
    <3>1. /\ cut.place[f] = list.place[f] + 1 /\ Holds(list, f)
          /\ cut.place[g] = list.place[g] + 1 /\ Holds(list, g)
      BY <1>3, <2>1, <2>3
    <3>2. list.place[f] = list.place[g]
      <4>1. list.place[f] + 1 = list.place[g] + 1
        BY <1>6, <3>1
      <4>2. list.place[f] \in Nat /\ list.place[g] \in Nat
        BY <1>2
      <4>3. QED
        BY <4>1, <4>2
    <3>3. QED
      BY <3>1, <3>2 DEF PlacesUpTo
  <2>4. QED
    BY <1>6, <2>1, <2>2, <2>3
<1>7. PlacesUpTo(cut, m)
  BY <1>4, <1>5, <1>6 DEF PlacesUpTo
<1>8. QED
  BY <1>7 DEF cut

LEMMA AddedStaysOrdered ==
    ASSUME NEW list \in Lists, Ordered(list), NEW e \in Executions, ~ Holds(list, e),
           NEW unsigned \in SUBSET LegsOf(e)
    PROVE  Ordered(Truncated(Added(list, e, unsigned)))
<1>1. PICK n \in 0 .. KEPT : PlacesUpTo(list, n)
  BY OrderedMeans
<1>2. (IF n < KEPT THEN n + 1 ELSE KEPT) \in 0 .. KEPT
  BY BrowserAssumption
<1>3. QED
  BY <1>1, <1>2, AddedInOrder, OrderedMeans

\* A record that is lost when another is added was the oldest of KEPT.
LEMMA CutIsTheOldest ==
    ASSUME NEW list \in Lists, Ordered(list), NEW e \in Executions, ~ Holds(list, e),
           NEW unsigned \in SUBSET LegsOf(e),
           NEW lost \in Executions, Holds(list, lost) \/ lost = e,
           ~ Holds(Truncated(Added(list, e, unsigned)), lost)
    PROVE  /\ Cardinality({f \in Executions :
                             Holds(Truncated(Added(list, e, unsigned)), f)}) = KEPT
           /\ \A f \in Executions : Holds(list, f) => list.place[f] <= list.place[lost]
<1> DEFINE cut == Truncated(Added(list, e, unsigned))
<1>1. PICK n \in 0 .. KEPT : PlacesUpTo(list, n)
  BY OrderedMeans
<1>2. n \in Nat /\ KEPT \in Nat /\ n <= KEPT
  BY BrowserAssumption
<1>3. \A f \in Executions : list.place[f] \in Nat /\ list.place[f] <= n
  BY <1>1, ListFields DEF PlacesUpTo
<1>4. cut.place[lost] = 0
  BY DEF Holds
<1>5. n = KEPT /\ (lost # e => list.place[lost] = KEPT) /\ (lost = e => KEPT = 0)
  <2>1. CASE lost = e
    <3>1. KEPT = 0
      BY <1>4, <2>1, PlacesOnceAdded
    <3>2. QED
      BY <1>2, <2>1, <3>1
  <2>2. CASE lost # e
    <3>1. Holds(list, lost)
      BY <2>2
    <3>2. ~ (list.place[lost] + 1 <= KEPT)
      <4>1. SUFFICES ASSUME list.place[lost] + 1 <= KEPT PROVE FALSE
        OBVIOUS
      <4>2. cut.place[lost] = list.place[lost] + 1
        BY <2>2, <3>1, <4>1, PlacesOnceAdded
      <4> HIDE DEF cut
      <4>3. QED
        BY <1>3, <1>4, <4>2
    <3>3. QED
      BY <1>2, <1>3, <2>2, <3>2
  <2>3. QED
    BY <2>1, <2>2
<1>6. cut \in Lists
  BY AddedIsAList, TruncatedIsAList
<1>7. PlacesUpTo(cut, KEPT)
  BY <1>1, <1>5, AddedInOrder
<1>8. Cardinality({f \in Executions : Holds(cut, f)}) = KEPT
  <2> HIDE DEF cut
  <2>1. QED
    BY <1>2, <1>6, <1>7, PlacesCount
<1>9. \A f \in Executions : list.place[f] <= list.place[lost]
  <2>1. list.place[lost] \in Nat
    BY ListFields
  <2>2. QED
    BY <1>2, <1>3, <1>5, <2>1
<1>10. QED
  BY <1>8, <1>9

\* What a step does to the lists: nothing, one tab reads what is stored, one
\* writes its records back where they were, or one adds a record.
LEMMA HowListsChange ==
    ASSUME TypeOK, [Next]_vars
    PROVE  \/ UNCHANGED <<storeVars, origin>>
           \/ \E t \in Tabs : /\ t \in notified \/ Reload(t)
                              /\ cache' = [cache EXCEPT ![t] = stored]
                              /\ UNCHANGED <<stored, origin>>
           \/ \E t \in Tabs, list \in Lists :
                 list.place = cache[t].place /\ Commit(t, list) /\ UNCHANGED origin
           \/ \E t \in Tabs, e \in Executions : ApproveAndSend(t, e)
<1> DEFINE Goal ==
             \/ UNCHANGED <<storeVars, origin>>
             \/ \E t \in Tabs : /\ t \in notified \/ Reload(t)
                                /\ cache' = [cache EXCEPT ![t] = stored]
                                /\ UNCHANGED <<stored, origin>>
             \/ \E t \in Tabs, list \in Lists :
                   list.place = cache[t].place /\ Commit(t, list) /\ UNCHANGED origin
             \/ \E t \in Tabs, e \in Executions : ApproveAndSend(t, e)
<1>1. CASE UNCHANGED vars
  BY <1>1 DEF vars, storeVars, sendVars
<1>2. ASSUME NEW t \in Tabs, FromAnotherTab(t) \/ Reload(t) PROVE Goal
  BY <1>2 DEF FromAnotherTab, Reload, sendVars
<1>3. ASSUME NEW t \in Tabs, MarkSeen(t) PROVE Goal
  BY <1>3, CacheIsAList DEF MarkSeen, sendVars
<1>4. ASSUME NEW l \in Legs, Receive(l) \/ LoseAnswer(l) PROVE Goal
  <2>1. PICK phase \in {"sent", "refused"} : Answered(l, phase)
    BY <1>4 DEF Receive, LoseAnswer
  <2>2. PICK t \in Tabs : /\ AfterAnswer(cache[t], l, phase) \in Lists
                          /\ Commit(t, AfterAnswer(cache[t], l, phase))
    BY <2>1, AnswerCommits
  <2>3. AfterAnswer(cache[t], l, phase).place = cache[t].place
    BY CacheIsAList DEF AfterAnswer, WithPhase, Lists
  <2>4. QED
    BY <2>1, <2>2, <2>3 DEF Answered
<1>5. ASSUME NEW t \in Tabs, NEW i \in Slots, ApplyReadings(t, i) \/ ReadFails(t, i)
      PROVE  Goal
  <2>1. Settles(t, i).place = cache[t].place /\ Marked(t, i).place = cache[t].place
    BY CacheIsAList DEF Settles, Marked, Lists
  <2>2. QED
    BY <1>5, <2>1, ReadingsCommit, FailureCommits DEF ApplyReadings, ReadFails, sendVars
<1>6. CASE /\ Next
           /\ ~ \E t \in Tabs : \/ FromAnotherTab(t) \/ Reload(t) \/ MarkSeen(t)
                                \/ \E e \in Executions : ApproveAndSend(t, e)
                                \/ \E i \in Slots : ApplyReadings(t, i) \/ ReadFails(t, i)
           /\ ~ \E l \in Legs : Receive(l) \/ LoseAnswer(l)
  BY <1>6 DEF Next, TabStep, LegStep, Rerender, StartTick, ReadHeight, ReadStatuses, PostNext,
              Submit, Land, Fork, Grow, storeVars, sendVars
<1>7. QED
  BY <1>1, <1>2, <1>3, <1>4, <1>5, <1>6

LEMMA OrderInit == Init => OrderInv
<1> SUFFICES ASSUME Init PROVE OrderInv
  OBVIOUS
<1>1. stored = NoRecords /\ \A t \in Tabs : cache[t] = NoRecords
  BY DEF Init
<1>2. HoldsOnlyAsked(NoRecords)
  BY DEF HoldsOnlyAsked, NoRecords, Holds
<1>3. QED
  BY <1>1, <1>2, NoRecordsAreOrdered DEF OrderInv

LEMMA OrderStep == TypeOK /\ OrderInv /\ [Next]_vars => OrderInv'
<1> SUFFICES ASSUME TypeOK, OrderInv, [Next]_vars PROVE OrderInv'
  OBVIOUS
<1>0. /\ Ordered(stored) /\ \A e \in Executions : Holds(stored, e) => origin[e] # {}
      /\ \A t \in Tabs : /\ Ordered(cache[t])
                         /\ \A e \in Executions : Holds(cache[t], e) => origin[e] # {}
  BY DEF OrderInv, HoldsOnlyAsked
<1>g. SUFFICES /\ Ordered(stored')
               /\ \A e \in Executions : Holds(stored', e) => origin'[e] # {}
               /\ \A t \in Tabs : /\ Ordered(cache'[t])
                                  /\ \A e \in Executions : Holds(cache'[t], e) => origin'[e] # {}
  BY DEF OrderInv, HoldsOnlyAsked, Ordered, Holds
<1>1. CASE UNCHANGED <<storeVars, origin>>
  BY <1>0, <1>1 DEF storeVars
<1>2. ASSUME NEW t \in Tabs, cache' = [cache EXCEPT ![t] = stored],
             UNCHANGED <<stored, origin>>
      PROVE  OrderInv'
  <2>1. \A u \in Tabs : cache'[u] = IF u = t THEN stored ELSE cache[u]
    BY <1>2 DEF TypeOK
  <2>2. QED
    BY <1>0, <1>2, <2>1 DEF OrderInv, HoldsOnlyAsked, Ordered, Holds
<1>3. ASSUME NEW t \in Tabs, NEW list \in Lists, Commit(t, list),
             Ordered(Truncated(list)),
             \A e \in Executions : Holds(Truncated(list), e) => origin'[e] # {},
             \A e \in Executions : origin[e] # {} => origin'[e] # {}
      PROVE  OrderInv'
  <2>1. /\ stored' = Truncated(list)
        /\ \A u \in Tabs : cache'[u] = IF u = t THEN Truncated(list) ELSE cache[u]
    BY <1>3, CommitKeeps
  <2>2. QED
    BY <1>0, <1>3, <2>1 DEF OrderInv, HoldsOnlyAsked, Ordered, Holds
<1>4. ASSUME NEW t \in Tabs, NEW list \in Lists, list.place = cache[t].place,
             Commit(t, list), UNCHANGED origin
      PROVE  OrderInv'
  <2>1. Truncated(list).place = cache[t].place /\ Ordered(Truncated(list))
    BY <1>0, <1>4, CacheIsAList, OrderedIsNotCut
  <2>2. \A e \in Executions : Holds(Truncated(list), e) => origin'[e] # {}
    BY <1>0, <1>4, <2>1 DEF Holds
  <2>3. QED
    BY <1>3, <1>4, <2>1, <2>2
<1>5. ASSUME NEW t \in Tabs, NEW e \in Executions, ApproveAndSend(t, e) PROVE OrderInv'
  <2>1. PICK unsigned \in SUBSET LegsOf(e) :
            /\ Added(cache[t], e, unsigned) \in Lists
            /\ Commit(t, Added(cache[t], e, unsigned))
    BY <1>5, ApprovalCommits
  <2>2. ~ Holds(cache[t], e) /\ cache[t] \in Lists
    BY <1>0, <1>5, CacheIsAList DEF ApproveAndSend
  <2>3. \A f \in Executions : origin'[f] = IF f = e THEN {t} ELSE origin[f]
    BY <1>5 DEF ApproveAndSend, TypeOK
  <2>4. \A f \in Executions : Holds(Truncated(Added(cache[t], e, unsigned)), f)
                                => f = e \/ Holds(cache[t], f)
    BY <2>2, PlacesOnceAdded DEF Holds
  <2>5. Ordered(Truncated(Added(cache[t], e, unsigned)))
    BY <1>0, <2>2, AddedStaysOrdered
  <2>6. QED
    BY <1>0, <1>3, <2>1, <2>3, <2>4, <2>5
<1>6. QED
  BY <1>1, <1>2, <1>4, <1>5, HowListsChange DEF OrderInv, HoldsOnlyAsked, Ordered, Holds

LEMMA AlwaysOrdered == Spec => []OrderInv
  BY BrowserTypeCorrect, OrderInit, OrderStep, PTL DEF Spec

\* A tab that is up to date never loses a record except to KEPT newer ones,
\* for every number of tabs, executions and records kept: writing a list back
\* cuts nothing, and adding a record cuts only the last of a full list.
THEOREM OnlyTheOldestIsEverCut == Spec => OnlyTheOldestIsCut
<1>1. TypeOK /\ OrderInv /\ TabsAgree /\ [Next]_vars
        => [\A t \in Tabs \ notified : \A e \in Executions :
              /\ t \notin notified'
              /\ Holds(cache[t], e) \/ origin'[e] \ origin[e] = {t}
              /\ ~ Holds(cache'[t], e)
              => /\ Cardinality({f \in Executions : Holds(cache'[t], f)}) = KEPT
                 /\ \A f \in Executions : Holds(cache[t], f) =>
                        cache[t].place[f] <= cache[t].place[e]]_vars
  <2> SUFFICES ASSUME TypeOK, OrderInv, TabsAgree, [Next]_vars,
                      NEW t \in Tabs, t \notin notified, t \notin notified',
                      NEW e \in Executions,
                      Holds(cache[t], e) \/ origin'[e] \ origin[e] = {t},
                      ~ Holds(cache'[t], e)
               PROVE  /\ Cardinality({f \in Executions : Holds(cache'[t], f)}) = KEPT
                      /\ \A f \in Executions : Holds(cache[t], f) =>
                             cache[t].place[f] <= cache[t].place[e]
    OBVIOUS
  <2>0. cache[t] = stored /\ cache[t] \in Lists /\ Ordered(cache[t])
    BY CacheIsAList DEF TabsAgree, OrderInv
  <2>1. ASSUME cache'[t].place = cache[t].place, UNCHANGED origin PROVE FALSE
    BY <2>1 DEF Holds
  <2>2. CASE UNCHANGED <<storeVars, origin>>
    BY <2>1, <2>2 DEF storeVars
  <2>3. ASSUME NEW u \in Tabs, cache' = [cache EXCEPT ![u] = stored], UNCHANGED origin
        PROVE  FALSE
    <3>1. cache'[t] = cache[t]
      BY <2>0, <2>3 DEF TypeOK
    <3>2. QED
      BY <2>1, <2>3, <3>1
  <2>4. ASSUME NEW u \in Tabs, NEW list \in Lists, list.place = cache[u].place,
               Commit(u, list), UNCHANGED origin
        PROVE  FALSE
    <3>1. u = t /\ cache'[t] = Truncated(list)
      BY <2>4, CommitKeeps
    <3>2. Truncated(list).place = cache[t].place
      BY <2>0, <2>4, <3>1, OrderedIsNotCut
    <3>3. QED
      BY <2>1, <2>4, <3>1, <3>2
  <2>5. ASSUME NEW u \in Tabs, NEW new \in Executions, ApproveAndSend(u, new)
        PROVE  /\ Cardinality({f \in Executions : Holds(cache'[t], f)}) = KEPT
               /\ \A f \in Executions : Holds(cache[t], f) =>
                      cache[t].place[f] <= cache[t].place[e]
    <3>1. PICK unsigned \in SUBSET LegsOf(new) :
              /\ Added(cache[u], new, unsigned) \in Lists
              /\ Commit(u, Added(cache[u], new, unsigned))
      BY <2>5, ApprovalCommits
    <3>2. u = t /\ cache'[t] = Truncated(Added(cache[t], new, unsigned))
      BY <3>1, CommitKeeps
    <3>3. ~ Holds(cache[t], new)
      BY <2>5, <3>2 DEF ApproveAndSend, OrderInv, HoldsOnlyAsked
    <3>4. Holds(cache[t], e) \/ e = new
      BY <2>5 DEF ApproveAndSend, TypeOK
    <3>5. ~ Holds(Truncated(Added(cache[t], new, unsigned)), e)
      BY <3>2
    <3>6. /\ Cardinality({f \in Executions :
                 Holds(Truncated(Added(cache[t], new, unsigned)), f)}) = KEPT
          /\ \A f \in Executions : Holds(cache[t], f) =>
                 cache[t].place[f] <= cache[t].place[e]
      BY <2>0, <3>3, <3>4, <3>5, CutIsTheOldest
    <3>7. QED
      BY <3>2, <3>6
  <2>6. QED
    BY <2>2, <2>3, <2>4, <2>5, HowListsChange
<1>2. QED
  BY <1>1, BrowserTypeCorrect, AlwaysOrdered, TabsAlwaysAgree, PTL
     DEF Spec, OnlyTheOldestIsCut
=============================================================================
