---------------------------- MODULE PlaceProofs ----------------------------
(***************************************************************************)
(* The places of the queue: whatever arrives, yields, is resumed, demoted, *)
(* cancelled or moved by hand, no two tasks share a place and only what    *)
(* waits has one; and where every loop runs in the inference lane, the     *)
(* places of each lane follow priority and arrival, and a claim passes     *)
(* nobody more urgent.                                                     *)
(*                                                                         *)
(* A step either thins the queue out (rows lose their place or keep all    *)
(* that matters), lets one row enter, renumbers by hand, or recovers.      *)
(***************************************************************************)
EXTENDS BrokerProofs

----------------------------------------------------------------------------
(* What _make_room_in_queue finds.                                         *)

\* The minimum of places is no more than any of them, and the maximum no less.
LEMMA MinIsLeast ==
  ASSUME NEW S \in SUBSET Nat, S # {}
  PROVE  Min(S) \in S /\ \A y \in S : Min(S) <= y
BY SomethingLeast DEF Min

LEMMA MaxIsMost ==
  ASSUME NEW S \in SUBSET Nat, 0 \in S, NEW b \in Nat, \A x \in S : x <= b
  PROVE  Max(S) \in S /\ \A y \in S : y <= Max(S)
<1> DEFINE Above == {m \in Nat : \A x \in S : x <= m}
<1>1. PICK m \in Above : \A n \in Above : m <= n
  <2>1. b \in Above OBVIOUS
  <2> HIDE DEF Above
  <2>2. Above # {} BY <2>1
  <2>3. Above \in SUBSET Nat BY DEF Above
  <2> QED BY <2>2, <2>3, SomethingLeast
<1>2. m \in S
  <2>1. SUFFICES ASSUME m \notin S PROVE FALSE
    OBVIOUS
  <2>2. m \in Nat /\ m # 0 /\ m - 1 \in Nat
    BY <2>1
  <2>3. m - 1 \in Above
    BY <2>1, <2>2
  <2>4. m <= m - 1 BY <1>1, <2>3
  <2> QED BY <2>2, <2>4
<1>3. \A x \in S : m >= x
  BY <1>1
<1>4. \E y \in S : \A x \in S : y >= x
  BY <1>2, <1>3
<1>5. Max(S) \in S /\ \A x \in S : Max(S) >= x
  BY <1>4 DEF Max
<1> QED BY <1>5

\* The place is in front of all that must follow, and either behind everything or the
\* place of one that must follow.
LEMMA EntryPositionFits ==
  ASSUME task \in [Tasks -> Row], NEW t \in Tasks, NEW lane, NEW prio
  PROVE  LET p == EntryPosition(t, lane, prio)
         IN  /\ p \in Nat \ {NotPlaced}
             /\ \A x \in MustFollow(t, lane, prio) : p <= task[x].pos
             /\ \/ \A x \in Tasks : task[x].pos < p
                \/ \E y \in MustFollow(t, lane, prio) : task[y].pos = p
<1> DEFINE later == MustFollow(t, lane, prio)
           laterPlaces == {task[x].pos : x \in later}
           places == {0} \cup {task[x].pos : x \in Tasks}
           p == EntryPosition(t, lane, prio)
<1>1. \A x \in Tasks : task[x].pos \in Nat
  BY DEF Row
<1>2. p \in Nat \ {NotPlaced}
  BY EntryPositionIsAPlace
<1>3. later \subseteq Tasks
  BY DEF MustFollow, Pending
<1>4. CASE later = {}
  <2>1. PICK b \in Nat : \A x \in Tasks : task[x].pos <= b
    <3> DEFINE f == [x \in Tasks |-> task[x].pos]
    <3>1. f \in [Tasks -> Nat] BY <1>1
    <3>2. \E m \in Nat : \A x \in Tasks : f[x] <= m
      <4> HIDE DEF f
      <4> QED BY <3>1, PlacesBounded, SizesAssumption
    <3> QED BY <3>2
  <2>2. places \in SUBSET Nat /\ 0 \in places /\ \A q \in places : q <= b
    BY <1>1, <2>1
  <2>3. Max(places) \in Nat /\ \A q \in places : q <= Max(places)
    <3> HIDE DEF places
    <3> QED BY <2>2, MaxIsMost
  <2>4. p = 1 + Max(places)
    BY <1>4 DEF EntryPosition
  <2>5. \A x \in Tasks : task[x].pos \in places
    OBVIOUS
  <2> HIDE DEF places, p, later
  <2>6. \A x \in Tasks : task[x].pos < p
    BY <1>1, <2>3, <2>4, <2>5
  <2> QED BY <1>2, <1>4, <2>6 DEF p, later
<1>5. CASE later # {}
  <2>1. laterPlaces \in SUBSET Nat /\ laterPlaces # {}
    BY <1>1, <1>3, <1>5
  <2>2. Min(laterPlaces) \in laterPlaces /\ \A q \in laterPlaces : Min(laterPlaces) <= q
    <3> HIDE DEF laterPlaces
    <3> QED BY <2>1, MinIsLeast
  <2>3. p = Min(laterPlaces)
    BY <1>5 DEF EntryPosition
  <2>4. \A x \in later : p <= task[x].pos
    BY <2>2, <2>3
  <2>5. \E y \in later : task[y].pos = p
    BY <2>2, <2>3
  <2> QED BY <1>2, <2>4, <2>5
<1> QED BY <1>4, <1>5

----------------------------------------------------------------------------
(* What the steps do to the places.                                        *)

OnlyWaitingIsPlaced ==
  \A t \in Tasks : task[t].pos # NotPlaced => task[t].status \in PendingStatuses
NoPlaceIsShared ==
  \A s, t \in Tasks : task[s].pos = task[t].pos /\ s # t => task[s].pos = NotPlaced
PlacesFollowPriority ==
  \A s, t \in Pending :
    /\ task[s].kind = task[t].kind
    /\ task[s].pos # NotPlaced /\ task[t].pos # NotPlaced
    /\ task[s].prio < task[t].prio \/ (task[s].prio = task[t].prio /\ s < t)
    => task[s].pos < task[t].pos

\* A row that still has a place after the step is as it was.
Thins ==
  \A x \in Tasks : task'[x].pos # NotPlaced =>
    /\ task'[x].pos = task[x].pos /\ task'[x].status = task[x].status
    /\ task'[x].kind = task[x].kind /\ task'[x].prio = task[x].prio

\* t enters the queue at p, as a row of that lane and priority; the others make room.
EntersAt(t, p, lane, prio) ==
  /\ p \in Nat \ {NotPlaced}
  /\ task'[t].pos = p /\ task'[t].status = "queued"
  /\ task'[t].kind = lane /\ task'[t].prio = prio
  /\ \A x \in Tasks \ {t} :
       /\ task'[x].pos = IF task[x].pos >= p THEN task[x].pos + 1 ELSE task[x].pos
       /\ task'[x].status = task[x].status
       /\ task'[x].kind = task[x].kind /\ task'[x].prio = task[x].prio

\* p is the place that _make_room_in_queue chooses for t in that lane.
Fits(t, p, lane, prio) ==
  /\ \A x \in MustFollow(t, lane, prio) : p <= task[x].pos
  /\ \/ \A x \in Tasks : task[x].pos < p
     \/ \E y \in MustFollow(t, lane, prio) : task[y].pos = p

\* Losing places keeps them distinct and in order.
LEMMA ThinningKeeps ==
  ASSUME Thins
  PROVE  /\ OnlyWaitingIsPlaced => OnlyWaitingIsPlaced'
         /\ NoPlaceIsShared => NoPlaceIsShared'
         /\ PlacesFollowPriority => PlacesFollowPriority'
<1>1. OnlyWaitingIsPlaced => OnlyWaitingIsPlaced'
  BY DEF Thins, OnlyWaitingIsPlaced
<1>2. NoPlaceIsShared => NoPlaceIsShared'
  BY DEF Thins, NoPlaceIsShared
<1>3. PlacesFollowPriority => PlacesFollowPriority'
  BY DEF Thins, PlacesFollowPriority, Pending
<1> QED BY <1>1, <1>2, <1>3

\* Making room does too.
LEMMA EnteringKeeps ==
  ASSUME task \in [Tasks -> Row], NEW t \in Tasks, NEW p, NEW lane, NEW prio \in Nat,
         EntersAt(t, p, lane, prio)
  PROVE  /\ OnlyWaitingIsPlaced => OnlyWaitingIsPlaced'
         /\ NoPlaceIsShared => NoPlaceIsShared'
         /\ OnlyWaitingIsPlaced /\ PlacesFollowPriority /\ Fits(t, p, lane, prio)
              => PlacesFollowPriority'
<1>1. \A x \in Tasks : task[x].pos \in Nat /\ task[x].prio \in Nat
  BY DEF Row
<1>2. OnlyWaitingIsPlaced => OnlyWaitingIsPlaced'
  BY <1>1 DEF EntersAt, OnlyWaitingIsPlaced, PendingStatuses, NotPlaced
<1>3. NoPlaceIsShared => NoPlaceIsShared'
  BY <1>1 DEF EntersAt, NoPlaceIsShared, NotPlaced
<1>4. ASSUME OnlyWaitingIsPlaced, PlacesFollowPriority, Fits(t, p, lane, prio)
      PROVE  PlacesFollowPriority'
  <2> SUFFICES ASSUME NEW x \in Tasks, NEW y \in Tasks,
                      task'[x].status \in PendingStatuses, task'[y].status \in PendingStatuses,
                      task'[x].kind = task'[y].kind,
                      task'[x].pos # NotPlaced, task'[y].pos # NotPlaced,
                      task'[x].prio < task'[y].prio
                        \/ (task'[x].prio = task'[y].prio /\ x < y)
               PROVE  task'[x].pos < task'[y].pos
    BY DEF PlacesFollowPriority, Pending
  <2>1. x \in Nat /\ y \in Nat /\ t \in Nat
    BY SizesAssumption DEF Tasks
  <2>2. CASE x # t /\ y # t
    <3>1. task[x].pos # NotPlaced /\ task[y].pos # NotPlaced
      BY <1>1, <2>2 DEF EntersAt, NotPlaced
    <3>2. task[x].pos < task[y].pos
      BY <2>2, <3>1, <1>4 DEF EntersAt, PlacesFollowPriority, Pending
    <3> QED BY <1>1, <2>2, <3>2 DEF EntersAt
  <2>3. CASE x = t /\ y # t
    <3>1. y \in MustFollow(t, lane, prio)
      BY <1>1, <2>1, <2>3 DEF EntersAt, MustFollow, Pending, NotPlaced
    <3>2. p <= task[y].pos
      BY <1>4, <3>1 DEF Fits
    <3> QED BY <1>1, <2>3, <3>2 DEF EntersAt
  <2>4. CASE x # t /\ y = t
    <3>1. /\ task[x].kind = lane /\ task[x].status \in PendingStatuses
          /\ task[x].pos # NotPlaced
          /\ task[x].prio < prio \/ (task[x].prio = prio /\ x < t)
      BY <1>1, <2>4 DEF EntersAt, NotPlaced
    <3>2. task[x].pos < p
      <4>1. CASE \A z \in Tasks : task[z].pos < p
        BY <4>1
      <4>2. ASSUME NEW z \in MustFollow(t, lane, prio), task[z].pos = p
            PROVE  task[x].pos < p
        <5>1. /\ z \in Tasks /\ task[z].kind = lane /\ task[z].status \in PendingStatuses
              /\ task[z].pos # NotPlaced
              /\ task[z].prio > prio \/ (task[z].prio = prio /\ z > t)
          BY <4>2 DEF MustFollow, Pending
        <5>2. z \in Nat
          BY <5>1, SizesAssumption DEF Tasks
        <5>3. task[x].prio < task[z].prio \/ (task[x].prio = task[z].prio /\ x < z)
          BY <1>1, <2>1, <3>1, <5>1, <5>2
        <5> QED BY <1>4, <3>1, <4>2, <5>1, <5>3 DEF PlacesFollowPriority, Pending
      <4> QED BY <1>4, <4>1, <4>2 DEF Fits
    <3> QED BY <1>1, <2>4, <3>2 DEF EntersAt
  <2>5. CASE x = t /\ y = t
    BY <1>1, <2>1, <2>5 DEF EntersAt
  <2> QED BY <2>2, <2>3, <2>4, <2>5
<1> QED BY <1>2, <1>3, <1>4

\* Entering the queue is such a step.
LEMMA EnqueueEnters ==
  ASSUME task \in [Tasks -> Row], NEW t \in Tasks, NEW lane, NEW row \in Row,
         Enqueue(t, lane, row), row.status = "queued"
  PROVE  \E p : EntersAt(t, p, row.kind, row.prio) /\ Fits(t, p, lane, row.prio)
<1> DEFINE p == EntryPosition(t, lane, row.prio)
<1>1. p \in Nat \ {NotPlaced} /\ Fits(t, p, lane, row.prio)
  BY EntryPositionFits DEF Fits
<1>2. /\ task'[t] = [row EXCEPT !.pos = p]
      /\ \A x \in Tasks \ {t} :
           task'[x] = IF task[x].pos >= p THEN [task[x] EXCEPT !.pos = @ + 1] ELSE task[x]
  BY DEF Enqueue
<1> HIDE DEF p
<1>3. LET m == [row EXCEPT !.pos = p]
      IN  m.pos = p /\ m.status = row.status /\ m.kind = row.kind /\ m.prio = row.prio
  BY <1>1 DEF Row
<1>4. \A r \in Row : LET m == [r EXCEPT !.pos = @ + 1]
                     IN  /\ m.pos = r.pos + 1 /\ m.status = r.status
                         /\ m.kind = r.kind /\ m.prio = r.prio
  BY DEF Row
<1>5. ASSUME NEW x \in Tasks \ {t}
      PROVE  /\ task'[x].pos = IF task[x].pos >= p THEN task[x].pos + 1 ELSE task[x].pos
             /\ task'[x].status = task[x].status
             /\ task'[x].kind = task[x].kind /\ task'[x].prio = task[x].prio
  BY <1>2, <1>4
<1>6. EntersAt(t, p, row.kind, row.prio)
  BY <1>1, <1>2, <1>3, <1>5 DEF EntersAt
<1> QED BY <1>1, <1>6

----------------------------------------------------------------------------
(* What the transactions of a coroutine do to the places.                  *)

\* The row over another: its status is s, it keeps its place or loses it.
Over(new, old, s) ==
  /\ new.status = s /\ new.pos \in {old.pos, NotPlaced}
  /\ new.kind = old.kind /\ new.strategy = old.strategy /\ new.prio = old.prio

\* Only the row of t is written, with status s.
WritesOver(t, s) ==
  Over(task'[t], task[t], s) /\ \A x \in Tasks \ {t} : task'[x] = task[x]

\* An UPDATE is such a step.
LEMMA UpdateWritesOver ==
  ASSUME task \in [Tasks -> Row], NEW t \in Tasks, NEW row, NEW s, Update(t, row),
         Over(row, task[t], s)
  PROVE  WritesOver(t, s)
BY DEF Update, WritesOver

\* So is every transaction that does not enqueue.
LEMMA StatusWritesOver ==
  ASSUME task \in [Tasks -> Row], NEW t \in Tasks, NEW s \in Statuses
  PROVE  /\ SetStatus(t, s) => WritesOver(t, s)
         /\ Update(t, [task[t] EXCEPT !.status = s]) => WritesOver(t, s)
         /\ Update(t, [Completed(task[t]) EXCEPT !.status = s, !.pos = NotPlaced])
              => WritesOver(t, s)
<1> DEFINE old == task[t]
           done == Completed(old)
<1>1. old \in Row
  OBVIOUS
<1> HIDE DEF old
<1>2. Over([old EXCEPT !.status = s, !.pos = NotPlaced], old, s)
  BY <1>1 DEF Over, Row
<1>3. Over([old EXCEPT !.status = s], old, s)
  BY <1>1 DEF Over, Row
<1>4. /\ done \in Row /\ done.kind = old.kind /\ done.strategy = old.strategy
      /\ done.prio = old.prio
  <2>1. done \in Row
    BY <1>1, InvocationsTyped
  <2>2. done.kind = old.kind /\ done.strategy = old.strategy /\ done.prio = old.prio
    BY <1>1 DEF Completed, Row
  <2> QED BY <2>1, <2>2
<1> HIDE DEF done
<1>5. Over([done EXCEPT !.status = s, !.pos = NotPlaced], old, s)
  BY <1>4 DEF Over, Row
<1> QED BY <1>2, <1>3, <1>5, UpdateWritesOver DEF SetStatus, done, old

LEMMA WaitWritesOver ==
  ASSUME task \in [Tasks -> Row], NEW t \in Tasks
  PROVE  /\ ClearDependencyWait(t) => WritesOver(t, task[t].status)
         /\ DeferForDependencies(t) => WritesOver(t, "waiting_for_dependencies")
         /\ DeferForMemory(t) => WritesOver(t, "waiting_for_memory")
         /\ ScheduleOutageRetry(t) => WritesOver(t, "queued")
<1> DEFINE old == task[t]
           since == IF old.since = NoTimer THEN 0 ELSE old.since
           n == old.deferrals + 1
           r == IF n >= ReserveAfter /\ old.reserve = NoTimer THEN ReserveWindow
                                                              ELSE old.reserve
           a == old.attempt + 1
           w == OutageWait * a
           clear == [old EXCEPT !.wait = 0, !.since = NoTimer]
           defer == [old EXCEPT !.status = "waiting_for_dependencies",
                                !.wait = DependencyWait, !.since = since]
           short == [old EXCEPT !.status = "waiting_for_memory", !.wait = MemoryWait,
                                !.deferrals = n, !.reserve = r]
           retry == [old EXCEPT !.status = "queued", !.attempt = a, !.wait = w]
<1>1. /\ old \in Row
      /\ ClearDependencyWait(t) => Update(t, clear)
      /\ DeferForDependencies(t) => Update(t, defer)
      /\ DeferForMemory(t) => Update(t, short)
      /\ ScheduleOutageRetry(t) => Update(t, retry)
  BY DEF ClearDependencyWait, DeferForDependencies, DeferForMemory, ScheduleOutageRetry
<1> HIDE DEF old, since, n, r, a, w
<1>2. /\ Over(clear, old, old.status)
      /\ Over(defer, old, "waiting_for_dependencies")
      /\ Over(short, old, "waiting_for_memory")
      /\ Over(retry, old, "queued")
  BY <1>1 DEF Over, Row
<1> HIDE DEF clear, defer, short, retry
<1> QED BY <1>1, <1>2, UpdateWritesOver DEF old

LEMMA InvocationWritesOver ==
  ASSUME task \in [Tasks -> Row], NEW t \in Tasks
  PROVE  /\ \A d \in {"local", "remote"} :
              StartInvocation(t, d) => WritesOver(t, task[t].status)
         /\ CompleteInvocation(t) \/ FailInvocation(t) => WritesOver(t, task[t].status)
         /\ LET row == Abandoned(task[t])
            IN  Update(t, IF row.status \in TerminalStatuses THEN Rested(row) ELSE row)
                  => WritesOver(t, task[t].status)
<1> DEFINE old == task[t]
           closed == Abandoned(old)
           rested == Rested(closed)
<1>1. old \in Row
  OBVIOUS
<1> HIDE DEF old
<1>2. \A d \in {"none", "local", "remote"} : Over([old EXCEPT !.open = d], old, old.status)
  BY <1>1 DEF Over, Row
<1>3. Over(Completed(old), old, old.status)
  BY <1>1 DEF Over, Completed, Row
<1>4. closed \in Row /\ Over(closed, old, old.status)
  <2>1. closed \in Row
    BY <1>1, InvocationsTyped
  <2>2. Over(closed, old, old.status)
    BY <1>1 DEF Over, Abandoned, Row
  <2> QED BY <2>1, <2>2
<1> HIDE DEF closed
<1>5. Over(rested, closed, closed.status)
  BY <1>4 DEF Over, Rested, Row
<1> HIDE DEF rested
<1>6. Over(rested, old, old.status)
  BY <1>4, <1>5 DEF Over
<1>7. \A row : Update(t, row) /\ Over(row, old, old.status) => WritesOver(t, old.status)
  BY UpdateWritesOver DEF old
<1>8. Update(t, IF closed.status \in TerminalStatuses THEN rested ELSE closed)
        => WritesOver(t, old.status)
  BY <1>4, <1>6, <1>7
<1> QED BY <1>2, <1>3, <1>7, <1>8
        DEF StartInvocation, CompleteInvocation, FailInvocation, closed, rested, old

----------------------------------------------------------------------------
(* Every step.                                                             *)

\* A loop runs in the inference lane only: that is where places of loops belong.
LoopsAreLocal ==
  \A t \in Tasks : /\ task[t].kind # "inference" => task[t].strategy = "single"
                   /\ task[t].status = "waiting_for_tools" => task[t].strategy # "single"

\* What a step may do to the places.
PlaceStep ==
  \/ Thins
  \/ \E t \in Tasks, lane \in Lanes, prio \in Nat : \E p :
       EntersAt(t, p, lane, prio) /\ (LoopsAreLocal => Fits(t, p, lane, prio))
  \/ Reorder
  \/ Start

\* The transactions of a coroutine, and where it makes them.
LEMMA CoroutineWrites ==
  ASSUME task \in [Tasks -> Row], NEW t \in Tasks,
         Prepare(t) \/ Infer(t) \/ Conclude(t) \/ Disturb(t)
  PROVE  \/ UNCHANGED task
         \/ \E s \in Statuses :
              /\ WritesOver(t, s)
              /\ s = "waiting_for_tools" => s = task[t].status \/ At(t, "savePause")
              /\ s = "routing" => s = task[t].status
              /\ job[t].at \in Settled => s = task[t].status \/ task'[t].pos = NotPlaced
         \/ At(t, "saveYield") /\ YieldTurn(t)
         \/ At(t, "settle") /\ DemoteToInference(t)
<1> DEFINE Written(s) ==
             /\ WritesOver(t, s)
             /\ s = "waiting_for_tools" => s = task[t].status \/ At(t, "savePause")
             /\ s = "routing" => s = task[t].status
             /\ job[t].at \in Settled => s = task[t].status \/ task'[t].pos = NotPlaced
           Goal == \/ UNCHANGED task
                   \/ \E s \in Statuses : Written(s)
                   \/ At(t, "saveYield") /\ YieldTurn(t)
                   \/ At(t, "settle") /\ DemoteToInference(t)
<1> SUFFICES Goal
  OBVIOUS
<1>1. task[t].status \in Statuses
  BY DEF Row
<1>2. \A s \in Statuses \ {"waiting_for_tools", "routing"} : SetStatus(t, s) => Written(s)
  <2>1. ASSUME NEW s \in Statuses \ {"waiting_for_tools", "routing"}, SetStatus(t, s)
        PROVE  WritesOver(t, s) /\ task'[t].pos = NotPlaced
    <3>1. WritesOver(t, s)
      BY <2>1, StatusWritesOver
    <3>2. task'[t].pos = NotPlaced
      <4> DEFINE old == task[t]
                 row == [old EXCEPT !.status = s, !.pos = NotPlaced]
      <4>1. old \in Row /\ task'[t] = row
        BY <2>1 DEF SetStatus, Update
      <4> HIDE DEF old
      <4>2. row.pos = NotPlaced
        BY <4>1 DEF Row
      <4> HIDE DEF row
      <4> QED BY <4>1, <4>2
    <3> QED BY <3>1, <3>2
  <2> QED BY <2>1
<1>3. \A s \in Statuses \ {"waiting_for_tools", "routing"} :
        WritesOver(t, s) /\ job[t].at \notin Settled => Written(s)
  OBVIOUS
<1>4. WritesOver(t, task[t].status) => Written(task[t].status)
  OBVIOUS
<1>5. /\ {"failed", "cancelled", "completed", "generating", "queued", "waiting_for_memory",
          "waiting_for_dependencies"} \subseteq Statuses \ {"waiting_for_tools", "routing"}
      /\ "waiting_for_tools" \in Statuses
  BY DEF Statuses, ActiveStatuses, PendingStatuses, TerminalStatuses
<1> HIDE DEF Written
<1>6. /\ UNCHANGED task => Goal
      /\ \A s \in Statuses : Written(s) => Goal
      /\ At(t, "saveYield") /\ YieldTurn(t) => Goal
      /\ At(t, "settle") /\ DemoteToInference(t) => Goal
  OBVIOUS
<1>7. \A s \in Statuses \ {"waiting_for_tools", "routing"} : SetStatus(t, s) => Goal
  BY <1>2, <1>6
<1>8. \A s \in Statuses \ {"waiting_for_tools", "routing"} :
        WritesOver(t, s) /\ job[t].at \notin Settled => Goal
  BY <1>3, <1>6
<1>9. WritesOver(t, task[t].status) => Goal
  BY <1>1, <1>4, <1>6
<1>10. Written("waiting_for_tools") => Goal
  BY <1>5, <1>6
<1> HIDE DEF Goal
<1>11. CASE Prepare(t)
  <2>1. \/ UNCHANGED task \/ ClearDependencyWait(t)
        \/ At(t, "defer") /\ DeferForDependencies(t)
        \/ \E s \in {"failed", "cancelled", "generating"} : SetStatus(t, s)
    BY <1>11 DEF Prepare, AwaitDependencies, DeferTask, AttachmentsFail, EntryCheck,
         RejectRequest, SelectionFails, BeginWork
  <2>2. At(t, "defer") => job[t].at \notin Settled
    BY DEF At, Settled
  <2>3. ClearDependencyWait(t) => Goal
    BY <1>9, WaitWritesOver
  <2>4. At(t, "defer") /\ DeferForDependencies(t) => Goal
    BY <1>5, <1>8, <2>2, WaitWritesOver
  <2>5. \A s \in {"failed", "cancelled", "generating"} : SetStatus(t, s) => Goal
    BY <1>5, <1>7
  <2> QED BY <1>6, <2>1, <2>3, <2>4, <2>5
<1>12. CASE Infer(t)
  <2>1. \/ UNCHANGED task
        \/ \E d \in {"local", "remote"} : StartInvocation(t, d)
        \/ CompleteInvocation(t) \/ FailInvocation(t)
        \/ \E s \in {"failed", "cancelled"} : SetStatus(t, s)
        \/ At(t, "turn") /\ Update(t, [task[t] EXCEPT !.status = "generating"])
    BY <1>12, BrokerAssumption DEF Infer, RoundCheck, StartCall, CallReturns, CallFails,
         CallCancelled, FinalAnswer, AsksClient, NextRound, LosesQuorum
  <2>2. At(t, "turn") => job[t].at \notin Settled
    BY DEF At, Settled
  <2>3. /\ \A d \in {"local", "remote"} : StartInvocation(t, d) => Goal
        /\ CompleteInvocation(t) \/ FailInvocation(t) => Goal
    BY <1>9, InvocationWritesOver
  <2>4. \A s \in {"failed", "cancelled"} : SetStatus(t, s) => Goal
    BY <1>5, <1>7
  <2>5. At(t, "turn") /\ Update(t, [task[t] EXCEPT !.status = "generating"]) => Goal
    BY <1>5, <1>8, <2>2, StatusWritesOver
  <2> QED BY <1>6, <2>1, <2>3, <2>4, <2>5
<1>13. CASE Conclude(t)
  <2> DEFINE Saves(s) ==
               /\ job[t].at \in {"output", "saveSingle"}
               /\ Update(t, [Completed(task[t]) EXCEPT !.status = s, !.pos = NotPlaced])
             Closes ==
               LET row == Abandoned(task[t])
               IN  Update(t, IF row.status \in TerminalStatuses THEN Rested(row) ELSE row)
  <2>1. \/ UNCHANGED task
        \/ \E s \in {"failed", "cancelled", "completed"} : SetStatus(t, s)
        \/ \E s \in {"cancelled", "completed"} : Saves(s)
        \/ At(t, "savePause") /\ SetStatus(t, "waiting_for_tools")
        \/ At(t, "settle") /\ (DeferForMemory(t) \/ ScheduleOutageRetry(t))
        \/ Closes
        \/ At(t, "saveYield") /\ YieldTurn(t)
        \/ At(t, "settle") /\ DemoteToInference(t)
    BY <1>13 DEF Conclude, OutputCheck, SaveSingle, CompleteSingle, AfterLoop, SaveFinish,
         SavePause, PauseForTools, SaveYield, ErrorCheck, SettleError, Finally, HandlerReads,
         HandlerSavesFailed, At
  <2>2. /\ At(t, "savePause") \/ At(t, "settle") \/ job[t].at \in {"output", "saveSingle"}
             => job[t].at \notin Settled
    BY DEF At, Settled
  <2>3. At(t, "savePause") /\ SetStatus(t, "waiting_for_tools") => Written("waiting_for_tools")
    BY <1>5, <2>2, StatusWritesOver DEF Written
  <2>4. \A s \in {"failed", "cancelled", "completed"} : SetStatus(t, s) => Goal
    BY <1>5, <1>7
  <2>5. \A s \in {"cancelled", "completed"} : Saves(s) => Goal
    BY <1>5, <1>8, <2>2, StatusWritesOver
  <2>6. At(t, "settle") /\ (DeferForMemory(t) \/ ScheduleOutageRetry(t)) => Goal
    BY <1>5, <1>8, <2>2, WaitWritesOver
  <2>7. Closes => Goal
    BY <1>9, InvocationWritesOver
  <2>8. At(t, "savePause") /\ SetStatus(t, "waiting_for_tools") => Goal
    BY <1>10, <2>3
  <2> HIDE DEF Saves, Closes
  <2> QED BY <1>6, <2>1, <2>4, <2>5, <2>6, <2>7, <2>8
<1>14. CASE Disturb(t)
  BY <1>14, <1>6 DEF Disturb, TimesOut, InternalError, LaneJobCancelled
<1> QED BY <1>11, <1>12, <1>13, <1>14

\* While it owns its row a coroutine has no place to lose.
LEMMA CoroutinePlaces ==
  ASSUME IInv, InvocationsAreKnown, OnlyWaitingIsPlaced, NEW t \in Tasks,
         Prepare(t) \/ Infer(t) \/ Conclude(t) \/ Disturb(t)
  PROVE  PlaceStep
<1>1. /\ task \in [Tasks -> Row] /\ Sound(t)
      /\ job[t].at \notin Settled => task[t].status \in ActiveStatuses \cup {"cancelled"}
  BY WhereItIs DEF IInv
<1>2. job[t].at \notin Settled => task[t].pos = NotPlaced
  BY <1>1 DEF OnlyWaitingIsPlaced, PendingStatuses, ActiveStatuses
<1>3. CASE UNCHANGED task
  BY <1>3 DEF PlaceStep, Thins
<1>4. ASSUME NEW s \in Statuses, WritesOver(t, s),
             job[t].at \in Settled => s = task[t].status \/ task'[t].pos = NotPlaced
      PROVE  PlaceStep
  <2>1. Thins
    BY <1>2, <1>4 DEF WritesOver, Over, Thins
  <2> QED BY <2>1 DEF PlaceStep
<1>5. CASE At(t, "saveYield") /\ YieldTurn(t)
  <2> DEFINE old == task[t]
             row == [old EXCEPT !.status = "queued"]
  <2>1. old \in Row /\ Enqueue(t, "inference", row)
    BY <1>1, <1>5 DEF YieldTurn
  <2> HIDE DEF old
  <2>2. /\ row \in Row /\ row.status = "queued" /\ row.kind = old.kind /\ row.prio = old.prio
        /\ old.kind \in Lanes /\ old.prio \in Nat
    BY <2>1, StatusNames DEF Row
  <2> HIDE DEF row
  <2>3. PICK p : EntersAt(t, p, old.kind, old.prio) /\ Fits(t, p, "inference", old.prio)
    BY <1>1, <2>1, <2>2, EnqueueEnters
  <2>4. LoopsAreLocal => old.kind = "inference"
    BY <1>1, <1>5 DEF At, Sound, SavesItsOwn, LoopPlaces, IsLoop, LoopsAreLocal, old
  <2> QED BY <2>2, <2>3, <2>4 DEF PlaceStep
<1>6. CASE At(t, "settle") /\ DemoteToInference(t)
  <2> DEFINE old == task[t]
             row == [old EXCEPT !.kind = "inference", !.status = "queued", !.wait = 0]
  <2>1. old \in Row /\ Enqueue(t, "inference", row)
    BY <1>1, <1>6 DEF DemoteToInference
  <2> HIDE DEF old
  <2>2. /\ row \in Row /\ row.status = "queued" /\ row.kind = "inference"
        /\ row.prio \in Nat /\ "inference" \in Lanes
    BY <2>1, StatusNames DEF Row, Lanes
  <2> HIDE DEF row
  <2>3. \E p : EntersAt(t, p, "inference", row.prio) /\ Fits(t, p, "inference", row.prio)
    BY <1>1, <2>1, <2>2, EnqueueEnters
  <2> QED BY <2>2, <2>3 DEF PlaceStep
<1> QED BY <1>1, <1>3, <1>4, <1>5, <1>6, CoroutineWrites

\* What the sweep, a claim and the clock leave of a row.
LEMMA TimersKeepPlaces ==
  ASSUME NEW row \in Row
  PROVE  /\ \A r \in {Swept(row), Aged(row)} :
              /\ r.pos = row.pos /\ r.status = row.status
              /\ r.kind = row.kind /\ r.prio = row.prio
         /\ Claimed(row).pos = NotPlaced /\ Claimed(Swept(row)).pos = NotPlaced
<1>1. LET m == [row EXCEPT !.reserve = NoTimer, !.deferrals = 0]
      IN  m.pos = row.pos /\ m.status = row.status /\ m.kind = row.kind /\ m.prio = row.prio
  BY DEF Row
<1>2. \A r \in Row : Claimed(r).pos = NotPlaced
  BY DEF Claimed, Row
<1>3. /\ Aged(row).pos = row.pos /\ Aged(row).status = row.status
      /\ Aged(row).kind = row.kind /\ Aged(row).prio = row.prio
  BY DEF Aged, Row
<1>4. Swept(row) \in Row
  BY SweptTyped
<1> QED BY <1>1, <1>2, <1>3, <1>4 DEF Swept

\* Clients, the clock and the claims.
LEMMA OutsidePlaces ==
  ASSUME task \in [Tasks -> Row],
         \/ \E t \in Tasks : Client(t) \/ Dispatch(t)
         \/ CancelAllPending \/ Reorder \/ DispatchNothing \/ Tick
  PROVE  PlaceStep
<1>1. ASSUME NEW t \in Tasks, Create(t) PROVE PlaceStep
  <2>1. PICK req \in Requests : CreateTask(t, req)
    BY <1>1 DEF Create
  <2> DEFINE row == [NoRow EXCEPT !.status = "queued", !.kind = req.kind,
                             !.strategy = req.strategy, !.explicit = req.explicit,
                             !.prio = req.prio, !.deps = req.deps]
  <2>2. row \in Row /\ req.kind \in Lanes /\ req.prio \in Nat
    BY NoRowTyped, StatusNames, SizesAssumption DEF Row, Request
  <2>3. row.status = "queued" /\ row.kind = req.kind /\ row.prio = req.prio
    BY DEF NoRow
  <2>4. Enqueue(t, req.kind, row)
    BY <2>1 DEF CreateTask
  <2> HIDE DEF row
  <2>5. \E p : EntersAt(t, p, req.kind, req.prio) /\ Fits(t, p, req.kind, req.prio)
    BY <2>2, <2>3, <2>4, EnqueueEnters
  <2> QED BY <2>2, <2>5 DEF PlaceStep
<1>2. ASSUME NEW t \in Tasks, ToolResults(t) PROVE PlaceStep
  <2> DEFINE old == task[t]
             row == [old EXCEPT !.status = "queued"]
  <2>1. old \in Row /\ Enqueue(t, "inference", row) /\ old.status = "waiting_for_tools"
    BY <1>2 DEF ToolResults, ResumeWithToolResults
  <2>2. LoopsAreLocal => old.kind = "inference"
    BY <2>1 DEF LoopsAreLocal
  <2> HIDE DEF old
  <2>3. /\ row \in Row /\ row.status = "queued" /\ row.kind = old.kind /\ row.prio = old.prio
        /\ old.kind \in Lanes /\ old.prio \in Nat
    BY <2>1, StatusNames DEF Row
  <2> HIDE DEF row
  <2>4. PICK p : EntersAt(t, p, old.kind, old.prio) /\ Fits(t, p, "inference", old.prio)
    BY <2>1, <2>3, EnqueueEnters
  <2> QED BY <2>2, <2>3, <2>4 DEF PlaceStep
<1>3. ASSUME NEW asked, RequestCancel(asked) PROVE Thins
  <2>1. \A row \in Row :
          LET m == [row EXCEPT !.status = "cancelled", !.cancelReq = TRUE, !.pos = NotPlaced]
          IN  m.pos = NotPlaced
    BY DEF Row
  <2>2. \A x \in Tasks :
          \/ task'[x] = task[x]
          \/ task'[x] = [task[x] EXCEPT !.status = "cancelled", !.cancelReq = TRUE,
                                        !.pos = NotPlaced]
    BY <1>3 DEF RequestCancel
  <2>3. ASSUME NEW x \in Tasks, task'[x] # task[x] PROVE task'[x].pos = NotPlaced
    BY <2>1, <2>2, <2>3
  <2> QED BY <2>3 DEF Thins
<1>4. ASSUME NEW t \in Tasks, Dispatch(t) PROVE Thins
  <2>1. \A x \in Tasks : task'[x] \in {task[x], Swept(task[x]), Claimed(Swept(task[x])),
                                       Claimed(task[x])}
    BY <1>4 DEF Dispatch, DispatchInference, DispatchLane, ManualTick, ClaimInference,
                ClaimInLane, Update
  <2> QED BY <2>1, TimersKeepPlaces DEF Thins
<1>5. CASE DispatchNothing \/ Tick
  <2>1. \A x \in Tasks : task'[x] \in {Swept(task[x]), Aged(task[x])}
    BY <1>5 DEF DispatchNothing, SweepReservations, Tick, TimePasses
  <2>2. Thins
    BY <2>1, TimersKeepPlaces DEF Thins
  <2> QED BY <2>2 DEF PlaceStep
<1>6. CASE Reorder
  BY <1>6 DEF PlaceStep
<1>7. \A t \in Tasks : Cancel(t) => Thins
  BY <1>3 DEF Cancel
<1>8. CancelAllPending => Thins
  BY <1>3 DEF CancelAllPending
<1>9. Thins => PlaceStep
  BY DEF PlaceStep
<1> QED BY <1>1, <1>2, <1>4, <1>5, <1>6, <1>7, <1>8, <1>9 DEF Client

\* Every step is one of the four.
LEMMA StepPlaces ==
  ASSUME IInv, InvocationsAreKnown, OnlyWaitingIsPlaced, [Next]_vars
  PROVE  PlaceStep
<1>1. task \in [Tasks -> Row]
  BY DEF IInv, TypeOK
<1>2. UNCHANGED task => PlaceStep
  BY DEF PlaceStep, Thins
<1>3. UNCHANGED vars \/ Stop \/ Stopped \/ Crash => UNCHANGED task
  BY DEF vars, Stop, Stopped, Crash
<1>4. Start => PlaceStep
  BY DEF PlaceStep
<1>5. \A t \in Tasks : Prepare(t) \/ Infer(t) \/ Conclude(t) \/ Disturb(t) => PlaceStep
  BY CoroutinePlaces
<1>6. (\E t \in Tasks : Client(t) \/ Dispatch(t)) \/ CancelAllPending \/ Reorder
        \/ DispatchNothing \/ Tick => PlaceStep
  BY <1>1, OutsidePlaces
<1> QED BY <1>2, <1>3, <1>4, <1>5, <1>6 DEF Next, Lifespan

----------------------------------------------------------------------------
(* No two tasks share a place.                                             *)

\* Nothing gives a budget back.
LEMMA BudgetsShrink ==
  ASSUME left \in [Bounded -> Nat], [Next]_vars
  PROVE  \A what \in Bounded : left'[what] \in Int /\ left'[what] <= left[what]
<1>1. ASSUME NEW what \in Bounded, Spend(what)
      PROVE  \A w \in Bounded : left'[w] \in Int /\ left'[w] <= left[w]
  BY <1>1 DEF Spend, Bounded
<1>2. left' = left \/ \E what \in Bounded : Spend(what)
  <2> DEFINE Goal == left' = left \/ \E what \in Bounded : Spend(what)
  <2>1. \A what \in {"round", "fault", "timeout", "bug", "crash", "stop", "reorder",
                     "cancel", "tick"} : Spend(what) => Goal
    BY DEF Bounded
  <2>2. left' = left => Goal
    OBVIOUS
  <2> HIDE DEF Goal
  <2>3. ASSUME NEW t \in Tasks, Client(t) \/ Dispatch(t) PROVE Goal
    BY <2>1, <2>2, <2>3 DEF Client, Create, Cancel, ToolResults, Dispatch,
       DispatchInference, DispatchLane, ManualTick
  <2>4. ASSUME NEW t \in Tasks, Prepare(t) PROVE Goal
    BY <2>1, <2>2, <2>4 DEF Prepare, AwaitDependencies, DeferTask, AttachmentsFail,
       EntryCheck, RejectRequest, SelectionFails, BeginWork
  <2>5. ASSUME NEW t \in Tasks, Infer(t) PROVE Goal
    BY <2>1, <2>2, <2>5 DEF Infer, RoundCheck, StartCall, CallReturns, CallFails,
       CallCancelled, FinalAnswer, AsksClient, NextRound, LosesQuorum
  <2>6. ASSUME NEW t \in Tasks, Conclude(t) PROVE Goal
    BY <2>1, <2>2, <2>6 DEF Conclude, OutputCheck, SaveSingle, AfterLoop, SaveFinish,
       SavePause, SaveYield, ErrorCheck, SettleError, Finally, HandlerReads,
       HandlerSavesFailed
  <2>7. ASSUME NEW t \in Tasks, Disturb(t) PROVE Goal
    BY <2>1, <2>2, <2>7 DEF Disturb, TimesOut, InternalError, LaneJobCancelled
  <2>8. ASSUME CancelAllPending \/ Reorder \/ DispatchNothing PROVE Goal
    BY <2>1, <2>2, <2>8 DEF CancelAllPending, Reorder, DispatchNothing
  <2>9. ASSUME Lifespan PROVE Goal
    BY <2>1, <2>2, <2>9 DEF Lifespan, Stop, Stopped, Crash, Start, Tick
  <2>10. ASSUME UNCHANGED vars PROVE Goal
    BY <2>2, <2>10 DEF vars
  <2> QED BY <2>3, <2>4, <2>5, <2>6, <2>7, <2>8, <2>9, <2>10 DEF Next, Goal
<1> QED BY <1>1, <1>2

\* The process leaves "up" by being stopped or by dying.
LEMMA LeavingUp ==
  ASSUME IInv, left \in [Bounded -> Nat], [Next]_vars, phase = "up", phase' # "up"
  PROVE  \E what \in {"crash", "stop"} : left'[what] < left[what]
<1>1. Stop => left'["stop"] < left["stop"]
  BY DEF Stop, Spend, Bounded
<1>2. Crash => left'["crash"] < left["crash"]
  BY DEF Crash, Spend, Bounded
<1>3. Stop \/ Crash
  <2>1. \A t \in Tasks : Client(t) \/ Dispatch(t) => phase' = phase
    BY DEF Client, Create, Cancel, ToolResults, Dispatch, DispatchInference, DispatchLane,
           ManualTick
  <2>2. \A t \in Tasks : Prepare(t) \/ Infer(t) \/ Conclude(t) \/ Disturb(t)
                           => phase' = phase
    BY PrepareSound, InferSound, ConcludeSound, DisturbSound DEF OnlyConcerns
  <2> QED BY <2>1, <2>2 DEF Next, Lifespan, CancelAllPending, Reorder, DispatchNothing,
             Stopped, Start, Tick, vars
<1> QED BY <1>1, <1>2, <1>3

PlacesAreKept ==
  /\ \A what \in Bounded : left[what] <= Budget[what]
  /\ phase # "up" => ~NeverRestarted
  /\ OnlyWaitingIsPlaced
  /\ NeverRestarted => NoPlaceIsShared

\* The new places of a reorder are distinct and belong to what waits.
LEMMA ReorderKeeps ==
  ASSUME task \in [Tasks -> Row], OnlyWaitingIsPlaced, Reorder
  PROVE  OnlyWaitingIsPlaced' /\ NoPlaceIsShared'
<1>1. PICK place \in Numberings(Pending) : ReorderQueue(place)
  BY DEF Reorder
<1>2. /\ place \in [Pending -> Nat]
      /\ \A x, y \in Pending : place[x] = place[y] => x = y
  BY <1>1 DEF Numberings
<1>3. \A row \in Row : \A p \in Nat :
        LET m == [row EXCEPT !.pos = p] IN m.pos = p /\ m.status = row.status
  BY DEF Row
<1>4. ASSUME NEW x \in Tasks
      PROVE  /\ task'[x].status = task[x].status
             /\ x \in Pending => task'[x].pos = place[x]
             /\ x \notin Pending => task'[x].pos = task[x].pos
  BY <1>1, <1>2, <1>3 DEF ReorderQueue
<1>5. OnlyWaitingIsPlaced'
  BY <1>4 DEF OnlyWaitingIsPlaced, Pending
<1>6. NoPlaceIsShared'
  BY <1>2, <1>4 DEF OnlyWaitingIsPlaced, NoPlaceIsShared, Pending
<1> QED BY <1>5, <1>6

\* What the recovery returns waits; what it fails has no place.
LEMMA StartKeeps ==
  ASSUME task \in [Tasks -> Row], OnlyWaitingIsPlaced, Start
  PROVE  OnlyWaitingIsPlaced'
<1>1. PICK place \in Numberings(Requeueable) : RecoverInterrupted(place)
  BY DEF Start
<1>2. SUFFICES ASSUME NEW x \in Tasks, task'[x].pos # NotPlaced
               PROVE  task'[x].status \in PendingStatuses
  BY DEF OnlyWaitingIsPlaced
<1>3. CASE x \notin Interrupted
  BY <1>1, <1>2, <1>3 DEF RecoverInterrupted, OnlyWaitingIsPlaced
<1>4. CASE x \in Interrupted
  <2> DEFINE row == Abandoned(task[x])
             n == row.attempt + 1
             p == IF row.pos = NotPlaced THEN place[x] ELSE row.pos
             failed == [row EXCEPT !.status = "failed", !.pos = NotPlaced]
             spent == [row EXCEPT !.status = "failed", !.pos = NotPlaced, !.attempt = n]
             queued == [row EXCEPT !.status = "queued", !.attempt = n, !.pos = p]
  <2>1. row \in Row /\ task'[x] \in {failed, spent, queued}
    BY <1>1, <1>4, InvocationsTyped DEF RecoverInterrupted, Recovered
  <2> HIDE DEF row, n, p
  <2>2. failed.pos = NotPlaced /\ spent.pos = NotPlaced /\ queued.status = "queued"
    BY <2>1 DEF Row
  <2> HIDE DEF failed, spent, queued
  <2> QED BY <1>2, <2>1, <2>2 DEF PendingStatuses
<1> QED BY <1>3, <1>4

LEMMA StepKeepsPlaces ==
  ASSUME IInv, InvocationsAreKnown, PlacesAreKept, [Next]_vars
  PROVE  PlacesAreKept' /\ (NeverRestarted' => NeverRestarted /\ ~Start)
<1>1. task \in [Tasks -> Row] /\ left \in [Bounded -> Nat] /\ Budget \in [Bounded -> Nat]
  BY BrokerAssumption DEF IInv, TypeOK
<1>2. \A what \in Bounded : /\ left'[what] \in Int /\ left'[what] <= left[what]
                            /\ left[what] <= Budget[what]
  BY <1>1, BudgetsShrink DEF PlacesAreKept
<1>3. \A what \in Bounded : left'[what] <= Budget[what]
  BY <1>1, <1>2
<1>4. NeverRestarted' => NeverRestarted
  BY <1>1, <1>2 DEF NeverRestarted, Bounded
<1>5. phase' # "up" => ~NeverRestarted'
  <2>1. CASE phase # "up"
    BY <1>4, <2>1 DEF PlacesAreKept
  <2>2. ASSUME phase = "up", phase' # "up" PROVE ~NeverRestarted'
    BY <1>1, <1>2, <2>2, LeavingUp DEF NeverRestarted, Bounded
  <2> QED BY <2>1, <2>2
<1>6. Start => ~NeverRestarted
  BY DEF Start, PlacesAreKept
<1>7. PlaceStep /\ OnlyWaitingIsPlaced /\ (NeverRestarted => NoPlaceIsShared)
  BY StepPlaces DEF PlacesAreKept
<1>8. OnlyWaitingIsPlaced' /\ (NeverRestarted' => NoPlaceIsShared')
  <2>1. CASE Thins
    BY <1>4, <1>7, <2>1, ThinningKeeps
  <2>2. ASSUME NEW t \in Tasks, NEW lane \in Lanes, NEW prio \in Nat, NEW p,
               EntersAt(t, p, lane, prio)
        PROVE  OnlyWaitingIsPlaced' /\ (NeverRestarted' => NoPlaceIsShared')
    BY <1>1, <1>4, <1>7, <2>2, EnteringKeeps
  <2>3. CASE Reorder
    BY <1>1, <1>7, <2>3, ReorderKeeps
  <2>4. CASE Start
    BY <1>1, <1>4, <1>6, <1>7, <2>4, StartKeeps
  <2> QED BY <1>7, <2>1, <2>2, <2>3, <2>4 DEF PlaceStep
<1> QED BY <1>3, <1>4, <1>5, <1>6, <1>8 DEF PlacesAreKept

LEMMA PlacesStayKept == Spec => []PlacesAreKept
<1>1. Init => PlacesAreKept
  <2>1. ASSUME Init PROVE PlacesAreKept
    <3>1. /\ \A what \in Bounded : left[what] <= Budget[what]
          /\ phase = "up" /\ \A t \in Tasks : task[t].pos = NotPlaced
      BY <2>1, BrokerAssumption DEF Init, NoRow
    <3> QED BY <3>1 DEF PlacesAreKept, OnlyWaitingIsPlaced, NoPlaceIsShared
  <2> QED BY <2>1
<1>2. IInv /\ InvocationsAreKnown /\ PlacesAreKept /\ [Next]_vars => PlacesAreKept'
  BY StepKeepsPlaces
<1> QED BY <1>1, <1>2, InvariantHolds, InvocationsStayKnown, PTL DEF Spec

\* Only what waits for its turn has a place, whatever happens, and until the process
\* stops or dies for the first time no two tasks share one.
THEOREM PlacesStayDistinct == Spec => []PlacesAreDistinct
<1>1. PlacesAreKept => PlacesAreDistinct
  BY DEF PlacesAreKept, PlacesAreDistinct, OnlyWaitingIsPlaced, NoPlaceIsShared
<1> QED BY <1>1, PlacesStayKept, PTL

----------------------------------------------------------------------------
(* Places follow priority where every loop runs in the inference lane.     *)

\* Agents and mixtures are asked for in the inference lane.  Without this an agent of
\* the cloud lane is resumed among the tasks of the inference lane.
LoopsAskedLocally ==
  \A req \in Requests : req.kind # "inference" => req.strategy = "single"

\* A row keeps its strategy, and its lane unless it is demoted or new; only loops pause.
KeepsLoop(x) ==
  /\ \/ task'[x].strategy = task[x].strategy /\ task'[x].kind \in {task[x].kind, "inference"}
     \/ \E req \in Requests : /\ task'[x].strategy = req.strategy
                              /\ task'[x].kind = req.kind
                              /\ task'[x].status = "queued"
  /\ task'[x].status = "waiting_for_tools"
       => task[x].status = "waiting_for_tools" \/ task[x].strategy # "single"

\* A coroutine keeps them.
LEMMA CoroutineKeepsLoops ==
  ASSUME IInv, NEW t \in Tasks, Prepare(t) \/ Infer(t) \/ Conclude(t) \/ Disturb(t)
  PROVE  \A x \in Tasks : KeepsLoop(x)
<1>1. task \in [Tasks -> Row] /\ Sound(t)
  BY DEF IInv, TypeOK
<1>2. CASE UNCHANGED task
  BY <1>2 DEF KeepsLoop
<1>3. ASSUME NEW s \in Statuses, WritesOver(t, s),
             s = "waiting_for_tools" => s = task[t].status \/ At(t, "savePause")
      PROVE  \A x \in Tasks : KeepsLoop(x)
  <2>1. At(t, "savePause") => task[t].strategy # "single"
    BY <1>1 DEF At, Sound, SavesItsOwn, LoopPlaces, IsLoop
  <2> QED BY <1>3, <2>1 DEF WritesOver, Over, KeepsLoop
<1>4. CASE YieldTurn(t)
  <2>1. StatusBecomes(t, "queued")
    BY <1>1, <1>4, EnqueueStatusEffect, StatusNames DEF YieldTurn
  <2> QED BY <2>1 DEF StatusBecomes, Kept, KeepsLoop
<1>5. CASE DemoteToInference(t)
  <2> DEFINE old == task[t]
             row == [old EXCEPT !.kind = "inference", !.status = "queued", !.wait = 0]
  <2>1. old \in Row /\ Enqueue(t, "inference", row)
    BY <1>1, <1>5 DEF DemoteToInference
  <2> HIDE DEF old
  <2>2. /\ row \in Row /\ row.status = "queued" /\ row.kind = "inference"
        /\ row.strategy = old.strategy
    BY <2>1, StatusNames DEF Row, Lanes
  <2> HIDE DEF row
  <2>3. KeepsLoop(t)
    BY <1>1, <2>1, <2>2, EnqueueEffect DEF KeepsLoop, old
  <2>4. \A x \in Tasks \ {t} : KeepsLoop(x)
    BY <1>1, <2>1, <2>2, EnqueueEffect DEF Kept, KeepsLoop
  <2> QED BY <2>3, <2>4
<1> QED BY <1>1, <1>2, <1>3, <1>4, <1>5, CoroutineWrites

\* So does everybody else.
LEMMA StepKeepsLoops ==
  ASSUME IInv, [Next]_vars
  PROVE  \A x \in Tasks : KeepsLoop(x)
<1>1. task \in [Tasks -> Row]
  BY DEF IInv, TypeOK
<1> DEFINE Goal == \A x \in Tasks : KeepsLoop(x)
<1>2. StatusesStay \/ UNCHANGED task => Goal
  BY DEF StatusesStay, Kept, KeepsLoop
<1>3. \A t \in Tasks : \A s \in {"queued", "routing"} : StatusBecomes(t, s) => Goal
  BY DEF StatusBecomes, Kept, KeepsLoop
<1>4. \A asked : RequestCancel(asked) => Goal
  BY <1>1, RequestCancelEffect DEF Kept, KeepsLoop
<1>5. \A t \in Tasks : Prepare(t) \/ Infer(t) \/ Conclude(t) \/ Disturb(t) => Goal
  BY CoroutineKeepsLoops
<1>6. \A t \in Tasks : Create(t) => Goal
  <2>1. ASSUME NEW t \in Tasks, Create(t) PROVE Goal
    <3>1. PICK req \in Requests : CreateTask(t, req)
      BY <2>1 DEF Create
    <3> DEFINE row == [NoRow EXCEPT !.status = "queued", !.kind = req.kind,
                               !.strategy = req.strategy, !.explicit = req.explicit,
                               !.prio = req.prio, !.deps = req.deps]
    <3>2. row \in Row /\ Enqueue(t, req.kind, row)
      BY <3>1, NoRowTyped, StatusNames, SizesAssumption DEF Row, Request, CreateTask
    <3>3. row.strategy = req.strategy /\ row.kind = req.kind /\ row.status = "queued"
      BY DEF NoRow
    <3> HIDE DEF row
    <3>4. KeepsLoop(t)
      BY <1>1, <3>2, <3>3, EnqueueEffect DEF KeepsLoop
    <3>5. \A x \in Tasks \ {t} : KeepsLoop(x)
      BY <1>1, <3>1, CreateEffect DEF Kept, KeepsLoop
    <3> QED BY <3>4, <3>5
  <2> QED BY <2>1
<1> HIDE DEF Goal
<1>7. \A t \in Tasks : Client(t) => Goal
  <2>1. \A t \in Tasks : ToolResults(t) => StatusBecomes(t, "queued")
    BY <1>1, EnqueueStatusEffect, StatusNames DEF ToolResults, ResumeWithToolResults
  <2> QED BY <1>3, <1>4, <1>6, <2>1 DEF Client, Cancel
<1>8. \A t \in Tasks : Dispatch(t) => Goal
  BY <1>3, DispatchClaims DEF Claims
<1>9. CancelAllPending \/ Reorder \/ DispatchNothing => Goal
  <2>1. Reorder => StatusesStay
    BY <1>1, ReorderEffect DEF Reorder, Numberings
  <2> QED BY <1>1, <1>2, <1>4, <2>1, SweepEffect DEF CancelAllPending, DispatchNothing
<1>10. Lifespan \/ UNCHANGED vars => Goal
  <2>1. ASSUME Start PROVE Goal
    <3>1. PICK place \in Numberings(Requeueable) : RecoverInterrupted(place)
      BY <2>1 DEF Start
    <3>2. place \in [Requeueable -> Nat]
      BY <3>1 DEF Numberings
    <3> QED BY <1>1, <3>1, <3>2, RecoveryEffect DEF Kept, KeepsLoop, Goal
  <2>2. Tick => Goal
    BY <1>1, <1>2, TimeEffect DEF Tick
  <2> QED BY <1>2, <2>1, <2>2 DEF Lifespan, Stop, Stopped, Crash, vars
<1>11. Goal
  BY <1>5, <1>7, <1>8, <1>9, <1>10 DEF Next
<1> QED BY <1>11 DEF Goal

\* Where agents and mixtures are asked for in the inference lane, the places of every
\* lane follow priority and then arrival, through arrivals, yields, resumptions,
\* demotions, deferrals, cancellations and claims, until somebody reorders the queue or
\* the process stops or dies.
THEOREM PlacesStayInOrder ==
  ASSUME LoopsAskedLocally
  PROVE  Spec => []PlacedInOrder
<1> DEFINE Undone == left["reorder"] = Budget["reorder"]
           Inv == LoopsAreLocal /\ (NeverRestarted /\ Undone => PlacesFollowPriority)
<1>1. Init => Inv
  BY DEF Init, NoRow, LoopsAreLocal, PlacesFollowPriority, Pending, PendingStatuses
<1>2. ASSUME IInv, InvocationsAreKnown, PlacesAreKept, Inv, [Next]_vars
      PROVE  Inv'
  <2>1. /\ task \in [Tasks -> Row] /\ left \in [Bounded -> Nat]
        /\ Budget \in [Bounded -> Nat]
    BY <1>2, BrokerAssumption DEF IInv, TypeOK
  <2>2. LoopsAreLocal'
    <3>1. \A x \in Tasks : KeepsLoop(x)
      BY <1>2, StepKeepsLoops
    <3> QED BY <1>2, <3>1 DEF KeepsLoop, LoopsAreLocal, LoopsAskedLocally
  <2>3. /\ NeverRestarted' => NeverRestarted /\ ~Start
        /\ PlaceStep /\ OnlyWaitingIsPlaced
    BY <1>2, StepKeepsPlaces, StepPlaces DEF PlacesAreKept
  <2>4. Undone' => Undone /\ ~Reorder
    <3>1. left'["reorder"] \in Int /\ left'["reorder"] <= left["reorder"]
          /\ left["reorder"] <= Budget["reorder"]
      BY <1>2, <2>1, BudgetsShrink DEF PlacesAreKept, Bounded
    <3>2. Reorder => left'["reorder"] < left["reorder"]
      BY <2>1 DEF Reorder, Spend, Bounded
    <3>3. left["reorder"] \in Nat /\ Budget["reorder"] \in Nat
      BY <2>1 DEF Bounded
    <3>4. Budget["reorder"]' = Budget["reorder"]
      OBVIOUS
    <3> QED BY <3>1, <3>2, <3>3, <3>4
  <2>5. ASSUME NeverRestarted', Undone' PROVE PlacesFollowPriority'
    <3>1. PlacesFollowPriority /\ ~Start /\ ~Reorder /\ LoopsAreLocal
      BY <1>2, <2>3, <2>4, <2>5
    <3>2. CASE Thins
      BY <3>1, <3>2, ThinningKeeps
    <3>3. ASSUME NEW t \in Tasks, NEW lane \in Lanes, NEW prio \in Nat, NEW p,
                 EntersAt(t, p, lane, prio), Fits(t, p, lane, prio)
          PROVE  PlacesFollowPriority'
      BY <2>1, <2>3, <3>1, <3>3, EnteringKeeps
    <3> QED BY <2>3, <3>1, <3>2, <3>3 DEF PlaceStep
  <2> QED BY <2>2, <2>5
<1>3. IInv /\ InvocationsAreKnown /\ PlacesAreKept /\ Inv /\ [Next]_vars => Inv'
  BY <1>2
<1>4. Inv => PlacedInOrder
  BY DEF PlacedInOrder, Undisturbed, PlacesFollowPriority
<1> QED BY <1>1, <1>3, <1>4, InvariantHolds, InvocationsStayKnown, PlacesStayKept, PTL
        DEF Spec

----------------------------------------------------------------------------
(* A claim passes nobody more urgent.                                      *)

\* A row becomes active by a claim only.
Unclaimed(x) == task'[x].status = "routing" => task[x].status = "routing"

LEMMA OnlyClaimsRoute ==
  ASSUME IInv, [Next]_vars
  PROVE  (\A x \in Tasks : Unclaimed(x))
         \/ \E t \in Tasks : Dispatch(t) /\ \A x \in Tasks \ {t} : Unclaimed(x)
<1>1. task \in [Tasks -> Row]
  BY DEF IInv, TypeOK
<1> DEFINE Goal == \A x \in Tasks : Unclaimed(x)
<1>2. StatusesStay \/ UNCHANGED task => Goal
  BY DEF StatusesStay, Kept, Unclaimed
<1>3. \A t \in Tasks : StatusBecomes(t, "queued") => Goal
  BY DEF StatusBecomes, Kept, Unclaimed
<1>4. \A asked : RequestCancel(asked) => Goal
  BY <1>1, RequestCancelEffect DEF Kept, Unclaimed
<1>5. ASSUME NEW t \in Tasks, Prepare(t) \/ Infer(t) \/ Conclude(t) \/ Disturb(t)
      PROVE  Goal
  <2>1. ASSUME NEW s \in Statuses, WritesOver(t, s), s = "routing" => s = task[t].status
        PROVE  Goal
    BY <1>1, <2>1 DEF WritesOver, Over, Unclaimed
  <2>2. CASE YieldTurn(t)
    <3>1. StatusBecomes(t, "queued")
      BY <1>1, <2>2, EnqueueStatusEffect, StatusNames DEF YieldTurn
    <3> QED BY <1>3, <3>1
  <2>3. CASE DemoteToInference(t)
    <3> DEFINE old == task[t]
               row == [old EXCEPT !.kind = "inference", !.status = "queued", !.wait = 0]
    <3>1. old \in Row /\ Enqueue(t, "inference", row)
      BY <1>1, <2>3 DEF DemoteToInference
    <3> HIDE DEF old
    <3>2. row \in Row /\ row.status = "queued"
      BY <3>1, StatusNames DEF Row, Lanes
    <3> HIDE DEF row
    <3> QED BY <1>1, <3>1, <3>2, EnqueueEffect DEF Kept, Unclaimed
  <2> QED BY <1>1, <1>2, <1>5, <2>1, <2>2, <2>3, CoroutineWrites
<1>6. ASSUME NEW t \in Tasks, Create(t) PROVE Goal
  <2>1. PICK req \in Requests : CreateTask(t, req)
    BY <1>6 DEF Create
  <2> DEFINE row == [NoRow EXCEPT !.status = "queued", !.kind = req.kind,
                             !.strategy = req.strategy, !.explicit = req.explicit,
                             !.prio = req.prio, !.deps = req.deps]
  <2>2. row \in Row /\ Enqueue(t, req.kind, row)
    BY <2>1, NoRowTyped, StatusNames, SizesAssumption DEF Row, Request, CreateTask
  <2>3. row.status = "queued"
    BY DEF NoRow
  <2> HIDE DEF row
  <2>4. Unclaimed(t)
    BY <1>1, <2>2, <2>3, EnqueueEffect DEF Unclaimed
  <2>5. \A x \in Tasks \ {t} : Unclaimed(x)
    BY <1>1, <2>1, CreateEffect DEF Kept, Unclaimed
  <2> QED BY <2>4, <2>5
<1> HIDE DEF Goal
<1>7. \A t \in Tasks : Client(t) => Goal
  <2>1. \A t \in Tasks : ToolResults(t) => StatusBecomes(t, "queued")
    BY <1>1, EnqueueStatusEffect, StatusNames DEF ToolResults, ResumeWithToolResults
  <2> QED BY <1>3, <1>4, <1>6, <2>1 DEF Client, Cancel
<1>8. \A t \in Tasks : Dispatch(t) => \A x \in Tasks \ {t} : Unclaimed(x)
  BY DispatchClaims DEF Claims, StatusBecomes, Kept, Unclaimed
<1>9. CancelAllPending \/ Reorder \/ DispatchNothing => Goal
  <2>1. Reorder => StatusesStay
    BY <1>1, ReorderEffect DEF Reorder, Numberings
  <2> QED BY <1>1, <1>2, <1>4, <2>1, SweepEffect DEF CancelAllPending, DispatchNothing
<1>10. Lifespan \/ UNCHANGED vars => Goal
  <2>1. ASSUME Start PROVE Goal
    <3>1. PICK place \in Numberings(Requeueable) : RecoverInterrupted(place)
      BY <2>1 DEF Start
    <3>2. place \in [Requeueable -> Nat]
      BY <3>1 DEF Numberings
    <3> QED BY <1>1, <3>1, <3>2, RecoveryEffect DEF Kept, Unclaimed, Goal
  <2>2. Tick => Goal
    BY <1>1, <1>2, TimeEffect DEF Tick
  <2> QED BY <1>2, <2>1, <2>2 DEF Lifespan, Stop, Stopped, Crash, vars
<1> QED BY <1>5, <1>7, <1>8, <1>9, <1>10 DEF Next, Goal

\* Where agents and mixtures are asked for in the inference lane, and as long as nobody
\* reordered the queue, reserved memory or stopped the process, a task that the inference
\* loop claims at its place passes nobody who is ready and more urgent.
THEOREM ClaimsPassNobody ==
  ASSUME LoopsAskedLocally
  PROVE  Spec => PlacedClaimsFollowPriority
<1> DEFINE Passes(t) ==
      Undisturbed /\ Takes(t) /\ task[t].pos # NotPlaced /\ Reserved = {}
        => \A x \in Ready("inference") : task[x].prio >= task[t].prio
<1>1. ASSUME IInv, PlacedInOrder, [Next]_vars, NEW t \in Tasks PROVE Passes(t)
  <2> SUFFICES ASSUME Undisturbed, Takes(t), task[t].pos # NotPlaced, Reserved = {},
                      NEW x \in Ready("inference"), x # t
               PROVE  task[x].prio >= task[t].prio
    BY <1>1 DEF IInv, TypeOK, Row
  <2>1. /\ task \in [Tasks -> Row] /\ x \in Tasks
        /\ task[x].pos \in Nat /\ task[t].pos \in Nat
        /\ task[x].prio \in Nat /\ task[t].prio \in Nat /\ x \in Nat /\ t \in Nat
    BY <1>1 DEF IInv, TypeOK, Row, Ready, Claimable, Tasks
  <2>2. Dispatch(t)
    BY <1>1, OnlyClaimsRoute DEF Takes, Unclaimed, PendingStatuses
  <2>3. ClaimInference(t)
    BY <2>2 DEF Dispatch, DispatchInference, DispatchLane, ManualTick, Takes, ClaimInLane,
                NextInLane, IsFirst, Ready, Claimable
  <2>4. Before(t, x)
    BY <2>3 DEF ClaimInference, NextInference, IsFirst, MayRun
  <2>5. task[x].pos # NotPlaced
    BY <2>1, <2>4 DEF Before, NotPlaced
  <2>6. /\ t \in Pending /\ x \in Pending
        /\ task[t].kind = "inference" /\ task[x].kind = "inference"
    BY DEF Takes, Ready, Claimable, Pending
  <2>7. ~(task[x].prio < task[t].prio)
    BY <1>1, <2>1, <2>4, <2>5, <2>6 DEF PlacedInOrder, Before
  <2> QED BY <2>1, <2>7
<1>2. IInv /\ PlacedInOrder /\ [Next]_vars => \A t \in Tasks : Passes(t)
  BY <1>1
<1>3. Spec => []PlacedInOrder
  BY PlacesStayInOrder
<1> QED BY <1>2, <1>3, InvariantHolds, PTL DEF Spec, PlacedClaimsFollowPriority
=============================================================================
