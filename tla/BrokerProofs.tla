---------------------------- MODULE BrokerProofs ----------------------------
(***************************************************************************)
(* Theorems about Spec for any number of tasks, any requests, any budget   *)
(* of failures and any values of the timers and limits.                    *)
(*                                                                         *)
(* First come the transactions of TaskTable, for tables of any size: that  *)
(* rows keep their type, and what becomes of the columns that the proofs   *)
(* about the coroutines look at.  Inductions over data go through the      *)
(* least counterexample (WFMin).  A row is a record of sixteen fields: the *)
(* proofs name the old row and hide what it is before they look at a field *)
(* of the new one.                                                         *)
(*                                                                         *)
(* IInv (module BrokerInvariant) is the inductive invariant.  A step of    *)
(* the coroutine of t is shown sound through the status it leaves and the  *)
(* place it goes to; every other step is something done to rows from       *)
(* outside, a claim, or a change of the process as a whole.                *)
(*                                                                         *)
(* What decides whether interrupted work may be tried again comes last:    *)
(* the attempts of a task and its open invocation.  The recovery fails a   *)
(* task whose attempts are spent or whose row shows a remote call in       *)
(* flight, so both columns have to tell the truth at every crash.          *)
(* InvocationsAreKnown is carried through every step of the engine.        *)
(***************************************************************************)
EXTENDS BrokerInvariant, FiniteSetTheorems, WellFoundedInduction, TLAPS

----------------------------------------------------------------------------
(* Places.                                                                 *)

\* A non-empty set of naturals has a least element.
LEMMA SomethingLeast ==
  ASSUME NEW S \in SUBSET Nat, S # {}
  PROVE  \E x \in S : \A y \in S : x <= y
<1> DEFINE R == OpToRel(<, Nat)
<1>1. \A x, y \in Nat : y < x => <<y, x>> \in R
  BY DEF OpToRel
<1>2. IsWellFoundedOn(R, Nat)
  BY NatLessThanWellFounded
<1> HIDE DEF R
<1>3. PICK x \in S : \A y \in S : ~ (<<y, x>> \in R)
  BY <1>2, WFMin
<1>4. \A y \in S : ~ (y < x)
  BY <1>1, <1>3
<1> QED BY <1>4

\* So the minimum of places that _make_room_in_queue takes is one of them.
LEMMA MinOfPlaces ==
  ASSUME NEW S \in SUBSET Nat, S # {}
  PROVE  Min(S) \in S
BY SomethingLeast DEF Min

\* The places of the rows are bounded, whatever their number: the least number of
\* rows without a bound would not be the least.
LEMMA PlacesBounded ==
  ASSUME NumTasks \in Nat, NEW f \in [Tasks -> Nat]
  PROVE  \E m \in Nat : \A x \in Tasks : f[x] <= m
<1> DEFINE Bounds(n, m) == \A x \in 1..n : f[x] <= m
           Unbounded == {n \in Nat : n <= NumTasks /\ ~ \E m \in Nat : Bounds(n, m)}
<1>1. SUFFICES Unbounded = {}
  <2>1. NumTasks \notin Unbounded BY <1>1
  <2> QED BY <2>1 DEF Tasks
<1>2. SUFFICES ASSUME Unbounded # {} PROVE FALSE
  OBVIOUS
<1>3. PICK n \in Unbounded : \A k \in Unbounded : n <= k
  BY <1>2, SomethingLeast
<1>4. n # 0
  <2>1. Bounds(0, 0) OBVIOUS
  <2> QED BY <2>1, <1>3
<1>5. n - 1 \in Nat /\ n - 1 \notin Unbounded
  <2>1. n \in Nat /\ n - 1 \in Nat /\ ~(n <= n - 1) BY <1>4
  <2> HIDE DEF Unbounded
  <2> QED BY <2>1, <1>3
<1>6. PICK m \in Nat : Bounds(n - 1, m)
  BY <1>3, <1>5
<1>7. f[n] \in Nat /\ n \in 1..NumTasks
  BY <1>3, <1>4 DEF Tasks
<1>8. CASE f[n] <= m
  <2>1. Bounds(n, m) 
    <3>1. ASSUME NEW x \in 1..n PROVE f[x] <= m
      <4>1. x = n \/ x \in 1..(n - 1) BY <1>3
      <4> QED BY <4>1, <1>6, <1>8
    <3> QED BY <3>1
  <2> QED BY <2>1, <1>3
<1>9. CASE ~(f[n] <= m)
  <2>1. Bounds(n, f[n])
    <3>1. ASSUME NEW x \in 1..n PROVE f[x] <= f[n]
      <4>1. x = n \/ x \in 1..(n - 1) BY <1>3
      <4>2. x \in Tasks BY <1>7 DEF Tasks
      <4> HIDE DEF Unbounded
      <4> QED BY <4>1, <4>2, <1>6, <1>7, <1>9
    <3> QED BY <3>1
  <2> QED BY <2>1, <1>3, <1>7
<1> QED BY <1>8, <1>9

\* So COALESCE(MAX(queue_position), 0) is one of them too.
LEMMA MaxOfBounded ==
  ASSUME NEW S \in SUBSET Nat, 0 \in S, NEW b \in Nat, \A x \in S : x <= b
  PROVE  Max(S) \in S
<1> DEFINE Above == {m \in Nat : \A x \in S : x <= m}
<1>1. PICK m \in Above : \A n \in Above : m <= n
  <2>1. b \in Above OBVIOUS
  <2> HIDE DEF Above
  <2>2. Above # {} BY <2>1
  <2>3. Above \in SUBSET Nat BY DEF Above
  <2> QED BY <2>2, <2>3, SomethingLeast
<1>2. m \in S
  <2>1. SUFFICES ASSUME m \notin S PROVE FALSE
    OBVIOUS
  <2>2. m \in Nat /\ m # 0 /\ m - 1 \in Nat
    BY <2>1
  <2>3. \A x \in S : x <= m - 1
    BY <2>1, <2>2
  <2>4. m - 1 \in Above BY <2>2, <2>3
  <2>5. m <= m - 1 BY <1>1, <2>4
  <2> QED BY <2>2, <2>5
<1>3. \A x \in S : m >= x
  BY <1>1
<1> QED BY <1>2, <1>3 DEF Max

\* _make_room_in_queue always finds a place, and it is never NULL.
LEMMA EntryPositionIsAPlace ==
  ASSUME task \in [Tasks -> Row], NEW t \in Tasks, NEW lane, NEW prio
  PROVE  EntryPosition(t, lane, prio) \in Nat \ {NotPlaced}
<1> DEFINE later == MustFollow(t, lane, prio)
           laterPlaces == {task[x].pos : x \in later}
           places == {0} \cup {task[x].pos : x \in Tasks}
<1>1. \A x \in Tasks : task[x].pos \in Nat
  BY DEF Row
<1>2. \A x \in later : x \in Tasks /\ task[x].pos # NotPlaced
  BY DEF MustFollow, Pending
<1>3. CASE later = {}
  <2>1. PICK b \in Nat : \A x \in Tasks : task[x].pos <= b
    <3> DEFINE f == [x \in Tasks |-> task[x].pos]
    <3>1. f \in [Tasks -> Nat] BY <1>1
    <3>2. \E m \in Nat : \A x \in Tasks : f[x] <= m
      <4> HIDE DEF f
      <4> QED BY <3>1, PlacesBounded, SizesAssumption
    <3> QED BY <3>2
  <2>2. places \in SUBSET Nat /\ 0 \in places /\ \A p \in places : p <= b
    BY <1>1, <2>1
  <2>3. Max(places) \in Nat
    <3> HIDE DEF places
    <3> QED BY <2>2, MaxOfBounded
  <2>4. EntryPosition(t, lane, prio) = 1 + Max(places)
    BY <1>3 DEF EntryPosition
  <2> HIDE DEF places
  <2> QED BY <2>3, <2>4 DEF NotPlaced
<1>4. CASE later # {}
  <2>1. laterPlaces \in SUBSET (Nat \ {NotPlaced}) /\ laterPlaces # {}
    BY <1>1, <1>2, <1>4
  <2>2. Min(laterPlaces) \in laterPlaces
    <3> HIDE DEF laterPlaces
    <3> QED BY <2>1, MinOfPlaces
  <2>3. EntryPosition(t, lane, prio) = Min(laterPlaces)
    BY <1>4 DEF EntryPosition
  <2> HIDE DEF laterPlaces
  <2> QED BY <2>1, <2>2, <2>3
<1> QED BY <1>3, <1>4

\* Entering the queue writes the row of t and moves other rows by one place.
LEMMA EnqueueMovesPlaces ==
  ASSUME task \in [Tasks -> Row], NEW t \in Tasks, NEW lane, NEW row \in Row,
         Enqueue(t, lane, row)
  PROVE  /\ task' \in [Tasks -> Row]
         /\ \E p \in Nat \ {NotPlaced} : task'[t] = [row EXCEPT !.pos = p]
         /\ \A x \in Tasks \ {t} :
              \/ task'[x] = task[x]
              \/ task'[x] = [task[x] EXCEPT !.pos = @ + 1]
<1> DEFINE p == EntryPosition(t, lane, row.prio)
<1>1. p \in Nat \ {NotPlaced}
  BY EntryPositionIsAPlace
<1>2. task' = [x \in Tasks |->
                 IF x = t THEN [row EXCEPT !.pos = p]
                 ELSE IF task[x].pos >= p THEN [task[x] EXCEPT !.pos = @ + 1]
                 ELSE task[x]]
  BY DEF Enqueue
<1> HIDE DEF p
<1>3. [row EXCEPT !.pos = p] \in Row
  BY <1>1 DEF Row
<1>4. \A x \in Tasks : [task[x] EXCEPT !.pos = @ + 1] \in Row
  BY DEF Row
<1> QED BY <1>1, <1>2, <1>3, <1>4

----------------------------------------------------------------------------
(* Every transaction writes rows of the type of the table.                 *)

\* A row of the right type is written.
LEMMA UpdateTyped ==
  ASSUME task \in [Tasks -> Row], NEW t \in Tasks, NEW row \in Row, Update(t, row)
  PROVE  task' \in [Tasks -> Row]
BY DEF Update

\* The names of the statuses that the transactions write.
LEMMA StatusNames ==
  {"queued", "waiting_for_memory", "waiting_for_dependencies", "routing", "generating",
   "completed", "failed", "cancelled", "waiting_for_tools"} \subseteq Statuses
BY DEF Statuses, ActiveStatuses, PendingStatuses, TerminalStatuses

\* A row that does not exist yet has a type all the same.
LEMMA NoRowTyped == NoRow \in Row
BY DEF NoRow, Row, Statuses, Lanes, Strategies, NotPlaced, NoTimer

\* update_task keeps the type of the table.
LEMMA SetStatusTyped ==
  ASSUME task \in [Tasks -> Row], NEW t \in Tasks, NEW s \in Statuses, SetStatus(t, s)
  PROVE  task' \in [Tasks -> Row]
<1>1. \A row \in Row : [row EXCEPT !.status = s, !.pos = NotPlaced] \in Row
  BY DEF Row, NotPlaced
<1> QED BY <1>1, UpdateTyped DEF SetStatus

\* create_task keeps the type of the table.
LEMMA CreateTyped ==
  ASSUME task \in [Tasks -> Row], NEW t \in Tasks, NEW req \in Requests, CreateTask(t, req)
  PROVE  task' \in [Tasks -> Row]
<1> DEFINE row == [NoRow EXCEPT !.status = "queued", !.kind = req.kind,
                           !.strategy = req.strategy, !.explicit = req.explicit,
                           !.prio = req.prio, !.deps = req.deps]
<1>1. req \in Request
  BY SizesAssumption
<1>2. row \in Row
  BY <1>1, NoRowTyped DEF Row, Request, Statuses, PendingStatuses
<1>3. Enqueue(t, req.kind, row)
  BY DEF CreateTask
<1> HIDE DEF row
<1> QED BY <1>2, <1>3, EnqueueMovesPlaces

\* request_cancel and request_cancel_many keep the type of the table.
LEMMA RequestCancelTyped ==
  ASSUME task \in [Tasks -> Row], NEW asked, RequestCancel(asked)
  PROVE  task' \in [Tasks -> Row]
<1>1. \A row \in Row : [row EXCEPT !.status = "cancelled", !.cancelReq = TRUE,
                                    !.pos = NotPlaced] \in Row
  BY StatusNames DEF Row, NotPlaced
<1> QED BY <1>1 DEF RequestCancel

\* reorder_queue keeps the type of the table.
LEMMA ReorderTyped ==
  ASSUME task \in [Tasks -> Row], NEW place \in [Pending -> Nat], ReorderQueue(place)
  PROVE  task' \in [Tasks -> Row]
<1>1. \A x \in Pending : [task[x] EXCEPT !.pos = place[x]] \in Row
  BY DEF Row, Pending
<1> QED BY <1>1 DEF ReorderQueue

\* A row that returns to the queue keeps its type (resumptions and yields).
LEMMA EnqueueStatusTyped ==
  ASSUME task \in [Tasks -> Row], NEW t \in Tasks, NEW lane, NEW s \in Statuses,
         Enqueue(t, lane, [task[t] EXCEPT !.status = s])
  PROVE  task' \in [Tasks -> Row]
<1>1. [task[t] EXCEPT !.status = s] \in Row
  BY DEF Row
<1> QED BY <1>1, EnqueueMovesPlaces

\* Sweeping a reservation and claiming a row keep its type.
LEMMA SweptTyped ==
  ASSUME NEW row \in Row
  PROVE  Swept(row) \in Row /\ Claimed(row) \in Row
<1>1. [row EXCEPT !.reserve = NoTimer, !.deferrals = 0] \in Row
  BY DEF Row, NoTimer
<1>2. [row EXCEPT !.status = "routing", !.pos = NotPlaced, !.wait = 0] \in Row
  BY StatusNames DEF Row, NotPlaced
<1> QED BY <1>1, <1>2 DEF Swept, Claimed

\* The claims of every lane keep the type of the table.
LEMMA ClaimTyped ==
  ASSUME task \in [Tasks -> Row], NEW t \in Tasks,
         \/ ClaimInference(t)
         \/ SweepReservations
         \/ \E lane \in Lanes, width \in Nat : ClaimInLane(t, lane, width)
  PROVE  task' \in [Tasks -> Row]
<1>1. \A x \in Tasks : Swept(task[x]) \in Row /\ Claimed(Swept(task[x])) \in Row
                         /\ Claimed(task[x]) \in Row
  BY SweptTyped
<1> QED BY <1>1, UpdateTyped DEF ClaimInference, SweepReservations, ClaimInLane

\* Waiting for dependencies, and no longer waiting, keep the type of the table.
LEMMA DependenciesTyped ==
  ASSUME task \in [Tasks -> Row], NEW t \in Tasks,
         ClearDependencyWait(t) \/ DeferForDependencies(t)
  PROVE  task' \in [Tasks -> Row]
<1>1. CASE ClearDependencyWait(t)
  <2>1. \A row \in Row : [row EXCEPT !.wait = 0, !.since = NoTimer] \in Row
    BY DEF Row, NoTimer
  <2> QED BY <1>1, <2>1, UpdateTyped DEF ClearDependencyWait
<1>2. CASE DeferForDependencies(t)
  <2>1. \A row \in Row :
          [row EXCEPT !.status = "waiting_for_dependencies",
                        !.wait = DependencyWait,
                        !.since = IF @ = NoTimer THEN 0 ELSE @] \in Row
    BY TimesAssumption, StatusNames DEF Row, NoTimer
  <2> QED BY <1>2, <2>1, UpdateTyped DEF DeferForDependencies
<1> QED BY <1>1, <1>2

\* defer_task_for_memory keeps the type of the table.
LEMMA DeferForMemoryTyped ==
  ASSUME task \in [Tasks -> Row], NEW t \in Tasks, DeferForMemory(t)
  PROVE  task' \in [Tasks -> Row]
<1>1. \A row \in Row, n \in Nat :
        [row EXCEPT
           !.status = "waiting_for_memory", !.wait = MemoryWait, !.deferrals = n,
           !.reserve = IF n >= ReserveAfter /\ @ = NoTimer THEN ReserveWindow ELSE @] \in Row
  BY TimesAssumption, StatusNames DEF Row, NoTimer
<1>2. task[t] \in Row /\ task[t].deferrals + 1 \in Nat
  BY DEF Row
<1> QED BY <1>1, <1>2, UpdateTyped DEF DeferForMemory

\* schedule_outage_retry keeps the type of the table.
LEMMA OutageTyped ==
  ASSUME task \in [Tasks -> Row], NEW t \in Tasks, ScheduleOutageRetry(t)
  PROVE  task' \in [Tasks -> Row]
<1> DEFINE old == task[t]
           n == old.attempt + 1
           w == OutageWait * n
           row == [old EXCEPT !.status = "queued", !.attempt = n, !.wait = w]
<1>1. old \in Row /\ n \in Nat /\ OutageWait \in Nat
  BY TimesAssumption DEF Row
<1>2. w \in Nat
  BY <1>1
<1>3. Update(t, row)
  BY DEF ScheduleOutageRetry
<1> HIDE DEF old, n, w
<1>4. row \in Row
  BY <1>1, <1>2, StatusNames DEF Row
<1> HIDE DEF row
<1> QED BY <1>3, <1>4, UpdateTyped

\* demote_to_inference_lane keeps the type of the table.
LEMMA DemotionTyped ==
  ASSUME task \in [Tasks -> Row], NEW t \in Tasks, DemoteToInference(t)
  PROVE  task' \in [Tasks -> Row]
<1>1. \A row \in Row : [row EXCEPT !.kind = "inference", !.status = "queued", !.wait = 0] \in Row
  BY StatusNames DEF Row, Lanes
<1> QED BY <1>1, EnqueueMovesPlaces DEF DemoteToInference

\* Closing an invocation, one way or another, keeps the type of the row.
LEMMA InvocationsTyped ==
  ASSUME NEW row \in Row
  PROVE  /\ Completed(row) \in Row /\ Abandoned(row) \in Row /\ Rested(row) \in Row
         /\ [row EXCEPT !.open = "none"] \in Row
<1>1. Completed(row) \in Row BY DEF Row, Completed
<1>2. Abandoned(row) \in Row BY DEF Row, Abandoned
<1>3. Rested(row) \in Row BY DEF Row, Rested, NoTimer
<1> QED BY <1>1, <1>2, <1>3 DEF Row

\* recover_interrupted_tasks keeps the type of the table.
LEMMA RecoveryTyped ==
  ASSUME task \in [Tasks -> Row], NEW place \in [Requeueable -> Nat],
         RecoverInterrupted(place)
  PROVE  task' \in [Tasks -> Row]
<1>1. ASSUME NEW t \in Interrupted PROVE Recovered(t, place) \in Row
  <2> DEFINE row == Abandoned(task[t])
             n == row.attempt + 1
             p == IF row.pos = NotPlaced THEN place[t] ELSE row.pos
             failed == [row EXCEPT !.status = "failed", !.pos = NotPlaced]
             spent == [row EXCEPT !.status = "failed", !.pos = NotPlaced, !.attempt = n]
             queued == [row EXCEPT !.status = "queued", !.attempt = n, !.pos = p]
  <2>1. task[t] \in Row /\ row \in Row
    BY InvocationsTyped DEF Interrupted
  <2>2. Recovered(t, place) = IF task[t].open = "remote" THEN failed
                              ELSE IF OutOfAttempts(t) THEN spent ELSE queued
    BY DEF Recovered
  <2>3. place[t] \in Nat \/ task[t].open = "remote" \/ OutOfAttempts(t)
    BY <1>1 DEF Requeueable
  <2> HIDE DEF row
  <2>4. n \in Nat /\ (p \in Nat \/ task[t].open = "remote" \/ OutOfAttempts(t))
    BY <2>1, <2>3 DEF Row
  <2> HIDE DEF n, p
  <2>5. failed \in Row
    BY <2>1, StatusNames DEF Row, NotPlaced
  <2>6. spent \in Row
    BY <2>1, <2>4, StatusNames DEF Row, NotPlaced
  <2>7. p \in Nat => queued \in Row
    BY <2>1, <2>4, StatusNames DEF Row
  <2> HIDE DEF failed, spent, queued
  <2> QED BY <2>2, <2>4, <2>5, <2>6, <2>7
<1> QED BY <1>1 DEF RecoverInterrupted

\* The clock keeps the type of the table.
LEMMA TimeTyped ==
  ASSUME task \in [Tasks -> Row], TimePasses
  PROVE  task' \in [Tasks -> Row]
<1>1. \A n \in Nat : Later(n) \in Nat
  BY DEF Later
<1>2. \A n \in Nat \cup {NoTimer} : Later(n) \in Nat \cup {NoTimer}
  BY DEF Later, NoTimer
<1>3. ASSUME NEW row \in Row PROVE Aged(row) \in Row
  <2>1. (IF row.since = NoTimer \/ row.since >= DependencyTimeout
         THEN row.since ELSE row.since + 1) \in Nat \cup {NoTimer}
    BY DEF Row, NoTimer
  <2> QED BY <1>1, <1>2, <2>1 DEF Aged, Row
<1> QED BY <1>3 DEF TimePasses

----------------------------------------------------------------------------
(* What every transaction does to status, lane, strategy and cancel flag.  *)
(* The proofs about the coroutines need no other column.                   *)

Kept(x) ==
  /\ task'[x].kind = task[x].kind
  /\ task'[x].strategy = task[x].strategy
  /\ task'[x].cancelReq = task[x].cancelReq

StatusesStay == \A x \in Tasks : Kept(x) /\ task'[x].status = task[x].status

StatusBecomes(t, s) ==
  \A x \in Tasks : Kept(x) /\ task'[x].status = (IF x = t THEN s ELSE task[x].status)

\* One row is rewritten; its lane, strategy and flag are not.
LEMMA UpdateEffect ==
  ASSUME task \in [Tasks -> Row], NEW t \in Tasks, NEW row \in Row, Update(t, row),
         row.kind = task[t].kind, row.strategy = task[t].strategy,
         row.cancelReq = task[t].cancelReq
  PROVE  StatusBecomes(t, row.status)
BY DEF Update, StatusBecomes, Kept

\* update_task writes the status and leaves lane, strategy and flag.
LEMMA SetStatusEffect ==
  ASSUME task \in [Tasks -> Row], NEW t \in Tasks, NEW s \in Statuses, SetStatus(t, s)
  PROVE  StatusBecomes(t, s)
<1> DEFINE old == task[t]
           row == [old EXCEPT !.status = s, !.pos = NotPlaced]
<1>1. old \in Row /\ Update(t, row)
  BY DEF SetStatus
<1> HIDE DEF old
<1>2. /\ row \in Row /\ row.status = s
      /\ row.kind = old.kind /\ row.strategy = old.strategy /\ row.cancelReq = old.cancelReq
  BY <1>1 DEF Row, NotPlaced
<1> HIDE DEF row
<1> QED BY <1>1, <1>2, UpdateEffect DEF old

\* So does an update that keeps the place.
LEMMA UpdateStatusEffect ==
  ASSUME task \in [Tasks -> Row], NEW t \in Tasks, NEW s \in Statuses,
         Update(t, [task[t] EXCEPT !.status = s])
  PROVE  StatusBecomes(t, s)
<1> DEFINE old == task[t]
           row == [old EXCEPT !.status = s]
<1>1. old \in Row /\ Update(t, row)
  OBVIOUS
<1> HIDE DEF old
<1>2. /\ row \in Row /\ row.status = s
      /\ row.kind = old.kind /\ row.strategy = old.strategy /\ row.cancelReq = old.cancelReq
  BY <1>1 DEF Row
<1> HIDE DEF row
<1> QED BY <1>1, <1>2, UpdateEffect DEF old

\* A row enters the queue and the others move back.
LEMMA EnqueueEffect ==
  ASSUME task \in [Tasks -> Row], NEW t \in Tasks, NEW lane, NEW row \in Row,
         Enqueue(t, lane, row)
  PROVE  /\ \A x \in Tasks \ {t} : Kept(x) /\ task'[x].status = task[x].status
         /\ task'[t].status = row.status /\ task'[t].kind = row.kind
         /\ task'[t].strategy = row.strategy /\ task'[t].cancelReq = row.cancelReq
<1>1. /\ \A r \in Row : LET m == [r EXCEPT !.pos = @ + 1]
                        IN  /\ m.status = r.status /\ m.kind = r.kind
                            /\ m.strategy = r.strategy /\ m.cancelReq = r.cancelReq
      /\ \A p \in Nat : LET m == [row EXCEPT !.pos = p]
                        IN  /\ m.status = row.status /\ m.kind = row.kind
                            /\ m.strategy = row.strategy /\ m.cancelReq = row.cancelReq
  BY DEF Row
<1>2. \A x \in Tasks \ {t} :
        task'[x] = task[x] \/ task'[x] = [task[x] EXCEPT !.pos = @ + 1]
  BY EnqueueMovesPlaces
<1>3. PICK p \in Nat : task'[t] = [row EXCEPT !.pos = p]
  BY EnqueueMovesPlaces
<1>4. \A x \in Tasks \ {t} : Kept(x) /\ task'[x].status = task[x].status
  BY <1>1, <1>2 DEF Kept
<1> QED BY <1>1, <1>3, <1>4

\* A return to the queue changes the status of one row.
LEMMA EnqueueStatusEffect ==
  ASSUME task \in [Tasks -> Row], NEW t \in Tasks, NEW lane, NEW s \in Statuses,
         Enqueue(t, lane, [task[t] EXCEPT !.status = s])
  PROVE  StatusBecomes(t, s)
<1> DEFINE old == task[t]
           row == [old EXCEPT !.status = s]
<1>1. old \in Row /\ Enqueue(t, lane, row)
  OBVIOUS
<1> HIDE DEF old
<1>2. /\ row \in Row /\ row.status = s
      /\ row.kind = old.kind /\ row.strategy = old.strategy /\ row.cancelReq = old.cancelReq
  BY <1>1 DEF Row
<1> HIDE DEF row
<1> QED BY <1>1, <1>2, EnqueueEffect DEF old, StatusBecomes, Kept

\* A task is created where there was none, queued and not cancelled.
LEMMA CreateEffect ==
  ASSUME task \in [Tasks -> Row], NEW t \in Tasks, NEW req \in Requests, CreateTask(t, req)
  PROVE  /\ task[t].status = "absent"
         /\ task'[t].status = "queued" /\ task'[t].cancelReq = FALSE
         /\ \A x \in Tasks \ {t} : Kept(x) /\ task'[x].status = task[x].status
<1> DEFINE row == [NoRow EXCEPT !.status = "queued", !.kind = req.kind,
                           !.strategy = req.strategy, !.explicit = req.explicit,
                           !.prio = req.prio, !.deps = req.deps]
<1>1. req \in Request
  BY SizesAssumption
<1>2. row \in Row
  BY <1>1, NoRowTyped, StatusNames DEF Row, Request
<1>3. row.status = "queued" /\ row.cancelReq = FALSE
  BY DEF NoRow
<1>4. Enqueue(t, req.kind, row) /\ task[t].status = "absent"
  BY DEF CreateTask, Known
<1> HIDE DEF row
<1> QED BY <1>2, <1>3, <1>4, EnqueueEffect

\* A cancellation reaches only rows that have not ended, and sets status and flag
\* together.
LEMMA RequestCancelEffect ==
  ASSUME task \in [Tasks -> Row], NEW asked, RequestCancel(asked)
  PROVE  \A x \in Tasks :
           \/ Kept(x) /\ task'[x].status = task[x].status
           \/ /\ x \in asked /\ task[x].status \notin TerminalStatuses \cup {"absent"}
              /\ task'[x].kind = task[x].kind /\ task'[x].strategy = task[x].strategy
              /\ task'[x].status = "cancelled" /\ task'[x].cancelReq = TRUE
<1>2. ASSUME NEW x \in Tasks
      PROVE \/ task'[x] = task[x]
            \/ /\ x \in asked /\ task[x].status \notin TerminalStatuses \cup {"absent"}
               /\ task'[x] = [task[x] EXCEPT !.status = "cancelled", !.cancelReq = TRUE,
                                             !.pos = NotPlaced]
  BY DEF RequestCancel, Known
<1>3. ASSUME NEW x \in Tasks,
             task'[x] = [task[x] EXCEPT !.status = "cancelled", !.cancelReq = TRUE,
                                        !.pos = NotPlaced]
      PROVE  /\ task'[x].kind = task[x].kind /\ task'[x].strategy = task[x].strategy
             /\ task'[x].status = "cancelled" /\ task'[x].cancelReq = TRUE
  <2> DEFINE old == task[x]
             new == [old EXCEPT !.status = "cancelled", !.cancelReq = TRUE,
                                !.pos = NotPlaced]
  <2>1. old \in Row /\ task'[x] = new
    BY <1>3
  <2> HIDE DEF old
  <2>2. /\ new.kind = old.kind /\ new.strategy = old.strategy
        /\ new.status = "cancelled" /\ new.cancelReq = TRUE
    BY <2>1 DEF Row
  <2> HIDE DEF new
  <2> QED BY <2>1, <2>2 DEF old
<1> QED BY <1>2, <1>3 DEF Kept

\* reorder_queue moves places only.
LEMMA ReorderEffect ==
  ASSUME task \in [Tasks -> Row], NEW place \in [Pending -> Nat], ReorderQueue(place)
  PROVE  StatusesStay
<1>2. ASSUME NEW x \in Tasks
      PROVE  task'[x] = task[x] \/ \E p \in Nat : task'[x] = [task[x] EXCEPT !.pos = p]
  BY DEF ReorderQueue
<1>3. ASSUME NEW x \in Tasks, NEW p \in Nat, task'[x] = [task[x] EXCEPT !.pos = p]
      PROVE  Kept(x) /\ task'[x].status = task[x].status
  <2> DEFINE old == task[x]
             new == [old EXCEPT !.pos = p]
  <2>1. old \in Row /\ task'[x] = new
    BY <1>3
  <2> HIDE DEF old
  <2>2. /\ new.kind = old.kind /\ new.strategy = old.strategy
        /\ new.status = old.status /\ new.cancelReq = old.cancelReq
    BY <2>1 DEF Row
  <2> HIDE DEF new
  <2> QED BY <2>1, <2>2 DEF old, Kept
<1> QED BY <1>2, <1>3 DEF StatusesStay, Kept

\* A sweep changes no status; a claim leaves lane, strategy and flag.
LEMMA SweptEffect ==
  ASSUME NEW row \in Row
  PROVE  /\ Swept(row).status = row.status /\ Swept(row).kind = row.kind
         /\ Swept(row).strategy = row.strategy /\ Swept(row).cancelReq = row.cancelReq
         /\ Claimed(row).status = "routing" /\ Claimed(row).kind = row.kind
         /\ Claimed(row).strategy = row.strategy /\ Claimed(row).cancelReq = row.cancelReq
<1>1. LET m == [row EXCEPT !.reserve = NoTimer, !.deferrals = 0]
      IN  /\ m.status = row.status /\ m.kind = row.kind
          /\ m.strategy = row.strategy /\ m.cancelReq = row.cancelReq
  BY DEF Row
<1>2. LET m == [row EXCEPT !.status = "routing", !.pos = NotPlaced, !.wait = 0]
      IN  /\ m.status = "routing" /\ m.kind = row.kind
          /\ m.strategy = row.strategy /\ m.cancelReq = row.cancelReq
  BY DEF Row
<1> QED BY <1>1, <1>2 DEF Swept, Claimed

\* A claim takes a pending row of the lane it asks for.
LEMMA ClaimInferenceEffect ==
  ASSUME task \in [Tasks -> Row], NEW t \in Tasks, ClaimInference(t)
  PROVE  /\ ActiveIn("inference") = {}
         /\ task[t].kind = "inference" /\ task[t].status \in PendingStatuses
         /\ StatusBecomes(t, "routing")
<1>1. ActiveIn("inference") = {} /\ t \in Claimable("inference")
  BY DEF ClaimInference, NextInference, IsFirst, Ready
<1>2. \A x \in Tasks : task'[x] = IF x = t THEN Claimed(Swept(task[x])) ELSE Swept(task[x])
  BY DEF ClaimInference
<1>3. \A x \in Tasks : task[x] \in Row /\ Swept(task[x]) \in Row
  BY SweptTyped
<1> QED BY <1>1, <1>2, <1>3, SweptEffect DEF StatusBecomes, Kept, Claimable

\* The same in the other lanes, which count the active rows instead.
LEMMA ClaimInLaneEffect ==
  ASSUME task \in [Tasks -> Row], NEW t \in Tasks, NEW lane, NEW width,
         ClaimInLane(t, lane, width)
  PROVE  /\ Cardinality(ActiveIn(lane)) < width
         /\ task[t].kind = lane /\ task[t].status \in PendingStatuses
         /\ StatusBecomes(t, "routing")
<1>1. Cardinality(ActiveIn(lane)) < width /\ t \in Claimable(lane)
  BY DEF ClaimInLane, NextInLane, IsFirst, Ready
<1>2. Update(t, Claimed(task[t])) /\ Claimed(task[t]) \in Row
  BY SweptTyped DEF ClaimInLane
<1>3. StatusBecomes(t, "routing")
  BY <1>2, SweptEffect, UpdateEffect
<1> QED BY <1>1, <1>3 DEF Claimable

\* Dropping reservations changes none of the four columns.
LEMMA SweepEffect ==
  ASSUME task \in [Tasks -> Row], SweepReservations
  PROVE  StatusesStay
BY SweptEffect DEF SweepReservations, StatusesStay, Kept

\* The columns other than the four say nothing about the four.
SameRow(new, old) ==
  /\ new \in Row
  /\ new.kind = old.kind /\ new.strategy = old.strategy /\ new.cancelReq = old.cancelReq

\* Closing invocations and clearing waits change none of the four columns.
LEMMA InvocationEffect ==
  ASSUME NEW row \in Row
  PROVE  /\ SameRow(Completed(row), row) /\ Completed(row).status = row.status
         /\ SameRow(Abandoned(row), row) /\ Abandoned(row).status = row.status
         /\ SameRow(Rested(row), row) /\ Rested(row).status = row.status
<1>1. Completed(row) \in Row /\ Abandoned(row) \in Row /\ Rested(row) \in Row
  BY InvocationsTyped
<1>2. LET m == Completed(row)
      IN  /\ m.status = row.status /\ m.kind = row.kind
          /\ m.strategy = row.strategy /\ m.cancelReq = row.cancelReq
  BY DEF Completed, Row
<1>3. LET m == Abandoned(row)
      IN  /\ m.status = row.status /\ m.kind = row.kind
          /\ m.strategy = row.strategy /\ m.cancelReq = row.cancelReq
  BY DEF Abandoned, Row
<1>4. LET m == Rested(row)
      IN  /\ m.status = row.status /\ m.kind = row.kind
          /\ m.strategy = row.strategy /\ m.cancelReq = row.cancelReq
  BY DEF Rested, Row
<1> QED BY <1>1, <1>2, <1>3, <1>4 DEF SameRow

\* Neither do the rows of model_invocations.
LEMMA OpenEffect ==
  ASSUME task \in [Tasks -> Row], NEW t \in Tasks,
         \/ \E deployment \in {"local", "remote"} : StartInvocation(t, deployment)
         \/ CompleteInvocation(t) \/ FailInvocation(t)
  PROVE  StatusesStay
<1> DEFINE old == task[t]
<1>1. old \in Row
  OBVIOUS
<1>2. \A d \in {"none", "local", "remote"} : Update(t, [old EXCEPT !.open = d]) => StatusesStay
  <2>1. TAKE d \in {"none", "local", "remote"}
  <2> DEFINE row == [old EXCEPT !.open = d]
  <2> HIDE DEF old
  <2>2. /\ row \in Row /\ row.status = old.status /\ row.kind = old.kind
        /\ row.strategy = old.strategy /\ row.cancelReq = old.cancelReq
    BY <1>1 DEF Row
  <2> HIDE DEF row
  <2>3. Update(t, row) => StatusBecomes(t, row.status)
    BY <2>2, UpdateEffect DEF old
  <2> QED BY <2>2, <2>3 DEF StatusBecomes, StatusesStay, old, row
<1>3. CompleteInvocation(t) => StatusesStay
  BY <1>1, InvocationEffect, UpdateEffect
     DEF CompleteInvocation, SameRow, StatusBecomes, StatusesStay
<1> QED BY <1>2, <1>3 DEF StartInvocation, FailInvocation

\* Only the deferral for dependencies changes the status.
LEMMA WaitEffect ==
  ASSUME task \in [Tasks -> Row], NEW t \in Tasks
  PROVE  /\ ClearDependencyWait(t) => StatusesStay
         /\ DeferForDependencies(t) => StatusBecomes(t, "waiting_for_dependencies")
<1> DEFINE old == task[t]
           clear == [old EXCEPT !.wait = 0, !.since = NoTimer]
           since == IF old.since = NoTimer THEN 0 ELSE old.since
           defer == [old EXCEPT !.status = "waiting_for_dependencies",
                                !.wait = DependencyWait, !.since = since]
<1>1. /\ old \in Row /\ since \in Nat \cup {NoTimer}
      /\ ClearDependencyWait(t) => Update(t, clear)
      /\ DeferForDependencies(t) => Update(t, defer)
  BY DEF ClearDependencyWait, DeferForDependencies, Row
<1> HIDE DEF old, since
<1>2. /\ clear \in Row /\ clear.status = old.status /\ clear.kind = old.kind
      /\ clear.strategy = old.strategy /\ clear.cancelReq = old.cancelReq
  BY <1>1 DEF Row, NoTimer
<1>3. /\ defer \in Row /\ defer.status = "waiting_for_dependencies" /\ defer.kind = old.kind
      /\ defer.strategy = old.strategy /\ defer.cancelReq = old.cancelReq
  BY <1>1, StatusNames, TimesAssumption DEF Row
<1> HIDE DEF clear, defer
<1> QED BY <1>1, <1>2, <1>3, UpdateEffect DEF old, StatusBecomes, StatusesStay

\* A deferral for memory changes the status of one row.
LEMMA DeferForMemoryEffect ==
  ASSUME task \in [Tasks -> Row], NEW t \in Tasks, DeferForMemory(t)
  PROVE  StatusBecomes(t, "waiting_for_memory")
<1> DEFINE old == task[t]
           n == old.deferrals + 1
           r == IF n >= ReserveAfter /\ old.reserve = NoTimer THEN ReserveWindow
                                                              ELSE old.reserve
           row == [old EXCEPT !.status = "waiting_for_memory", !.wait = MemoryWait,
                              !.deferrals = n, !.reserve = r]
<1>1. /\ old \in Row /\ n \in Nat /\ r \in Nat \cup {NoTimer}
      /\ Update(t, row)
  BY TimesAssumption DEF DeferForMemory, Row
<1> HIDE DEF old, n, r
<1>2. /\ row \in Row /\ row.status = "waiting_for_memory" /\ row.kind = old.kind
      /\ row.strategy = old.strategy /\ row.cancelReq = old.cancelReq
  BY <1>1, StatusNames, TimesAssumption DEF Row
<1> HIDE DEF row
<1> QED BY <1>1, <1>2, UpdateEffect DEF old

\* A retry after an outage queues one row.
LEMMA OutageEffect ==
  ASSUME task \in [Tasks -> Row], NEW t \in Tasks, ScheduleOutageRetry(t)
  PROVE  StatusBecomes(t, "queued")
<1> DEFINE old == task[t]
           n == old.attempt + 1
           w == OutageWait * n
           row == [old EXCEPT !.status = "queued", !.attempt = n, !.wait = w]
<1>1. old \in Row /\ n \in Nat /\ OutageWait \in Nat /\ Update(t, row)
  BY TimesAssumption DEF Row, ScheduleOutageRetry
<1>2. w \in Nat
  BY <1>1
<1> HIDE DEF old, n, w
<1>3. /\ row \in Row /\ row.status = "queued" /\ row.kind = old.kind
      /\ row.strategy = old.strategy /\ row.cancelReq = old.cancelReq
  BY <1>1, <1>2, StatusNames DEF Row
<1> HIDE DEF row
<1> QED BY <1>1, <1>3, UpdateEffect DEF old

\* A demotion queues one row in another lane and keeps strategy and flag.
LEMMA DemotionEffect ==
  ASSUME task \in [Tasks -> Row], NEW t \in Tasks, DemoteToInference(t)
  PROVE  /\ task'[t].status = "queued" /\ task'[t].strategy = task[t].strategy
         /\ task'[t].cancelReq = task[t].cancelReq
         /\ \A x \in Tasks \ {t} : Kept(x) /\ task'[x].status = task[x].status
<1> DEFINE old == task[t]
           row == [old EXCEPT !.kind = "inference", !.status = "queued", !.wait = 0]
<1>1. old \in Row /\ Enqueue(t, "inference", row)
  BY DEF DemoteToInference
<1> HIDE DEF old
<1>2. /\ row \in Row /\ row.status = "queued"
      /\ row.strategy = old.strategy /\ row.cancelReq = old.cancelReq
  BY <1>1, StatusNames DEF Row, Lanes
<1> HIDE DEF row
<1> QED BY <1>1, <1>2, EnqueueEffect DEF old

\* An answer, or the cancellation found after it, closes the invocation too.
LEMMA ClosingEffect ==
  ASSUME task \in [Tasks -> Row], NEW t \in Tasks, NEW s \in Statuses,
         Update(t, [Completed(task[t]) EXCEPT !.status = s, !.pos = NotPlaced])
  PROVE  StatusBecomes(t, s)
<1> DEFINE old == Completed(task[t])
           row == [old EXCEPT !.status = s, !.pos = NotPlaced]
<1>1. SameRow(old, task[t]) /\ Update(t, row)
  BY InvocationEffect
<1> HIDE DEF old
<1>2. /\ row \in Row /\ row.status = s /\ row.kind = old.kind
      /\ row.strategy = old.strategy /\ row.cancelReq = old.cancelReq
  BY <1>1 DEF SameRow, Row, NotPlaced
<1> HIDE DEF row
<1> QED BY <1>1, <1>2, UpdateEffect DEF SameRow

\* The finally block closes invocations and waits, and writes no status.
LEMMA CleanupEffect ==
  ASSUME task \in [Tasks -> Row], NEW t \in Tasks,
         LET row == Abandoned(task[t])
         IN  Update(t, IF row.status \in TerminalStatuses THEN Rested(row) ELSE row)
  PROVE  StatusesStay
<1> DEFINE row == Abandoned(task[t])
           new == IF row.status \in TerminalStatuses THEN Rested(row) ELSE row
<1>1. SameRow(row, task[t]) /\ row.status = task[t].status /\ Update(t, new)
  BY InvocationEffect
<1>2. row \in Row
  BY <1>1 DEF SameRow
<1> HIDE DEF row
<1>3. SameRow(new, task[t]) /\ new.status = task[t].status
  BY <1>1, <1>2, InvocationEffect DEF SameRow
<1> HIDE DEF new
<1> QED BY <1>1, <1>3, UpdateEffect DEF SameRow, StatusBecomes, StatusesStay

\* The recovery returns or fails what was active, and nothing else.
LEMMA RecoveryEffect ==
  ASSUME task \in [Tasks -> Row], NEW place \in [Requeueable -> Nat],
         RecoverInterrupted(place)
  PROVE  \A x \in Tasks :
           /\ Kept(x)
           /\ IF task[x].status \in ActiveStatuses
              THEN task'[x].status \in {"queued", "failed"}
              ELSE task'[x].status = task[x].status
<1>1. SUFFICES ASSUME NEW x \in Tasks
               PROVE  /\ Kept(x)
                      /\ IF task[x].status \in ActiveStatuses
                         THEN task'[x].status \in {"queued", "failed"}
                         ELSE task'[x].status = task[x].status
  OBVIOUS
<1>2. CASE x \notin Interrupted
  BY <1>2 DEF Interrupted, RecoverInterrupted, Kept
<1>3. CASE x \in Interrupted
  <2> DEFINE row == Abandoned(task[x])
             n == row.attempt + 1
             p == IF row.pos = NotPlaced THEN place[x] ELSE row.pos
             failed == [row EXCEPT !.status = "failed", !.pos = NotPlaced]
             spent == [row EXCEPT !.status = "failed", !.pos = NotPlaced, !.attempt = n]
             queued == [row EXCEPT !.status = "queued", !.attempt = n, !.pos = p]
  <2>1. SameRow(row, task[x])
    BY InvocationEffect
  <2>2. task'[x] \in {failed, spent, queued}
    BY <1>3 DEF RecoverInterrupted, Recovered
  <2> HIDE DEF row, n, p
  <2>3. \A new \in {failed, spent, queued} :
          /\ new.status \in {"queued", "failed"} /\ new.kind = row.kind
          /\ new.strategy = row.strategy /\ new.cancelReq = row.cancelReq
    BY <2>1 DEF SameRow, Row
  <2> HIDE DEF failed, spent, queued
  <2> QED BY <1>3, <2>1, <2>2, <2>3 DEF SameRow, Kept, Interrupted
<1> QED BY <1>2, <1>3

\* The clock changes none of the four columns.
LEMMA TimeEffect ==
  ASSUME task \in [Tasks -> Row], TimePasses
  PROVE  StatusesStay
<1>1. ASSUME NEW row \in Row
      PROVE  LET m == Aged(row)
             IN  /\ m.status = row.status /\ m.kind = row.kind
                 /\ m.strategy = row.strategy /\ m.cancelReq = row.cancelReq
  BY DEF Aged, Row
<1> QED BY <1>1 DEF TimePasses, StatusesStay, Kept

----------------------------------------------------------------------------
(* Types.                                                                  *)

\* Whatever a coroutine does next, it is a job.
LEMMA JobTyped ==
  ASSUME job \in [Tasks -> Job], NEW t \in Tasks,
         \/ \E place \in Places : Goto(t, place)
         \/ \E e \in Errors : Throw(t, e)
         \/ Return(t)
         \/ \E l \in Lanes, who \in {"loop", "tick"} : StartJob(t, l, who)
  PROVE  job' \in [Tasks -> Job]
<1>1. NoJob \in Job
  BY DEF NoJob, Job, Places, Errors
<1>2. \A e \in Errors, j \in Job : [j EXCEPT !.at = "error", !.err = e] \in Job
  BY DEF Job, Places
<1>3. \A place \in Places, j \in Job : [j EXCEPT !.at = place] \in Job
  BY DEF Job
<1>4. \A l \in Lanes, who \in {"loop", "tick"} :
        [at |-> "deps", lane |-> l, err |-> "none", by |-> who] \in Job
  BY DEF Job, Places, Errors
<1>5. ASSUME NEW place \in Places, Goto(t, place) PROVE job' \in [Tasks -> Job]
  BY <1>3, <1>5 DEF Goto
<1>6. ASSUME NEW e \in Errors, Throw(t, e) PROVE job' \in [Tasks -> Job]
  BY <1>2, <1>6 DEF Throw
<1>7. CASE Return(t)
  BY <1>1, <1>7 DEF Return
<1>8. ASSUME NEW l \in Lanes, NEW who \in {"loop", "tick"}, StartJob(t, l, who)
      PROVE  job' \in [Tasks -> Job]
  BY <1>4, <1>8 DEF StartJob
<1> QED BY <1>5, <1>6, <1>7, <1>8

\* The places that the actions name.
LEMMA PlaceNames ==
  {"idle", "deps", "defer", "entry", "begin", "check", "launch", "call",
   "failover", "output", "turn", "finish", "pause", "yield",
   "saveSingle", "saveFinish", "savePause", "saveYield", "error", "settle",
   "finally", "handler", "saveFailed"} \subseteq Places
BY DEF Places

\* Budgets are spent and never overdrawn.
LEMMA SpendTyped ==
  ASSUME left \in [Bounded -> Nat], NEW what \in Bounded, Spend(what)
  PROVE  left' \in [Bounded -> Nat]
BY DEF Spend, Bounded

\* The budgets that the actions name.
LEMMA BoundedNames ==
  {"round", "fault", "timeout", "bug", "crash", "stop", "reorder", "cancel",
   "tick", "any"} \subseteq Bounded
BY DEF Bounded

\* The count of late calls is a number.
LEMMA LateTyped ==
  ASSUME late \in [Tasks -> Nat], NEW t \in Tasks,
         late' = [late EXCEPT ![t] = IF task[t].cancelReq THEN @ + 1 ELSE @]
  PROVE  late' \in [Tasks -> Nat]
OBVIOUS

\* The API keeps the types.
LEMMA ClientTyped ==
  ASSUME TypeOK, NEW t \in Tasks, Client(t) \/ CancelAllPending \/ Reorder
  PROVE  TypeOK'
<1>1. CASE Create(t)
  BY <1>1, CreateTyped DEF TypeOK, Create
<1>2. CASE Cancel(t)
  BY <1>2, RequestCancelTyped, SpendTyped, BoundedNames DEF TypeOK, Cancel
<1>3. CASE ToolResults(t)
  BY <1>3, EnqueueStatusTyped, StatusNames DEF TypeOK, ToolResults, ResumeWithToolResults
<1>4. CASE CancelAllPending
  BY <1>4, RequestCancelTyped, SpendTyped, BoundedNames DEF TypeOK, CancelAllPending
<1>5. CASE Reorder
  <2>1. PICK place \in Numberings(Pending) : ReorderQueue(place)
    BY <1>5 DEF Reorder
  <2>2. place \in [Pending -> Nat]
    BY <2>1 DEF Numberings
  <2> QED BY <1>5, <2>1, <2>2, ReorderTyped, SpendTyped, BoundedNames DEF TypeOK, Reorder
<1> QED BY <1>1, <1>2, <1>3, <1>4, <1>5 DEF Client

\* The dispatchers and the ticks keep the types.
LEMMA DispatchTyped ==
  ASSUME TypeOK, NEW t \in Tasks, Dispatch(t) \/ DispatchNothing
  PROVE  TypeOK'
<1> "inference" \in Lanes /\ "embedding" \in Lanes /\ "cloud" \in Lanes /\ MaxParallel \in Nat
  BY BrokerAssumption DEF Lanes
<1>1. CASE DispatchInference(t)
  BY <1>1, ClaimTyped, JobTyped DEF TypeOK, DispatchInference
<1>2. ASSUME NEW lane \in Lanes, DispatchLane(t, lane)
      PROVE  TypeOK'
  BY <1>2, ClaimTyped, JobTyped DEF TypeOK, DispatchLane
<1>3. ASSUME NEW lane \in Lanes, ManualTick(t, lane)
      PROVE  TypeOK'
  BY <1>3, ClaimTyped, JobTyped, SpendTyped, BoundedNames DEF TypeOK, ManualTick
<1>4. CASE DispatchNothing
  BY <1>4, ClaimTyped DEF TypeOK, DispatchNothing
<1> QED BY <1>1, <1>2, <1>3, <1>4 DEF Dispatch

\* process_task keeps the types up to the first active status.
LEMMA PrepareTyped ==
  ASSUME TypeOK, NEW t \in Tasks, Prepare(t)
  PROVE  TypeOK'
<1> USE DEF TypeOK
<1>1. CASE AwaitDependencies(t)
  BY <1>1, DependenciesTyped, JobTyped, PlaceNames DEF AwaitDependencies
<1>2. CASE DeferTask(t)
  BY <1>2, DependenciesTyped, JobTyped DEF DeferTask
<1>3. CASE AttachmentsFail(t)
  BY <1>3, SetStatusTyped, StatusNames, JobTyped, SpendTyped, BoundedNames DEF AttachmentsFail
<1>4. CASE EntryCheck(t)
  BY <1>4, SetStatusTyped, StatusNames, JobTyped, PlaceNames DEF EntryCheck
<1>5. CASE RejectRequest(t)
  BY <1>5, SetStatusTyped, StatusNames, JobTyped, PlaceNames, SpendTyped, BoundedNames
     DEF RejectRequest
<1>6. CASE SelectionFails(t)
  BY <1>6, JobTyped, SpendTyped, BoundedNames DEF SelectionFails, Errors
<1>7. CASE BeginWork(t)
  BY <1>7, SetStatusTyped, StatusNames, JobTyped, PlaceNames DEF BeginWork
<1> QED BY <1>1, <1>2, <1>3, <1>4, <1>5, <1>6, <1>7 DEF Prepare

\* Provider calls and rounds keep the types.
LEMMA InferTyped ==
  ASSUME TypeOK, NEW t \in Tasks, Infer(t)
  PROVE  TypeOK'
<1> USE DEF TypeOK
<1>1. CASE RoundCheck(t)
  BY <1>1, SetStatusTyped, StatusNames, JobTyped, PlaceNames DEF RoundCheck
<1>2. CASE StartCall(t)
  <2>1. PICK deployment \in {"local", "remote"} : StartInvocation(t, deployment)
    BY <1>2, BrokerAssumption DEF StartCall
  <2>2. \A row \in Row : [row EXCEPT !.open = deployment] \in Row
    BY DEF Row
  <2>3. task' \in [Tasks -> Row]
    BY <2>1, <2>2, UpdateTyped DEF StartInvocation
  <2> QED BY <1>2, <2>3, LateTyped, JobTyped, PlaceNames DEF StartCall
<1>3. CASE CallReturns(t)
  BY <1>3, InvocationsTyped, UpdateTyped, JobTyped, PlaceNames
     DEF CallReturns, CompleteInvocation
<1>4. CASE CallFails(t)
  <2>1. task' \in [Tasks -> Row]
    BY <1>4, InvocationsTyped, UpdateTyped DEF CallFails, FailInvocation
  <2>2. job' \in [Tasks -> Job]
    <3>1. {"memory", "outage", "budget", "other"} \subseteq Errors
      BY DEF Errors
    <3> QED BY <1>4, <3>1, JobTyped, PlaceNames DEF CallFails, Retries, FailsOver, SkipsProposer
  <2> QED BY <1>4, <2>1, <2>2, SpendTyped, BoundedNames DEF CallFails
<1>5. CASE CallCancelled(t)
  BY <1>5, InvocationsTyped, UpdateTyped, JobTyped DEF CallCancelled, FailInvocation, Errors
<1>6. CASE FinalAnswer(t)
  BY <1>6, JobTyped, PlaceNames DEF FinalAnswer
<1>7. CASE AsksClient(t)
  BY <1>7, JobTyped, PlaceNames, SpendTyped, BoundedNames DEF AsksClient
<1>8. CASE NextRound(t)
  <2>1. \A row \in Row : [row EXCEPT !.status = "generating"] \in Row
    BY StatusNames DEF Row
  <2> QED BY <1>8, <2>1, UpdateTyped, JobTyped, PlaceNames, SpendTyped, BoundedNames
          DEF NextRound
<1>9. CASE LosesQuorum(t)
  BY <1>9, SetStatusTyped, StatusNames, JobTyped, PlaceNames, SpendTyped, BoundedNames
     DEF LosesQuorum
<1> QED BY <1>1, <1>2, <1>3, <1>4, <1>5, <1>6, <1>7, <1>8, <1>9 DEF Infer

\* The ends of a coroutine keep the types.
LEMMA ConcludeTyped ==
  ASSUME TypeOK, NEW t \in Tasks, Conclude(t)
  PROVE  TypeOK'
<1> USE DEF TypeOK
<1>1. CASE OutputCheck(t)
  <2>1. \A row \in Row : [row EXCEPT !.status = "cancelled", !.pos = NotPlaced] \in Row
    BY StatusNames DEF Row, NotPlaced
  <2> QED BY <1>1, <2>1, InvocationsTyped, UpdateTyped, JobTyped, PlaceNames DEF OutputCheck
<1>2. CASE SaveSingle(t)
  <2>1. \A row \in Row : [row EXCEPT !.status = "completed", !.pos = NotPlaced] \in Row
    BY StatusNames DEF Row, NotPlaced
  <2> QED BY <1>2, <2>1, InvocationsTyped, UpdateTyped, JobTyped, PlaceNames
          DEF SaveSingle, CompleteSingle, Errors
<1>3. CASE AfterLoop(t)
  <2>1. /\ At(t, "finish") \/ At(t, "pause") \/ At(t, "yield")
        /\ \E place \in Places : Goto(t, place)
    BY <1>3, PlaceNames DEF AfterLoop, At
  <2> QED BY <1>3, <2>1, SetStatusTyped, StatusNames, JobTyped DEF AfterLoop
<1>4. CASE SaveFinish(t)
  BY <1>4, SetStatusTyped, StatusNames, JobTyped, PlaceNames DEF SaveFinish
<1>5. CASE SavePause(t)
  BY <1>5, SetStatusTyped, StatusNames, JobTyped, PlaceNames DEF SavePause, PauseForTools
<1>6. CASE SaveYield(t)
  BY <1>6, EnqueueStatusTyped, StatusNames, JobTyped, PlaceNames DEF SaveYield, YieldTurn
<1>7. CASE ErrorCheck(t)
  BY <1>7, SetStatusTyped, StatusNames, JobTyped, PlaceNames DEF ErrorCheck
<1>8. CASE SettleError(t)
  BY <1>8, DemotionTyped, DeferForMemoryTyped, OutageTyped, SetStatusTyped, StatusNames,
     JobTyped, PlaceNames DEF SettleError
<1>9. CASE Finally(t)
  <2>1. task' \in [Tasks -> Row]
    BY <1>9, InvocationsTyped, UpdateTyped DEF Finally
  <2> QED BY <1>9, <2>1, JobTyped, PlaceNames DEF Finally
<1>10. CASE HandlerReads(t)
  BY <1>10, JobTyped, PlaceNames DEF HandlerReads
<1>11. CASE HandlerSavesFailed(t)
  BY <1>11, SetStatusTyped, StatusNames, JobTyped DEF HandlerSavesFailed
<1> QED BY <1>1, <1>2, <1>3, <1>4, <1>5, <1>6, <1>7, <1>8, <1>9, <1>10, <1>11 DEF Conclude

\* Timeouts, unexpected errors and cancelled jobs keep the types.
LEMMA DisturbTyped ==
  ASSUME TypeOK, NEW t \in Tasks, Disturb(t)
  PROVE  TypeOK'
<1> USE DEF TypeOK
<1>1. CASE TimesOut(t)
  BY <1>1, JobTyped, SpendTyped, BoundedNames DEF TimesOut, Errors
<1>2. CASE InternalError(t)
  <2>1. \A place \in Places, e \in Errors, j \in Job : [j EXCEPT !.at = place, !.err = e] \in Job
    BY DEF Job
  <2>2. "internal" \in Errors
    BY DEF Errors
  <2> QED BY <1>2, <2>1, <2>2, PlaceNames, SpendTyped, BoundedNames DEF InternalError
<1>3. CASE LaneJobCancelled(t)
  BY <1>3, JobTyped, PlaceNames DEF LaneJobCancelled
<1> QED BY <1>1, <1>2, <1>3 DEF Disturb

\* Stops, crashes, starts and the clock keep the types.
LEMMA LifespanTyped ==
  ASSUME TypeOK, Lifespan
  PROVE  TypeOK'
<1> USE DEF TypeOK
<1>1. CASE Stop
  BY <1>1, SpendTyped, BoundedNames DEF Stop
<1>2. CASE Stopped
  BY <1>2 DEF Stopped
<1>3. CASE Crash
  <2>1. NoJob \in Job
    BY DEF NoJob, Job, Places, Errors
  <2> QED BY <1>3, <2>1, SpendTyped, BoundedNames DEF Crash
<1>4. CASE Start
  <2>1. PICK place \in Numberings(Requeueable) : RecoverInterrupted(place)
    BY <1>4 DEF Start
  <2>2. place \in [Requeueable -> Nat]
    BY <2>1 DEF Numberings
  <2> QED BY <1>4, <2>1, <2>2, RecoveryTyped DEF Start
<1>5. CASE Tick
  BY <1>5, TimeTyped DEF Tick
<1> QED BY <1>1, <1>2, <1>3, <1>4, <1>5 DEF Lifespan

\* The broker starts with values of the right types.
LEMMA InitTyped ==
  ASSUME Init
  PROVE  TypeOK
<1>1. NoJob \in Job
  BY DEF NoJob, Job, Places, Errors
<1> QED BY <1>1, NoRowTyped, BrokerAssumption DEF Init, TypeOK

\* Every step keeps the types.
LEMMA StepTyped ==
  ASSUME TypeOK, [Next]_vars
  PROVE  TypeOK'
<1>1. CASE Next
  <2>1. \A t \in Tasks : Client(t) \/ Dispatch(t) \/ Prepare(t) \/ Infer(t)
                            \/ Conclude(t) \/ Disturb(t) => TypeOK'
    BY ClientTyped, DispatchTyped, PrepareTyped, InferTyped, ConcludeTyped, DisturbTyped
  <2>2. CancelAllPending \/ Reorder => TypeOK'
    <3>1. 1 \in Tasks
      BY SizesAssumption DEF Tasks
    <3> QED BY <3>1, ClientTyped
  <2>3. DispatchNothing => TypeOK'
    <3>1. 1 \in Tasks
      BY SizesAssumption DEF Tasks
    <3> QED BY <3>1, DispatchTyped
  <2> QED BY <1>1, <2>1, <2>2, <2>3, LifespanTyped DEF Next
<1>2. CASE UNCHANGED vars
  BY <1>2 DEF vars, TypeOK
<1> QED BY <1>1, <1>2

\* The variables always hold values of their types: every transaction of the
\* repository writes rows of the table, and a place in the queue always exists.
THEOREM TypeIsInvariant == Spec => []TypeOK
BY InitTyped, StepTyped, PTL DEF Spec

----------------------------------------------------------------------------
(* Steps of one coroutine.                                                 *)

\* Nothing but t changes.
OnlyConcerns(t) ==
  /\ \A x \in Tasks \ {t} : /\ Kept(x) /\ task'[x].status = task[x].status
                            /\ job'[x] = job[x] /\ late'[x] = late[x]
  /\ phase' = phase /\ left'["tick"] = left["tick"]

\* x does not come to work in a lane where it did not work before.
ComesToNoLane(x) ==
  /\ job'[x].lane \in {job[x].lane, "none"}
  /\ task'[x].status \in ActiveStatuses =>
       /\ task'[x].kind = task[x].kind
       /\ Active(x) \/ job[x].lane = task[x].kind

\* The job of t goes to a place with an error, or ends; no other job moves.
Goes(t, place, e) ==
  /\ job'[t].at = place /\ job'[t].err = e
  /\ job'[t].lane = job[t].lane /\ job'[t].by = job[t].by
  /\ \A x \in Tasks \ {t} : job'[x] = job[x]

Ends(t) == job'[t] = NoJob /\ \A x \in Tasks \ {t} : job'[x] = job[x]

\* The rest of the state, as far as the invariant looks at it.
RestStays == phase' = phase /\ left'["tick"] = left["tick"] /\ late' = late

\* What is over stays over.
KeepsEnd(x) ==
  task[x].status \in {"completed", "failed"} => task'[x].status = task[x].status

\* What Goto, Throw and Return do, field by field.
LEMMA JobEffect ==
  ASSUME job \in [Tasks -> Job], NEW t \in Tasks
  PROVE  /\ \A place \in Places : Goto(t, place) => Goes(t, place, job[t].err)
         /\ \A e \in Errors : Throw(t, e) => Goes(t, "error", e)
         /\ job' = [job EXCEPT ![t] = [@ EXCEPT !.at = "finally", !.err = "internal"]]
              => Goes(t, "finally", "internal")
         /\ Return(t) => Ends(t)
<1>1. ASSUME NEW place \in Places, Goto(t, place) PROVE Goes(t, place, job[t].err)
  BY <1>1 DEF Goto, Goes, Job
<1>2. ASSUME NEW e \in Errors, Throw(t, e) PROVE Goes(t, "error", e)
  BY <1>2 DEF Throw, Goes, Job
<1>3. Return(t) => Ends(t)
  BY DEF Return, Ends
<1>4. job' = [job EXCEPT ![t] = [@ EXCEPT !.at = "finally", !.err = "internal"]]
        => Goes(t, "finally", "internal")
  BY DEF Goes, Job
<1> QED BY <1>1, <1>2, <1>3, <1>4

\* What makes a step of the coroutine of t sound that leaves status s and goes
\* to a place.
MayGo(t, s, place, e) ==
  /\ place # "idle" /\ s # "absent"
  /\ place \notin Settled => job[t].at \notin Settled
  /\ job[t].at \in Settled => s = task[t].status
  /\ s \in ActiveStatuses => Active(t) \/ job[t].at \notin Settled
  /\ place = "finally" /\ e # "internal" => phase # "up" \/ s \notin ActiveStatuses
  /\ s \in {"completed", "failed"} =>
       place \in Settled /\ (place = "saveFailed" => s = "failed")
  /\ place \in LoopPlaces => IsLoop(t)
  /\ place = "saveSingle" /\ task[t].cancelReq => s = "cancelled"
  /\ task[t].strategy = "single" /\ task[t].cancelReq => s # "completed"
  /\ place \in {"begin", "failover", "launch"} /\ task[t].strategy # "mixture"
       => late[t] = 0

\* A step of the coroutine of t that leaves an allowed status and goes to an
\* allowed place keeps the invariant of t and disturbs nobody else.
LEMMA GoingIsSound ==
  ASSUME TypeOK, NEW t \in Tasks, Sound(t), NEW s, NEW place, NEW e,
         job[t].at # "idle",
         StatusBecomes(t, s), Goes(t, place, e), RestStays, MayGo(t, s, place, e)
  PROVE  OnlyConcerns(t) /\ Sound(t)' /\ ComesToNoLane(t) /\ KeepsEnd(t)
<1> USE DEF StatusBecomes, Kept, Goes, MayGo, RestStays, Settled
<1>1. OnlyConcerns(t)
  BY DEF OnlyConcerns
<1>2. JobIsWhole(t)'
  BY DEF Sound, JobIsWhole, NoManualTick
<1>3. RunsInItsLane(t)'
  BY DEF Sound, RunsInItsLane
<1>4. IsHeld(t)'
  BY DEF Sound, IsHeld, RunsInItsLane, Active, NoManualTick
<1>5. FinishedRests(t)'
  BY DEF FinishedRests
<1>6. SavesItsOwn(t)'
  BY DEF SavesItsOwn, IsLoop
<1>7. LateOnce(t)'
  BY DEF Sound, LateOnce, TypeOK
<1>8. ComesToNoLane(t)
  BY DEF ComesToNoLane, Sound, RunsInItsLane, Active
<1>9. KeepsEnd(t)
  BY DEF KeepsEnd, Sound, FinishedRests
<1> QED BY <1>1, <1>2, <1>3, <1>4, <1>5, <1>6, <1>7, <1>8, <1>9 DEF Sound

\* What makes it sound that the coroutine of t ends with status s.
MayEnd(t, s) ==
  /\ s # "absent"
  /\ job[t].at \in Settled =>
       s = task[t].status \/ (job[t].at = "saveFailed" /\ s = "failed")
  /\ s \in ActiveStatuses => Active(t) /\ (phase = "up" => ~NoManualTick)
  /\ task[t].strategy = "single" /\ task[t].cancelReq => s # "completed"

\* The same for a step that ends the coroutine.
LEMMA EndingIsSound ==
  ASSUME TypeOK, NEW t \in Tasks, Sound(t), NEW s,
         StatusBecomes(t, s), Ends(t), RestStays, MayEnd(t, s)
  PROVE  OnlyConcerns(t) /\ Sound(t)' /\ ComesToNoLane(t) /\ KeepsEnd(t)
<1> USE DEF StatusBecomes, Kept, Ends, MayEnd, RestStays, Settled, NoJob
<1>1. OnlyConcerns(t)
  BY DEF OnlyConcerns
<1>2. JobIsWhole(t)'
  BY DEF JobIsWhole
<1>3. RunsInItsLane(t)'
  BY DEF RunsInItsLane
<1>4. IsHeld(t)'
  BY DEF IsHeld, Active, NoManualTick
<1>5. FinishedRests(t)'
  BY DEF FinishedRests
<1>6. SavesItsOwn(t)'
  BY DEF SavesItsOwn, IsLoop, LoopPlaces
<1>7. LateOnce(t)'
  BY DEF Sound, LateOnce, TypeOK
<1>8. ComesToNoLane(t)
  BY DEF ComesToNoLane, Active
<1>9. KeepsEnd(t)
  BY DEF KeepsEnd, Sound, FinishedRests
<1> QED BY <1>1, <1>2, <1>3, <1>4, <1>5, <1>6, <1>7, <1>8, <1>9 DEF Sound

\* The steps before the work keep the invariant.
LEMMA PrepareSound ==
  ASSUME IInv, NEW t \in Tasks, Prepare(t)
  PROVE  OnlyConcerns(t) /\ Sound(t)' /\ ComesToNoLane(t) /\ KeepsEnd(t)
<1> DEFINE status == task[t].status
           err == job[t].err
<1>1. /\ task \in [Tasks -> Row] /\ job \in [Tasks -> Job] /\ late \in [Tasks -> Nat]
      /\ TypeOK /\ Sound(t) /\ late[t] \in Nat
  BY DEF IInv, TypeOK
<1>2. \A what \in Bounded \ {"tick", "any"} : Spend(what) => left'["tick"] = left["tick"]
  BY DEF IInv, TypeOK, Spend, Bounded
<1>3. StatusesStay => StatusBecomes(t, status)
  BY DEF StatusesStay, StatusBecomes
<1>4. UNCHANGED task => StatusBecomes(t, status)
  BY DEF StatusBecomes, Kept
<1>5. job[t].at \notin Settled =>
        job[t].at # "idle" /\ status \notin {"absent", "completed", "failed"}
  BY <1>1 DEF Sound, JobIsWhole, FinishedRests, Settled
<1>6. ~CancelRequested(t) => ~task[t].cancelReq /\ late[t] = 0
  BY <1>1 DEF CancelRequested, Sound, LateOnce
<1> HIDE DEF status, err
<1> USE DEF At, RestStays
<1>7. CASE AwaitDependencies(t)
  <2>1. job[t].at = "deps" /\ RestStays /\ StatusBecomes(t, status)
    BY <1>1, <1>3, <1>4, <1>7, WaitEffect DEF AwaitDependencies
  <2>2. Goes(t, "entry", err) \/ Goes(t, "defer", err)
    BY <1>1, <1>7, JobEffect, PlaceNames DEF AwaitDependencies, err
  <2>3. MayGo(t, status, "entry", err) /\ MayGo(t, status, "defer", err)
    BY <1>5, <2>1 DEF MayGo, Settled, LoopPlaces, Active, status
  <2> QED BY <1>1, <2>1, <2>2, <2>3, GoingIsSound
<1>8. CASE DeferTask(t)
  <2>1. job[t].at = "defer" /\ StatusBecomes(t, "waiting_for_dependencies") /\ Ends(t) /\ RestStays
    BY <1>1, <1>8, WaitEffect, JobEffect DEF DeferTask
  <2>2. MayEnd(t, "waiting_for_dependencies")
    BY <2>1 DEF MayEnd, Settled, ActiveStatuses
  <2> QED BY <1>1, <2>1, <2>2, EndingIsSound
<1>9. CASE AttachmentsFail(t)
  <2>1. job[t].at = "entry" /\ StatusBecomes(t, "failed") /\ Ends(t) /\ RestStays
    BY <1>1, <1>2, <1>9, SetStatusEffect, StatusNames, JobEffect, BoundedNames
       DEF AttachmentsFail
  <2>2. MayEnd(t, "failed")
    BY <2>1 DEF MayEnd, Settled, ActiveStatuses
  <2> QED BY <1>1, <2>1, <2>2, EndingIsSound
<1>10. CASE EntryCheck(t)
  <2>1. job[t].at = "entry" /\ RestStays
    BY <1>10 DEF EntryCheck
  <2>2. CASE CancelRequested(t)
    <3>1. StatusBecomes(t, "cancelled") /\ Goes(t, "finally", err)
      BY <1>1, <1>10, <2>2, SetStatusEffect, StatusNames, JobEffect, PlaceNames
         DEF EntryCheck, err
    <3>2. MayGo(t, "cancelled", "finally", err)
      BY <2>1 DEF MayGo, Settled, LoopPlaces, ActiveStatuses
    <3> QED BY <1>1, <2>1, <3>1, <3>2, GoingIsSound
  <2>3. CASE ~CancelRequested(t)
    <3>1. StatusBecomes(t, status) /\ Goes(t, "begin", err)
      BY <1>1, <1>4, <1>10, <2>3, JobEffect, PlaceNames DEF EntryCheck, err
    <3>2. MayGo(t, status, "begin", err)
      BY <1>5, <1>6, <2>1, <2>3 DEF MayGo, Settled, LoopPlaces, Active, status
    <3> QED BY <1>1, <2>1, <3>1, <3>2, GoingIsSound
  <2> QED BY <2>2, <2>3
<1>11. CASE RejectRequest(t)
  <2>1. job[t].at = "begin" /\ RestStays /\ StatusBecomes(t, "failed") /\ Goes(t, "finally", err)
    BY <1>1, <1>2, <1>11, SetStatusEffect, StatusNames, JobEffect, PlaceNames, BoundedNames
       DEF RejectRequest, err
  <2>2. MayGo(t, "failed", "finally", err)
    BY <2>1 DEF MayGo, Settled, LoopPlaces, ActiveStatuses
  <2> QED BY <1>1, <2>1, <2>2, GoingIsSound
<1>12. CASE SelectionFails(t)
  <2>1. job[t].at = "begin" /\ RestStays /\ StatusBecomes(t, status)
    BY <1>2, <1>4, <1>12, BoundedNames DEF SelectionFails
  <2>2. PICK e \in Errors : Goes(t, "error", e)
    BY <1>1, <1>12, JobEffect DEF SelectionFails, Errors
  <2>3. MayGo(t, status, "error", e)
    BY <1>5, <2>1 DEF MayGo, Settled, LoopPlaces, Active, status
  <2> QED BY <1>1, <2>1, <2>2, <2>3, GoingIsSound
<1>13. CASE BeginWork(t)
  <2>1. job[t].at \in {"begin", "failover"} /\ RestStays /\ StatusBecomes(t, "generating")
    BY <1>1, <1>13, SetStatusEffect, StatusNames DEF BeginWork
  <2>2. \/ IsLoop(t) /\ Goes(t, "check", err)
        \/ task[t].strategy = "single" /\ Goes(t, "launch", err)
    BY <1>1, <1>13, JobEffect, PlaceNames DEF BeginWork, IsLoop, err
  <2>3. task[t].strategy = "single" => late[t] = 0
    BY <1>1, <2>1 DEF Sound, LateOnce
  <2>4. /\ IsLoop(t) => MayGo(t, "generating", "check", err)
        /\ task[t].strategy = "single" => MayGo(t, "generating", "launch", err)
    BY <2>1, <2>3 DEF MayGo, Settled, LoopPlaces, ActiveStatuses, Active
  <2>5. job[t].at # "idle"
    BY <2>1
  <2> QED BY <1>1, <2>1, <2>2, <2>4, <2>5, GoingIsSound
<1> QED BY <1>7, <1>8, <1>9, <1>10, <1>11, <1>12, <1>13 DEF Prepare

\* Provider calls and rounds keep the invariant.
LEMMA InferSound ==
  ASSUME IInv, NEW t \in Tasks, Infer(t)
  PROVE  OnlyConcerns(t) /\ Sound(t)' /\ ComesToNoLane(t) /\ KeepsEnd(t)
<1> DEFINE status == task[t].status
           err == job[t].err
<1>1. /\ task \in [Tasks -> Row] /\ job \in [Tasks -> Job] /\ late \in [Tasks -> Nat]
      /\ TypeOK /\ Sound(t) /\ late[t] \in Nat
  BY DEF IInv, TypeOK
<1>2. \A what \in Bounded \ {"tick", "any"} : Spend(what) => left'["tick"] = left["tick"]
  BY DEF IInv, TypeOK, Spend, Bounded
<1>3. StatusesStay => StatusBecomes(t, status)
  BY DEF StatusesStay, StatusBecomes
<1>4. UNCHANGED task => StatusBecomes(t, status)
  BY DEF StatusBecomes, Kept
<1>5. job[t].at \notin Settled =>
        job[t].at # "idle" /\ status \notin {"absent", "completed", "failed"}
  BY <1>1 DEF Sound, JobIsWhole, FinishedRests, Settled
<1>6. ~CancelRequested(t) => ~task[t].cancelReq /\ late[t] = 0
  BY <1>1 DEF CancelRequested, Sound, LateOnce
<1> HIDE DEF status, err
<1> USE DEF At, RestStays
<1>7. CASE RoundCheck(t)
  <2>1. job[t].at = "check" /\ RestStays
    BY <1>7 DEF RoundCheck
  <2>2. CASE CancelRequested(t)
    <3>1. StatusBecomes(t, "cancelled") /\ Goes(t, "finally", err)
      BY <1>1, <1>7, <2>2, SetStatusEffect, StatusNames, JobEffect, PlaceNames
         DEF RoundCheck, err
    <3>2. MayGo(t, "cancelled", "finally", err)
      BY <2>1 DEF MayGo, Settled, LoopPlaces, ActiveStatuses
    <3> QED BY <1>1, <2>1, <3>1, <3>2, GoingIsSound
  <2>3. CASE ~CancelRequested(t)
    <3>1. StatusBecomes(t, status) /\ Goes(t, "launch", err)
      BY <1>1, <1>4, <1>7, <2>3, JobEffect, PlaceNames DEF RoundCheck, err
    <3>2. MayGo(t, status, "launch", err)
      BY <1>5, <1>6, <2>1, <2>3 DEF MayGo, Settled, LoopPlaces, Active, status
    <3> QED BY <1>1, <2>1, <3>1, <3>2, GoingIsSound
  <2> QED BY <2>2, <2>3
<1>8. CASE StartCall(t)
  <2>1. job[t].at = "launch" /\ StatusBecomes(t, status)
    BY <1>1, <1>3, <1>8, OpenEffect, BrokerAssumption DEF StartCall
  <2>2. Goes(t, "call", err) /\ phase' = phase /\ left' = left
    BY <1>1, <1>8, JobEffect, PlaceNames DEF StartCall, err
  <2>3. /\ \A x \in Tasks \ {t} : late'[x] = late[x]
        /\ late'[t] = IF task[t].cancelReq THEN late[t] + 1 ELSE late[t]
    BY <1>1, <1>8 DEF StartCall
  <2> USE DEF StatusBecomes, Kept, Goes, Settled, status
  <2>4. OnlyConcerns(t)
    BY <2>1, <2>2, <2>3 DEF OnlyConcerns
  <2>5. JobIsWhole(t)' /\ RunsInItsLane(t)'
    BY <1>1, <2>1, <2>2 DEF Sound, JobIsWhole, RunsInItsLane, NoManualTick
  <2>6. IsHeld(t)'
    BY <1>1, <2>1, <2>2 DEF Sound, IsHeld, RunsInItsLane, Active, NoManualTick
  <2>7. FinishedRests(t)' /\ SavesItsOwn(t)'
    BY <1>5, <2>1, <2>2 DEF FinishedRests, SavesItsOwn, LoopPlaces
  <2>8. LateOnce(t)'
    BY <1>1, <2>1, <2>2, <2>3 DEF Sound, LateOnce
  <2>9. ComesToNoLane(t)
    BY <1>1, <2>1, <2>2 DEF ComesToNoLane, Sound, RunsInItsLane, Active
  <2>10. KeepsEnd(t)
    BY <2>1 DEF KeepsEnd
  <2> QED BY <2>4, <2>5, <2>6, <2>7, <2>8, <2>9, <2>10 DEF Sound
<1>9. CASE CallReturns(t)
  <2>1. job[t].at = "call" /\ RestStays /\ StatusBecomes(t, status)
    BY <1>1, <1>3, <1>4, <1>9, OpenEffect DEF CallReturns
  <2>2. (IsLoop(t) /\ Goes(t, "turn", err)) \/ Goes(t, "output", err)
    BY <1>1, <1>9, JobEffect, PlaceNames DEF CallReturns, err
  <2>3. /\ IsLoop(t) => MayGo(t, status, "turn", err)
        /\ MayGo(t, status, "output", err)
    BY <1>5, <2>1 DEF MayGo, Settled, LoopPlaces, Active, status
  <2> QED BY <1>1, <2>1, <2>2, <2>3, GoingIsSound
<1>10. CASE CallFails(t)
  <2>1. job[t].at = "call" /\ RestStays /\ StatusBecomes(t, status)
    BY <1>1, <1>2, <1>3, <1>10, OpenEffect, BoundedNames DEF CallFails
  <2>2. \/ ~CancelRequested(t) /\ (Goes(t, "launch", err) \/ Goes(t, "failover", err))
        \/ IsLoop(t) /\ Goes(t, "check", err)
        \/ \E e \in Errors : Goes(t, "error", e)
    BY <1>1, <1>10, JobEffect, PlaceNames
       DEF CallFails, Retries, FailsOver, SkipsProposer, IsLoop, err, Errors
  <2>3. /\ ~CancelRequested(t) =>
             MayGo(t, status, "launch", err) /\ MayGo(t, status, "failover", err)
        /\ IsLoop(t) => MayGo(t, status, "check", err)
        /\ \A e \in Errors : MayGo(t, status, "error", e)
    BY <1>5, <1>6, <2>1 DEF MayGo, Settled, LoopPlaces, Active, status
  <2> QED BY <1>1, <2>1, <2>2, <2>3, GoingIsSound
<1>11. CASE CallCancelled(t)
  <2>1. job[t].at = "call" /\ RestStays /\ StatusBecomes(t, status)
    BY <1>1, <1>3, <1>11, OpenEffect DEF CallCancelled
  <2>2. Goes(t, "error", "cancelled")
    BY <1>1, <1>11, JobEffect DEF CallCancelled, Errors
  <2>3. MayGo(t, status, "error", "cancelled")
    BY <1>5, <2>1 DEF MayGo, Settled, LoopPlaces, Active, status
  <2> QED BY <1>1, <2>1, <2>2, <2>3, GoingIsSound
<1>12. CASE FinalAnswer(t) \/ AsksClient(t)
  <2>1. job[t].at = "turn" /\ RestStays /\ StatusBecomes(t, status)
    BY <1>2, <1>4, <1>12, BoundedNames DEF FinalAnswer, AsksClient
  <2>2. Goes(t, "finish", err) \/ Goes(t, "pause", err)
    BY <1>1, <1>12, JobEffect, PlaceNames DEF FinalAnswer, AsksClient, err
  <2>3. IsLoop(t)
    BY <1>1, <2>1 DEF Sound, SavesItsOwn, LoopPlaces
  <2>4. MayGo(t, status, "finish", err) /\ MayGo(t, status, "pause", err)
    BY <1>5, <2>1, <2>3 DEF MayGo, Settled, LoopPlaces, Active, status
  <2> QED BY <1>1, <2>1, <2>2, <2>4, GoingIsSound
<1>13. CASE NextRound(t)
  <2>1. job[t].at = "turn" /\ RestStays /\ StatusBecomes(t, "generating")
    BY <1>1, <1>2, <1>13, UpdateStatusEffect, StatusNames, BoundedNames DEF NextRound
  <2>2. Goes(t, "check", err) \/ Goes(t, "yield", err) \/ Goes(t, "saveYield", err)
    BY <1>1, <1>13, JobEffect, PlaceNames DEF NextRound, err
  <2>3. IsLoop(t)
    BY <1>1, <2>1 DEF Sound, SavesItsOwn, LoopPlaces
  <2>4. \A place \in {"check", "yield", "saveYield"} : MayGo(t, "generating", place, err)
    BY <2>1, <2>3 DEF MayGo, Settled, LoopPlaces
  <2> QED BY <1>1, <2>1, <2>2, <2>4, GoingIsSound
<1>14. CASE LosesQuorum(t)
  <2>1. job[t].at = "check" /\ RestStays /\ StatusBecomes(t, "failed") /\ Goes(t, "finally", err)
    BY <1>1, <1>2, <1>14, SetStatusEffect, StatusNames, JobEffect, PlaceNames, BoundedNames
       DEF LosesQuorum, err
  <2>2. MayGo(t, "failed", "finally", err)
    BY <2>1 DEF MayGo, Settled, LoopPlaces, ActiveStatuses
  <2> QED BY <1>1, <2>1, <2>2, GoingIsSound
<1> QED BY <1>7, <1>8, <1>9, <1>10, <1>11, <1>12, <1>13, <1>14 DEF Infer

\* The ends of a coroutine, its error handlers and its finally block keep it.
LEMMA ConcludeSound ==
  ASSUME IInv, NEW t \in Tasks, Conclude(t)
  PROVE  OnlyConcerns(t) /\ Sound(t)' /\ ComesToNoLane(t) /\ KeepsEnd(t)
<1> DEFINE status == task[t].status
           err == job[t].err
<1>1. /\ task \in [Tasks -> Row] /\ job \in [Tasks -> Job] /\ late \in [Tasks -> Nat]
      /\ TypeOK /\ Sound(t) /\ late[t] \in Nat
  BY DEF IInv, TypeOK
<1>2. \A what \in Bounded \ {"tick", "any"} : Spend(what) => left'["tick"] = left["tick"]
  BY DEF IInv, TypeOK, Spend, Bounded
<1>3. StatusesStay => StatusBecomes(t, status)
  BY DEF StatusesStay, StatusBecomes
<1>4. UNCHANGED task => StatusBecomes(t, status)
  BY DEF StatusBecomes, Kept
<1>5. job[t].at \notin Settled =>
        job[t].at # "idle" /\ status \notin {"absent", "completed", "failed"}
  BY <1>1 DEF Sound, JobIsWhole, FinishedRests, Settled
<1>6. ~CancelRequested(t) => ~task[t].cancelReq /\ late[t] = 0
  BY <1>1 DEF CancelRequested, Sound, LateOnce
<1> HIDE DEF status, err
<1> USE DEF At, RestStays
<1>7. CASE OutputCheck(t)
  <2>1. job[t].at = "output" /\ RestStays
    BY <1>7 DEF OutputCheck
  <2>2. CASE CancelRequested(t)
    <3>1. StatusBecomes(t, "cancelled") /\ Goes(t, "finally", err)
      BY <1>1, <1>7, <2>2, ClosingEffect, StatusNames, JobEffect, PlaceNames
         DEF OutputCheck, err
    <3>2. MayGo(t, "cancelled", "finally", err)
      BY <2>1 DEF MayGo, Settled, LoopPlaces, ActiveStatuses
    <3> QED BY <1>1, <2>1, <3>1, <3>2, GoingIsSound
  <2>3. CASE ~CancelRequested(t)
    <3>1. StatusBecomes(t, status) /\ Goes(t, "saveSingle", err)
      BY <1>1, <1>4, <1>7, <2>3, JobEffect, PlaceNames DEF OutputCheck, err
    <3>2. MayGo(t, status, "saveSingle", err)
      BY <1>5, <1>6, <2>1, <2>3 DEF MayGo, Settled, LoopPlaces, Active, status
    <3> QED BY <1>1, <2>1, <3>1, <3>2, GoingIsSound
  <2> QED BY <2>2, <2>3
<1>8. CASE SaveSingle(t)
  <2>1. job[t].at = "saveSingle" /\ RestStays
    BY <1>8 DEF SaveSingle
  <2>2. CASE task[t].status = "cancelled"
    <3>1. StatusBecomes(t, status) /\ Goes(t, "error", "cancelled")
      BY <1>1, <1>4, <1>8, <2>2, JobEffect DEF SaveSingle, Errors
    <3>2. MayGo(t, status, "error", "cancelled")
      BY <1>5, <2>1 DEF MayGo, Settled, LoopPlaces, Active, status
    <3> QED BY <1>1, <2>1, <3>1, <3>2, GoingIsSound
  <2>3. CASE task[t].status # "cancelled"
    <3>1. StatusBecomes(t, "completed") /\ Goes(t, "finally", err)
      BY <1>1, <1>8, <2>3, ClosingEffect, StatusNames, JobEffect, PlaceNames
         DEF SaveSingle, CompleteSingle, err
    <3>2. ~task[t].cancelReq
      BY <1>1, <2>1, <2>3 DEF Sound, SavesItsOwn
    <3>3. MayGo(t, "completed", "finally", err)
      BY <2>1, <3>2 DEF MayGo, Settled, LoopPlaces, ActiveStatuses
    <3> QED BY <1>1, <2>1, <3>1, <3>3, GoingIsSound
  <2> QED BY <2>2, <2>3
<1>9. CASE AfterLoop(t)
  <2>1. job[t].at \in {"finish", "pause", "yield"} /\ RestStays /\ job[t].at # "idle"
    BY <1>9 DEF AfterLoop
  <2>2. CASE CancelRequested(t)
    <3>1. StatusBecomes(t, "cancelled") /\ Goes(t, "finally", err)
      BY <1>1, <1>9, <2>2, SetStatusEffect, StatusNames, JobEffect, PlaceNames
         DEF AfterLoop, err
    <3>2. MayGo(t, "cancelled", "finally", err)
      BY <2>1 DEF MayGo, Settled, LoopPlaces, ActiveStatuses
    <3> QED BY <1>1, <2>1, <3>1, <3>2, GoingIsSound
  <2>3. CASE ~CancelRequested(t)
    <3>1. \E place \in {"saveFinish", "savePause", "saveYield"} : Goto(t, place)
      BY <1>9, <2>1, <2>3 DEF AfterLoop
    <3>2. PICK place \in {"saveFinish", "savePause", "saveYield"} : Goes(t, place, err)
      BY <1>1, <3>1, JobEffect, PlaceNames DEF err
    <3>3. StatusBecomes(t, status)
      BY <1>4, <1>9, <2>3 DEF AfterLoop
    <3>4. IsLoop(t)
      BY <1>1, <2>1 DEF Sound, SavesItsOwn, LoopPlaces
    <3>5. MayGo(t, status, place, err)
      BY <1>5, <2>1, <3>4 DEF MayGo, Settled, LoopPlaces, Active, status
    <3> QED BY <1>1, <2>1, <3>2, <3>3, <3>5, GoingIsSound
  <2> QED BY <2>2, <2>3
<1>10. CASE SaveFinish(t)
  <2>1. /\ job[t].at = "saveFinish" /\ RestStays
        /\ StatusBecomes(t, "completed") /\ Goes(t, "finally", err)
    BY <1>1, <1>10, SetStatusEffect, StatusNames, JobEffect, PlaceNames DEF SaveFinish, err
  <2>2. task[t].strategy # "single"
    BY <1>1, <2>1 DEF Sound, SavesItsOwn, LoopPlaces, IsLoop
  <2>3. MayGo(t, "completed", "finally", err)
    BY <2>1, <2>2 DEF MayGo, Settled, LoopPlaces, ActiveStatuses
  <2> QED BY <1>1, <2>1, <2>3, GoingIsSound
<1>11. CASE SavePause(t)
  <2>1. /\ job[t].at = "savePause" /\ RestStays
        /\ StatusBecomes(t, "waiting_for_tools") /\ Goes(t, "finally", err)
    BY <1>1, <1>11, SetStatusEffect, StatusNames, JobEffect, PlaceNames
       DEF SavePause, PauseForTools, err
  <2>2. MayGo(t, "waiting_for_tools", "finally", err)
    BY <2>1 DEF MayGo, Settled, LoopPlaces, ActiveStatuses
  <2> QED BY <1>1, <2>1, <2>2, GoingIsSound
<1>12. CASE SaveYield(t)
  <2>1. /\ job[t].at = "saveYield" /\ RestStays
        /\ StatusBecomes(t, "queued") /\ Goes(t, "finally", err)
    BY <1>1, <1>12, EnqueueStatusEffect, StatusNames, JobEffect, PlaceNames
       DEF SaveYield, YieldTurn, err
  <2>2. MayGo(t, "queued", "finally", err)
    BY <2>1 DEF MayGo, Settled, LoopPlaces, ActiveStatuses
  <2> QED BY <1>1, <2>1, <2>2, GoingIsSound
<1>13. CASE ErrorCheck(t)
  <2>1. job[t].at = "error" /\ RestStays
    BY <1>13 DEF ErrorCheck
  <2>2. \/ StatusBecomes(t, "cancelled") /\ Goes(t, "finally", err)
        \/ StatusBecomes(t, status) /\ Goes(t, "settle", err)
    BY <1>1, <1>4, <1>13, SetStatusEffect, StatusNames, JobEffect, PlaceNames
       DEF ErrorCheck, err
  <2>3. MayGo(t, "cancelled", "finally", err)
    BY <2>1 DEF MayGo, Settled, LoopPlaces, ActiveStatuses
  <2>4. MayGo(t, status, "settle", err)
    BY <1>5, <2>1 DEF MayGo, Settled, LoopPlaces, Active, status
  <2> QED BY <1>1, <2>1, <2>2, <2>3, <2>4, GoingIsSound
<1>14. CASE SettleError(t)
  <2>1. job[t].at = "settle" /\ RestStays /\ Goes(t, "finally", err)
    BY <1>1, <1>14, JobEffect, PlaceNames DEF SettleError, err
  <2>2. CASE DemoteToInference(t)
    <3>1. /\ task'[t].status = "queued" /\ task'[t].strategy = task[t].strategy
          /\ task'[t].cancelReq = task[t].cancelReq
          /\ \A x \in Tasks \ {t} : Kept(x) /\ task'[x].status = task[x].status
      BY <1>1, <2>2, DemotionEffect
    <3> USE DEF Goes, Settled
    <3>2. OnlyConcerns(t)
      BY <2>1, <3>1 DEF OnlyConcerns
    <3>3. JobIsWhole(t)' /\ RunsInItsLane(t)'
      BY <1>1, <2>1, <3>1 DEF Sound, JobIsWhole, RunsInItsLane, NoManualTick
    <3>4. IsHeld(t)' /\ FinishedRests(t)'
      BY <3>1 DEF IsHeld, FinishedRests, Active, ActiveStatuses
    <3>5. SavesItsOwn(t)'
      BY <2>1, <3>1 DEF SavesItsOwn, LoopPlaces
    <3>6. LateOnce(t)'
      BY <1>1, <2>1, <3>1 DEF Sound, LateOnce
    <3>7. ComesToNoLane(t)
      BY <2>1, <3>1 DEF ComesToNoLane, ActiveStatuses
    <3>8. KeepsEnd(t)
      BY <1>5, <2>1 DEF KeepsEnd, status
    <3> QED BY <3>2, <3>3, <3>4, <3>5, <3>6, <3>7, <3>8 DEF Sound
  <2>3. CASE ~DemoteToInference(t)
    <3>1. PICK s \in {"waiting_for_memory", "queued", "failed"} : StatusBecomes(t, s)
      BY <1>1, <1>14, <2>3, DeferForMemoryEffect, OutageEffect, SetStatusEffect, StatusNames
         DEF SettleError
    <3>2. MayGo(t, s, "finally", err)
      BY <2>1 DEF MayGo, Settled, LoopPlaces, ActiveStatuses
    <3> QED BY <1>1, <2>1, <3>1, <3>2, GoingIsSound
  <2> QED BY <2>2, <2>3
<1>15. CASE Finally(t)
  <2>1. job[t].at = "finally" /\ RestStays /\ StatusBecomes(t, status)
    BY <1>1, <1>3, <1>15, CleanupEffect DEF Finally
  <2>2. status # "absent" /\ (task[t].strategy = "single" /\ task[t].cancelReq
                                => status # "completed")
    BY <1>1, <2>1 DEF Sound, JobIsWhole, SavesItsOwn, status
  <2>3. CASE job[t].err = "internal" /\ job[t].by = "loop"
    <3>1. Goes(t, "handler", err)
      BY <1>1, <1>15, <2>3, JobEffect, PlaceNames DEF Finally, err
    <3>2. MayGo(t, status, "handler", err)
      BY <2>1, <2>2 DEF MayGo, Settled, LoopPlaces, Active, status
    <3> QED BY <1>1, <2>1, <3>1, <3>2, GoingIsSound
  <2>4. CASE ~(job[t].err = "internal" /\ job[t].by = "loop")
    <3>1. Ends(t)
      BY <1>1, <1>15, <2>4, JobEffect DEF Finally
    <3>2. phase = "up" /\ Active(t) => ~NoManualTick
      BY <1>1, <2>1, <2>4 DEF Sound, IsHeld, JobIsWhole
    <3>3. MayEnd(t, status)
      BY <2>2, <3>2 DEF MayEnd, Settled, Active, status
    <3> QED BY <1>1, <2>1, <3>1, <3>3, EndingIsSound
  <2> QED BY <2>3, <2>4
<1>16. CASE HandlerReads(t)
  <2>1. job[t].at = "handler" /\ RestStays /\ StatusBecomes(t, status) /\ status # "absent"
    BY <1>1, <1>4, <1>16 DEF HandlerReads, Sound, JobIsWhole, status
  <2>2. CASE task[t].status \in {"completed", "cancelled"}
    <3>1. Ends(t)
      BY <1>1, <1>16, <2>2, JobEffect DEF HandlerReads
    <3>2. MayEnd(t, status)
      BY <1>1, <2>2 DEF MayEnd, ActiveStatuses, Sound, SavesItsOwn, status
    <3> QED BY <1>1, <2>1, <3>1, <3>2, EndingIsSound
  <2>3. CASE task[t].status \notin {"completed", "cancelled"}
    <3>1. Goes(t, "saveFailed", err)
      BY <1>1, <1>16, <2>3, JobEffect, PlaceNames DEF HandlerReads, err
    <3>2. MayGo(t, status, "saveFailed", err)
      BY <2>1, <2>3 DEF MayGo, Settled, LoopPlaces, Active, status
    <3> QED BY <1>1, <2>1, <3>1, <3>2, GoingIsSound
  <2> QED BY <2>2, <2>3
<1>17. CASE HandlerSavesFailed(t)
  <2>1. job[t].at = "saveFailed" /\ RestStays /\ StatusBecomes(t, "failed") /\ Ends(t)
    BY <1>1, <1>17, SetStatusEffect, StatusNames, JobEffect DEF HandlerSavesFailed
  <2>2. MayEnd(t, "failed")
    BY <2>1 DEF MayEnd, Settled, ActiveStatuses
  <2> QED BY <1>1, <2>1, <2>2, EndingIsSound
<1> QED BY <1>7, <1>8, <1>9, <1>10, <1>11, <1>12, <1>13, <1>14, <1>15, <1>16, <1>17
     DEF Conclude

\* A timeout, an unexpected error or a cancelled job keeps it.
LEMMA DisturbSound ==
  ASSUME IInv, NEW t \in Tasks, Disturb(t)
  PROVE  OnlyConcerns(t) /\ Sound(t)' /\ ComesToNoLane(t) /\ KeepsEnd(t)
<1> DEFINE status == task[t].status
           err == job[t].err
<1>1. /\ task \in [Tasks -> Row] /\ job \in [Tasks -> Job] /\ late \in [Tasks -> Nat]
      /\ TypeOK /\ Sound(t) /\ late[t] \in Nat
  BY DEF IInv, TypeOK
<1>2. \A what \in Bounded \ {"tick", "any"} : Spend(what) => left'["tick"] = left["tick"]
  BY DEF IInv, TypeOK, Spend, Bounded
<1>3. StatusesStay => StatusBecomes(t, status)
  BY DEF StatusesStay, StatusBecomes
<1>4. UNCHANGED task => StatusBecomes(t, status)
  BY DEF StatusBecomes, Kept
<1>5. job[t].at \notin Settled =>
        job[t].at # "idle" /\ status \notin {"absent", "completed", "failed"}
  BY <1>1 DEF Sound, JobIsWhole, FinishedRests, Settled
<1>6. ~CancelRequested(t) => ~task[t].cancelReq /\ late[t] = 0
  BY <1>1 DEF CancelRequested, Sound, LateOnce
<1> HIDE DEF status, err
<1> USE DEF At, RestStays
<1>7. CASE TimesOut(t)
  <2>1. job[t].at \in Awaiting /\ RestStays /\ StatusBecomes(t, status)
    BY <1>2, <1>4, <1>7, BoundedNames DEF TimesOut
  <2>2. Goes(t, "error", "timeout")
    BY <1>1, <1>7, JobEffect DEF TimesOut, Errors
  <2>3. job[t].at \notin Settled
    BY <2>1 DEF Awaiting, Settled
  <2>4. MayGo(t, status, "error", "timeout")
    BY <1>5, <2>3 DEF MayGo, Settled, LoopPlaces, Active, status
  <2> QED BY <1>1, <1>5, <2>1, <2>2, <2>3, <2>4, GoingIsSound
<1>8. CASE InternalError(t)
  <2>1. job[t].at \notin Settled /\ RestStays /\ StatusBecomes(t, status)
    BY <1>2, <1>4, <1>8, BoundedNames DEF InternalError, Awaiting, Settled
  <2>2. Goes(t, "finally", "internal")
    BY <1>1, <1>8, JobEffect DEF InternalError
  <2>3. MayGo(t, status, "finally", "internal")
    BY <1>5, <2>1 DEF MayGo, Settled, LoopPlaces, Active, status
  <2> QED BY <1>1, <1>5, <2>1, <2>2, <2>3, GoingIsSound
<1>9. CASE LaneJobCancelled(t)
  <2>1. /\ job[t].at \notin Settled /\ RestStays /\ StatusBecomes(t, status)
        /\ phase = "stopping"
    BY <1>4, <1>9 DEF LaneJobCancelled, Awaiting, Settled
  <2>2. Goes(t, "finally", err) \/ Ends(t)
    BY <1>1, <1>9, JobEffect, PlaceNames DEF LaneJobCancelled, err
  <2>3. MayGo(t, status, "finally", err)
    BY <1>5, <2>1 DEF MayGo, Settled, LoopPlaces, Active, status
  <2>4. MayEnd(t, status)
    BY <1>1, <1>5, <2>1 DEF MayEnd, Active, Sound, SavesItsOwn, status
  <2> QED BY <1>1, <1>5, <2>1, <2>2, <2>3, <2>4, GoingIsSound, EndingIsSound
<1> QED BY <1>7, <1>8, <1>9 DEF Disturb

\* What a client, an operator or the clock may do to a row.
Outside(x) ==
  \/ Kept(x) /\ task'[x].status = task[x].status
  \/ /\ task[x].status \notin TerminalStatuses \cup {"absent"}
     /\ task'[x].kind = task[x].kind /\ task'[x].strategy = task[x].strategy
     /\ task'[x].status = "cancelled" /\ task'[x].cancelReq = TRUE
  \/ /\ task[x].status = "waiting_for_tools"
     /\ Kept(x) /\ task'[x].status = "queued"
  \/ /\ task[x].status = "absent"
     /\ task'[x].status = "queued" /\ task'[x].cancelReq = FALSE

\* No manual tick is forgotten.
TicksAreCounted == NoManualTick' => NoManualTick

\* What is done to a row from outside keeps the invariant of its task.
LEMMA OutsideIsSound ==
  ASSUME TypeOK, NEW x \in Tasks, Sound(x), Outside(x),
         job'[x] = job[x], late'[x] = late[x], phase' = phase, TicksAreCounted
  PROVE  Sound(x)' /\ ComesToNoLane(x) /\ KeepsEnd(x)
<1> USE DEF Outside, Kept, TicksAreCounted, TerminalStatuses
<1>1. JobIsWhole(x)'
  BY DEF Sound, JobIsWhole
<1>2. RunsInItsLane(x)'
  BY DEF Sound, JobIsWhole, RunsInItsLane, Settled
<1>3. IsHeld(x)'
  BY DEF Sound, IsHeld, Active, ActiveStatuses
<1>4. FinishedRests(x)'
  BY DEF Sound, FinishedRests
<1>5. SavesItsOwn(x)'
  BY DEF Sound, JobIsWhole, SavesItsOwn, LoopPlaces, IsLoop
<1>6. LateOnce(x)'
  BY DEF Sound, JobIsWhole, LateOnce, TypeOK
<1>7. ComesToNoLane(x) /\ KeepsEnd(x)
  BY DEF ComesToNoLane, KeepsEnd, Active, ActiveStatuses
<1> QED BY <1>1, <1>2, <1>3, <1>4, <1>5, <1>6, <1>7 DEF Sound

\* Clients, the sweep of the reservations and the clock.
LEMMA OutsideSound ==
  ASSUME IInv,
         \/ \E t \in Tasks : Client(t)
         \/ CancelAllPending \/ Reorder \/ DispatchNothing \/ Tick
  PROVE  /\ left'["tick"] = left["tick"]
         /\ \A x \in Tasks : Sound(x)' /\ ComesToNoLane(x) /\ KeepsEnd(x) /\ Outside(x)
<1>1. TypeOK /\ task \in [Tasks -> Row]
  BY DEF IInv, TypeOK
<1>2. \A what \in Bounded \ {"tick", "any"} : Spend(what) => left'["tick"] = left["tick"]
  BY DEF IInv, TypeOK, Spend, Bounded
<1>3. StatusesStay => \A x \in Tasks : Outside(x)
  BY DEF StatusesStay, Outside
<1> DEFINE Goal == /\ UNCHANGED <<job, phase, late>> /\ left'["tick"] = left["tick"]
                   /\ \A x \in Tasks : Outside(x)
<1>4. Goal
  <2>1. ASSUME NEW t \in Tasks, Create(t) PROVE Goal
    <3>1. \A x \in Tasks : Outside(x)
      BY <1>1, <2>1, CreateEffect DEF Create, Outside
    <3> QED BY <2>1, <3>1 DEF Create
  <2>2. ASSUME NEW t \in Tasks, Cancel(t) PROVE Goal
    <3>1. \A x \in Tasks : Outside(x)
      BY <1>1, <2>2, RequestCancelEffect DEF Cancel, Outside
    <3> QED BY <1>2, <2>2, <3>1, BoundedNames DEF Cancel
  <2>3. ASSUME NEW t \in Tasks, ToolResults(t) PROVE Goal
    <3>1. task[t].status = "waiting_for_tools" /\ StatusBecomes(t, "queued")
      BY <1>1, <2>3, EnqueueStatusEffect, StatusNames
         DEF ToolResults, ResumeWithToolResults
    <3>2. \A x \in Tasks : Outside(x)
      BY <3>1 DEF StatusBecomes, Outside
    <3> QED BY <2>3, <3>2 DEF ToolResults
  <2>4. ASSUME CancelAllPending PROVE Goal
    <3>1. \A x \in Tasks : Outside(x)
      BY <1>1, <2>4, RequestCancelEffect DEF CancelAllPending, Outside
    <3> QED BY <1>2, <2>4, <3>1, BoundedNames DEF CancelAllPending
  <2>5. ASSUME Reorder PROVE Goal
    <3>1. PICK place \in Numberings(Pending) : ReorderQueue(place)
      BY <2>5 DEF Reorder
    <3>2. place \in [Pending -> Nat]
      BY <3>1 DEF Numberings
    <3>3. StatusesStay
      BY <1>1, <3>1, <3>2, ReorderEffect
    <3> QED BY <1>2, <1>3, <2>5, <3>3, BoundedNames DEF Reorder
  <2>6. ASSUME DispatchNothing PROVE Goal
    BY <1>1, <1>3, <2>6, SweepEffect DEF DispatchNothing
  <2>7. ASSUME Tick PROVE Goal
    BY <1>1, <1>3, <2>7, TimeEffect DEF Tick
  <2> QED BY <2>1, <2>2, <2>3, <2>4, <2>5, <2>6, <2>7 DEF Client
<1>5. TicksAreCounted
  BY <1>4 DEF TicksAreCounted, NoManualTick
<1> QED BY <1>1, <1>4, <1>5, OutsideIsSound DEF IInv

\* A dispatcher, or a tick, claims t for a lane and starts its coroutine.
Claims(t, lane) ==
  /\ task[t].kind = lane /\ task[t].status \in PendingStatuses /\ Idle(t)
  /\ StatusBecomes(t, "routing")
  /\ job'[t].at = "deps" /\ job'[t].lane = lane /\ job'[t].by \in {"loop", "tick"}
  /\ \A x \in Tasks \ {t} : job'[x] = job[x]
  /\ phase = "up" /\ UNCHANGED <<phase, late>>
  /\ \/ /\ job'[t].by = "loop" /\ left' = left
        /\ IF lane = "inference" THEN LoopJobs(lane) = {} /\ ActiveIn(lane) = {}
                                 ELSE Cardinality(LoopJobs(lane)) < MaxParallel
     \/ left'["tick"] = left["tick"] - 1

\* Every dispatch is a claim: in the inference lane of a lane without work, in the
\* others of a loop with fewer jobs than its capacity.
LEMMA DispatchClaims ==
  ASSUME IInv, NEW t \in Tasks, Dispatch(t)
  PROVE  \E lane \in Lanes : Claims(t, lane)
<1>1. task \in [Tasks -> Row] /\ job \in [Tasks -> Job] /\ left \in [Bounded -> Nat]
  BY DEF IInv, TypeOK
<1>2. \A lane, who : StartJob(t, lane, who) =>
        /\ job'[t].at = "deps" /\ job'[t].lane = lane /\ job'[t].by = who
        /\ \A x \in Tasks \ {t} : job'[x] = job[x]
  BY <1>1 DEF StartJob
<1>3. CASE DispatchInference(t)
  <2>1. /\ ActiveIn("inference") = {}
        /\ task[t].kind = "inference" /\ task[t].status \in PendingStatuses
        /\ StatusBecomes(t, "routing")
    BY <1>1, <1>3, ClaimInferenceEffect DEF DispatchInference
  <2>2. Claims(t, "inference")
    BY <1>2, <1>3, <2>1 DEF DispatchInference, Claims
  <2> QED BY <2>2 DEF Lanes
<1>4. ASSUME NEW lane \in {"embedding", "cloud"}, DispatchLane(t, lane)
      PROVE  Claims(t, lane)
  <2>1. /\ task[t].kind = lane /\ task[t].status \in PendingStatuses
        /\ StatusBecomes(t, "routing")
    BY <1>1, <1>4, ClaimInLaneEffect DEF DispatchLane
  <2> QED BY <1>2, <1>4, <2>1 DEF DispatchLane, Claims
<1>5. ASSUME NEW lane \in Lanes, ManualTick(t, lane)
      PROVE  Claims(t, lane)
  <2>1. /\ task[t].kind = lane /\ task[t].status \in PendingStatuses
        /\ StatusBecomes(t, "routing")
    BY <1>1, <1>5, ClaimInferenceEffect, ClaimInLaneEffect DEF ManualTick
  <2>2. left'["tick"] = left["tick"] - 1
    BY <1>1, <1>5 DEF ManualTick, Spend, Bounded
  <2>3. StartJob(t, lane, "tick") /\ phase = "up" /\ Idle(t) /\ UNCHANGED <<phase, late>>
    BY <1>5 DEF ManualTick
  <2> QED BY <1>2, <2>1, <2>2, <2>3 DEF Claims
<1> QED BY <1>3, <1>4, <1>5 DEF Dispatch, Lanes

\* A claim keeps the invariant of every task.
LEMMA ClaimIsSound ==
  ASSUME IInv, NEW t \in Tasks, NEW lane \in Lanes, Claims(t, lane)
  PROVE  /\ left'["tick"] <= left["tick"]
         /\ \A x \in Tasks : Sound(x)' /\ KeepsEnd(x)
         /\ \A x \in Tasks \ {t} : ComesToNoLane(x)
<1>1. /\ TypeOK /\ left["tick"] \in Nat /\ Budget["tick"] \in Nat
      /\ left["tick"] <= Budget["tick"]
  BY BrokerAssumption DEF IInv, TypeOK, Bounded
<1>2. left'["tick"] <= left["tick"] /\ TicksAreCounted
  BY <1>1 DEF Claims, TicksAreCounted, NoManualTick
<1>3. \A x \in Tasks \ {t} : Outside(x) /\ Sound(x)
  BY DEF Claims, StatusBecomes, Outside, IInv
<1>4. \A x \in Tasks \ {t} : Sound(x)' /\ ComesToNoLane(x) /\ KeepsEnd(x)
  BY <1>1, <1>2, <1>3, OutsideIsSound DEF Claims
<1>5. Sound(t)'
  <2> USE DEF Claims, StatusBecomes, Kept, Settled
  <2>1. Sound(t) /\ Kept(t) /\ task'[t].status = "routing"
    BY DEF IInv
  <2>2. JobIsWhole(t)'
    BY <1>1, <2>1 DEF JobIsWhole, NoManualTick
  <2>3. RunsInItsLane(t)' /\ IsHeld(t)' /\ FinishedRests(t)'
    BY <2>1 DEF RunsInItsLane, IsHeld, FinishedRests
  <2>4. SavesItsOwn(t)' /\ LateOnce(t)'
    BY <2>1 DEF Sound, SavesItsOwn, LateOnce, LoopPlaces, PendingStatuses
  <2> QED BY <2>2, <2>3, <2>4 DEF Sound
<1>6. KeepsEnd(t)
  BY DEF Claims, KeepsEnd, PendingStatuses
<1> QED BY <1>2, <1>4, <1>5, <1>6

\* The process stops, dies and starts again.
LEMMA LifespanSound ==
  ASSUME IInv, Stop \/ Stopped \/ Crash \/ Start
  PROVE  /\ left'["tick"] = left["tick"]
         /\ \A x \in Tasks : Sound(x)' /\ ComesToNoLane(x) /\ KeepsEnd(x)
<1>1. /\ TypeOK /\ task \in [Tasks -> Row] /\ job \in [Tasks -> Job]
      /\ \A x \in Tasks : Sound(x)
  BY DEF IInv, TypeOK
<1>2. \A what \in Bounded \ {"tick", "any"} : Spend(what) => left'["tick"] = left["tick"]
  BY DEF IInv, TypeOK, Spend, Bounded
<1>3. left'["tick"] = left["tick"]
  BY <1>2, BoundedNames DEF Stop, Stopped, Crash, Start
<1> SUFFICES ASSUME NEW x \in Tasks
             PROVE  Sound(x)' /\ ComesToNoLane(x) /\ KeepsEnd(x)
  BY <1>3
<1> USE DEF NoManualTick
<1>4. CASE Stop \/ Stopped
  <2>1. /\ UNCHANGED <<task, job, late>> /\ phase' \in {"stopping", "down"}
        /\ phase' = "down" => job[x].at = "idle"
    BY <1>4 DEF Stop, Stopped, Idle, NoJob
  <2>2. JobIsWhole(x)' /\ RunsInItsLane(x)' /\ IsHeld(x)'
    BY <1>1, <1>3, <2>1 DEF Sound, JobIsWhole, RunsInItsLane, IsHeld
  <2>3. FinishedRests(x)' /\ SavesItsOwn(x)' /\ LateOnce(x)'
    BY <1>1, <2>1 DEF Sound, FinishedRests, SavesItsOwn, LateOnce, IsLoop
  <2>4. ComesToNoLane(x) /\ KeepsEnd(x)
    BY <2>1 DEF ComesToNoLane, KeepsEnd, Active
  <2> QED BY <2>2, <2>3, <2>4 DEF Sound
<1>5. CASE Crash
  <2>1. task' = task /\ late' = late /\ phase' = "down" /\ job'[x] = NoJob
    BY <1>5 DEF Crash
  <2>2. JobIsWhole(x)' /\ RunsInItsLane(x)' /\ IsHeld(x)'
    BY <2>1 DEF JobIsWhole, RunsInItsLane, IsHeld, NoJob, Settled
  <2>3. FinishedRests(x)' /\ SavesItsOwn(x)' /\ LateOnce(x)'
    BY <1>1, <2>1
       DEF Sound, FinishedRests, SavesItsOwn, LateOnce, NoJob, Settled, LoopPlaces
  <2>4. ComesToNoLane(x) /\ KeepsEnd(x)
    BY <2>1 DEF ComesToNoLane, KeepsEnd, Active, NoJob
  <2> QED BY <2>2, <2>3, <2>4 DEF Sound
<1>6. CASE Start
  <2>1. PICK place \in Numberings(Requeueable) : RecoverInterrupted(place)
    BY <1>6 DEF Start
  <2>2. place \in [Requeueable -> Nat]
    BY <2>1 DEF Numberings
  <2>3. /\ Kept(x)
        /\ IF task[x].status \in ActiveStatuses
           THEN task'[x].status \in {"queued", "failed"}
           ELSE task'[x].status = task[x].status
    BY <1>1, <2>1, <2>2, RecoveryEffect
  <2>4. task'[x].status \notin ActiveStatuses
    BY <2>3 DEF ActiveStatuses
  <2>5. job[x] = NoJob /\ job' = job /\ late' = late
    BY <1>1, <1>6 DEF Start, Sound, JobIsWhole
  <2> USE DEF Kept
  <2>6. JobIsWhole(x)' /\ RunsInItsLane(x)' /\ IsHeld(x)'
    BY <2>4, <2>5 DEF JobIsWhole, RunsInItsLane, IsHeld, NoJob, Settled, Active
  <2>7. FinishedRests(x)' /\ SavesItsOwn(x)'
    BY <1>1, <2>3, <2>5
       DEF Sound, FinishedRests, SavesItsOwn, NoJob, Settled, LoopPlaces
  <2>8. LateOnce(x)'
    BY <1>1, <2>3, <2>5 DEF Sound, LateOnce, NoJob
  <2>9. ComesToNoLane(x) /\ KeepsEnd(x)
    BY <2>3, <2>4, <2>5 DEF ComesToNoLane, KeepsEnd, ActiveStatuses
  <2> QED BY <2>6, <2>7, <2>8, <2>9 DEF Sound
<1> QED BY <1>4, <1>5, <1>6

\* Every step of a coroutine keeps the invariant of every task.
LEMMA CoroutineSound ==
  ASSUME IInv, NEW t \in Tasks, Prepare(t) \/ Infer(t) \/ Conclude(t) \/ Disturb(t)
  PROVE  /\ left'["tick"] = left["tick"]
         /\ \A x \in Tasks : Sound(x)' /\ ComesToNoLane(x) /\ KeepsEnd(x)
<1>1. OnlyConcerns(t) /\ Sound(t)' /\ ComesToNoLane(t) /\ KeepsEnd(t)
  BY PrepareSound, InferSound, ConcludeSound, DisturbSound
<1>2. \A x \in Tasks \ {t} : Outside(x)
  BY <1>1 DEF OnlyConcerns, Outside
<1>3. TicksAreCounted
  BY <1>1 DEF OnlyConcerns, TicksAreCounted, NoManualTick
<1>4. \A x \in Tasks \ {t} : Sound(x)' /\ ComesToNoLane(x) /\ KeepsEnd(x)
  BY <1>1, <1>2, <1>3, OutsideIsSound DEF OnlyConcerns, IInv
<1> QED BY <1>1, <1>4 DEF OnlyConcerns

\* Every step is the claim of one task, or brings nobody into a lane.
LEMMA StepIsSound ==
  ASSUME IInv, [Next]_vars
  PROVE  /\ IInv' /\ TicksAreCounted
         /\ \A x \in Tasks : KeepsEnd(x)
         /\ \/ \A x \in Tasks : ComesToNoLane(x)
            \/ \E t \in Tasks, lane \in Lanes :
                 Claims(t, lane) /\ \A x \in Tasks \ {t} : ComesToNoLane(x)
<1>1. /\ TypeOK /\ TypeOK' /\ left["tick"] \in Int /\ left'["tick"] \in Int
      /\ Budget["tick"] \in Int /\ left["tick"] <= Budget["tick"]
      /\ \A x \in Tasks : Sound(x)
  <2>1. TypeOK /\ TypeOK'
    BY StepTyped DEF IInv
  <2> QED BY <2>1, BrokerAssumption DEF IInv, TypeOK, Bounded
<1>2. CASE \E t \in Tasks : Prepare(t) \/ Infer(t) \/ Conclude(t) \/ Disturb(t)
  <2>1. /\ left'["tick"] = left["tick"]
        /\ \A x \in Tasks : Sound(x)' /\ ComesToNoLane(x) /\ KeepsEnd(x)
    BY <1>2, CoroutineSound
  <2> QED BY <1>1, <2>1 DEF IInv, TicksAreCounted, NoManualTick
<1>3. CASE \E t \in Tasks : Dispatch(t)
  <2>1. PICK t \in Tasks, lane \in Lanes : Claims(t, lane)
    BY <1>3, DispatchClaims
  <2>2. /\ left'["tick"] <= left["tick"]
        /\ \A x \in Tasks : Sound(x)' /\ KeepsEnd(x)
        /\ \A x \in Tasks \ {t} : ComesToNoLane(x)
    BY <2>1, ClaimIsSound
  <2>3. left'["tick"] <= Budget["tick"]
    BY <1>1, <2>2
  <2>4. TicksAreCounted
    BY <1>1, <2>2 DEF TicksAreCounted, NoManualTick
  <2> QED BY <1>1, <2>1, <2>2, <2>3, <2>4 DEF IInv
<1>4. CASE \/ \E t \in Tasks : Client(t)
           \/ CancelAllPending \/ Reorder \/ DispatchNothing \/ Tick
  <2>1. /\ left'["tick"] = left["tick"]
        /\ \A x \in Tasks : Sound(x)' /\ ComesToNoLane(x) /\ KeepsEnd(x)
    BY <1>4, OutsideSound
  <2> QED BY <1>1, <2>1 DEF IInv, TicksAreCounted, NoManualTick
<1>5. CASE Stop \/ Stopped \/ Crash \/ Start
  <2>1. /\ left'["tick"] = left["tick"]
        /\ \A x \in Tasks : Sound(x)' /\ ComesToNoLane(x) /\ KeepsEnd(x)
    BY <1>5, LifespanSound
  <2> QED BY <1>1, <2>1 DEF IInv, TicksAreCounted, NoManualTick
<1>6. CASE UNCHANGED vars
  <2>1. TicksAreCounted /\ \A x \in Tasks : Outside(x)
    BY <1>6 DEF vars, TicksAreCounted, NoManualTick, Outside, Kept
  <2>2. \A x \in Tasks : Sound(x)' /\ ComesToNoLane(x) /\ KeepsEnd(x)
    BY <1>1, <1>6, <2>1, OutsideIsSound DEF vars
  <2> QED BY <1>1, <1>6, <2>1, <2>2 DEF IInv, vars
<1> QED BY <1>2, <1>3, <1>4, <1>5, <1>6 DEF Next, Lifespan

\* The invariant holds at first.
LEMMA InitIsSound ==
  ASSUME Init
  PROVE  IInv
<1>1. TypeOK
  BY InitTyped
<1>2. left["tick"] <= Budget["tick"]
  BY BrokerAssumption DEF Init, Bounded
<1>3. ASSUME NEW t \in Tasks PROVE Sound(t)
  <2> USE DEF Init, NoRow, NoJob
  <2>1. JobIsWhole(t) /\ RunsInItsLane(t)
    BY DEF JobIsWhole, RunsInItsLane, Settled
  <2>2. IsHeld(t) /\ FinishedRests(t) /\ SavesItsOwn(t) /\ LateOnce(t)
    BY DEF IsHeld, FinishedRests, SavesItsOwn, LateOnce, Active, ActiveStatuses, LoopPlaces,
           Settled
  <2> QED BY <2>1, <2>2 DEF Sound
<1> QED BY <1>1, <1>2, <1>3 DEF IInv

\* The invariant always holds.
LEMMA InvariantHolds == Spec => []IInv
<1>1. IInv /\ [Next]_vars => IInv'
  BY StepIsSound
<1> QED BY <1>1, InitIsSound, PTL DEF Spec

----------------------------------------------------------------------------
(* What follows from the invariant.                                        *)

\* Between a start and a stop of the process every row in an active status has a
\* coroutine in its lane, whatever fails: no lane is frozen by a row nobody works on.
THEOREM ActiveRowsAreAlwaysHeld == Spec => []ActiveRowsAreHeld
<1>1. IInv => ActiveRowsAreHeld
  BY DEF IInv, Sound, IsHeld, ActiveRowsAreHeld
<1> QED BY <1>1, InvariantHolds, PTL

\* A single whose cancellation was accepted is never saved as completed: the check
\* after the call and the one inside complete_single_task are enough together.
THEOREM SingleCancelAlwaysWins == Spec => []SingleCancelWins
<1>1. IInv => SingleCancelWins
  BY DEF IInv, Sound, SavesItsOwn, SingleCancelWins
<1> QED BY <1>1, InvariantHolds, PTL

\* After its cancellation a task that is not a mixture starts at most one provider
\* call, over retries, failovers, rounds, demotions and restarts.
THEOREM LateCallsAreBounded == Spec => []AtMostOneLateCall
<1>1. IInv => AtMostOneLateCall
  BY DEF IInv, Sound, LateOnce, AtMostOneLateCall
<1> QED BY <1>1, InvariantHolds, PTL

\* No late coroutine, handler, cancellation, reorder or recovery changes the status
\* of a completed or failed task.
THEOREM FinishedStaysFinished == Spec => FinishedIsFinal
<1>1. IInv /\ [Next]_vars =>
        [\A t \in Tasks : task[t].status \in {"completed", "failed"}
                            => task'[t].status = task[t].status]_vars
  BY StepIsSound DEF KeepsEnd
<1> QED BY <1>1, InvariantHolds, PTL DEF Spec, FinishedIsFinal

\* Cancelled work is never claimed, resumed or recovered: a cancelled row changes
\* status only while its own coroutine still runs.
THEOREM CancelledIsNotRestarted == Spec => CancelledStaysDown
<1> DEFINE Stays == \A t \in Tasks : task[t].status = "cancelled" /\ Idle(t)
                                       => task'[t].status = "cancelled"
<1>1. ASSUME IInv, Next PROVE Stays
  <2> SUFFICES ASSUME NEW x \in Tasks, task[x].status = "cancelled", Idle(x)
               PROVE  task'[x].status = "cancelled"
    OBVIOUS
  <2>1. task \in [Tasks -> Row] /\ job[x].at = "idle"
    BY <1>1 DEF IInv, TypeOK, Idle, NoJob
  <2>2. ASSUME NEW t \in Tasks, Prepare(t) \/ Infer(t) \/ Conclude(t) \/ Disturb(t)
        PROVE  task'[x].status = "cancelled"
    <3>1. job[t].at # "idle"
      <4>1. Prepare(t) => job[t].at # "idle"
        BY DEF Prepare, AwaitDependencies, DeferTask, AttachmentsFail, EntryCheck,
               RejectRequest, SelectionFails, BeginWork, At
      <4>2. Infer(t) => job[t].at # "idle"
        BY DEF Infer, RoundCheck, StartCall, CallReturns, CallFails, CallCancelled,
               FinalAnswer, AsksClient, NextRound, LosesQuorum, At
      <4>3. Conclude(t) => job[t].at # "idle"
        BY DEF Conclude, OutputCheck, SaveSingle, AfterLoop, SaveFinish, SavePause,
               SaveYield, ErrorCheck, SettleError, Finally, HandlerReads,
               HandlerSavesFailed, At
      <4>4. Disturb(t) => job[t].at # "idle"
        BY DEF Disturb, TimesOut, InternalError, LaneJobCancelled, Awaiting
      <4> QED BY <2>2, <4>1, <4>2, <4>3, <4>4
    <3>2. OnlyConcerns(t)
      BY <1>1, <2>2, PrepareSound, InferSound, ConcludeSound, DisturbSound
    <3> QED BY <2>1, <3>1, <3>2 DEF OnlyConcerns
  <2>3. ASSUME NEW t \in Tasks, Dispatch(t) PROVE task'[x].status = "cancelled"
    <3>1. PICK lane \in Lanes : Claims(t, lane)
      BY <1>1, <2>3, DispatchClaims
    <3> QED BY <3>1 DEF Claims, StatusBecomes, PendingStatuses
  <2>4. CASE \/ \E t \in Tasks : Client(t)
             \/ CancelAllPending \/ Reorder \/ DispatchNothing \/ Tick
    BY <1>1, <2>4, OutsideSound DEF Outside
  <2>5. CASE Stop \/ Stopped \/ Crash
    BY <2>5 DEF Stop, Stopped, Crash
  <2>6. CASE Start
    <3>1. PICK place \in Numberings(Requeueable) : RecoverInterrupted(place)
      BY <2>6 DEF Start
    <3>2. place \in [Requeueable -> Nat]
      BY <3>1 DEF Numberings
    <3> QED BY <2>1, <3>1, <3>2, RecoveryEffect DEF ActiveStatuses
  <2> QED BY <1>1, <2>2, <2>3, <2>4, <2>5, <2>6 DEF Next, Lifespan
<1>2. IInv /\ [Next]_vars => [Stays]_vars
  BY <1>1
<1> QED BY <1>2, InvariantHolds, PTL DEF Spec, CancelledStaysDown

----------------------------------------------------------------------------
(* Who works in a lane.                                                    *)

\* Who comes to no lane works in a lane only if it did before.
LEMMA NobodyComes ==
  ASSUME NEW x \in Tasks, NEW lane \in Lanes, ComesToNoLane(x), x \in Working(lane)'
  PROVE  x \in Working(lane)
<1>1. lane # "none"
  BY DEF Lanes
<1>2. CASE job'[x].lane = lane
  BY <1>1, <1>2 DEF ComesToNoLane, Working, JobsIn
<1>3. CASE task'[x].kind = lane /\ task'[x].status \in ActiveStatuses
  BY <1>3 DEF ComesToNoLane, Working, JobsIn, ActiveIn, Active
<1> QED BY <1>2, <1>3 DEF Working, JobsIn, ActiveIn

\* Without ticks every job is one of the loops, and while the process serves
\* the jobs are all there is in a lane.
LEMMA JobsAreTheLoops ==
  ASSUME IInv, NoManualTick, NEW lane \in Lanes
  PROVE  /\ JobsIn(lane) = LoopJobs(lane)
         /\ phase = "up" => Working(lane) = LoopJobs(lane)
<1>1. ASSUME NEW x \in JobsIn(lane) PROVE job[x].by = "loop"
  <2>1. x \in Tasks /\ job[x].lane = lane /\ Sound(x)
    BY DEF JobsIn, IInv
  <2>2. job[x].at # "idle"
    BY <2>1 DEF Sound, JobIsWhole, NoJob, Lanes
  <2> QED BY <2>1, <2>2 DEF Sound, JobIsWhole
<1>2. ASSUME phase = "up", NEW x \in ActiveIn(lane) PROVE x \in JobsIn(lane)
  BY <1>2 DEF ActiveIn, JobsIn, IInv, Sound, IsHeld, Active
<1> QED BY <1>1, <1>2 DEF LoopJobs, Working

\* There are finitely many tasks.
LEMMA TasksAreFinite == IsFiniteSet(Tasks)
BY FS_Interval, SizesAssumption DEF Tasks

\* A claim adds its task to the lane it claims for, and nobody to the others.
LEMMA WorkingAfterClaim ==
  ASSUME IInv, NoManualTick', TicksAreCounted, NEW t \in Tasks, NEW lane \in Lanes,
         Claims(t, lane), \A x \in Tasks \ {t} : ComesToNoLane(x), NEW l \in Lanes
  PROVE  /\ l # lane => Working(l)' \subseteq Working(l)
         /\ Working(lane)' \subseteq LoopJobs(lane) \cup {t}
         /\ NoManualTick /\ job'[t].by = "loop" /\ left' = left
<1>1. NoManualTick
  BY DEF TicksAreCounted
<1>2. left["tick"] \in Int
  BY DEF IInv, TypeOK, Bounded
<1>3. job'[t].by = "loop" /\ left' = left
  BY <1>1, <1>2 DEF Claims, NoManualTick
<1>4. Working(lane) = LoopJobs(lane)
  BY <1>1, JobsAreTheLoops DEF Claims
<1>5. ASSUME l # lane, NEW x \in Working(l)' PROVE x \in Working(l)
  <2>1. x \in Tasks
    BY <1>5 DEF Working, JobsIn, ActiveIn
  <2>2. x # t
    BY <1>5 DEF Claims, StatusBecomes, Kept, Working, JobsIn, ActiveIn
  <2> QED BY <1>5, <2>1, <2>2, NobodyComes
<1>6. ASSUME NEW x \in Working(lane)' PROVE x \in LoopJobs(lane) \cup {t}
  <2>1. x \in Tasks
    BY <1>6 DEF Working, JobsIn, ActiveIn
  <2> QED BY <1>4, <1>6, <2>1, NobodyComes
<1> QED BY <1>1, <1>3, <1>5, <1>6

\* No step makes two inference workflows of one.
LEMMA OneInferenceStep ==
  ASSUME IInv, OneInferenceWorkflow, [Next]_vars
  PROVE  OneInferenceWorkflow'
<1> SUFFICES ASSUME NoManualTick' PROVE SingleWorkflow'
  BY DEF OneInferenceWorkflow
<1>1. /\ TicksAreCounted /\ NoManualTick /\ SingleWorkflow
      /\ "inference" \in Lanes
  BY StepIsSound DEF TicksAreCounted, OneInferenceWorkflow, Lanes
<1>2. CASE \A x \in Tasks : ComesToNoLane(x)
  <2>1. ASSUME NEW x \in Working("inference")' PROVE x \in Working("inference")
    <3>1. x \in Tasks
      BY <2>1 DEF Working, JobsIn, ActiveIn
    <3> QED BY <1>1, <1>2, <2>1, <3>1, NobodyComes
  <2> QED BY <1>1, <2>1 DEF SingleWorkflow
<1>3. ASSUME NEW t \in Tasks, NEW lane \in Lanes, Claims(t, lane),
             \A x \in Tasks \ {t} : ComesToNoLane(x)
      PROVE  SingleWorkflow'
  <2>1. CASE lane = "inference"
    <3>1. Working("inference")' \subseteq LoopJobs("inference") \cup {t}
      BY <1>1, <1>3, <2>1, WorkingAfterClaim
    <3>2. LoopJobs("inference") = {}
      <4>1. job'[t].by = "loop" /\ left' = left
        BY <1>1, <1>3, WorkingAfterClaim
      <4>2. left["tick"] \in Int
        BY DEF IInv, TypeOK, Bounded
      <4> QED BY <1>3, <2>1, <4>1, <4>2 DEF Claims
    <3> QED BY <3>1, <3>2 DEF SingleWorkflow
  <2>2. CASE lane # "inference"
    <3>1. Working("inference")' \subseteq Working("inference")
      BY <1>1, <1>3, <2>2, WorkingAfterClaim
    <3> QED BY <1>1, <3>1 DEF SingleWorkflow
  <2> QED BY <2>1, <2>2
<1> QED BY <1>2, <1>3, StepIsSound

\* No step takes a lane over its capacity.
LEMMA CapacityStep ==
  ASSUME IInv, LaneCapacity, [Next]_vars
  PROVE  LaneCapacity'
<1> SUFFICES ASSUME NoManualTick', NEW l \in {"embedding", "cloud"}
             PROVE  Cardinality(Working(l)') <= MaxParallel
  BY DEF LaneCapacity
<1>1. /\ TicksAreCounted /\ NoManualTick /\ Cardinality(Working(l)) <= MaxParallel
      /\ l \in Lanes /\ MaxParallel \in Nat
  BY StepIsSound, BrokerAssumption DEF TicksAreCounted, LaneCapacity, Lanes
<1>2. /\ IsFiniteSet(Working(l)) /\ IsFiniteSet(LoopJobs(l))
      /\ Cardinality(Working(l)) \in Nat /\ Cardinality(LoopJobs(l)) \in Nat
  <2>1. Working(l) \in SUBSET Tasks /\ LoopJobs(l) \in SUBSET Tasks
    BY DEF Working, JobsIn, ActiveIn, LoopJobs
  <2> QED BY <2>1, TasksAreFinite, FS_Subset, FS_CardinalityType
<1>3. ASSUME Working(l)' \subseteq Working(l)
      PROVE  Cardinality(Working(l)') <= MaxParallel
  <2>1. /\ IsFiniteSet(Working(l)') /\ Cardinality(Working(l)') <= Cardinality(Working(l))
    BY <1>2, <1>3, FS_Subset
  <2>2. Cardinality(Working(l)') \in Nat
    BY <2>1, FS_CardinalityType
  <2> QED BY <1>1, <1>2, <2>1, <2>2
<1>4. CASE \A x \in Tasks : ComesToNoLane(x)
  <2>1. ASSUME NEW x \in Working(l)' PROVE x \in Working(l)
    <3>1. x \in Tasks
      BY <2>1 DEF Working, JobsIn, ActiveIn
    <3> QED BY <1>1, <1>4, <2>1, <3>1, NobodyComes
  <2> QED BY <1>3, <2>1
<1>5. ASSUME NEW t \in Tasks, NEW lane \in Lanes, Claims(t, lane),
             \A x \in Tasks \ {t} : ComesToNoLane(x)
      PROVE  Cardinality(Working(l)') <= MaxParallel
  <2>1. CASE lane = l
    <3>1. /\ Working(l)' \subseteq LoopJobs(l) \cup {t}
          /\ job'[t].by = "loop" /\ left' = left
      BY <1>1, <1>5, <2>1, WorkingAfterClaim
    <3>2. left["tick"] \in Int
      BY DEF IInv, TypeOK, Bounded
    <3>3. Cardinality(LoopJobs(l)) < MaxParallel
      BY <1>5, <2>1, <3>1, <3>2 DEF Claims
    <3>4. /\ IsFiniteSet(LoopJobs(l) \cup {t})
          /\ Cardinality(LoopJobs(l) \cup {t}) <= MaxParallel
          /\ Cardinality(LoopJobs(l) \cup {t}) \in Nat
      <4>1. /\ IsFiniteSet(LoopJobs(l) \cup {t})
            /\ Cardinality(LoopJobs(l) \cup {t})
                 \in {Cardinality(LoopJobs(l)), Cardinality(LoopJobs(l)) + 1}
        BY <1>2, FS_AddElement
      <4> QED BY <1>1, <1>2, <3>3, <4>1
    <3>5. /\ IsFiniteSet(Working(l)')
          /\ Cardinality(Working(l)') <= Cardinality(LoopJobs(l) \cup {t})
      BY <3>1, <3>4, FS_Subset
    <3>6. Cardinality(Working(l)') \in Nat
      BY <3>5, FS_CardinalityType
    <3> QED BY <1>1, <3>4, <3>5, <3>6
  <2>2. CASE lane # l
    <3>1. Working(l)' \subseteq Working(l)
      BY <1>1, <1>5, <2>2, WorkingAfterClaim
    <3> QED BY <1>3, <3>1
  <2> QED BY <2>1, <2>2
<1> QED BY <1>4, <1>5, StepIsSound

\* At first nobody works.
LEMMA NobodyWorksAtFirst ==
  ASSUME Init
  PROVE  OneInferenceWorkflow /\ LaneCapacity
<1>1. \A lane \in Lanes : Working(lane) = {}
  BY DEF Init, NoJob, NoRow, Working, JobsIn, ActiveIn, ActiveStatuses, Lanes
<1>2. "inference" \in Lanes /\ {"embedding", "cloud"} \subseteq Lanes
  BY DEF Lanes
<1> QED BY <1>1, <1>2, FS_EmptySet, BrokerAssumption
     DEF OneInferenceWorkflow, SingleWorkflow, LaneCapacity

\* max_active_workflows: without manual ticks there is at most one inference
\* workflow, counting both coroutines and active rows, through every crash, stop,
\* cancellation in mid-call, demotion and yield.
THEOREM OneInferenceWorkflowAlways == Spec => []OneInferenceWorkflow
<1>1. IInv /\ OneInferenceWorkflow /\ [Next]_vars => OneInferenceWorkflow'
  BY OneInferenceStep
<1> QED BY <1>1, NobodyWorksAtFirst, InvariantHolds, PTL DEF Spec

\* Without manual ticks the embedding and cloud lanes never exceed max_parallel,
\* counting both coroutines and active rows.
THEOREM LaneCapacityAlways == Spec => []LaneCapacity
<1>1. IInv /\ LaneCapacity /\ [Next]_vars => LaneCapacity'
  BY CapacityStep
<1> QED BY <1>1, NobodyWorksAtFirst, InvariantHolds, PTL DEF Spec

----------------------------------------------------------------------------
(* The two columns.                                                        *)

\* Attempts stay; the invocation of t is left as d, and no other changes.
Leaves(t, d) ==
  \A x \in Tasks : /\ task'[x].attempt = task[x].attempt
                   /\ task'[x].open = IF x = t THEN d ELSE task[x].open

\* Neither column changes.
BothStay ==
  \A x \in Tasks : task'[x].attempt = task[x].attempt /\ task'[x].open = task[x].open

\* A row is written over another.
LEMMA UpdateLeaves ==
  ASSUME task \in [Tasks -> Row], NEW t \in Tasks, NEW row \in Row, Update(t, row),
         row.attempt = task[t].attempt
  PROVE  Leaves(t, row.open)
BY DEF Update, Leaves

\* A row enters the queue.
LEMMA EnqueueLeaves ==
  ASSUME task \in [Tasks -> Row], NEW t \in Tasks, NEW lane, NEW row \in Row,
         Enqueue(t, lane, row)
  PROVE  /\ \A x \in Tasks \ {t} : /\ task'[x].attempt = task[x].attempt
                                   /\ task'[x].open = task[x].open
         /\ task'[t].attempt = row.attempt /\ task'[t].open = row.open
<1>1. /\ \A r \in Row : LET m == [r EXCEPT !.pos = @ + 1]
                        IN  m.attempt = r.attempt /\ m.open = r.open
      /\ \A p \in Nat : LET m == [row EXCEPT !.pos = p]
                        IN  m.attempt = row.attempt /\ m.open = row.open
  BY DEF Row
<1>2. \A x \in Tasks \ {t} :
        task'[x] = task[x] \/ task'[x] = [task[x] EXCEPT !.pos = @ + 1]
  BY EnqueueMovesPlaces
<1>3. PICK p \in Nat : task'[t] = [row EXCEPT !.pos = p]
  BY EnqueueMovesPlaces
<1> QED BY <1>1, <1>2, <1>3

\* update_task with a status, whether it clears the place or not, and a return to
\* the queue.
LEMMA StatusLeaves ==
  ASSUME task \in [Tasks -> Row], NEW t \in Tasks, NEW s \in Statuses, NEW lane
  PROVE  /\ SetStatus(t, s) => BothStay
         /\ Update(t, [task[t] EXCEPT !.status = s]) => BothStay
         /\ Enqueue(t, lane, [task[t] EXCEPT !.status = s]) => BothStay
<1> DEFINE old == task[t]
           set == [old EXCEPT !.status = s, !.pos = NotPlaced]
           kept == [old EXCEPT !.status = s]
<1>1. old \in Row /\ (SetStatus(t, s) => Update(t, set))
  BY DEF SetStatus
<1> HIDE DEF old
<1>2. /\ set \in Row /\ set.attempt = old.attempt /\ set.open = old.open
      /\ kept \in Row /\ kept.attempt = old.attempt /\ kept.open = old.open
  BY <1>1 DEF Row, NotPlaced
<1> HIDE DEF set, kept
<1>3. \A row \in {set, kept} : Update(t, row) => BothStay
  BY <1>2, UpdateLeaves DEF Leaves, BothStay, old
<1>4. Enqueue(t, lane, kept) => BothStay
  BY <1>2, EnqueueLeaves DEF BothStay, old
<1> QED BY <1>1, <1>3, <1>4 DEF kept, old

\* A new task has no attempt and no invocation.
LEMMA CreateLeaves ==
  ASSUME task \in [Tasks -> Row], NEW t \in Tasks, NEW req \in Requests, CreateTask(t, req)
  PROVE  /\ \A x \in Tasks \ {t} : /\ task'[x].attempt = task[x].attempt
                                   /\ task'[x].open = task[x].open
         /\ task'[t].attempt = 0 /\ task'[t].open = "none"
<1> DEFINE row == [NoRow EXCEPT !.status = "queued", !.kind = req.kind,
                           !.strategy = req.strategy, !.explicit = req.explicit,
                           !.prio = req.prio, !.deps = req.deps]
<1>1. row \in Row
  BY NoRowTyped, StatusNames, SizesAssumption DEF Row, Request
<1>2. row.attempt = 0 /\ row.open = "none" /\ Enqueue(t, req.kind, row)
  BY DEF NoRow, CreateTask
<1> HIDE DEF row
<1> QED BY <1>1, <1>2, EnqueueLeaves

\* A cancellation sets status and flag.
LEMMA RequestCancelLeaves ==
  ASSUME task \in [Tasks -> Row], NEW asked, RequestCancel(asked)
  PROVE  BothStay
<1>1. ASSUME NEW row \in Row
      PROVE  LET m == [row EXCEPT !.status = "cancelled", !.cancelReq = TRUE,
                                  !.pos = NotPlaced]
             IN  m.attempt = row.attempt /\ m.open = row.open
  BY DEF Row
<1>2. \A x \in Tasks :
        \/ task'[x] = task[x]
        \/ task'[x] = [task[x] EXCEPT !.status = "cancelled", !.cancelReq = TRUE,
                                      !.pos = NotPlaced]
  BY DEF RequestCancel
<1> QED BY <1>1, <1>2 DEF BothStay

\* reorder_queue moves places.
LEMMA ReorderLeaves ==
  ASSUME task \in [Tasks -> Row], NEW place \in [Pending -> Nat], ReorderQueue(place)
  PROVE  BothStay
<1>1. ASSUME NEW row \in Row, NEW p \in Nat
      PROVE  LET m == [row EXCEPT !.pos = p]
             IN  m.attempt = row.attempt /\ m.open = row.open
  BY DEF Row
<1>2. \A x \in Tasks :
        task'[x] = task[x] \/ \E p \in Nat : task'[x] = [task[x] EXCEPT !.pos = p]
  BY DEF ReorderQueue
<1>3. ASSUME NEW x \in Tasks, NEW p \in Nat, task'[x] = [task[x] EXCEPT !.pos = p]
      PROVE  task'[x].attempt = task[x].attempt /\ task'[x].open = task[x].open
  BY <1>1, <1>3
<1> QED BY <1>2, <1>3 DEF BothStay

\* Claims, sweeps and the clock write timers and the status.
LEMMA ClaimLeaves ==
  ASSUME task \in [Tasks -> Row], NEW t \in Tasks, NEW lane, NEW width,
         ClaimInference(t) \/ ClaimInLane(t, lane, width) \/ SweepReservations \/ TimePasses
  PROVE  BothStay
<1>1. ASSUME NEW row \in Row
      PROVE  /\ Swept(row) \in Row
             /\ Swept(row).attempt = row.attempt /\ Swept(row).open = row.open
             /\ Claimed(row).attempt = row.attempt /\ Claimed(row).open = row.open
             /\ Aged(row).attempt = row.attempt /\ Aged(row).open = row.open
  <2>1. Swept(row) \in Row
    BY SweptTyped
  <2>2. LET m == [row EXCEPT !.reserve = NoTimer, !.deferrals = 0]
        IN  m.attempt = row.attempt /\ m.open = row.open
    BY DEF Row
  <2>3. LET m == [row EXCEPT !.status = "routing", !.pos = NotPlaced, !.wait = 0]
        IN  m.attempt = row.attempt /\ m.open = row.open
    BY DEF Row
  <2>4. Aged(row).attempt = row.attempt /\ Aged(row).open = row.open
    BY DEF Aged, Row
  <2> QED BY <2>1, <2>2, <2>3, <2>4 DEF Swept, Claimed
<1>2. \A x \in Tasks : task'[x] \in {task[x], Swept(task[x]), Claimed(Swept(task[x])),
                                     Claimed(task[x]), Aged(task[x])}
  BY DEF ClaimInference, ClaimInLane, SweepReservations, TimePasses, Update
<1> QED BY <1>1, <1>2 DEF BothStay

\* The waits for dependencies and for memory.
LEMMA WaitLeaves ==
  ASSUME task \in [Tasks -> Row], NEW t \in Tasks,
         ClearDependencyWait(t) \/ DeferForDependencies(t) \/ DeferForMemory(t)
  PROVE  BothStay
<1> DEFINE old == task[t]
           since == IF old.since = NoTimer THEN 0 ELSE old.since
           n == old.deferrals + 1
           r == IF n >= ReserveAfter /\ old.reserve = NoTimer THEN ReserveWindow
                                                              ELSE old.reserve
           clear == [old EXCEPT !.wait = 0, !.since = NoTimer]
           defer == [old EXCEPT !.status = "waiting_for_dependencies",
                                !.wait = DependencyWait, !.since = since]
           short == [old EXCEPT !.status = "waiting_for_memory", !.wait = MemoryWait,
                                !.deferrals = n, !.reserve = r]
<1>1. old \in Row /\ \E row \in {clear, defer, short} : Update(t, row)
  BY DEF ClearDependencyWait, DeferForDependencies, DeferForMemory
<1> HIDE DEF old, since, n, r
<1>2. \A row \in {clear, defer, short} : row.attempt = old.attempt /\ row.open = old.open
  BY <1>1 DEF Row
<1> HIDE DEF clear, defer, short
<1> QED BY <1>1, <1>2 DEF Update, BothStay, old

\* A demotion changes lane and status.
LEMMA DemotionLeaves ==
  ASSUME task \in [Tasks -> Row], NEW t \in Tasks, DemoteToInference(t)
  PROVE  BothStay
<1> DEFINE old == task[t]
           row == [old EXCEPT !.kind = "inference", !.status = "queued", !.wait = 0]
<1>1. old \in Row /\ Enqueue(t, "inference", row)
  BY DEF DemoteToInference
<1> HIDE DEF old
<1>2. row \in Row /\ row.attempt = old.attempt /\ row.open = old.open
  BY <1>1, StatusNames DEF Row, Lanes
<1> HIDE DEF row
<1> QED BY <1>1, <1>2, EnqueueLeaves DEF old, BothStay

\* A retry after an outage spends an attempt, and never the last one.
LEMMA OutageLeaves ==
  ASSUME task \in [Tasks -> Row], NEW t \in Tasks, ScheduleOutageRetry(t)
  PROVE  /\ \A x \in Tasks : task'[x].open = task[x].open
         /\ \A x \in Tasks \ {t} : task'[x].attempt = task[x].attempt
         /\ task'[t].attempt < MaxAttempts
<1> DEFINE old == task[t]
           n == old.attempt + 1
           w == OutageWait * n
           row == [old EXCEPT !.status = "queued", !.attempt = n, !.wait = w]
<1>1. old \in Row /\ n < MaxAttempts /\ Update(t, row)
  BY DEF ScheduleOutageRetry, MayRetryOutage
<1> HIDE DEF old, n, w
<1>2. row.attempt = n /\ row.open = old.open
  BY <1>1 DEF Row
<1> HIDE DEF row
<1> QED BY <1>1, <1>2 DEF Update, old

\* Rows of model_invocations are opened and closed.
LEMMA InvocationLeaves ==
  ASSUME task \in [Tasks -> Row], NEW t \in Tasks
  PROVE  /\ \A d \in {"local", "remote"} : StartInvocation(t, d) => Leaves(t, d)
         /\ CompleteInvocation(t) => Leaves(t, "none")
         /\ FailInvocation(t) => Leaves(t, "none")
         /\ \A s \in Statuses :
              Update(t, [Completed(task[t]) EXCEPT !.status = s, !.pos = NotPlaced])
                => Leaves(t, "none")
         /\ LET row == Abandoned(task[t])
            IN  Update(t, IF row.status \in TerminalStatuses THEN Rested(row) ELSE row)
                  => Leaves(t, "none")
<1> DEFINE old == task[t]
           done == Completed(old)
           closed == Abandoned(old)
           rested == Rested(closed)
<1>1. old \in Row
  OBVIOUS
<1> HIDE DEF old
<1>2. done \in Row /\ closed \in Row /\ rested \in Row
  BY <1>1, InvocationsTyped
<1>3. done.attempt = old.attempt /\ done.open = "none"
  BY <1>1 DEF Completed, Row
<1>4. closed.attempt = old.attempt /\ closed.open = "none"
  BY <1>1 DEF Abandoned, Row
<1> HIDE DEF closed
<1>5. rested.attempt = closed.attempt /\ rested.open = closed.open
  BY <1>2 DEF Rested, Row
<1> HIDE DEF done, rested
<1>6. \A d \in {"none", "local", "remote"} :
        LET row == [old EXCEPT !.open = d] IN row.attempt = old.attempt /\ row.open = d
  BY <1>1 DEF Row
<1>7. \A s \in Statuses :
        LET row == [done EXCEPT !.status = s, !.pos = NotPlaced]
        IN  row.attempt = done.attempt /\ row.open = done.open
  BY <1>2 DEF Row
<1>8. \A row, d : Update(t, row) /\ row.attempt = old.attempt /\ row.open = d => Leaves(t, d)
  BY DEF Update, Leaves, old
<1>9. /\ \A d \in {"local", "remote"} : StartInvocation(t, d) => Leaves(t, d)
      /\ FailInvocation(t) => Leaves(t, "none")
  BY <1>6, <1>8 DEF StartInvocation, FailInvocation, old
<1>10. CompleteInvocation(t) => Leaves(t, "none")
  BY <1>3, <1>8 DEF CompleteInvocation, done, old
<1>11. \A s \in Statuses :
         Update(t, [Completed(task[t]) EXCEPT !.status = s, !.pos = NotPlaced])
           => Leaves(t, "none")
  BY <1>3, <1>7, <1>8 DEF done, old
<1>12. Update(t, IF closed.status \in TerminalStatuses THEN rested ELSE closed)
         => Leaves(t, "none")
  BY <1>4, <1>5, <1>8
<1> QED BY <1>9, <1>10, <1>11, <1>12 DEF closed, rested, old

\* The recovery closes what it touches, and an attempt that is the last one fails.
LEMMA RecoveryLeaves ==
  ASSUME task \in [Tasks -> Row], NEW place \in [Requeueable -> Nat],
         RecoverInterrupted(place)
  PROVE  \A x \in Tasks :
           \/ task[x].status \notin ActiveStatuses /\ task'[x] = task[x]
           \/ /\ task[x].status \in ActiveStatuses /\ task'[x].open = "none"
              /\ \/ task'[x].status = "failed"
                    /\ task'[x].attempt \in {task[x].attempt, task[x].attempt + 1}
                 \/ task'[x].attempt < MaxAttempts
<1> SUFFICES ASSUME NEW x \in Tasks, task[x].status \in ActiveStatuses
             PROVE  /\ task'[x].open = "none"
                    /\ \/ task'[x].status = "failed"
                          /\ task'[x].attempt \in {task[x].attempt, task[x].attempt + 1}
                       \/ task'[x].attempt < MaxAttempts
  BY DEF RecoverInterrupted, Interrupted
<1> DEFINE old == task[x]
           row == Abandoned(old)
           n == row.attempt + 1
           p == IF row.pos = NotPlaced THEN place[x] ELSE row.pos
           failed == [row EXCEPT !.status = "failed", !.pos = NotPlaced]
           spent == [row EXCEPT !.status = "failed", !.pos = NotPlaced, !.attempt = n]
           queued == [row EXCEPT !.status = "queued", !.attempt = n, !.pos = p]
<1>1. \/ task'[x] \in {failed, spent}
      \/ task'[x] = queued /\ ~(old.attempt + 1 >= MaxAttempts)
  BY DEF RecoverInterrupted, Recovered, Interrupted, OutOfAttempts
<1>2. old \in Row
  OBVIOUS
<1> HIDE DEF old
<1>3. row \in Row /\ row.attempt = old.attempt /\ row.open = "none"
  <2>1. row \in Row BY <1>2, InvocationsTyped
  <2>2. row.attempt = old.attempt /\ row.open = "none" BY <1>2 DEF Abandoned, Row
  <2> QED BY <2>1, <2>2
<1> HIDE DEF row, n, p
<1>4. /\ \A new \in {failed, spent} :
           new.status = "failed" /\ new.attempt \in {row.attempt, n} /\ new.open = row.open
      /\ queued.attempt = n /\ queued.open = row.open
  BY <1>3 DEF Row
<1> HIDE DEF failed, spent, queued
<1>5. n = old.attempt + 1 /\ old.attempt \in Nat /\ MaxAttempts \in Nat
  BY <1>2, <1>3, SizesAssumption DEF n, Row
<1> QED BY <1>1, <1>3, <1>4, <1>5 DEF old

----------------------------------------------------------------------------
(* Steps of one coroutine.                                                 *)

\* An attempt is spent while another is left, or by work that fails with it.
SpendsWell(x) ==
  \/ task'[x].attempt = task[x].attempt
  \/ task'[x].attempt < MaxAttempts
  \/ /\ Active(x) /\ task'[x].status = "failed"
     /\ task'[x].attempt = task[x].attempt + 1

\* The step writes status s in the row of t alone.
OnlyStatus(t, s) == \A x \in Tasks : task'[x].status = IF x = t THEN s ELSE task[x].status

\* The step leaves d as the invocation of t, and no attempt is wasted.
Spares(t, d) ==
  \A x \in Tasks : SpendsWell(x) /\ task'[x].open = IF x = t THEN d ELSE task[x].open

NoCrash == phase' = phase /\ left'["crash"] = left["crash"]

\* What a coroutine may leave behind at its next place: status s, invocation d.
MayLeave(s, d, place, e) ==
  /\ place \notin Settled => s \in ActiveStatuses \cup {"cancelled"}
  /\ d # "none" => s \in ActiveStatuses \cup TerminalStatuses /\ MayBeOpen(place, e)

\* A step to an allowed place that leaves what is allowed there keeps the invariant.
LEMMA GoingIsKnown ==
  ASSUME InvocationsAreKnown, NEW t \in Tasks, NEW s, NEW d, NEW place, NEW e,
         OnlyStatus(t, s), Spares(t, d), Goes(t, place, e), NoCrash, MayLeave(s, d, place, e)
  PROVE  InvocationsAreKnown'
<1>1. InvocationIsKnown(t)'
  BY DEF OnlyStatus, Spares, Goes, MayLeave, InvocationIsKnown, Active, Terminal, Settled
<1>2. ASSUME NEW x \in Tasks \ {t} PROVE InvocationIsKnown(x)'
  <2>1. InvocationIsKnown(x)
    BY DEF InvocationsAreKnown
  <2>2. /\ task'[x].status = task[x].status /\ task'[x].open = task[x].open
        /\ job'[x] = job[x]
    BY DEF OnlyStatus, Spares, Goes
  <2> QED BY <2>1, <2>2 DEF NoCrash, InvocationIsKnown, Active, Terminal
<1>3. (left["crash"] <= Budget["crash"])'
  BY DEF InvocationsAreKnown, NoCrash
<1> QED BY <1>1, <1>2, <1>3 DEF InvocationsAreKnown

\* So does the end of a coroutine that leaves nothing open.
LEMMA EndingIsKnown ==
  ASSUME InvocationsAreKnown, NEW t \in Tasks, NEW s,
         OnlyStatus(t, s), Spares(t, "none"), Ends(t), NoCrash
  PROVE  InvocationsAreKnown'
<1>1. InvocationIsKnown(t)'
  BY DEF Spares, Ends, NoJob, InvocationIsKnown, Settled
<1>2. ASSUME NEW x \in Tasks \ {t} PROVE InvocationIsKnown(x)'
  <2>1. InvocationIsKnown(x)
    BY DEF InvocationsAreKnown
  <2>2. /\ task'[x].status = task[x].status /\ task'[x].open = task[x].open
        /\ job'[x] = job[x]
    BY DEF OnlyStatus, Spares, Ends
  <2> QED BY <2>1, <2>2 DEF NoCrash, InvocationIsKnown, Active, Terminal
<1>3. (left["crash"] <= Budget["crash"])'
  BY DEF InvocationsAreKnown, NoCrash
<1> QED BY <1>1, <1>2, <1>3 DEF InvocationsAreKnown

\* What the two parts say of t, where its coroutine is, and of the step.
LEMMA WhereItIs ==
  ASSUME IInv, InvocationsAreKnown, NEW t \in Tasks
  PROVE  /\ task \in [Tasks -> Row] /\ job \in [Tasks -> Job]
         /\ job[t].at \notin Settled => task[t].status \in ActiveStatuses \cup {"cancelled"}
         /\ task[t].open # "none" /\ job[t].at # "idle" =>
              /\ task[t].status \in ActiveStatuses \cup TerminalStatuses
              /\ MayBeOpen(job[t].at, job[t].err)
         /\ \A what \in Bounded \ {"crash", "any"} :
              Spend(what) => left'["crash"] = left["crash"]
         /\ BothStay => Spares(t, task[t].open)
         /\ UNCHANGED task => Spares(t, task[t].open)
         /\ \A d : Leaves(t, d) => Spares(t, d)
         /\ \A s : StatusBecomes(t, s) => OnlyStatus(t, s)
         /\ StatusesStay => OnlyStatus(t, task[t].status)
         /\ UNCHANGED task => OnlyStatus(t, task[t].status)
<1>1. task \in [Tasks -> Row] /\ job \in [Tasks -> Job] /\ left \in [Bounded -> Nat]
  BY DEF IInv, TypeOK
<1>2. \A what \in Bounded \ {"crash", "any"} : Spend(what) => left'["crash"] = left["crash"]
  BY <1>1 DEF Spend, Bounded
<1>3. InvocationIsKnown(t)
  BY DEF InvocationsAreKnown
<1>4. /\ job[t].at \notin Settled => task[t].status \in ActiveStatuses \cup {"cancelled"}
      /\ task[t].open # "none" /\ job[t].at # "idle" =>
           /\ task[t].status \in ActiveStatuses \cup TerminalStatuses
           /\ MayBeOpen(job[t].at, job[t].err)
  BY <1>3 DEF InvocationIsKnown, Active, Terminal
<1>5. /\ BothStay => Spares(t, task[t].open)
      /\ UNCHANGED task => Spares(t, task[t].open)
      /\ \A d : Leaves(t, d) => Spares(t, d)
  BY DEF BothStay, Leaves, Spares, SpendsWell
<1>6. /\ \A s : StatusBecomes(t, s) => OnlyStatus(t, s)
      /\ StatusesStay => OnlyStatus(t, task[t].status)
      /\ UNCHANGED task => OnlyStatus(t, task[t].status)
  BY DEF StatusBecomes, StatusesStay, OnlyStatus
<1> QED BY <1>1, <1>2, <1>4, <1>5, <1>6

\* The steps before the work: nothing is open yet.
LEMMA PrepareKnown ==
  ASSUME IInv, InvocationsAreKnown, NEW t \in Tasks, Prepare(t)
  PROVE  InvocationsAreKnown' /\ \A x \in Tasks : SpendsWell(x)
<1> DEFINE status == task[t].status
           open == task[t].open
           err == job[t].err
           Goal == InvocationsAreKnown' /\ \A x \in Tasks : SpendsWell(x)
<1>1. \A s, place, e, d :
        OnlyStatus(t, s) /\ Spares(t, d) /\ Goes(t, place, e) /\ NoCrash
          /\ MayLeave(s, d, place, e) => Goal
  BY GoingIsKnown DEF Spares
<1>2. \A s : OnlyStatus(t, s) /\ Spares(t, "none") /\ Ends(t) /\ NoCrash => Goal
  BY EndingIsKnown DEF Spares
<1>3. /\ task \in [Tasks -> Row] /\ job \in [Tasks -> Job]
      /\ job[t].at \notin Settled => status \in ActiveStatuses \cup {"cancelled"}
      /\ open # "none" /\ job[t].at # "idle" => MayBeOpen(job[t].at, err)
  BY WhereItIs
<1>4. \A what \in {"fault"} : Spend(what) => left'["crash"] = left["crash"]
  BY WhereItIs, BoundedNames
<1>5. /\ BothStay \/ UNCHANGED task => Spares(t, open)
      /\ StatusesStay \/ UNCHANGED task => OnlyStatus(t, status)
      /\ \A s : StatusBecomes(t, s) => OnlyStatus(t, s)
  BY WhereItIs
<1> HIDE DEF status, open, err, Goal
<1> SUFFICES Goal
  BY DEF Goal
<1> USE DEF At, NoCrash
<1>6. job[t].at \in {"deps", "defer", "entry", "begin", "failover"}
      /\ job[t].at \notin Settled /\ open = "none"
  BY <1>3 DEF Prepare, AwaitDependencies, DeferTask, AttachmentsFail, EntryCheck,
       RejectRequest, SelectionFails, BeginWork, MayBeOpen, Settled
<1>7. CASE AwaitDependencies(t)
  <2>1. Spares(t, "none") /\ OnlyStatus(t, status) /\ NoCrash
    BY <1>3, <1>5, <1>6, <1>7, WaitLeaves, WaitEffect DEF AwaitDependencies
  <2>2. Goes(t, "entry", err) \/ Goes(t, "defer", err)
    BY <1>3, <1>7, JobEffect, PlaceNames DEF AwaitDependencies, err
  <2> QED BY <1>1, <1>3, <1>6, <2>1, <2>2 DEF MayLeave
<1>8. CASE DeferTask(t)
  <2>1. Spares(t, "none") /\ OnlyStatus(t, "waiting_for_dependencies") /\ NoCrash /\ Ends(t)
    BY <1>3, <1>5, <1>6, <1>8, WaitLeaves, WaitEffect, JobEffect DEF DeferTask
  <2> QED BY <1>2, <2>1
<1>9. CASE AttachmentsFail(t)
  <2>1. Spares(t, "none") /\ OnlyStatus(t, "failed") /\ NoCrash /\ Ends(t)
    BY <1>3, <1>4, <1>5, <1>6, <1>9, StatusLeaves, SetStatusEffect, StatusNames, JobEffect
       DEF AttachmentsFail
  <2> QED BY <1>2, <2>1
<1>10. CASE EntryCheck(t)
  <2>1. Spares(t, "none") /\ NoCrash
    BY <1>3, <1>5, <1>6, <1>10, StatusLeaves, StatusNames DEF EntryCheck
  <2>2. \/ OnlyStatus(t, "cancelled") /\ Goes(t, "finally", err)
        \/ OnlyStatus(t, status) /\ Goes(t, "begin", err)
    BY <1>3, <1>5, <1>10, SetStatusEffect, StatusNames, JobEffect, PlaceNames
       DEF EntryCheck, err
  <2> QED BY <1>1, <1>3, <1>6, <2>1, <2>2 DEF MayLeave
<1>11. CASE RejectRequest(t)
  <2>1. Spares(t, "none") /\ OnlyStatus(t, "failed") /\ NoCrash /\ Goes(t, "finally", err)
    BY <1>3, <1>4, <1>5, <1>6, <1>11, StatusLeaves, SetStatusEffect, StatusNames, JobEffect,
       PlaceNames DEF RejectRequest, err
  <2> QED BY <1>1, <2>1 DEF MayLeave, Settled
<1>12. CASE SelectionFails(t)
  <2>1. Spares(t, "none") /\ OnlyStatus(t, status) /\ NoCrash
    BY <1>4, <1>5, <1>6, <1>12 DEF SelectionFails
  <2>2. PICK e \in Errors : Goes(t, "error", e)
    BY <1>3, <1>12, JobEffect DEF SelectionFails, Errors
  <2> QED BY <1>1, <1>3, <1>6, <2>1, <2>2 DEF MayLeave
<1>13. CASE BeginWork(t)
  <2>1. Spares(t, "none") /\ OnlyStatus(t, "generating") /\ NoCrash
    BY <1>3, <1>5, <1>6, <1>13, StatusLeaves, SetStatusEffect, StatusNames DEF BeginWork
  <2>2. Goes(t, "check", err) \/ Goes(t, "launch", err)
    BY <1>3, <1>13, JobEffect, PlaceNames DEF BeginWork, err
  <2> QED BY <1>1, <2>1, <2>2 DEF MayLeave, ActiveStatuses
<1> QED BY <1>7, <1>8, <1>9, <1>10, <1>11, <1>12, <1>13 DEF Prepare

\* Calls open an invocation and close it, or leave it to the error that cut them.
LEMMA InferKnown ==
  ASSUME IInv, InvocationsAreKnown, NEW t \in Tasks, Infer(t)
  PROVE  InvocationsAreKnown' /\ \A x \in Tasks : SpendsWell(x)
<1> DEFINE status == task[t].status
           open == task[t].open
           err == job[t].err
           Goal == InvocationsAreKnown' /\ \A x \in Tasks : SpendsWell(x)
<1>1. \A s, place, e, d :
        OnlyStatus(t, s) /\ Spares(t, d) /\ Goes(t, place, e) /\ NoCrash
          /\ MayLeave(s, d, place, e) => Goal
  BY GoingIsKnown DEF Spares
<1>2. \A s : OnlyStatus(t, s) /\ Spares(t, "none") /\ Ends(t) /\ NoCrash => Goal
  BY EndingIsKnown DEF Spares
<1>3. /\ task \in [Tasks -> Row] /\ job \in [Tasks -> Job]
      /\ job[t].at \notin Settled => status \in ActiveStatuses \cup {"cancelled"}
      /\ open # "none" /\ job[t].at # "idle" =>
           /\ status \in ActiveStatuses \cup TerminalStatuses
           /\ MayBeOpen(job[t].at, err)
  BY WhereItIs
<1>4. \A what \in {"fault", "round", "timeout", "bug"} :
        Spend(what) => left'["crash"] = left["crash"]
  BY WhereItIs, BoundedNames
<1>5. /\ BothStay \/ UNCHANGED task => Spares(t, open)
      /\ \A d : Leaves(t, d) => Spares(t, d)
      /\ StatusesStay \/ UNCHANGED task => OnlyStatus(t, status)
      /\ \A s : StatusBecomes(t, s) => OnlyStatus(t, s)
  BY WhereItIs
<1> HIDE DEF status, open, err, Goal
<1> SUFFICES Goal
  BY DEF Goal
<1> USE DEF At, NoCrash
<1>6. /\ job[t].at \in {"check", "launch", "call", "turn"} /\ job[t].at \notin Settled
      /\ job[t].at # "call" => open = "none"
  BY <1>3 DEF Infer, RoundCheck, StartCall, CallReturns, CallFails, CallCancelled,
       FinalAnswer, AsksClient, NextRound, LosesQuorum, MayBeOpen, Settled
<1>7. CASE RoundCheck(t)
  <2>1. Spares(t, "none") /\ NoCrash
    BY <1>3, <1>5, <1>6, <1>7, StatusLeaves, StatusNames DEF RoundCheck
  <2>2. \/ OnlyStatus(t, "cancelled") /\ Goes(t, "finally", err)
        \/ OnlyStatus(t, status) /\ Goes(t, "launch", err)
    BY <1>3, <1>5, <1>7, SetStatusEffect, StatusNames, JobEffect, PlaceNames
       DEF RoundCheck, err
  <2> QED BY <1>1, <1>3, <1>6, <2>1, <2>2 DEF MayLeave
<1>8. CASE StartCall(t)
  <2>1. PICK d \in {"local", "remote"} : StartInvocation(t, d)
    BY <1>8, BrokerAssumption DEF StartCall
  <2>2. Spares(t, d) /\ OnlyStatus(t, status)
    BY <1>3, <1>5, <2>1, InvocationLeaves, OpenEffect
  <2>3. Goes(t, "call", err) /\ NoCrash
    BY <1>3, <1>8, JobEffect, PlaceNames DEF StartCall, err
  <2> QED BY <1>1, <1>3, <1>6, <2>2, <2>3 DEF MayLeave, MayBeOpen, TerminalStatuses
<1>9. CASE CallReturns(t)
  <2>1. OnlyStatus(t, status) /\ NoCrash
    BY <1>3, <1>5, <1>9, OpenEffect DEF CallReturns
  <2>2. \/ Spares(t, "none") /\ Goes(t, "turn", err)
        \/ Spares(t, open) /\ Goes(t, "output", err)
    BY <1>3, <1>5, <1>9, InvocationLeaves, JobEffect, PlaceNames DEF CallReturns, err
  <2> QED BY <1>1, <1>3, <1>6, <2>1, <2>2 DEF MayLeave, MayBeOpen, TerminalStatuses
<1>10. CASE CallFails(t)
  <2>1. Spares(t, "none") /\ OnlyStatus(t, status) /\ NoCrash
    BY <1>3, <1>4, <1>5, <1>10, InvocationLeaves, OpenEffect DEF CallFails
  <2>2. \/ Goes(t, "launch", err) \/ Goes(t, "failover", err) \/ Goes(t, "check", err)
        \/ \E e \in Errors : Goes(t, "error", e)
    BY <1>3, <1>10, JobEffect, PlaceNames
       DEF CallFails, Retries, FailsOver, SkipsProposer, err, Errors
  <2> QED BY <1>1, <1>3, <1>6, <2>1, <2>2 DEF MayLeave
<1>11. CASE CallCancelled(t)
  <2>1. Spares(t, "none") /\ OnlyStatus(t, status) /\ NoCrash
    BY <1>3, <1>5, <1>11, InvocationLeaves, OpenEffect DEF CallCancelled
  <2>2. Goes(t, "error", "cancelled")
    BY <1>3, <1>11, JobEffect DEF CallCancelled, Errors
  <2> QED BY <1>1, <1>3, <1>6, <2>1, <2>2 DEF MayLeave
<1>12. CASE FinalAnswer(t) \/ AsksClient(t)
  <2>1. Spares(t, "none") /\ OnlyStatus(t, status) /\ NoCrash
    BY <1>4, <1>5, <1>6, <1>12 DEF FinalAnswer, AsksClient
  <2>2. Goes(t, "finish", err) \/ Goes(t, "pause", err)
    BY <1>3, <1>12, JobEffect, PlaceNames DEF FinalAnswer, AsksClient, err
  <2> QED BY <1>1, <1>3, <1>6, <2>1, <2>2 DEF MayLeave
<1>13. CASE NextRound(t)
  <2>1. Spares(t, "none") /\ OnlyStatus(t, "generating") /\ NoCrash
    BY <1>3, <1>4, <1>5, <1>6, <1>13, StatusLeaves, UpdateStatusEffect, StatusNames
       DEF NextRound
  <2>2. Goes(t, "check", err) \/ Goes(t, "yield", err) \/ Goes(t, "saveYield", err)
    BY <1>3, <1>13, JobEffect, PlaceNames DEF NextRound, err
  <2> QED BY <1>1, <2>1, <2>2 DEF MayLeave, ActiveStatuses
<1>14. CASE LosesQuorum(t)
  <2>1. Spares(t, "none") /\ OnlyStatus(t, "failed") /\ NoCrash /\ Goes(t, "finally", err)
    BY <1>3, <1>4, <1>5, <1>6, <1>14, StatusLeaves, SetStatusEffect, StatusNames, JobEffect,
       PlaceNames DEF LosesQuorum, err
  <2> QED BY <1>1, <2>1 DEF MayLeave, Settled
<1> QED BY <1>7, <1>8, <1>9, <1>10, <1>11, <1>12, <1>13, <1>14 DEF Infer

\* The ends of a coroutine close what is open, in the finally block at the latest.
LEMMA ConcludeKnown ==
  ASSUME IInv, InvocationsAreKnown, NEW t \in Tasks, Conclude(t)
  PROVE  InvocationsAreKnown' /\ \A x \in Tasks : SpendsWell(x)
<1> DEFINE status == task[t].status
           open == task[t].open
           err == job[t].err
           Goal == InvocationsAreKnown' /\ \A x \in Tasks : SpendsWell(x)
<1>1. \A s, place, e, d :
        OnlyStatus(t, s) /\ Spares(t, d) /\ Goes(t, place, e) /\ NoCrash
          /\ MayLeave(s, d, place, e) => Goal
  BY GoingIsKnown DEF Spares
<1>2. \A s : OnlyStatus(t, s) /\ Spares(t, "none") /\ Ends(t) /\ NoCrash => Goal
  BY EndingIsKnown DEF Spares
<1>3. /\ task \in [Tasks -> Row] /\ job \in [Tasks -> Job]
      /\ job[t].at \notin Settled => status \in ActiveStatuses \cup {"cancelled"}
      /\ open # "none" /\ job[t].at # "idle" =>
           /\ status \in ActiveStatuses \cup TerminalStatuses
           /\ MayBeOpen(job[t].at, err)
  BY WhereItIs
<1>4. \A what \in {"fault", "round", "timeout", "bug"} :
        Spend(what) => left'["crash"] = left["crash"]
  BY WhereItIs, BoundedNames
<1>5. /\ BothStay \/ UNCHANGED task => Spares(t, open)
      /\ \A d : Leaves(t, d) => Spares(t, d)
      /\ StatusesStay \/ UNCHANGED task => OnlyStatus(t, status)
      /\ \A s : StatusBecomes(t, s) => OnlyStatus(t, s)
  BY WhereItIs
<1> HIDE DEF status, open, err, Goal
<1> SUFFICES Goal
  BY DEF Goal
<1> USE DEF At, NoCrash
<1>6. /\ job[t].at # "idle"
      /\ open # "none" => MayBeOpen(job[t].at, err)
  BY <1>3 DEF Conclude, OutputCheck, SaveSingle, AfterLoop, SaveFinish, SavePause, SaveYield,
       ErrorCheck, SettleError, Finally, HandlerReads, HandlerSavesFailed
<1>7. CASE OutputCheck(t)
  <2>1. job[t].at = "output" /\ NoCrash
    BY <1>7 DEF OutputCheck
  <2>2. \/ Spares(t, "none") /\ OnlyStatus(t, "cancelled") /\ Goes(t, "finally", err)
        \/ Spares(t, open) /\ OnlyStatus(t, status) /\ Goes(t, "saveSingle", err)
    BY <1>3, <1>5, <1>7, InvocationLeaves, ClosingEffect, StatusNames, JobEffect, PlaceNames
       DEF OutputCheck, err
  <2> QED BY <1>1, <1>3, <2>1, <2>2
          DEF MayLeave, MayBeOpen, Settled, TerminalStatuses
<1>8. CASE SaveSingle(t)
  <2>1. job[t].at = "saveSingle" /\ NoCrash
    BY <1>8 DEF SaveSingle
  <2>2. \/ Spares(t, "none") /\ OnlyStatus(t, "completed") /\ Goes(t, "finally", err)
        \/ Spares(t, open) /\ OnlyStatus(t, status) /\ Goes(t, "error", "cancelled")
    BY <1>3, <1>5, <1>8, InvocationLeaves, ClosingEffect, StatusNames, JobEffect, PlaceNames
       DEF SaveSingle, CompleteSingle, err, Errors
  <2> QED BY <1>1, <1>3, <2>1, <2>2
          DEF MayLeave, MayBeOpen, Settled, TerminalStatuses
<1>9. CASE AfterLoop(t)
  <2>1. job[t].at \in {"finish", "pause", "yield"} /\ NoCrash
    BY <1>9 DEF AfterLoop
  <2>2. open = "none"
    BY <1>6, <2>1 DEF MayBeOpen
  <2>3. Spares(t, "none")
    BY <1>3, <1>5, <1>9, <2>2, StatusLeaves, StatusNames DEF AfterLoop
  <2>4. CASE CancelRequested(t)
    <3>1. OnlyStatus(t, "cancelled") /\ Goes(t, "finally", err)
      BY <1>3, <1>5, <1>9, <2>4, SetStatusEffect, StatusNames, JobEffect, PlaceNames
         DEF AfterLoop, err
    <3> QED BY <1>1, <2>1, <2>3, <3>1 DEF MayLeave
  <2>5. CASE ~CancelRequested(t)
    <3>1. \E place \in {"saveFinish", "savePause", "saveYield"} : Goto(t, place)
      BY <1>9, <2>1, <2>5 DEF AfterLoop
    <3>2. PICK place \in {"saveFinish", "savePause", "saveYield"} : Goes(t, place, err)
      BY <1>3, <3>1, JobEffect, PlaceNames DEF err
    <3>3. OnlyStatus(t, status) /\ job[t].at \notin Settled
      BY <1>5, <1>9, <2>1, <2>5 DEF AfterLoop, Settled
    <3> QED BY <1>1, <1>3, <2>1, <2>3, <3>2, <3>3 DEF MayLeave
  <2> QED BY <2>4, <2>5
<1>10. CASE SaveFinish(t) \/ SavePause(t)
  <2>1. job[t].at \in {"saveFinish", "savePause"} /\ NoCrash
    BY <1>10 DEF SaveFinish, SavePause
  <2>2. Spares(t, "none")
    BY <1>3, <1>5, <1>6, <1>10, <2>1, StatusLeaves, StatusNames
       DEF SaveFinish, SavePause, PauseForTools, MayBeOpen
  <2>3. PICK s \in {"completed", "waiting_for_tools"} : OnlyStatus(t, s)
    BY <1>3, <1>5, <1>10, SetStatusEffect, StatusNames
       DEF SaveFinish, SavePause, PauseForTools
  <2>4. Goes(t, "finally", err)
    BY <1>3, <1>10, JobEffect, PlaceNames DEF SaveFinish, SavePause, err
  <2> QED BY <1>1, <2>1, <2>2, <2>3, <2>4 DEF MayLeave, Settled
<1>11. CASE SaveYield(t)
  <2>1. job[t].at = "saveYield" /\ NoCrash
    BY <1>11 DEF SaveYield
  <2>2. Spares(t, "none")
    BY <1>3, <1>5, <1>6, <1>11, <2>1, StatusLeaves, StatusNames
       DEF SaveYield, YieldTurn, MayBeOpen
  <2>3. OnlyStatus(t, "queued") /\ Goes(t, "finally", err)
    BY <1>3, <1>5, <1>11, EnqueueStatusEffect, StatusNames, JobEffect, PlaceNames
       DEF SaveYield, YieldTurn, err
  <2> QED BY <1>1, <2>1, <2>2, <2>3 DEF MayLeave, Settled
<1>12. CASE ErrorCheck(t)
  <2>1. job[t].at = "error" /\ NoCrash
    BY <1>12 DEF ErrorCheck
  <2>2. Spares(t, open)
    BY <1>3, <1>5, <1>12, StatusLeaves, StatusNames DEF ErrorCheck
  <2>3. \/ OnlyStatus(t, "cancelled") /\ Goes(t, "finally", err)
        \/ OnlyStatus(t, status) /\ Goes(t, "settle", err)
    BY <1>3, <1>5, <1>12, SetStatusEffect, StatusNames, JobEffect, PlaceNames
       DEF ErrorCheck, err
  <2> QED BY <1>1, <1>3, <1>6, <2>1, <2>2, <2>3
          DEF MayLeave, MayBeOpen, Settled, TerminalStatuses
<1>13. CASE SettleError(t)
  <2>1. job[t].at = "settle" /\ NoCrash /\ Goes(t, "finally", err)
    BY <1>3, <1>13, JobEffect, PlaceNames DEF SettleError, err
  <2>2. CASE open = "none"
    <3>1. \E s : OnlyStatus(t, s)
      BY <1>3, <1>5, <1>13, DemotionEffect, DeferForMemoryEffect, OutageEffect,
         SetStatusEffect, StatusNames DEF SettleError, OnlyStatus
    <3>2. Spares(t, "none")
      <4>1. CASE ScheduleOutageRetry(t)
        BY <1>3, <2>2, <4>1, OutageLeaves DEF Spares, SpendsWell, open
      <4>2. CASE ~ScheduleOutageRetry(t)
        BY <1>3, <1>5, <1>13, <2>2, <4>2, DemotionLeaves, WaitLeaves, StatusLeaves,
           StatusNames DEF SettleError
      <4> QED BY <4>1, <4>2
    <3> QED BY <1>1, <2>1, <3>1, <3>2 DEF MayLeave, Settled
  <2>3. CASE open # "none"
    <3>1. err \in {"timeout", "cancelled"}
      BY <1>6, <2>1, <2>3 DEF MayBeOpen
    <3>2. SetStatus(t, "failed")
      BY <1>13, <3>1 DEF SettleError, Demotes, err
    <3>3. OnlyStatus(t, "failed") /\ Spares(t, open)
      BY <1>3, <1>5, <3>2, SetStatusEffect, StatusLeaves, StatusNames
    <3> QED BY <1>1, <2>1, <3>3 DEF MayLeave, MayBeOpen, Settled, TerminalStatuses
  <2> QED BY <2>2, <2>3
<1>14. CASE Finally(t)
  <2>1. Spares(t, "none") /\ OnlyStatus(t, status) /\ NoCrash
    BY <1>3, <1>5, <1>14, InvocationLeaves, CleanupEffect DEF Finally
  <2>2. Goes(t, "handler", err) \/ Ends(t)
    BY <1>3, <1>14, JobEffect, PlaceNames DEF Finally, err
  <2> QED BY <1>1, <1>2, <2>1, <2>2 DEF MayLeave, Settled
<1>15. CASE HandlerReads(t)
  <2>1. job[t].at = "handler" /\ OnlyStatus(t, status) /\ NoCrash /\ Spares(t, open)
    BY <1>5, <1>15 DEF HandlerReads
  <2>2. open = "none"
    BY <1>6, <2>1 DEF MayBeOpen
  <2>3. Goes(t, "saveFailed", err) \/ Ends(t)
    BY <1>3, <1>15, JobEffect, PlaceNames DEF HandlerReads, err
  <2> QED BY <1>1, <1>2, <2>1, <2>2, <2>3 DEF MayLeave, Settled
<1>16. CASE HandlerSavesFailed(t)
  <2>1. job[t].at = "saveFailed" /\ OnlyStatus(t, "failed") /\ NoCrash /\ Spares(t, open)
        /\ Ends(t)
    BY <1>3, <1>5, <1>16, SetStatusEffect, StatusLeaves, StatusNames, JobEffect
       DEF HandlerSavesFailed
  <2>2. open = "none"
    BY <1>6, <2>1 DEF MayBeOpen
  <2> QED BY <1>2, <2>1, <2>2
<1> QED BY <1>7, <1>8, <1>9, <1>10, <1>11, <1>12, <1>13, <1>14, <1>15, <1>16 DEF Conclude

\* What cuts a call short leaves it to a place that knows.
LEMMA DisturbKnown ==
  ASSUME IInv, InvocationsAreKnown, NEW t \in Tasks, Disturb(t)
  PROVE  InvocationsAreKnown' /\ \A x \in Tasks : SpendsWell(x)
<1> DEFINE status == task[t].status
           open == task[t].open
           err == job[t].err
           Goal == InvocationsAreKnown' /\ \A x \in Tasks : SpendsWell(x)
<1>1. \A s, place, e, d :
        OnlyStatus(t, s) /\ Spares(t, d) /\ Goes(t, place, e) /\ NoCrash
          /\ MayLeave(s, d, place, e) => Goal
  BY GoingIsKnown DEF Spares
<1>2. \A s : OnlyStatus(t, s) /\ Spares(t, "none") /\ Ends(t) /\ NoCrash => Goal
  BY EndingIsKnown DEF Spares
<1>3. /\ task \in [Tasks -> Row] /\ job \in [Tasks -> Job]
      /\ job[t].at \notin Settled => status \in ActiveStatuses \cup {"cancelled"}
      /\ open # "none" /\ job[t].at # "idle" =>
           /\ status \in ActiveStatuses \cup TerminalStatuses
           /\ MayBeOpen(job[t].at, err)
  BY WhereItIs
<1>4. \A what \in {"fault", "round", "timeout", "bug"} :
        Spend(what) => left'["crash"] = left["crash"]
  BY WhereItIs, BoundedNames
<1>5. /\ BothStay \/ UNCHANGED task => Spares(t, open)
      /\ \A d : Leaves(t, d) => Spares(t, d)
      /\ StatusesStay \/ UNCHANGED task => OnlyStatus(t, status)
      /\ \A s : StatusBecomes(t, s) => OnlyStatus(t, s)
  BY WhereItIs
<1> HIDE DEF status, open, err, Goal
<1> SUFFICES Goal
  BY DEF Goal
<1> USE DEF At, NoCrash
<1>6. /\ job[t].at \notin Settled /\ job[t].at # "idle"
      /\ Spares(t, open) /\ OnlyStatus(t, status) /\ NoCrash
  BY <1>4, <1>5 DEF Disturb, TimesOut, InternalError, LaneJobCancelled, Awaiting, Settled
<1>7. status \in ActiveStatuses \cup {"cancelled"}
  BY <1>3, <1>6
<1>8. \A place \in {"finally", "error"} : \A e :
        (place = "error" => e = "timeout") => MayLeave(status, open, place, e)
  BY <1>7 DEF MayLeave, MayBeOpen, TerminalStatuses
<1>9. CASE TimesOut(t)
  <2>1. Goes(t, "error", "timeout")
    BY <1>3, <1>9, JobEffect DEF TimesOut, Errors
  <2> QED BY <1>1, <1>6, <1>8, <2>1
<1>10. CASE InternalError(t)
  <2>1. Goes(t, "finally", "internal")
    BY <1>3, <1>10, JobEffect DEF InternalError
  <2> QED BY <1>1, <1>6, <1>8, <2>1
<1>11. CASE LaneJobCancelled(t)
  <2>1. \/ Goes(t, "finally", err)
        \/ job[t].at \in {"deps", "entry"} /\ Ends(t)
    BY <1>3, <1>11, JobEffect, PlaceNames DEF LaneJobCancelled, err
  <2>2. job[t].at \in {"deps", "entry"} => open = "none"
    BY <1>3, <1>6 DEF MayBeOpen
  <2> QED BY <1>1, <1>2, <1>6, <1>8, <2>1, <2>2
<1> QED BY <1>9, <1>10, <1>11 DEF Disturb

----------------------------------------------------------------------------
(* Steps of everybody else.                                                *)

\* A row that a client, an operator or the clock changed, and its coroutine did not.
LEMMA OutsideIsKnown ==
  ASSUME InvocationsAreKnown, NEW x \in Tasks, JobIsWhole(x), Outside(x),
         job'[x] = job[x], phase' = phase, left'["crash"] = left["crash"],
         task'[x].open = task[x].open \/ task'[x].open = "none"
  PROVE  InvocationIsKnown(x)'
<1>1. InvocationIsKnown(x)
  BY DEF InvocationsAreKnown
<1> USE DEF InvocationIsKnown, Active, Terminal
<1>2. (job[x].at \notin Settled => Active(x) \/ task[x].status = "cancelled")'
  BY <1>1 DEF Outside, JobIsWhole, ActiveStatuses, Settled
<1>3. ASSUME task'[x].open # "none"
      PROVE  /\ task[x].open # "none"
             /\ \/ task'[x].status = task[x].status
                \/ Active(x) /\ task'[x].status = "cancelled"
  BY <1>1, <1>3 DEF Outside, ActiveStatuses, TerminalStatuses
<1>4. ASSUME task'[x].open # "none"
      PROVE  (/\ Active(x) \/ Terminal(x)
              /\ \/ MayBeOpen(job[x].at, job[x].err)
                 \/ /\ job[x].at = "idle" /\ left["crash"] < Budget["crash"]
                    /\ phase # "down" => Terminal(x))'
  BY <1>1, <1>3, <1>4 DEF TerminalStatuses
<1> QED BY <1>2, <1>4

\* Clients, the sweep of the reservations and the clock.
LEMMA OutsideKnown ==
  ASSUME IInv, InvocationsAreKnown,
         \/ \E t \in Tasks : Client(t)
         \/ CancelAllPending \/ Reorder \/ DispatchNothing \/ Tick
  PROVE  InvocationsAreKnown' /\ \A x \in Tasks : SpendsWell(x)
<1> DEFINE Only == /\ UNCHANGED <<job, phase>> /\ left'["crash"] = left["crash"]
                   /\ \A x \in Tasks : /\ SpendsWell(x)
                                       /\ task'[x].open \in {task[x].open, "none"}
<1>1. task \in [Tasks -> Row] /\ left \in [Bounded -> Nat]
  BY DEF IInv, TypeOK
<1>2. \A what \in Bounded \ {"crash", "any"} : Spend(what) => left'["crash"] = left["crash"]
  BY <1>1 DEF Spend, Bounded
<1>3. BothStay => \A x \in Tasks : SpendsWell(x) /\ task'[x].open \in {task[x].open, "none"}
  BY DEF BothStay, SpendsWell
<1>4. Only
  <2>1. ASSUME NEW t \in Tasks, Create(t) PROVE Only
    <3>1. PICK req \in Requests : CreateTask(t, req)
      BY <2>1 DEF Create
    <3>2. \A x \in Tasks : SpendsWell(x) /\ task'[x].open \in {task[x].open, "none"}
      BY <1>1, <3>1, CreateLeaves, SizesAssumption DEF SpendsWell
    <3> QED BY <2>1, <3>2 DEF Create
  <2>2. ASSUME NEW t \in Tasks, Cancel(t) PROVE Only
    BY <1>1, <1>2, <1>3, <2>2, RequestCancelLeaves, BoundedNames DEF Cancel
  <2>3. ASSUME NEW t \in Tasks, ToolResults(t) PROVE Only
    <3>1. BothStay
      BY <1>1, <2>3, StatusLeaves, StatusNames DEF ToolResults, ResumeWithToolResults
    <3> QED BY <1>3, <2>3, <3>1 DEF ToolResults
  <2>4. ASSUME CancelAllPending PROVE Only
    BY <1>1, <1>2, <1>3, <2>4, RequestCancelLeaves, BoundedNames DEF CancelAllPending
  <2>5. ASSUME Reorder PROVE Only
    <3>1. PICK place \in Numberings(Pending) : ReorderQueue(place)
      BY <2>5 DEF Reorder
    <3>2. place \in [Pending -> Nat]
      BY <3>1 DEF Numberings
    <3>3. BothStay
      BY <1>1, <3>1, <3>2, ReorderLeaves
    <3> QED BY <1>2, <1>3, <2>5, <3>3, BoundedNames DEF Reorder
  <2>6. ASSUME DispatchNothing \/ Tick PROVE Only
    <3>1. BothStay
      <4>1. 1 \in Tasks
        BY SizesAssumption DEF Tasks
      <4> QED BY <1>1, <2>6, <4>1, ClaimLeaves DEF DispatchNothing, Tick
    <3> QED BY <1>3, <2>6, <3>1 DEF DispatchNothing, Tick
  <2> QED BY <2>1, <2>2, <2>3, <2>4, <2>5, <2>6 DEF Client
<1> HIDE DEF Only
<1>5. \A x \in Tasks : Outside(x) /\ JobIsWhole(x)
  BY OutsideSound DEF IInv, Sound
<1>6. \A x \in Tasks : InvocationIsKnown(x)'
  BY <1>4, <1>5, OutsideIsKnown DEF Only
<1> QED BY <1>4, <1>6 DEF Only, InvocationsAreKnown

\* A task that is claimed has nothing open: nobody else worked on it.
LEMMA ClaimKnown ==
  ASSUME IInv, InvocationsAreKnown, NEW t \in Tasks, Dispatch(t)
  PROVE  InvocationsAreKnown' /\ \A x \in Tasks : SpendsWell(x)
<1>1. task \in [Tasks -> Row] /\ left \in [Bounded -> Nat] /\ InvocationIsKnown(t)
  BY DEF IInv, TypeOK, InvocationsAreKnown
<1>2. PICK lane \in Lanes : Claims(t, lane)
  BY DispatchClaims
<1>3. BothStay
  BY <1>1, ClaimLeaves DEF Dispatch, DispatchInference, DispatchLane, ManualTick
<1>4. left'["crash"] = left["crash"]
  <2>1. Spend("tick") => left'["crash"] = left["crash"]
    BY <1>1 DEF Spend, Bounded
  <2> QED BY <2>1 DEF Dispatch, DispatchInference, DispatchLane, ManualTick
<1>5. InvocationIsKnown(t)'
  <2>1. task[t].open = "none"
    BY <1>1, <1>2 DEF Claims, InvocationIsKnown, Active, Terminal, PendingStatuses,
                      ActiveStatuses, TerminalStatuses
  <2> QED BY <1>2, <1>3, <2>1
          DEF Claims, StatusBecomes, BothStay, InvocationIsKnown, Active, ActiveStatuses
<1>6. ASSUME NEW x \in Tasks \ {t} PROVE InvocationIsKnown(x)'
  <2>1. InvocationIsKnown(x)
    BY DEF InvocationsAreKnown
  <2> QED BY <1>2, <1>3, <1>4, <2>1
          DEF Claims, StatusBecomes, BothStay, InvocationIsKnown, Active, Terminal
<1>7. \A x \in Tasks : SpendsWell(x)
  BY <1>3 DEF BothStay, SpendsWell
<1> QED BY <1>4, <1>5, <1>6, <1>7 DEF InvocationsAreKnown

\* A crash leaves open what was open; the next start closes it where it matters.
LEMMA LifespanKnown ==
  ASSUME IInv, InvocationsAreKnown, Stop \/ Stopped \/ Crash \/ Start
  PROVE  InvocationsAreKnown' /\ \A x \in Tasks : SpendsWell(x)
<1>1. /\ task \in [Tasks -> Row] /\ left \in [Bounded -> Nat]
      /\ Budget["crash"] \in Nat /\ left["crash"] <= Budget["crash"]
      /\ \A x \in Tasks : InvocationIsKnown(x) /\ JobIsWhole(x)
  BY BrokerAssumption DEF IInv, TypeOK, Sound, InvocationsAreKnown, Bounded
<1>2. CASE Stop \/ Stopped
  <2>1. Spend("stop") => left'["crash"] = left["crash"]
    BY <1>1 DEF Spend, Bounded
  <2>2. /\ task' = task /\ job' = job /\ left'["crash"] = left["crash"]
        /\ phase # "down"
    BY <1>2, <2>1 DEF Stop, Stopped
  <2>3. \A x \in Tasks : InvocationIsKnown(x)'
    BY <1>1, <2>2 DEF InvocationIsKnown, Active, Terminal
  <2> QED BY <1>1, <2>2, <2>3 DEF InvocationsAreKnown, SpendsWell
<1>3. CASE Crash
  <2>1. /\ task' = task /\ phase' = "down" /\ \A x \in Tasks : job'[x] = NoJob
        /\ left'["crash"] = left["crash"] - 1
    BY <1>1, <1>3 DEF Crash, Spend, Bounded
  <2>2. left["crash"] \in Nat /\ left'["crash"] < Budget["crash"]
    BY <1>1, <2>1 DEF Bounded
  <2>3. \A x \in Tasks : InvocationIsKnown(x)'
    BY <1>1, <2>1, <2>2 DEF InvocationIsKnown, Active, Terminal, NoJob, Settled
  <2> QED BY <2>1, <2>2, <2>3, <1>1 DEF InvocationsAreKnown, SpendsWell
<1>4. CASE Start
  <2>1. PICK place \in Numberings(Requeueable) : RecoverInterrupted(place)
    BY <1>4 DEF Start
  <2>2. place \in [Requeueable -> Nat]
    BY <2>1 DEF Numberings
  <2>3. \A x \in Tasks :
           \/ task[x].status \notin ActiveStatuses /\ task'[x] = task[x]
           \/ /\ task[x].status \in ActiveStatuses /\ task'[x].open = "none"
              /\ \/ task'[x].status = "failed"
                    /\ task'[x].attempt \in {task[x].attempt, task[x].attempt + 1}
                 \/ task'[x].attempt < MaxAttempts
    BY <1>1, <2>1, <2>2, RecoveryLeaves
  <2>4. /\ job' = job /\ left' = left
        /\ \A x \in Tasks : job[x].at = "idle"
    BY <1>1, <1>4 DEF Start, JobIsWhole
  <2>5. \A x \in Tasks : InvocationIsKnown(x)'
    BY <1>1, <2>3, <2>4 DEF InvocationIsKnown, Active, Terminal, Settled
  <2>6. \A x \in Tasks : SpendsWell(x)
    BY <2>3 DEF SpendsWell, Active
  <2> QED BY <1>1, <2>4, <2>5, <2>6 DEF InvocationsAreKnown
<1> QED BY <1>2, <1>3, <1>4

----------------------------------------------------------------------------
(* What follows.                                                           *)

\* Every step keeps the invariant and wastes no attempt.
LEMMA StepIsKnown ==
  ASSUME IInv, InvocationsAreKnown, [Next]_vars
  PROVE  InvocationsAreKnown' /\ \A x \in Tasks : SpendsWell(x)
<1>1. CASE UNCHANGED vars
  BY <1>1 DEF vars, InvocationsAreKnown, InvocationIsKnown, Active, Terminal, SpendsWell
<1>2. CASE Next
  BY <1>2, PrepareKnown, InferKnown, ConcludeKnown, DisturbKnown, OutsideKnown, ClaimKnown,
     LifespanKnown DEF Next, Lifespan
<1> QED BY <1>1, <1>2

\* At first nothing is open.
LEMMA InitIsKnown ==
  ASSUME Init
  PROVE  InvocationsAreKnown
<1>1. left["crash"] <= Budget["crash"]
  BY BrokerAssumption DEF Init, Bounded
<1>2. ASSUME NEW t \in Tasks PROVE InvocationIsKnown(t)
  BY DEF Init, NoRow, NoJob, InvocationIsKnown, Settled
<1> QED BY <1>1, <1>2 DEF InvocationsAreKnown

\* An open invocation always has a coroutine that will close it, or the mark of the
\* crash that took it.
THEOREM InvocationsStayKnown == Spec => []InvocationsAreKnown
<1>1. IInv /\ InvocationsAreKnown /\ [Next]_vars => InvocationsAreKnown'
  BY StepIsKnown
<1> QED BY <1>1, InitIsKnown, InvariantHolds, PTL DEF Spec

\* While the process is up, a task that nobody works on has no invocation 'started'
\* unless it had ended before a crash: what the recovery takes for a call in flight,
\* and fails for it, was one.
THEOREM InvocationsAreClosed == Spec => []InvocationsClosed
<1>1. InvocationsAreKnown => InvocationsClosed
  BY DEF InvocationsAreKnown, InvocationIsKnown, InvocationsClosed, MayBeOpen, Idle, NoJob
<1> QED BY <1>1, InvocationsStayKnown, PTL

\* Outages and interruptions together never use up more attempts than
\* max_task_attempts, and the task that used the last one has failed.
THEOREM AttemptsStayBounded == Spec => []AttemptsAreBounded
<1>1. Init => AttemptsAreBounded
  BY SizesAssumption DEF Init, NoRow, AttemptsAreBounded
<1>2. ASSUME IInv, InvocationsAreKnown, AttemptsAreBounded, [Next]_vars
      PROVE  AttemptsAreBounded'
  <2>1. ASSUME NEW x \in Tasks
        PROVE  /\ task'[x].attempt <= MaxAttempts
               /\ task'[x].attempt = MaxAttempts => task'[x].status = "failed"
    <3>1. /\ task[x].attempt \in Nat /\ MaxAttempts \in Nat
          /\ task[x].attempt <= MaxAttempts
          /\ task[x].attempt = MaxAttempts => task[x].status = "failed"
      BY <1>2, SizesAssumption DEF IInv, TypeOK, Row, AttemptsAreBounded
    <3>2. SpendsWell(x) /\ KeepsEnd(x)
      BY <1>2, StepIsKnown, StepIsSound
    <3>3. task'[x].attempt \in Nat
      BY <1>2, StepIsSound DEF IInv, TypeOK, Row
    <3> QED BY <3>1, <3>2, <3>3 DEF SpendsWell, KeepsEnd, Active, ActiveStatuses
  <2> QED BY <2>1 DEF AttemptsAreBounded
<1>3. IInv /\ InvocationsAreKnown /\ AttemptsAreBounded /\ [Next]_vars => AttemptsAreBounded'
  BY <1>2
<1> QED BY <1>1, <1>3, InvariantHolds, InvocationsStayKnown, PTL DEF Spec
=============================================================================
