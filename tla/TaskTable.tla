----------------------------- MODULE TaskTable -----------------------------
(***************************************************************************)
(* The `tasks` table of the broker (app/repository.py) together with the   *)
(* part of `model_invocations` that decides what may be retried.           *)
(*                                                                         *)
(* Every operator of this module is ONE database transaction: it relates   *)
(* task to task' (or reads task) and says nothing about who calls it.  The *)
(* dispatchers and the coordinator that call them are in module Broker.    *)
(*                                                                         *)
(* Tasks are numbered in order of arrival, so the number is both the id    *)
(* and created_at, the last tie-break of every ORDER BY.  Clocks are       *)
(* countdowns that Tick lowers: not_before is `wait` (0 = NULL or elapsed),*)
(* memory_reserved_until is `reserve`, dependency_wait_json.waiting_since  *)
(* is `since`, counted upwards.                                            *)
(***************************************************************************)
EXTENDS Integers, FiniteSets, FiniteSetsExt

CONSTANTS
  NumTasks,           \* tasks that ever arrive
  Requests,           \* the requests a client may send
  QueueMax,           \* processing.queue_max_size
  MaxAttempts,        \* processing.max_task_attempts
  ReserveAfter,       \* resources.memory_reserve_after
  ReserveWindow,      \* resources.memory_reserve_window_seconds, in ticks
  MemoryWait,         \* resources.memory_wait_seconds, in ticks
  OutageWait,         \* processing.outage_retry_seconds, in ticks
  DependencyWait,     \* processing.dependency_wait_seconds, in ticks
  DependencyTimeout   \* execution.timeout_seconds, in ticks

Tasks == 1..NumTasks

\* app.schemas.TaskKind without the ingestion lane, which has its own loop.
Lanes == {"inference", "embedding", "cloud"}
Strategies == {"single", "agent", "mixture"}

\* What the broker keeps of a request.  `explicit`: the client named the
\* strategy itself instead of asking for `auto`.  `deps`: the tasks that
\* depends_on and depends_on_group resolve to; a group may have members that
\* have not arrived yet.
Request == [kind : Lanes, strategy : Strategies, explicit : BOOLEAN,
            prio : Nat, deps : SUBSET Tasks]

ASSUME SizesAssumption ==
  /\ NumTasks \in Nat \ {0}
  /\ Requests \subseteq Request
  /\ QueueMax \in Nat \ {0} /\ MaxAttempts \in Nat \ {0}
  /\ ReserveAfter \in Nat \ {0}

ASSUME TimesAssumption ==
  /\ ReserveWindow \in Nat \ {0} /\ MemoryWait \in Nat \ {0}
  /\ OutageWait \in Nat \ {0} /\ DependencyWait \in Nat \ {0}
  /\ DependencyTimeout \in Nat \ {0}

VARIABLE task

----------------------------------------------------------------------------
(* Statuses.  `routing` and `generating` stand for all the active ones:    *)
(* every query and every guard treats the eleven alike.                    *)

ActiveStatuses == {"routing", "generating"}
PendingStatuses == {"queued", "waiting_for_memory", "waiting_for_dependencies"}
TerminalStatuses == {"completed", "failed", "cancelled"}
Statuses == ActiveStatuses \cup PendingStatuses \cup TerminalStatuses
              \cup {"absent", "waiting_for_tools"}

NotPlaced == 0        \* queue_position IS NULL: NULL sorts before any number
NoTimer == -1         \* a NULL timestamp

\* `open`: deployment of the model_invocations row in 'started', if any.
\* `billed`: a remote row is 'completed'.  `unsure`: a remote row is 'ambiguous'.
Row == [status : Statuses, kind : Lanes, strategy : Strategies,
        explicit : BOOLEAN, prio : Nat, deps : SUBSET Tasks,
        pos : Nat, wait : Nat, deferrals : Nat, reserve : Nat \cup {NoTimer},
        since : Nat \cup {NoTimer}, attempt : Nat, cancelReq : BOOLEAN,
        open : {"none", "local", "remote"}, billed : BOOLEAN, unsure : BOOLEAN]

NoRow == [status |-> "absent", kind |-> "inference", strategy |-> "single",
          explicit |-> TRUE, prio |-> 0, deps |-> {},
          pos |-> NotPlaced, wait |-> 0, deferrals |-> 0, reserve |-> NoTimer,
          since |-> NoTimer, attempt |-> 0, cancelReq |-> FALSE,
          open |-> "none", billed |-> FALSE, unsure |-> FALSE]

Known == {t \in Tasks : task[t].status # "absent"}
Pending == {t \in Tasks : task[t].status \in PendingStatuses}
ActiveIn(lane) ==
  {t \in Tasks : task[t].kind = lane /\ task[t].status \in ActiveStatuses}

\* Faulty: the flag is not read, only the status that a coroutine overwrites.
ReadsCancelled(t) == task[t].status = "cancelled"

\* TaskRepository.is_cancel_requested
CancelRequested(t) == task[t].cancelReq \/ task[t].status = "cancelled"

\* UPDATE tasks SET ... WHERE id = t
Update(t, row) == task' = [task EXCEPT ![t] = row]

\* TaskRepository.update_task(..., clear_queue_position=True).  Its WHERE names
\* the id and nothing else: whatever the row said before is overwritten.
SetStatus(t, s) == Update(t, [task[t] EXCEPT !.status = s, !.pos = NotPlaced])

----------------------------------------------------------------------------
(* Places in the queue: _make_room_in_queue.                               *)

\* Faulty: only the arrival counts.
MustFollowByArrival(t, lane, prio) ==
  {x \in Pending \ {t} : task[x].kind = lane /\ task[x].pos # NotPlaced /\ x > t}

\* Placed pending rows of the lane that must go after (prio, arrival) of t.
MustFollow(t, lane, prio) ==
  {x \in Pending \ {t} :
     /\ task[x].kind = lane /\ task[x].pos # NotPlaced
     /\ \/ task[x].prio > prio
        \/ task[x].prio = prio /\ x > t}

\* Faulty: every row enters at the end.
TailPosition(t, lane, prio) == 1 + Max({0} \cup {task[x].pos : x \in Tasks})

EntryPosition(t, lane, prio) ==
  LET later == MustFollow(t, lane, prio)
  IN  IF later = {} THEN 1 + Max({0} \cup {task[x].pos : x \in Tasks})
                    ELSE Min({task[x].pos : x \in later})

\* Faulty: nothing is moved back.
EnqueueInPlace(t, lane, row) ==
  Update(t, [row EXCEPT !.pos = EntryPosition(t, lane, row.prio)])

\* Writes `row` for t at its entry position and moves everything placed there
\* or later, of any lane, one place back.
Enqueue(t, lane, row) ==
  LET p == EntryPosition(t, lane, row.prio)
  IN  task' = [x \in Tasks |->
                 IF x = t THEN [row EXCEPT !.pos = p]
                 ELSE IF task[x].pos >= p THEN [task[x] EXCEPT !.pos = @ + 1]
                 ELSE task[x]]

----------------------------------------------------------------------------
(* What clients and operators ask for.                                     *)

\* create_task: only rows in 'queued' count against the queue's limit.
CreateTask(t, req) ==
  /\ t \notin Known /\ \A x \in 1..(t - 1) : x \in Known
  /\ t \notin req.deps
  /\ Cardinality({x \in Tasks : task[x].status = "queued"}) < QueueMax
  /\ Enqueue(t, req.kind,
             [NoRow EXCEPT !.status = "queued", !.kind = req.kind,
                           !.strategy = req.strategy, !.explicit = req.explicit,
                           !.prio = req.prio, !.deps = req.deps])

\* Faulty: the UPDATE does not exclude what has ended.
CancelWhatever(asked) ==
  task' = [t \in Tasks |->
             IF t \in asked \cap Known
             THEN [task[t] EXCEPT !.status = "cancelled", !.cancelReq = TRUE]
             ELSE task[t]]

\* request_cancel and request_cancel_many: one guarded UPDATE per task, all of
\* them in one transaction.
RequestCancel(asked) ==
  LET hit == {t \in asked \cap Known : task[t].status \notin TerminalStatuses}
  IN  /\ hit # {}
      /\ task' = [t \in Tasks |->
                    IF t \in hit
                    THEN [task[t] EXCEPT !.status = "cancelled",
                                         !.cancelReq = TRUE, !.pos = NotPlaced]
                    ELSE task[t]]

\* The ways of numbering the members of S from 1.
Numberings(S) ==
  {f \in [S -> 1..Cardinality(S)] : \A x, y \in S : f[x] = f[y] => x = y}

\* reorder_queue: the ids given must be exactly the pending ones.
ReorderQueue(place) ==
  task' = [t \in Tasks |-> IF t \in Pending THEN [task[t] EXCEPT !.pos = place[t]]
                                            ELSE task[t]]

\* Faulty: the status is not compared.
ResumeWhatever(t) ==
  /\ task[t].status # "absent"
  /\ Enqueue(t, "inference", [task[t] EXCEPT !.status = "queued"])

\* resume_with_tool_results.  It makes room with the default kind, whatever the
\* lane of the row is.
ResumeWithToolResults(t) ==
  /\ task[t].status = "waiting_for_tools"
  /\ Enqueue(t, "inference", [task[t] EXCEPT !.status = "queued"])

----------------------------------------------------------------------------
(* Claims.                                                                 *)

Claimable(lane) ==
  {t \in Tasks : task[t].kind = lane /\ task[t].status \in PendingStatuses}
Ready(lane) == {t \in Claimable(lane) : task[t].wait = 0}

\* ORDER BY queue_position ASC, priority ASC, created_at ASC
Before(x, y) ==
  \/ task[x].pos < task[y].pos
  \/ /\ task[x].pos = task[y].pos
     /\ \/ task[x].prio < task[y].prio
        \/ task[x].prio = task[y].prio /\ x < y
IsFirst(t, S) == t \in S /\ \A y \in S \ {t} : Before(t, y)

\* Claimable rows whose memory reservation is in force.
Reserved == {t \in Claimable("inference") : task[t].reserve > 0}

\* With a reservation in force only its holder runs once it is ready, and
\* until then only what is strictly more urgent than the holder.
MayRun(t) ==
  \/ Reserved = {}
  \/ \E r \in Reserved :
       /\ IsFirst(r, Reserved)
       /\ IF task[r].wait = 0 THEN t = r ELSE task[t].prio < task[r].prio

\* claim_next_queued_task_id returns t.
NextInference(t) ==
  /\ ActiveIn("inference") = {}
  /\ IsFirst(t, {x \in Ready("inference") : MayRun(x)})

\* claim_next_lane_task returns t.
NextInLane(t, lane, width) ==
  /\ Cardinality(ActiveIn(lane)) < width
  /\ IsFirst(t, Ready(lane))

\* A reservation that ran out is dropped, with its count, before choosing.
Swept(row) ==
  IF row.reserve = 0 THEN [row EXCEPT !.reserve = NoTimer, !.deferrals = 0] ELSE row
Claimed(row) ==
  [row EXCEPT !.status = "routing", !.pos = NotPlaced, !.wait = 0]

ClaimInference(t) ==
  /\ NextInference(t)
  /\ task' = [x \in Tasks |-> IF x = t THEN Claimed(Swept(task[x])) ELSE Swept(task[x])]

\* The same call when no row may run: the sweep is committed all the same.
SweepReservations ==
  /\ ActiveIn("inference") = {}
  /\ \A t \in Tasks : ~NextInference(t)
  /\ \E t \in Tasks : task[t].reserve = 0
  /\ task' = [x \in Tasks |-> Swept(task[x])]

ClaimInLane(t, lane, width) ==
  /\ NextInLane(t, lane, width)
  /\ Update(t, Claimed(task[t]))

----------------------------------------------------------------------------
(* Dependencies.                                                           *)

\* pending_dependencies: an id the table does not know never blocks.
Blocking(t) == {d \in task[t].deps : task[d].status \notin TerminalStatuses \cup {"absent"}}

DependencyTimedOut(t) == task[t].since # NoTimer /\ task[t].since >= DependencyTimeout

ClearDependencyWait(t) == Update(t, [task[t] EXCEPT !.wait = 0, !.since = NoTimer])

\* Faulty: every wait counts from its own start.
DeferAfresh(t) ==
  Update(t, [task[t] EXCEPT !.status = "waiting_for_dependencies",
                            !.wait = DependencyWait, !.since = 0])

\* defer_task_for_dependencies: waiting_since is kept from the first wait.
DeferForDependencies(t) ==
  Update(t, [task[t] EXCEPT !.status = "waiting_for_dependencies",
                            !.wait = DependencyWait,
                            !.since = IF @ = NoTimer THEN 0 ELSE @])

----------------------------------------------------------------------------
(* Ways back to the queue for a task that could not be served.             *)

\* defer_task_for_memory: the reservation opens once, on crossing the
\* threshold; one that ran out and was not swept yet is not renewed.
DeferForMemory(t) ==
  LET n == task[t].deferrals + 1
  IN  Update(t, [task[t] EXCEPT
        !.status = "waiting_for_memory", !.wait = MemoryWait, !.deferrals = n,
        !.reserve = IF n >= ReserveAfter /\ @ = NoTimer THEN ReserveWindow ELSE @])

\* schedule_outage_retry: not past the attempts, not after a paid call.
MayRetryOutage(t) == task[t].attempt + 1 < MaxAttempts /\ ~task[t].billed
ScheduleOutageRetry(t) ==
  /\ MayRetryOutage(t)
  /\ Update(t, [task[t] EXCEPT !.status = "queued", !.attempt = @ + 1,
                               !.wait = OutageWait * (task[t].attempt + 1)])

\* demote_to_inference_lane: the only thing checked is the kind of the row.
DemoteToInference(t) ==
  /\ task[t].kind = "cloud"
  /\ Enqueue(t, "inference",
             [task[t] EXCEPT !.kind = "inference", !.status = "queued", !.wait = 0])

\* _yield_turn
YieldTurn(t) == Enqueue(t, "inference", [task[t] EXCEPT !.status = "queued"])

\* pause_for_client_tools
PauseForTools(t) == SetStatus(t, "waiting_for_tools")

\* urgent_task_waiting: queued, ready and strictly more urgent than t.
UrgentWaiting(t) ==
  \E x \in Ready("inference") \ {t} :
     task[x].status = "queued" /\ task[x].prio < task[t].prio

----------------------------------------------------------------------------
(* Rows of model_invocations.                                              *)

StartInvocation(t, deployment) == Update(t, [task[t] EXCEPT !.open = deployment])

Completed(row) == [row EXCEPT !.open = "none", !.billed = @ \/ row.open = "remote"]
CompleteInvocation(t) == Update(t, Completed(task[t]))
FailInvocation(t) == Update(t, [task[t] EXCEPT !.open = "none"])

\* Faulty: the row keeps its open invocation.
KeptOpen(row) == [row EXCEPT !.unsure = @ \/ row.open = "remote"]

\* abandon_open_invocations: what is still open becomes 'ambiguous'.
Abandoned(row) == [row EXCEPT !.open = "none", !.unsure = @ \/ row.open = "remote"]
\* clear_memory_wait
Rested(row) == [row EXCEPT !.wait = 0, !.deferrals = 0, !.reserve = NoTimer]

\* complete_single_task, when the row is not cancelled: answer and invocation
\* are closed together.
CompleteSingle(t) ==
  Update(t, [Completed(task[t]) EXCEPT !.status = "completed", !.pos = NotPlaced])

----------------------------------------------------------------------------
(* recover_interrupted_tasks: one transaction over the rows left active.   *)

\* Faulty: the recovery of a broker with a single lane.
InterruptedInference == ActiveIn("inference")

Interrupted == {t \in Tasks : task[t].status \in ActiveStatuses}
\* Faulty: one attempt too many.
OutOfAttemptsLater(t) == task[t].attempt >= MaxAttempts

OutOfAttempts(t) == task[t].attempt + 1 >= MaxAttempts
Requeueable == {t \in Interrupted : task[t].open # "remote" /\ ~OutOfAttempts(t)}

Recovered(t, place) ==
  LET row == Abandoned(task[t])
  IN  IF task[t].open = "remote"
      THEN [row EXCEPT !.status = "failed", !.pos = NotPlaced]
      ELSE IF OutOfAttempts(t)
      THEN [row EXCEPT !.status = "failed", !.pos = NotPlaced, !.attempt = @ + 1]
      ELSE [row EXCEPT !.status = "queued", !.attempt = @ + 1,
                       !.pos = IF @ = NotPlaced THEN place[t] ELSE @]

RecoverInterrupted(place) ==
  task' = [t \in Tasks |-> IF t \in Interrupted THEN Recovered(t, place) ELSE task[t]]

----------------------------------------------------------------------------
(* The clock.                                                              *)

\* Faulty: a countdown that does not stop.
LaterAlways(timer) == timer - 1

Later(timer) == IF timer > 0 THEN timer - 1 ELSE timer
Aged(row) ==
  [row EXCEPT !.wait = Later(@), !.reserve = Later(@),
              !.since = IF @ = NoTimer \/ @ >= DependencyTimeout THEN @ ELSE @ + 1]
TimePasses == task' = [t \in Tasks |-> Aged(task[t])]
=============================================================================
