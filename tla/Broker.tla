------------------------------- MODULE Broker -------------------------------
(***************************************************************************)
(* The task engine of the broker: the API threads, the dispatcher loops    *)
(* (app/dispatcher.py), ConsensusCoordinator.process_task                  *)
(* (app/coordinator.py) and the lifespan of the process (app/main.py),     *)
(* all acting on the rows of TaskTable.                                    *)
(*                                                                         *)
(* A coroutine that processes a task is a job.  Each repository call is a  *)
(* transaction, and API handlers run in other threads, so a job's place    *)
(* changes at every repository call: anything may happen between the read  *)
(* of is_cancel_requested and the write that relied on it.                 *)
(***************************************************************************)
EXTENDS TaskTable

CONSTANTS
  MaxParallel,   \* capacity of the embedding and of the cloud lane
  Deployments,   \* where the models of the catalogue run
  Budget         \* how often each unbounded event happens in a behaviour

\* round: rounds after the first, agent.max_iterations or waves of the plan.
\* fault: errors of a provider or of the request.  bug: unexpected exceptions.
\* tick: manual ticks.  any: all of these together.
Bounded == {"round", "fault", "timeout", "bug", "crash", "stop", "reorder", "cancel",
            "tick", "any"}

ASSUME BrokerAssumption ==
  /\ MaxParallel \in Nat \ {0}
  /\ Deployments \subseteq {"local", "remote"}
  /\ Budget \in [Bounded -> Nat]

VARIABLES
  job,     \* job[t]: the coroutine processing t
  phase,   \* of the process: "up", "stopping" or "down"
  left,    \* what remains of Budget
  late     \* history: provider calls started for t after its cancellation

vars == <<task, job, phase, left, late>>

\* Where a job is: the repository call it makes next, or "call" while a
\* provider call is in flight.
Places == {"idle", "deps", "defer", "entry", "begin", "check", "launch", "call",
           "failover", "output", "turn", "finish", "pause", "yield",
           "saveSingle", "saveFinish", "savePause", "saveYield", "error", "settle",
           "finally", "handler", "saveFailed"}
Errors == {"none", "memory", "outage", "budget", "other", "cancelled", "timeout",
           "internal"}
\* `by`: who awaits the coroutine, a dispatcher loop or the request of a tick.
Job == [at : Places, lane : Lanes \cup {"none"}, err : Errors,
        by : {"loop", "tick", "none"}]
NoJob == [at |-> "idle", lane |-> "none", err |-> "none", by |-> "none"]

JobsIn(lane) == {t \in Tasks : job[t].lane = lane}
LoopJobs(lane) == {t \in JobsIn(lane) : job[t].by = "loop"}
Idle(t) == job[t] = NoJob

At(t, place) == job[t].at = place
Goto(t, place) == job' = [job EXCEPT ![t].at = place]
Throw(t, e) == job' = [job EXCEPT ![t] = [@ EXCEPT !.at = "error", !.err = e]]
Return(t) == job' = [job EXCEPT ![t] = NoJob]

Spend(what) ==
  /\ left[what] > 0 /\ left["any"] > 0
  /\ left' = [left EXCEPT ![what] = @ - 1, !["any"] = @ - 1]

Running == phase # "down"
IsLoop(t) == task[t].strategy # "single"

Init ==
  /\ task = [t \in Tasks |-> NoRow]
  /\ job = [t \in Tasks |-> NoJob]
  /\ phase = "up"
  /\ left = Budget
  /\ late = [t \in Tasks |-> 0]

----------------------------------------------------------------------------
(* API threads.                                                            *)

Create(t) ==
  /\ phase = "up"
  /\ \E req \in Requests : CreateTask(t, req)
  /\ UNCHANGED <<job, phase, left, late>>

Cancel(t) ==
  /\ phase = "up" /\ Spend("cancel")
  /\ RequestCancel({t})
  /\ UNCHANGED <<job, phase, late>>

CancelAllPending ==
  /\ phase = "up" /\ Spend("cancel")
  /\ RequestCancel(Pending)
  /\ UNCHANGED <<job, phase, late>>

ToolResults(t) ==
  /\ phase = "up"
  /\ ResumeWithToolResults(t)
  /\ UNCHANGED <<job, phase, left, late>>

Reorder ==
  /\ phase = "up" /\ Spend("reorder")
  /\ \E place \in Numberings(Pending) : ReorderQueue(place)
  /\ UNCHANGED <<job, phase, late>>

----------------------------------------------------------------------------
(* Dispatcher loops.  The inference loop awaits process_task, so it claims *)
(* only when it runs nothing; a lane loop keeps at most MaxParallel jobs.  *)
(* Idle(t): a claim committed while t's last job is in its finally block   *)
(* starts the new job only after that block, which holds the event loop.   *)

StartJob(t, l, who) ==
  job' = [job EXCEPT ![t] = [at |-> "deps", lane |-> l, err |-> "none", by |-> who]]

\* Faulty: the loop does not await the task it claimed.
DispatchInferenceAtOnce(t) ==
  /\ phase = "up" /\ Idle(t)
  /\ ClaimInference(t)
  /\ StartJob(t, "inference", "loop")
  /\ UNCHANGED <<phase, left, late>>

DispatchInference(t) ==
  /\ phase = "up" /\ LoopJobs("inference") = {} /\ Idle(t)
  /\ ClaimInference(t)
  /\ StartJob(t, "inference", "loop")
  /\ UNCHANGED <<phase, left, late>>

DispatchNothing ==
  /\ phase = "up" /\ LoopJobs("inference") = {}
  /\ SweepReservations
  /\ UNCHANGED <<job, phase, left, late>>

\* Faulty: the capacity is left to the query of the claim.
DispatchLaneByRows(t, lane) ==
  /\ phase = "up" /\ Idle(t)
  /\ ClaimInLane(t, lane, MaxParallel)
  /\ StartJob(t, lane, "loop")
  /\ UNCHANGED <<phase, left, late>>

DispatchLane(t, lane) ==
  /\ phase = "up" /\ Cardinality(LoopJobs(lane)) < MaxParallel /\ Idle(t)
  /\ ClaimInLane(t, lane, MaxParallel)
  /\ StartJob(t, lane, "loop")
  /\ UNCHANGED <<phase, left, late>>

\* POST /dispatcher/tick and the ticks of the lanes: the same claims, awaited
\* by the request, whether the loops run or not (processing.auto_dispatch).
ManualTick(t, lane) ==
  /\ phase = "up" /\ Idle(t) /\ Spend("tick")
  /\ IF lane = "inference" THEN ClaimInference(t) ELSE ClaimInLane(t, lane, MaxParallel)
  /\ StartJob(t, lane, "tick")
  /\ UNCHANGED <<phase, late>>

\* process_task raised: both loops mark the task failed, unless it reads as
\* completed or cancelled.
HandlerReads(t) ==
  /\ At(t, "handler")
  /\ IF task[t].status \in {"completed", "cancelled"} THEN Return(t)
                                                      ELSE Goto(t, "saveFailed")
  /\ UNCHANGED <<task, phase, left, late>>

HandlerSavesFailed(t) ==
  /\ At(t, "saveFailed")
  /\ SetStatus(t, "failed")
  /\ Return(t)
  /\ UNCHANGED <<phase, left, late>>

----------------------------------------------------------------------------
(* process_task: dependencies, attachments and the first cancel check.     *)

AwaitDependencies(t) ==
  /\ At(t, "deps")
  /\ \/ /\ Blocking(t) = {} \/ DependencyTimedOut(t)
        /\ IF task[t].deps = {} THEN UNCHANGED task ELSE ClearDependencyWait(t)
        /\ Goto(t, "entry")
     \/ /\ Blocking(t) # {} /\ ~DependencyTimedOut(t)
        /\ Goto(t, "defer")
        /\ UNCHANGED task
  /\ UNCHANGED <<phase, left, late>>

\* This return precedes the try block: its finally does not run.
DeferTask(t) ==
  /\ At(t, "defer")
  /\ DeferForDependencies(t)
  /\ Return(t)
  /\ UNCHANGED <<phase, left, late>>

\* Attachment expansion failed, also before the try block.
AttachmentsFail(t) ==
  /\ At(t, "entry") /\ Spend("fault")
  /\ SetStatus(t, "failed")
  /\ Return(t)
  /\ UNCHANGED <<phase, late>>

EntryCheck(t) ==
  /\ At(t, "entry")
  /\ IF CancelRequested(t)
     THEN SetStatus(t, "cancelled") /\ Goto(t, "finally")
     ELSE UNCHANGED task /\ Goto(t, "begin")
  /\ UNCHANGED <<phase, left, late>>

\* A request the chosen strategy cannot serve (tabular attachment without
\* sandbox, unknown preset).
RejectRequest(t) ==
  /\ At(t, "begin") /\ Spend("fault")
  /\ SetStatus(t, "failed")
  /\ Goto(t, "finally")
  /\ UNCHANGED <<phase, late>>

\* The strategy writes its active status.  Nothing is re-read: a task
\* cancelled since the entry check is active again, its flag still set.
BeginWork(t) ==
  /\ job[t].at \in {"begin", "failover"}
  /\ SetStatus(t, "generating")
  /\ Goto(t, IF IsLoop(t) THEN "check" ELSE "launch")
  /\ UNCHANGED <<phase, left, late>>

----------------------------------------------------------------------------
(* Provider calls.                                                         *)

\* A round of the agent loop or a wave of proposals starts with this check.
RoundCheck(t) ==
  /\ At(t, "check")
  /\ IF CancelRequested(t)
     THEN SetStatus(t, "cancelled") /\ Goto(t, "finally")
     ELSE UNCHANGED task /\ Goto(t, "launch")
  /\ UNCHANGED <<phase, left, late>>

\* remote_only_scope: the cloud lane uses no local model.
StartCall(t) ==
  /\ At(t, "launch")
  /\ \E deployment \in Deployments \ (IF job[t].lane = "cloud" THEN {"local"} ELSE {}) :
       StartInvocation(t, deployment)
  /\ late' = [late EXCEPT ![t] = IF task[t].cancelReq THEN @ + 1 ELSE @]
  /\ Goto(t, "call")
  /\ UNCHANGED <<phase, left>>

\* A single keeps its row open until the answer is saved with it.
CallReturns(t) ==
  /\ At(t, "call")
  /\ IF IsLoop(t) THEN CompleteInvocation(t) /\ Goto(t, "turn")
                  ELSE UNCHANGED task /\ Goto(t, "output")
  /\ UNCHANGED <<phase, left, late>>

\* Faulty: the flag is not read between attempts.
RetriesAnyway(t) == ~IsLoop(t) /\ Goto(t, "launch")

\* A single retries the same model, or begins again with the next candidate;
\* a mixture loses a proposer; everybody else gives up with the error.
Retries(t) == ~IsLoop(t) /\ ~CancelRequested(t) /\ Goto(t, "launch")
FailsOver(t) == ~IsLoop(t) /\ ~CancelRequested(t) /\ Goto(t, "failover")
SkipsProposer(t) == task[t].strategy = "mixture" /\ Goto(t, "check")

CallFails(t) ==
  /\ At(t, "call") /\ Spend("fault")
  /\ FailInvocation(t)
  /\ \/ Retries(t)
     \/ FailsOver(t)
     \/ SkipsProposer(t)
     \/ \E e \in {"memory", "outage", "budget", "other"} : Throw(t, e)
  /\ UNCHANGED <<phase, late>>

\* _run_cancellable_turn polls the flag while the call is in flight.
CallCancelled(t) ==
  /\ At(t, "call") /\ CancelRequested(t)
  /\ FailInvocation(t)
  /\ Throw(t, "cancelled")
  /\ UNCHANGED <<phase, left, late>>

\* Model selection fails before any call.
SelectionFails(t) ==
  /\ At(t, "begin") /\ Spend("fault")
  /\ \E e \in {"memory", "outage", "other"} : Throw(t, e)
  /\ UNCHANGED <<task, phase, late>>

OutputCheck(t) ==
  /\ At(t, "output")
  /\ IF CancelRequested(t)
     THEN /\ Update(t, [Completed(task[t]) EXCEPT !.status = "cancelled", !.pos = NotPlaced])
          /\ Goto(t, "finally")
     ELSE UNCHANGED task /\ Goto(t, "saveSingle")
  /\ UNCHANGED <<phase, left, late>>

\* Faulty: the transaction trusts the check made before it.
SaveSingleBlindly(t) ==
  /\ At(t, "saveSingle")
  /\ CompleteSingle(t)
  /\ Goto(t, "finally")
  /\ UNCHANGED <<phase, left, late>>

\* complete_single_task re-reads the status inside its transaction.
SaveSingle(t) ==
  /\ At(t, "saveSingle")
  /\ IF task[t].status = "cancelled"
     THEN UNCHANGED task /\ Throw(t, "cancelled")
     ELSE CompleteSingle(t) /\ Goto(t, "finally")
  /\ UNCHANGED <<phase, left, late>>

----------------------------------------------------------------------------
(* Rounds of an agent or of a mixture.                                     *)

FinalAnswer(t) ==
  /\ At(t, "turn")
  /\ Goto(t, "finish")
  /\ UNCHANGED <<task, phase, left, late>>

AsksClient(t) ==
  /\ At(t, "turn") /\ task[t].strategy = "agent" /\ Spend("round")
  /\ Goto(t, "pause")
  /\ UNCHANGED <<task, phase, late>>

\* Too few proposers answered.  The flag is not read before this write.
LosesQuorum(t) ==
  /\ At(t, "check") /\ task[t].strategy = "mixture" /\ Spend("fault")
  /\ SetStatus(t, "failed")
  /\ Goto(t, "finally")
  /\ UNCHANGED <<phase, late>>

\* Only explicit strategies yield, and a cancelled task does not.
MustYield(t) == task[t].explicit /\ ~CancelRequested(t) /\ UrgentWaiting(t)

NextRound(t) ==
  /\ At(t, "turn") /\ Spend("round")
  /\ Update(t, [task[t] EXCEPT !.status = "generating"])
  /\ Goto(t, IF ~MustYield(t) THEN "check"
             ELSE IF task[t].strategy = "agent" THEN "yield" ELSE "saveYield")
  /\ UNCHANGED <<phase, late>>

\* The check after the loop, shared by its three ways out.
AfterLoop(t) ==
  /\ job[t].at \in {"finish", "pause", "yield"}
  /\ IF CancelRequested(t)
     THEN SetStatus(t, "cancelled") /\ Goto(t, "finally")
     ELSE /\ UNCHANGED task
          /\ Goto(t, CASE At(t, "finish") -> "saveFinish"
                       [] At(t, "pause") -> "savePause"
                       [] At(t, "yield") -> "saveYield")
  /\ UNCHANGED <<phase, left, late>>

SaveFinish(t) ==
  /\ At(t, "saveFinish")
  /\ SetStatus(t, "completed")
  /\ Goto(t, "finally")
  /\ UNCHANGED <<phase, left, late>>

SavePause(t) ==
  /\ At(t, "savePause")
  /\ PauseForTools(t)
  /\ Goto(t, "finally")
  /\ UNCHANGED <<phase, left, late>>

SaveYield(t) ==
  /\ At(t, "saveYield")
  /\ YieldTurn(t)
  /\ Goto(t, "finally")
  /\ UNCHANGED <<phase, left, late>>

----------------------------------------------------------------------------
(* Errors of process_task.                                                 *)

\* asyncio.wait_for cuts the job at an await; its open row is left open.
Awaiting == {"begin", "launch", "call", "turn", "saveSingle"}
TimesOut(t) ==
  /\ job[t].at \in Awaiting /\ Spend("timeout")
  /\ Throw(t, "timeout")
  /\ UNCHANGED <<task, phase, late>>

ErrorCheck(t) ==
  /\ At(t, "error")
  /\ IF CancelRequested(t)
     THEN SetStatus(t, "cancelled") /\ Goto(t, "finally")
     ELSE UNCHANGED task /\ Goto(t, "settle")
  /\ UNCHANGED <<phase, left, late>>

\* _demote_from_cloud_lane comes first and takes whatever a local model may fix.
Demotes(t) == job[t].lane = "cloud" /\ job[t].err \notin {"timeout", "cancelled", "budget"}

SettleError(t) ==
  /\ At(t, "settle")
  /\ \/ Demotes(t) /\ DemoteToInference(t)
     \/ ~Demotes(t) /\ job[t].err = "memory" /\ DeferForMemory(t)
     \/ ~Demotes(t) /\ job[t].err = "outage" /\ ScheduleOutageRetry(t)
     \/ /\ ~Demotes(t)
        /\ job[t].err = "outage" => ~MayRetryOutage(t)
        /\ job[t].err # "memory"
        /\ SetStatus(t, "failed")
  /\ Goto(t, "finally")
  /\ UNCHANGED <<phase, left, late>>

\* An exception nobody expects (a database error, a bug of a strategy).
InternalError(t) ==
  /\ job[t].at \in Awaiting \cup {"check", "output", "error", "settle"}
  /\ Spend("bug")
  /\ job' = [job EXCEPT ![t] = [@ EXCEPT !.at = "finally", !.err = "internal"]]
  /\ UNCHANGED <<task, phase, late>>

\* Faulty: the loop swallows the exception and writes nothing.
FinallySwallows(t) ==
  /\ At(t, "finally")
  /\ LET row == Abandoned(task[t])
     IN  Update(t, IF row.status \in TerminalStatuses THEN Rested(row) ELSE row)
  /\ Return(t)
  /\ UNCHANGED <<phase, left, late>>

\* The finally block of process_task.  A job that ended by an unexpected
\* exception goes on to the handler of its loop; a tick has none.
Finally(t) ==
  /\ At(t, "finally")
  /\ LET row == Abandoned(task[t])
     IN  Update(t, IF row.status \in TerminalStatuses THEN Rested(row) ELSE row)
  /\ IF job[t].err = "internal" /\ job[t].by = "loop" THEN Goto(t, "handler") ELSE Return(t)
  /\ UNCHANGED <<phase, left, late>>

----------------------------------------------------------------------------
(* Lifespan of the process.                                                *)

\* The server lets its requests end before it stops the loops.
Stop ==
  /\ phase = "up" /\ Spend("stop")
  /\ \A t \in Tasks : job[t].by # "tick"
  /\ phase' = "stopping"
  /\ UNCHANGED <<task, job, late>>

\* A lane loop cancels its jobs: CancelledError is no Exception, no handler
\* writes the row and only the finally block runs, if the job had reached the
\* try block.  The inference loop waits for its job instead.
LaneJobCancelled(t) ==
  /\ phase = "stopping" /\ job[t].lane \in {"embedding", "cloud"}
  /\ job[t].at \in Awaiting \cup {"deps", "entry"}
  /\ IF job[t].at \in Awaiting THEN Goto(t, "finally") ELSE Return(t)
  /\ UNCHANGED <<task, phase, left, late>>

Stopped ==
  /\ phase = "stopping" /\ \A t \in Tasks : Idle(t)
  /\ phase' = "down"
  /\ UNCHANGED <<task, job, left, late>>

Crash ==
  /\ Running /\ Spend("crash")
  /\ phase' = "down"
  /\ job' = [t \in Tasks |-> NoJob]
  /\ UNCHANGED <<task, late>>

\* init_schema and recover_interrupted_tasks, before any loop starts.  The
\* query of the recovery states no order.
Start ==
  /\ phase = "down"
  /\ \E place \in Numberings(Requeueable) : RecoverInterrupted(place)
  /\ phase' = "up"
  /\ UNCHANGED <<job, left, late>>

Tick ==
  /\ TimePasses
  /\ UNCHANGED <<job, phase, left, late>>

----------------------------------------------------------------------------

Client(t) == Create(t) \/ Cancel(t) \/ ToolResults(t)

Dispatch(t) ==
  \/ DispatchInference(t) \/ DispatchLane(t, "embedding") \/ DispatchLane(t, "cloud")
  \/ \E lane \in Lanes : ManualTick(t, lane)

Prepare(t) ==
  \/ AwaitDependencies(t) \/ DeferTask(t) \/ AttachmentsFail(t)
  \/ EntryCheck(t) \/ RejectRequest(t) \/ SelectionFails(t) \/ BeginWork(t)

Infer(t) ==
  \/ RoundCheck(t) \/ StartCall(t)
  \/ CallReturns(t) \/ CallFails(t) \/ CallCancelled(t)
  \/ FinalAnswer(t) \/ AsksClient(t) \/ NextRound(t) \/ LosesQuorum(t)

Conclude(t) ==
  \/ OutputCheck(t) \/ SaveSingle(t)
  \/ AfterLoop(t) \/ SaveFinish(t) \/ SavePause(t) \/ SaveYield(t)
  \/ ErrorCheck(t) \/ SettleError(t) \/ Finally(t)
  \/ HandlerReads(t) \/ HandlerSavesFailed(t)

Disturb(t) == TimesOut(t) \/ InternalError(t) \/ LaneJobCancelled(t)

Lifespan == Stop \/ Stopped \/ Crash \/ Start \/ Tick

Next ==
  \/ \E t \in Tasks : Client(t) \/ Dispatch(t) \/ Prepare(t) \/ Infer(t)
                        \/ Conclude(t) \/ Disturb(t)
  \/ CancelAllPending \/ Reorder \/ DispatchNothing
  \/ Lifespan

Spec == Init /\ [][Next]_vars
=============================================================================
