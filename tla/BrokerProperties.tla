-------------------------- MODULE BrokerProperties --------------------------
(***************************************************************************)
(* What the task engine of module Broker promises.  The fair specification *)
(* is at the end, next to the liveness properties that need it.            *)
(***************************************************************************)
EXTENDS Broker

Active(t) == task[t].status \in ActiveStatuses
Terminal(t) == task[t].status \in TerminalStatuses

\* No recovery so far, and no manual reorder either: the two things that place
\* rows by other rules than priority and arrival.
NeverRestarted == left["crash"] = Budget["crash"] /\ left["stop"] = Budget["stop"]
Undisturbed == NeverRestarted /\ left["reorder"] = Budget["reorder"]

\* The variables hold values of their types.
TypeOK ==
  /\ task \in [Tasks -> Row]
  /\ job \in [Tasks -> Job]
  /\ phase \in {"up", "stopping", "down"}
  /\ left \in [Bounded -> Nat]
  /\ late \in [Tasks -> Nat]

----------------------------------------------------------------------------
(* Lanes.                                                                  *)

\* Whoever works in a lane: its coroutines and its rows in an active status.
Working(lane) == JobsIn(lane) \cup ActiveIn(lane)

\* PRODUCT.md: one active workflow of inference, an invariant.  It does not
\* hold: a manual tick asks the rows alone, and a cancelled row does not count
\* although the loop is still busy with it.
SingleWorkflow == \A s, t \in Working("inference") : s = t

NoManualTick == left["tick"] = Budget["tick"]

\* claim_next_queued_task_id: at most one inference workflow.  A cancelled row
\* is not active while its coroutine goes on, and a row can become active
\* again, so neither the rows nor the coroutines alone say enough.
OneInferenceWorkflow == NoManualTick => SingleWorkflow

\* lane_dispatcher_loop: a lane never exceeds its capacity, although the query
\* of the claim no longer counts the tasks cancelled in mid-flight.
LaneCapacity ==
  NoManualTick => \A lane \in {"embedding", "cloud"} : Cardinality(Working(lane)) <= MaxParallel

\* While the process serves, an active row is somebody's work, in the lane of
\* the row.  An active row without coroutine would hold its lane until the
\* next start: the claims count it.
ActiveRowsAreHeld ==
  NoManualTick /\ phase = "up" =>
    \A t \in Tasks : Active(t) => job[t].lane = task[t].kind

----------------------------------------------------------------------------
(* Ends.                                                                   *)

\* A completed or failed task is never touched again by a late coroutine, a
\* cancellation, a reorder or a recovery.
FinishedIsFinal ==
  [][\A t \in Tasks : task[t].status \in {"completed", "failed"}
                        => task'[t].status = task[t].status]_vars

\* A cancelled row changes status only while its own coroutine still runs:
\* no dispatcher, client or recovery starts cancelled work.
CancelledStaysDown ==
  [][\A t \in Tasks : task[t].status = "cancelled" /\ Idle(t)
                        => task'[t].status = "cancelled"]_vars

\* A single whose cancellation was accepted never ends as completed: the flag
\* is read after the call and the status inside the last transaction, and it
\* takes both.
SingleCancelWins ==
  \A t \in Tasks : task[t].strategy = "single" /\ task[t].cancelReq
                     => task[t].status # "completed"

\* After its cancellation a task starts at most one provider call, the one
\* that had passed its last check, over retries, failovers, rounds, demotions
\* and restarts.  (A wave of a mixture starts several at once.)
AtMostOneLateCall ==
  \A t \in Tasks : task[t].strategy # "mixture" => late[t] <= 1

\* The attempts spent by outages and by interruptions add up to the limit of
\* one counter, and reaching it is the end of the task.
AttemptsAreBounded ==
  \A t \in Tasks : task[t].attempt <= MaxAttempts
                     /\ (task[t].attempt = MaxAttempts => task[t].status = "failed")

\* When nobody works on a task none of its invocations is 'started', so the
\* recovery sees as in flight only what really was.  The exception is a task
\* that had ended (cancelled in mid-call, timed out) when the process died
\* before its finally block: the recovery looks at active rows only.
InvocationsClosed ==
  \A t \in Tasks : phase = "up" /\ Idle(t) /\ task[t].open # "none"
                     => Terminal(t) /\ left["crash"] < Budget["crash"]

----------------------------------------------------------------------------
(* Order.                                                                  *)

\* Only what waits for its turn has a place, and no two share one (until a
\* recovery numbers what it returns from 1 again).
PlacesAreDistinct ==
  /\ \A t \in Tasks : task[t].pos # NotPlaced => task[t].status \in PendingStatuses
  /\ NeverRestarted =>
       \A s, t \in Tasks : task[s].pos = task[t].pos /\ s # t => task[s].pos = NotPlaced

\* The places of a lane follow priority and then arrival, through arrivals,
\* yields, resumptions and demotions, as long as loops run in the inference lane:
\* resume_with_tool_results makes room there whatever the lane of the task.
PlacedInOrder ==
  Undisturbed =>
    \A s, t \in Pending :
      /\ task[s].kind = task[t].kind
      /\ task[s].pos # NotPlaced /\ task[t].pos # NotPlaced
      /\ task[s].prio < task[t].prio \/ (task[s].prio = task[t].prio /\ s < t)
      => task[s].pos < task[t].pos

\* t is the task a claim of the inference lane takes in this step.
Takes(t) ==
  task[t].kind = "inference" /\ task[t].status \in PendingStatuses
    /\ task'[t].status = "routing"

\* A task claimed at its place passes nobody ready and more urgent.
PlacedClaimsFollowPriority ==
  [][\A t \in Tasks : Undisturbed /\ Takes(t) /\ task[t].pos # NotPlaced /\ Reserved = {}
       => \A x \in Ready("inference") : task[x].prio >= task[t].prio]_vars

----------------------------------------------------------------------------
(* What the documentation says and the code does not do.                   *)

\* Client_API.md on `priority`: the lower number runs first.  A deferred task
\* has lost its place, and NULL sorts before every place: once ready it passes
\* the more urgent tasks that wait at theirs.
ClaimsFollowPriority ==
  [][\A t \in Tasks : Undisturbed /\ Takes(t) /\ Reserved = {}
       => \A x \in Ready("inference") : task[x].prio >= task[t].prio]_vars

\* recover_interrupted_tasks: a task interrupted with a remote call in flight
\* is not retried.  A lane stopped in order closes that row as 'ambiguous' in
\* the finally block, before the recovery can see it in 'started'.
RemoteInFlightNotRetried ==
  [][phase = "down" /\ phase' = "up" =>
       \A t \in Tasks : Active(t) /\ (task[t].open = "remote" \/ task[t].unsure)
                          => task'[t].status # "queued"]_vars

\* demote_to_inference_lane: it returns False for a task cancelled in between.
\* Only the kind of the row is compared, and a cancellation does not change it.
DemotionSparesCancelled ==
  [][\A t \in Tasks : task[t].kind = "cloud" /\ task'[t].kind = "inference"
       => task[t].status \notin {"absent", "cancelled"}]_vars

----------------------------------------------------------------------------
(* Progress.                                                               *)

\* The steps a coroutine takes by itself.  A provider call ends: it answers,
\* it fails, or wait_for cuts it.
Works(t) == Prepare(t) \/ Infer(t) \/ Conclude(t) \/ LaneJobCancelled(t)

\* The loops poll at an interval, the clock runs, and somebody starts the
\* process again after it stopped.  Clients owe nothing: no arrival, tool
\* result, cancellation or reorder is fair, and neither is any failure.
Fairness ==
  /\ \A t \in Tasks : WF_vars(Works(t))
  /\ WF_vars(\E t \in Tasks : DispatchInference(t))
  /\ \A lane \in {"embedding", "cloud"} : WF_vars(\E t \in Tasks : DispatchLane(t, lane))
  /\ WF_vars(DispatchNothing)
  /\ WF_vars(Tick) /\ WF_vars(Stopped) /\ WF_vars(Start)

FairSpec == Spec /\ Fairness

\* Every task that was accepted ends or waits for its client, whatever memory,
\* outages, dependencies, yields and restarts put in its way.
NoTaskStranded ==
  \A t \in Tasks : task[t].status # "absent"
                     ~> (Terminal(t) \/ task[t].status = "waiting_for_tools")

\* A wait for dependencies has an end even when the dependencies never do,
\* as in a group whose members wait for each other: waiting_since survives
\* every deferral until the task passes.
DependencyWaitEnds ==
  \A t \in Tasks : task[t].since # NoTimer ~> (task[t].since = NoTimer \/ Terminal(t))

\* A cancellation that was accepted is not forgotten, although coroutines write
\* over the row: a single rests in cancelled or failed.  An agent or a mixture
\* may have finished, or asked its client, in the same instant.
CancelIsHonoured ==
  \A t \in Tasks :
    task[t].cancelReq
      ~> [](\/ task[t].status \in {"cancelled", "failed"}
            \/ IsLoop(t) /\ task[t].status \in {"completed", "waiting_for_tools"})
=============================================================================
