-------------------------- MODULE BrokerInvariant --------------------------
(***************************************************************************)
(* The inductive invariant behind the theorems of BrokerProofs.  None of   *)
(* the safety properties of BrokerProperties is inductive by itself: they  *)
(* speak of rows, and what a row may become depends on where its coroutine *)
(* is.  Each part relates one row to its job.                              *)
(***************************************************************************)
EXTENDS BrokerProperties

\* From here on a coroutine does not write as the owner of the row.
Settled == {"idle", "finally", "handler", "saveFailed"}
LoopPlaces == {"check", "turn", "finish", "pause", "yield", "saveFinish", "savePause",
               "saveYield"}

\* A job belongs to a lane and to a row; no job is no job.
JobIsWhole(t) ==
  /\ job[t].at = "idle" => job[t] = NoJob
  /\ job[t].at # "idle" => /\ job[t].lane \in Lanes /\ job[t].by \in {"loop", "tick"}
                           /\ task[t].status # "absent"
  /\ NoManualTick => job[t].by # "tick"
  /\ phase = "down" => job[t].at = "idle"

\* While it owns the row the coroutine runs in the lane of the row.
RunsInItsLane(t) == job[t].at \notin Settled => job[t].lane = task[t].kind

\* An active row has its coroutine, until the finally block at least.
IsHeld(t) ==
  phase = "up" =>
    /\ job[t].at = "finally" /\ job[t].err # "internal" => ~Active(t)
    /\ NoManualTick /\ Active(t) => job[t].lane = task[t].kind

\* A finished row has no coroutine left that would write it, but for the
\* handler that may fail it twice.
FinishedRests(t) ==
  task[t].status \in {"completed", "failed"} =>
    job[t].at \in Settled /\ (job[t].at = "saveFailed" => task[t].status = "failed")

\* Only loops pass where only loops go, and a single that is about to be saved
\* shows its cancellation in the status.
SavesItsOwn(t) ==
  /\ job[t].at \in LoopPlaces => IsLoop(t)
  /\ job[t].at = "saveSingle" /\ task[t].cancelReq => task[t].status = "cancelled"
  /\ task[t].strategy = "single" /\ task[t].cancelReq => task[t].status # "completed"

\* Whoever made a late call has its flag set and has no call to make.
LateOnce(t) ==
  /\ task[t].status = "absent" => ~task[t].cancelReq
  /\ late[t] > 0 => task[t].cancelReq
  /\ task[t].strategy # "mixture" =>
       /\ late[t] <= 1
       /\ late[t] > 0 => job[t].at \notin {"begin", "failover", "launch"}

Sound(t) ==
  JobIsWhole(t) /\ RunsInItsLane(t) /\ IsHeld(t) /\ FinishedRests(t)
    /\ SavesItsOwn(t) /\ LateOnce(t)

IInv ==
  /\ TypeOK
  /\ left["tick"] <= Budget["tick"]
  /\ \A t \in Tasks : Sound(t)

----------------------------------------------------------------------------
(* What lets the recovery trust the rows of model_invocations.             *)

\* From the start of a call to the block that closes it.  After an error the
\* row is still open only if the call was cut short, or its answer not saved.
MayBeOpen(place, e) ==
  \/ place \in {"call", "output", "saveSingle", "finally"}
  \/ place \in {"error", "settle"} /\ e \in {"timeout", "cancelled"}

\* While it owns its row the coroutine keeps it active, or it was cancelled;
\* and an open invocation has a coroutine that will close it, or a crash took it.
InvocationIsKnown(t) ==
  /\ job[t].at \notin Settled => Active(t) \/ task[t].status = "cancelled"
  /\ task[t].open # "none" =>
       /\ Active(t) \/ Terminal(t)
       /\ \/ MayBeOpen(job[t].at, job[t].err)
          \/ /\ job[t].at = "idle" /\ left["crash"] < Budget["crash"]
             /\ phase # "down" => Terminal(t)

InvocationsAreKnown ==
  left["crash"] <= Budget["crash"] /\ \A t \in Tasks : InvocationIsKnown(t)
=============================================================================
