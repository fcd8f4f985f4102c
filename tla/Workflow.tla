----------------------------- MODULE Workflow -----------------------------
(* What the strategies of the coordinator share: the row of one task, the  *)
(* coroutine that runs it, its money, and the ways a run is interrupted    *)
(* and taken up again.  MapReduce, AgentTurns and ConsensusRun add their   *)
(* steps; the lanes and the queue around a run are the subject of Broker.  *)
EXTENDS Naturals, Sequences, FiniteSets

CONSTANTS None,           \* nothing: no limit, no frozen state, no result
          Requests,       \* what the client may have asked for
          Histories,      \* evidence the router may find when it is asked
          Costs,          \* what one call may cost
          MaxDocs,        \* how often the attached documents may be converted anew
          Interruptions   \* deaths of the process and outages a task may meet

VARIABLES request,  \* what the client asked for
          task,     \* its row: status, cancel_requested, frozen states, result
          run,      \* local state of its coroutine; pc names the next await
          docs,     \* which conversion of the documents an expansion would use
          bill,     \* what the calls of the task have really cost (history)
          left      \* interruptions that may still come (bound)

wvars == <<request, task, run, docs, bill, left>>

Idle == [pc |-> "idle"]
Final == {"completed", "failed", "cancelled"}
MaxOf(S) == CHOOSE x \in S : \A y \in S : y <= x
MinOf(a, b) == IF a <= b THEN a ELSE b

FreshRow == [status |-> "queued", cancel |-> FALSE, cancelled_at |-> None,
             agent |-> None, mapped |-> None, mixture |-> None,
             result |-> None, error |-> None]
\* paid: steps paid in the run as it stands; kept: those saved when it last paused;
\* twice: a step was paid again although its result had been kept.
FreshBill == [paid |-> {}, kept |-> {}, twice |-> FALSE,
              spent |-> 0, kept_spent |-> 0]

\* ------------------------------------------------------------------ the row

\* update_task names the row and compares no status.
Writes(status) == task' = [task EXCEPT !.status = status]
WritesError(code) == task' = [task EXCEPT !.status = "failed", !.error = code]
EndsAs(status) == Writes(status) /\ run' = Idle /\ UNCHANGED <<request, docs, bill, left>>
EndsWith(code) == WritesError(code) /\ run' = Idle /\ UNCHANGED <<request, docs, bill, left>>
GoesOn(local) == run' = local /\ UNCHANGED <<request, docs, left>>

\* _yield_check: only a task that named its strategy gives way, and a cancelled one
\* does not.  Whether somebody urgent waits is the environment's choice.
MayYield(strategy) == request.strategy = strategy
AsksToYield(here, there, save) ==
  /\ run.pc = here
  /\ \/ run' = [run EXCEPT !.pc = there]
     \/ ~task.cancel /\ run' = [run EXCEPT !.pc = save]
  /\ UNCHANGED <<request, task, docs, bill, left>>

Freeze == bill' = [bill EXCEPT !.kept = bill.paid, !.kept_spent = bill.spent]
\* _yield_turn: the state goes to its column, the row back to the queue.
Yields(column, state) ==
  /\ task' = [task EXCEPT !.status = "queued", ![column] = state]
  /\ run' = Idle
  /\ Freeze
  /\ UNCHANGED <<request, docs, left>>

\* ---------------------------------------------------------------- the money

\* No limit, or a call that its share of what remains covers (_with_wave_budget).
Fits(c, limit, share) == limit # None => c * share <= limit
\* _enforce_budget and _with_remaining_budget.
OverBudget(spent, limit) == limit # None /\ spent > limit
NothingLeft(spent, limit) == limit # None /\ spent > 0 /\ spent >= limit
Remaining(spent, limit) == IF limit = None THEN None
                           ELSE IF spent >= limit THEN 0 ELSE limit - spent
Paid(b, step, c) == [b EXCEPT !.paid = @ \cup {step}, !.spent = @ + c,
                              !.twice = @ \/ step \in b.paid]
Pays(step, c) == bill' = Paid(bill, step, c)
\* The provider refuses a call whose highest price exceeds the limit it is given.
Refusable(limit, share) == \E c \in Costs : ~Fits(c, limit, share)

\* Ways in which a call ends without an answer: the poll of _run_cancellable saw the
\* flag, the provider refused the price, the model cannot, or cannot now.
Errors(limit, share) ==
  (IF task.cancel THEN {"TASK_CANCELLED"} ELSE {})
  \cup (IF Refusable(limit, share) THEN {"BUDGET_EXCEEDED"} ELSE {})
  \cup {"CONTEXT_LIMIT_EXCEEDED", "PROVIDER_ERROR", "PROVIDER_UNAVAILABLE"}

\* ------------------------------------------------------- ends of process_task

Interrupted == [bill EXCEPT !.paid = bill.kept, !.spent = bill.kept_spent]
\* A ProviderError leaves the strategy: cancelled, back to the queue after an outage
\* or for memory, or failed.
FailsAgain(code) ==  \* faulty: outages are not counted against the attempts
  /\ run' = Idle
  /\ \/ task.cancel /\ Writes("cancelled") /\ UNCHANGED <<bill, left>>
     \/ ~task.cancel /\ WritesError(code) /\ UNCHANGED <<bill, left>>
     \/ /\ ~task.cancel /\ code = "PROVIDER_UNAVAILABLE"
        /\ Writes("queued") /\ left' = left - 1 /\ bill' = Interrupted
  /\ UNCHANGED <<request, docs>>
RetriesAfterOutage(code) ==
  /\ code = "PROVIDER_UNAVAILABLE" /\ left > 0
  /\ Writes("queued") /\ left' = left - 1 /\ bill' = Interrupted
Fails(code) ==
  /\ run' = Idle
  /\ \/ task.cancel /\ Writes("cancelled") /\ UNCHANGED <<bill, left>>
     \/ ~task.cancel /\ WritesError(code) /\ UNCHANGED <<bill, left>>
     \/ ~task.cancel /\ RetriesAfterOutage(code)
  /\ UNCHANGED <<request, docs>>

\* complete_single_task is the one write that looks at the status.
CompletesAnyway(here, result) ==  \* faulty: the status is not looked at
  /\ run.pc = here
  /\ task' = [task EXCEPT !.status = "completed", !.result = result]
  /\ run' = Idle /\ UNCHANGED <<request, docs, bill, left>>
CompletesSingle(here, result) ==
  /\ run.pc = here
  /\ \/ task.status = "cancelled" /\ Fails("TASK_CANCELLED")
     \/ /\ task.status # "cancelled"
        /\ task' = [task EXCEPT !.status = "completed", !.result = result]
        /\ run' = Idle /\ UNCHANGED <<request, docs, bill, left>>

TimesOut ==
  /\ run.pc # "idle"
  /\ IF task.cancel THEN EndsAs("cancelled") ELSE EndsWith("TASK_TIMEOUT")

\* A mixture may begin with less than the client allowed.
ToMixture(max, preset, scheduling) ==
  [pc |-> "mixture", max |-> max, preset |-> preset, scheduling |-> scheduling]

\* The process dies and the next one recovers the rows it finds active.
Crash ==
  /\ run.pc # "idle" /\ left > 0
  /\ \/ task.status = "active" /\ (Writes("queued") \/ WritesError("TASK_RETRY_LIMIT_EXCEEDED"))
     \/ task.status # "active" /\ task' = task
  /\ run' = Idle /\ left' = left - 1 /\ bill' = Interrupted
  /\ UNCHANGED <<request, docs>>

\* ---------------------------------------------------------------- the client

\* Where the first cancellation met the run (history).
Place == [pc |-> run.pc, round |-> IF "round" \in DOMAIN run THEN run.round ELSE 1]
Cancel ==
  /\ task.status \notin Final
  /\ task' = [task EXCEPT !.status = "cancelled", !.cancel = TRUE,
                          !.cancelled_at = IF task.cancel THEN @ ELSE Place]
  /\ UNCHANGED <<request, run, docs, bill, left>>

\* A deleted and repeated upload, or a better converter: the next expansion of the
\* attachments gives another text.
Reconvert ==
  /\ docs < MaxDocs
  /\ docs' = docs + 1
  /\ UNCHANGED <<request, task, run, bill, left>>

WorkflowInit ==
  /\ request \in Requests
  /\ task = FreshRow /\ run = Idle /\ docs = 0
  /\ bill = FreshBill /\ left = Interruptions
=============================================================================
