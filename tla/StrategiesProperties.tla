------------------------ MODULE StrategiesProperties ------------------------
(* What must hold of a task run by the coordinator.                         *)
EXTENDS Strategies

Statuses == Final \cup {"queued", "active", "waiting_for_tools"}
Results == {"chunks", "single", "agent", "mixture"}
InMixture == "plan" \in DOMAIN run
InMap == "partials" \in DOMAIN run

\* The row, the coroutine, the money and the bounds keep their types.
TypeOK ==
  /\ request \in Requests
  /\ task.status \in Statuses /\ task.cancel \in BOOLEAN
  /\ (task.cancelled_at = None) = ~task.cancel
  /\ task.result = None \/ task.result.of \in Results
  /\ task.status = "completed" => task.result # None
  /\ InMixture => run.live \subseteq 1..Len(request.footprints) /\ run.got \in Nat
  /\ InMap => run.total \in Nat /\ Len(run.partials) <= run.total
  /\ bill.kept_spent <= bill.spent /\ bill.kept \subseteq bill.paid
  /\ docs \in 0..MaxDocs /\ left \in 0..Interruptions

\* Work that was kept when the task gave way, or waited for its client, is never paid
\* again, however often it is taken up and whatever interrupts it in between.
PaidWorkIsKept == ~bill.twice

\* A synthesis never mixes partial answers of two conversions of the documents.
PartialsMatchChunks ==
  /\ InMap => \A i \in DOMAIN run.partials : run.partials[i] = run.docs
  /\ task.result # None /\ task.result.of = "chunks" =>
       \A i, j \in DOMAIN task.result.partials :
         task.result.partials[i] = task.result.partials[j]

\* What a mixture delivers rests on two proposals, or on the only one asked for, of
\* the very round that is delivered.
QuorumHeld ==
  task.result # None /\ task.result.of = "mixture" => task.result.got >= Quorum

\* Every proposer has a place in the plan, no wave takes more than there is, and no
\* plan that keeps the order has fewer waves.
PlanIsTight ==
  InMixture =>
    /\ Before(run.plan, Len(run.plan) + 1) = Len(request.footprints)
    /\ \A w \in DOMAIN run.plan : run.plan[w] \in 1..MaxParallel
    /\ OneSizeEach(request.footprints) =>
         /\ PlanFits(run.known, request.footprints, run.plan)
         /\ /\ request.strategy = "mixture" /\ request.preset = "slow"
            /\ request.scheduling # "sequential" /\ WavesAllowed
            => \A k \in 1..(Len(run.plan) - 1) :
                 \A plan \in [1..k -> 1..Len(request.footprints)] :
                   ~PlanFits(run.known, request.footprints, plan)

\* Since it was last taken up an agent spends at most one turn, or a closing one, more
\* than its limit, and what the router chooses that or twice the limit; the other
\* strategies spend at most twice theirs in all, and that once more for each time the
\* documents are converted anew.
SpendingIsBounded ==
  request.max # None =>
    LET since == bill.spent - bill.kept_spent
    IN CASE request.strategy = "agent" -> since <= request.max + MaxOf(Costs)
         [] request.strategy = "auto" -> since <= request.max + MaxOf(Costs \cup {request.max})
         [] OTHER -> bill.spent <= 2 * request.max * (docs + 1)

\* The cost in the result is what the calls of the task have cost, over all the times
\* it gave way, except that a second round given up is left out, and the partial
\* answers of an older conversion.
ReportedIsPaid ==
  task.status = "completed" /\ task.result.of # "single" =>
    \/ task.result.cost = bill.spent
    \/ /\ (task.result.of = "mixture" /\ task.result.abandoned) \/ docs > 0
       /\ task.result.cost <= bill.spent
    \/ request.strategy = "auto"

\* No turn is asked of a model while a tool call in its conversation has no answer.
ConversationIsWhole == run.pc \in {"turn_call", "closing_call"} => run.open = {}

\* A cancelled task ends completed, or is left to wait for its client, only when the flag
\* was raised after the last look at it, or in the second round, which takes its own
\* cancellation for a failure.
LateCancels ==
  [pc : {"agent_save", "deliver", "gate", "judge_call", "synth_ask"}, round : {1}]
  \cup [pc : {"wave", "wave_call", "synth_call", "synth_done", "deliver"}, round : {2}]
CancelEndsRun ==
  task.status \in {"completed", "waiting_for_tools"} /\ task.cancel =>
    \/ task.cancelled_at \in LateCancels
    \/ task.cancelled_at.pc = "mixture" /\ task.mixture # None /\ task.mixture.pc = "gate"

\* A task that is dispatched ends, or waits for its client, although it may give way
\* as often as somebody urgent waits.
WorkflowEnds ==
  task.status \in {"queued", "active"}
    ~> task.status \in Final \cup {"waiting_for_tools"}

\* docs/Client_API.md: asking for two rounds never turns into a failure a task that one
\* round would have answered.  Here: once the first round has its synthesis, and there
\* was money for it, the task does not end for lack of money.
SecondRoundNeverWorse ==
  [][InMixture /\ run.pc \in {"gate", "judge_call", "second", "deliver"}
     /\ ~run.degraded /\ run.cost + run.synth <= run.max
     => task'.error # "BUDGET_EXCEEDED"]_wvars
=============================================================================
