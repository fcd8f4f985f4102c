---------------------------- MODULE Strategies ----------------------------
(* One task through the coordinator, whatever strategy it asks for: it is   *)
(* dispatched, may give way and be dispatched again, be cancelled, time out *)
(* or lose its process, until it ends or waits for its client.              *)
EXTENDS MapReduce, SingleRun, AgentTurns, ConsensusRun, StrategyRouter

Begin(strategy) ==
  CASE strategy = "single" -> [pc |-> "single", escalates |-> FALSE]
    [] strategy = "map_reduce" -> [pc |-> "map_plan"]
    [] strategy = "agent" -> [pc |-> "agent"]
    [] strategy = "mixture" -> ToMixture(request.max, request.preset, request.scheduling)

\* `auto` asks the router each time it is dispatched; what it chooses is fast.
BeginAuto(strategy) ==
  CASE strategy = "single" -> [pc |-> "single", escalates |-> request.escalates]
    [] strategy = "agent" -> [pc |-> "agent"]
    [] strategy = "mixture" -> ToMixture(request.max, "fast", "sequential")

\* A table among the documents needs a sandbox that the strategy may not have.
Dispatch ==
  /\ task.status = "queued" /\ run = Idle
  /\ \/ task.cancel /\ EndsAs("cancelled")
     \/ ~task.cancel /\ request.tabular
        /\ EndsWith("TABULAR_ATTACHMENT_REQUIRES_SANDBOX")
     \/ /\ ~task.cancel /\ ~request.tabular
        /\ Writes("active") /\ UNCHANGED bill
        /\ \/ request.strategy # "auto" /\ GoesOn(Begin(request.strategy))
           \/ /\ request.strategy = "auto"
              /\ \E cases \in Histories : GoesOn(BeginAuto(Route(request.signals, cases)))

Coroutine == Dispatch \/ MapReduceNext \/ SingleNext \/ AgentNext \/ ConsensusNext

Next ==
  \/ Dispatch \/ MapReduceNext \/ SingleNext \/ AgentNext \/ ConsensusNext
  \/ TimesOut \/ Crash
  \/ Cancel \/ Reconvert \/ \E provided \in SUBSET request.tools : ToolResults(provided)

Spec == WorkflowInit /\ [][Next]_wvars

\* The loop keeps claiming what is queued and a call ends in some way: the deadline of
\* the task sees to that.  Nobody owes an answer of the client, nor a deadline.
FairSpec == Spec /\ WF_wvars(Coroutine)
=============================================================================
