----------------------------- MODULE AgentTurns -----------------------------
(* The agent: turns of a model with tools, some of which only the client can *)
(* run.  The conversation is frozen when it gives way and when it waits for  *)
(* the client (_process_agent, _run_agent_loop, resume_with_tool_results).   *)
EXTENDS Workflow

\* A conversation is known by how many rounds with tools it holds (at), and by the
\* calls in it that nobody has answered (open).
Talk(saved) ==
  IF saved # None /\ saved.resumed
    THEN [pc |-> "turn", at |-> saved.at, open |-> saved.open, spent |-> 0,
          prior |-> saved.cost, why |-> None]
    ELSE [pc |-> "turn", at |-> 0, open |-> {}, spent |-> 0, prior |-> 0, why |-> None]
FrozenSegment(resumed) ==  \* faulty: what was spent before is dropped
  [at |-> run.at, open |-> run.open, resumed |-> resumed, cost |-> run.spent]
Frozen(resumed) ==
  [at |-> run.at, open |-> run.open, resumed |-> resumed, cost |-> run.prior + run.spent]
Leaves(why) == [run EXCEPT !.pc = "agent_exit", !.why = why]

SelectAgent ==
  /\ run.pc = "agent"
  /\ \/ Fails("PROVIDER_ERROR")
     \/ Writes("active") /\ GoesOn(Talk(task.agent)) /\ UNCHANGED bill

\* A conversation that fits in no window, however its results are cut, ends there.
DoesNotFit == GoesOn(Leaves("answer"))
NextTurn ==
  /\ run.pc = "turn" /\ run.at < request.iterations
  /\ \/ task.cancel /\ EndsAs("cancelled")
     \/ ~task.cancel /\ UNCHANGED <<task, bill>>
        /\ GoesOn([run EXCEPT !.pc = "turn_call"])
     \/ ~task.cancel /\ UNCHANGED <<task, bill>> /\ DoesNotFit

\* No price is asked of a turn beforehand.  It answers, or calls tools of the
\* broker, of its servers and of the client.
TurnAnswered ==
  /\ run.pc = "turn_call"
  /\ \E c \in Costs :
       /\ Pays(<<"turn", run.at + 1>>, c)
       /\ \/ GoesOn([Leaves("answer") EXCEPT !.spent = @ + c])
          \/ \E calls \in SUBSET request.tools :
               GoesOn([run EXCEPT !.pc = "tools", !.at = @ + 1, !.spent = @ + c,
                                  !.open = run.open \cup calls])
  /\ UNCHANGED task
TurnFailed ==
  run.pc = "turn_call" /\ \E code \in Errors(None, 1) : Fails(code)

\* The tools of the broker have answered, each with a result or an error as text.
ToolsRunUnpriced ==  \* faulty: the limit is not compared after a turn
  /\ run.pc = "tools"
  /\ \/ run.open # {} /\ GoesOn(Leaves("client")) /\ UNCHANGED <<task, bill>>
     \/ /\ run.open = {}
        /\ Writes("active") /\ UNCHANGED bill
        /\ GoesOn([run EXCEPT !.pc = IF MayYield("agent") THEN "agent_ask" ELSE "turn"])
ToolsRun ==
  /\ run.pc = "tools"
  /\ \/ run.open # {} /\ GoesOn(Leaves("client")) /\ UNCHANGED <<task, bill>>
     \/ /\ run.open = {}
        /\ Writes("active") /\ UNCHANGED bill
        /\ GoesOn(IF NothingLeft(run.spent, request.max) THEN Leaves("answer")
                  ELSE [run EXCEPT !.pc = IF MayYield("agent") THEN "agent_ask"
                                          ELSE "turn"])
AskAfterTurn ==
  /\ run.pc = "agent_ask"
  /\ \/ GoesOn([run EXCEPT !.pc = "turn"])
     \/ ~task.cancel /\ GoesOn(Leaves("yield"))
  /\ UNCHANGED <<task, bill>>

\* The rounds are used up: one more turn, without tools, whose failure is no failure.
LastTurn ==
  /\ run.pc = "turn" /\ run.at >= request.iterations
  /\ \/ task.cancel /\ EndsAs("cancelled")
     \/ ~task.cancel /\ GoesOn([run EXCEPT !.pc = "closing_call"])
        /\ UNCHANGED <<task, bill>>
LastTurnAnswered ==
  /\ run.pc = "closing_call"
  /\ \E c \in Costs : Pays(<<"closing">>, c) /\ GoesOn([Leaves("answer") EXCEPT !.spent = @ + c])
  /\ UNCHANGED task
LastTurnFailed ==
  run.pc = "closing_call" /\ GoesOn(Leaves("answer")) /\ UNCHANGED <<task, bill>>

LeaveLoop ==
  /\ run.pc = "agent_exit"
  /\ \/ task.cancel /\ EndsAs("cancelled")
     \/ ~task.cancel /\ GoesOn([run EXCEPT !.pc = "agent_save"]) /\ UNCHANGED <<task, bill>>

\* None of the three writes compares the status of the row.
SaveAnswer ==
  /\ run.pc = "agent_save" /\ run.why = "answer"
  /\ task' = [task EXCEPT !.status = "completed",
                          !.result = [of |-> "agent", cost |-> run.prior + run.spent]]
  /\ run' = Idle /\ UNCHANGED <<request, docs, bill, left>>
PauseForClient ==
  /\ run.pc = "agent_save" /\ run.why = "client"
  /\ task' = [task EXCEPT !.status = "waiting_for_tools", !.agent = Frozen(FALSE)]
  /\ run' = Idle /\ Freeze
  /\ UNCHANGED <<request, docs, left>>
YieldAfterTurn ==
  run.pc = "agent_save" /\ run.why = "yield" /\ Yields("agent", Frozen(TRUE))

\* All the calls that are open and no other are answered, or nothing changes.
AcceptedSome(provided) ==  \* faulty: some of the calls may stay without an answer
  /\ task.status = "waiting_for_tools"
  /\ provided \subseteq task.agent.open
Accepted(provided) ==
  /\ task.status = "waiting_for_tools"
  /\ provided = task.agent.open
ToolResults(provided) ==
  /\ Accepted(provided)
  /\ task' = [task EXCEPT !.status = "queued",
                          !.agent = [task.agent EXCEPT !.open = @ \ provided, !.resumed = TRUE]]
  /\ UNCHANGED <<request, run, docs, bill, left>>

AgentNext ==
  \/ SelectAgent \/ NextTurn \/ TurnAnswered \/ TurnFailed \/ ToolsRun \/ AskAfterTurn
  \/ LastTurn \/ LastTurnAnswered \/ LastTurnFailed \/ LeaveLoop
  \/ SaveAnswer \/ PauseForClient \/ YieldAfterTurn
=============================================================================
