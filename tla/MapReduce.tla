----------------------------- MODULE MapReduce -----------------------------
(* A single task whose documents do not fit in the window of its model: one *)
(* call per chunk, then rounds that merge the partial answers in groups     *)
(* (_process_single_map_reduce of coordinator.py).                          *)
EXTENDS Workflow

CONSTANT MaxReduceRounds

ASSUME RoundsAssumption == MaxReduceRounds \in Nat

\* A chunk's partial answer is known by the conversion its chunk was cut from.
Mapping(pc) == [pc |-> pc, docs |-> docs, total |-> request.chunks, partials |-> <<>>,
                spent |-> 0, rounds |-> 0, input |-> 0, groups |-> 0, merged |-> 0]

\* The same model and window cut the text again, and the fingerprint of the chunks
\* tells whether the partial answers still belong to them.
AnyChunks(saved) == TRUE  \* faulty: the fingerprint is not compared
SameChunks(saved) == saved.docs = docs
ResumedAnew(saved) == Mapping("map")  \* faulty: a task that gave way begins again
Resumed(saved) == saved

Usable == task.mapped # None /\ SameChunks(task.mapped)
ResumeChunks ==
  /\ run.pc = "map_plan" /\ Usable /\ Writes("active") /\ UNCHANGED bill
  /\ GoesOn([Resumed(task.mapped) EXCEPT !.docs = docs])

\* The documents fit after all, or no model is left to cut them for, or nobody knows
\* the window of the one there is.
PlanErrors == {"CONTEXT_LIMIT_EXCEEDED", "CONTEXT_WINDOW_UNKNOWN", "PROVIDER_ERROR"}
SplitDocuments ==
  /\ run.pc = "map_plan" /\ ~Usable
  /\ \/ Writes("active") /\ GoesOn(Mapping("map")) /\ UNCHANGED bill
     \/ GoesOn([pc |-> "single", escalates |-> FALSE]) /\ UNCHANGED <<task, bill>>
     \/ \E code \in PlanErrors : Fails(code)

\* What the row keeps of a run that gives way, and the phase in which it goes on.
KeptIn(phase) == [run EXCEPT !.pc = phase]

\* Before each call: has it been cancelled, is there money.
Guarded(here, there) ==
  /\ run.pc = here
  /\ \/ task.cancel /\ EndsAs("cancelled")
     \/ ~task.cancel /\ OverBudget(run.spent, request.max) /\ Fails("BUDGET_EXCEEDED")
     \/ /\ ~task.cancel /\ ~OverBudget(run.spent, request.max)
        /\ GoesOn([run EXCEPT !.pc = there]) /\ UNCHANGED <<task, bill>>

\* Each call may cost as much as the whole limit.
Answered(here, step, local) ==
  /\ run.pc = here
  /\ \E c \in Costs :
       /\ Fits(c, request.max, 1)
       /\ Pays(step, c)
       /\ GoesOn([local EXCEPT !.spent = @ + c])
  /\ UNCHANGED task
CallFailed ==
  /\ run.pc \in {"map_call", "merge_call", "final_call"}
  /\ \E code \in Errors(request.max, 1) : Fails(code)

\* _map_reduce_invocation looks at the flag after the answer.
AnswerKept(here, asks, next) ==
  /\ run.pc = here
  /\ \/ task.cancel /\ EndsAs("cancelled")
     \/ /\ ~task.cancel /\ Writes("active") /\ UNCHANGED bill
        /\ GoesOn([run EXCEPT !.pc = IF MayYield("map_reduce") THEN asks ELSE next])

NextChunk == run.pc = "map" /\ Len(run.partials) < run.total /\ Guarded("map", "map_call")
ChunkAnswered == Answered("map_call", <<"map", run.docs, Len(run.partials) + 1>>,
  [run EXCEPT !.pc = "map_done", !.partials = Append(@, run.docs)])
ChunkKept == AnswerKept("map_done", "map_ask", "map")
AskAfterChunk == AsksToYield("map_ask", "map", "map_save")
YieldAfterChunk == run.pc = "map_save" /\ Yields("mapped", KeptIn("map"))

ChunksDone ==
  /\ run.pc = "map" /\ Len(run.partials) = run.total
  /\ GoesOn([run EXCEPT !.pc = "reduce", !.input = run.total])
  /\ UNCHANGED <<task, bill>>

\* How many groups the answers make depends on their length: from one to one each.
Groupings == 1..run.input
ReduceRound ==
  /\ run.pc = "reduce"
  /\ \/ run.rounds >= MaxReduceRounds /\ Fails("CONTEXT_LIMIT_EXCEEDED")
     \/ /\ run.rounds < MaxReduceRounds
        /\ \E g \in Groupings :
             GoesOn([run EXCEPT !.pc = IF g = 1 THEN "final" ELSE "merge",
                                !.rounds = @ + 1, !.groups = g, !.merged = 0])
        /\ Writes("active") /\ UNCHANGED bill

MergeGroup == run.pc = "merge" /\ run.merged < run.groups /\ Guarded("merge", "merge_call")
GroupAnswered == Answered("merge_call", <<"merge", run.docs, run.rounds, run.merged + 1>>,
  [run EXCEPT !.pc = "merge_done", !.merged = @ + 1])
GroupKept == AnswerKept("merge_done", "merge_ask", "merge")
AskAfterGroup == AsksToYield("merge_ask", "merge", "merge_save")
\* The groups of the round are computed again from its answers and come out the same.
YieldAfterGroup == run.pc = "merge_save" /\ Yields("mapped", KeptIn("merge"))
GroupsDone ==
  /\ run.pc = "merge" /\ run.merged = run.groups
  /\ GoesOn([run EXCEPT !.pc = "reduce", !.input = run.groups])
  /\ UNCHANGED <<task, bill>>

\* The call that answers is not preceded by a look at the flag.
LastCall ==
  /\ run.pc = "final"
  /\ \/ OverBudget(run.spent, request.max) /\ Fails("BUDGET_EXCEEDED")
     \/ /\ ~OverBudget(run.spent, request.max)
        /\ GoesOn([run EXCEPT !.pc = "final_call"]) /\ UNCHANGED <<task, bill>>
LastAnswered == Answered("final_call", <<"final", run.docs>>, [run EXCEPT !.pc = "final_done"])
LastKept ==
  /\ run.pc = "final_done"
  /\ \/ task.cancel /\ EndsAs("cancelled")
     \/ ~task.cancel /\ GoesOn([run EXCEPT !.pc = "final_save"]) /\ UNCHANGED <<task, bill>>
SaveSynthesis == CompletesSingle("final_save",
  [of |-> "chunks", partials |-> run.partials, cost |-> run.spent])

MapReduceNext ==
  \/ ResumeChunks \/ SplitDocuments \/ NextChunk \/ ChunkAnswered \/ ChunkKept \/ AskAfterChunk
  \/ YieldAfterChunk \/ ChunksDone \/ ReduceRound \/ MergeGroup \/ GroupAnswered
  \/ GroupKept \/ AskAfterGroup \/ YieldAfterGroup \/ GroupsDone
  \/ LastCall \/ LastAnswered \/ LastKept \/ SaveSynthesis \/ CallFailed
=============================================================================
