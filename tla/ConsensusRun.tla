---------------------------- MODULE ConsensusRun ----------------------------
(* The mixture: waves of proposers, a synthesis, and at most one more round  *)
(* that a judge may find unnecessary (_process_consensus of coordinator.py). *)
(* A proposer is one call here; proposers with tools are not modelled.       *)
EXTENDS Workflow, WavePlan

\* The waves are numbered on; got and cost are the proposals of the round at hand,
\* first what the round before has left, extra what the judge has cost.
NoRound == [got |-> 0, cost |-> 0, synth |-> 0]
Mixture(plan, known) ==
  [pc |-> "wave", max |-> run.max, plan |-> plan, known |-> known, wave |-> 1, round |-> 1,
   limit |-> run.max, live |-> {}, fatal |-> FALSE, got |-> 0, cost |-> 0, synth |-> 0, extra |-> 0,
   degraded |-> FALSE, retried |-> FALSE, abandoned |-> FALSE, first |-> NoRound]
NoCheckpoint == None  \* faulty: what was kept is not looked for
Checkpoint == task.mixture

\* A plan that was kept is not made again: its waves count the proposals kept.
ResumeMixture ==
  /\ run.pc = "mixture" /\ Checkpoint # None
  /\ Writes("active") /\ GoesOn(Checkpoint) /\ UNCHANGED bill

\* Sizes that cannot be read now, or not for every proposer, are not used.
SizesRead == IF request.known THEN BOOLEAN ELSE {FALSE}
PlanMixture ==
  /\ run.pc = "mixture" /\ Checkpoint = None
  /\ \/ Fails("PROVIDER_ERROR")
     \/ \E known \in SizesRead :
          LET plan == Plan(run.preset, run.scheduling, known, request.footprints)
          IN \/ plan = Refused /\ Fails("PARALLEL_CAPACITY_INSUFFICIENT")
             \/ plan # Refused /\ Writes("active")
                /\ GoesOn(Mixture(plan, known)) /\ UNCHANGED bill

\* ---------------------------------------------------------------- the money

\* What this round may spend, and what is taken off that before each wave: the second
\* round takes off the proposals of the first, which its limit had lost already.
Before2 == run.first.cost + run.first.synth + run.extra
RoundLimit == IF run.round = 1 THEN run.max ELSE Remaining(Before2, run.max)
Proposals == run.first.cost + run.cost
SoFar == Before2 + run.cost
AllOutputs == SoFar + (IF run.degraded THEN 0 ELSE run.synth)

\* The second round never fails the task: the answer of the first is delivered.
FirstRoundAsIs ==  \* faulty: the proposals counted are those of the second round
  [run EXCEPT !.pc = "deliver", !.round = 1, !.synth = run.first.synth,
              !.first = NoRound, !.degraded = FALSE, !.abandoned = TRUE]
FirstRound == [run EXCEPT !.pc = "deliver", !.round = 1, !.got = run.first.got,
                          !.cost = run.first.cost, !.synth = run.first.synth,
                          !.first = NoRound, !.degraded = FALSE, !.abandoned = TRUE]
Stumbles(code) ==
  \/ run.round = 1 /\ Fails(code)
  \/ run.round = 2 /\ GoesOn(FirstRound) /\ UNCHANGED <<task, bill>>

\* ---------------------------------------------------------------- the waves

Quorum == MinOf(2, Len(request.footprints))
TaskFatal == {"TASK_CANCELLED", "BUDGET_EXCEEDED", "CONTEXT_LIMIT_EXCEEDED"}
ArbiterFatal == TaskFatal \ {"CONTEXT_LIMIT_EXCEEDED"}

NextWave ==
  /\ run.pc = "wave" /\ run.wave <= Len(run.plan)
  /\ \/ task.cancel /\ EndsAs("cancelled")
     \/ ~task.cancel /\ NothingLeft(Proposals, RoundLimit) /\ Stumbles("BUDGET_EXCEEDED")
     \/ /\ ~task.cancel /\ ~NothingLeft(Proposals, RoundLimit)
        /\ Writes("active") /\ UNCHANGED bill
        /\ GoesOn([run EXCEPT !.pc = "wave_call", !.live = Slots(run.plan, run.wave),
                           !.limit = Remaining(Proposals, RoundLimit)])

\* The calls of a wave end in any order; each may cost its share of what was left
\* before the first of them.
ProposerAnswered ==
  /\ run.pc = "wave_call"
  /\ \E s \in run.live, c \in Costs :
       /\ Fits(c, run.limit, run.plan[run.wave])
       /\ Pays(<<"propose", run.round, s>>, c)
       /\ GoesOn([run EXCEPT !.live = @ \ {s}, !.got = @ + 1, !.cost = @ + c])
  /\ UNCHANGED task
ProposerFailed ==
  /\ run.pc = "wave_call"
  /\ \E s \in run.live : \E code \in Errors(run.limit, run.plan[run.wave]) :
       GoesOn([run EXCEPT !.live = @ \ {s}, !.fatal = @ \/ code \in TaskFatal])
  /\ UNCHANGED <<task, bill>>

WaveDone ==
  /\ run.pc = "wave_call" /\ run.live = {}
  /\ \/ run.fatal /\ Stumbles("BUDGET_EXCEEDED")
     \/ ~run.fatal /\ task.cancel /\ EndsAs("cancelled")
     \/ ~run.fatal /\ ~task.cancel /\ OverBudget(Proposals, run.max)
        /\ Stumbles("BUDGET_EXCEEDED")
     \/ /\ ~run.fatal /\ ~task.cancel /\ ~OverBudget(Proposals, run.max)
        /\ Writes("active") /\ UNCHANGED bill
        /\ GoesOn([run EXCEPT !.wave = @ + 1,
                    !.pc = IF run.round = 1 /\ MayYield("mixture") THEN "wave_ask" ELSE "wave"])
AskAfterWave == AsksToYield("wave_ask", "wave", "wave_save")
YieldAfterWave == run.pc = "wave_save" /\ Yields("mixture", [run EXCEPT !.pc = "wave"])

\* ------------------------------------------------------------- the synthesis

WavesDone(round) == run.pc = "wave" /\ run.round = round /\ run.wave > Len(run.plan)
Synthesizes ==
  \/ NothingLeft(SoFar, run.max) /\ Stumbles("BUDGET_EXCEEDED")
  \/ /\ ~NothingLeft(SoFar, run.max)
     /\ Writes("active") /\ UNCHANGED bill
     /\ GoesOn([run EXCEPT !.pc = "synth_call", !.retried = FALSE])

RoundDone ==
  /\ WavesDone(1)
  /\ \/ run.got < Quorum /\ EndsWith("CONSENSUS_QUORUM_NOT_REACHED")
     \/ run.got >= Quorum /\ task.cancel /\ EndsAs("cancelled")
     \/ run.got >= Quorum /\ ~task.cancel /\ Synthesizes
\* The flag is not looked at again, and a quorum that is missing is no failure.
SecondRoundDone ==
  /\ WavesDone(2)
  /\ \/ run.got < Quorum /\ GoesOn(FirstRound) /\ UNCHANGED <<task, bill>>
     \/ run.got >= Quorum /\ Synthesizes

SynthesisAnswered ==
  /\ run.pc = "synth_call"
  /\ \E c \in Costs :
       /\ Fits(c, Remaining(SoFar, run.max), 1)
       /\ Pays(<<"synthesis", run.round>>, c)
       /\ GoesOn([run EXCEPT !.pc = "synth_done", !.synth = c])
  /\ UNCHANGED task
\* One other arbiter is tried when the request lets the broker choose and one can read
\* the proposals; without it the first proposal answers.
Substituted == request.substitutes /\ ~run.retried /\ GoesOn([run EXCEPT !.retried = TRUE])
FirstProposal == GoesOn([run EXCEPT !.pc = "synth_done", !.degraded = TRUE])
ArbiterFailed ==
  /\ run.pc = "synth_call"
  /\ \E code \in Errors(Remaining(SoFar, run.max), 1) :
       \/ (code \in ArbiterFatal \/ task.cancel) /\ Stumbles(code)
       \/ /\ code \notin ArbiterFatal /\ ~task.cancel /\ UNCHANGED <<task, bill>>
          /\ (FirstProposal \/ Substituted)

SynthesisDone ==
  /\ run.pc = "synth_done" /\ run.round = 1
  /\ \/ task.cancel /\ EndsAs("cancelled")
     \/ /\ ~task.cancel /\ UNCHANGED <<task, bill>>
        /\ GoesOn([run EXCEPT !.pc = IF request.rounds = 1 \/ run.degraded THEN "deliver"
                                     ELSE IF MayYield("mixture") THEN "synth_ask" ELSE "gate"])
SecondSynthesisDone ==
  /\ run.pc = "synth_done" /\ run.round = 2 /\ UNCHANGED <<task, bill>>
  /\ GoesOn(IF run.degraded THEN FirstRound ELSE [run EXCEPT !.pc = "deliver"])
AskAfterSynthesis == AsksToYield("synth_ask", "gate", "synth_save")
YieldAfterSynthesis == run.pc = "synth_save" /\ Yields("mixture", [run EXCEPT !.pc = "gate"])

\* ---------------------------------------------------------- the second round

\* An empty answer is not refined; without judges the round is always spent.
Gate ==
  /\ run.pc = "gate"
  /\ \E next \in {"deliver", IF request.judges THEN "judge_call" ELSE "second"} :
       GoesOn([run EXCEPT !.pc = next])
  /\ UNCHANGED <<task, bill>>
\* The judge is asked with the whole limit.
Judged ==
  /\ run.pc = "judge_call"
  /\ \E c \in Costs, next \in {"deliver", "second"} :
       /\ Fits(c, run.max, 1)
       /\ Pays(<<"judge">>, c)
       /\ GoesOn([run EXCEPT !.pc = next, !.extra = c])
  /\ UNCHANGED task
\* A judge that fails, even because the task was cancelled, finds the answer good.
JudgeFailed ==
  /\ run.pc = "judge_call"
  /\ GoesOn([run EXCEPT !.pc = "deliver"]) /\ UNCHANGED <<task, bill>>

StartSecond ==
  /\ run.pc = "second"
  /\ \/ task.cancel /\ EndsAs("cancelled")
     \/ /\ ~task.cancel /\ NothingLeft(AllOutputs, run.max)
        /\ GoesOn([run EXCEPT !.pc = "deliver"]) /\ UNCHANGED <<task, bill>>
     \/ /\ ~task.cancel /\ ~NothingLeft(AllOutputs, run.max) /\ UNCHANGED <<task, bill>>
        /\ GoesOn([run EXCEPT !.pc = "wave", !.wave = 1, !.round = 2, !.got = 0, !.cost = 0,
              !.synth = 0, !.first = [got |-> run.got, cost |-> run.cost, synth |-> run.synth]])

\* ------------------------------------------------------------------- the end

\* The flag is not looked at here, and the status of the row is not compared.
Deliver ==
  /\ run.pc = "deliver"
  /\ \/ OverBudget(AllOutputs, run.max) /\ Fails("BUDGET_EXCEEDED")
     \/ /\ ~OverBudget(AllOutputs, run.max)
        /\ task' = [task EXCEPT !.status = "completed",
             !.result = [of |-> "mixture", rounds |-> run.round, got |-> run.got,
                         cost |-> AllOutputs, abandoned |-> run.abandoned]]
        /\ run' = Idle /\ UNCHANGED <<request, docs, bill, left>>

ConsensusNext ==
  \/ ResumeMixture \/ PlanMixture \/ NextWave \/ ProposerAnswered \/ ProposerFailed \/ WaveDone
  \/ AskAfterWave \/ YieldAfterWave \/ RoundDone \/ SecondRoundDone
  \/ SynthesisAnswered \/ ArbiterFailed \/ SynthesisDone \/ SecondSynthesisDone
  \/ AskAfterSynthesis \/ YieldAfterSynthesis
  \/ Gate \/ Judged \/ JudgeFailed \/ StartSecond \/ Deliver
=============================================================================
