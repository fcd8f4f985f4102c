----------------------------- MODULE WavePlan -----------------------------
(* The waves in which the proposers of a mixture run (ResourceScheduler of *)
(* resource_scheduler.py).  The coordinator deals the proposers to the     *)
(* waves by position, so a plan is the sequence of the waves' lengths.     *)
EXTENDS Naturals, Sequences, FiniteSets, SequencesExt, Functions

CONSTANTS MaxParallel,   \* effective_max_parallel_invocations
          MemoryBudget,  \* local_memory_budget_bytes; 0: not known
          WavesAllowed   \* resources.allow_execution_waves

ASSUME PlanAssumption ==
  MaxParallel \in Nat \ {0} /\ MemoryBudget \in Nat /\ WavesAllowed \in BOOLEAN

Refused == <<0>>
OneByOne(n) == [i \in 1..n |-> 1]

\* A model met again in its wave is served by the copy already loaded.
PlainWeight(wave, f) == f.size  \* faulty: each copy is counted
Weight(wave, f) ==
  IF \E i \in DOMAIN wave : wave[i].model = f.model THEN 0 ELSE f.size

Pack(acc, f) ==
  IF /\ acc.wave # <<>>
     /\ \/ acc.bytes + Weight(acc.wave, f) > MemoryBudget
        \/ Len(acc.wave) >= MaxParallel
    THEN [waves |-> Append(acc.waves, Len(acc.wave)), wave |-> <<f>>, bytes |-> f.size]
    ELSE [acc EXCEPT !.wave = Append(@, f), !.bytes = @ + Weight(acc.wave, f)]

\* The order of the footprints is that of the roles and is not changed.
Packed(footprints) ==
  LET last == FoldLeft(Pack, [waves |-> <<>>, wave |-> <<>>, bytes |-> 0], footprints)
  IN Append(last.waves, Len(last.wave))

\* A single wave of several is parallel; all waves of one is sequential.
PlanByMemory(footprints, scheduling) ==
  LET waves == Packed(footprints)
      n == Len(footprints)
      parallel == Len(waves) = 1 /\ n > 1
      mixed == Len(waves) > 1 /\ \E i \in DOMAIN waves : waves[i] > 1
  IN CASE ~parallel /\ scheduling = "parallel" -> Refused
       [] scheduling # "parallel" /\ mixed /\ ~WavesAllowed -> OneByOne(n)
       [] OTHER -> waves

\* Waves of MaxParallel, the last with what remains.
PlanByCount(n) ==
  CASE MaxParallel >= n -> <<n>>
    [] MaxParallel < n /\ WavesAllowed /\ MaxParallel > 1 ->
         [i \in 1..((n + MaxParallel - 1) \div MaxParallel) |->
            IF i * MaxParallel <= n THEN MaxParallel ELSE n % MaxParallel]
    [] OTHER -> OneByOne(n)

Plan(preset, scheduling, known, footprints) ==
  LET n == Len(footprints)
  IN CASE preset # "slow" \/ scheduling = "sequential" -> OneByOne(n)
       [] preset = "slow" /\ scheduling = "parallel" /\ MaxParallel < n -> Refused
       [] OTHER -> IF known /\ MemoryBudget > 0 THEN PlanByMemory(footprints, scheduling)
                   ELSE PlanByCount(n)

\* Where a wave begins, and the proposers it runs.
Before(plan, w) == SumFunction([i \in 1..(w - 1) |-> plan[i]])
Slots(plan, w) == (Before(plan, w) + 1)..(Before(plan, w) + plan[w])

\* What a plan promises: a wave of several takes no more slots than there are, nor,
\* where the sizes are known, more memory, each model being loaded once.
Bytes(models) == SumFunction([f \in models |-> f.size])
WaveFits(known, footprints, slots) ==
  /\ Cardinality(slots) <= MaxParallel
  /\ known /\ MemoryBudget > 0 /\ Cardinality(slots) > 1 =>
       Bytes({footprints[i] : i \in slots}) <= MemoryBudget
PlanFits(known, footprints, plan) ==
  /\ Before(plan, Len(plan) + 1) = Len(footprints)
  /\ \A w \in DOMAIN plan : WaveFits(known, footprints, Slots(plan, w))

\* The plan compares names: of two models of one name it takes the sizes to be equal.
OneSizeEach(footprints) ==
  \A i, j \in DOMAIN footprints :
    footprints[i].model = footprints[j].model => footprints[i] = footprints[j]
=============================================================================
