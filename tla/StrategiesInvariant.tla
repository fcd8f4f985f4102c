------------------------ MODULE StrategiesInvariant ------------------------
(***************************************************************************)
(* What the steps of Strategies keep, part by part: the shape of the       *)
(* coroutine and of its checkpoints, the row that goes with it, and what   *)
(* each strategy owes to its properties.                                   *)
(***************************************************************************)
EXTENDS StrategiesProperties

\* The request names a strategy the coordinator knows and its proposers one by one, and
\* the evidence is made of cases the router has recorded.
ASSUME RequestsAssumption ==
  /\ \A r \in Requests : r.strategy \in Concrete \cup {"map_reduce", "auto"}
  /\ \A r \in Requests : r.footprints \in Seq(Range(r.footprints))
  /\ Histories \subseteq Seq(Case)

SinglePlaces == {"single_call", "single_done", "rate_call", "single_save", "escalate"}
MapPlaces ==
  {"map", "map_call", "map_done", "map_ask", "map_save", "reduce", "merge", "merge_call",
   "merge_done", "merge_ask", "merge_save", "final", "final_call", "final_done", "final_save"}
TalkPlaces ==
  {"turn", "turn_call", "tools", "agent_ask", "closing_call", "agent_exit", "agent_save"}
Synthesized ==
  {"synth_call", "synth_done", "synth_ask", "synth_save", "gate", "judge_call", "second",
   "deliver"}
MixturePlaces == {"wave", "wave_call", "wave_ask", "wave_save"} \cup Synthesized
SecondPlaces == {"wave", "wave_call", "synth_call", "synth_done", "deliver"}

RowFields == {"status", "cancel", "cancelled_at", "agent", "mapped", "mixture", "result", "error"}
MapFields ==
  {"pc", "docs", "total", "partials", "spent", "rounds", "input", "groups", "merged"}
TalkFields == {"pc", "at", "open", "spent", "prior", "why"}
MixtureFields ==
  {"pc", "max", "plan", "known", "wave", "round", "limit", "live", "fatal", "got", "cost", "synth",
   "extra", "degraded", "retried", "abandoned", "first"}

\* --- The coroutine.

\* Where it is tells what it holds.
RunShape ==
  \/ run.pc \in {"idle", "map_plan", "agent"} /\ DOMAIN run = {"pc"}
  \/ run.pc = "single" /\ DOMAIN run = {"pc", "escalates"}
  \/ run.pc \in SinglePlaces /\ DOMAIN run = {"pc", "escalates", "spent"}
  \/ run.pc \in MapPlaces /\ DOMAIN run = MapFields
  \/ run.pc \in TalkPlaces /\ DOMAIN run = TalkFields
  \/ run.pc = "mixture" /\ DOMAIN run = {"pc", "max", "preset", "scheduling"}
  \/ run.pc \in MixturePlaces /\ DOMAIN run = MixtureFields

\* A conversation has calls without an answer only between the turn that makes them and
\* the client that answers.
RunTalks ==
  /\ run.pc \in TalkPlaces \ {"tools", "agent_exit", "agent_save"} => run.open = {}
  /\ run.pc \in {"agent_exit", "agent_save"} /\ run.why = "yield" => run.open = {}

\* Partial answers are those of the conversion that the documents were cut from.
OfOne(r) ==
  r.partials \in Seq(Nat) /\ r.docs \in Nat /\ \A i \in DOMAIN r.partials : r.partials[i] = r.docs
RunMaps == run.pc \in MapPlaces => OfOne(run)

\* Once a round is synthesized its proposals are enough, and so are those that the
\* second round has put aside.
Rests(r) ==
  /\ r.round \in {1, 2}
  /\ r.pc \in Synthesized => r.got >= Quorum
  /\ r.round = 2 => r.first.got >= Quorum /\ r.pc \in SecondPlaces
RunRests == run.pc \in MixturePlaces => Rests(run)

\* A cancelled run reaches a place from which it may end well only if it was cancelled
\* there, or after the last look at the flag.
AtGate == task.mixture # None /\ task.mixture.pc = "gate"
CancelledLate ==
  task.cancelled_at \in LateCancels \/ (task.cancelled_at.pc = "mixture" /\ AtGate)
RunCancelled ==
  /\ run.pc \in {"rate_call", "single_save", "escalate", "final_save"} => task.status = "cancelled"
  /\ run.pc = "agent_save" => task.cancelled_at \in LateCancels
  /\ run.pc \in {"synth_ask", "gate", "judge_call", "deliver"} => CancelledLate
  /\ run.pc \in MixturePlaces /\ run.round = 2 => task.cancelled_at \in LateCancels
  /\ run.pc = "mixture" /\ AtGate => task.cancelled_at.pc = "mixture"

\* A task that asks for a mixture is run as nothing else, and only such a mixture gives way.
Asking == {"wave_ask", "wave_save", "synth_ask", "synth_save"}
RunIsAsked ==
  /\ request.strategy = "mixture" => run.pc \in {"idle", "mixture"} \cup MixturePlaces
  /\ run.pc \in Asking => request.strategy = "mixture"

RunInvariant ==
  /\ RunShape /\ RunTalks /\ RunMaps /\ RunRests /\ RunIsAsked
  /\ task.cancel => RunCancelled

\* --- The row.

\* A checkpoint holds what the coroutine held, where it can go on.
CheckpointsHeld ==
  /\ task.agent # None \/ task.status = "waiting_for_tools" =>
       /\ DOMAIN task.agent = {"at", "open", "resumed", "cost"}
       /\ task.agent.resumed => task.agent.open = {}
  /\ task.mapped # None =>
       DOMAIN task.mapped = MapFields /\ task.mapped.pc \in {"map", "merge"} /\ OfOne(task.mapped)
  /\ task.mixture # None =>
       /\ DOMAIN task.mixture = MixtureFields /\ task.mixture.pc \in {"wave", "gate"}
       /\ task.mixture.round = 1 /\ Rests(task.mixture) /\ request.strategy = "mixture"

\* A row that waits or has ended, unless it was cancelled, has no coroutine, and an
\* active row has one.
RowInvariant ==
  /\ request \in Requests /\ docs \in Nat /\ DOMAIN task = RowFields /\ CheckpointsHeld
  /\ task.status \in {"queued", "active", "waiting_for_tools", "completed", "failed", "cancelled"}
  /\ task.status \notin {"active", "cancelled"} => run.pc = "idle"
  /\ task.status = "active" => run.pc # "idle"

\* --- What a task delivers.
ResultInvariant ==
  /\ task.result # None /\ task.result.of = "chunks" =>
       \A i, j \in DOMAIN task.result.partials :
         task.result.partials[i] = task.result.partials[j]
  /\ QuorumHeld /\ CancelEndsRun

CoordinatorInvariant == RunInvariant /\ RowInvariant /\ ResultInvariant

\* --- The money.

ASSUME CostsAssumption == Costs \subseteq Nat

BillFields == {"paid", "kept", "twice", "spent", "kept_spent"}

\* But for `auto`, which chooses each time, what the task asks for tells where its
\* coroutine may be and which checkpoint it may have.
Chosen ==
  /\ run.pc \in {"agent"} \cup TalkPlaces => request.strategy = "agent"
  /\ run.pc \in {"map_plan"} \cup MapPlaces => request.strategy = "map_reduce"
  /\ run.pc \in {"mixture"} \cup MixturePlaces => request.strategy = "mixture"
  /\ run.pc \in {"single"} \cup SinglePlaces =>
       ~run.escalates /\ run.pc \notin {"rate_call", "escalate"}
  /\ task.agent # None => request.strategy = "agent"
  /\ task.mapped # None => request.strategy = "map_reduce"

\* A conversation that waits for its client is not taken up.
AgentWaits ==
  task.agent # None /\ ~task.agent.resumed =>
    run.pc = "idle" /\ task.status \in {"waiting_for_tools", "cancelled"}

\* What a mixture will report, and when its parts are still nothing.
Outputs(r) ==
  r.first.cost + r.first.synth + r.extra + r.cost + (IF r.degraded THEN 0 ELSE r.synth)
Counts(r) ==
  /\ {r.first.cost, r.first.synth, r.extra, r.cost, r.synth} \subseteq Nat
  /\ r.round = 1 => r.first.cost = 0 /\ r.first.synth = 0
  /\ r.round = 1 /\ r.pc \notin {"second", "deliver"} => r.extra = 0
  /\ r.pc \notin Synthesized \/ r.pc = "synth_call" => r.synth = 0
  /\ r.degraded => r.pc \in {"synth_done", "deliver"}
  /\ r.abandoned => r.pc = "deliver"

\* What the coroutine holds of the bill, and what its checkpoint holds of what was
\* kept.  The partial answers of an older conversion are forgotten, not unpaid.
Holds(r, spent) == r.spent \in Nat /\ r.docs <= docs /\ r.spent <= spent /\ (docs = 0 => r.spent = spent)
RunHolds ==
  /\ run.pc \in {"agent", "map_plan", "mixture"} => bill.spent = bill.kept_spent
  /\ run.pc \in TalkPlaces =>
       run.prior \in Nat /\ run.spent \in Nat /\ run.prior + run.spent = bill.spent
  /\ run.pc \in MapPlaces => Holds(run, bill.spent)
  /\ run.pc \in MixturePlaces =>
       /\ Counts(run) /\ Outputs(run) <= bill.spent
       /\ ~run.abandoned => Outputs(run) = bill.spent
RowHolds ==
  /\ task.status \in {"queued", "waiting_for_tools"} => bill.spent = bill.kept_spent
  /\ task.agent # None => task.agent.cost = bill.kept_spent
  /\ task.mapped # None => Holds(task.mapped, bill.kept_spent)
  /\ task.mixture # None =>
       Counts(task.mixture) /\ Outputs(task.mixture) = bill.kept_spent
  /\ task.agent = None /\ task.mapped = None /\ task.mixture = None => bill.kept_spent = 0

MoneyInvariant ==
  /\ DOMAIN bill = BillFields /\ bill.spent \in Nat /\ bill.kept_spent \in Nat
  /\ AgentWaits /\ ReportedIsPaid
  /\ request.strategy # "auto" => Chosen /\ RunHolds /\ RowHolds

\* --- What was paid for.

MapSteps == {"map", "merge", "final"}
TalkSteps == {"turn", "closing"}
MixtureSteps == {"propose", "synthesis", "judge"}
SingleSteps == {"single", "rate"}

\* The steps that a coroutine, or a checkpoint, has behind it: it pays them no more.
MapBehind(r, s) ==
  /\ s[1] \in MapSteps
  /\ s[1] = "map" =>
       s[2] \in 0..r.docs /\ s[3] \in Nat /\ (s[2] = r.docs => s[3] <= Len(r.partials))
  /\ s[1] = "merge" =>
       /\ s[2] \in 0..r.docs /\ s[3] \in Nat /\ s[4] \in Nat
       /\ s[2] = r.docs => s[3] <= r.rounds /\ (s[3] = r.rounds => s[4] <= r.merged)
  /\ s[1] = "final" => r.pc \in {"final_done", "final_save"}
TalkBehind(r, s) ==
  /\ s[1] \in TalkSteps
  /\ \/ s[1] = "turn" /\ s[2] \in 1..r.at
     \/ r.pc \in {"agent_exit", "agent_save"} /\ r.why = "answer"
MixtureBehind(r, s) ==
  /\ s[1] \in MixtureSteps
  /\ r.pc # "deliver" =>
       /\ s[1] = "propose" =>
            /\ s[2] \in 1..r.round
            /\ s[2] = r.round =>
                 \/ s[3] \in 1..Before(r.plan, r.wave)
                 \/ r.pc = "wave_call" /\ s[3] \in Slots(r.plan, r.wave) \ r.live
       /\ s[1] = "synthesis" =>
            s[2] \in 1..r.round /\ (s[2] = r.round => r.pc \in Synthesized \ {"synth_call"})
       /\ s[1] = "judge" => r.round = 2 \/ r.pc = "second"

\* What the coroutine counts with, and its checkpoints.
MapCounts(r) == r.docs \in 0..docs /\ r.rounds \in Nat /\ r.merged \in Nat
MixtureCounts(r) ==
  /\ r.plan \in Seq(Nat) /\ r.wave \in 1..(Len(r.plan) + 1)
  /\ r.pc = "wave_call" => r.wave <= Len(r.plan) /\ r.live \subseteq Slots(r.plan, r.wave)
RunCounted ==
  /\ run.pc \in MapPlaces => MapCounts(run)
  /\ run.pc \in TalkPlaces => run.at \in Nat
  /\ run.pc \in MixturePlaces => MixtureCounts(run)
RowCounted ==
  /\ task.mapped # None => MapCounts(task.mapped)
  /\ task.agent # None => task.agent.at \in Nat
  /\ task.mixture # None => MixtureCounts(task.mixture)

\* What was kept lies behind the checkpoint it was kept with.
KeptBehind ==
  \A s \in bill.kept :
    \/ s[1] \in {"map", "merge"} /\ task.mapped # None /\ MapBehind(task.mapped, s)
    \/ s[1] = "turn" /\ task.agent # None /\ s[2] \in 1..task.agent.at
    \/ s[1] \in {"propose", "synthesis"} /\ task.mixture # None /\ MixtureBehind(task.mixture, s)

\* What was paid lies behind the coroutine, or was kept by another strategy; without a
\* coroutine it was kept.
KeptOther(s, kinds) == s \in bill.kept /\ s[1] \notin kinds
Escalated(s) == s[1] \in SingleSteps /\ request.strategy # "mixture"
RunBehind(s) ==
  /\ run.pc \in {"single", "agent", "map_plan"} => s \in bill.kept
  /\ run.pc = "mixture" => s \in bill.kept \/ Escalated(s)
  /\ run.pc \in SinglePlaces =>
       \/ s \in bill.kept
       \/ s[1] = "single" /\ run.pc # "single_call"
       \/ s[1] = "rate" /\ run.pc \in {"single_save", "escalate"}
  /\ run.pc \in MapPlaces => KeptOther(s, MapSteps) \/ MapBehind(run, s)
  /\ run.pc \in TalkPlaces => KeptOther(s, TalkSteps) \/ TalkBehind(run, s)
  /\ run.pc \in MixturePlaces =>
       KeptOther(s, MixtureSteps) \/ Escalated(s) \/ MixtureBehind(run, s)
PaidBehind ==
  \A s \in bill.paid :
    RunBehind(s) /\ (task.status \in {"queued", "waiting_for_tools"} => s \in bill.kept)

PaidInvariant == PaidWorkIsKept /\ RunCounted /\ RowCounted /\ KeptBehind /\ PaidBehind

\* --- The types, and the plan.

ASSUME SizesAssumption ==
  /\ MaxDocs \in Nat /\ Interruptions \in Nat
  /\ \A r \in Requests :
       r.chunks \in Nat /\ \A i \in DOMAIN r.footprints : r.footprints[i].size \in Nat

\* Only a task that asks for a mixture says how its waves are planned, and a plan is
\* made once, with the sizes that could be read then.
PresetOf == IF request.strategy = "mixture" THEN request.preset ELSE "fast"
SchedulingOf == IF request.strategy = "mixture" THEN request.scheduling ELSE "sequential"
PlanMade(r) ==
  /\ r.known \in BOOLEAN /\ r.plan # Refused
  /\ r.plan = Plan(PresetOf, SchedulingOf, r.known, request.footprints)

MixtureTyped(r) ==
  /\ PlanMade(r) /\ r.live \subseteq 1..Len(request.footprints)
  /\ r.got \in Nat /\ r.first.got \in Nat
MapTyped(r) ==
  /\ r.total \in Nat /\ Len(r.partials) <= r.total
  /\ r.pc = "map_call" => Len(r.partials) < r.total
RunTyped ==
  /\ run.pc = "mixture" => run.preset = PresetOf /\ run.scheduling = SchedulingOf
  /\ run.pc \in MixturePlaces => MixtureTyped(run)
  /\ run.pc \in MapPlaces => MapTyped(run)
RowTyped ==
  /\ task.cancel \in BOOLEAN /\ (task.cancelled_at = None) = ~task.cancel
  /\ task.result = None \/ task.result.of \in Results
  /\ task.status = "completed" => task.result # None
  /\ task.mixture # None => MixtureTyped(task.mixture)
  /\ task.mapped # None => MapTyped(task.mapped)

TypesInvariant ==
  /\ RunTyped /\ RowTyped
  /\ bill.kept_spent <= bill.spent /\ bill.kept \subseteq bill.paid
  /\ docs \in 0..MaxDocs /\ left \in 0..Interruptions

\* --- The limit.

ASSUME LimitsAssumption ==
  /\ None \notin Nat /\ \A r \in Requests : r.max = None \/ r.max \in Nat
  /\ \E top \in Costs : \A c \in Costs : c <= top

\* `auto` answers for what it spends since it was last taken up, the others for all.
KeptBefore == IF request.strategy = "auto" THEN bill.kept_spent ELSE 0
Twice == 2 * request.max

\* Where a call may be made the limit is not yet spent, or only just.
SingleSpends ==
  /\ run.spent \in Nat /\ run.spent <= Twice
  /\ run.pc = "single_call" => run.spent = 0
  /\ run.pc \in {"single_done", "rate_call"} => run.spent <= request.max
  /\ IF request.strategy = "auto" THEN bill.spent = bill.kept_spent + run.spent
                                  ELSE bill.spent <= Twice * docs + run.spent
TalkSpends ==
  /\ run.spent \in Nat /\ bill.spent = bill.kept_spent + run.spent
  /\ run.spent <= request.max + (IF run.pc \in {"turn", "turn_call", "agent_ask", "closing_call"}
                                 THEN 0 ELSE MaxOf(Costs))
MapSpends ==
  /\ run.spent \in Nat /\ run.spent <= Twice /\ bill.spent <= Twice * run.docs + run.spent
  /\ run.pc \in {"map_call", "merge_call", "final_call"} => run.spent <= request.max

\* The proposals of a wave that have answered leave the others their shares.
WaveSpends(r, share) ==
  r.limit \in Nat /\ Outputs(r) * share + Cardinality(r.live) * r.limit <= r.max * share
\* A mixture that begins with less, because something was spent before, spends so much
\* less; only the judge is paid beyond that, once.
MixtureSpends(r) ==
  /\ r.max \in Nat /\ r.max <= request.max /\ (request.strategy # "auto" => r.max = request.max)
  /\ Counts(r) /\ bill.spent + r.max = KeptBefore + request.max + Outputs(r)
  /\ Outputs(r) <= (IF r.pc = "second" THEN 2 * r.max ELSE r.max)
  /\ r.pc = "wave_call" => WaveSpends(r, r.plan[r.wave])

RunSpends ==
  /\ run.pc \in {"single", "agent", "map_plan"} => bill.spent = bill.kept_spent
  /\ run.pc \in {"single"} \cup SinglePlaces => request.strategy # "agent"
  /\ run.pc = "single" /\ request.strategy # "auto" => bill.spent <= Twice * docs
  /\ run.pc \in SinglePlaces => SingleSpends
  /\ run.pc \in TalkPlaces => TalkSpends
  /\ run.pc \in {"map_plan"} \cup MapPlaces => request.strategy # "auto"
  /\ run.pc \in MapPlaces => MapSpends
  /\ run.pc = "mixture" =>
       /\ run.max \in Nat /\ run.max <= request.max
       /\ request.strategy # "auto" => run.max = request.max
       /\ task.mixture = None => bill.spent + run.max = KeptBefore + request.max
  /\ run.pc \in MixturePlaces /\ run.pc # "deliver" => MixtureSpends(run)
  /\ run.pc = "deliver" => bill.spent <= KeptBefore + Twice
RowSpends ==
  /\ task.status \in {"queued", "waiting_for_tools"} => bill.spent = bill.kept_spent
  /\ task.mapped # None =>
       /\ request.strategy # "auto" /\ task.mapped.spent <= Twice
       /\ bill.kept_spent <= Twice * task.mapped.docs + task.mapped.spent
  /\ task.mixture # None => task.mixture.max = request.max /\ Outputs(task.mixture) <= request.max

SpendingInvariant == SpendingIsBounded /\ (request.max # None => RunSpends /\ RowSpends)
=============================================================================
