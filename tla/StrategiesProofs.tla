-------------------------- MODULE StrategiesProofs --------------------------
(***************************************************************************)
(* What a task promises whatever strategy the coordinator runs it with,    *)
(* for any requests, prices, evidence and number of interruptions.         *)
(*                                                                         *)
(* The ways in which a step leaves a task (gone on, given way, ended) come *)
(* first, then the steps of each strategy, then all of them together.      *)
(***************************************************************************)
EXTENDS StrategiesInvariant, WavePlanProofs

----------------------------------------------------------------------------
(* Where a coroutine is.                                                   *)

\* The places of the strategies are different places.
LEMMA PlacesApart ==
  ASSUME NEW pc
  PROVE  /\ pc \in MapPlaces =>
              pc \notin SinglePlaces \cup TalkPlaces \cup MixturePlaces
                         \cup {"idle", "single", "mixture", "agent", "map_plan", "agent_save"}
         /\ pc \in SinglePlaces =>
              pc \notin MapPlaces \cup TalkPlaces \cup MixturePlaces
                         \cup {"idle", "single", "mixture", "agent", "map_plan", "agent_save", "final_save"}
         /\ pc \in TalkPlaces =>
              pc \notin MapPlaces \cup SinglePlaces \cup MixturePlaces
                         \cup {"idle", "single", "mixture", "agent", "map_plan", "final_save"}
         /\ pc \in MixturePlaces =>
              pc \notin MapPlaces \cup SinglePlaces \cup TalkPlaces
                         \cup {"idle", "single", "mixture", "agent", "map_plan", "agent_save", "final_save"}
         /\ pc \in {"idle", "single", "mixture", "agent", "map_plan"} =>
              pc \notin MapPlaces \cup SinglePlaces \cup TalkPlaces \cup MixturePlaces
         /\ pc \in Asking => pc \in MixturePlaces
BY DEF MapPlaces, SinglePlaces, TalkPlaces, MixturePlaces, Synthesized, Asking

\* The place of a coroutine tells its fields.
LEMMA FieldsOf ==
  ASSUME RunShape
  PROVE  /\ run.pc \in {"idle", "map_plan", "agent"} => DOMAIN run = {"pc"}
         /\ run.pc = "single" => DOMAIN run = {"pc", "escalates"}
         /\ run.pc \in SinglePlaces => DOMAIN run = {"pc", "escalates", "spent"}
         /\ run.pc \in MapPlaces => DOMAIN run = MapFields
         /\ run.pc \in TalkPlaces => DOMAIN run = TalkFields
         /\ run.pc = "mixture" => DOMAIN run = {"pc", "max", "preset", "scheduling"}
         /\ run.pc \in MixturePlaces => DOMAIN run = MixtureFields
<1> QED BY PlacesApart DEF RunShape

----------------------------------------------------------------------------
(* Ways to leave a step.                                                   *)

\* The row changes its status, and what it delivers stays.
RowKeeps(status) ==
  /\ DOMAIN task' = RowFields
  /\ task'.status = status /\ task'.cancel = task.cancel /\ task'.cancelled_at = task.cancelled_at
  /\ task'.agent = task.agent /\ task'.mapped = task.mapped /\ task'.mixture = task.mixture
  /\ task'.result = task.result

LEMMA StatusWritten ==
  ASSUME DOMAIN task = RowFields, NEW status
  PROVE  /\ task' = [task EXCEPT !.status = status] => RowKeeps(status)
         /\ \A code : task' = [task EXCEPT !.status = status, !.error = code] => RowKeeps(status)
         /\ task' = task => RowKeeps(task.status)
BY DEF RowKeeps, RowFields

LEMMA CheckpointsStay ==
  ASSUME NEW status, RowKeeps(status), status \in {task.status, "queued", "failed", "cancelled", "active"},
         CheckpointsHeld, UNCHANGED request
  PROVE  CheckpointsHeld'
<1>1. /\ task'.status = status /\ task'.agent = task.agent /\ task'.mapped = task.mapped /\ task'.mixture = task.mixture
      /\ request' = request
  BY DEF RowKeeps
<1> QED BY <1>1 DEF CheckpointsHeld, OfOne, Rests, Quorum

\* A result that stays keeps what was promised of it, if the row neither completes nor
\* waits for its client.
LEMMA ResultStays ==
  ASSUME NEW status, RowKeeps(status), status \notin {"completed", "waiting_for_tools"},
         ResultInvariant, UNCHANGED request
  PROVE  ResultInvariant'
<1>1. /\ task'.result = task.result /\ request' = request
      /\ task'.status \notin {"completed", "waiting_for_tools"}
  BY DEF RowKeeps
<1>2. QuorumHeld'
  BY <1>1 DEF ResultInvariant, QuorumHeld, Quorum
<1>3. CancelEndsRun'
  BY <1>1 DEF CancelEndsRun
<1> QED BY <1>1, <1>2, <1>3 DEF ResultInvariant

\* A coroutine that is gone owes nothing.
LEMMA IdleOwesNothing ==
  ASSUME run' = Idle
  PROVE  RunInvariant' /\ run'.pc = "idle"
<1>1. run'.pc = "idle" /\ DOMAIN run' = {"pc"}
  BY DEF Idle
<1>2. run'.pc \notin MapPlaces \cup SinglePlaces \cup TalkPlaces \cup MixturePlaces
  BY <1>1, PlacesApart
<1>3. RunShape' /\ RunTalks' /\ RunMaps' /\ RunRests' /\ RunIsAsked' /\ RunCancelled'
  BY <1>1, <1>2, PlacesApart DEF RunShape, RunTalks, RunMaps, RunRests, RunIsAsked, RunCancelled
<1> QED BY <1>1, <1>3 DEF RunInvariant

\* The coroutine ends, or is dropped, and the row does not complete.
LEMMA Ends ==
  ASSUME CoordinatorInvariant, run' = Idle, UNCHANGED <<request, docs>>,
         NEW status \in {"queued", "failed", "cancelled"}, RowKeeps(status)
  PROVE  CoordinatorInvariant'
<1>1. RunInvariant' /\ run'.pc = "idle"
  BY IdleOwesNothing
<1>2. CheckpointsHeld'
  BY CheckpointsStay DEF CoordinatorInvariant, RowInvariant
<1>3. ResultInvariant'
  BY ResultStays DEF CoordinatorInvariant
<1>4. RowInvariant'
  BY <1>1, <1>2 DEF CoordinatorInvariant, RowInvariant, RowKeeps
<1> QED BY <1>1, <1>3, <1>4 DEF CoordinatorInvariant

LEMMA EndsAsKeeps ==
  ASSUME CoordinatorInvariant, NEW status \in {"queued", "failed", "cancelled"}, EndsAs(status)
  PROVE  CoordinatorInvariant'
<1>1. RowKeeps(status)
  BY StatusWritten DEF CoordinatorInvariant, RowInvariant, EndsAs, Writes
<1> QED BY <1>1, Ends DEF EndsAs

LEMMA EndsWithKeeps ==
  ASSUME CoordinatorInvariant, NEW code, EndsWith(code)
  PROVE  CoordinatorInvariant'
<1>1. RowKeeps("failed")
  BY StatusWritten DEF CoordinatorInvariant, RowInvariant, EndsWith, WritesError
<1> QED BY <1>1, Ends DEF EndsWith

LEMMA FailsKeeps ==
  ASSUME CoordinatorInvariant, NEW code, Fails(code)
  PROVE  CoordinatorInvariant'
<1>1. PICK status \in {"queued", "failed", "cancelled"} : RowKeeps(status)
  BY StatusWritten
    DEF CoordinatorInvariant, RowInvariant, Fails, Writes, WritesError, RetriesAfterOutage
<1> QED BY <1>1, Ends DEF Fails

\* The coroutine goes on, and the row is left alone or says so.
LEMMA GoesOnKeeps ==
  ASSUME CoordinatorInvariant, UNCHANGED <<request, docs>>, task' = task \/ Writes("active"),
         run.pc # "idle", run'.pc # "idle", RunInvariant'
  PROVE  CoordinatorInvariant'
<1>1. PICK status \in {task.status, "active"} : RowKeeps(status)
  BY StatusWritten DEF CoordinatorInvariant, RowInvariant, Writes
<1>2. status \in {"active", "cancelled"}
  BY <1>1 DEF CoordinatorInvariant, RowInvariant
<1>3. CheckpointsHeld'
  BY <1>1, CheckpointsStay DEF CoordinatorInvariant, RowInvariant
<1>4. ResultInvariant'
  BY <1>1, <1>2, ResultStays DEF CoordinatorInvariant
<1>5. RowInvariant'
  BY <1>1, <1>2, <1>3 DEF CoordinatorInvariant, RowInvariant, RowKeeps
<1> QED BY <1>4, <1>5 DEF CoordinatorInvariant

\* What a coroutine among the chunks must still hold.
LEMMA MapGoesOn ==
  ASSUME CoordinatorInvariant, UNCHANGED <<request, docs>>, task' = task \/ Writes("active"),
         run.pc \in MapPlaces \cup {"map_plan"},
         run'.pc \in MapPlaces, DOMAIN run' = MapFields, OfOne(run)',
         task.cancel /\ run'.pc = "final_save" => task'.status = "cancelled"
  PROVE  CoordinatorInvariant'
<1>1. /\ run'.pc \notin SinglePlaces \cup TalkPlaces \cup MixturePlaces
                         \cup {"idle", "single", "mixture", "agent", "map_plan", "agent_save"}
      /\ run.pc \notin {"idle", "mixture"} \cup MixturePlaces
  BY PlacesApart
<1>2. request'.strategy # "mixture"
  BY <1>1 DEF CoordinatorInvariant, RunInvariant, RunIsAsked
<1>3. task'.cancel = task.cancel
  BY DEF CoordinatorInvariant, RowInvariant, Writes, RowFields
<1>4. /\ "rate_call" \in SinglePlaces /\ "single_save" \in SinglePlaces
      /\ "escalate" \in SinglePlaces /\ "agent_exit" \in TalkPlaces
      /\ {"synth_ask", "gate", "judge_call", "deliver"} \subseteq MixturePlaces
  BY DEF SinglePlaces, TalkPlaces, MixturePlaces, Synthesized
<1>5. RunShape' /\ RunTalks' /\ RunMaps' /\ RunRests' /\ RunIsAsked'
  BY <1>1, <1>2, <1>4, PlacesApart DEF RunShape, RunTalks, RunMaps, RunRests, RunIsAsked
<1>6. task'.cancel => RunCancelled'
  BY <1>1, <1>3, <1>4 DEF RunCancelled
<1> QED BY <1>1, <1>5, <1>6, GoesOnKeeps DEF RunInvariant
\* A single answer.
LEMMA SingleGoesOn ==
  ASSUME CoordinatorInvariant, UNCHANGED <<request, docs>>, task' = task \/ Writes("active"),
         run.pc \in SinglePlaces \cup {"single"},
         run'.pc \in SinglePlaces, DOMAIN run' = {"pc", "escalates", "spent"},
         task.cancel /\ run'.pc \in {"rate_call", "single_save", "escalate"} =>
           task'.status = "cancelled"
  PROVE  CoordinatorInvariant'
<1>1. /\ run'.pc \notin MapPlaces \cup TalkPlaces \cup MixturePlaces
                         \cup {"idle", "single", "mixture", "agent", "map_plan", "agent_save", "final_save"}
      /\ run.pc \notin {"idle", "mixture"} \cup MixturePlaces
  BY PlacesApart
<1>2. request'.strategy # "mixture"
  BY <1>1 DEF CoordinatorInvariant, RunInvariant, RunIsAsked
<1>3. task'.cancel = task.cancel
  BY DEF CoordinatorInvariant, RowInvariant, Writes, RowFields
<1>4. /\ "agent_exit" \in TalkPlaces
      /\ {"synth_ask", "gate", "judge_call", "deliver"} \subseteq MixturePlaces
  BY DEF TalkPlaces, MixturePlaces, Synthesized
<1>5. RunShape' /\ RunTalks' /\ RunMaps' /\ RunRests' /\ RunIsAsked'
  BY <1>1, <1>2, <1>4, PlacesApart DEF RunShape, RunTalks, RunMaps, RunRests, RunIsAsked
<1>6. task'.cancel => RunCancelled'
  BY <1>1, <1>3, <1>4 DEF RunCancelled
<1> QED BY <1>1, <1>5, <1>6, GoesOnKeeps DEF RunInvariant

\* A conversation.
LEMMA TalkGoesOn ==
  ASSUME CoordinatorInvariant, UNCHANGED <<request, docs>>, task' = task \/ Writes("active"),
         run.pc \in TalkPlaces \cup {"agent"},
         run'.pc \in TalkPlaces, DOMAIN run' = TalkFields, RunTalks',
         task.cancel /\ run'.pc = "agent_save" => task.cancelled_at \in LateCancels
  PROVE  CoordinatorInvariant'
<1>1. /\ run'.pc \notin MapPlaces \cup SinglePlaces \cup MixturePlaces
                         \cup {"idle", "single", "mixture", "agent", "map_plan", "final_save"}
      /\ run.pc \notin {"idle", "mixture"} \cup MixturePlaces
  BY PlacesApart
<1>2. request'.strategy # "mixture"
  BY <1>1 DEF CoordinatorInvariant, RunInvariant, RunIsAsked
<1>3. task'.cancel = task.cancel /\ task'.cancelled_at = task.cancelled_at
  BY DEF CoordinatorInvariant, RowInvariant, Writes, RowFields
<1>4. /\ "rate_call" \in SinglePlaces /\ "single_save" \in SinglePlaces
      /\ "escalate" \in SinglePlaces
      /\ {"synth_ask", "gate", "judge_call", "deliver"} \subseteq MixturePlaces
  BY DEF SinglePlaces, MixturePlaces, Synthesized
<1>5. RunShape' /\ RunMaps' /\ RunRests' /\ RunIsAsked'
  BY <1>1, <1>2, <1>4, PlacesApart DEF RunShape, RunMaps, RunRests, RunIsAsked
<1>6. task'.cancel => RunCancelled'
  BY <1>1, <1>3, <1>4 DEF RunCancelled
<1> QED BY <1>1, <1>5, <1>6, GoesOnKeeps DEF RunInvariant

\* A mixture.
LEMMA MixtureGoesOn ==
  ASSUME CoordinatorInvariant, UNCHANGED <<request, docs>>, task' = task \/ Writes("active"),
         run.pc \in MixturePlaces \cup {"mixture"},
         run'.pc \in MixturePlaces, DOMAIN run' = MixtureFields, Rests(run)',
         run'.pc \in Asking => request.strategy = "mixture",
         task.cancel /\ run'.pc \in {"synth_ask", "gate", "judge_call", "deliver"} => CancelledLate,
         task.cancel /\ run'.round = 2 => task.cancelled_at \in LateCancels
  PROVE  CoordinatorInvariant'
<1>1. /\ run'.pc \notin MapPlaces \cup SinglePlaces \cup TalkPlaces
                         \cup {"idle", "single", "mixture", "agent", "map_plan", "agent_save", "final_save"}
      /\ run.pc # "idle"
  BY PlacesApart
<1>3. /\ task'.cancel = task.cancel /\ task'.cancelled_at = task.cancelled_at
      /\ task'.mixture = task.mixture
  BY DEF CoordinatorInvariant, RowInvariant, Writes, RowFields
<1>4. /\ "rate_call" \in SinglePlaces /\ "single_save" \in SinglePlaces
      /\ "escalate" \in SinglePlaces /\ "agent_exit" \in TalkPlaces
  BY DEF SinglePlaces, TalkPlaces
<1>5. RunShape' /\ RunTalks' /\ RunMaps' /\ RunRests' /\ RunIsAsked'
  BY <1>1, <1>4, PlacesApart DEF RunShape, RunTalks, RunMaps, RunRests, RunIsAsked
<1>6. task'.cancel => RunCancelled'
  BY <1>1, <1>3, <1>4 DEF RunCancelled, CancelledLate, AtGate
<1> QED BY <1>1, <1>5, <1>6, GoesOnKeeps DEF RunInvariant

\* A mixture is about to begin, in place of another run.
LEMMA MixtureBegins ==
  ASSUME CoordinatorInvariant, UNCHANGED <<request, docs>>, task' = task \/ Writes("active"),
         run.pc \in SinglePlaces,
         NEW max, NEW preset, NEW scheduling, run' = ToMixture(max, preset, scheduling)
  PROVE  CoordinatorInvariant'
<1>1. run'.pc = "mixture" /\ DOMAIN run' = {"pc", "max", "preset", "scheduling"}
  BY DEF ToMixture
<1>2. /\ run'.pc \notin MapPlaces \cup SinglePlaces \cup TalkPlaces \cup MixturePlaces
      /\ run.pc \notin {"idle", "mixture"} \cup MixturePlaces
  BY <1>1, PlacesApart
<1>3. request.strategy # "mixture" /\ task.mixture = None
  BY <1>2 DEF CoordinatorInvariant, RunInvariant, RunIsAsked, RowInvariant, CheckpointsHeld
<1>4. task'.mixture = task.mixture
  BY DEF CoordinatorInvariant, RowInvariant, Writes, RowFields
<1>5. RunShape' /\ RunTalks' /\ RunMaps' /\ RunRests' /\ RunIsAsked'
  BY <1>1, <1>2, PlacesApart DEF RunShape, RunTalks, RunMaps, RunRests, RunIsAsked
<1>6. RunCancelled'
  BY <1>1, <1>2, <1>3, <1>4 DEF RunCancelled, AtGate
<1> QED BY <1>1, <1>2, <1>5, <1>6, GoesOnKeeps DEF RunInvariant

\* The documents fit after all.
LEMMA SingleBegins ==
  ASSUME CoordinatorInvariant, UNCHANGED <<request, docs, task>>, run.pc = "map_plan",
         run' = [pc |-> "single", escalates |-> FALSE]
  PROVE  CoordinatorInvariant'
<1>1. run'.pc = "single" /\ DOMAIN run' = {"pc", "escalates"}
  OBVIOUS
<1>2. /\ run'.pc \notin MapPlaces \cup SinglePlaces \cup TalkPlaces \cup MixturePlaces
      /\ run.pc \notin {"idle", "mixture"} \cup MixturePlaces
  BY <1>1, PlacesApart
<1>3. request'.strategy # "mixture"
  BY <1>2 DEF CoordinatorInvariant, RunInvariant, RunIsAsked
<1>5. RunShape' /\ RunTalks' /\ RunMaps' /\ RunRests' /\ RunIsAsked'
  BY <1>1, <1>2, <1>3, PlacesApart DEF RunShape, RunTalks, RunMaps, RunRests, RunIsAsked
<1>6. RunCancelled'
  BY <1>1, <1>2 DEF RunCancelled
<1> QED BY <1>1, <1>2, <1>5, <1>6, GoesOnKeeps DEF RunInvariant

\* An answer is delivered.
LEMMA CompletesKeeps ==
  ASSUME CoordinatorInvariant, UNCHANGED <<request, docs>>, run' = Idle, NEW result,
         task' = [task EXCEPT !.status = "completed", !.result = result],
         result.of = "chunks" =>
           \A i, j \in DOMAIN result.partials : result.partials[i] = result.partials[j],
         result.of = "mixture" => result.got >= Quorum,
         task.cancel => CancelledLate
  PROVE  CoordinatorInvariant'
<1>1. RunInvariant' /\ run'.pc = "idle"
  BY IdleOwesNothing
<1>2. /\ DOMAIN task' = RowFields /\ task'.status = "completed" /\ task'.result = result
      /\ task'.cancel = task.cancel /\ task'.cancelled_at = task.cancelled_at
      /\ task'.agent = task.agent /\ task'.mapped = task.mapped /\ task'.mixture = task.mixture
  BY DEF CoordinatorInvariant, RowInvariant, RowFields
<1>3. CheckpointsHeld'
  BY <1>2 DEF CoordinatorInvariant, RowInvariant, CheckpointsHeld, OfOne, Rests, Quorum
<1>4. RowInvariant'
  BY <1>1, <1>2, <1>3 DEF CoordinatorInvariant, RowInvariant
<1>5. QuorumHeld'
  BY <1>2 DEF QuorumHeld, Quorum
<1>6. CancelEndsRun'
  BY <1>2 DEF CancelEndsRun, CancelledLate, AtGate
<1>7. ResultInvariant'
  BY <1>2, <1>5, <1>6 DEF ResultInvariant
<1> QED BY <1>1, <1>4, <1>7 DEF CoordinatorInvariant

\* A run gives way with a checkpoint that can be taken up.
LEMMA YieldsKeeps ==
  ASSUME CoordinatorInvariant, NEW column \in {"agent", "mapped", "mixture"}, NEW state,
         Yields(column, state),
         column = "agent" =>
           DOMAIN state = {"at", "open", "resumed", "cost"} /\ (state.resumed => state.open = {}),
         column = "mapped" => DOMAIN state = MapFields /\ state.pc \in {"map", "merge"} /\ OfOne(state),
         column = "mixture" =>
           /\ DOMAIN state = MixtureFields /\ state.pc \in {"wave", "gate"}
           /\ state.round = 1 /\ Rests(state) /\ request.strategy = "mixture"
  PROVE  CoordinatorInvariant'
<1>1. RunInvariant' /\ run'.pc = "idle" /\ request' = request /\ docs' = docs
  BY IdleOwesNothing DEF Yields
<1>2. /\ DOMAIN task' = RowFields /\ task'.status = "queued" /\ task'.result = task.result
      /\ task'.agent = IF column = "agent" THEN state ELSE task.agent
      /\ task'.mapped = IF column = "mapped" THEN state ELSE task.mapped
      /\ task'.mixture = IF column = "mixture" THEN state ELSE task.mixture
  BY DEF CoordinatorInvariant, RowInvariant, RowFields, Yields
<1>3. CheckpointsHeld'
  BY <1>1, <1>2 DEF CoordinatorInvariant, RowInvariant, CheckpointsHeld, OfOne, Rests, Quorum
<1>4. RowInvariant'
  BY <1>1, <1>2, <1>3 DEF CoordinatorInvariant, RowInvariant
<1>5. QuorumHeld'
  BY <1>1, <1>2 DEF CoordinatorInvariant, ResultInvariant, QuorumHeld, Quorum
<1>6. CancelEndsRun'
  BY <1>2 DEF CancelEndsRun
<1>7. ResultInvariant'
  BY <1>2, <1>5, <1>6 DEF CoordinatorInvariant, ResultInvariant
<1> QED BY <1>1, <1>4, <1>7 DEF CoordinatorInvariant

----------------------------------------------------------------------------
(* The client, the clock and the process.                                  *)

LEMMA TimesOutKeeps ==
  ASSUME CoordinatorInvariant, TimesOut
  PROVE  CoordinatorInvariant'
BY EndsAsKeeps, EndsWithKeeps DEF TimesOut

LEMMA CrashKeeps ==
  ASSUME CoordinatorInvariant, Crash
  PROVE  CoordinatorInvariant'
<1>1. PICK status \in {"queued", "failed", "cancelled"} : RowKeeps(status)
  BY StatusWritten DEF CoordinatorInvariant, RowInvariant, Crash, Writes, WritesError
<1> QED BY <1>1, Ends DEF Crash

LEMMA ReconvertKeeps ==
  ASSUME CoordinatorInvariant, Reconvert
  PROVE  CoordinatorInvariant'
<1>1. UNCHANGED <<request, task, run>> /\ docs' = docs + 1
  BY DEF Reconvert
<1>2. RunInvariant'
  BY <1>1 DEF CoordinatorInvariant, RunInvariant, RunShape, RunTalks, RunMaps, OfOne, RunRests, Rests,
    Quorum, RunIsAsked, RunCancelled, CancelledLate, AtGate
<1>3. RowInvariant'
  BY <1>1 DEF CoordinatorInvariant, RowInvariant, CheckpointsHeld, OfOne, Rests, Quorum
<1>4. ResultInvariant'
  BY <1>1 DEF CoordinatorInvariant, ResultInvariant, QuorumHeld, Quorum, CancelEndsRun
<1> QED BY <1>2, <1>3, <1>4 DEF CoordinatorInvariant

\* Where a cancellation meets the run is where it may still end well.
LEMMA PlaceIsLate ==
  ASSUME CoordinatorInvariant
  PROVE  /\ run.pc \in {"agent_save", "synth_ask", "gate", "judge_call", "deliver"} =>
              Place \in LateCancels
         /\ run.pc \in MixturePlaces /\ run.round = 2 => Place \in LateCancels
         /\ Place.pc = run.pc
<1>1. Place.pc = run.pc
  BY DEF Place
<1>2. CASE run.pc = "agent_save"
  <2>1. DOMAIN run = TalkFields
    BY <1>2, FieldsOf DEF CoordinatorInvariant, RunInvariant, TalkPlaces
  <2>2. Place = [pc |-> "agent_save", round |-> 1]
    BY <1>2, <2>1 DEF Place, TalkFields
  <2> QED BY <1>2, <2>2 DEF LateCancels, MixturePlaces, Synthesized
<1>3. CASE run.pc \in MixturePlaces
  <2>1. DOMAIN run = MixtureFields /\ Rests(run)
    BY <1>3, FieldsOf DEF CoordinatorInvariant, RunInvariant, RunRests
  <2>2. Place = [pc |-> run.pc, round |-> run.round]
    BY <2>1 DEF Place, MixtureFields
  <2>3. CASE run.round = 1
    BY <1>1, <1>3, <2>2, <2>3 DEF LateCancels, MixturePlaces, Synthesized
  <2>4. CASE run.round = 2
    BY <1>1, <2>1, <2>2, <2>4 DEF LateCancels, Rests, SecondPlaces
  <2> QED BY <2>1, <2>3, <2>4 DEF Rests
<1> QED BY <1>1, <1>2, <1>3 DEF MixturePlaces, Synthesized

LEMMA CancelKeeps ==
  ASSUME CoordinatorInvariant, Cancel
  PROVE  CoordinatorInvariant'
<1>1. UNCHANGED <<request, run, docs>> /\ task.status \notin Final
  BY DEF Cancel
<1>2. /\ DOMAIN task' = RowFields /\ task'.status = "cancelled" /\ task'.result = task.result
      /\ task'.cancelled_at = IF task.cancel THEN task.cancelled_at ELSE Place
      /\ task'.agent = task.agent /\ task'.mapped = task.mapped /\ task'.mixture = task.mixture
  BY DEF CoordinatorInvariant, RowInvariant, RowFields, Cancel
<1>3. RunCancelled'
  <2>1. CASE task.cancel
    BY <1>1, <1>2, <2>1 DEF CoordinatorInvariant, RunInvariant, RunCancelled, CancelledLate, AtGate
  <2>2. CASE ~task.cancel
    BY <1>1, <1>2, <2>2, PlaceIsLate DEF RunCancelled, CancelledLate
  <2> QED BY <2>1, <2>2
<1>4. RunInvariant'
  BY <1>1, <1>3 DEF CoordinatorInvariant, RunInvariant, RunShape, RunTalks, RunMaps, OfOne, RunRests,
    Rests, Quorum, RunIsAsked
<1>5. RowInvariant'
  BY <1>1, <1>2 DEF CoordinatorInvariant, RowInvariant, CheckpointsHeld, OfOne, Rests, Quorum
<1>6. ResultInvariant'
  BY <1>1, <1>2 DEF CoordinatorInvariant, ResultInvariant, QuorumHeld, Quorum, CancelEndsRun
<1> QED BY <1>4, <1>5, <1>6 DEF CoordinatorInvariant

LEMMA ToolResultsKeeps ==
  ASSUME CoordinatorInvariant, NEW provided, ToolResults(provided)
  PROVE  CoordinatorInvariant'
<1>1. /\ UNCHANGED <<request, run, docs>> /\ task.status = "waiting_for_tools"
      /\ provided = task.agent.open
  BY DEF ToolResults, Accepted
<1>2. DOMAIN task.agent = {"at", "open", "resumed", "cost"} /\ run.pc = "idle"
  BY <1>1 DEF CoordinatorInvariant, RowInvariant, CheckpointsHeld
<1>3. /\ DOMAIN task' = RowFields /\ task'.status = "queued" /\ task'.result = task.result
      /\ task'.agent = [task.agent EXCEPT !.open = task.agent.open \ provided, !.resumed = TRUE]
      /\ task'.mapped = task.mapped /\ task'.mixture = task.mixture
  <2> DEFINE agent == [task.agent EXCEPT !.open = task.agent.open \ provided, !.resumed = TRUE]
  <2>1. task' = [task EXCEPT !.status = "queued", !.agent = agent]
    BY DEF ToolResults
  <2> HIDE DEF agent
  <2>2. /\ DOMAIN task' = RowFields /\ task'.status = "queued" /\ task'.result = task.result
        /\ task'.agent = agent /\ task'.mapped = task.mapped /\ task'.mixture = task.mixture
    BY <2>1 DEF CoordinatorInvariant, RowInvariant, RowFields
  <2> QED BY <2>2 DEF agent
<1>4. DOMAIN task'.agent = {"at", "open", "resumed", "cost"} /\ task'.agent.open = {}
  BY <1>1, <1>2, <1>3
<1>5. RowInvariant'
  BY <1>1, <1>2, <1>3, <1>4
    DEF CoordinatorInvariant, RowInvariant, CheckpointsHeld, OfOne, Rests, Quorum
<1>6. RunInvariant'
  BY <1>1, <1>2, PlacesApart DEF CoordinatorInvariant, RunInvariant, RunShape, RunTalks, RunMaps,
    RunRests, RunIsAsked, RunCancelled
<1>7. ResultInvariant'
  BY <1>1, <1>3 DEF CoordinatorInvariant, ResultInvariant, QuorumHeld, Quorum, CancelEndsRun
<1> QED BY <1>5, <1>6, <1>7 DEF CoordinatorInvariant

----------------------------------------------------------------------------
(* The strategy of `auto`.                                                 *)

\* Rates are compared across: g of t against h of u.
LEMMA ProductsGrow ==
  ASSUME NEW a \in Nat, NEW b \in Nat, NEW c \in Nat \ {0}
  PROVE  (a >= b <=> a * c >= b * c) /\ (a > b <=> a * c > b * c)
<1>1. ASSUME NEW x \in Nat, NEW y \in Nat, x > y PROVE x * c > y * c
  <2>1. PICK d \in Nat \ {0} : x = y + d
    <3>1. x - y \in Nat \ {0} /\ x = y + (x - y)
      BY <1>1
    <3> QED BY <3>1
  <2>2. x * c = y * c + d * c /\ d * c > 0 /\ y * c \in Nat
    BY <2>1
  <2>3. d * c \in Nat
    BY <2>1
  <2> QED BY <2>2, <2>3
<1>2. a * c \in Nat /\ b * c \in Nat
  OBVIOUS
<1>3. a > b \/ a = b \/ b > a
  OBVIOUS
<1>4. CASE a > b
  BY <1>1, <1>2, <1>4
<1>5. CASE a = b
  BY <1>2, <1>5
<1>6. CASE b > a
  BY <1>1, <1>2, <1>6
<1> QED BY <1>3, <1>4, <1>5, <1>6

LEMMA RatesChain ==
  ASSUME NEW g1 \in Nat, NEW g2 \in Nat, NEW g3 \in Nat,
         NEW t1 \in Nat \ {0}, NEW t2 \in Nat \ {0}, NEW t3 \in Nat \ {0},
         g1 * t2 >= g2 * t1, g2 * t3 >= g3 * t2
  PROVE  /\ g1 * t3 >= g3 * t1
         /\ g1 * t2 > g2 * t1 \/ g2 * t3 > g3 * t2 => g1 * t3 > g3 * t1
<1> DEFINE a == g1 * t2   b == g2 * t1   c == g2 * t3   d == g3 * t2   e == g1 * t3   f == g3 * t1
<1>1. a \in Nat /\ b \in Nat /\ c \in Nat /\ d \in Nat /\ e \in Nat /\ f \in Nat
  OBVIOUS
<1>2. a * t3 = e * t2 /\ b * t3 = c * t1 /\ d * t1 = f * t2
  OBVIOUS
<1>3. a >= b /\ c >= d
  OBVIOUS
<1> HIDE DEF a, b, c, d, e, f
<1>4. a * t3 >= b * t3 /\ (a > b => a * t3 > b * t3)
  BY <1>1, <1>3, ProductsGrow
<1>5. c * t1 >= d * t1 /\ (c > d => c * t1 > d * t1)
  BY <1>1, <1>3, ProductsGrow
<1> DEFINE p == e * t2   q == b * t3   r == f * t2
<1>6. p \in Nat /\ q \in Nat /\ r \in Nat
  BY <1>1
<1>7. p >= q /\ q >= r /\ (a > b => p > q) /\ (c > d => q > r)
  BY <1>2, <1>4, <1>5
<1> HIDE DEF p, q, r
<1>8. p >= r /\ (a > b \/ c > d => p > r)
  BY <1>6, <1>7
<1>9. e >= f /\ (a > b \/ c > d => e > f)
  BY <1>1, <1>8, ProductsGrow DEF p, r
<1> QED BY <1>9 DEF a, b, c, d, e, f

\* The better rate, the more evidence, the earlier.
Better(g, t, f, h, u, e) ==
  \/ g * u > h * t
  \/ g * u = h * t /\ (t > u \/ (t = u /\ f < e))

LEMMA BetterChains ==
  ASSUME NEW g1 \in Nat, NEW g2 \in Nat, NEW g3 \in Nat,
         NEW t1 \in Nat \ {0}, NEW t2 \in Nat \ {0}, NEW t3 \in Nat \ {0},
         NEW f1 \in Nat, NEW f2 \in Nat, NEW f3 \in Nat,
         Better(g1, t1, f1, g2, t2, f2), Better(g2, t2, f2, g3, t3, f3)
  PROVE  Better(g1, t1, f1, g3, t3, f3)
<1> DEFINE a == g1 * t2   b == g2 * t1   c == g2 * t3   d == g3 * t2   e == g1 * t3   f == g3 * t1
<1>1. a \in Nat /\ b \in Nat /\ c \in Nat /\ d \in Nat /\ e \in Nat /\ f \in Nat
  OBVIOUS
<1>2. /\ a > b \/ (a = b /\ (t1 > t2 \/ (t1 = t2 /\ f1 < f2)))
      /\ c > d \/ (c = d /\ (t2 > t3 \/ (t2 = t3 /\ f2 < f3)))
  BY DEF Better
<1>3. a >= b /\ c >= d
  <2> HIDE DEF a, b, c, d
  <2> QED BY <1>1, <1>2
<1>4. e >= f /\ (a > b \/ c > d => e > f)
  BY <1>3, RatesChain
<1> HIDE DEF a, b, c, d, e, f
<1>5. e > f \/ (e = f /\ (t1 > t3 \/ (t1 = t3 /\ f1 < f3)))
  BY <1>1, <1>2, <1>3, <1>4
<1> QED BY <1>5 DEF Better, e, f

\* Of three that are ordered one is before the others.
Ranks(B, met) ==
  /\ \A s, t \in met : s # t => <<s, t>> \in B \/ <<t, s>> \in B
  /\ \A s, t, u \in met : s # t /\ t # u /\ <<s, t>> \in B /\ <<t, u>> \in B => <<s, u>> \in B

LEMMA OneIsBest ==
  ASSUME NEW met \in SUBSET {"single", "agent", "mixture"}, met # {}, NEW B, Ranks(B, met)
  PROVE  \E s \in met : \A t \in met \ {s} : <<s, t>> \in B
<1> USE DEF Ranks
<1>1. CASE \E s \in met : met = {s}
  BY <1>1
<1>2. CASE \E s, t \in met : s # t /\ met = {s, t}
  BY <1>2
<1>3. CASE met = {"single", "agent", "mixture"}
  <2> DEFINE beats(s, t) == <<s, t>> \in B
  <2>1. \A s, t \in met : s # t => beats(s, t) \/ beats(t, s)
    OBVIOUS
  <2>2. \A s, t, u \in met : s # t /\ t # u /\ beats(s, t) /\ beats(t, u) => beats(s, u)
    OBVIOUS
  <2> HIDE DEF beats
  <2>3. \E s \in met : \A t \in met \ {s} : beats(s, t)
    BY <1>3, <2>1, <2>2
  <2> QED BY <2>3 DEF beats
<1>4. ASSUME NEW a, NEW b, NEW c, met \subseteq {a, b, c}, c \notin met, a # b
      PROVE  \/ \E s \in met : met = {s}
             \/ \E s, t \in met : s # t /\ met = {s, t}
  <2>1. CASE a \in met /\ b \in met
    <3>1. met = {a, b}
      BY <1>4, <2>1
    <3> QED BY <1>4, <2>1, <3>1
  <2>2. CASE a \notin met
    <3>1. met = {b}
      BY <1>4, <2>2
    <3> QED BY <3>1
  <2>3. CASE b \notin met
    <3>1. met = {a}
      BY <1>4, <2>3
    <3> QED BY <3>1
  <2> QED BY <2>1, <2>2, <2>3
<1>5. CASE "single" \notin met
  BY <1>1, <1>2, <1>4, <1>5
<1>6. CASE "agent" \notin met
  BY <1>1, <1>2, <1>4, <1>6
<1>7. CASE "mixture" \notin met
  BY <1>1, <1>2, <1>4, <1>7
<1>8. "single" \in met /\ "agent" \in met /\ "mixture" \in met => met = {"single", "agent", "mixture"}
  OBVIOUS
<1> QED BY <1>3, <1>5, <1>6, <1>7, <1>8

\* BestBySuccess names a strategy that was tried: of any two one is the better.
LEMMA BestIsMet ==
  ASSUME NEW cases \in Seq(Case), cases # << >>
  PROVE  BestBySuccess(cases) \in {cases[i].final : i \in DOMAIN cases}
<1> DEFINE Tried(s) == Cardinality(TriedWith(cases, s))
           Good(s) == Cardinality({i \in TriedWith(cases, s) : cases[i].ok})
           First(s) == CHOOSE i \in DOMAIN cases :
                         cases[i].final = s /\ \A j \in 1..(i - 1) : cases[j].final # s
           met == {cases[i].final : i \in DOMAIN cases}
           B == {p \in met \X met :
                   Better(Good(p[1]), Tried(p[1]), First(p[1]), Good(p[2]), Tried(p[2]), First(p[2]))}
<1>1. /\ DOMAIN cases = 1..Len(cases) /\ Len(cases) \in Nat /\ 1 \in DOMAIN cases
      /\ \A i \in DOMAIN cases : cases[i] \in Case
  OBVIOUS
<1>2. met \in SUBSET {"single", "agent", "mixture"} /\ met # {}
  BY <1>1 DEF Case, Concrete
<1>3. IsFiniteSet(DOMAIN cases)
  BY <1>1, FS_Interval
<1>4. ASSUME NEW s \in met PROVE Tried(s) \in Nat \ {0} /\ Good(s) \in Nat
  <2>1. TriedWith(cases, s) \in SUBSET DOMAIN cases
    BY DEF TriedWith
  <2>2. IsFiniteSet(TriedWith(cases, s)) /\ TriedWith(cases, s) # {}
    BY <1>3, <2>1, FS_Subset DEF TriedWith
  <2>3. {i \in TriedWith(cases, s) : cases[i].ok} \in SUBSET TriedWith(cases, s)
    OBVIOUS
  <2>4. IsFiniteSet({i \in TriedWith(cases, s) : cases[i].ok})
    BY <2>2, <2>3, FS_Subset
  <2>5. Tried(s) \in Nat /\ Good(s) \in Nat
    BY <2>2, <2>4, FS_CardinalityType
  <2>6. Tried(s) # 0
    BY <2>2, FS_EmptySet
  <2> QED BY <2>5, <2>6
<1>5. ASSUME NEW s \in met PROVE First(s) \in DOMAIN cases /\ cases[First(s)].final = s
  <2> DEFINE S == {i \in DOMAIN cases : cases[i].final = s}
  <2>1. S \in SUBSET Nat /\ S # {}
    BY <1>1
  <2>2. PICK i \in S : \A j \in S : i <= j
    BY <2>1, SomethingLeast
  <2>3. ASSUME NEW j \in 1..(i - 1) PROVE cases[j].final # s
    <3>1. i \in Nat /\ j \in Nat /\ j < i /\ j \in DOMAIN cases
      BY <1>1
    <3> QED BY <2>2, <3>1
  <2>4. \E k \in DOMAIN cases : cases[k].final = s /\ \A j \in 1..(k - 1) : cases[j].final # s
    BY <2>3
  <2> QED BY <2>4
<1>0. DOMAIN cases \in SUBSET Nat
  BY <1>1
<1> HIDE DEF First
<1>6. \A s \in met : First(s) \in Nat
  BY <1>0, <1>5
<1>7. \A s, t \in met : First(s) = First(t) => s = t
  BY <1>5
<1>8. \A s, t \in met :
        <<s, t>> \in B <=> Better(Good(s), Tried(s), First(s), Good(t), Tried(t), First(t))
  OBVIOUS
<1> HIDE DEF Tried, Good, B, met
<1>9. \A s, t \in met : s # t => <<s, t>> \in B \/ <<t, s>> \in B
  <2> SUFFICES ASSUME NEW s \in met, NEW t \in met, s # t PROVE <<s, t>> \in B \/ <<t, s>> \in B
    OBVIOUS
  <2>1. Good(s) * Tried(t) \in Nat /\ Good(t) * Tried(s) \in Nat
    BY <1>4
  <2> DEFINE a == Good(s) * Tried(t)  b == Good(t) * Tried(s)
  <2>2. /\ a > b \/ (a = b /\ (Tried(s) > Tried(t) \/ (Tried(s) = Tried(t) /\ First(s) < First(t))))
           => <<s, t>> \in B
        /\ b > a \/ (b = a /\ (Tried(t) > Tried(s) \/ (Tried(t) = Tried(s) /\ First(t) < First(s))))
           => <<t, s>> \in B
    BY <1>8 DEF Better
  <2>3. a \in Nat /\ b \in Nat /\ First(s) \in Nat /\ First(t) \in Nat /\ First(s) # First(t)
        /\ Tried(s) \in Nat /\ Tried(t) \in Nat
    BY <1>4, <1>6, <1>7, <2>1
  <2> HIDE DEF a, b
  <2> QED BY <2>2, <2>3
<1>10. \A s, t, u \in met : s # t /\ t # u /\ <<s, t>> \in B /\ <<t, u>> \in B => <<s, u>> \in B
  <2> SUFFICES ASSUME NEW s \in met, NEW t \in met, NEW u \in met, <<s, t>> \in B, <<t, u>> \in B
               PROVE  <<s, u>> \in B
    OBVIOUS
  <2>1. /\ Tried(s) \in Nat \ {0} /\ Tried(t) \in Nat \ {0} /\ Tried(u) \in Nat \ {0}
        /\ Good(s) \in Nat /\ Good(t) \in Nat /\ Good(u) \in Nat
        /\ First(s) \in Nat /\ First(t) \in Nat /\ First(u) \in Nat
    BY <1>4, <1>6
  <2>2. /\ Better(Good(s), Tried(s), First(s), Good(t), Tried(t), First(t))
        /\ Better(Good(t), Tried(t), First(t), Good(u), Tried(u), First(u))
    BY <1>8
  <2>3. Better(Good(s), Tried(s), First(s), Good(u), Tried(u), First(u))
    BY <2>1, <2>2, BetterChains
  <2> QED BY <1>8, <2>3
<1>11. \E s \in met : \A t \in met \ {s} : <<s, t>> \in B
  <2>1. Ranks(B, met)
    BY <1>9, <1>10 DEF Ranks
  <2> QED BY <1>2, <2>1, OneIsBest
<1>12. \E s \in met : \A t \in met \ {s} :
         Better(Good(s), Tried(s), First(s), Good(t), Tried(t), First(t))
  BY <1>8, <1>11
<1>13. BestBySuccess(cases) = CHOOSE s \in met : \A t \in met \ {s} :
         Better(Good(s), Tried(s), First(s), Good(t), Tried(t), First(t))
  BY DEF BestBySuccess, Better, Tried, Good, First, met
<1>14. BestBySuccess(cases) \in met
  BY <1>12, <1>13
<1> QED BY <1>14 DEF met

\* The router chooses a strategy that the coordinator has, whatever the evidence says:
\* _resolve_auto_strategy never leaves a task without one.
THEOREM RouteIsConcrete ==
  ASSUME NEW signals, NEW cases \in Seq(Case)
  PROVE  Route(signals, cases) \in Concrete
<1>1. \A s : StrategyForSignals(s) \in Concrete
  BY DEF StrategyForSignals, Concrete
<1>2. Classify(signals) \in Concrete
  BY <1>1 DEF Classify
<1>3. Latest(cases) \in Seq(Case)
  <2> DEFINE n == IF Len(cases) < CasesRead THEN Len(cases) ELSE CasesRead
  <2>1. n \in 0..Len(cases)
    BY RatesAreRates
  <2>2. SubSeq(cases, 1, n) \in Seq(Case)
    BY <2>1
  <2> QED BY <2>2 DEF Latest
<1>4. ASSUME NEW h \in Concrete, NEW past \in Seq(Case) PROVE Recommended(h, past) \in Concrete
  <2>1. CASE past = << >>
    <3>1. Len(past) < MinCases
      BY <2>1, RatesAreRates
    <3> QED BY <3>1, RatesAreRates DEF Recommended
  <2>2. CASE past # << >>
    <3>1. BestBySuccess(past) \in {past[i].final : i \in DOMAIN past}
      BY <2>2, BestIsMet
    <3>2. PICK i \in DOMAIN past : BestBySuccess(past) = past[i].final
      BY <3>1
    <3>3. past[i] \in Case
      OBVIOUS
    <3>4. BestBySuccess(past) \in Concrete
      BY <3>2, <3>3 DEF Case
    <3> QED BY <3>4 DEF Recommended, Concrete
  <2> QED BY <2>1, <2>2
<1> QED BY <1>2, <1>3, <1>4 DEF Route

----------------------------------------------------------------------------
(* Taken up.                                                               *)

LEMMA BeginsSomewhere ==
  /\ \A s \in {"single", "map_reduce", "agent", "mixture"} :
       \/ s # "mixture" /\ Begin(s).pc = "single" /\ DOMAIN Begin(s) = {"pc", "escalates"}
       \/ s # "mixture" /\ Begin(s).pc \in {"map_plan", "agent"} /\ DOMAIN Begin(s) = {"pc"}
       \/ Begin(s).pc = "mixture" /\ DOMAIN Begin(s) = {"pc", "max", "preset", "scheduling"}
  /\ \A s \in Concrete :
       \/ BeginAuto(s).pc = "single" /\ DOMAIN BeginAuto(s) = {"pc", "escalates"}
       \/ BeginAuto(s).pc = "agent" /\ DOMAIN BeginAuto(s) = {"pc"}
       \/ BeginAuto(s).pc = "mixture" /\ DOMAIN BeginAuto(s) = {"pc", "max", "preset", "scheduling"}
BY DEF Begin, BeginAuto, ToMixture, Concrete

LEMMA DispatchKeeps ==
  ASSUME CoordinatorInvariant, Dispatch
  PROVE  CoordinatorInvariant'
<1>1. CASE task.cancel /\ EndsAs("cancelled")
  BY <1>1, EndsAsKeeps
<1>2. CASE ~task.cancel /\ request.tabular /\ EndsWith("TABULAR_ATTACHMENT_REQUIRES_SANDBOX")
  BY <1>2, EndsWithKeeps
<1>3. CASE /\ ~task.cancel /\ ~request.tabular
           /\ Writes("active") /\ UNCHANGED bill
           /\ \/ request.strategy # "auto" /\ GoesOn(Begin(request.strategy))
              \/ /\ request.strategy = "auto"
                 /\ \E cases \in Histories : GoesOn(BeginAuto(Route(request.signals, cases)))
  <2>1. request.strategy \in Concrete \cup {"map_reduce", "auto"} /\ UNCHANGED <<request, docs>>
    BY <1>3, RequestsAssumption DEF CoordinatorInvariant, RowInvariant, GoesOn
  <2>2. \/ run'.pc = "single" /\ DOMAIN run' = {"pc", "escalates"} /\ request.strategy # "mixture"
        \/ run'.pc \in {"map_plan", "agent"} /\ DOMAIN run' = {"pc"} /\ request.strategy # "mixture"
        \/ run'.pc = "mixture" /\ DOMAIN run' = {"pc", "max", "preset", "scheduling"}
    <3>1. CASE request.strategy # "auto" /\ run' = Begin(request.strategy)
      BY <2>1, <3>1, BeginsSomewhere DEF Concrete
    <3>2. CASE /\ request.strategy = "auto"
               /\ \E cases \in Histories : run' = BeginAuto(Route(request.signals, cases))
      <4>1. PICK cases \in Histories : run' = BeginAuto(Route(request.signals, cases))
        BY <3>2
      <4>2. Route(request.signals, cases) \in Concrete
        <5>1. cases \in Seq(Case)
          BY RequestsAssumption
        <5> QED BY <5>1, RouteIsConcrete
      <4> QED BY <3>2, <4>1, <4>2, BeginsSomewhere
    <3> QED BY <1>3, <3>1, <3>2 DEF GoesOn
  <2>3. /\ run'.pc \notin MapPlaces \cup SinglePlaces \cup TalkPlaces \cup MixturePlaces
        /\ run'.pc # "idle"
    BY <2>2, PlacesApart
  <2>4. RowKeeps("active")
    BY <1>3, StatusWritten DEF CoordinatorInvariant, RowInvariant, Writes
  <2>5. RunShape' /\ RunTalks' /\ RunMaps' /\ RunRests' /\ RunIsAsked'
    BY <2>1, <2>2, <2>3, PlacesApart DEF RunShape, RunTalks, RunMaps, RunRests, RunIsAsked
  <2>6. RunInvariant'
    BY <1>3, <2>4, <2>5 DEF RunInvariant, RowKeeps
  <2>7. CheckpointsHeld'
    BY <2>1, <2>4, CheckpointsStay DEF CoordinatorInvariant, RowInvariant
  <2>8. RowInvariant'
    BY <2>1, <2>3, <2>4, <2>7 DEF CoordinatorInvariant, RowInvariant, RowKeeps
  <2>9. ResultInvariant'
    BY <2>1, <2>4, ResultStays DEF CoordinatorInvariant
  <2> QED BY <2>6, <2>8, <2>9 DEF CoordinatorInvariant
<1> QED BY <1>1, <1>2, <1>3 DEF Dispatch

----------------------------------------------------------------------------
(* One answer, perhaps rated.                                              *)

LEMMA CompletesSingleKeeps ==
  ASSUME CoordinatorInvariant, NEW here, NEW result, CompletesSingle(here, result),
         result.of = "chunks" =>
           \A i, j \in DOMAIN result.partials : result.partials[i] = result.partials[j],
         result.of # "mixture",
         task.cancel => task.status = "cancelled"
  PROVE  CoordinatorInvariant'
<1>1. CASE task.status = "cancelled" /\ Fails("TASK_CANCELLED")
  BY <1>1, FailsKeeps
<1>2. CASE /\ task.status # "cancelled"
           /\ task' = [task EXCEPT !.status = "completed", !.result = result]
           /\ run' = Idle /\ UNCHANGED <<request, docs, bill, left>>
  BY <1>2, CompletesKeeps
<1> QED BY <1>1, <1>2 DEF CompletesSingle

LEMMA SingleKeeps ==
  ASSUME CoordinatorInvariant, SingleNext
  PROVE  CoordinatorInvariant'
<1> DEFINE Fields == {"pc", "escalates", "spent"}
<1>1. /\ run.pc \in SinglePlaces => DOMAIN run = Fields
      /\ run.pc = "single" => DOMAIN run = {"pc", "escalates"}
      /\ task.cancel /\ run.pc \in {"rate_call", "single_save", "escalate"} => task.status = "cancelled"
  BY FieldsOf DEF CoordinatorInvariant, RunInvariant, RunCancelled
<1>2. CASE SelectSingle
  <2>1. CASE Fails("PROVIDER_ERROR")
    BY <2>1, FailsKeeps
  <2>2. CASE /\ Writes("active") /\ UNCHANGED bill
             /\ GoesOn([pc |-> "single_call", escalates |-> run.escalates, spent |-> 0])
    <3>1. run'.pc = "single_call" /\ DOMAIN run' = Fields
      BY <2>2 DEF GoesOn
    <3> QED BY <1>2, <2>2, <3>1, SingleGoesOn DEF SelectSingle, GoesOn, SinglePlaces
  <2> QED BY <1>2, <2>1, <2>2 DEF SelectSingle
<1>3. CASE SingleAnswered
  <2>1. PICK c : run' = [run EXCEPT !.pc = "single_done", !.spent = c]
    BY <1>3 DEF SingleAnswered, GoesOn
  <2>2. run'.pc = "single_done" /\ DOMAIN run' = Fields /\ run.pc \in SinglePlaces
    BY <1>1, <1>3, <2>1 DEF SingleAnswered, SinglePlaces
  <2> QED BY <1>3, <2>2, SingleGoesOn DEF SingleAnswered, GoesOn, SinglePlaces
<1>4. CASE SingleFailed
  BY <1>4, FailsKeeps DEF SingleFailed
<1>5. CASE SingleKept
  <2>1. CASE task.cancel /\ EndsAs("cancelled")
    BY <2>1, EndsAsKeeps
  <2>2. CASE /\ ~task.cancel /\ UNCHANGED <<task, bill>>
             /\ GoesOn([run EXCEPT !.pc = IF run.escalates THEN "rate_call" ELSE "single_save"])
    <3>1. run.pc \in SinglePlaces
      BY <1>5 DEF SingleKept, SinglePlaces
    <3>2. run'.pc \in {"rate_call", "single_save"} /\ DOMAIN run' = Fields
      BY <1>1, <2>2, <3>1 DEF GoesOn
    <3> QED BY <2>2, <3>1, <3>2, SingleGoesOn DEF GoesOn, SinglePlaces
  <2> QED BY <1>5, <2>1, <2>2 DEF SingleKept
<1>6. CASE SaveSingle
  <2>1. CompletesSingle("single_save", [of |-> "single"]) /\ run.pc = "single_save"
    BY <1>6 DEF SaveSingle, CompletesSingle
  <2> DEFINE result == [of |-> "single"]
  <2>2. result.of = "single"
    OBVIOUS
  <2>3. CompletesSingle("single_save", result)
    BY <2>1
  <2> HIDE DEF result
  <2> QED BY <1>1, <2>1, <2>2, <2>3, CompletesSingleKeeps
<1>7. CASE Rated
  <2>1. PICK c \in Costs, next \in {"single_save", "escalate"} :
          run' = [run EXCEPT !.pc = next, !.spent = @ + c]
    BY <1>7, Zenon DEF Rated, GoesOn
  <2>2. run'.pc \in {"single_save", "escalate"} /\ DOMAIN run' = Fields /\ run.pc \in SinglePlaces
    BY <1>1, <1>7, <2>1 DEF Rated, SinglePlaces
  <2> QED BY <1>1, <1>7, <2>2, SingleGoesOn DEF Rated, GoesOn, SinglePlaces
<1>8. CASE RatingFailed
  <2>1. run'.pc = "single_save" /\ DOMAIN run' = Fields /\ run.pc \in SinglePlaces
    BY <1>1, <1>8 DEF RatingFailed, GoesOn, SinglePlaces
  <2> QED BY <1>1, <1>8, <2>1, SingleGoesOn DEF RatingFailed, GoesOn, SinglePlaces
<1>9. CASE Escalate
  <2>1. CASE Fails("BUDGET_EXCEEDED")
    BY <2>1, FailsKeeps
  <2>2. CASE /\ UNCHANGED <<task, bill>>
             /\ GoesOn(ToMixture(Remaining(run.spent, request.max), "fast", "sequential"))
    BY <1>9, <2>2, MixtureBegins DEF Escalate, GoesOn, SinglePlaces
  <2> QED BY <1>9, <2>1, <2>2 DEF Escalate
<1> QED BY <1>2, <1>3, <1>4, <1>5, <1>6, <1>7, <1>8, <1>9 DEF SingleNext

----------------------------------------------------------------------------
(* Chunk by chunk.                                                         *)

\* A step among the chunks that moves on with the same partial answers.
LEMMA MapMoves ==
  ASSUME CoordinatorInvariant, UNCHANGED <<request, docs>>, task' = task \/ Writes("active"),
         run.pc \in MapPlaces, run'.pc \in MapPlaces, DOMAIN run' = MapFields,
         run'.partials = run.partials, run'.docs = run.docs,
         task.cancel /\ run'.pc = "final_save" => task'.status = "cancelled"
  PROVE  CoordinatorInvariant'
<1>1. OfOne(run)'
  BY DEF CoordinatorInvariant, RunInvariant, RunMaps, OfOne
<1> QED BY <1>1, MapGoesOn

LEMMA GuardedKeeps ==
  ASSUME CoordinatorInvariant, NEW here \in {"map", "merge"}, NEW there \in {"map_call", "merge_call"},
         Guarded(here, there)
  PROVE  CoordinatorInvariant'
<1>1. CASE task.cancel /\ EndsAs("cancelled")
  BY <1>1, EndsAsKeeps
<1>2. CASE Fails("BUDGET_EXCEEDED")
  BY <1>2, FailsKeeps
<1>3. CASE GoesOn([run EXCEPT !.pc = there]) /\ UNCHANGED <<task, bill>>
  <2>1. run.pc \in MapPlaces
    BY DEF Guarded, MapPlaces
  <2>2. DOMAIN run = MapFields
    BY <2>1, FieldsOf DEF CoordinatorInvariant, RunInvariant
  <2>3. /\ run'.pc = there /\ DOMAIN run' = MapFields
        /\ run'.partials = run.partials /\ run'.docs = run.docs
    BY <1>3, <2>2 DEF GoesOn, MapFields
  <2>4. there \in MapPlaces /\ there # "final_save"
    BY DEF MapPlaces
  <2> QED BY <1>3, <2>1, <2>3, <2>4, MapMoves DEF GoesOn
<1> QED BY <1>1, <1>2, <1>3 DEF Guarded

LEMMA AnswerKeptKeeps ==
  ASSUME CoordinatorInvariant, NEW here \in {"map_done", "merge_done"},
         NEW asks \in {"map_ask", "merge_ask"}, NEW next \in {"map", "merge"},
         AnswerKept(here, asks, next)
  PROVE  CoordinatorInvariant'
<1>1. CASE task.cancel /\ EndsAs("cancelled")
  BY <1>1, EndsAsKeeps
<1>2. CASE /\ Writes("active") /\ UNCHANGED bill
           /\ GoesOn([run EXCEPT !.pc = IF MayYield("map_reduce") THEN asks ELSE next])
  <2>1. run.pc \in MapPlaces
    BY DEF AnswerKept, MapPlaces
  <2>2. DOMAIN run = MapFields
    BY <2>1, FieldsOf DEF CoordinatorInvariant, RunInvariant
  <2>3. /\ run'.pc \in {asks, next} /\ DOMAIN run' = MapFields
        /\ run'.partials = run.partials /\ run'.docs = run.docs
    BY <1>2, <2>2 DEF GoesOn, MapFields
  <2>4. run'.pc \in MapPlaces /\ run'.pc # "final_save"
    BY <2>3 DEF MapPlaces
  <2> QED BY <1>2, <2>1, <2>3, <2>4, MapMoves DEF GoesOn
<1> QED BY <1>1, <1>2 DEF AnswerKept

LEMMA MapAsksKeeps ==
  ASSUME CoordinatorInvariant,
         AskAfterChunk \/ AskAfterGroup
  PROVE  CoordinatorInvariant'
<1>1. run.pc \in MapPlaces
  BY DEF AskAfterChunk, AskAfterGroup, AsksToYield, MapPlaces
<1>2. DOMAIN run = MapFields
  BY <1>1, FieldsOf DEF CoordinatorInvariant, RunInvariant
<1>3. /\ run'.pc \in {"map", "map_save", "merge", "merge_save"} /\ DOMAIN run' = MapFields
      /\ run'.partials = run.partials /\ run'.docs = run.docs
  BY <1>2 DEF AskAfterChunk, AskAfterGroup, AsksToYield, MapFields
<1>4. run'.pc \in MapPlaces /\ run'.pc # "final_save"
  BY <1>3 DEF MapPlaces
<1> QED BY <1>1, <1>3, <1>4, MapMoves DEF AskAfterChunk, AskAfterGroup, AsksToYield

LEMMA MapYieldsKeeps ==
  ASSUME CoordinatorInvariant,
         YieldAfterChunk \/ YieldAfterGroup
  PROVE  CoordinatorInvariant'
<1>1. PICK phase \in {"map", "merge"} : Yields("mapped", KeptIn(phase))
  BY DEF YieldAfterChunk, YieldAfterGroup
<1>2. run.pc \in MapPlaces
  BY DEF YieldAfterChunk, YieldAfterGroup, MapPlaces
<1>3. DOMAIN run = MapFields /\ OfOne(run)
  BY <1>2, FieldsOf DEF CoordinatorInvariant, RunInvariant, RunMaps
<1>4. /\ DOMAIN KeptIn(phase) = MapFields /\ KeptIn(phase).pc = phase
      /\ KeptIn(phase).partials = run.partials /\ KeptIn(phase).docs = run.docs
  BY <1>3 DEF KeptIn, MapFields
<1>5. OfOne(KeptIn(phase))
  BY <1>3, <1>4 DEF OfOne
<1> QED BY <1>1, <1>4, <1>5, YieldsKeeps

\* A call paid among the chunks.
LEMMA AnsweredMoves ==
  ASSUME CoordinatorInvariant, NEW here, NEW step, NEW local, Answered(here, step, local),
         run.pc \in MapPlaces, DOMAIN local = MapFields,
         local.pc \in MapPlaces, local.pc # "final_save", OfOne(local)
  PROVE  CoordinatorInvariant'
<1>1. PICK c \in Costs : run' = [local EXCEPT !.spent = local.spent + c]
  BY DEF Answered, GoesOn
<1>2. /\ DOMAIN run' = MapFields /\ run'.pc = local.pc
      /\ run'.partials = local.partials /\ run'.docs = local.docs
  BY <1>1 DEF MapFields
<1>3. OfOne(run)'
  BY <1>2 DEF OfOne
<1> QED BY <1>2, <1>3, MapGoesOn DEF Answered, GoesOn

LEMMA ChunkAnsweredKeeps ==
  ASSUME CoordinatorInvariant, ChunkAnswered
  PROVE  CoordinatorInvariant'
<1> DEFINE local == [run EXCEPT !.pc = "map_done", !.partials = Append(@, run.docs)]
<1>1. Answered("map_call", <<"map", run.docs, Len(run.partials) + 1>>, local)
  BY DEF ChunkAnswered
<1>2. run.pc \in MapPlaces
  BY <1>1 DEF Answered, MapPlaces
<1>3. DOMAIN run = MapFields /\ OfOne(run)
  BY <1>2, FieldsOf DEF CoordinatorInvariant, RunInvariant, RunMaps
<1>4. /\ DOMAIN local = MapFields /\ local.pc = "map_done"
      /\ local.partials = Append(run.partials, run.docs) /\ local.docs = run.docs
  BY <1>3 DEF MapFields
<1>5. OfOne(local)
  <2> DEFINE p == Append(run.partials, run.docs)
  <2>1. /\ p \in Seq(Nat) /\ DOMAIN p = 1..(Len(run.partials) + 1)
        /\ DOMAIN run.partials = 1..Len(run.partials) /\ Len(run.partials) \in Nat
    BY <1>3 DEF OfOne
  <2>2. \A i \in DOMAIN p : p[i] = run.docs
    BY <1>3, <2>1 DEF OfOne
  <2> HIDE DEF p
  <2>3. local.partials = p /\ local.docs = run.docs /\ run.docs \in Nat
    BY <1>3, <1>4 DEF OfOne, p
  <2> QED BY <2>1, <2>2, <2>3 DEF OfOne
<1>6. "map_done" \in MapPlaces
  BY DEF MapPlaces
<1> HIDE DEF local
<1> QED BY <1>1, <1>2, <1>4, <1>5, <1>6, AnsweredMoves

\* The call that merges a group, and the one that answers.
LEMMA MergesAnsweredKeep ==
  ASSUME CoordinatorInvariant, GroupAnswered \/ LastAnswered
  PROVE  CoordinatorInvariant'
<1>1. run.pc \in MapPlaces
  BY DEF GroupAnswered, LastAnswered, Answered, MapPlaces
<1>2. DOMAIN run = MapFields /\ OfOne(run)
  BY <1>1, FieldsOf DEF CoordinatorInvariant, RunInvariant, RunMaps
<1>3. CASE GroupAnswered
  <2> DEFINE local == [run EXCEPT !.pc = "merge_done", !.merged = @ + 1]
  <2>1. PICK step : Answered("merge_call", step, local)
    BY <1>3 DEF GroupAnswered
  <2>2. /\ DOMAIN local = MapFields /\ local.pc = "merge_done"
        /\ local.partials = run.partials /\ local.docs = run.docs
    BY <1>2 DEF MapFields
  <2> HIDE DEF local
  <2>3. OfOne(local)
    BY <1>2, <2>2 DEF OfOne
  <2>4. "merge_done" \in MapPlaces
    BY DEF MapPlaces
  <2> QED BY <1>1, <2>1, <2>2, <2>3, <2>4, AnsweredMoves
<1>4. CASE LastAnswered
  <2> DEFINE local == [run EXCEPT !.pc = "final_done"]
  <2>1. PICK step : Answered("final_call", step, local)
    BY <1>4 DEF LastAnswered
  <2>2. /\ DOMAIN local = MapFields /\ local.pc = "final_done"
        /\ local.partials = run.partials /\ local.docs = run.docs
    BY <1>2 DEF MapFields
  <2> HIDE DEF local
  <2>3. OfOne(local)
    BY <1>2, <2>2 DEF OfOne
  <2>4. "final_done" \in MapPlaces
    BY DEF MapPlaces
  <2> QED BY <1>1, <2>1, <2>2, <2>3, <2>4, AnsweredMoves
<1> QED BY <1>3, <1>4

LEMMA ResumeChunksKeeps ==
  ASSUME CoordinatorInvariant, ResumeChunks
  PROVE  CoordinatorInvariant'
<1>1. /\ run.pc = "map_plan" /\ task.mapped # None /\ task.mapped.docs = docs
      /\ run' = [task.mapped EXCEPT !.docs = docs]
      /\ UNCHANGED <<request, docs>> /\ Writes("active")
  BY DEF ResumeChunks, Usable, SameChunks, Resumed, GoesOn
<1>2. DOMAIN task.mapped = MapFields /\ task.mapped.pc \in {"map", "merge"} /\ OfOne(task.mapped)
  BY <1>1 DEF CoordinatorInvariant, RowInvariant, CheckpointsHeld
<1>3. /\ DOMAIN run' = MapFields /\ run'.pc = task.mapped.pc /\ run'.docs = task.mapped.docs
      /\ run'.partials = task.mapped.partials
  BY <1>1, <1>2 DEF MapFields
<1>4. OfOne(run)'
  BY <1>2, <1>3 DEF OfOne
<1>5. run'.pc \in MapPlaces /\ run'.pc # "final_save"
  BY <1>2, <1>3 DEF MapPlaces
<1> QED BY <1>1, <1>3, <1>4, <1>5, MapGoesOn

LEMMA SplitDocumentsKeeps ==
  ASSUME CoordinatorInvariant, SplitDocuments
  PROVE  CoordinatorInvariant'
<1>1. CASE Writes("active") /\ GoesOn(Mapping("map")) /\ UNCHANGED bill
  <2>1. /\ run' = Mapping("map") /\ docs \in Nat
    BY <1>1 DEF GoesOn, CoordinatorInvariant, RowInvariant
  <2>2. /\ DOMAIN run' = MapFields /\ run'.pc = "map" /\ run'.docs = docs /\ run'.partials = << >>
    BY <2>1 DEF Mapping, MapFields
  <2>3. OfOne(run)'
    <3>1. << >> \in Seq(Nat) /\ DOMAIN << >> = {}
      OBVIOUS
    <3> QED BY <2>1, <2>2, <3>1 DEF OfOne
  <2> QED BY <1>1, <2>2, <2>3, MapGoesOn DEF SplitDocuments, GoesOn, MapPlaces
<1>2. CASE GoesOn([pc |-> "single", escalates |-> FALSE]) /\ UNCHANGED <<task, bill>>
  BY <1>2, SingleBegins DEF SplitDocuments, GoesOn
<1>3. CASE \E code \in PlanErrors : Fails(code)
  BY <1>3, FailsKeeps
<1> QED BY <1>1, <1>2, <1>3 DEF SplitDocuments

\* Rounds that merge, and their ends.
LEMMA RoundsKeep ==
  ASSUME CoordinatorInvariant, ChunksDone \/ ReduceRound \/ GroupsDone \/ LastCall \/ LastKept
  PROVE  CoordinatorInvariant'
<1>1. run.pc \in MapPlaces
  BY DEF ChunksDone, ReduceRound, GroupsDone, LastCall, LastKept, MapPlaces
<1>2. DOMAIN run = MapFields
  BY <1>1, FieldsOf DEF CoordinatorInvariant, RunInvariant
<1>3. CASE \E code : Fails(code)
  BY <1>3, FailsKeeps
<1>4. CASE EndsAs("cancelled")
  BY <1>4, EndsAsKeeps
<1>5. CASE ~ (\E code : Fails(code)) /\ ~ EndsAs("cancelled")
  <2>1. /\ run'.pc \in {"reduce", "final", "merge", "final_call", "final_save"}
        /\ DOMAIN run' = MapFields /\ run'.partials = run.partials /\ run'.docs = run.docs
        /\ run'.pc = "final_save" => ~task.cancel
    <3>1. CASE ChunksDone \/ GroupsDone
      <4>1. PICK n : run' = [run EXCEPT !.pc = "reduce", !.input = n]
        BY <3>1 DEF ChunksDone, GroupsDone, GoesOn
      <4> QED BY <1>2, <4>1 DEF MapFields
    <3>2. CASE ReduceRound
      <4>1. PICK g : run' = [run EXCEPT !.pc = IF g = 1 THEN "final" ELSE "merge",
                                        !.rounds = @ + 1, !.groups = g, !.merged = 0]
        BY <1>5, <3>2 DEF ReduceRound, GoesOn
      <4> QED BY <1>2, <4>1 DEF MapFields
    <3>3. CASE LastCall
      BY <1>2, <1>5, <3>3 DEF LastCall, GoesOn, MapFields
    <3>4. CASE LastKept
      BY <1>2, <1>5, <3>4 DEF LastKept, GoesOn, MapFields
    <3> QED BY <3>1, <3>2, <3>3, <3>4
  <2>2. run'.pc \in MapPlaces
    BY <2>1 DEF MapPlaces
  <2>3. UNCHANGED <<request, docs>> /\ (task' = task \/ Writes("active"))
    BY <1>5 DEF ChunksDone, ReduceRound, GroupsDone, LastCall, LastKept, GoesOn
  <2> QED BY <1>1, <2>1, <2>2, <2>3, MapMoves
<1> QED BY <1>3, <1>4, <1>5

LEMMA SaveSynthesisKeeps ==
  ASSUME CoordinatorInvariant, SaveSynthesis
  PROVE  CoordinatorInvariant'
<1> DEFINE result == [of |-> "chunks", partials |-> run.partials, cost |-> run.spent]
<1>1. CompletesSingle("final_save", result) /\ run.pc = "final_save"
  BY DEF SaveSynthesis, CompletesSingle
<1>2. OfOne(run) /\ (task.cancel => task.status = "cancelled")
  BY <1>1 DEF CoordinatorInvariant, RunInvariant, RunMaps, RunCancelled, MapPlaces
<1>3. result.of = "chunks" /\ result.partials = run.partials
  OBVIOUS
<1> HIDE DEF result
<1>4. \A i, j \in DOMAIN result.partials : result.partials[i] = result.partials[j]
  BY <1>2, <1>3 DEF OfOne
<1> QED BY <1>1, <1>2, <1>3, <1>4, CompletesSingleKeeps

LEMMA MapReduceKeeps ==
  ASSUME CoordinatorInvariant, MapReduceNext
  PROVE  CoordinatorInvariant'
<1>1. CASE ResumeChunks \/ SplitDocuments
  BY <1>1, ResumeChunksKeeps, SplitDocumentsKeeps
<1>2. CASE NextChunk \/ MergeGroup
  BY <1>2, GuardedKeeps DEF NextChunk, MergeGroup
<1>3. CASE ChunkAnswered \/ GroupAnswered \/ LastAnswered
  BY <1>3, ChunkAnsweredKeeps, MergesAnsweredKeep
<1>4. CASE ChunkKept \/ GroupKept
  BY <1>4, AnswerKeptKeeps DEF ChunkKept, GroupKept
<1>5. CASE AskAfterChunk \/ AskAfterGroup \/ YieldAfterChunk \/ YieldAfterGroup
  BY <1>5, MapAsksKeeps, MapYieldsKeeps
<1>6. CASE ChunksDone \/ ReduceRound \/ GroupsDone \/ LastCall \/ LastKept
  BY <1>6, RoundsKeep
<1>7. CASE SaveSynthesis
  BY <1>7, SaveSynthesisKeeps
<1>8. CASE CallFailed
  BY <1>8, FailsKeeps DEF CallFailed
<1> QED BY <1>1, <1>2, <1>3, <1>4, <1>5, <1>6, <1>7, <1>8 DEF MapReduceNext

----------------------------------------------------------------------------
(* Turns with tools.                                                       *)

\* A conversation is begun anew, or taken up where every call has its answer.
LEMMA SelectAgentKeeps ==
  ASSUME CoordinatorInvariant, SelectAgent
  PROVE  CoordinatorInvariant'
<1>1. CASE Fails("PROVIDER_ERROR")
  BY <1>1, FailsKeeps
<1>2. CASE Writes("active") /\ GoesOn(Talk(task.agent)) /\ UNCHANGED bill
  <2>1. /\ DOMAIN run' = TalkFields /\ run'.pc = "turn"
        /\ run'.open = IF task.agent # None /\ task.agent.resumed THEN task.agent.open ELSE {}
    BY <1>2 DEF GoesOn, Talk, TalkFields
  <2>2. run'.open = {}
    BY <2>1 DEF CoordinatorInvariant, RowInvariant, CheckpointsHeld
  <2>3. RunTalks' /\ run'.pc \in TalkPlaces /\ run'.pc # "agent_save"
    BY <2>1, <2>2 DEF RunTalks, TalkPlaces
  <2> QED BY <1>2, <2>1, <2>3, TalkGoesOn DEF SelectAgent, GoesOn
<1> QED BY <1>1, <1>2 DEF SelectAgent

\* A step inside the conversation, by the place it comes from and the place it goes to.
LEMMA TalkMoves ==
  ASSUME CoordinatorInvariant, UNCHANGED <<request, docs>>, task' = task \/ Writes("active"),
         run.pc \in TalkPlaces, DOMAIN run' = TalkFields,
         \/ run'.pc \in TalkPlaces \ {"agent_exit", "agent_save"} /\ run'.open = {}
         \/ run'.pc = "tools"
         \/ run'.pc = "agent_exit" /\ (run'.why = "yield" => run'.open = {})
         \/ ~task.cancel /\ run'.pc = "agent_save" /\ (run'.why = "yield" => run'.open = {})
  PROVE  CoordinatorInvariant'
<1>1. RunTalks'
  BY DEF RunTalks
<1>2. run'.pc \in TalkPlaces /\ (task.cancel => run'.pc # "agent_save")
  BY DEF TalkPlaces
<1> QED BY <1>1, <1>2, TalkGoesOn

\* The turn is over: the answer is there, or the loop is left for another reason.
LEMMA LeavesTo ==
  ASSUME DOMAIN run = TalkFields, NEW why
  PROVE  /\ DOMAIN Leaves(why) = TalkFields /\ Leaves(why).pc = "agent_exit"
         /\ Leaves(why).why = why /\ Leaves(why).open = run.open
         /\ \A c : LET paid == [Leaves(why) EXCEPT !.spent = Leaves(why).spent + c]
                   IN DOMAIN paid = TalkFields /\ paid.pc = "agent_exit"
                        /\ paid.why = why /\ paid.open = run.open
BY DEF Leaves, TalkFields

LEMMA AgentKeeps ==
  ASSUME CoordinatorInvariant, AgentNext
  PROVE  CoordinatorInvariant'
<1>1. /\ run.pc \in TalkPlaces => DOMAIN run = TalkFields
      /\ run.pc \in TalkPlaces \ {"tools", "agent_exit", "agent_save"} => run.open = {}
      /\ run.pc \in {"agent_exit", "agent_save"} /\ run.why = "yield" => run.open = {}
      /\ task.cancel /\ run.pc = "agent_save" => task.cancelled_at \in LateCancels
  BY FieldsOf DEF CoordinatorInvariant, RunInvariant, RunTalks, RunCancelled
<1>2. CASE SelectAgent
  BY <1>2, SelectAgentKeeps
<1>3. CASE NextTurn
  <2>1. run.pc \in TalkPlaces \ {"tools", "agent_exit", "agent_save"}
    BY <1>3 DEF NextTurn, TalkPlaces
  <2>2. CASE task.cancel /\ EndsAs("cancelled")
    BY <2>2, EndsAsKeeps
  <2>3. CASE GoesOn([run EXCEPT !.pc = "turn_call"]) /\ UNCHANGED task
    <3>1. DOMAIN run' = TalkFields /\ run'.pc = "turn_call" /\ run'.open = {}
      BY <1>1, <2>1, <2>3 DEF GoesOn, TalkFields
    <3> QED BY <2>1, <2>3, <3>1, TalkMoves DEF GoesOn, TalkPlaces
  <2>4. CASE GoesOn(Leaves("answer")) /\ UNCHANGED task
    <3>1. DOMAIN run' = TalkFields /\ run'.pc = "agent_exit" /\ run'.open = {}
      BY <1>1, <2>1, <2>4, LeavesTo DEF GoesOn
    <3> QED BY <2>1, <2>4, <3>1, TalkMoves DEF GoesOn
  <2> QED BY <1>3, <2>2, <2>3, <2>4 DEF NextTurn, DoesNotFit
<1>4. CASE TurnAnswered
  <2>1. run.pc \in TalkPlaces \ {"tools", "agent_exit", "agent_save"} /\ UNCHANGED <<request, docs, task>>
    BY <1>4 DEF TurnAnswered, TalkPlaces, GoesOn
  <2>2. PICK c \in Costs :
          \/ run' = [Leaves("answer") EXCEPT !.spent = Leaves("answer").spent + c]
          \/ \E calls \in SUBSET request.tools :
               run' = [run EXCEPT !.pc = "tools", !.at = @ + 1, !.spent = @ + c,
                                  !.open = run.open \cup calls]
    BY <1>4 DEF TurnAnswered, GoesOn
  <2>3. \/ DOMAIN run' = TalkFields /\ run'.pc = "agent_exit" /\ run'.open = {}
        \/ DOMAIN run' = TalkFields /\ run'.pc = "tools"
    <3>1. CASE run' = [Leaves("answer") EXCEPT !.spent = Leaves("answer").spent + c]
      BY <1>1, <2>1, <3>1, LeavesTo
    <3>2. CASE \E calls \in SUBSET request.tools :
                 run' = [run EXCEPT !.pc = "tools", !.at = @ + 1, !.spent = @ + c,
                                    !.open = run.open \cup calls]
      <4>1. PICK calls : run' = [run EXCEPT !.pc = "tools", !.at = run.at + 1,
                                            !.spent = run.spent + c, !.open = run.open \cup calls]
        BY <3>2
      <4> QED BY <1>1, <2>1, <4>1 DEF TalkFields
    <3> QED BY <2>2, <3>1, <3>2
  <2> QED BY <2>1, <2>3, TalkMoves
<1>5. CASE TurnFailed
  BY <1>5, FailsKeeps DEF TurnFailed
<1>6. CASE ToolsRun
  <2>1. run.pc = "tools" /\ run.pc \in TalkPlaces /\ UNCHANGED <<request, docs>>
    BY <1>6 DEF ToolsRun, TalkPlaces, GoesOn
  <2>2. task' = task \/ Writes("active")
    BY <1>6 DEF ToolsRun
  <2>3. \/ run' = Leaves("client") \/ run' = Leaves("answer")
        \/ run.open = {} /\ \E pc \in {"agent_ask", "turn"} : run' = [run EXCEPT !.pc = pc]
    BY <1>6 DEF ToolsRun, GoesOn
  <2>4. CASE run' = Leaves("client") \/ run' = Leaves("answer")
    <3>1. DOMAIN run' = TalkFields /\ run'.pc = "agent_exit" /\ run'.why \in {"client", "answer"}
      BY <1>1, <2>1, <2>4, LeavesTo
    <3> QED BY <2>1, <2>2, <3>1, TalkMoves
  <2>5. CASE run.open = {} /\ \E pc \in {"agent_ask", "turn"} : run' = [run EXCEPT !.pc = pc]
    <3>1. DOMAIN run' = TalkFields /\ run'.pc \in {"agent_ask", "turn"} /\ run'.open = {}
      BY <1>1, <2>1, <2>5 DEF TalkFields
    <3> QED BY <2>1, <2>2, <3>1, TalkMoves DEF TalkPlaces
  <2> QED BY <2>3, <2>4, <2>5
<1>7. CASE AskAfterTurn
  <2>1. run.pc \in TalkPlaces \ {"tools", "agent_exit", "agent_save"} /\ UNCHANGED <<request, docs, task>>
    BY <1>7 DEF AskAfterTurn, TalkPlaces, GoesOn
  <2>2. run' = [run EXCEPT !.pc = "turn"] \/ run' = Leaves("yield")
    BY <1>7 DEF AskAfterTurn, GoesOn
  <2>3. DOMAIN run' = TalkFields /\ run'.pc \in {"turn", "agent_exit"} /\ run'.open = {}
    <3>1. CASE run' = [run EXCEPT !.pc = "turn"]
      BY <1>1, <2>1, <3>1 DEF TalkFields
    <3>2. CASE run' = Leaves("yield")
      BY <1>1, <2>1, <3>2, LeavesTo
    <3> QED BY <2>2, <3>1, <3>2
  <2> QED BY <2>1, <2>3, TalkMoves DEF TalkPlaces
<1>8. CASE LastTurn
  <2>1. run.pc \in TalkPlaces \ {"tools", "agent_exit", "agent_save"}
    BY <1>8 DEF LastTurn, TalkPlaces
  <2>2. CASE task.cancel /\ EndsAs("cancelled")
    BY <2>2, EndsAsKeeps
  <2>3. CASE GoesOn([run EXCEPT !.pc = "closing_call"]) /\ UNCHANGED task
    <3>1. DOMAIN run' = TalkFields /\ run'.pc = "closing_call" /\ run'.open = {}
      BY <1>1, <2>1, <2>3 DEF GoesOn, TalkFields
    <3> QED BY <2>1, <2>3, <3>1, TalkMoves DEF GoesOn, TalkPlaces
  <2> QED BY <1>8, <2>2, <2>3 DEF LastTurn
<1>9. CASE LastTurnAnswered \/ LastTurnFailed
  <2>1. run.pc \in TalkPlaces \ {"tools", "agent_exit", "agent_save"} /\ UNCHANGED <<request, docs, task>>
    BY <1>9 DEF LastTurnAnswered, LastTurnFailed, TalkPlaces, GoesOn
  <2>2. \/ run' = Leaves("answer")
        \/ \E c : run' = [Leaves("answer") EXCEPT !.spent = Leaves("answer").spent + c]
    BY <1>9 DEF LastTurnAnswered, LastTurnFailed, GoesOn
  <2>3. DOMAIN run' = TalkFields /\ run'.pc = "agent_exit" /\ run'.open = {}
    <3>1. DOMAIN run = TalkFields /\ run.open = {}
      BY <1>1, <2>1
    <3>2. CASE run' = Leaves("answer")
      BY <3>1, <3>2, LeavesTo
    <3>3. CASE \E c : run' = [Leaves("answer") EXCEPT !.spent = Leaves("answer").spent + c]
      <4>1. PICK c : run' = [Leaves("answer") EXCEPT !.spent = Leaves("answer").spent + c]
        BY <3>3
      <4> QED BY <3>1, <4>1, LeavesTo
    <3> QED BY <2>2, <3>2, <3>3
  <2> QED BY <2>1, <2>3, TalkMoves
<1>10. CASE LeaveLoop
  <2>1. run.pc = "agent_exit" /\ run.pc \in TalkPlaces
    BY <1>10 DEF LeaveLoop, TalkPlaces
  <2>2. CASE task.cancel /\ EndsAs("cancelled")
    BY <2>2, EndsAsKeeps
  <2>3. CASE ~task.cancel /\ GoesOn([run EXCEPT !.pc = "agent_save"]) /\ UNCHANGED task
    <3>1. DOMAIN run' = TalkFields /\ run'.pc = "agent_save" /\ run'.why = run.why /\ run'.open = run.open
      BY <1>1, <2>1, <2>3 DEF GoesOn, TalkFields
    <3> QED BY <1>1, <2>1, <2>3, <3>1, TalkMoves DEF GoesOn
  <2> QED BY <1>10, <2>2, <2>3 DEF LeaveLoop
<1>11. CASE SaveAnswer
  <2> DEFINE result == [of |-> "agent", cost |-> run.prior + run.spent]
  <2>1. task' = [task EXCEPT !.status = "completed", !.result = result]
    BY <1>11 DEF SaveAnswer
  <2>2. result.of = "agent"
    OBVIOUS
  <2> HIDE DEF result
  <2>3. task.cancel => CancelledLate
    BY <1>1, <1>11 DEF SaveAnswer, CancelledLate
  <2>4. /\ result.of = "chunks" =>
             \A i, j \in DOMAIN result.partials : result.partials[i] = result.partials[j]
        /\ result.of = "mixture" => result.got >= Quorum
    BY <2>2
  <2> QED BY <1>11, <2>1, <2>3, <2>4, CompletesKeeps DEF SaveAnswer
<1>12. CASE PauseForClient
  <2>1. RunInvariant' /\ run'.pc = "idle" /\ UNCHANGED <<request, docs>>
    BY <1>12, IdleOwesNothing DEF PauseForClient
  <2>2. /\ DOMAIN Frozen(FALSE) = {"at", "open", "resumed", "cost"} /\ ~Frozen(FALSE).resumed
    BY DEF Frozen
  <2>3. /\ DOMAIN task' = RowFields /\ task'.status = "waiting_for_tools"
        /\ task'.agent = Frozen(FALSE) /\ task'.result = task.result
        /\ task'.mapped = task.mapped /\ task'.mixture = task.mixture
    BY <1>12 DEF CoordinatorInvariant, RowInvariant, RowFields, PauseForClient
  <2>4. CheckpointsHeld'
    BY <2>1, <2>2, <2>3 DEF CoordinatorInvariant, RowInvariant, CheckpointsHeld, OfOne, Rests, Quorum
  <2>5. RowInvariant'
    BY <2>1, <2>3, <2>4 DEF CoordinatorInvariant, RowInvariant
  <2>6. QuorumHeld'
    BY <2>1, <2>3 DEF CoordinatorInvariant, ResultInvariant, QuorumHeld, Quorum
  <2>7. task'.cancel = task.cancel /\ task'.cancelled_at = task.cancelled_at
    BY <1>12 DEF CoordinatorInvariant, RowInvariant, RowFields, PauseForClient
  <2>8. CancelEndsRun'
    BY <1>1, <1>12, <2>7 DEF CancelEndsRun, PauseForClient
  <2>9. ResultInvariant'
    BY <2>3, <2>6, <2>8 DEF CoordinatorInvariant, ResultInvariant
  <2> QED BY <2>1, <2>5, <2>9 DEF CoordinatorInvariant
<1>13. CASE YieldAfterTurn
  <2>1. /\ DOMAIN Frozen(TRUE) = {"at", "open", "resumed", "cost"} /\ Frozen(TRUE).open = {}
    BY <1>1, <1>13 DEF Frozen, YieldAfterTurn
  <2> QED BY <1>13, <2>1, YieldsKeeps DEF YieldAfterTurn
<1> QED BY <1>2, <1>3, <1>4, <1>5, <1>6, <1>7, <1>8, <1>9, <1>10, <1>11, <1>12, <1>13 DEF AgentNext

----------------------------------------------------------------------------
(* Rounds of a mixture.                                                    *)

\* A step inside a round.
LEMMA MixtureMoves ==
  ASSUME CoordinatorInvariant, UNCHANGED <<request, docs>>, task' = task \/ Writes("active"),
         run.pc \in MixturePlaces, DOMAIN run' = MixtureFields, run'.pc \in MixturePlaces,
         run'.round = run.round, run'.first = run.first,
         run.round = 2 => run'.pc \in SecondPlaces,
         run'.pc \in Synthesized => run'.got >= Quorum,
         run'.pc \in Asking => request.strategy = "mixture",
         task.cancel /\ run'.pc \in {"synth_ask", "gate", "judge_call", "deliver"} => CancelledLate
  PROVE  CoordinatorInvariant'
<1>1. Rests(run) /\ (task.cancel /\ run.round = 2 => task.cancelled_at \in LateCancels)
  BY DEF CoordinatorInvariant, RunInvariant, RunRests, RunCancelled
<1>2. Quorum' = Quorum
  BY DEF Quorum
<1>3. Rests(run)'
  BY <1>1, <1>2 DEF Rests
<1>4. task.cancel /\ run'.round = 2 => task.cancelled_at \in LateCancels
  BY <1>1
<1> QED BY <1>3, <1>4, MixtureGoesOn

\* The second round is given up for the first, whose proposals were enough.
LEMMA FirstRoundKeeps ==
  ASSUME CoordinatorInvariant, run.pc \in MixturePlaces, run.round = 2,
         GoesOn(FirstRound), UNCHANGED task
  PROVE  CoordinatorInvariant'
<1>1. /\ DOMAIN run = MixtureFields /\ run.first.got >= Quorum
      /\ task.cancel => task.cancelled_at \in LateCancels
  BY FieldsOf DEF CoordinatorInvariant, RunInvariant, RunRests, Rests, RunCancelled
<1>2. /\ DOMAIN run' = MixtureFields /\ run'.pc = "deliver" /\ run'.round = 1
      /\ run'.got = run.first.got
  BY <1>1 DEF GoesOn, FirstRound, MixtureFields
<1>3. Quorum' = Quorum /\ UNCHANGED <<request, docs>>
  BY DEF Quorum, GoesOn
<1>4. Rests(run)'
  BY <1>1, <1>2, <1>3 DEF Rests
<1>5. task.cancel => CancelledLate
  BY <1>1 DEF CancelledLate
<1>6. run'.pc \in MixturePlaces /\ run'.pc \notin Asking
  BY <1>2 DEF MixturePlaces, Synthesized, Asking
<1> QED BY <1>2, <1>3, <1>4, <1>5, <1>6, MixtureGoesOn

LEMMA StumblesKeeps ==
  ASSUME CoordinatorInvariant, run.pc \in MixturePlaces, NEW code, Stumbles(code)
  PROVE  CoordinatorInvariant'
BY FailsKeeps, FirstRoundKeeps DEF Stumbles

LEMMA MixtureBegun ==
  ASSUME CoordinatorInvariant, ResumeMixture \/ PlanMixture
  PROVE  CoordinatorInvariant'
<1>1. run.pc = "mixture" /\ Checkpoint = task.mixture
  BY DEF ResumeMixture, PlanMixture, Checkpoint
<1>2. CASE ResumeMixture
  <2>1. task.mixture # None /\ run' = task.mixture /\ Writes("active") /\ UNCHANGED <<request, docs>>
    BY <1>1, <1>2 DEF ResumeMixture, GoesOn
  <2>2. /\ DOMAIN run' = MixtureFields /\ run'.pc \in {"wave", "gate"} /\ run'.round = 1
        /\ Rests(task.mixture)
    BY <2>1 DEF CoordinatorInvariant, RowInvariant, CheckpointsHeld
  <2>3. Rests(run)'
    BY <2>1, <2>2 DEF Rests, Quorum
  <2>4. task.cancel /\ run'.pc = "gate" => CancelledLate
    BY <1>1, <2>1 DEF CoordinatorInvariant, RunInvariant, RunCancelled, AtGate, CancelledLate
  <2>5. run'.pc \in MixturePlaces /\ run'.pc \notin Asking
    BY <2>2 DEF MixturePlaces, Synthesized, Asking
  <2> QED BY <1>1, <2>1, <2>2, <2>3, <2>4, <2>5, MixtureGoesOn
<1>3. CASE PlanMixture
  <2>1. CASE \E code : Fails(code)
    BY <2>1, FailsKeeps
  <2>2. CASE \E plan, known : Writes("active") /\ GoesOn(Mixture(plan, known))
    <3>1. PICK plan, known : Writes("active") /\ GoesOn(Mixture(plan, known))
      BY <2>2, Zenon
    <3>2. /\ DOMAIN run' = MixtureFields /\ run'.pc = "wave" /\ run'.round = 1
          /\ UNCHANGED <<request, docs>>
      BY <3>1 DEF GoesOn, Mixture, MixtureFields
    <3>3. Rests(run)' /\ run'.pc \in MixturePlaces /\ run'.pc \notin Asking
      BY <3>2 DEF Rests, Synthesized, MixturePlaces, Asking
    <3> QED BY <1>1, <3>1, <3>2, <3>3, MixtureGoesOn
  <2> QED BY <1>3, <2>1, <2>2, Zenon DEF PlanMixture
<1> QED BY <1>2, <1>3

\* Waves of proposers.
LEMMA WavesKeep ==
  ASSUME CoordinatorInvariant, NextWave \/ ProposerAnswered \/ ProposerFailed \/ WaveDone
  PROVE  CoordinatorInvariant'
<1>1. run.pc \in {"wave", "wave_call"} /\ run.pc \in MixturePlaces
  BY DEF NextWave, ProposerAnswered, ProposerFailed, WaveDone, MixturePlaces
<1>2. DOMAIN run = MixtureFields
  BY <1>1, FieldsOf DEF CoordinatorInvariant, RunInvariant
<1>3. CASE EndsAs("cancelled")
  BY <1>3, EndsAsKeeps
<1>4. CASE Stumbles("BUDGET_EXCEEDED")
  BY <1>1, <1>4, StumblesKeeps
<1>5. CASE ~EndsAs("cancelled") /\ ~Stumbles("BUDGET_EXCEEDED")
  <2>1. /\ DOMAIN run' = MixtureFields /\ run'.round = run.round /\ run'.first = run.first
        /\ run'.pc \in {"wave", "wave_call", "wave_ask"}
        /\ run'.pc = "wave_ask" => run.round = 1 /\ request.strategy = "mixture"
    <3>1. CASE NextWave
      BY <1>2, <1>5, <3>1 DEF NextWave, GoesOn, MixtureFields
    <3>2. CASE ProposerAnswered
      <4>1. PICK s, c : run' = [run EXCEPT !.live = run.live \ {s}, !.got = run.got + 1,
                                           !.cost = run.cost + c]
        BY <3>2, Zenon DEF ProposerAnswered, GoesOn
      <4> QED BY <1>2, <3>2, <4>1 DEF ProposerAnswered, MixtureFields
    <3>3. CASE ProposerFailed
      <4>1. PICK s, code : run' = [run EXCEPT !.live = run.live \ {s},
                                              !.fatal = run.fatal \/ code \in TaskFatal]
        BY <3>3, Zenon DEF ProposerFailed, GoesOn
      <4> QED BY <1>2, <3>3, <4>1 DEF ProposerFailed, MixtureFields
    <3>4. CASE WaveDone
      BY <1>2, <1>5, <3>4 DEF WaveDone, GoesOn, MayYield, MixtureFields
    <3> QED BY <3>1, <3>2, <3>3, <3>4
  <2>2. UNCHANGED <<request, docs>> /\ (task' = task \/ Writes("active"))
    BY <1>5 DEF NextWave, ProposerAnswered, ProposerFailed, WaveDone, GoesOn
  <2>3. /\ run'.pc \in MixturePlaces /\ run'.pc \notin Synthesized
        /\ run.round = 2 => run'.pc \in SecondPlaces
        /\ run'.pc \in Asking => request.strategy = "mixture"
        /\ run'.pc \notin {"synth_ask", "gate", "judge_call", "deliver"}
    BY <2>1 DEF MixturePlaces, Synthesized, SecondPlaces, Asking
  <2> QED BY <1>1, <2>1, <2>2, <2>3, MixtureMoves
<1> QED BY <1>3, <1>4, <1>5

\* A round of proposals is over.
LEMMA SynthesizesKeeps ==
  ASSUME CoordinatorInvariant, run.pc = "wave", run.got >= Quorum, Synthesizes
  PROVE  CoordinatorInvariant'
<1>1. run.pc \in MixturePlaces /\ "synth_call" \in MixturePlaces
      /\ "synth_call" \notin Asking /\ "synth_call" \in SecondPlaces
  BY DEF MixturePlaces, Synthesized, Asking, SecondPlaces
<1>2. DOMAIN run = MixtureFields
  BY <1>1, FieldsOf DEF CoordinatorInvariant, RunInvariant
<1>3. CASE Stumbles("BUDGET_EXCEEDED")
  BY <1>1, <1>3, StumblesKeeps
<1>4. CASE Writes("active") /\ GoesOn([run EXCEPT !.pc = "synth_call", !.retried = FALSE])
  <2>1. /\ DOMAIN run' = MixtureFields /\ run'.pc = "synth_call" /\ run'.round = run.round
        /\ run'.first = run.first /\ run'.got = run.got
    BY <1>2, <1>4 DEF GoesOn, MixtureFields
  <2> QED BY <1>1, <1>4, <2>1, MixtureMoves DEF GoesOn
<1> QED BY <1>3, <1>4 DEF Synthesizes

LEMMA RoundsDoneKeep ==
  ASSUME CoordinatorInvariant, RoundDone \/ SecondRoundDone
  PROVE  CoordinatorInvariant'
<1>1. run.pc = "wave" /\ run.pc \in MixturePlaces
  BY DEF RoundDone, SecondRoundDone, WavesDone, MixturePlaces
<1>2. CASE RoundDone
  BY <1>1, <1>2, EndsWithKeeps, EndsAsKeeps, SynthesizesKeeps DEF RoundDone
<1>3. CASE SecondRoundDone
  BY <1>1, <1>3, FirstRoundKeeps, SynthesizesKeeps DEF SecondRoundDone, WavesDone
<1> QED BY <1>2, <1>3

\* The synthesis, by the first arbiter or by another.
LEMMA SynthesisKeeps ==
  ASSUME CoordinatorInvariant, SynthesisAnswered \/ ArbiterFailed
  PROVE  CoordinatorInvariant'
<1>1. run.pc = "synth_call" /\ run.pc \in MixturePlaces /\ run.pc \in Synthesized
  BY DEF SynthesisAnswered, ArbiterFailed, MixturePlaces, Synthesized
<1>2. DOMAIN run = MixtureFields /\ run.got >= Quorum
  BY <1>1, FieldsOf DEF CoordinatorInvariant, RunInvariant, RunRests, Rests
<1>3. CASE \E code : Stumbles(code)
  BY <1>1, <1>3, StumblesKeeps
<1>4. CASE ~ \E code : Stumbles(code)
  <2>1. UNCHANGED <<request, docs, task>>
    BY <1>4 DEF SynthesisAnswered, ArbiterFailed, GoesOn, FirstProposal, Substituted
  <2>2. \/ \E c : run' = [run EXCEPT !.pc = "synth_done", !.synth = c]
        \/ run' = [run EXCEPT !.pc = "synth_done", !.degraded = TRUE]
        \/ run' = [run EXCEPT !.retried = TRUE]
    BY <1>4 DEF SynthesisAnswered, ArbiterFailed, GoesOn, FirstProposal, Substituted
  <2>3. /\ DOMAIN run' = MixtureFields /\ run'.pc \in {"synth_call", "synth_done"}
        /\ run'.round = run.round /\ run'.first = run.first /\ run'.got = run.got
    <3>1. CASE \E c : run' = [run EXCEPT !.pc = "synth_done", !.synth = c]
      BY <1>2, <3>1 DEF MixtureFields
    <3>2. CASE run' = [run EXCEPT !.pc = "synth_done", !.degraded = TRUE]
      BY <1>2, <3>2 DEF MixtureFields
    <3>3. CASE run' = [run EXCEPT !.retried = TRUE]
      BY <1>1, <1>2, <3>3 DEF MixtureFields
    <3> QED BY <2>2, <3>1, <3>2, <3>3
  <2>4. /\ run'.pc \in MixturePlaces /\ run'.pc \in SecondPlaces /\ run'.pc \notin Asking
        /\ run'.pc \notin {"synth_ask", "gate", "judge_call", "deliver"}
    BY <2>3 DEF MixturePlaces, Synthesized, SecondPlaces, Asking
  <2> QED BY <1>1, <1>2, <2>1, <2>3, <2>4, MixtureMoves
<1> QED BY <1>3, <1>4

\* A step between the synthesis of the first round and the end of it.
LEMMA GateMoves ==
  ASSUME CoordinatorInvariant, GoesOn([run EXCEPT !.pc = run'.pc]), UNCHANGED task,
         run.pc \in Synthesized, run'.pc \in Synthesized,
         run.round = 2 => run'.pc \in SecondPlaces,
         run'.pc \in Asking => request.strategy = "mixture",
         task.cancel /\ run'.pc \in {"synth_ask", "gate", "judge_call", "deliver"} => CancelledLate
  PROVE  CoordinatorInvariant'
<1>1. run.pc \in MixturePlaces /\ run'.pc \in MixturePlaces
  BY DEF MixturePlaces
<1>2. DOMAIN run = MixtureFields /\ run.got >= Quorum
  BY <1>1, FieldsOf DEF CoordinatorInvariant, RunInvariant, RunRests, Rests
<1>3. /\ DOMAIN run' = MixtureFields /\ run'.round = run.round /\ run'.first = run.first
      /\ run'.got = run.got /\ UNCHANGED <<request, docs>>
  <2> DEFINE pc == run'.pc
  <2>1. run' = [run EXCEPT !.pc = pc] /\ UNCHANGED <<request, docs>>
    BY DEF GoesOn
  <2> HIDE DEF pc
  <2> QED BY <1>2, <2>1 DEF MixtureFields
<1> QED BY <1>1, <1>2, <1>3, MixtureMoves

\* The first synthesis is delivered, looked at again, or put aside for the urgent.
LEMMA GateKeeps ==
  ASSUME CoordinatorInvariant,
         SynthesisDone \/ AskAfterSynthesis \/ YieldAfterSynthesis \/ Gate \/ Judged \/ JudgeFailed
  PROVE  CoordinatorInvariant'
<1>1. run.pc \in {"synth_done", "synth_ask", "synth_save", "gate", "judge_call"}
  BY DEF SynthesisDone, AskAfterSynthesis, YieldAfterSynthesis, Gate, Judged, JudgeFailed, AsksToYield
<1>2. run.pc \in MixturePlaces /\ run.pc \in Synthesized
  BY <1>1 DEF MixturePlaces, Synthesized
<1>3. /\ DOMAIN run = MixtureFields /\ Rests(run)
      /\ run.pc \in Asking => request.strategy = "mixture"
      /\ task.cancel /\ run.pc \in {"synth_ask", "gate", "judge_call"} => CancelledLate
  BY <1>2, FieldsOf
    DEF CoordinatorInvariant, RunInvariant, RunRests, RunIsAsked, RunCancelled
<1>4. run.round = 1
  <2>1. CASE run.pc = "synth_done"
    BY <1>1, <2>1 DEF SynthesisDone, AskAfterSynthesis, YieldAfterSynthesis, Gate, Judged, JudgeFailed,
      AsksToYield
  <2>2. CASE run.pc # "synth_done"
    BY <1>1, <1>3, <2>2 DEF Rests, SecondPlaces
  <2> QED BY <2>1, <2>2
<1>5. CASE SynthesisDone
  <2>1. CASE task.cancel /\ EndsAs("cancelled")
    BY <2>1, EndsAsKeeps
  <2>2. CASE \E pc \in {"deliver", "synth_ask", "gate"} :
               /\ pc = "synth_ask" => request.strategy = "mixture"
               /\ ~task.cancel /\ GoesOn([run EXCEPT !.pc = pc]) /\ UNCHANGED task
    <3>1. PICK pc \in {"deliver", "synth_ask", "gate"} :
            /\ pc = "synth_ask" => request.strategy = "mixture"
            /\ ~task.cancel /\ GoesOn([run EXCEPT !.pc = pc]) /\ UNCHANGED task
      BY <2>2
    <3>2. run'.pc = pc
      BY <1>3, <3>1 DEF GoesOn, MixtureFields
    <3>3. run'.pc \in Synthesized /\ (run'.pc \in Asking => run'.pc = "synth_ask")
      BY <3>2 DEF Synthesized, Asking
    <3> QED BY <1>2, <1>4, <3>1, <3>2, <3>3, GateMoves
  <2>3. \/ task.cancel /\ EndsAs("cancelled")
        \/ \E pc \in {"deliver", "synth_ask", "gate"} :
             /\ pc = "synth_ask" => request.strategy = "mixture"
             /\ ~task.cancel /\ GoesOn([run EXCEPT !.pc = pc]) /\ UNCHANGED task
    BY <1>5 DEF SynthesisDone, MayYield
  <2> QED BY <2>1, <2>2, <2>3
<1>6. CASE AskAfterSynthesis
  <2>1. PICK pc \in {"gate", "synth_save"} : run' = [run EXCEPT !.pc = pc]
    BY <1>6 DEF AskAfterSynthesis, AsksToYield
  <2>2. run'.pc = pc /\ run.pc = "synth_ask" /\ UNCHANGED <<request, task, docs, left>>
    BY <1>3, <1>6, <2>1 DEF AskAfterSynthesis, AsksToYield, MixtureFields
  <2>3. run'.pc \in Synthesized /\ request.strategy = "mixture"
    BY <1>3, <2>2 DEF Synthesized, Asking
  <2> QED BY <1>2, <1>3, <1>4, <2>1, <2>2, <2>3, GateMoves DEF GoesOn
<1>7. CASE YieldAfterSynthesis
  <2> DEFINE state == [run EXCEPT !.pc = "gate"]
  <2>1. /\ DOMAIN state = MixtureFields /\ state.pc = "gate" /\ state.round = run.round
        /\ state.got = run.got /\ state.first = run.first
    BY <1>3 DEF MixtureFields
  <2>2. Yields("mixture", state) /\ run.pc = "synth_save"
    BY <1>7 DEF YieldAfterSynthesis
  <2> HIDE DEF state
  <2>3. Rests(state) /\ request.strategy = "mixture"
    BY <1>2, <1>3, <1>4, <2>1, <2>2 DEF Rests, Asking
  <2> QED BY <1>4, <2>1, <2>2, <2>3, YieldsKeeps
<1>8. CASE Gate \/ JudgeFailed
  <2>1. PICK pc \in {"deliver", "judge_call", "second"} : GoesOn([run EXCEPT !.pc = pc])
    BY <1>8 DEF Gate, JudgeFailed
  <2>2. run'.pc = pc /\ run.pc \in {"gate", "judge_call"} /\ UNCHANGED task
    BY <1>3, <1>8, <2>1 DEF Gate, JudgeFailed, GoesOn, MixtureFields
  <2>3. run'.pc \in Synthesized /\ run'.pc \notin Asking
    BY <2>2 DEF Synthesized, Asking
  <2> QED BY <1>2, <1>3, <1>4, <2>1, <2>2, <2>3, GateMoves
<1>9. CASE Judged
  <2>1. PICK c \in Costs, next \in {"deliver", "second"} : run' = [run EXCEPT !.pc = next, !.extra = c]
    BY <1>9, Zenon DEF Judged, GoesOn
  <2>2. /\ DOMAIN run' = MixtureFields /\ run'.pc = next /\ run'.round = run.round
        /\ run'.first = run.first /\ run'.got = run.got
    BY <1>3, <2>1 DEF MixtureFields
  <2>3. run.pc = "judge_call" /\ UNCHANGED <<request, docs, task>>
    BY <1>9 DEF Judged, GoesOn
  <2>4. run'.pc \in MixturePlaces /\ run'.pc \notin Asking /\ run.got >= Quorum
    BY <1>2, <1>3, <2>2 DEF MixturePlaces, Synthesized, Asking, Rests
  <2> QED BY <1>2, <1>3, <1>4, <2>2, <2>3, <2>4, MixtureMoves
<1> QED BY <1>5, <1>6, <1>7, <1>8, <1>9

\* Between two waves of the first round.
LEMMA AfterWaveKeeps ==
  ASSUME CoordinatorInvariant, AskAfterWave \/ YieldAfterWave
  PROVE  CoordinatorInvariant'
<1>1. run.pc \in {"wave_ask", "wave_save"} /\ run.pc \in MixturePlaces
  BY DEF AskAfterWave, AsksToYield, YieldAfterWave, MixturePlaces
<1>2. DOMAIN run = MixtureFields /\ Rests(run) /\ request.strategy = "mixture"
  BY <1>1, FieldsOf DEF CoordinatorInvariant, RunInvariant, RunRests, RunIsAsked, Asking
<1>3. run.round = 1
  BY <1>1, <1>2 DEF Rests, SecondPlaces
<1>4. CASE AskAfterWave
  <2>1. PICK pc \in {"wave", "wave_save"} : run' = [run EXCEPT !.pc = pc]
    BY <1>4 DEF AskAfterWave, AsksToYield
  <2>2. /\ DOMAIN run' = MixtureFields /\ run'.pc = pc /\ run'.round = run.round
        /\ run'.first = run.first
    BY <1>2, <2>1 DEF MixtureFields
  <2>3. /\ run'.pc \in MixturePlaces /\ run'.pc \notin Synthesized
        /\ run'.pc \notin {"synth_ask", "gate", "judge_call", "deliver"}
    BY <2>2 DEF MixturePlaces, Synthesized
  <2> QED BY <1>1, <1>2, <1>3, <1>4, <2>2, <2>3, MixtureMoves DEF AskAfterWave, AsksToYield
<1>5. CASE YieldAfterWave
  <2> DEFINE state == [run EXCEPT !.pc = "wave"]
  <2>1. DOMAIN state = MixtureFields /\ state.pc = "wave" /\ state.round = run.round
    BY <1>2 DEF MixtureFields
  <2>2. Yields("mixture", state)
    BY <1>5 DEF YieldAfterWave
  <2> HIDE DEF state
  <2>3. Rests(state)
    BY <1>3, <2>1 DEF Rests, Synthesized
  <2> QED BY <1>2, <1>3, <2>1, <2>2, <2>3, YieldsKeeps
<1> QED BY <1>4, <1>5

\* The second round is begun, or has its own synthesis.
LEMMA SecondKeeps ==
  ASSUME CoordinatorInvariant, StartSecond \/ SecondSynthesisDone
  PROVE  CoordinatorInvariant'
<1>1. run.pc \in {"second", "synth_done"} /\ run.pc \in MixturePlaces /\ run.pc \in Synthesized
  BY DEF StartSecond, SecondSynthesisDone, MixturePlaces, Synthesized
<1>2. /\ DOMAIN run = MixtureFields /\ Rests(run) /\ run.got >= Quorum
      /\ task.cancel /\ run.round = 2 => task.cancelled_at \in LateCancels
  BY <1>1, FieldsOf DEF CoordinatorInvariant, RunInvariant, RunRests, Rests, RunCancelled
<1>3. /\ "deliver" \in Synthesized /\ "deliver" \notin Asking /\ "deliver" \in SecondPlaces
      /\ "wave" \in MixturePlaces /\ "wave" \in SecondPlaces /\ "wave" \notin Synthesized
      /\ "wave" \notin Asking
  BY DEF Synthesized, Asking, SecondPlaces, MixturePlaces
<1>4. ASSUME ~task.cancel \/ run.round = 2, GoesOn([run EXCEPT !.pc = "deliver"]), UNCHANGED task
      PROVE  CoordinatorInvariant'
  <2>1. run'.pc = "deliver"
    BY <1>2, <1>4 DEF GoesOn, MixtureFields
  <2>2. task.cancel => CancelledLate
    BY <1>2, <1>4 DEF CancelledLate
  <2> QED BY <1>1, <1>3, <1>4, <2>1, <2>2, GateMoves
<1>5. CASE StartSecond
  <2>1. CASE task.cancel /\ EndsAs("cancelled")
    BY <2>1, EndsAsKeeps
  <2>2. CASE ~task.cancel /\ GoesOn([run EXCEPT !.pc = "deliver"]) /\ UNCHANGED <<task, bill>>
    BY <1>4, <2>2
  <2>3. CASE /\ ~task.cancel /\ UNCHANGED <<task, bill>>
             /\ GoesOn([run EXCEPT !.pc = "wave", !.wave = 1, !.round = 2, !.got = 0, !.cost = 0,
                  !.synth = 0, !.first = [got |-> run.got, cost |-> run.cost, synth |-> run.synth]])
    <3> DEFINE first == [got |-> run.got, cost |-> run.cost, synth |-> run.synth]
    <3>1. first.got = run.got
      OBVIOUS
    <3>2. /\ run' = [run EXCEPT !.pc = "wave", !.wave = 1, !.round = 2, !.got = 0, !.cost = 0,
                       !.synth = 0, !.first = first]
          /\ UNCHANGED <<request, docs>>
      BY <2>3 DEF GoesOn
    <3> HIDE DEF first
    <3>3. /\ DOMAIN run' = MixtureFields /\ run'.pc = "wave" /\ run'.round = 2 /\ run'.first = first
      BY <1>2, <3>2 DEF MixtureFields
    <3>4. Rests(run)'
      BY <1>2, <1>3, <3>1, <3>2, <3>3 DEF Rests, Quorum
    <3> QED BY <1>1, <1>3, <2>3, <3>2, <3>3, <3>4, MixtureGoesOn
  <2> QED BY <1>5, <2>1, <2>2, <2>3 DEF StartSecond
<1>6. CASE SecondSynthesisDone
  <2>1. run.round = 2 /\ UNCHANGED task
    BY <1>6 DEF SecondSynthesisDone
  <2>2. CASE GoesOn(FirstRound)
    BY <1>1, <2>1, <2>2, FirstRoundKeeps
  <2>3. CASE GoesOn([run EXCEPT !.pc = "deliver"])
    BY <1>4, <2>1, <2>3
  <2> QED BY <1>6, <2>2, <2>3 DEF SecondSynthesisDone
<1> QED BY <1>5, <1>6

LEMMA DeliverKeeps ==
  ASSUME CoordinatorInvariant, Deliver
  PROVE  CoordinatorInvariant'
<1>1. run.pc = "deliver" /\ run.pc \in MixturePlaces /\ run.pc \in Synthesized
  BY DEF Deliver, MixturePlaces, Synthesized
<1>2. run.got >= Quorum /\ (task.cancel => CancelledLate)
  BY <1>1 DEF CoordinatorInvariant, RunInvariant, RunRests, Rests, RunCancelled
<1>3. CASE Fails("BUDGET_EXCEEDED")
  BY <1>3, FailsKeeps
<1>4. CASE ~Fails("BUDGET_EXCEEDED")
  <2> DEFINE result == [of |-> "mixture", rounds |-> run.round, got |-> run.got,
                        cost |-> AllOutputs, abandoned |-> run.abandoned]
  <2>1. /\ task' = [task EXCEPT !.status = "completed", !.result = result]
        /\ run' = Idle /\ UNCHANGED <<request, docs>>
    BY <1>4 DEF Deliver
  <2>2. result.of = "mixture" /\ result.got = run.got
    OBVIOUS
  <2> HIDE DEF result
  <2>3. result.of # "chunks" /\ result.got >= Quorum
    BY <1>2, <2>2
  <2> QED BY <1>2, <2>1, <2>3, CompletesKeeps
<1> QED BY <1>3, <1>4

LEMMA ConsensusKeeps ==
  ASSUME CoordinatorInvariant, ConsensusNext
  PROVE  CoordinatorInvariant'
BY MixtureBegun, WavesKeep, RoundsDoneKeep, SynthesisKeeps, GateKeeps, AfterWaveKeeps, SecondKeeps,
   DeliverKeeps DEF ConsensusNext

----------------------------------------------------------------------------
(* All together.                                                           *)

LEMMA Begins ==
  ASSUME WorkflowInit
  PROVE  CoordinatorInvariant
<1>1. /\ run.pc = "idle" /\ DOMAIN run = {"pc"} /\ DOMAIN task = RowFields /\ task.status = "queued"
      /\ ~task.cancel /\ task.agent = None /\ task.mapped = None /\ task.mixture = None
      /\ task.result = None /\ docs \in Nat /\ request \in Requests
  BY DEF WorkflowInit, Idle, FreshRow, RowFields
<1>2. run.pc \notin MapPlaces \cup SinglePlaces \cup TalkPlaces \cup MixturePlaces
  BY <1>1, PlacesApart
<1>3. RunInvariant
  BY <1>1, <1>2, PlacesApart
    DEF RunInvariant, RunShape, RunTalks, RunMaps, RunRests, RunIsAsked
<1>4. RowInvariant
  BY <1>1 DEF RowInvariant, CheckpointsHeld
<1>5. ResultInvariant
  BY <1>1 DEF ResultInvariant, QuorumHeld, CancelEndsRun
<1> QED BY <1>3, <1>4, <1>5 DEF CoordinatorInvariant

LEMMA StutterKeeps ==
  ASSUME CoordinatorInvariant, UNCHANGED wvars
  PROVE  CoordinatorInvariant'
<1>1. request' = request /\ task' = task /\ run' = run /\ docs' = docs
  BY DEF wvars
<1>2. RunInvariant'
  BY <1>1 DEF CoordinatorInvariant, RunInvariant, RunShape, RunTalks, RunMaps, OfOne, RunRests, Rests,
    Quorum, RunIsAsked, RunCancelled, CancelledLate, AtGate
<1>3. RowInvariant'
  BY <1>1 DEF CoordinatorInvariant, RowInvariant, CheckpointsHeld, OfOne, Rests, Quorum
<1>4. ResultInvariant'
  BY <1>1 DEF CoordinatorInvariant, ResultInvariant, QuorumHeld, Quorum, CancelEndsRun
<1> QED BY <1>2, <1>3, <1>4 DEF CoordinatorInvariant

LEMMA StepKeeps ==
  ASSUME CoordinatorInvariant, [Next]_wvars
  PROVE  CoordinatorInvariant'
<1>1. CASE Dispatch
  BY <1>1, DispatchKeeps
<1>2. CASE MapReduceNext \/ SingleNext \/ AgentNext \/ ConsensusNext
  BY <1>2, MapReduceKeeps, SingleKeeps, AgentKeeps, ConsensusKeeps
<1>3. CASE TimesOut \/ Crash
  BY <1>3, TimesOutKeeps, CrashKeeps
<1>4. CASE Cancel \/ Reconvert \/ \E provided \in SUBSET request.tools : ToolResults(provided)
  BY <1>4, CancelKeeps, ReconvertKeeps, ToolResultsKeeps
<1>5. CASE UNCHANGED wvars
  BY <1>5, StutterKeeps
<1> QED BY <1>1, <1>2, <1>3, <1>4, <1>5 DEF Next

\* The coroutine, its checkpoints and its row go together whatever the task asks for and
\* whenever it gives way, is cancelled, times out or loses its process.
THEOREM CoordinatorKeepsInvariant == Spec => []CoordinatorInvariant
<1>1. WorkflowInit => CoordinatorInvariant
  BY Begins
<1>2. CoordinatorInvariant /\ [Next]_wvars => CoordinatorInvariant'
  BY StepKeeps
<1> QED BY <1>1, <1>2, PTL DEF Spec

\* No turn is asked of a model while a call in its conversation has no answer: whatever
\* tools a turn has called, and however often the conversation was frozen in between.
THEOREM ConversationsAreWhole == Spec => []ConversationIsWhole
<1>1. CoordinatorInvariant => ConversationIsWhole
  BY DEF CoordinatorInvariant, RunInvariant, RunTalks, TalkPlaces, ConversationIsWhole
<1> QED BY <1>1, CoordinatorKeepsInvariant, PTL

\* A synthesis never mixes partial answers of two conversions of the documents, although
\* the documents may be converted anew while the task waits for its turn.
THEOREM PartialsMatch == Spec => []PartialsMatchChunks
<1>1. ASSUME CoordinatorInvariant PROVE PartialsMatchChunks
  <2>1. ASSUME InMap PROVE run.pc \in MapPlaces
    BY <1>1, <2>1 DEF CoordinatorInvariant, RunInvariant, RunShape, InMap, TalkFields, MixtureFields
  <2>2. InMap => \A i \in DOMAIN run.partials : run.partials[i] = run.docs
    BY <1>1, <2>1 DEF CoordinatorInvariant, RunInvariant, RunMaps, OfOne
  <2> QED BY <1>1, <2>2 DEF CoordinatorInvariant, ResultInvariant, PartialsMatchChunks
<1> QED BY <1>1, CoordinatorKeepsInvariant, PTL

\* What a mixture delivers rests on a quorum of proposals of the very round that is
\* delivered, whichever proposers and arbiters failed.
THEOREM QuorumIsHeld == Spec => []QuorumHeld
<1>1. CoordinatorInvariant => QuorumHeld
  BY DEF CoordinatorInvariant, ResultInvariant
<1> QED BY <1>1, CoordinatorKeepsInvariant, PTL

\* A cancelled task completes, or is left to wait for its client, only if the flag was
\* raised after the last look at it, or in the second round of a mixture.
THEOREM CancelEnds == Spec => []CancelEndsRun
<1>1. CoordinatorInvariant => CancelEndsRun
  BY DEF CoordinatorInvariant, ResultInvariant
<1> QED BY <1>1, CoordinatorKeepsInvariant, PTL

----------------------------------------------------------------------------
(* The money: ways to leave a step.                                        *)

\* The bill grows by what a call has cost; what was kept stays.
BillMoves(c) ==
  /\ DOMAIN bill' = BillFields
  /\ bill'.spent = bill.spent + c /\ bill'.kept_spent = bill.kept_spent

LEMMA BillMoved ==
  ASSUME DOMAIN bill = BillFields, bill.spent \in Nat
  PROVE  /\ bill' = bill => BillMoves(0)
         /\ \A step, c : Pays(step, c) => BillMoves(c)
<1>1. bill' = bill => BillMoves(0)
  BY DEF BillMoves
<1>2. ASSUME NEW step, NEW c, Pays(step, c) PROVE BillMoves(c)
  <2>1. PICK paid, twice : bill' = [bill EXCEPT !.paid = paid, !.spent = bill.spent + c, !.twice = twice]
    BY <1>2 DEF Pays, Paid
  <2> QED BY <2>1 DEF BillMoves, BillFields
<1> QED BY <1>1, <1>2

LEMMA BillFrozen ==
  ASSUME DOMAIN bill = BillFields
  PROVE  /\ Freeze => DOMAIN bill' = BillFields /\ bill'.spent = bill.spent
                        /\ bill'.kept_spent = bill.spent
         /\ bill' = Interrupted => DOMAIN bill' = BillFields /\ bill'.spent = bill.kept_spent
                                     /\ bill'.kept_spent = bill.kept_spent
BY DEF Freeze, Interrupted, BillFields

\* A coroutine that is gone holds nothing.
LEMMA IdleHoldsNothing ==
  ASSUME run' = Idle
  PROVE  /\ run'.pc = "idle" /\ RunHolds'
         /\ run'.pc \notin {"single", "mixture", "agent", "map_plan"}
              \cup MapPlaces \cup SinglePlaces \cup TalkPlaces \cup MixturePlaces
<1>1. run'.pc = "idle"
  BY DEF Idle
<1> QED BY <1>1, PlacesApart DEF RunHolds

LEMMA MoneyEnds ==
  ASSUME CoordinatorInvariant, MoneyInvariant, run' = Idle, UNCHANGED <<request, docs>>,
         NEW status \in {"queued", "failed", "cancelled"}, RowKeeps(status),
         (bill' = bill /\ status # "queued") \/ bill' = Interrupted,
         run.pc # "idle" \/ task.status = "queued"
  PROVE  MoneyInvariant'
<1>1. /\ DOMAIN bill' = BillFields /\ bill'.spent \in Nat /\ bill'.kept_spent = bill.kept_spent
      /\ bill'.kept_spent \in Nat /\ (status = "queued" => bill'.spent = bill'.kept_spent)
  BY BillFrozen DEF MoneyInvariant
<1>2. /\ task'.status = status /\ task'.agent = task.agent /\ task'.mapped = task.mapped
      /\ task'.mixture = task.mixture /\ request' = request /\ docs' = docs
  BY DEF RowKeeps
<1>3. AgentWaits' /\ ReportedIsPaid'
  BY <1>2 DEF MoneyInvariant, AgentWaits, ReportedIsPaid
<1>4. (Chosen' /\ RunHolds') \/ request.strategy = "auto"
  BY <1>2, IdleHoldsNothing DEF MoneyInvariant, Chosen
<1>5. RowHolds' \/ request.strategy = "auto"
  BY <1>1, <1>2 DEF MoneyInvariant, RowHolds, Holds, Outputs, Counts
<1> QED BY <1>1, <1>2, <1>3, <1>4, <1>5 DEF MoneyInvariant

LEMMA EndsAsPays ==
  ASSUME CoordinatorInvariant, MoneyInvariant, NEW status \in {"failed", "cancelled"}, EndsAs(status),
         run.pc # "idle" \/ task.status = "queued"
  PROVE  MoneyInvariant'
<1>1. RowKeeps(status)
  BY StatusWritten DEF CoordinatorInvariant, RowInvariant, EndsAs, Writes
<1> QED BY <1>1, MoneyEnds DEF EndsAs

LEMMA EndsWithPays ==
  ASSUME CoordinatorInvariant, MoneyInvariant, NEW code, EndsWith(code),
         run.pc # "idle" \/ task.status = "queued"
  PROVE  MoneyInvariant'
<1>1. RowKeeps("failed")
  BY StatusWritten DEF CoordinatorInvariant, RowInvariant, EndsWith, WritesError
<1> QED BY <1>1, MoneyEnds DEF EndsWith

LEMMA FailsPays ==
  ASSUME CoordinatorInvariant, MoneyInvariant, NEW code, Fails(code), run.pc # "idle"
  PROVE  MoneyInvariant'
<1>1. /\ DOMAIN task = RowFields /\ run' = Idle /\ UNCHANGED <<request, docs>>
  BY DEF CoordinatorInvariant, RowInvariant, Fails
<1>2. CASE Writes("cancelled") /\ UNCHANGED bill
  BY <1>1, <1>2, StatusWritten, MoneyEnds DEF Writes
<1>3. CASE WritesError(code) /\ UNCHANGED bill
  BY <1>1, <1>3, StatusWritten, MoneyEnds DEF WritesError
<1>4. CASE RetriesAfterOutage(code)
  BY <1>1, <1>4, StatusWritten, MoneyEnds DEF RetriesAfterOutage, Writes
<1> QED BY <1>2, <1>3, <1>4 DEF Fails

\* The coroutine goes on and may have paid a call.
LEMMA MoneyGoesOn ==
  ASSUME CoordinatorInvariant, MoneyInvariant, UNCHANGED <<request, docs>>,
         (task' = task /\ run.pc # "idle") \/ Writes("active"),
         run.pc # "idle" \/ task.status = "queued", run'.pc # "idle",
         NEW c \in Nat, BillMoves(c),
         request.strategy # "auto" => RunHolds',
         /\ run'.pc \in {"agent"} \cup TalkPlaces => request.strategy \in {"agent", "auto"}
         /\ run'.pc \in {"map_plan"} \cup MapPlaces => request.strategy \in {"map_reduce", "auto"}
         /\ run'.pc \in {"mixture"} \cup MixturePlaces => request.strategy \in {"mixture", "auto"}
         /\ run'.pc \in {"single"} \cup SinglePlaces =>
              request.strategy = "auto" \/ (~run'.escalates /\ run'.pc \notin {"rate_call", "escalate"})
  PROVE  MoneyInvariant'
<1>1. /\ DOMAIN bill' = BillFields /\ bill'.spent \in Nat /\ bill'.kept_spent = bill.kept_spent
      /\ bill'.kept_spent \in Nat
  BY DEF MoneyInvariant, BillMoves
<1>2. /\ task'.agent = task.agent /\ task'.mapped = task.mapped
      /\ task'.mixture = task.mixture /\ request' = request /\ docs' = docs
      /\ task'.status \in {"active", "cancelled"}
  BY DEF CoordinatorInvariant, RowInvariant, Writes, RowFields
<1>3. AgentWaits' /\ ReportedIsPaid'
  BY <1>2 DEF MoneyInvariant, AgentWaits, ReportedIsPaid
<1>4. request.strategy # "auto" => Chosen'
  BY <1>2 DEF MoneyInvariant, Chosen
<1>5. request.strategy # "auto" => RowHolds'
  BY <1>1, <1>2 DEF MoneyInvariant, RowHolds, Holds, Outputs, Counts
<1> QED BY <1>1, <1>2, <1>3, <1>4, <1>5 DEF MoneyInvariant

\* An answer is delivered with what it has cost.
LEMMA MoneyCompletes ==
  ASSUME CoordinatorInvariant, MoneyInvariant, UNCHANGED <<request, docs, bill>>, run' = Idle,
         run.pc # "idle", NEW result,
         task' = [task EXCEPT !.status = "completed", !.result = result],
         \/ request.strategy = "auto" \/ result.of = "single" \/ result.cost = bill.spent
         \/ /\ (result.of = "mixture" /\ result.abandoned) \/ docs > 0
            /\ result.cost <= bill.spent
  PROVE  MoneyInvariant'
<1>1. /\ task'.status = "completed" /\ task'.result = result
      /\ task'.agent = task.agent /\ task'.mapped = task.mapped
      /\ task'.mixture = task.mixture /\ request' = request /\ docs' = docs /\ bill' = bill
  BY DEF CoordinatorInvariant, RowInvariant, RowFields
<1>2. AgentWaits' /\ ReportedIsPaid'
  BY <1>1 DEF MoneyInvariant, AgentWaits, ReportedIsPaid
<1>3. request.strategy # "auto" => Chosen' /\ RunHolds'
  BY <1>1, IdleHoldsNothing DEF MoneyInvariant, Chosen
<1>4. request.strategy # "auto" => RowHolds'
  BY <1>1 DEF MoneyInvariant, RowHolds, Holds, Outputs, Counts
<1> QED BY <1>1, <1>2, <1>3, <1>4 DEF MoneyInvariant

LEMMA CompletesSinglePays ==
  ASSUME CoordinatorInvariant, MoneyInvariant, NEW here, NEW result, CompletesSingle(here, result),
         run.pc # "idle",
         \/ request.strategy = "auto" \/ result.of = "single" \/ result.cost = bill.spent
         \/ /\ (result.of = "mixture" /\ result.abandoned) \/ docs > 0
            /\ result.cost <= bill.spent
  PROVE  MoneyInvariant'
<1>1. CASE Fails("TASK_CANCELLED")
  BY <1>1, FailsPays
<1>2. CASE ~Fails("TASK_CANCELLED")
  BY <1>2, MoneyCompletes DEF CompletesSingle
<1> QED BY <1>1, <1>2

\* None is a name of its own: no checkpoint, place or result is mistaken for the lack of
\* one.
AgentFields == {"at", "open", "resumed", "cost"}
NoneIsNoRecord == {"pc", "at", "of"} \cap DOMAIN None = {}

LEMMA CheckpointIsNotNone ==
  ASSUME NoneIsNoRecord, NEW state, DOMAIN state \in {AgentFields, MapFields, MixtureFields}
  PROVE  state # None
BY DEF NoneIsNoRecord, AgentFields, MapFields, MixtureFields

\* A run gives way: its checkpoint holds what was spent.
LEMMA YieldsPays ==
  ASSUME NoneIsNoRecord, CoordinatorInvariant, MoneyInvariant, NEW column \in {"agent", "mapped", "mixture"}, NEW state,
         Yields(column, state), run.pc # "idle", DOMAIN state \in {AgentFields, MapFields, MixtureFields},
         column = "agent" => /\ request.strategy \in {"agent", "auto"} /\ state.resumed
                             /\ request.strategy # "auto" => state.cost = bill.spent,
         column = "mapped" => /\ request.strategy \in {"map_reduce", "auto"}
                              /\ request.strategy # "auto" => Holds(state, bill.spent),
         column = "mixture" => request.strategy = "mixture" /\ Counts(state) /\ Outputs(state) = bill.spent
  PROVE  MoneyInvariant'
<1>1. /\ DOMAIN bill' = BillFields /\ bill'.spent = bill.spent /\ bill'.kept_spent = bill.spent
      /\ bill.spent \in Nat
  BY BillFrozen DEF MoneyInvariant, Yields
<1>2. /\ task'.status = "queued" /\ request' = request /\ docs' = docs /\ run' = Idle
      /\ task'.agent = IF column = "agent" THEN state ELSE task.agent
      /\ task'.mapped = IF column = "mapped" THEN state ELSE task.mapped
      /\ task'.mixture = IF column = "mixture" THEN state ELSE task.mixture
  BY DEF CoordinatorInvariant, RowInvariant, RowFields, Yields
<1>3. AgentWaits' /\ ReportedIsPaid'
  BY <1>2 DEF MoneyInvariant, AgentWaits, ReportedIsPaid
<1>4. request.strategy # "auto" => Chosen' /\ RunHolds'
  BY <1>2, IdleHoldsNothing DEF MoneyInvariant, Chosen
<1>5. request.strategy # "auto" => RowHolds'
  <2>1. task.mixture # None => request.strategy = "mixture"
    BY DEF CoordinatorInvariant, RowInvariant, CheckpointsHeld
  <2>2. SUFFICES ASSUME request.strategy # "auto" PROVE RowHolds'
    OBVIOUS
  <2>3. Chosen
    BY <2>2 DEF MoneyInvariant
  <2>4. state # None
    BY CheckpointIsNotNone
  <2>5. CASE column = "agent"
    <3>1. task'.agent = state /\ task'.mapped = None /\ task'.mixture = None
      BY <1>2, <2>1, <2>2, <2>3, <2>5 DEF Chosen
    <3> QED BY <1>1, <2>2, <2>4, <2>5, <3>1 DEF RowHolds
  <2>6. CASE column = "mapped"
    <3>1. task'.agent = None /\ task'.mapped = state /\ task'.mixture = None
      BY <1>2, <2>1, <2>2, <2>3, <2>6 DEF Chosen
    <3> QED BY <1>1, <1>2, <2>2, <2>4, <2>6, <3>1 DEF RowHolds, Holds
  <2>7. CASE column = "mixture"
    <3>1. task'.agent = None /\ task'.mapped = None /\ task'.mixture = state
      BY <1>2, <2>1, <2>2, <2>3, <2>7 DEF Chosen
    <3> QED BY <1>1, <2>4, <2>7, <3>1 DEF RowHolds, Outputs, Counts
  <2> QED BY <2>5, <2>6, <2>7
<1> QED BY <1>1, <1>2, <1>3, <1>4, <1>5 DEF MoneyInvariant

----------------------------------------------------------------------------
(* The money of each strategy.                                             *)

LEMMA MapPays ==
  ASSUME CoordinatorInvariant, MoneyInvariant, UNCHANGED <<request, docs>>,
         task' = task \/ Writes("active"),
         run.pc \in MapPlaces \cup {"map_plan"}, run'.pc \in MapPlaces, NEW c \in Nat, BillMoves(c),
         request.strategy # "auto" => Holds(run, bill.spent)'
  PROVE  MoneyInvariant'
<1>1. /\ run'.pc \notin SinglePlaces \cup TalkPlaces \cup MixturePlaces
                         \cup {"idle", "single", "mixture", "agent", "map_plan"}
      /\ run.pc # "idle"
  BY PlacesApart
<1>2. request.strategy \in {"map_reduce", "auto"}
  BY DEF MoneyInvariant, Chosen
<1>3. request.strategy # "auto" => RunHolds'
  BY <1>1 DEF RunHolds
<1> QED BY <1>1, <1>2, <1>3, MoneyGoesOn

\* A step among the chunks adds to what the run holds what it adds to the bill.
LEMMA MapPaysMore ==
  ASSUME CoordinatorInvariant, MoneyInvariant, UNCHANGED <<request, docs>>,
         task' = task \/ Writes("active"),
         run.pc \in MapPlaces, run'.pc \in MapPlaces, NEW c \in Nat, BillMoves(c),
         run'.docs = run.docs, run'.spent = run.spent + c
  PROVE  MoneyInvariant'
<1>1. ASSUME request.strategy # "auto" PROVE Holds(run, bill.spent)'
  <2>1. Holds(run, bill.spent) /\ bill.spent \in Nat
    BY <1>1 DEF MoneyInvariant, RunHolds
  <2> QED BY <2>1 DEF Holds, BillMoves
<1> QED BY <1>1, MapPays

LEMMA ChunksBeginPaid ==
  ASSUME CoordinatorInvariant, MoneyInvariant, ResumeChunks \/ SplitDocuments
  PROVE  MoneyInvariant'
<1>1. run.pc = "map_plan" /\ "map" \in MapPlaces /\ "merge" \in MapPlaces
  BY DEF ResumeChunks, SplitDocuments, MapPlaces
<1>2. bill' = bill => BillMoves(0)
  BY BillMoved DEF MoneyInvariant
<1>3. request.strategy # "auto" => bill.spent = bill.kept_spent /\ request.strategy = "map_reduce" /\ RowHolds
  BY <1>1 DEF MoneyInvariant, RunHolds, Chosen
<1>4. CASE ResumeChunks
  <2>1. /\ task.mapped # None /\ task.mapped.docs = docs
        /\ run' = [task.mapped EXCEPT !.docs = docs]
        /\ UNCHANGED <<request, docs, bill>> /\ Writes("active")
    BY <1>4 DEF ResumeChunks, Usable, SameChunks, Resumed, GoesOn
  <2>2. DOMAIN task.mapped = MapFields /\ task.mapped.pc \in {"map", "merge"} /\ docs \in Nat
    BY <2>1 DEF CoordinatorInvariant, RowInvariant, CheckpointsHeld
  <2>3. run'.pc = task.mapped.pc /\ run'.docs = docs /\ run'.spent = task.mapped.spent
    BY <2>1, <2>2 DEF MapFields
  <2>4. request.strategy # "auto" => Holds(run, bill.spent)'
    BY <1>3, <2>1, <2>2, <2>3 DEF RowHolds, Holds
  <2> QED BY <1>1, <1>2, <2>1, <2>2, <2>3, <2>4, MapPays
<1>5. CASE SplitDocuments
  <2>1. CASE \E code : Fails(code)
    BY <1>1, <2>1, FailsPays
  <2>2. CASE Writes("active") /\ GoesOn(Mapping("map")) /\ UNCHANGED bill
    <3>1. run'.pc = "map" /\ run'.docs = docs /\ run'.spent = 0 /\ UNCHANGED <<request, docs>>
      BY <2>2 DEF GoesOn, Mapping
    <3>2. docs \in Nat /\ (task.mapped # None => OfOne(task.mapped)) /\ bill.spent \in Nat
      BY DEF CoordinatorInvariant, RowInvariant, CheckpointsHeld, MoneyInvariant
    <3>3. ASSUME request.strategy # "auto", docs = 0 PROVE bill.spent = 0
      <4>1. task.mapped = None
        BY <1>3, <1>5, <3>2, <3>3 DEF RowHolds, Holds, OfOne, SplitDocuments, Usable, SameChunks
      <4>2. task.agent = None /\ task.mixture = None
        BY <1>3, <3>3 DEF MoneyInvariant, Chosen, CoordinatorInvariant, RowInvariant, CheckpointsHeld
      <4> QED BY <1>3, <3>3, <4>1, <4>2 DEF RowHolds
    <3>4. request.strategy # "auto" => Holds(run, bill.spent)'
      BY <2>2, <3>1, <3>2, <3>3 DEF Holds
    <3> QED BY <1>1, <1>2, <2>2, <3>1, <3>4, MapPays
  <2>3. CASE GoesOn([pc |-> "single", escalates |-> FALSE]) /\ UNCHANGED <<task, bill>>
    <3>1. /\ run'.pc = "single" /\ ~run'.escalates /\ UNCHANGED <<request, docs>>
          /\ run'.pc \notin MapPlaces \cup SinglePlaces \cup TalkPlaces \cup MixturePlaces
      BY <2>3, PlacesApart DEF GoesOn
    <3>2. RunHolds'
      BY <3>1 DEF RunHolds
    <3> QED BY <1>1, <1>2, <2>3, <3>1, <3>2, MoneyGoesOn
  <2> QED BY <1>5, <2>1, <2>2, <2>3 DEF SplitDocuments
<1> QED BY <1>4, <1>5

\* A call among the chunks is paid.
LEMMA ChunksPay ==
  ASSUME CoordinatorInvariant, MoneyInvariant, ChunkAnswered \/ GroupAnswered \/ LastAnswered
  PROVE  MoneyInvariant'
<1>1. run.pc \in MapPlaces
  BY DEF ChunkAnswered, GroupAnswered, LastAnswered, Answered, MapPlaces
<1>2. DOMAIN run = MapFields
  BY <1>1, FieldsOf DEF CoordinatorInvariant, RunInvariant
<1>3. ASSUME NEW here, NEW step, NEW local, Answered(here, step, local), DOMAIN local = MapFields,
             local.pc \in MapPlaces, local.docs = run.docs, local.spent = run.spent
      PROVE  MoneyInvariant'
  <2>1. PICK c \in Costs : Pays(step, c) /\ run' = [local EXCEPT !.spent = local.spent + c]
    BY <1>3 DEF Answered, GoesOn
  <2>2. run'.pc \in MapPlaces /\ run'.docs = run.docs /\ run'.spent = run.spent + c
    BY <1>3, <2>1 DEF MapFields
  <2>3. c \in Nat /\ BillMoves(c)
    BY <2>1, BillMoved, CostsAssumption DEF MoneyInvariant
  <2> QED BY <1>1, <1>3, <2>2, <2>3, MapPaysMore DEF Answered, GoesOn
<1>4. CASE ChunkAnswered
  <2> DEFINE local == [run EXCEPT !.pc = "map_done", !.partials = Append(@, run.docs)]
  <2>1. Answered("map_call", <<"map", run.docs, Len(run.partials) + 1>>, local)
    BY <1>4 DEF ChunkAnswered
  <2>2. /\ DOMAIN local = MapFields /\ local.pc \in MapPlaces /\ local.docs = run.docs
        /\ local.spent = run.spent
    BY <1>2 DEF MapFields, MapPlaces
  <2> HIDE DEF local
  <2> QED BY <1>3, <2>1, <2>2
<1>5. CASE GroupAnswered
  <2> DEFINE local == [run EXCEPT !.pc = "merge_done", !.merged = @ + 1]
  <2>1. PICK step : Answered("merge_call", step, local)
    BY <1>5 DEF GroupAnswered
  <2>2. /\ DOMAIN local = MapFields /\ local.pc \in MapPlaces /\ local.docs = run.docs
        /\ local.spent = run.spent
    BY <1>2 DEF MapFields, MapPlaces
  <2> HIDE DEF local
  <2> QED BY <1>3, <2>1, <2>2
<1>6. CASE LastAnswered
  <2> DEFINE local == [run EXCEPT !.pc = "final_done"]
  <2>1. PICK step : Answered("final_call", step, local)
    BY <1>6 DEF LastAnswered
  <2>2. /\ DOMAIN local = MapFields /\ local.pc \in MapPlaces /\ local.docs = run.docs
        /\ local.spent = run.spent
    BY <1>2 DEF MapFields, MapPlaces
  <2> HIDE DEF local
  <2> QED BY <1>3, <2>1, <2>2
<1> QED BY <1>4, <1>5, <1>6

\* The steps among the chunks that pay nothing.
LEMMA ChunksMoveUnpaid ==
  ASSUME CoordinatorInvariant, MoneyInvariant,
         \/ NextChunk \/ MergeGroup \/ ChunkKept \/ GroupKept \/ AskAfterChunk \/ AskAfterGroup
         \/ ChunksDone \/ ReduceRound \/ GroupsDone \/ LastCall \/ LastKept
  PROVE  MoneyInvariant'
<1>1. run.pc \in MapPlaces /\ run.pc # "idle"
  BY DEF NextChunk, MergeGroup, ChunkKept, GroupKept, AnswerKept, AskAfterChunk, AskAfterGroup, AsksToYield,
    ChunksDone, ReduceRound, GroupsDone, LastCall, LastKept, MapPlaces
<1>2. DOMAIN run = MapFields
  BY <1>1, FieldsOf DEF CoordinatorInvariant, RunInvariant
<1>3. CASE \E code : Fails(code)
  BY <1>1, <1>3, FailsPays
<1>4. CASE EndsAs("cancelled")
  BY <1>1, <1>4, EndsAsPays
<1>5. CASE ~ (\E code : Fails(code)) /\ ~EndsAs("cancelled")
  <2>1. run'.pc \in MapPlaces /\ run'.docs = run.docs /\ run'.spent = run.spent
    <3>1. CASE NextChunk \/ MergeGroup
      BY <1>2, <1>5, <3>1 DEF NextChunk, MergeGroup, Guarded, GoesOn, MapFields, MapPlaces
    <3>2. CASE ChunkKept \/ GroupKept
      BY <1>2, <1>5, <3>2 DEF ChunkKept, GroupKept, AnswerKept, GoesOn, MapFields, MapPlaces
    <3>3. CASE AskAfterChunk \/ AskAfterGroup
      BY <1>2, <3>3 DEF AskAfterChunk, AskAfterGroup, AsksToYield, MapFields, MapPlaces
    <3>4. CASE ChunksDone \/ GroupsDone
      <4>1. PICK n : run' = [run EXCEPT !.pc = "reduce", !.input = n]
        BY <3>4 DEF ChunksDone, GroupsDone, GoesOn
      <4> QED BY <1>2, <4>1 DEF MapFields, MapPlaces
    <3>5. CASE ReduceRound
      <4>1. PICK g : run' = [run EXCEPT !.pc = IF g = 1 THEN "final" ELSE "merge",
                                        !.rounds = @ + 1, !.groups = g, !.merged = 0]
        BY <1>5, <3>5 DEF ReduceRound, GoesOn
      <4> QED BY <1>2, <4>1 DEF MapFields, MapPlaces
    <3>6. CASE LastCall \/ LastKept
      BY <1>2, <1>5, <3>6 DEF LastCall, LastKept, GoesOn, MapFields, MapPlaces
    <3> QED BY <3>1, <3>2, <3>3, <3>4, <3>5, <3>6
  <2>2. UNCHANGED <<request, docs, bill>> /\ (task' = task \/ Writes("active"))
    BY <1>5 DEF NextChunk, MergeGroup, Guarded, ChunkKept, GroupKept, AnswerKept, AskAfterChunk,
      AskAfterGroup, AsksToYield, ChunksDone, ReduceRound, GroupsDone, LastCall, LastKept, GoesOn
  <2>3. ASSUME request.strategy # "auto" PROVE Holds(run, bill.spent)'
    BY <1>1, <2>1, <2>2, <2>3 DEF MoneyInvariant, RunHolds, Holds
  <2>4. BillMoves(0)
    BY <2>2, BillMoved DEF MoneyInvariant
  <2> QED BY <1>1, <2>1, <2>2, <2>3, <2>4, MapPays
<1> QED BY <1>3, <1>4, <1>5

LEMMA MapReducePays ==
  ASSUME NoneIsNoRecord, CoordinatorInvariant, MoneyInvariant, MapReduceNext
  PROVE  MoneyInvariant'
<1>1. CASE ResumeChunks \/ SplitDocuments
  BY <1>1, ChunksBeginPaid
<1>2. CASE ChunkAnswered \/ GroupAnswered \/ LastAnswered
  BY <1>2, ChunksPay
<1>3. CASE \/ NextChunk \/ MergeGroup \/ ChunkKept \/ GroupKept \/ AskAfterChunk \/ AskAfterGroup
           \/ ChunksDone \/ ReduceRound \/ GroupsDone \/ LastCall \/ LastKept
  BY <1>3, ChunksMoveUnpaid
<1>4. CASE YieldAfterChunk \/ YieldAfterGroup
  <2>1. PICK phase \in {"map", "merge"} : Yields("mapped", KeptIn(phase))
    BY <1>4 DEF YieldAfterChunk, YieldAfterGroup
  <2>2. run.pc \in MapPlaces /\ run.pc # "idle"
    BY <1>4 DEF YieldAfterChunk, YieldAfterGroup, MapPlaces
  <2>3. DOMAIN run = MapFields
    BY <2>2, FieldsOf DEF CoordinatorInvariant, RunInvariant
  <2>4. /\ DOMAIN KeptIn(phase) = MapFields /\ KeptIn(phase).docs = run.docs
        /\ KeptIn(phase).spent = run.spent
    BY <2>3 DEF KeptIn, MapFields
  <2>5. request.strategy # "auto" => request.strategy = "map_reduce" /\ Holds(KeptIn(phase), bill.spent)
    BY <2>2, <2>4 DEF MoneyInvariant, Chosen, RunHolds, Holds
  <2> QED BY <2>1, <2>2, <2>4, <2>5, YieldsPays
<1>5. CASE SaveSynthesis
  <2> DEFINE result == [of |-> "chunks", partials |-> run.partials, cost |-> run.spent]
  <2>1. CompletesSingle("final_save", result) /\ run.pc = "final_save" /\ run.pc \in MapPlaces
    BY <1>5 DEF SaveSynthesis, CompletesSingle, MapPlaces
  <2>2. result.cost = run.spent
    OBVIOUS
  <2> HIDE DEF result
  <2>3. docs \in Nat /\ (request.strategy # "auto" => Holds(run, bill.spent))
    BY <2>1 DEF MoneyInvariant, RunHolds, CoordinatorInvariant, RowInvariant
  <2>4. \/ request.strategy = "auto" \/ result.cost = bill.spent
        \/ docs > 0 /\ result.cost <= bill.spent
    BY <2>2, <2>3 DEF Holds
  <2> QED BY <2>1, <2>4, CompletesSinglePays
<1>6. CASE CallFailed
  BY <1>6, FailsPays DEF CallFailed
<1> QED BY <1>1, <1>2, <1>3, <1>4, <1>5, <1>6 DEF MapReduceNext

LEMMA SinglePays ==
  ASSUME CoordinatorInvariant, MoneyInvariant, UNCHANGED <<request, docs>>,
         task' = task \/ Writes("active"),
         run.pc \in SinglePlaces \cup {"single"}, run'.pc \in SinglePlaces, NEW c \in Nat, BillMoves(c),
         run'.escalates = run.escalates,
         run'.pc \in {"rate_call", "escalate"} => run.escalates
  PROVE  MoneyInvariant'
<1>1. /\ run'.pc \notin MapPlaces \cup TalkPlaces \cup MixturePlaces
                         \cup {"idle", "single", "mixture", "agent", "map_plan"}
      /\ run.pc # "idle"
  BY PlacesApart
<1>2. request.strategy = "auto" \/ (~run'.escalates /\ run'.pc \notin {"rate_call", "escalate"})
  BY DEF MoneyInvariant, Chosen
<1>3. RunHolds'
  BY <1>1 DEF RunHolds
<1> QED BY <1>1, <1>2, <1>3, MoneyGoesOn

LEMMA SingleNextPays ==
  ASSUME CoordinatorInvariant, MoneyInvariant, SingleNext
  PROVE  MoneyInvariant'
<1> DEFINE Fields == {"pc", "escalates", "spent"}
<1>1. /\ run.pc \in {"single"} \cup SinglePlaces /\ run.pc # "idle"
      /\ run.pc \in SinglePlaces => DOMAIN run = Fields
      /\ run.pc = "single" => DOMAIN run = {"pc", "escalates"}
      /\ run.pc \in {"rate_call", "escalate"} => request.strategy = "auto"
  <2>1. run.pc \in {"single"} \cup SinglePlaces /\ run.pc # "idle"
    BY DEF SingleNext, SelectSingle, SingleAnswered, SingleFailed, SingleKept, SaveSingle, CompletesSingle,
      Rated, RatingFailed, Escalate, SinglePlaces
  <2> QED BY <2>1, FieldsOf DEF CoordinatorInvariant, RunInvariant, MoneyInvariant, Chosen
<1>2. bill' = bill => BillMoves(0)
  BY BillMoved DEF MoneyInvariant
<1>3. CASE \E code : Fails(code)
  BY <1>1, <1>3, FailsPays
<1>4. CASE EndsAs("cancelled")
  BY <1>1, <1>4, EndsAsPays
<1>5. CASE SaveSingle
  <2> DEFINE result == [of |-> "single"]
  <2>1. CompletesSingle("single_save", result) /\ result.of = "single"
    BY <1>5 DEF SaveSingle
  <2> HIDE DEF result
  <2> QED BY <1>1, <2>1, CompletesSinglePays
<1>6. CASE SelectSingle /\ ~ \E code : Fails(code)
  <2>1. /\ run' = [pc |-> "single_call", escalates |-> run.escalates, spent |-> 0]
        /\ UNCHANGED <<request, docs, bill>> /\ Writes("active") /\ run.pc = "single"
    BY <1>6 DEF SelectSingle, GoesOn
  <2>2. run'.pc = "single_call" /\ run'.escalates = run.escalates /\ run'.pc \in SinglePlaces
    BY <2>1 DEF SinglePlaces
  <2> QED BY <1>1, <1>2, <2>1, <2>2, SinglePays
<1>7. CASE SingleAnswered \/ Rated
  <2>1. PICK c \in Costs : \E pc \in {"single_done", "single_save", "escalate"} :
          /\ \E step : Pays(step, c)
          /\ \E spent : run' = [run EXCEPT !.pc = pc, !.spent = spent]
          /\ pc = "escalate" => run.pc = "rate_call"
    <3>1. CASE SingleAnswered
      <4>1. PICK c \in Costs : Pays(<<"single">>, c) /\ run' = [run EXCEPT !.pc = "single_done", !.spent = c]
        BY <3>1 DEF SingleAnswered, GoesOn
      <4>2. (\E step : Pays(step, c)) /\ \E spent : run' = [run EXCEPT !.pc = "single_done", !.spent = spent]
        BY <4>1, Zenon
      <4> QED BY <4>2
    <3>2. CASE Rated
      <4>1. PICK c \in Costs : \E next \in {"single_save", "escalate"} :
              Pays(<<"rate">>, c) /\ run' = [run EXCEPT !.pc = next, !.spent = run.spent + c]
        BY <3>2, Zenon DEF Rated, GoesOn
      <4>2. PICK next \in {"single_save", "escalate"} :
              Pays(<<"rate">>, c) /\ run' = [run EXCEPT !.pc = next, !.spent = run.spent + c]
        BY <4>1
      <4>3. (\E step : Pays(step, c)) /\ \E spent : run' = [run EXCEPT !.pc = next, !.spent = spent]
        BY <4>2, Zenon
      <4>4. run.pc = "rate_call"
        BY <3>2 DEF Rated
      <4> QED BY <4>3, <4>4
    <3> QED BY <1>7, <3>1, <3>2
  <2>2. UNCHANGED <<request, docs, task>> /\ run.pc \in SinglePlaces
    BY <1>7 DEF SingleAnswered, Rated, GoesOn, SinglePlaces
  <2>3. PICK pc \in {"single_done", "single_save", "escalate"} :
          /\ run'.pc = pc /\ run'.escalates = run.escalates
          /\ pc = "escalate" => run.pc = "rate_call"
    BY <1>1, <2>1, <2>2
  <2>4. c \in Nat /\ BillMoves(c) /\ pc \in SinglePlaces /\ pc # "rate_call"
    BY <2>1, BillMoved, CostsAssumption DEF MoneyInvariant, SinglePlaces
  <2>5. CASE request.strategy = "auto"
    <3>1. run'.pc \notin MapPlaces \cup TalkPlaces \cup MixturePlaces
                          \cup {"idle", "single", "mixture", "agent", "map_plan"}
      BY <2>3, <2>4, PlacesApart
    <3> QED BY <1>1, <2>2, <2>3, <2>4, <2>5, <3>1, MoneyGoesOn
  <2>6. CASE request.strategy # "auto"
    <3>1. run'.pc \in {"rate_call", "escalate"} => run.escalates
      BY <1>1, <2>3, <2>6
    <3> QED BY <1>1, <2>2, <2>3, <2>4, <3>1, SinglePays
  <2> QED BY <2>5, <2>6
<1>8. CASE (SingleKept /\ ~EndsAs("cancelled")) \/ RatingFailed
  <2>1. PICK pc \in {"rate_call", "single_save"} :
          run' = [run EXCEPT !.pc = pc] /\ (pc = "rate_call" => run.escalates)
    BY <1>8 DEF SingleKept, RatingFailed, GoesOn
  <2>2. UNCHANGED <<request, docs, task, bill>> /\ run.pc \in SinglePlaces
    BY <1>8 DEF SingleKept, RatingFailed, GoesOn, SinglePlaces
  <2>3. run'.pc = pc /\ run'.escalates = run.escalates /\ pc \in SinglePlaces
    BY <1>1, <2>1, <2>2 DEF SinglePlaces
  <2> QED BY <1>1, <1>2, <2>1, <2>2, <2>3, SinglePays
<1>9. CASE Escalate /\ ~ \E code : Fails(code)
  <2>1. /\ run.pc = "escalate" /\ UNCHANGED <<request, docs, task, bill>>
        /\ run' = ToMixture(Remaining(run.spent, request.max), "fast", "sequential")
    BY <1>9 DEF Escalate, GoesOn
  <2>2. run'.pc = "mixture" /\ request.strategy = "auto"
    BY <1>1, <2>1 DEF ToMixture
  <2>3. run'.pc \notin MapPlaces \cup TalkPlaces \cup MixturePlaces \cup SinglePlaces
    BY <2>2, PlacesApart
  <2> QED BY <1>1, <1>2, <2>1, <2>2, <2>3, MoneyGoesOn
<1> QED BY <1>3, <1>4, <1>5, <1>6, <1>7, <1>8, <1>9
      DEF SingleNext, SelectSingle, SingleFailed, SingleKept, Escalate

LEMMA TalkPays ==
  ASSUME CoordinatorInvariant, MoneyInvariant, UNCHANGED <<request, docs>>,
         task' = task \/ Writes("active"),
         run.pc \in TalkPlaces, run'.pc \in TalkPlaces, NEW c \in Nat, BillMoves(c),
         run'.prior = run.prior, run'.spent = run.spent + c
  PROVE  MoneyInvariant'
<1>1. /\ run'.pc \notin SinglePlaces \cup MapPlaces \cup MixturePlaces
                         \cup {"idle", "single", "mixture", "agent", "map_plan"}
      /\ run.pc # "idle"
  BY PlacesApart
<1>2. request.strategy \in {"agent", "auto"}
  BY DEF MoneyInvariant, Chosen
<1>3. ASSUME request.strategy # "auto" PROVE RunHolds'
  <2>1. run.prior \in Nat /\ run.spent \in Nat /\ run.prior + run.spent = bill.spent
    BY <1>3 DEF MoneyInvariant, RunHolds
  <2>2. run'.prior \in Nat /\ run'.spent \in Nat /\ run'.prior + run'.spent = bill'.spent
    BY <2>1 DEF BillMoves
  <2> QED BY <1>1, <2>2 DEF RunHolds
<1> QED BY <1>1, <1>2, <1>3, MoneyGoesOn

\* Leaving the loop forgets nothing of what was spent.
LEMMA LeavesPaid ==
  ASSUME DOMAIN run = TalkFields, NEW why
  PROVE  /\ Leaves(why).pc = "agent_exit" /\ Leaves(why).prior = run.prior /\ Leaves(why).spent = run.spent
         /\ \A c : LET paid == [Leaves(why) EXCEPT !.spent = Leaves(why).spent + c]
                   IN paid.pc = "agent_exit" /\ paid.prior = run.prior /\ paid.spent = run.spent + c
<1>1. /\ DOMAIN Leaves(why) = TalkFields /\ Leaves(why).pc = "agent_exit"
      /\ Leaves(why).prior = run.prior /\ Leaves(why).spent = run.spent
  BY DEF Leaves, TalkFields
<1> QED BY <1>1 DEF TalkFields

LEMMA AgentBeginsPaid ==
  ASSUME CoordinatorInvariant, MoneyInvariant, SelectAgent
  PROVE  MoneyInvariant'
<1>1. run.pc = "agent" /\ run.pc # "idle"
  BY DEF SelectAgent
<1>2. CASE Fails("PROVIDER_ERROR")
  BY <1>1, <1>2, FailsPays
<1>3. CASE Writes("active") /\ GoesOn(Talk(task.agent)) /\ UNCHANGED bill
  <2>1. /\ run' = Talk(task.agent) /\ UNCHANGED <<request, docs, bill>> /\ "turn" \in TalkPlaces
    BY <1>3 DEF GoesOn, TalkPlaces
  <2>2. /\ run'.pc = "turn" /\ run'.spent = 0
        /\ run'.prior = IF task.agent # None /\ task.agent.resumed THEN task.agent.cost ELSE 0
    BY <2>1 DEF Talk
  <2>3. run'.pc \notin SinglePlaces \cup MapPlaces \cup MixturePlaces
                        \cup {"idle", "single", "mixture", "agent", "map_plan"}
    BY <2>1, <2>2, PlacesApart
  <2>4. request.strategy \in {"agent", "auto"}
    BY <1>1 DEF MoneyInvariant, Chosen
  <2>5. ASSUME request.strategy # "auto" PROVE RunHolds'
    <3>1. /\ bill.spent = bill.kept_spent /\ bill.kept_spent \in Nat
          /\ task.agent # None => task.agent.resumed /\ task.agent.cost = bill.kept_spent
      BY <1>1, <2>5 DEF MoneyInvariant, AgentWaits, RunHolds, RowHolds
    <3>2. task.agent = None => bill.kept_spent = 0
      <4>1. task.mapped = None /\ task.mixture = None
        BY <2>4, <2>5 DEF MoneyInvariant, Chosen, CoordinatorInvariant, RowInvariant, CheckpointsHeld
      <4> QED BY <2>5, <4>1 DEF MoneyInvariant, RowHolds
    <3>3. run'.prior \in Nat /\ run'.prior = bill'.spent
      BY <2>1, <2>2, <3>1, <3>2
    <3> QED BY <2>2, <2>3, <3>3 DEF RunHolds
  <2>6. BillMoves(0)
    BY <2>1, BillMoved DEF MoneyInvariant
  <2> QED BY <1>1, <1>3, <2>1, <2>2, <2>3, <2>4, <2>5, <2>6, MoneyGoesOn
<1> QED BY <1>2, <1>3 DEF SelectAgent

LEMMA TurnsPay ==
  ASSUME CoordinatorInvariant, MoneyInvariant, TurnAnswered \/ LastTurnAnswered
  PROVE  MoneyInvariant'
<1>1. run.pc \in TalkPlaces /\ UNCHANGED <<request, docs, task>>
  BY DEF TurnAnswered, LastTurnAnswered, TalkPlaces, GoesOn
<1>2. DOMAIN run = TalkFields
  BY <1>1, FieldsOf DEF CoordinatorInvariant, RunInvariant
<1>3. PICK c \in Costs :
        /\ \E step : Pays(step, c)
        /\ \/ run' = [Leaves("answer") EXCEPT !.spent = Leaves("answer").spent + c]
           \/ \E calls : run' = [run EXCEPT !.pc = "tools", !.at = run.at + 1, !.spent = run.spent + c,
                                            !.open = run.open \cup calls]
  <2>1. CASE TurnAnswered
    <3>1. PICK c \in Costs :
            /\ Pays(<<"turn", run.at + 1>>, c)
            /\ \/ run' = [Leaves("answer") EXCEPT !.spent = Leaves("answer").spent + c]
               \/ \E calls \in SUBSET request.tools :
                    run' = [run EXCEPT !.pc = "tools", !.at = run.at + 1, !.spent = run.spent + c,
                                       !.open = run.open \cup calls]
      BY <2>1 DEF TurnAnswered, GoesOn
    <3>2. \E step : Pays(step, c)
      BY <3>1, Zenon
    <3> QED BY <3>1, <3>2
  <2>2. CASE LastTurnAnswered
    <3>1. PICK c \in Costs :
            Pays(<<"closing">>, c) /\ run' = [Leaves("answer") EXCEPT !.spent = Leaves("answer").spent + c]
      BY <2>2 DEF LastTurnAnswered, GoesOn
    <3>2. \E step : Pays(step, c)
      BY <3>1, Zenon
    <3> QED BY <3>1, <3>2
  <2> QED BY <2>1, <2>2
<1>4. c \in Nat /\ BillMoves(c)
  BY <1>3, BillMoved, CostsAssumption DEF MoneyInvariant
<1>5. run'.pc \in TalkPlaces /\ run'.prior = run.prior /\ run'.spent = run.spent + c
  <2>1. CASE run' = [Leaves("answer") EXCEPT !.spent = Leaves("answer").spent + c]
    BY <1>2, <2>1, LeavesPaid DEF TalkPlaces
  <2>2. CASE \E calls : run' = [run EXCEPT !.pc = "tools", !.at = run.at + 1, !.spent = run.spent + c,
                                           !.open = run.open \cup calls]
    BY <1>2, <2>2 DEF TalkFields, TalkPlaces
  <2> QED BY <1>3, <2>1, <2>2
<1> QED BY <1>1, <1>4, <1>5, TalkPays

\* Steps of a conversation that pay nothing.
LEMMA TalkMovesUnpaid ==
  ASSUME CoordinatorInvariant, MoneyInvariant,
         NextTurn \/ ToolsRun \/ AskAfterTurn \/ LastTurn \/ LastTurnFailed \/ LeaveLoop
  PROVE  MoneyInvariant'
<1>1. run.pc \in TalkPlaces /\ run.pc # "idle"
  BY DEF NextTurn, ToolsRun, AskAfterTurn, LastTurn, LastTurnFailed, LeaveLoop, TalkPlaces
<1>2. DOMAIN run = TalkFields
  BY <1>1, FieldsOf DEF CoordinatorInvariant, RunInvariant
<1>3. CASE EndsAs("cancelled")
  BY <1>1, <1>3, EndsAsPays
<1>4. CASE ~EndsAs("cancelled")
  <2>1. UNCHANGED <<request, docs, bill>> /\ (task' = task \/ Writes("active"))
    BY <1>4 DEF NextTurn, DoesNotFit, ToolsRun, AskAfterTurn, LastTurn, LastTurnFailed, LeaveLoop, GoesOn
  <2>2. \/ \E why : run' = Leaves(why)
        \/ \E pc \in {"turn_call", "agent_ask", "turn", "closing_call", "agent_save"} :
             run' = [run EXCEPT !.pc = pc]
    BY <1>4 DEF NextTurn, DoesNotFit, ToolsRun, AskAfterTurn, LastTurn, LastTurnFailed, LeaveLoop, GoesOn
  <2>3. run'.pc \in TalkPlaces /\ run'.prior = run.prior /\ run'.spent = run.spent
    <3>1. CASE \E why : run' = Leaves(why)
      BY <1>2, <3>1, LeavesPaid DEF TalkPlaces
    <3>2. CASE \E pc \in {"turn_call", "agent_ask", "turn", "closing_call", "agent_save"} :
                 run' = [run EXCEPT !.pc = pc]
      BY <1>2, <3>2 DEF TalkFields, TalkPlaces
    <3> QED BY <2>2, <3>1, <3>2
  <2>4. BillMoves(0)
    BY <2>1, BillMoved DEF MoneyInvariant
  <2>5. CASE request.strategy = "auto"
    <3>1. run'.pc \notin SinglePlaces \cup MapPlaces \cup MixturePlaces
                          \cup {"idle", "single", "mixture", "agent", "map_plan"}
      BY <2>3, PlacesApart
    <3> QED BY <1>1, <2>1, <2>3, <2>4, <2>5, <3>1, MoneyGoesOn
  <2>6. CASE request.strategy # "auto"
    <3>1. run'.spent = run.spent + 0
      BY <1>1, <2>3, <2>6 DEF MoneyInvariant, RunHolds
    <3> QED BY <1>1, <2>1, <2>3, <2>4, <3>1, TalkPays
  <2> QED BY <2>5, <2>6
<1> QED BY <1>3, <1>4

LEMMA AgentPays ==
  ASSUME NoneIsNoRecord, CoordinatorInvariant, MoneyInvariant, AgentNext
  PROVE  MoneyInvariant'
<1>1. CASE SelectAgent
  BY <1>1, AgentBeginsPaid
<1>2. CASE TurnAnswered \/ LastTurnAnswered
  BY <1>2, TurnsPay
<1>3. CASE NextTurn \/ ToolsRun \/ AskAfterTurn \/ LastTurn \/ LastTurnFailed \/ LeaveLoop
  BY <1>3, TalkMovesUnpaid
<1>4. CASE TurnFailed
  BY <1>4, FailsPays DEF TurnFailed
<1>5. CASE SaveAnswer \/ PauseForClient \/ YieldAfterTurn
  <2>1. run.pc = "agent_save" /\ run.pc \in TalkPlaces
    BY <1>5 DEF SaveAnswer, PauseForClient, YieldAfterTurn, TalkPlaces
  <2>2. /\ request.strategy \in {"agent", "auto"}
        /\ request.strategy # "auto" => run.prior + run.spent = bill.spent
    BY <2>1 DEF MoneyInvariant, Chosen, RunHolds
  <2>3. CASE SaveAnswer
    <3> DEFINE result == [of |-> "agent", cost |-> run.prior + run.spent]
    <3>1. task' = [task EXCEPT !.status = "completed", !.result = result]
      BY <2>3 DEF SaveAnswer
    <3>2. result.cost = run.prior + run.spent
      OBVIOUS
    <3> HIDE DEF result
    <3> QED BY <2>1, <2>2, <2>3, <3>1, <3>2, MoneyCompletes DEF SaveAnswer
  <2>4. CASE PauseForClient
    <3> DEFINE state == Frozen(FALSE)
    <3>1. /\ DOMAIN state = AgentFields /\ state.cost = run.prior + run.spent
      BY DEF Frozen, AgentFields
    <3>2. /\ task'.status = "waiting_for_tools" /\ task'.agent = state
          /\ task'.mapped = task.mapped /\ task'.mixture = task.mixture
          /\ request' = request /\ docs' = docs /\ run' = Idle
      BY <2>4 DEF CoordinatorInvariant, RowInvariant, RowFields, PauseForClient
    <3> HIDE DEF state
    <3>3. state # None
      BY <3>1, CheckpointIsNotNone
    <3>4. /\ DOMAIN bill' = BillFields /\ bill'.spent = bill.spent /\ bill'.kept_spent = bill.spent
          /\ bill.spent \in Nat
      BY <2>4, BillFrozen DEF MoneyInvariant, PauseForClient
    <3>5. AgentWaits' /\ ReportedIsPaid' /\ RunHolds'
      BY <3>2, IdleHoldsNothing DEF AgentWaits, ReportedIsPaid
    <3>6. ASSUME request.strategy # "auto" PROVE Chosen' /\ RowHolds'
      <4>1. task.mapped = None /\ task.mixture = None
        BY <2>2, <3>6 DEF MoneyInvariant, Chosen, CoordinatorInvariant, RowInvariant, CheckpointsHeld
      <4>2. Chosen'
        BY <2>2, <3>2, <3>6, <4>1, IdleHoldsNothing DEF Chosen
      <4>3. RowHolds'
        BY <2>2, <3>1, <3>3, <3>4, <3>2, <3>6, <4>1 DEF RowHolds
      <4> QED BY <4>2, <4>3
    <3> QED BY <3>4, <3>2, <3>5, <3>6 DEF MoneyInvariant
  <2>5. CASE YieldAfterTurn
    <3>1. /\ DOMAIN Frozen(TRUE) = AgentFields /\ Frozen(TRUE).cost = run.prior + run.spent
          /\ Frozen(TRUE).resumed
      BY DEF Frozen, AgentFields
    <3>2. Yields("agent", Frozen(TRUE))
      BY <2>5 DEF YieldAfterTurn
    <3> QED BY <2>1, <2>2, <3>1, <3>2, YieldsPays
  <2> QED BY <1>5, <2>3, <2>4, <2>5
<1> QED BY <1>1, <1>2, <1>3, <1>4, <1>5 DEF AgentNext

LEMMA MixturePays ==
  ASSUME CoordinatorInvariant, MoneyInvariant, UNCHANGED <<request, docs>>,
         task' = task \/ Writes("active"),
         run.pc \in MixturePlaces \cup {"mixture"}, run'.pc \in MixturePlaces, NEW c \in Nat, BillMoves(c),
         request.strategy # "auto" =>
           /\ Counts(run') /\ Outputs(run') <= bill'.spent
           /\ ~run'.abandoned => Outputs(run') = bill'.spent
  PROVE  MoneyInvariant'
<1>1. /\ run'.pc \notin SinglePlaces \cup MapPlaces \cup TalkPlaces
                         \cup {"idle", "single", "mixture", "agent", "map_plan"}
      /\ run.pc # "idle"
  BY PlacesApart
<1>2. request.strategy \in {"mixture", "auto"}
  BY DEF MoneyInvariant, Chosen
<1>3. request.strategy # "auto" => RunHolds'
  BY <1>1 DEF RunHolds, Counts, Outputs
<1> QED BY <1>1, <1>2, <1>3, MoneyGoesOn

\* What a mixture has spent so far, part by part, before a step that pays something.
LEMMA MixtureCounted ==
  ASSUME CoordinatorInvariant, MoneyInvariant, run.pc \in MixturePlaces
  PROVE  /\ DOMAIN run = MixtureFields /\ run.round \in {1, 2} /\ bill.spent \in Nat
         /\ request.strategy # "auto" =>
              /\ request.strategy = "mixture" /\ Counts(run) /\ Outputs(run) <= bill.spent
              /\ run.pc # "deliver" => ~run.abandoned /\ Outputs(run) = bill.spent
         /\ bill' = bill => BillMoves(0)
<1>1. DOMAIN run = MixtureFields /\ run.round \in {1, 2} /\ bill.spent \in Nat
  BY FieldsOf DEF CoordinatorInvariant, RunInvariant, RunRests, Rests, MoneyInvariant
<1>2. bill' = bill => BillMoves(0)
  BY BillMoved DEF MoneyInvariant
<1>3. ASSUME request.strategy # "auto"
      PROVE  /\ request.strategy = "mixture" /\ Counts(run) /\ Outputs(run) <= bill.spent
             /\ run.pc # "deliver" => ~run.abandoned /\ Outputs(run) = bill.spent
  <2>1. Chosen /\ RunHolds
    BY <1>3 DEF MoneyInvariant
  <2> QED BY <2>1 DEF Chosen, RunHolds, Counts
<1> QED BY <1>1, <1>2, <1>3

\* A step that pays nothing and forgets nothing.
SameCounts ==
  /\ run'.round = run.round /\ run'.cost = run.cost /\ run'.synth = run.synth
  /\ run'.extra = run.extra /\ run'.first = run.first
  /\ run'.degraded = run.degraded /\ run'.abandoned = run.abandoned
Unsynthesized == {"wave", "wave_call", "wave_ask", "wave_save", "synth_call"}
Answered2 == {"synth_done", "synth_ask", "synth_save", "gate", "judge_call", "second", "deliver"}

LEMMA MixtureMovesUnpaid ==
  ASSUME CoordinatorInvariant, MoneyInvariant, UNCHANGED <<request, docs, bill>>,
         task' = task \/ Writes("active"), SameCounts,
         \/ run.pc \in Unsynthesized /\ run'.pc \in Unsynthesized
         \/ /\ run.pc \in Answered2 \ {"deliver"} /\ run'.pc \in Answered2 \ {"synth_done"}
            /\ run.pc = "second" \/ run.degraded => run'.pc = "deliver"
  PROVE  MoneyInvariant'
<1>1. run.pc \in MixturePlaces /\ run'.pc \in MixturePlaces /\ run.pc # "deliver"
  BY DEF Unsynthesized, Answered2, MixturePlaces, Synthesized
<1>2. ASSUME request.strategy # "auto"
      PROVE  Counts(run') /\ ~run'.abandoned /\ Outputs(run') = bill'.spent
  <2>1. Counts(run) /\ ~run.abandoned /\ Outputs(run) = bill.spent
    BY <1>1, <1>2, MixtureCounted
  <2>2. Outputs(run') = bill'.spent /\ ~run'.abandoned
    BY <2>1 DEF Outputs, SameCounts
  <2>3. Counts(run')
    BY <2>1 DEF Counts, SameCounts, Unsynthesized, Answered2, Synthesized
  <2> QED BY <2>2, <2>3
<1>3. BillMoves(0)
  BY <1>1, MixtureCounted
<1>4. request.strategy # "auto" => bill'.spent \in Nat /\ Outputs(run') <= bill'.spent
  BY <1>1, <1>2, MixtureCounted
<1> QED BY <1>1, <1>2, <1>3, <1>4, MixturePays

\* What is given up with the second round is all that the first did not cost.
LEMMA FirstRoundPays ==
  ASSUME CoordinatorInvariant, MoneyInvariant, run.pc \in MixturePlaces, run.pc # "deliver",
         GoesOn(FirstRound), UNCHANGED <<task, bill>>
  PROVE  MoneyInvariant'
<1>1. DOMAIN run = MixtureFields /\ BillMoves(0) /\ bill.spent \in Nat
  BY MixtureCounted
<1>2. /\ run'.pc = "deliver" /\ run'.round = 1 /\ run'.cost = run.first.cost
      /\ run'.synth = run.first.synth /\ run'.extra = run.extra /\ run'.first = NoRound
      /\ run'.degraded = FALSE /\ run'.abandoned = TRUE /\ UNCHANGED <<request, docs>>
  BY <1>1 DEF GoesOn, FirstRound, MixtureFields
<1>3. NoRound.cost = 0 /\ NoRound.synth = 0
  BY DEF NoRound
<1>4. run'.pc \in MixturePlaces
  BY <1>2 DEF MixturePlaces, Synthesized
<1>5. ASSUME request.strategy # "auto" PROVE Counts(run') /\ Outputs(run') <= bill'.spent
  <2>1. Counts(run) /\ Outputs(run) <= bill.spent
    BY <1>5, MixtureCounted
  <2>2. Counts(run')
    BY <1>2, <1>3, <2>1 DEF Counts, Synthesized
  <2>3. Outputs(run') = run.extra + run.first.cost + run.first.synth
    BY <1>2, <1>3, <2>1 DEF Outputs, Counts
  <2>4. run.extra + run.first.cost + run.first.synth <= Outputs(run)
    BY <2>1 DEF Outputs, Counts
  <2>5. Outputs(run) \in Int /\ Outputs(run') \in Int
    BY <2>1, <2>2 DEF Outputs, Counts
  <2> QED BY <1>1, <2>1, <2>2, <2>3, <2>4, <2>5
<1> QED BY <1>1, <1>2, <1>4, <1>5, MixturePays

LEMMA StumblesPays ==
  ASSUME CoordinatorInvariant, MoneyInvariant, run.pc \in MixturePlaces, run.pc # "deliver",
         NEW code, Stumbles(code)
  PROVE  MoneyInvariant'
<1>1. run.pc # "idle"
  BY PlacesApart
<1> QED BY <1>1, FailsPays, FirstRoundPays DEF Stumbles

LEMMA MixtureBegunPaid ==
  ASSUME CoordinatorInvariant, MoneyInvariant, ResumeMixture \/ PlanMixture
  PROVE  MoneyInvariant'
<1>1. run.pc = "mixture" /\ run.pc # "idle" /\ Checkpoint = task.mixture
  BY DEF ResumeMixture, PlanMixture, Checkpoint
<1>2. bill' = bill => BillMoves(0)
  BY BillMoved DEF MoneyInvariant
<1>3. request.strategy # "auto" => bill.spent = bill.kept_spent /\ request.strategy = "mixture" /\ RowHolds
  BY <1>1 DEF MoneyInvariant, RunHolds, Chosen
<1>4. CASE ResumeMixture
  <2>1. /\ task.mixture # None /\ run' = task.mixture /\ Writes("active")
        /\ UNCHANGED <<request, docs, bill>>
    BY <1>1, <1>4 DEF ResumeMixture, GoesOn
  <2>2. run'.pc \in MixturePlaces
    BY <2>1 DEF CoordinatorInvariant, RowInvariant, CheckpointsHeld, MixturePlaces, Synthesized
  <2>3. request.strategy # "auto" => Counts(run') /\ Outputs(run') = bill'.spent
    BY <1>3, <2>1 DEF RowHolds
  <2>4. bill'.spent \in Nat
    BY <2>1 DEF MoneyInvariant
  <2> QED BY <1>1, <1>2, <2>1, <2>2, <2>3, <2>4, MixturePays
<1>5. CASE PlanMixture
  <2>1. CASE \E code : Fails(code)
    BY <1>1, <2>1, FailsPays
  <2>2. CASE \E plan, known : Writes("active") /\ GoesOn(Mixture(plan, known)) /\ UNCHANGED bill
    <3>1. PICK plan, known : Writes("active") /\ GoesOn(Mixture(plan, known)) /\ UNCHANGED bill
      BY <2>2, Zenon
    <3>2. NoRound.cost = 0 /\ NoRound.synth = 0
      BY DEF NoRound
    <3>3. /\ run'.pc = "wave" /\ run'.round = 1 /\ run'.cost = 0 /\ run'.synth = 0 /\ run'.extra = 0
          /\ run'.first = NoRound /\ run'.degraded = FALSE /\ run'.abandoned = FALSE
          /\ UNCHANGED <<request, docs>>
      BY <3>1 DEF GoesOn, Mixture
    <3>4. run'.pc \in MixturePlaces /\ run'.pc \notin Synthesized
      BY <3>3 DEF MixturePlaces, Synthesized
    <3>5. ASSUME request.strategy # "auto" PROVE Counts(run') /\ Outputs(run') = bill'.spent
      <4>1. task.agent = None /\ task.mapped = None /\ task.mixture = None
        BY <1>1, <1>3, <1>5, <3>5 DEF MoneyInvariant, Chosen, PlanMixture
      <4>2. bill'.spent = 0
        BY <1>3, <3>1, <3>5, <4>1 DEF RowHolds
      <4> QED BY <3>2, <3>3, <3>4, <4>2 DEF Counts, Outputs
    <3>6. bill'.spent \in Nat
      BY <3>1 DEF MoneyInvariant
    <3> QED BY <1>1, <1>2, <3>1, <3>3, <3>4, <3>5, <3>6, MixturePays
  <2> QED BY <1>5, <2>1, <2>2, Zenon DEF PlanMixture
<1> QED BY <1>4, <1>5

\* The proposals of a wave are added as they come.
LEMMA WavesPay ==
  ASSUME CoordinatorInvariant, MoneyInvariant, NextWave \/ ProposerAnswered \/ ProposerFailed \/ WaveDone
  PROVE  MoneyInvariant'
<1>1. /\ run.pc \in {"wave", "wave_call"} /\ run.pc \in MixturePlaces /\ run.pc # "deliver"
      /\ run.pc \in Unsynthesized /\ run.pc # "idle"
  BY DEF NextWave, ProposerAnswered, ProposerFailed, WaveDone, MixturePlaces, Unsynthesized
<1>2. DOMAIN run = MixtureFields
  BY <1>1, MixtureCounted
<1>3. CASE EndsAs("cancelled")
  BY <1>1, <1>3, EndsAsPays
<1>4. CASE Stumbles("BUDGET_EXCEEDED")
  BY <1>1, <1>4, StumblesPays
<1>5. CASE ProposerAnswered
  <2>1. PICK s \in run.live, c \in Costs :
          /\ Pays(<<"propose", run.round, s>>, c)
          /\ GoesOn([run EXCEPT !.live = run.live \ {s}, !.got = run.got + 1, !.cost = run.cost + c])
    BY <1>5, Zenon DEF ProposerAnswered
  <2>2. /\ run'.pc = run.pc /\ run'.round = run.round /\ run'.cost = run.cost + c
        /\ run'.synth = run.synth /\ run'.extra = run.extra /\ run'.first = run.first
        /\ run'.degraded = run.degraded /\ run'.abandoned = run.abandoned
        /\ UNCHANGED <<request, docs, task>>
    BY <1>2, <1>5, <2>1 DEF ProposerAnswered, GoesOn, MixtureFields
  <2>3. c \in Nat /\ BillMoves(c)
    BY <2>1, BillMoved, CostsAssumption DEF MoneyInvariant
  <2>4. ASSUME request.strategy # "auto"
        PROVE  Counts(run') /\ ~run'.abandoned /\ Outputs(run') = bill'.spent /\ bill'.spent \in Nat
    <3>1. Counts(run) /\ ~run.abandoned /\ Outputs(run) = bill.spent /\ bill.spent \in Nat
      BY <1>1, <2>4, MixtureCounted
    <3>2. Counts(run')
      BY <2>2, <2>3, <3>1 DEF Counts
    <3>3. Outputs(run') = Outputs(run) + c
      BY <2>2, <2>3, <3>1 DEF Counts, Outputs
    <3> QED BY <2>2, <2>3, <3>1, <3>2, <3>3 DEF BillMoves
  <2> QED BY <1>1, <2>2, <2>3, <2>4, MixturePays
<1>6. CASE ~EndsAs("cancelled") /\ ~Stumbles("BUDGET_EXCEEDED") /\ ~ProposerAnswered
  <2>1. SameCounts /\ run'.pc \in Unsynthesized
    <3>1. CASE NextWave
      BY <1>2, <1>6, <3>1 DEF NextWave, GoesOn, MixtureFields, SameCounts, Unsynthesized
    <3>2. CASE ProposerFailed
      <4>1. PICK s, code : run' = [run EXCEPT !.live = run.live \ {s},
                                              !.fatal = run.fatal \/ code \in TaskFatal]
        BY <3>2, Zenon DEF ProposerFailed, GoesOn
      <4> QED BY <1>1, <1>2, <4>1 DEF MixtureFields, SameCounts
    <3>3. CASE WaveDone
      BY <1>2, <1>6, <3>3 DEF WaveDone, GoesOn, MixtureFields, SameCounts, Unsynthesized
    <3> QED BY <1>6, <3>1, <3>2, <3>3
  <2>2. UNCHANGED <<request, docs, bill>> /\ (task' = task \/ Writes("active"))
    BY <1>6 DEF NextWave, ProposerAnswered, ProposerFailed, WaveDone, GoesOn
  <2> QED BY <1>1, <2>1, <2>2, MixtureMovesUnpaid
<1> QED BY <1>3, <1>4, <1>5, <1>6

LEMMA SynthesizesPays ==
  ASSUME CoordinatorInvariant, MoneyInvariant, run.pc = "wave", Synthesizes
  PROVE  MoneyInvariant'
<1>1. /\ run.pc \in MixturePlaces /\ run.pc # "deliver" /\ run.pc \in Unsynthesized
      /\ "synth_call" \in Unsynthesized
  BY DEF MixturePlaces, Unsynthesized
<1>2. DOMAIN run = MixtureFields
  BY <1>1, MixtureCounted
<1>3. CASE Stumbles("BUDGET_EXCEEDED")
  BY <1>1, <1>3, StumblesPays
<1>4. CASE /\ Writes("active") /\ UNCHANGED bill
           /\ GoesOn([run EXCEPT !.pc = "synth_call", !.retried = FALSE])
  <2>1. SameCounts /\ run'.pc = "synth_call" /\ UNCHANGED <<request, docs>>
    BY <1>2, <1>4 DEF GoesOn, MixtureFields, SameCounts
  <2> QED BY <1>1, <1>4, <2>1, MixtureMovesUnpaid
<1> QED BY <1>3, <1>4 DEF Synthesizes

LEMMA RoundsDonePay ==
  ASSUME CoordinatorInvariant, MoneyInvariant, RoundDone \/ SecondRoundDone
  PROVE  MoneyInvariant'
<1>1. run.pc = "wave" /\ run.pc \in MixturePlaces /\ run.pc # "deliver" /\ run.pc # "idle"
  BY DEF RoundDone, SecondRoundDone, WavesDone, MixturePlaces
<1>2. CASE RoundDone
  BY <1>1, <1>2, EndsWithPays, EndsAsPays, SynthesizesPays DEF RoundDone
<1>3. CASE SecondRoundDone
  BY <1>1, <1>3, FirstRoundPays, SynthesizesPays DEF SecondRoundDone
<1> QED BY <1>2, <1>3

\* An answer of the arbiter is paid; one that is replaced by a proposal cost nothing.
LEMMA SynthesisPays ==
  ASSUME CoordinatorInvariant, MoneyInvariant, SynthesisAnswered \/ ArbiterFailed
  PROVE  MoneyInvariant'
<1>1. /\ run.pc = "synth_call" /\ run.pc \in MixturePlaces /\ run.pc # "deliver"
      /\ run.pc \in Unsynthesized /\ "synth_done" \in MixturePlaces /\ "synth_done" \in Synthesized
  BY DEF SynthesisAnswered, ArbiterFailed, MixturePlaces, Synthesized, Unsynthesized
<1>2. DOMAIN run = MixtureFields /\ run.round \in {1, 2} /\ (bill' = bill => BillMoves(0))
  BY <1>1, MixtureCounted
<1>3. request.strategy # "auto" =>
        /\ Counts(run) /\ ~run.abandoned /\ Outputs(run) = bill.spent /\ bill.spent \in Nat
        /\ run.synth = 0 /\ ~run.degraded /\ (run.round = 1 => run.extra = 0)
  BY <1>1, MixtureCounted DEF Counts
<1>4. CASE \E code : Stumbles(code)
  BY <1>1, <1>4, StumblesPays
<1>5. CASE SynthesisAnswered
  <2>1. PICK c \in Costs : /\ Pays(<<"synthesis", run.round>>, c)
                           /\ GoesOn([run EXCEPT !.pc = "synth_done", !.synth = c])
    BY <1>5 DEF SynthesisAnswered
  <2>2. /\ run'.pc = "synth_done" /\ run'.synth = c /\ run'.round = run.round /\ run'.cost = run.cost
        /\ run'.extra = run.extra /\ run'.first = run.first
        /\ run'.degraded = run.degraded /\ run'.abandoned = run.abandoned
        /\ UNCHANGED <<request, docs, task>>
    BY <1>2, <1>5, <2>1 DEF SynthesisAnswered, GoesOn, MixtureFields
  <2>3. c \in Nat /\ BillMoves(c)
    BY <2>1, BillMoved, CostsAssumption DEF MoneyInvariant
  <2>4. ASSUME request.strategy # "auto"
        PROVE  Counts(run') /\ ~run'.abandoned /\ Outputs(run') = bill'.spent /\ bill'.spent \in Nat
    <3>1. Counts(run')
      BY <1>1, <1>3, <2>2, <2>3, <2>4 DEF Counts
    <3>2. Outputs(run') = Outputs(run) + c
      BY <1>3, <2>2, <2>3, <2>4 DEF Counts, Outputs
    <3> QED BY <1>3, <2>2, <2>3, <2>4, <3>1, <3>2 DEF BillMoves
  <2> QED BY <1>1, <2>2, <2>3, <2>4, MixturePays
<1>6. CASE ArbiterFailed /\ ~ \E code : Stumbles(code)
  <2>1. UNCHANGED <<request, docs, task, bill>> /\ (FirstProposal \/ Substituted)
    BY <1>6 DEF ArbiterFailed, GoesOn, FirstProposal, Substituted
  <2>2. CASE Substituted
    <3>1. SameCounts /\ run'.pc = run.pc
      BY <1>2, <2>2 DEF Substituted, GoesOn, MixtureFields, SameCounts
    <3> QED BY <1>1, <2>1, <3>1, MixtureMovesUnpaid
  <2>3. CASE FirstProposal
    <3>1. /\ run'.pc = "synth_done" /\ run'.synth = run.synth /\ run'.round = run.round
          /\ run'.cost = run.cost /\ run'.extra = run.extra /\ run'.first = run.first
          /\ run'.degraded = TRUE /\ run'.abandoned = run.abandoned
      BY <1>2, <2>3 DEF FirstProposal, GoesOn, MixtureFields
    <3>2. ASSUME request.strategy # "auto"
          PROVE  Counts(run') /\ ~run'.abandoned /\ Outputs(run') = bill'.spent /\ bill'.spent \in Nat
      <4>1. Counts(run')
        BY <1>1, <1>3, <3>1, <3>2 DEF Counts
      <4>2. Outputs(run') = Outputs(run)
        BY <1>3, <3>1, <3>2 DEF Counts, Outputs
      <4> QED BY <1>3, <2>1, <3>1, <3>2, <4>1, <4>2
    <3> QED BY <1>1, <1>2, <2>1, <3>1, <3>2, MixturePays
  <2> QED BY <2>1, <2>2, <2>3
<1> QED BY <1>4, <1>5, <1>6

\* From the first synthesis to what comes of it.
LEMMA GatePays ==
  ASSUME CoordinatorInvariant, MoneyInvariant,
         SynthesisDone \/ AskAfterSynthesis \/ Gate \/ Judged \/ JudgeFailed
  PROVE  MoneyInvariant'
<1>1. /\ run.pc \in {"synth_done", "synth_ask", "gate", "judge_call"} /\ run.pc # "idle"
      /\ run.pc \in MixturePlaces /\ run.pc \in Answered2 \ {"deliver"} /\ run.pc # "second"
  BY DEF SynthesisDone, AskAfterSynthesis, Gate, Judged, JudgeFailed, AsksToYield, MixturePlaces,
    Synthesized, Answered2
<1>2. DOMAIN run = MixtureFields /\ (bill' = bill => BillMoves(0))
  BY <1>1, MixtureCounted
<1>3. CASE SynthesisDone
  <2>1. CASE EndsAs("cancelled")
    BY <1>1, <2>1, EndsAsPays
  <2>2. CASE ~EndsAs("cancelled")
    <3>1. /\ UNCHANGED <<request, docs, task, bill>> /\ SameCounts
          /\ run'.pc \in {"deliver", "synth_ask", "gate"} /\ (run.degraded => run'.pc = "deliver")
      BY <1>2, <1>3, <2>2 DEF SynthesisDone, GoesOn, MixtureFields, SameCounts
    <3> QED BY <1>1, <3>1, MixtureMovesUnpaid DEF Answered2
  <2> QED BY <2>1, <2>2
<1>4. CASE AskAfterSynthesis \/ Gate \/ JudgeFailed
  <2>1. /\ UNCHANGED <<request, docs, task, bill>> /\ SameCounts
        /\ run'.pc \in {"gate", "synth_save", "deliver", "judge_call", "second"}
        /\ run.pc \in {"synth_ask", "gate", "judge_call"}
    BY <1>2, <1>4 DEF AskAfterSynthesis, AsksToYield, Gate, JudgeFailed, GoesOn, MixtureFields, SameCounts
  <2>2. run'.pc \in MixturePlaces /\ run'.pc \in Answered2 \ {"synth_done"}
    BY <2>1 DEF MixturePlaces, Synthesized, Answered2
  <2>3. CASE run.degraded
    \* Only a task of `auto`, whose counts nobody keeps, would be here.
    <3>1. request.strategy = "auto"
      BY <1>1, <2>1, <2>3, MixtureCounted DEF Counts
    <3> QED BY <1>1, <1>2, <2>1, <2>2, <3>1, MixturePays
  <2>4. CASE ~run.degraded
    BY <1>1, <2>1, <2>2, <2>4, MixtureMovesUnpaid
  <2> QED BY <2>3, <2>4
<1>5. CASE Judged
  <2>1. PICK c \in Costs, next \in {"deliver", "second"} :
          Pays(<<"judge">>, c) /\ GoesOn([run EXCEPT !.pc = next, !.extra = c])
    BY <1>5, Zenon DEF Judged
  <2>2. /\ run'.pc = next /\ run'.extra = c /\ run'.round = run.round /\ run'.cost = run.cost
        /\ run'.synth = run.synth /\ run'.first = run.first
        /\ run'.degraded = run.degraded /\ run'.abandoned = run.abandoned
        /\ UNCHANGED <<request, docs, task>> /\ run.pc = "judge_call"
    BY <1>2, <1>5, <2>1 DEF Judged, GoesOn, MixtureFields
  <2>3. c \in Nat /\ BillMoves(c) /\ run'.pc \in MixturePlaces /\ run'.pc \in Synthesized
    BY <2>1, <2>2, BillMoved, CostsAssumption DEF MoneyInvariant, MixturePlaces, Synthesized
  <2>4. run.round = 1
    BY <1>1, <2>2 DEF CoordinatorInvariant, RunInvariant, RunRests, Rests, SecondPlaces
  <2>5. ASSUME request.strategy # "auto"
        PROVE  Counts(run') /\ ~run'.abandoned /\ Outputs(run') = bill'.spent /\ bill'.spent \in Nat
    <3>1. /\ Counts(run) /\ ~run.abandoned /\ Outputs(run) = bill.spent /\ bill.spent \in Nat
          /\ run.extra = 0 /\ ~run.degraded
      BY <1>1, <2>2, <2>4, <2>5, MixtureCounted DEF Counts
    <3>2. Counts(run')
      BY <2>2, <2>3, <2>4, <3>1 DEF Counts
    <3>3. Outputs(run') = Outputs(run) + c
      BY <2>2, <2>3, <3>1 DEF Counts, Outputs
    <3> QED BY <2>2, <2>3, <3>1, <3>2, <3>3 DEF BillMoves
  <2> QED BY <1>1, <2>2, <2>3, <2>5, MixturePays
<1> QED BY <1>3, <1>4, <1>5

\* What the first round has cost is put aside, not forgotten.
LEMMA SecondPays ==
  ASSUME CoordinatorInvariant, MoneyInvariant, StartSecond \/ SecondSynthesisDone
  PROVE  MoneyInvariant'
<1>1. /\ run.pc \in {"second", "synth_done"} /\ run.pc # "idle" /\ run.pc # "deliver"
      /\ run.pc \in MixturePlaces /\ run.pc \in Answered2 \ {"deliver"}
      /\ "deliver" \in Answered2 /\ "wave" \in MixturePlaces /\ "wave" \notin Synthesized
  BY DEF StartSecond, SecondSynthesisDone, MixturePlaces, Synthesized, Answered2
<1>2. DOMAIN run = MixtureFields /\ (bill' = bill => BillMoves(0))
  BY <1>1, MixtureCounted
<1>3. ASSUME GoesOn([run EXCEPT !.pc = "deliver"]), UNCHANGED <<task, bill>>
      PROVE  MoneyInvariant'
  <2>1. SameCounts /\ run'.pc = "deliver" /\ UNCHANGED <<request, docs>>
    BY <1>2, <1>3 DEF GoesOn, MixtureFields, SameCounts
  <2> QED BY <1>1, <1>3, <2>1, MixtureMovesUnpaid
<1>4. CASE StartSecond
  <2>1. CASE EndsAs("cancelled")
    BY <1>1, <2>1, EndsAsPays
  <2>2. CASE GoesOn([run EXCEPT !.pc = "deliver"]) /\ UNCHANGED <<task, bill>>
    BY <1>3, <2>2
  <2>3. CASE /\ UNCHANGED <<task, bill>>
             /\ GoesOn([run EXCEPT !.pc = "wave", !.wave = 1, !.round = 2, !.got = 0, !.cost = 0,
                  !.synth = 0, !.first = [got |-> run.got, cost |-> run.cost, synth |-> run.synth]])
    <3> DEFINE first == [got |-> run.got, cost |-> run.cost, synth |-> run.synth]
    <3>1. first.cost = run.cost /\ first.synth = run.synth
      OBVIOUS
    <3>2. /\ run' = [run EXCEPT !.pc = "wave", !.wave = 1, !.round = 2, !.got = 0, !.cost = 0,
                       !.synth = 0, !.first = first]
          /\ UNCHANGED <<request, docs, task, bill>>
      BY <2>3 DEF GoesOn
    <3> HIDE DEF first
    <3>3. /\ run'.pc = "wave" /\ run'.round = 2 /\ run'.cost = 0 /\ run'.synth = 0
          /\ run'.first = first /\ run'.extra = run.extra
          /\ run'.degraded = run.degraded /\ run'.abandoned = run.abandoned
      BY <1>2, <3>2 DEF MixtureFields
    <3>4. run.pc = "second" /\ run.round = 1
      BY <1>1, <1>4 DEF StartSecond, CoordinatorInvariant, RunInvariant, RunRests, Rests, SecondPlaces
    <3>5. ASSUME request.strategy # "auto"
          PROVE  Counts(run') /\ ~run'.abandoned /\ Outputs(run') = bill'.spent /\ bill'.spent \in Nat
      <4>1. /\ Counts(run) /\ ~run.abandoned /\ Outputs(run) = bill.spent /\ bill.spent \in Nat
            /\ ~run.degraded /\ run.first.cost = 0 /\ run.first.synth = 0
        BY <1>1, <3>4, <3>5, MixtureCounted DEF Counts
      <4>2. Counts(run')
        BY <1>1, <3>1, <3>3, <4>1 DEF Counts
      <4>3. Outputs(run') = Outputs(run)
        BY <3>1, <3>3, <4>1 DEF Counts, Outputs
      <4> QED BY <3>2, <3>3, <4>1, <4>2, <4>3
    <3> QED BY <1>1, <1>2, <3>2, <3>3, <3>5, MixturePays
  <2> QED BY <1>4, <2>1, <2>2, <2>3 DEF StartSecond
<1>5. CASE SecondSynthesisDone
  BY <1>1, <1>3, <1>5, FirstRoundPays DEF SecondSynthesisDone
<1> QED BY <1>4, <1>5

\* A mixture gives way between two waves or after its first synthesis.
LEMMA BetweenRoundsPays ==
  ASSUME NoneIsNoRecord, CoordinatorInvariant, MoneyInvariant,
         AskAfterWave \/ YieldAfterWave \/ YieldAfterSynthesis
  PROVE  MoneyInvariant'
<1>1. /\ run.pc \in {"wave_ask", "wave_save", "synth_save"} /\ run.pc # "idle"
      /\ run.pc \in MixturePlaces
  BY DEF AskAfterWave, AsksToYield, YieldAfterWave, YieldAfterSynthesis, MixturePlaces, Synthesized
<1>2. DOMAIN run = MixtureFields
  BY <1>1, MixtureCounted
<1>3. request.strategy = "mixture"
  BY <1>1 DEF CoordinatorInvariant, RunInvariant, RunIsAsked, Asking
<1>4. CASE AskAfterWave
  <2>1. SameCounts /\ run'.pc \in {"wave", "wave_save"} /\ UNCHANGED <<request, docs, task, bill>>
    BY <1>2, <1>4 DEF AskAfterWave, AsksToYield, MixtureFields, SameCounts
  <2>2. run.pc \in Unsynthesized /\ run'.pc \in Unsynthesized
    BY <1>4, <2>1 DEF AskAfterWave, AsksToYield, Unsynthesized
  <2> QED BY <2>1, <2>2, MixtureMovesUnpaid
<1>5. CASE YieldAfterWave \/ YieldAfterSynthesis
  <2>1. PICK pc \in {"wave", "gate"} :
          /\ Yields("mixture", [run EXCEPT !.pc = pc])
          /\ run.pc = IF pc = "wave" THEN "wave_save" ELSE "synth_save"
    BY <1>5 DEF YieldAfterWave, YieldAfterSynthesis
  <2> DEFINE state == [run EXCEPT !.pc = pc]
  <2>2. /\ DOMAIN state = MixtureFields /\ state.pc = pc /\ state.round = run.round
        /\ state.cost = run.cost /\ state.synth = run.synth /\ state.extra = run.extra
        /\ state.first = run.first /\ state.degraded = run.degraded /\ state.abandoned = run.abandoned
    BY <1>2 DEF MixtureFields
  <2>3. Yields("mixture", state)
    BY <2>1
  <2> HIDE DEF state
  <2>4. Counts(run) /\ ~run.abandoned /\ Outputs(run) = bill.spent
    BY <1>1, <1>3, MixtureCounted
  <2>5. Counts(state)
    BY <2>1, <2>2, <2>4 DEF Counts, Synthesized
  <2>6. Outputs(state) = bill.spent
    BY <2>2, <2>4 DEF Outputs
  <2> QED BY <1>1, <1>3, <2>2, <2>3, <2>5, <2>6, YieldsPays
<1> QED BY <1>4, <1>5

LEMMA DeliverPays ==
  ASSUME CoordinatorInvariant, MoneyInvariant, Deliver
  PROVE  MoneyInvariant'
<1>1. run.pc = "deliver" /\ run.pc # "idle" /\ run.pc \in MixturePlaces
  BY DEF Deliver, MixturePlaces, Synthesized
<1>2. CASE Fails("BUDGET_EXCEEDED")
  BY <1>1, <1>2, FailsPays
<1>3. CASE ~Fails("BUDGET_EXCEEDED")
  <2> DEFINE result == [of |-> "mixture", rounds |-> run.round, got |-> run.got,
                        cost |-> AllOutputs, abandoned |-> run.abandoned]
  <2>1. /\ task' = [task EXCEPT !.status = "completed", !.result = result]
        /\ run' = Idle /\ UNCHANGED <<request, docs, bill>>
    BY <1>3 DEF Deliver
  <2>2. result.of = "mixture" /\ result.cost = AllOutputs /\ result.abandoned = run.abandoned
    OBVIOUS
  <2> HIDE DEF result
  <2>3. AllOutputs = Outputs(run)
    BY DEF AllOutputs, SoFar, Before2, Outputs
  <2>4. request.strategy # "auto" =>
          Outputs(run) <= bill.spent /\ (~run.abandoned => Outputs(run) = bill.spent)
    BY <1>1 DEF MoneyInvariant, RunHolds
  <2> QED BY <1>1, <2>1, <2>2, <2>3, <2>4, MoneyCompletes
<1> QED BY <1>2, <1>3

LEMMA ConsensusPays ==
  ASSUME NoneIsNoRecord, CoordinatorInvariant, MoneyInvariant, ConsensusNext
  PROVE  MoneyInvariant'
BY MixtureBegunPaid, WavesPay, RoundsDonePay, SynthesisPays, GatePays, BetweenRoundsPays, SecondPays,
   DeliverPays DEF ConsensusNext

----------------------------------------------------------------------------
(* The money, all together.                                                *)

LEMMA DispatchPays ==
  ASSUME CoordinatorInvariant, MoneyInvariant, Dispatch
  PROVE  MoneyInvariant'
<1>1. task.status = "queued"
  BY DEF Dispatch
<1>2. CASE EndsAs("cancelled")
  BY <1>1, <1>2, EndsAsPays
<1>3. CASE EndsWith("TABULAR_ATTACHMENT_REQUIRES_SANDBOX")
  BY <1>1, <1>3, EndsWithPays
<1>4. CASE /\ Writes("active") /\ UNCHANGED bill
           /\ \/ request.strategy # "auto" /\ GoesOn(Begin(request.strategy))
              \/ /\ request.strategy = "auto"
                 /\ \E cases \in Histories : GoesOn(BeginAuto(Route(request.signals, cases)))
  <2>1. request.strategy \in Concrete \cup {"map_reduce", "auto"} /\ UNCHANGED <<request, docs>>
    BY <1>4, RequestsAssumption DEF CoordinatorInvariant, RowInvariant, GoesOn
  <2>2. \/ run'.pc = "single" /\ (request.strategy = "auto" \/ ~run'.escalates)
        \/ /\ run'.pc \in {"map_plan", "agent", "mixture"}
           /\ run'.pc = "map_plan" => request.strategy = "map_reduce"
           /\ run'.pc = "agent" => request.strategy \in {"agent", "auto"}
           /\ run'.pc = "mixture" => request.strategy \in {"mixture", "auto"}
    <3>1. CASE request.strategy # "auto" /\ run' = Begin(request.strategy)
      BY <2>1, <3>1 DEF Begin, ToMixture, Concrete
    <3>2. CASE /\ request.strategy = "auto"
               /\ \E cases \in Histories : run' = BeginAuto(Route(request.signals, cases))
      <4>1. PICK cases \in Histories : run' = BeginAuto(Route(request.signals, cases))
        BY <3>2
      <4>2. Route(request.signals, cases) \in Concrete
        <5>1. cases \in Seq(Case)
          BY RequestsAssumption
        <5> QED BY <5>1, RouteIsConcrete
      <4>3. \A s \in Concrete : BeginAuto(s).pc \in {"single", "agent", "mixture"}
        BY BeginsSomewhere
      <4> QED BY <3>2, <4>1, <4>2, <4>3
    <3> QED BY <1>4, <3>1, <3>2 DEF GoesOn
  <2>3. /\ run'.pc \notin MapPlaces \cup SinglePlaces \cup TalkPlaces \cup MixturePlaces
        /\ run'.pc \notin {"idle", "rate_call", "escalate"}
    BY <2>2, PlacesApart
  <2>4. ASSUME request.strategy # "auto" PROVE RunHolds'
    <3>1. bill.spent = bill.kept_spent
      BY <1>1, <2>4 DEF MoneyInvariant, RowHolds
    <3> QED BY <1>4, <2>3, <3>1 DEF RunHolds
  <2>5. BillMoves(0)
    BY <1>4, BillMoved DEF MoneyInvariant
  <2>6. /\ run'.pc \in {"agent"} \cup TalkPlaces => request.strategy \in {"agent", "auto"}
        /\ run'.pc \in {"map_plan"} \cup MapPlaces => request.strategy \in {"map_reduce", "auto"}
        /\ run'.pc \in {"mixture"} \cup MixturePlaces => request.strategy \in {"mixture", "auto"}
        /\ run'.pc \in {"single"} \cup SinglePlaces => request.strategy = "auto" \/ ~run'.escalates
    BY <2>2, <2>3
  <2> QED BY <1>1, <1>4, <2>1, <2>3, <2>4, <2>5, <2>6, MoneyGoesOn
<1> QED BY <1>2, <1>3, <1>4 DEF Dispatch

LEMMA InterruptionsPay ==
  ASSUME CoordinatorInvariant, MoneyInvariant, TimesOut \/ Crash
  PROVE  MoneyInvariant'
<1>1. run.pc # "idle"
  BY DEF TimesOut, Crash
<1>2. CASE TimesOut
  BY <1>1, <1>2, EndsAsPays, EndsWithPays DEF TimesOut
<1>3. CASE Crash
  <2>1. PICK status \in {"queued", "failed", "cancelled"} : RowKeeps(status)
    BY <1>3, StatusWritten DEF CoordinatorInvariant, RowInvariant, Crash, Writes, WritesError
  <2> QED BY <1>1, <1>3, <2>1, MoneyEnds DEF Crash
<1> QED BY <1>2, <1>3

LEMMA CancelPays ==
  ASSUME CoordinatorInvariant, MoneyInvariant, Cancel
  PROVE  MoneyInvariant'
<1>1. UNCHANGED <<request, run, docs, bill>>
  BY DEF Cancel
<1>2. /\ task'.status = "cancelled"
      /\ task'.agent = task.agent /\ task'.mapped = task.mapped /\ task'.mixture = task.mixture
  BY DEF CoordinatorInvariant, RowInvariant, RowFields, Cancel
<1>3. AgentWaits' /\ ReportedIsPaid'
  BY <1>1, <1>2 DEF MoneyInvariant, AgentWaits, ReportedIsPaid
<1>4. request.strategy # "auto" => Chosen'
  BY <1>1, <1>2 DEF MoneyInvariant, Chosen
<1>5. request.strategy # "auto" => RunHolds'
  BY <1>1 DEF MoneyInvariant, RunHolds, Holds, Counts, Outputs
<1>6. request.strategy # "auto" => RowHolds'
  BY <1>1, <1>2 DEF MoneyInvariant, RowHolds, Holds, Counts, Outputs
<1> QED BY <1>1, <1>3, <1>4, <1>5, <1>6 DEF MoneyInvariant

LEMMA ReconvertPays ==
  ASSUME CoordinatorInvariant, MoneyInvariant, Reconvert
  PROVE  MoneyInvariant'
<1>1. UNCHANGED <<request, run, task, bill>> /\ docs' = docs + 1 /\ docs \in Nat
  BY DEF Reconvert, CoordinatorInvariant, RowInvariant
<1>2. AgentWaits'
  BY <1>1 DEF MoneyInvariant, AgentWaits
<1>3. ReportedIsPaid'
  <2>1. SUFFICES ASSUME ReportedIsPaid PROVE ReportedIsPaid'
    BY DEF MoneyInvariant
  <2>2. docs' > 0
    BY <1>1
  <2> QED BY <1>1, <2>1, <2>2 DEF ReportedIsPaid
<1>4. request.strategy # "auto" => Chosen'
  BY <1>1 DEF MoneyInvariant, Chosen
<1>5. /\ run.docs \in Nat /\ Holds(run, bill.spent) => Holds(run, bill.spent)'
      /\ task.mapped # None /\ Holds(task.mapped, bill.kept_spent) => Holds(task.mapped, bill.kept_spent)'
  <2>1. task.mapped # None => task.mapped.docs \in Nat
    BY DEF CoordinatorInvariant, RowInvariant, CheckpointsHeld, OfOne
  <2> QED BY <1>1, <2>1 DEF Holds
<1>6. request.strategy # "auto" => RunHolds'
  <2>1. run.pc \in MapPlaces => run.docs \in Nat
    BY DEF CoordinatorInvariant, RunInvariant, RunMaps, OfOne
  <2> QED BY <1>1, <1>5, <2>1 DEF MoneyInvariant, RunHolds, Counts, Outputs
<1>7. request.strategy # "auto" => RowHolds'
  BY <1>1, <1>5 DEF MoneyInvariant, RowHolds, Counts, Outputs
<1> QED BY <1>1, <1>2, <1>3, <1>4, <1>6, <1>7 DEF MoneyInvariant

LEMMA ToolResultsPay ==
  ASSUME NoneIsNoRecord, CoordinatorInvariant, MoneyInvariant, NEW provided, ToolResults(provided)
  PROVE  MoneyInvariant'
<1>1. UNCHANGED <<request, run, docs, bill>> /\ task.status = "waiting_for_tools"
  BY DEF ToolResults, Accepted
<1>2. DOMAIN task.agent = AgentFields /\ run.pc = "idle"
  BY <1>1 DEF CoordinatorInvariant, RowInvariant, CheckpointsHeld, AgentFields
<1> DEFINE agent == [task.agent EXCEPT !.open = task.agent.open \ provided, !.resumed = TRUE]
<1>3. task' = [task EXCEPT !.status = "queued", !.agent = agent]
  BY DEF ToolResults
<1>4. DOMAIN agent = AgentFields /\ agent.resumed /\ agent.cost = task.agent.cost
  BY <1>2 DEF AgentFields
<1> HIDE DEF agent
<1>5. /\ task'.status = "queued" /\ task'.agent = agent
      /\ task'.mapped = task.mapped /\ task'.mixture = task.mixture
  BY <1>3 DEF CoordinatorInvariant, RowInvariant, RowFields
<1>6. agent # None /\ task.agent # None
  BY <1>2, <1>4, CheckpointIsNotNone
<1>7. AgentWaits' /\ ReportedIsPaid'
  BY <1>1, <1>4, <1>5 DEF MoneyInvariant, AgentWaits, ReportedIsPaid
<1>8. request.strategy # "auto" => Chosen'
  BY <1>1, <1>5, <1>6 DEF MoneyInvariant, Chosen
<1>9. request.strategy # "auto" => RunHolds'
  BY <1>1 DEF MoneyInvariant, RunHolds, Holds, Counts, Outputs
<1>10. request.strategy # "auto" => RowHolds'
  BY <1>1, <1>4, <1>5, <1>6 DEF MoneyInvariant, RowHolds, Holds, Counts, Outputs
<1> QED BY <1>1, <1>7, <1>8, <1>9, <1>10 DEF MoneyInvariant

LEMMA MoneyBegins ==
  ASSUME WorkflowInit
  PROVE  MoneyInvariant
<1>1. /\ run.pc = "idle" /\ DOMAIN bill = BillFields /\ bill.spent = 0 /\ bill.kept_spent = 0
      /\ task.agent = None /\ task.mapped = None /\ task.mixture = None /\ task.status = "queued"
  BY DEF WorkflowInit, Idle, FreshRow, FreshBill, BillFields
<1>2. run.pc \notin MapPlaces \cup SinglePlaces \cup TalkPlaces \cup MixturePlaces
  BY <1>1, PlacesApart
<1>3. Chosen /\ RunHolds
  BY <1>1, <1>2 DEF Chosen, RunHolds
<1>4. RowHolds /\ AgentWaits /\ ReportedIsPaid
  BY <1>1 DEF RowHolds, AgentWaits, ReportedIsPaid
<1> QED BY <1>1, <1>3, <1>4 DEF MoneyInvariant

LEMMA MoneyStutters ==
  ASSUME MoneyInvariant, UNCHANGED wvars
  PROVE  MoneyInvariant'
<1>1. request' = request /\ task' = task /\ run' = run /\ docs' = docs /\ bill' = bill
  BY DEF wvars
<1>2. AgentWaits' /\ ReportedIsPaid'
  BY <1>1 DEF MoneyInvariant, AgentWaits, ReportedIsPaid
<1>3. request.strategy # "auto" => Chosen' /\ RunHolds' /\ RowHolds'
  BY <1>1 DEF MoneyInvariant, Chosen, RunHolds, RowHolds, Holds, Counts, Outputs
<1> QED BY <1>1, <1>2, <1>3 DEF MoneyInvariant

LEMMA StepPays ==
  ASSUME NoneIsNoRecord, CoordinatorInvariant, MoneyInvariant, [Next]_wvars
  PROVE  MoneyInvariant'
<1>1. CASE Dispatch
  BY <1>1, DispatchPays
<1>2. CASE MapReduceNext \/ SingleNext \/ AgentNext \/ ConsensusNext
  BY <1>2, MapReducePays, SingleNextPays, AgentPays, ConsensusPays
<1>3. CASE TimesOut \/ Crash
  BY <1>3, InterruptionsPay
<1>4. CASE Cancel \/ Reconvert \/ \E provided \in SUBSET request.tools : ToolResults(provided)
  BY <1>4, CancelPays, ReconvertPays, ToolResultsPay
<1>5. CASE UNCHANGED wvars
  BY <1>5, MoneyStutters
<1> QED BY <1>1, <1>2, <1>3, <1>4, <1>5 DEF Next

\* The cost in a result is what the calls of the task have cost, over every time it gave
\* way and was taken up again; less only where a second round was given up or the
\* documents were converted anew, and then the result reports no more than was paid.
THEOREM CostIsReported ==
  ASSUME NoneIsNoRecord
  PROVE  Spec => []ReportedIsPaid
<1>1. WorkflowInit => MoneyInvariant
  BY MoneyBegins
<1>2. CoordinatorInvariant /\ MoneyInvariant /\ [Next]_wvars => MoneyInvariant'
  BY StepPays
<1>3. MoneyInvariant => ReportedIsPaid
  BY DEF MoneyInvariant
<1> QED BY <1>1, <1>2, <1>3, CoordinatorKeepsInvariant, PTL DEF Spec

----------------------------------------------------------------------------
(* What was paid for: ways to leave a step.                                *)

\* A call that was not behind the coroutine is paid for the first time.
PaysOnce(step) ==
  /\ bill'.paid = bill.paid \cup {step} /\ bill'.kept = bill.kept /\ ~bill'.twice

LEMMA PaidOnce ==
  ASSUME DOMAIN bill = BillFields, ~bill.twice, NEW step, NEW c, Pays(step, c), step \notin bill.paid
  PROVE  PaysOnce(step)
<1>1. bill'.paid = bill.paid \cup {step} /\ bill'.kept = bill.kept
  BY DEF Pays, Paid, BillFields
<1>2. bill'.twice = (bill.twice \/ step \in bill.paid)
  BY DEF Pays, Paid, BillFields
<1> QED BY <1>1, <1>2, Zenon DEF PaysOnce

\* What is kept and what is forgotten of the bill.
LEMMA PaidFrozen ==
  ASSUME DOMAIN bill = BillFields
  PROVE  /\ Freeze => bill'.paid = bill.paid /\ bill'.kept = bill.paid /\ bill'.twice = bill.twice
         /\ bill' = Interrupted =>
              bill'.paid = bill.kept /\ bill'.kept = bill.kept /\ bill'.twice = bill.twice
BY DEF Freeze, Interrupted, BillFields

\* Checkpoints that stay count as they did, and have behind them what they had.
LEMMA KeptStays ==
  ASSUME RowCounted, KeptBehind, UNCHANGED docs, bill'.kept = bill.kept,
         task'.agent = task.agent, task'.mapped = task.mapped, task'.mixture = task.mixture
  PROVE  RowCounted' /\ KeptBehind'
<1>1. RowCounted'
  BY DEF RowCounted, MapCounts, MixtureCounts
<1>2. KeptBehind'
  BY DEF KeptBehind, MapBehind, MixtureBehind
<1> QED BY <1>1, <1>2

\* A coroutine that is gone has nothing behind it.
LEMMA IdleHasNothing ==
  ASSUME run' = Idle
  PROVE  RunCounted' /\ \A s : RunBehind(s)'
BY IdleHoldsNothing DEF RunCounted, RunBehind

LEMMA PaidEnds ==
  ASSUME CoordinatorInvariant, MoneyInvariant, PaidInvariant, run' = Idle, UNCHANGED <<request, docs>>,
         NEW status \in {"queued", "failed", "cancelled", "completed"},
         task'.status = status, task'.agent = task.agent, task'.mapped = task.mapped,
         task'.mixture = task.mixture,
         (bill' = bill /\ status # "queued") \/ bill' = Interrupted
  PROVE  PaidInvariant'
<1>1. /\ bill'.kept = bill.kept /\ bill'.twice = bill.twice
      /\ (status # "queued" /\ bill'.paid = bill.paid) \/ bill'.paid = bill.kept
  BY PaidFrozen DEF MoneyInvariant
<1>2. PaidWorkIsKept'
  BY <1>1 DEF PaidInvariant, PaidWorkIsKept
<1>3. RowCounted' /\ KeptBehind'
  BY <1>1, KeptStays DEF PaidInvariant
<1>4. RunCounted' /\ \A s : RunBehind(s)'
  BY IdleHasNothing
<1>5. PaidBehind'
  BY <1>1, <1>4 DEF PaidBehind
<1> QED BY <1>2, <1>3, <1>4, <1>5 DEF PaidInvariant

LEMMA EndsAsPaid ==
  ASSUME CoordinatorInvariant, MoneyInvariant, PaidInvariant, NEW status \in {"failed", "cancelled"},
         EndsAs(status)
  PROVE  PaidInvariant'
<1>1. RowKeeps(status)
  BY StatusWritten DEF CoordinatorInvariant, RowInvariant, EndsAs, Writes
<1> QED BY <1>1, PaidEnds DEF EndsAs, RowKeeps

LEMMA EndsWithPaid ==
  ASSUME CoordinatorInvariant, MoneyInvariant, PaidInvariant, NEW code, EndsWith(code)
  PROVE  PaidInvariant'
<1>1. RowKeeps("failed")
  BY StatusWritten DEF CoordinatorInvariant, RowInvariant, EndsWith, WritesError
<1> QED BY <1>1, PaidEnds DEF EndsWith, RowKeeps

LEMMA FailsPaid ==
  ASSUME CoordinatorInvariant, MoneyInvariant, PaidInvariant, NEW code, Fails(code)
  PROVE  PaidInvariant'
<1>1. /\ DOMAIN task = RowFields /\ run' = Idle /\ UNCHANGED <<request, docs>>
  BY DEF CoordinatorInvariant, RowInvariant, Fails
<1>2. CASE Writes("cancelled") /\ UNCHANGED bill
  BY <1>1, <1>2, StatusWritten, PaidEnds DEF Writes, RowKeeps
<1>3. CASE WritesError(code) /\ UNCHANGED bill
  BY <1>1, <1>3, StatusWritten, PaidEnds DEF WritesError, RowKeeps
<1>4. CASE RetriesAfterOutage(code)
  BY <1>1, <1>4, StatusWritten, PaidEnds DEF RetriesAfterOutage, Writes, RowKeeps
<1> QED BY <1>2, <1>3, <1>4 DEF Fails

\* The coroutine goes on, and may have paid for a call.
LEMMA PaidGoesOn ==
  ASSUME CoordinatorInvariant, MoneyInvariant, PaidInvariant, UNCHANGED <<request, docs>>,
         (task' = task /\ run.pc # "idle") \/ Writes("active"), run'.pc # "idle",
         bill' = bill \/ (\E step : PaysOnce(step)), RunCounted', \A s \in bill'.paid : RunBehind(s)'
  PROVE  PaidInvariant'
<1>1. bill'.kept = bill.kept /\ PaidWorkIsKept'
  BY DEF PaysOnce, PaidInvariant, PaidWorkIsKept
<1>2. /\ task'.agent = task.agent /\ task'.mapped = task.mapped /\ task'.mixture = task.mixture
      /\ task'.status \in {"active", "cancelled"}
  BY DEF CoordinatorInvariant, RowInvariant, Writes, RowFields
<1>3. RowCounted' /\ KeptBehind'
  BY <1>1, <1>2, KeptStays DEF PaidInvariant
<1>4. PaidBehind'
  BY <1>2 DEF PaidBehind
<1> QED BY <1>1, <1>3, <1>4 DEF PaidInvariant

LEMMA CompletesPaid ==
  ASSUME CoordinatorInvariant, MoneyInvariant, PaidInvariant, UNCHANGED <<request, docs, bill>>,
         run' = Idle, NEW result, task' = [task EXCEPT !.status = "completed", !.result = result]
  PROVE  PaidInvariant'
<1>1. /\ task'.status = "completed"
      /\ task'.agent = task.agent /\ task'.mapped = task.mapped /\ task'.mixture = task.mixture
  BY DEF CoordinatorInvariant, RowInvariant, RowFields
<1> QED BY <1>1, PaidEnds

LEMMA CompletesSinglePaid ==
  ASSUME CoordinatorInvariant, MoneyInvariant, PaidInvariant, NEW here, NEW result,
         CompletesSingle(here, result)
  PROVE  PaidInvariant'
BY FailsPaid, CompletesPaid DEF CompletesSingle

\* A run gives way, or waits for its client: all that was paid lies behind one of its
\* checkpoints.
LEMMA PaidPauses ==
  ASSUME CoordinatorInvariant, MoneyInvariant, PaidInvariant, run' = Idle, UNCHANGED <<request, docs>>,
         Freeze, task'.status \in {"queued", "waiting_for_tools"}, RowCounted',
         \A s \in bill.paid :
           \/ s[1] \in {"map", "merge"} /\ task'.mapped # None /\ MapBehind(task'.mapped, s)
           \/ s[1] = "turn" /\ task'.agent # None /\ s[2] \in 1..task'.agent.at
           \/ s[1] \in {"propose", "synthesis"} /\ task'.mixture # None /\ MixtureBehind(task'.mixture, s)
  PROVE  PaidInvariant'
<1>1. bill'.paid = bill.paid /\ bill'.kept = bill.paid /\ bill'.twice = bill.twice
  BY PaidFrozen DEF MoneyInvariant
<1>2. PaidWorkIsKept'
  BY <1>1 DEF PaidInvariant, PaidWorkIsKept
<1>3. KeptBehind'
  BY <1>1 DEF KeptBehind, MapBehind, MixtureBehind
<1>4. RunCounted' /\ \A s : RunBehind(s)'
  BY IdleHasNothing
<1>5. PaidBehind'
  BY <1>1, <1>4 DEF PaidBehind
<1> QED BY <1>2, <1>3, <1>4, <1>5 DEF PaidInvariant

\* The strategies that have not begun count nothing.
LEMMA UnbegunPaid ==
  ASSUME NEW pc, run'.pc = pc, pc \in {"single", "agent", "map_plan", "mixture"}
  PROVE  /\ RunCounted' /\ run'.pc # "idle"
         /\ pc # "mixture" => \A s : s \in bill'.kept => RunBehind(s)'
         /\ pc = "mixture" => \A s : s \in bill'.kept \/ Escalated(s)' => RunBehind(s)'
BY PlacesApart DEF RunCounted, RunBehind

LEMMA SingleMovesPaid ==
  ASSUME CoordinatorInvariant, MoneyInvariant, PaidInvariant, UNCHANGED <<request, docs>>,
         task' = task \/ Writes("active"),
         run.pc \in SinglePlaces \cup {"single"}, run'.pc \in SinglePlaces,
         bill' = bill \/ (\E step : PaysOnce(step)),
         \A s \in bill'.paid :
           \/ s \in bill.kept
           \/ s[1] = "single" /\ run'.pc # "single_call"
           \/ s[1] = "rate" /\ run'.pc \in {"single_save", "escalate"}
  PROVE  PaidInvariant'
<1>1. /\ run'.pc \notin MapPlaces \cup TalkPlaces \cup MixturePlaces
                         \cup {"idle", "single", "mixture", "agent", "map_plan"}
      /\ run.pc # "idle"
  BY PlacesApart
<1>2. bill'.kept = bill.kept
  BY DEF PaysOnce
<1>3. RunCounted' /\ \A s \in bill'.paid : RunBehind(s)'
  BY <1>1, <1>2 DEF RunCounted, RunBehind
<1> QED BY <1>1, <1>3, PaidGoesOn

LEMMA SinglePaid ==
  ASSUME CoordinatorInvariant, MoneyInvariant, PaidInvariant, SingleNext
  PROVE  PaidInvariant'
<1> DEFINE Fields == {"pc", "escalates", "spent"}
<1>1. /\ run.pc \in {"single"} \cup SinglePlaces /\ run.pc # "idle"
      /\ run.pc \in SinglePlaces => DOMAIN run = Fields
      /\ run.pc = "single" => DOMAIN run = {"pc", "escalates"}
  <2>1. run.pc \in {"single"} \cup SinglePlaces /\ run.pc # "idle"
    BY DEF SingleNext, SelectSingle, SingleAnswered, SingleFailed, SingleKept, SaveSingle, CompletesSingle,
      Rated, RatingFailed, Escalate, SinglePlaces
  <2> QED BY <2>1, FieldsOf DEF CoordinatorInvariant, RunInvariant
<1>2. \A s \in bill.paid :
        /\ run.pc = "single" => s \in bill.kept
        /\ run.pc \in SinglePlaces =>
             \/ s \in bill.kept
             \/ s[1] = "single" /\ run.pc # "single_call"
             \/ s[1] = "rate" /\ run.pc \in {"single_save", "escalate"}
  BY DEF PaidInvariant, PaidBehind, RunBehind
<1>3. \A s \in bill.kept : s[1] \notin SingleSteps
  BY DEF PaidInvariant, KeptBehind, SingleSteps
<1>4. CASE \E code : Fails(code)
  BY <1>4, FailsPaid
<1>5. CASE EndsAs("cancelled")
  BY <1>5, EndsAsPaid
<1>6. CASE SaveSingle
  BY <1>6, CompletesSinglePaid DEF SaveSingle
<1>7. CASE SelectSingle /\ ~ \E code : Fails(code)
  <2>1. /\ run' = [pc |-> "single_call", escalates |-> run.escalates, spent |-> 0]
        /\ UNCHANGED <<request, docs, bill>> /\ Writes("active") /\ run.pc = "single"
    BY <1>7 DEF SelectSingle, GoesOn
  <2>2. run'.pc = "single_call" /\ run'.pc \in SinglePlaces
    BY <2>1 DEF SinglePlaces
  <2> QED BY <1>2, <2>1, <2>2, SingleMovesPaid
<1>8. CASE SingleAnswered
  <2>1. PICK c \in Costs : Pays(<<"single">>, c) /\ run' = [run EXCEPT !.pc = "single_done", !.spent = c]
    BY <1>8 DEF SingleAnswered, GoesOn
  <2>2. UNCHANGED <<request, docs, task>> /\ run.pc = "single_call" /\ run.pc \in SinglePlaces
    BY <1>8 DEF SingleAnswered, GoesOn, SinglePlaces
  <2>3. run'.pc = "single_done" /\ run'.pc \in SinglePlaces
    BY <1>1, <2>1, <2>2 DEF SinglePlaces
  <2>4. <<"single">> \notin bill.paid
    BY <1>2, <1>3, <2>2 DEF SingleSteps
  <2>5. PaysOnce(<<"single">>)
    BY <2>1, <2>4, PaidOnce DEF MoneyInvariant, PaidInvariant, PaidWorkIsKept
  <2>6. \A s \in bill'.paid : s \in bill.kept \/ s[1] = "single"
    BY <1>2, <2>2, <2>5 DEF PaysOnce
  <2> QED BY <2>2, <2>3, <2>5, <2>6, SingleMovesPaid
<1>9. CASE Rated
  <2>1. PICK c \in Costs : \E next \in {"single_save", "escalate"} :
          Pays(<<"rate">>, c) /\ run' = [run EXCEPT !.pc = next, !.spent = run.spent + c]
    BY <1>9, Zenon DEF Rated, GoesOn
  <2>2. PICK next \in {"single_save", "escalate"} :
          Pays(<<"rate">>, c) /\ run' = [run EXCEPT !.pc = next, !.spent = run.spent + c]
    BY <2>1
  <2>3. UNCHANGED <<request, docs, task>> /\ run.pc = "rate_call" /\ run.pc \in SinglePlaces
    BY <1>9 DEF Rated, GoesOn, SinglePlaces
  <2>4. run'.pc = next /\ run'.pc \in SinglePlaces
    BY <1>1, <2>2, <2>3 DEF SinglePlaces
  <2>5. <<"rate">> \notin bill.paid
    BY <1>2, <1>3, <2>3 DEF SingleSteps
  <2>6. PaysOnce(<<"rate">>)
    BY <2>2, <2>5, PaidOnce DEF MoneyInvariant, PaidInvariant, PaidWorkIsKept
  <2>7. \A s \in bill'.paid : s \in bill.kept \/ s[1] = "single" \/ s[1] = "rate"
    BY <1>2, <2>3, <2>6 DEF PaysOnce
  <2> QED BY <2>3, <2>4, <2>6, <2>7, SingleMovesPaid
<1>10. CASE (SingleKept /\ ~EndsAs("cancelled")) \/ RatingFailed
  <2>1. PICK pc \in {"rate_call", "single_save"} : run' = [run EXCEPT !.pc = pc]
    BY <1>10 DEF SingleKept, RatingFailed, GoesOn
  <2>2. UNCHANGED <<request, docs, task, bill>> /\ run.pc \in {"single_done", "rate_call"} /\ run.pc \in SinglePlaces
    BY <1>10 DEF SingleKept, RatingFailed, GoesOn, SinglePlaces
  <2>3. run'.pc = pc /\ pc \in SinglePlaces
    BY <1>1, <2>1, <2>2 DEF SinglePlaces
  <2>4. \A s \in bill'.paid : s \in bill.kept \/ s[1] = "single"
    BY <1>2, <2>2
  <2> QED BY <2>1, <2>2, <2>3, <2>4, SingleMovesPaid
<1>11. CASE Escalate /\ ~ \E code : Fails(code)
  <2>1. /\ run.pc = "escalate" /\ UNCHANGED <<request, docs, task, bill>>
        /\ run' = ToMixture(Remaining(run.spent, request.max), "fast", "sequential")
    BY <1>11 DEF Escalate, GoesOn
  <2>2. run'.pc = "mixture" /\ run.pc \in SinglePlaces
    BY <2>1 DEF ToMixture, SinglePlaces
  <2>3. request.strategy # "mixture"
    BY <2>2, PlacesApart DEF CoordinatorInvariant, RunInvariant, RunIsAsked
  <2>4. \A s \in bill'.paid : s \in bill'.kept \/ Escalated(s)'
    BY <1>2, <2>1, <2>2, <2>3 DEF Escalated, SingleSteps
  <2> QED BY <1>1, <2>1, <2>2, <2>4, UnbegunPaid, PaidGoesOn
<1> QED BY <1>4, <1>5, <1>6, <1>7, <1>8, <1>9, <1>10, <1>11
      DEF SingleNext, SelectSingle, SingleFailed, SingleKept, Escalate

----------------------------------------------------------------------------
(* What was paid for, from outside.                                        *)

LEMMA DispatchPaid ==
  ASSUME CoordinatorInvariant, MoneyInvariant, PaidInvariant, Dispatch
  PROVE  PaidInvariant'
<1>1. task.status = "queued" /\ run = Idle
  BY DEF Dispatch
<1>2. CASE EndsAs("cancelled")
  BY <1>2, EndsAsPaid
<1>3. CASE \E code : EndsWith(code)
  BY <1>3, EndsWithPaid
<1>4. CASE ~EndsAs("cancelled") /\ ~ \E code : EndsWith(code)
  <2>1. UNCHANGED <<request, docs, bill>> /\ Writes("active")
    BY <1>4 DEF Dispatch, GoesOn
  <2>2. PICK pc \in {"single", "agent", "map_plan", "mixture"} : run'.pc = pc
    <3>1. CASE request.strategy # "auto" /\ run' = Begin(request.strategy)
      <4>1. request.strategy \in Concrete \cup {"map_reduce"}
        BY <3>1, RequestsAssumption DEF CoordinatorInvariant, RowInvariant
      <4> QED BY <3>1, <4>1, BeginsSomewhere DEF Concrete
    <3>2. CASE \E cases \in Histories : run' = BeginAuto(Route(request.signals, cases))
      <4>1. PICK cases \in Histories : run' = BeginAuto(Route(request.signals, cases))
        BY <3>2
      <4>2. Route(request.signals, cases) \in Concrete
        <5>1. cases \in Seq(Case)
          BY RequestsAssumption
        <5> QED BY <5>1, RouteIsConcrete
      <4> QED BY <4>1, <4>2, BeginsSomewhere
    <3> QED BY <1>4, <3>1, <3>2 DEF Dispatch, GoesOn
  <2>3. \A s \in bill'.paid : s \in bill'.kept
    BY <1>1, <2>1 DEF PaidInvariant, PaidBehind
  <2> QED BY <2>1, <2>2, <2>3, UnbegunPaid, PaidGoesOn
<1> QED BY <1>2, <1>3, <1>4 DEF Dispatch

LEMMA InterruptionsPaid ==
  ASSUME CoordinatorInvariant, MoneyInvariant, PaidInvariant, TimesOut \/ Crash
  PROVE  PaidInvariant'
<1>1. CASE TimesOut
  BY <1>1, EndsAsPaid, EndsWithPaid DEF TimesOut
<1>2. CASE Crash
  <2>1. /\ run.pc # "idle" /\ run' = Idle /\ UNCHANGED <<request, docs>> /\ bill' = Interrupted
        /\ task.status \in {"active", "cancelled"}
    BY <1>2 DEF Crash, CoordinatorInvariant, RowInvariant
  <2>2. PICK status \in {"queued", "failed", "cancelled"} : RowKeeps(status)
    BY <1>2, <2>1, StatusWritten DEF Crash, Writes, WritesError, CoordinatorInvariant, RowInvariant
  <2> QED BY <2>1, <2>2, PaidEnds DEF RowKeeps
<1> QED BY <1>1, <1>2

LEMMA CancelPaid ==
  ASSUME CoordinatorInvariant, PaidInvariant, Cancel
  PROVE  PaidInvariant'
<1>1. /\ task'.status = "cancelled" /\ UNCHANGED <<request, run, docs, bill>>
      /\ task'.agent = task.agent /\ task'.mapped = task.mapped /\ task'.mixture = task.mixture
  BY DEF Cancel, CoordinatorInvariant, RowInvariant, RowFields
<1>2. RowCounted' /\ KeptBehind'
  BY <1>1, KeptStays DEF PaidInvariant
<1>3. RunCounted' /\ PaidWorkIsKept'
  BY <1>1 DEF PaidInvariant, RunCounted, MapCounts, MixtureCounts, PaidWorkIsKept
<1>4. PaidBehind'
  BY <1>1 DEF PaidInvariant, PaidBehind, RunBehind, KeptOther, Escalated, MapBehind, TalkBehind, MixtureBehind
<1> QED BY <1>2, <1>3, <1>4 DEF PaidInvariant

LEMMA ReconvertPaid ==
  ASSUME CoordinatorInvariant, PaidInvariant, Reconvert
  PROVE  PaidInvariant'
<1>1. docs' = docs + 1 /\ docs \in Nat /\ UNCHANGED <<request, task, run, bill>>
  BY DEF Reconvert, CoordinatorInvariant, RowInvariant
<1>2. \A r : MapCounts(r) => MapCounts(r)'
  BY <1>1 DEF MapCounts
<1>3. RowCounted' /\ RunCounted'
  BY <1>1 DEF PaidInvariant, RowCounted, RunCounted, MapCounts, MixtureCounts
<1>4. KeptBehind' /\ PaidWorkIsKept'
  BY <1>1 DEF PaidInvariant, KeptBehind, MapBehind, MixtureBehind, PaidWorkIsKept
<1>5. PaidBehind'
  BY <1>1 DEF PaidInvariant, PaidBehind, RunBehind, KeptOther, Escalated, MapBehind, TalkBehind, MixtureBehind
<1> QED BY <1>3, <1>4, <1>5 DEF PaidInvariant

LEMMA ToolResultsPaid ==
  ASSUME NoneIsNoRecord, CoordinatorInvariant, PaidInvariant, NEW provided, ToolResults(provided)
  PROVE  PaidInvariant'
<1>1. /\ task.status = "waiting_for_tools" /\ run.pc = "idle"
      /\ DOMAIN task.agent = AgentFields
  BY DEF ToolResults, Accepted, CoordinatorInvariant, RowInvariant, CheckpointsHeld, AgentFields
<1> DEFINE state == [task.agent EXCEPT !.open = @ \ provided, !.resumed = TRUE]
<1>2. task' = [task EXCEPT !.status = "queued", !.agent = state] /\ UNCHANGED <<request, run, docs, bill>>
  BY DEF ToolResults
<1>3. state.at = task.agent.at /\ task.agent # None /\ state # None
  <2>1. state.at = task.agent.at /\ DOMAIN state = AgentFields
    BY <1>1 DEF AgentFields
  <2> HIDE DEF state
  <2> QED BY <1>1, <2>1, CheckpointIsNotNone
<1> HIDE DEF state
<1>4. /\ task'.status = "queued" /\ task'.agent = state
      /\ task'.mapped = task.mapped /\ task'.mixture = task.mixture
  BY <1>2 DEF CoordinatorInvariant, RowInvariant, RowFields
<1>5. RowCounted' /\ RunCounted' /\ PaidWorkIsKept'
  BY <1>1, <1>2, <1>3, <1>4
    DEF PaidInvariant, RowCounted, RunCounted, MapCounts, MixtureCounts, PaidWorkIsKept
<1>6. KeptBehind'
  BY <1>2, <1>3, <1>4 DEF PaidInvariant, KeptBehind, MapBehind, MixtureBehind
<1>7. PaidBehind'
  BY <1>1, <1>2, <1>4 DEF PaidInvariant, PaidBehind, RunBehind, KeptOther, Escalated, MapBehind,
    TalkBehind, MixtureBehind
<1> QED BY <1>5, <1>6, <1>7 DEF PaidInvariant

----------------------------------------------------------------------------
(* What was paid for among the chunks.                                     *)

LEMMA MapMovesPaid ==
  ASSUME CoordinatorInvariant, MoneyInvariant, PaidInvariant, UNCHANGED <<request, docs>>,
         task' = task \/ Writes("active"),
         run.pc \in MapPlaces \cup {"map_plan"}, run'.pc \in MapPlaces,
         bill' = bill \/ (\E step : PaysOnce(step)), MapCounts(run'),
         \A s \in bill'.paid : KeptOther(s, MapSteps) \/ MapBehind(run', s)
  PROVE  PaidInvariant'
<1>1. /\ run'.pc \notin SinglePlaces \cup TalkPlaces \cup MixturePlaces
                         \cup {"idle", "single", "mixture", "agent", "map_plan"}
      /\ run.pc # "idle"
  BY PlacesApart
<1>2. bill'.kept = bill.kept
  BY DEF PaysOnce
<1>3. RunCounted' /\ \A s \in bill'.paid : RunBehind(s)'
  BY <1>1, <1>2 DEF RunCounted, RunBehind, MapCounts, MapBehind, KeptOther
<1> QED BY <1>1, <1>3, PaidGoesOn

LEMMA ChunksBeginOnce ==
  ASSUME CoordinatorInvariant, MoneyInvariant, PaidInvariant, ResumeChunks \/ SplitDocuments
  PROVE  PaidInvariant'
<1>1. run.pc = "map_plan" /\ run.pc # "idle" /\ "map" \in MapPlaces /\ "merge" \in MapPlaces
  BY DEF ResumeChunks, SplitDocuments, MapPlaces
<1>2. \A s \in bill.paid : s \in bill.kept
  BY <1>1 DEF PaidInvariant, PaidBehind, RunBehind
<1>3. \A s \in bill.kept :
        KeptOther(s, MapSteps)
          \/ (s[1] \in {"map", "merge"} /\ task.mapped # None /\ MapBehind(task.mapped, s))
  BY DEF PaidInvariant, KeptBehind, KeptOther, MapSteps
<1>4. docs \in Nat
  BY DEF CoordinatorInvariant, RowInvariant
<1>5. CASE ResumeChunks
  <2>1. /\ task.mapped # None /\ task.mapped.docs = docs
        /\ run' = [task.mapped EXCEPT !.docs = docs]
        /\ UNCHANGED <<request, docs, bill>> /\ Writes("active")
    BY <1>5 DEF ResumeChunks, Usable, SameChunks, Resumed, GoesOn
  <2>2. DOMAIN task.mapped = MapFields /\ task.mapped.pc \in {"map", "merge"} /\ MapCounts(task.mapped)
    BY <2>1 DEF CoordinatorInvariant, RowInvariant, CheckpointsHeld, PaidInvariant, RowCounted
  <2>3. /\ run'.pc = task.mapped.pc /\ run'.docs = task.mapped.docs /\ run'.partials = task.mapped.partials
        /\ run'.rounds = task.mapped.rounds /\ run'.merged = task.mapped.merged
    BY <2>1, <2>2 DEF MapFields
  <2>4. MapCounts(run') /\ \A s : MapBehind(task.mapped, s) => MapBehind(run', s)
    BY <2>2, <2>3 DEF MapCounts, MapBehind
  <2> QED BY <1>1, <1>2, <1>3, <2>1, <2>2, <2>3, <2>4, MapMovesPaid
<1>6. CASE SplitDocuments
  <2>1. CASE \E code : Fails(code)
    BY <2>1, FailsPaid
  <2>2. CASE Writes("active") /\ GoesOn(Mapping("map")) /\ UNCHANGED bill
    <3>1. /\ run'.pc = "map" /\ run'.docs = docs /\ run'.partials = <<>> /\ run'.rounds = 0
          /\ run'.merged = 0 /\ UNCHANGED <<request, docs>>
      BY <2>2 DEF GoesOn, Mapping
    <3>2. MapCounts(run')
      BY <1>4, <3>1 DEF MapCounts
    <3>3. ASSUME NEW s, s[1] \in {"map", "merge"}, task.mapped # None, MapBehind(task.mapped, s)
          PROVE  MapBehind(run', s)
      <4>1. task.mapped.docs \in 0..docs /\ task.mapped.docs # docs
        BY <1>6, <3>3 DEF PaidInvariant, RowCounted, MapCounts, SplitDocuments, Usable, SameChunks
      <4>2. s[2] \in 0..task.mapped.docs /\ s[3] \in Nat /\ (s[1] = "merge" => s[4] \in Nat)
        BY <3>3 DEF MapBehind
      <4>3. s[2] \in 0..docs /\ s[2] # docs
        BY <1>4, <4>1, <4>2
      <4> QED BY <3>1, <3>3, <4>2, <4>3 DEF MapBehind, MapSteps
    <3> QED BY <1>1, <1>2, <1>3, <2>2, <3>1, <3>2, <3>3, MapMovesPaid
  <2>3. CASE GoesOn([pc |-> "single", escalates |-> FALSE]) /\ UNCHANGED <<task, bill>>
    <3>1. run'.pc = "single" /\ UNCHANGED <<request, docs>>
      BY <2>3 DEF GoesOn
    <3>2. RunCounted' /\ \A s \in bill'.paid : RunBehind(s)'
      BY <1>2, <2>3, <3>1, UnbegunPaid
    <3> QED BY <1>1, <2>3, <3>1, <3>2, PaidGoesOn
  <2> QED BY <1>6, <2>1, <2>2, <2>3 DEF SplitDocuments
<1> QED BY <1>5, <1>6

\* What lies behind a run among the chunks.
LEMMA BehindChunks ==
  ASSUME CoordinatorInvariant, PaidInvariant, run.pc \in MapPlaces
  PROVE  /\ \A s \in bill.paid : KeptOther(s, MapSteps) \/ MapBehind(run, s)
         /\ MapCounts(run) /\ run.partials \in Seq(Nat) /\ docs \in Nat /\ run.docs \in Nat
         /\ DOMAIN run = MapFields
<1>1. OfOne(run) /\ DOMAIN run = MapFields /\ docs \in Nat
  BY FieldsOf DEF CoordinatorInvariant, RowInvariant, RunInvariant, RunMaps
<1> QED BY <1>1 DEF PaidInvariant, PaidBehind, RunBehind, RunCounted, OfOne

LEMMA ChunksOnce ==
  ASSUME CoordinatorInvariant, MoneyInvariant, PaidInvariant,
         ChunkAnswered \/ GroupAnswered \/ LastAnswered
  PROVE  PaidInvariant'
<1>1. /\ run.pc \in {"map_call", "merge_call", "final_call"} /\ run.pc \in MapPlaces
      /\ UNCHANGED <<request, docs, task>>
  BY DEF ChunkAnswered, GroupAnswered, LastAnswered, Answered, GoesOn, MapPlaces
<1>2. /\ \A s \in bill.paid : KeptOther(s, MapSteps) \/ MapBehind(run, s)
      /\ MapCounts(run) /\ run.partials \in Seq(Nat) /\ docs \in Nat /\ run.docs \in Nat
      /\ DOMAIN run = MapFields
  BY <1>1, BehindChunks
<1>3. ASSUME NEW here, NEW step, NEW local, Answered(here, step, local), DOMAIN local = MapFields,
             step[1] \in MapSteps, ~MapBehind(run, step), local.pc \in MapPlaces, MapCounts(local),
             MapBehind(local, step), \A s : MapBehind(run, s) => MapBehind(local, s)
      PROVE  PaidInvariant'
  <2>1. PICK c \in Costs : Pays(step, c) /\ run' = [local EXCEPT !.spent = local.spent + c]
    BY <1>3 DEF Answered, GoesOn
  <2>2. /\ run'.pc = local.pc /\ run'.docs = local.docs /\ run'.partials = local.partials
        /\ run'.rounds = local.rounds /\ run'.merged = local.merged
    BY <1>3, <2>1 DEF MapFields
  <2>3. MapCounts(run') /\ \A s : MapBehind(local, s) => MapBehind(run', s)
    BY <1>3, <2>2 DEF MapCounts, MapBehind
  <2>4. step \notin bill.paid
    BY <1>2, <1>3 DEF KeptOther
  <2>5. PaysOnce(step)
    BY <2>1, <2>4, PaidOnce DEF MoneyInvariant, PaidInvariant, PaidWorkIsKept
  <2>6. \A s \in bill'.paid : KeptOther(s, MapSteps) \/ MapBehind(run', s)
    BY <1>2, <1>3, <2>3, <2>5 DEF PaysOnce
  <2> QED BY <1>1, <1>3, <2>2, <2>3, <2>5, <2>6, MapMovesPaid
<1>4. CASE ChunkAnswered
  <2> DEFINE local == [run EXCEPT !.pc = "map_done", !.partials = Append(@, run.docs)]
             n == Len(run.partials) + 1
             step == <<"map", run.docs, n>>
  <2>1. Answered("map_call", step, local) /\ run.pc = "map_call"
    BY <1>4 DEF ChunkAnswered, Answered
  <2>2. /\ DOMAIN local = MapFields /\ local.pc = "map_done" /\ local.docs = run.docs
        /\ local.partials = Append(run.partials, run.docs)
        /\ local.rounds = run.rounds /\ local.merged = run.merged
    BY <1>2 DEF MapFields
  <2>3. /\ n \in Nat /\ Len(local.partials) = n /\ Len(run.partials) \in Nat
    BY <1>2, <2>2
  <2>4. step[1] = "map" /\ step[2] = run.docs /\ step[3] = n
    OBVIOUS
  <2> HIDE DEF local, step
  <2>5. step[1] \in MapSteps /\ local.pc \in MapPlaces /\ MapCounts(local)
    BY <1>2, <2>2, <2>4 DEF MapSteps, MapPlaces, MapCounts
  <2>6. ~MapBehind(run, step)
    BY <2>3, <2>4 DEF MapBehind
  <2>7. MapBehind(local, step)
    BY <1>2, <2>2, <2>3, <2>4 DEF MapBehind, MapSteps
  <2>8. ASSUME NEW s, MapBehind(run, s) PROVE MapBehind(local, s)
    <3>1. s[1] # "final"
      BY <2>1, <2>8 DEF MapBehind
    <3> QED BY <2>2, <2>3, <2>8, <3>1 DEF MapBehind
  <2> QED BY <1>3, <2>1, <2>2, <2>5, <2>6, <2>7, <2>8
<1>5. CASE GroupAnswered
  <2> DEFINE local == [run EXCEPT !.pc = "merge_done", !.merged = @ + 1]
             n == run.merged + 1
             step == <<"merge", run.docs, run.rounds, n>>
  <2>1. Answered("merge_call", step, local) /\ run.pc = "merge_call"
    BY <1>5 DEF GroupAnswered, Answered
  <2>2. /\ DOMAIN local = MapFields /\ local.pc = "merge_done" /\ local.docs = run.docs
        /\ local.partials = run.partials
        /\ local.rounds = run.rounds /\ local.merged = n
    BY <1>2 DEF MapFields
  <2>3. n \in Nat /\ run.merged \in Nat /\ run.rounds \in Nat /\ run.merged < n
    BY <1>2 DEF MapCounts
  <2>4. step[1] = "merge" /\ step[2] = run.docs /\ step[3] = run.rounds /\ step[4] = n
    OBVIOUS
  <2> HIDE DEF local, step, n
  <2>5. step[1] \in MapSteps /\ local.pc \in MapPlaces /\ MapCounts(local)
    BY <1>2, <2>2, <2>3, <2>4 DEF MapSteps, MapPlaces, MapCounts
  <2>6. ~MapBehind(run, step)
    BY <2>3, <2>4 DEF MapBehind
  <2>7. MapBehind(local, step)
    BY <1>2, <2>2, <2>3, <2>4 DEF MapBehind, MapSteps
  <2>8. ASSUME NEW s, MapBehind(run, s) PROVE MapBehind(local, s)
    <3>1. s[1] # "final"
      BY <2>1, <2>8 DEF MapBehind
    <3> QED BY <2>2, <2>3, <2>8, <3>1 DEF MapBehind
  <2> QED BY <1>3, <2>1, <2>2, <2>5, <2>6, <2>7, <2>8
<1>6. CASE LastAnswered
  <2> DEFINE local == [run EXCEPT !.pc = "final_done"]
             step == <<"final", run.docs>>
  <2>1. Answered("final_call", step, local) /\ run.pc = "final_call"
    BY <1>6 DEF LastAnswered, Answered
  <2>2. /\ DOMAIN local = MapFields /\ local.pc = "final_done" /\ local.docs = run.docs
        /\ local.partials = run.partials
        /\ local.rounds = run.rounds /\ local.merged = run.merged
    BY <1>2 DEF MapFields
  <2>3. step[1] = "final"
    OBVIOUS
  <2> HIDE DEF local, step
  <2>4. step[1] \in MapSteps /\ local.pc \in MapPlaces /\ MapCounts(local)
    BY <1>2, <2>2, <2>3 DEF MapSteps, MapPlaces, MapCounts
  <2>5. ~MapBehind(run, step)
    BY <2>1, <2>3 DEF MapBehind
  <2>6. MapBehind(local, step)
    BY <2>2, <2>3 DEF MapBehind, MapSteps
  <2>7. \A s : MapBehind(run, s) => MapBehind(local, s)
    BY <2>2 DEF MapBehind
  <2> QED BY <1>3, <2>1, <2>2, <2>4, <2>5, <2>6, <2>7
<1> QED BY <1>4, <1>5, <1>6

\* The steps among the chunks that pay nothing.
LEMMA ChunksMoveOnce ==
  ASSUME CoordinatorInvariant, MoneyInvariant, PaidInvariant,
         \/ NextChunk \/ MergeGroup \/ ChunkKept \/ GroupKept \/ AskAfterChunk \/ AskAfterGroup
         \/ ChunksDone \/ ReduceRound \/ GroupsDone \/ LastCall \/ LastKept
  PROVE  PaidInvariant'
<1>1. run.pc \in MapPlaces /\ run.pc # "idle" /\ run.pc # "final_save"
  BY DEF NextChunk, MergeGroup, ChunkKept, GroupKept, AnswerKept, AskAfterChunk, AskAfterGroup, AsksToYield,
    ChunksDone, ReduceRound, GroupsDone, LastCall, LastKept, Guarded, MapPlaces
<1>2. /\ \A s \in bill.paid : KeptOther(s, MapSteps) \/ MapBehind(run, s)
      /\ MapCounts(run) /\ run.partials \in Seq(Nat) /\ docs \in Nat /\ run.docs \in Nat
      /\ DOMAIN run = MapFields
  BY <1>1, BehindChunks
<1>3. CASE \E code : Fails(code)
  BY <1>3, FailsPaid
<1>4. CASE EndsAs("cancelled")
  BY <1>4, EndsAsPaid
<1>5. CASE ~ (\E code : Fails(code)) /\ ~EndsAs("cancelled")
  <2>1. /\ run'.pc \in MapPlaces /\ run'.docs = run.docs /\ run'.partials = run.partials
        /\ \/ run'.rounds = run.rounds /\ run'.merged = run.merged
           \/ run'.rounds = run.rounds + 1 /\ run'.merged = 0
        /\ run.pc = "final_done" => run'.pc = "final_save"
    <3>1. CASE NextChunk \/ MergeGroup
      <4>1. PICK pc \in {"map_call", "merge_call"} : run' = [run EXCEPT !.pc = pc]
        BY <1>5, <3>1 DEF NextChunk, MergeGroup, Guarded, GoesOn
      <4> QED BY <1>2, <3>1, <4>1 DEF NextChunk, MergeGroup, Guarded, MapFields, MapPlaces
    <3>2. CASE ChunkKept \/ GroupKept
      <4>1. PICK pc \in {"map_ask", "map", "merge_ask", "merge"} : run' = [run EXCEPT !.pc = pc]
        BY <1>5, <3>2 DEF ChunkKept, GroupKept, AnswerKept, GoesOn
      <4> QED BY <1>2, <3>2, <4>1 DEF ChunkKept, GroupKept, AnswerKept, MapFields, MapPlaces
    <3>3. CASE AskAfterChunk \/ AskAfterGroup
      <4>1. PICK pc \in {"map_save", "map", "merge_save", "merge"} : run' = [run EXCEPT !.pc = pc]
        BY <3>3 DEF AskAfterChunk, AskAfterGroup, AsksToYield
      <4> QED BY <1>2, <3>3, <4>1 DEF AskAfterChunk, AskAfterGroup, AsksToYield, MapFields, MapPlaces
    <3>4. CASE ChunksDone \/ GroupsDone
      <4>1. PICK n : run' = [run EXCEPT !.pc = "reduce", !.input = n]
        BY <3>4 DEF ChunksDone, GroupsDone, GoesOn
      <4> QED BY <1>2, <3>4, <4>1 DEF ChunksDone, GroupsDone, MapFields, MapPlaces
    <3>5. CASE ReduceRound
      <4>1. PICK g : run' = [run EXCEPT !.pc = IF g = 1 THEN "final" ELSE "merge",
                                        !.rounds = @ + 1, !.groups = g, !.merged = 0]
        BY <1>5, <3>5 DEF ReduceRound, GoesOn
      <4> QED BY <1>2, <3>5, <4>1 DEF ReduceRound, MapFields, MapPlaces
    <3>6. CASE LastCall \/ LastKept
      <4>1. \/ run.pc = "final" /\ run' = [run EXCEPT !.pc = "final_call"]
            \/ run.pc = "final_done" /\ run' = [run EXCEPT !.pc = "final_save"]
        BY <1>5, <3>6 DEF LastCall, LastKept, GoesOn
      <4> QED BY <1>2, <4>1 DEF MapFields, MapPlaces
    <3> QED BY <1>5, <3>1, <3>2, <3>3, <3>4, <3>5, <3>6
  <2>2. UNCHANGED <<request, docs, bill>> /\ (task' = task \/ Writes("active"))
    BY <1>5 DEF NextChunk, MergeGroup, Guarded, ChunkKept, GroupKept, AnswerKept, AskAfterChunk,
      AskAfterGroup, AsksToYield, ChunksDone, ReduceRound, GroupsDone, LastCall, LastKept, GoesOn
  <2>3. MapCounts(run')
    BY <1>2, <2>1 DEF MapCounts
  <2>4. ASSUME NEW s, MapBehind(run, s) PROVE MapBehind(run', s)
    <3>1. s[1] = "final" => run'.pc = "final_save"
      BY <1>1, <2>1, <2>4 DEF MapBehind
    <3>2. run.rounds \in Nat
      BY <1>2 DEF MapCounts
    <3> QED BY <2>1, <2>4, <3>1, <3>2 DEF MapBehind
  <2> QED BY <1>1, <1>2, <2>1, <2>2, <2>3, <2>4, MapMovesPaid
<1> QED BY <1>3, <1>4, <1>5

LEMMA ChunksPauseOnce ==
  ASSUME NoneIsNoRecord, CoordinatorInvariant, MoneyInvariant, PaidInvariant,
         YieldAfterChunk \/ YieldAfterGroup
  PROVE  PaidInvariant'
<1>1. PICK phase \in {"map", "merge"} : Yields("mapped", KeptIn(phase))
  BY DEF YieldAfterChunk, YieldAfterGroup
<1>2. run.pc \in {"map_save", "merge_save"} /\ run.pc \in MapPlaces
  BY DEF YieldAfterChunk, YieldAfterGroup, MapPlaces
<1>3. /\ \A s \in bill.paid : KeptOther(s, MapSteps) \/ MapBehind(run, s)
      /\ MapCounts(run) /\ DOMAIN run = MapFields
  BY <1>2, BehindChunks
<1> DEFINE state == KeptIn(phase)
<1>4. /\ DOMAIN state = MapFields /\ state.docs = run.docs /\ state.partials = run.partials
      /\ state.rounds = run.rounds /\ state.merged = run.merged
  BY <1>3 DEF KeptIn, MapFields
<1>5. /\ task' = [task EXCEPT !.status = "queued", !["mapped"] = state] /\ run' = Idle /\ Freeze
      /\ UNCHANGED <<request, docs>>
  BY <1>1 DEF Yields
<1> HIDE DEF state
<1>6. /\ task'.status = "queued" /\ task'.mapped = state /\ task'.agent = task.agent
      /\ task'.mixture = task.mixture
  BY <1>5 DEF CoordinatorInvariant, RowInvariant, RowFields
<1>7. MapCounts(state) /\ \A s : MapBehind(run, s) /\ s[1] # "final" => MapBehind(state, s)
  BY <1>3, <1>4 DEF MapCounts, MapBehind
<1>8. state # None
  BY <1>4, CheckpointIsNotNone
<1>9. RowCounted'
  BY <1>5, <1>6, <1>7 DEF PaidInvariant, RowCounted, MapCounts, MixtureCounts
<1>10. ASSUME NEW s \in bill.paid
       PROVE  \/ s[1] \in {"map", "merge"} /\ task'.mapped # None /\ MapBehind(task'.mapped, s)
              \/ s[1] = "turn" /\ task'.agent # None /\ s[2] \in 1..task'.agent.at
              \/ s[1] \in {"propose", "synthesis"} /\ task'.mixture # None /\ MixtureBehind(task'.mixture, s)
  <2>1. CASE MapBehind(run, s)
    <3>1. s[1] \in {"map", "merge"}
      BY <1>2, <2>1 DEF MapBehind, MapSteps
    <3> QED BY <1>6, <1>7, <1>8, <2>1, <3>1
  <2>2. CASE KeptOther(s, MapSteps)
    BY <1>6, <2>2 DEF KeptOther, MapSteps, PaidInvariant, KeptBehind
  <2> QED BY <1>3, <2>1, <2>2
<1> QED BY <1>5, <1>6, <1>9, <1>10, PaidPauses

LEMMA MapReduceOnce ==
  ASSUME NoneIsNoRecord, CoordinatorInvariant, MoneyInvariant, PaidInvariant, MapReduceNext
  PROVE  PaidInvariant'
<1>1. CASE ResumeChunks \/ SplitDocuments
  BY <1>1, ChunksBeginOnce
<1>2. CASE ChunkAnswered \/ GroupAnswered \/ LastAnswered
  BY <1>2, ChunksOnce
<1>3. CASE \/ NextChunk \/ MergeGroup \/ ChunkKept \/ GroupKept \/ AskAfterChunk \/ AskAfterGroup
           \/ ChunksDone \/ ReduceRound \/ GroupsDone \/ LastCall \/ LastKept
  BY <1>3, ChunksMoveOnce
<1>4. CASE YieldAfterChunk \/ YieldAfterGroup
  BY <1>4, ChunksPauseOnce
<1>5. CASE SaveSynthesis
  BY <1>5, CompletesSinglePaid DEF SaveSynthesis
<1>6. CASE CallFailed
  BY <1>6, FailsPaid DEF CallFailed
<1> QED BY <1>1, <1>2, <1>3, <1>4, <1>5, <1>6 DEF MapReduceNext

----------------------------------------------------------------------------
(* What was paid for in a conversation.                                    *)

LEMMA TalkMovesPaid ==
  ASSUME CoordinatorInvariant, MoneyInvariant, PaidInvariant, UNCHANGED <<request, docs>>,
         task' = task \/ Writes("active"),
         run.pc \in TalkPlaces \cup {"agent"}, run'.pc \in TalkPlaces,
         bill' = bill \/ (\E step : PaysOnce(step)), run'.at \in Nat,
         \A s \in bill'.paid : KeptOther(s, TalkSteps) \/ TalkBehind(run', s)
  PROVE  PaidInvariant'
<1>1. /\ run'.pc \notin SinglePlaces \cup MapPlaces \cup MixturePlaces
                         \cup {"idle", "single", "mixture", "agent", "map_plan"}
      /\ run.pc # "idle"
  BY PlacesApart
<1>2. bill'.kept = bill.kept
  BY DEF PaysOnce
<1>3. RunCounted' /\ \A s \in bill'.paid : RunBehind(s)'
  BY <1>1, <1>2 DEF RunCounted, RunBehind, TalkBehind, KeptOther
<1> QED BY <1>1, <1>3, PaidGoesOn

LEMMA AgentBeginsOnce ==
  ASSUME CoordinatorInvariant, MoneyInvariant, PaidInvariant, SelectAgent
  PROVE  PaidInvariant'
<1>1. run.pc = "agent" /\ run.pc # "idle"
  BY DEF SelectAgent
<1>2. CASE Fails("PROVIDER_ERROR")
  BY <1>2, FailsPaid
<1>3. CASE Writes("active") /\ GoesOn(Talk(task.agent)) /\ UNCHANGED bill
  <2>1. run' = Talk(task.agent) /\ UNCHANGED <<request, docs, bill>>
    BY <1>3 DEF GoesOn
  <2>2. task.agent # None => task.agent.resumed
    BY <1>1 DEF MoneyInvariant, AgentWaits
  <2>3. /\ run'.pc = "turn" /\ run'.pc \in TalkPlaces
        /\ run'.at = IF task.agent # None THEN task.agent.at ELSE 0
    BY <2>1, <2>2 DEF Talk, TalkPlaces
  <2>4. run'.at \in Nat
    BY <2>3 DEF PaidInvariant, RowCounted
  <2>5. \A s \in bill.paid : s \in bill.kept
    BY <1>1 DEF PaidInvariant, PaidBehind, RunBehind
  <2>6. \A s \in bill.kept :
          KeptOther(s, TalkSteps) \/ (s[1] = "turn" /\ task.agent # None /\ s[2] \in 1..task.agent.at)
    BY DEF PaidInvariant, KeptBehind, KeptOther, TalkSteps
  <2>7. \A s \in bill'.paid : KeptOther(s, TalkSteps) \/ TalkBehind(run', s)
    BY <2>1, <2>3, <2>5, <2>6 DEF TalkBehind, TalkSteps
  <2> QED BY <1>1, <1>3, <2>1, <2>3, <2>4, <2>7, TalkMovesPaid
<1> QED BY <1>2, <1>3 DEF SelectAgent

\* What lies behind a conversation.
LEMMA BehindTalk ==
  ASSUME CoordinatorInvariant, PaidInvariant, run.pc \in TalkPlaces
  PROVE  /\ \A s \in bill.paid : KeptOther(s, TalkSteps) \/ TalkBehind(run, s)
         /\ run.at \in Nat /\ DOMAIN run = TalkFields
BY FieldsOf DEF CoordinatorInvariant, RunInvariant, PaidInvariant, PaidBehind, RunBehind, RunCounted

\* Who leaves the loop with an answer has every turn behind it.
LEMMA LeavesWithAll ==
  ASSUME DOMAIN run = TalkFields, NEW why
  PROVE  /\ Leaves(why).pc = "agent_exit" /\ Leaves(why).at = run.at /\ Leaves(why).why = why
         /\ \A c : LET paid == [Leaves(why) EXCEPT !.spent = Leaves(why).spent + c]
                   IN paid.pc = "agent_exit" /\ paid.at = run.at /\ paid.why = why
<1>1. /\ DOMAIN Leaves(why) = TalkFields /\ Leaves(why).pc = "agent_exit"
      /\ Leaves(why).at = run.at /\ Leaves(why).why = why
  BY DEF Leaves, TalkFields
<1> QED BY <1>1 DEF TalkFields

LEMMA TurnsOnce ==
  ASSUME CoordinatorInvariant, MoneyInvariant, PaidInvariant, TurnAnswered \/ LastTurnAnswered
  PROVE  PaidInvariant'
<1>1. /\ run.pc \in {"turn_call", "closing_call"} /\ run.pc \in TalkPlaces
      /\ UNCHANGED <<request, docs, task>>
  BY DEF TurnAnswered, LastTurnAnswered, TalkPlaces, GoesOn
<1>2. /\ \A s \in bill.paid : KeptOther(s, TalkSteps) \/ TalkBehind(run, s)
      /\ run.at \in Nat /\ DOMAIN run = TalkFields
  BY <1>1, BehindTalk
<1>3. \A s \in bill.paid : KeptOther(s, TalkSteps) \/ (s[1] = "turn" /\ s[2] \in 1..run.at)
  BY <1>1, <1>2 DEF TalkBehind
<1> DEFINE Goes(step, c) ==
             \/ /\ run' = [Leaves("answer") EXCEPT !.spent = Leaves("answer").spent + c]
                /\ step[1] \in TalkSteps
             \/ /\ \E calls : run' = [run EXCEPT !.pc = "tools", !.at = run.at + 1, !.spent = run.spent + c,
                                                 !.open = run.open \cup calls]
                /\ step[1] = "turn" /\ step[2] = run.at + 1
           Turn == <<"turn", run.at + 1>>
           Closing == <<"closing">>
<1>4. \E step \in {Turn, Closing}, c \in Costs : Pays(step, c) /\ Goes(step, c)
  <2>1. /\ Turn[1] = "turn" /\ Turn[2] = run.at + 1 /\ Turn[1] \in TalkSteps
        /\ Closing[1] = "closing" /\ Closing[1] \in TalkSteps
    BY DEF TalkSteps
  <2>2. CASE TurnAnswered
    <3>1. PICK c \in Costs :
            /\ Pays(Turn, c)
            /\ \/ run' = [Leaves("answer") EXCEPT !.spent = Leaves("answer").spent + c]
               \/ \E calls \in SUBSET request.tools :
                    run' = [run EXCEPT !.pc = "tools", !.at = run.at + 1, !.spent = run.spent + c,
                                       !.open = run.open \cup calls]
      BY <2>2 DEF TurnAnswered, GoesOn
    <3> HIDE DEF Turn
    <3>2. Goes(Turn, c)
      BY <2>1, <3>1
    <3> QED BY <3>1, <3>2
  <2>3. CASE LastTurnAnswered
    <3>1. PICK c \in Costs :
            Pays(Closing, c) /\ run' = [Leaves("answer") EXCEPT !.spent = Leaves("answer").spent + c]
      BY <2>3 DEF LastTurnAnswered, GoesOn
    <3> HIDE DEF Closing
    <3>2. Goes(Closing, c)
      BY <2>1, <3>1
    <3> QED BY <3>1, <3>2
  <2> QED BY <2>2, <2>3
<1>5. \A s \in {Turn, Closing} : s[1] \in TalkSteps /\ ~(s[1] = "turn" /\ s[2] \in 1..run.at)
  BY <1>2 DEF TalkSteps
<1> HIDE DEF Turn, Closing, Goes
<1>6. PICK step \in {Turn, Closing}, c \in Costs : Pays(step, c) /\ Goes(step, c)
  BY <1>4
<1>7. step \notin bill.paid
  BY <1>3, <1>5 DEF KeptOther
<1>8. PaysOnce(step)
  BY <1>6, <1>7, PaidOnce DEF MoneyInvariant, PaidInvariant, PaidWorkIsKept
<1>9. /\ run'.pc \in TalkPlaces /\ run'.at \in Nat
      /\ \A s : (s[1] = "turn" /\ s[2] \in 1..run.at) => TalkBehind(run', s)
      /\ TalkBehind(run', step)
  <2>1. CASE /\ run' = [Leaves("answer") EXCEPT !.spent = Leaves("answer").spent + c]
             /\ step[1] \in TalkSteps
    <3>1. run'.pc = "agent_exit" /\ run'.at = run.at /\ run'.why = "answer"
      BY <1>2, <2>1, LeavesWithAll
    <3> QED BY <1>2, <2>1, <3>1 DEF TalkPlaces, TalkBehind, TalkSteps
  <2>2. CASE /\ \E calls : run' = [run EXCEPT !.pc = "tools", !.at = run.at + 1, !.spent = run.spent + c,
                                              !.open = run.open \cup calls]
             /\ step[1] = "turn" /\ step[2] = run.at + 1
    <3>1. run'.pc = "tools" /\ run'.at = run.at + 1
      BY <1>2, <2>2 DEF TalkFields
    <3> QED BY <1>2, <2>2, <3>1 DEF TalkPlaces, TalkBehind, TalkSteps
  <2> QED BY <1>6, <2>1, <2>2 DEF Goes
<1>10. \A s \in bill'.paid : KeptOther(s, TalkSteps) \/ TalkBehind(run', s)
  BY <1>3, <1>8, <1>9 DEF PaysOnce
<1> QED BY <1>1, <1>8, <1>9, <1>10, TalkMovesPaid

\* Steps of a conversation that pay nothing.
LEMMA TalkMovesOnce ==
  ASSUME CoordinatorInvariant, MoneyInvariant, PaidInvariant,
         NextTurn \/ ToolsRun \/ AskAfterTurn \/ LastTurn \/ LastTurnFailed \/ LeaveLoop
  PROVE  PaidInvariant'
<1>1. run.pc \in TalkPlaces \ {"agent_save"} /\ run.pc # "idle"
  BY DEF NextTurn, ToolsRun, AskAfterTurn, LastTurn, LastTurnFailed, LeaveLoop, TalkPlaces
<1>2. /\ \A s \in bill.paid : KeptOther(s, TalkSteps) \/ TalkBehind(run, s)
      /\ run.at \in Nat /\ DOMAIN run = TalkFields
  BY <1>1, BehindTalk
<1>3. CASE EndsAs("cancelled")
  BY <1>3, EndsAsPaid
<1>4. CASE ~EndsAs("cancelled")
  <2>1. UNCHANGED <<request, docs, bill>> /\ (task' = task \/ Writes("active"))
    BY <1>4 DEF NextTurn, DoesNotFit, ToolsRun, AskAfterTurn, LastTurn, LastTurnFailed, LeaveLoop, GoesOn
  <2>2. \/ run.pc # "agent_exit" /\ \E why : run' = Leaves(why)
        \/ \E pc \in {"turn_call", "agent_ask", "turn", "closing_call"} :
             run.pc # "agent_exit" /\ run' = [run EXCEPT !.pc = pc]
        \/ run' = [run EXCEPT !.pc = "agent_save"]
    BY <1>4 DEF NextTurn, DoesNotFit, ToolsRun, AskAfterTurn, LastTurn, LastTurnFailed, LeaveLoop, GoesOn
  <2>3. /\ run'.pc \in TalkPlaces /\ run'.at = run.at
        /\ run.pc = "agent_exit" => run'.pc = "agent_save" /\ run'.why = run.why
    <3>1. CASE run.pc # "agent_exit" /\ \E why : run' = Leaves(why)
      BY <1>2, <3>1, LeavesWithAll DEF TalkPlaces
    <3>2. CASE \E pc \in {"turn_call", "agent_ask", "turn", "closing_call"} :
                 run.pc # "agent_exit" /\ run' = [run EXCEPT !.pc = pc]
      BY <1>2, <3>2 DEF TalkFields, TalkPlaces
    <3>3. CASE run' = [run EXCEPT !.pc = "agent_save"]
      BY <1>2, <3>3 DEF TalkFields, TalkPlaces
    <3> QED BY <2>2, <3>1, <3>2, <3>3
  <2>4. \A s : TalkBehind(run, s) => TalkBehind(run', s)
    BY <1>1, <2>3 DEF TalkBehind
  <2> QED BY <1>1, <1>2, <2>1, <2>3, <2>4, TalkMovesPaid
<1> QED BY <1>3, <1>4

\* The conversation is frozen with the turns that were paid.
LEMMA TalkPausesOnce ==
  ASSUME NoneIsNoRecord, CoordinatorInvariant, MoneyInvariant, PaidInvariant,
         PauseForClient \/ YieldAfterTurn
  PROVE  PaidInvariant'
<1>1. run.pc = "agent_save" /\ run.why # "answer" /\ run.pc \in TalkPlaces
  BY DEF PauseForClient, YieldAfterTurn, TalkPlaces
<1>2. /\ \A s \in bill.paid : KeptOther(s, TalkSteps) \/ TalkBehind(run, s)
      /\ run.at \in Nat
  BY <1>1, BehindTalk
<1>3. PICK status \in {"queued", "waiting_for_tools"} : \E resumed \in BOOLEAN :
        /\ task' = [task EXCEPT !.status = status, !.agent = Frozen(resumed)]
        /\ run' = Idle /\ Freeze /\ UNCHANGED <<request, docs>>
  BY DEF PauseForClient, YieldAfterTurn, Yields
<1>4. PICK resumed \in BOOLEAN :
        /\ task' = [task EXCEPT !.status = status, !.agent = Frozen(resumed)]
        /\ run' = Idle /\ Freeze /\ UNCHANGED <<request, docs>>
  BY <1>3
<1> DEFINE state == Frozen(resumed)
<1>5. DOMAIN state = AgentFields /\ state.at = run.at
  BY DEF Frozen, AgentFields
<1>6. task' = [task EXCEPT !.status = status, !.agent = state]
  BY <1>4
<1> HIDE DEF state
<1>7. /\ task'.status = status /\ task'.agent = state /\ task'.mapped = task.mapped
      /\ task'.mixture = task.mixture
  BY <1>6 DEF CoordinatorInvariant, RowInvariant, RowFields
<1>8. state # None
  BY <1>5, CheckpointIsNotNone
<1>9. RowCounted'
  BY <1>2, <1>4, <1>5, <1>7 DEF PaidInvariant, RowCounted, MapCounts, MixtureCounts
<1>10. ASSUME NEW s \in bill.paid
       PROVE  \/ s[1] \in {"map", "merge"} /\ task'.mapped # None /\ MapBehind(task'.mapped, s)
              \/ s[1] = "turn" /\ task'.agent # None /\ s[2] \in 1..task'.agent.at
              \/ s[1] \in {"propose", "synthesis"} /\ task'.mixture # None /\ MixtureBehind(task'.mixture, s)
  <2>1. CASE TalkBehind(run, s)
    BY <1>1, <1>5, <1>7, <1>8, <2>1 DEF TalkBehind
  <2>2. CASE KeptOther(s, TalkSteps)
    BY <1>7, <2>2 DEF KeptOther, TalkSteps, PaidInvariant, KeptBehind
  <2> QED BY <1>2, <2>1, <2>2
<1> QED BY <1>4, <1>7, <1>9, <1>10, PaidPauses

LEMMA AgentOnce ==
  ASSUME NoneIsNoRecord, CoordinatorInvariant, MoneyInvariant, PaidInvariant, AgentNext
  PROVE  PaidInvariant'
<1>1. CASE SelectAgent
  BY <1>1, AgentBeginsOnce
<1>2. CASE TurnAnswered \/ LastTurnAnswered
  BY <1>2, TurnsOnce
<1>3. CASE NextTurn \/ ToolsRun \/ AskAfterTurn \/ LastTurn \/ LastTurnFailed \/ LeaveLoop
  BY <1>3, TalkMovesOnce
<1>4. CASE TurnFailed
  BY <1>4, FailsPaid DEF TurnFailed
<1>5. CASE SaveAnswer
  BY <1>5, CompletesPaid DEF SaveAnswer
<1>6. CASE PauseForClient \/ YieldAfterTurn
  BY <1>6, TalkPausesOnce
<1> QED BY <1>1, <1>2, <1>3, <1>4, <1>5, <1>6 DEF AgentNext

----------------------------------------------------------------------------
(* What was paid for in a mixture.                                         *)

LEMMA MixtureMovesPaid ==
  ASSUME CoordinatorInvariant, MoneyInvariant, PaidInvariant, UNCHANGED <<request, docs>>,
         task' = task \/ Writes("active"),
         run.pc \in MixturePlaces \cup {"mixture"}, run'.pc \in MixturePlaces,
         bill' = bill \/ (\E step : PaysOnce(step)), MixtureCounts(run'),
         \A s \in bill'.paid : KeptOther(s, MixtureSteps) \/ Escalated(s) \/ MixtureBehind(run', s)
  PROVE  PaidInvariant'
<1>1. /\ run'.pc \notin SinglePlaces \cup MapPlaces \cup TalkPlaces
                         \cup {"idle", "single", "mixture", "agent", "map_plan"}
      /\ run.pc # "idle"
  BY PlacesApart
<1>2. bill'.kept = bill.kept
  BY DEF PaysOnce
<1>3. RunCounted' /\ \A s \in bill'.paid : RunBehind(s)'
  BY <1>1, <1>2 DEF RunCounted, RunBehind, MixtureCounts, MixtureBehind, KeptOther, Escalated
<1> QED BY <1>1, <1>3, PaidGoesOn

\* A plan that is made again has nothing of a mixture behind it.
LEMMA MixtureBegunOnce ==
  ASSUME CoordinatorInvariant, MoneyInvariant, PaidInvariant, ResumeMixture \/ PlanMixture
  PROVE  PaidInvariant'
<1>1. run.pc = "mixture" /\ run.pc # "idle" /\ Checkpoint = task.mixture
  BY DEF ResumeMixture, PlanMixture, Checkpoint
<1>2. \A s \in bill.paid : s \in bill.kept \/ Escalated(s)
  BY <1>1 DEF PaidInvariant, PaidBehind, RunBehind
<1>3. \A s \in bill.kept :
        KeptOther(s, MixtureSteps) \/ (task.mixture # None /\ MixtureBehind(task.mixture, s))
  BY DEF PaidInvariant, KeptBehind, KeptOther, MixtureSteps
<1>4. CASE ResumeMixture
  <2>1. /\ task.mixture # None /\ run' = task.mixture /\ Writes("active")
        /\ UNCHANGED <<request, docs, bill>>
    BY <1>1, <1>4 DEF ResumeMixture, GoesOn
  <2>2. run'.pc \in MixturePlaces /\ MixtureCounts(run')
    BY <2>1 DEF CoordinatorInvariant, RowInvariant, CheckpointsHeld, MixturePlaces, Synthesized,
      PaidInvariant, RowCounted
  <2>3. \A s \in bill'.paid : KeptOther(s, MixtureSteps) \/ Escalated(s) \/ MixtureBehind(run', s)
    BY <1>2, <1>3, <2>1
  <2> QED BY <1>1, <2>1, <2>2, <2>3, MixtureMovesPaid
<1>5. CASE PlanMixture
  <2>1. CASE \E code : Fails(code)
    BY <2>1, FailsPaid
  <2>2. CASE \E known \in SizesRead :
               LET plan == Plan(run.preset, run.scheduling, known, request.footprints)
               IN Writes("active") /\ GoesOn(Mixture(plan, known)) /\ UNCHANGED bill
    <3>1. PICK known \in SizesRead :
            /\ Writes("active") /\ UNCHANGED bill
            /\ GoesOn(Mixture(Plan(run.preset, run.scheduling, known, request.footprints), known))
      BY <2>2
    <3> DEFINE plan == Plan(run.preset, run.scheduling, known, request.footprints)
    <3>2. plan \in Seq(Nat)
      <4>1. request.footprints \in Seq(Range(request.footprints))
        BY RequestsAssumption DEF CoordinatorInvariant, RowInvariant
      <4> QED BY <4>1, PlanIsLengths
    <3>3. GoesOn(Mixture(plan, known))
      BY <3>1
    <3> HIDE DEF plan
    <3>4. /\ run'.pc = "wave" /\ run'.plan = plan /\ run'.wave = 1 /\ UNCHANGED <<request, docs>>
      BY <3>3 DEF GoesOn, Mixture
    <3>5. run'.pc \in MixturePlaces /\ MixtureCounts(run')
      BY <3>2, <3>4 DEF MixturePlaces, MixtureCounts
    <3>6. task.mixture = None
      BY <1>1, <1>5 DEF PlanMixture
    <3>7. \A s \in bill'.paid : KeptOther(s, MixtureSteps) \/ Escalated(s) \/ MixtureBehind(run', s)
      BY <1>2, <1>3, <3>1, <3>6
    <3> QED BY <1>1, <3>1, <3>4, <3>5, <3>7, MixtureMovesPaid
  <2> QED BY <1>5, <2>1, <2>2 DEF PlanMixture
<1> QED BY <1>4, <1>5

\* What lies behind a mixture.
LEMMA BehindMixture ==
  ASSUME CoordinatorInvariant, PaidInvariant, run.pc \in MixturePlaces
  PROVE  /\ \A s \in bill.paid : KeptOther(s, MixtureSteps) \/ Escalated(s) \/ MixtureBehind(run, s)
         /\ MixtureCounts(run) /\ DOMAIN run = MixtureFields /\ run.round \in {1, 2}
<1>1. DOMAIN run = MixtureFields /\ run.round \in {1, 2}
  BY FieldsOf DEF CoordinatorInvariant, RunInvariant, RunRests, Rests
<1> QED BY <1>1 DEF PaidInvariant, PaidBehind, RunBehind, RunCounted

\* A step of a mixture that lies ahead is paid for the first time.
LEMMA MixturePaysOnce ==
  ASSUME CoordinatorInvariant, MoneyInvariant, PaidInvariant, run.pc \in MixturePlaces,
         NEW step, step[1] \in MixtureSteps, ~MixtureBehind(run, step), NEW c, Pays(step, c)
  PROVE  PaysOnce(step)
<1>1. step[1] \notin SingleSteps
  BY DEF MixtureSteps, SingleSteps
<1>2. step \notin bill.paid
  BY <1>1, BehindMixture DEF KeptOther, Escalated
<1> QED BY <1>2, PaidOnce DEF MoneyInvariant, PaidInvariant, PaidWorkIsKept

\* A step that goes no further in the plan and back to no call.
SamePlan == run'.plan = run.plan /\ run'.wave = run.wave
Answered3 == Synthesized \ {"synth_call"}

LEMMA MixtureMovesOnce ==
  ASSUME CoordinatorInvariant, MoneyInvariant, PaidInvariant, UNCHANGED <<request, docs, bill>>,
         task' = task \/ Writes("active"), SamePlan,
         run.pc \in MixturePlaces, run'.pc \in MixturePlaces, run'.pc # "wave_call",
         \/ run'.pc = "deliver"
         \/ /\ run'.round = run.round /\ run.pc \notin {"wave_call", "second", "deliver"}
            /\ run.pc \in Answered3 => run'.pc \in Answered3
  PROVE  PaidInvariant'
<1>1. /\ \A s \in bill.paid : KeptOther(s, MixtureSteps) \/ Escalated(s) \/ MixtureBehind(run, s)
      /\ MixtureCounts(run)
  BY BehindMixture
<1>2. MixtureCounts(run')
  BY <1>1 DEF MixtureCounts, SamePlan
<1>3. ASSUME NEW s, MixtureBehind(run, s) PROVE MixtureBehind(run', s)
  BY <1>3 DEF MixtureBehind, SamePlan, Answered3
<1> QED BY <1>1, <1>2, <1>3, MixtureMovesPaid

LEMMA StumblesPaid ==
  ASSUME CoordinatorInvariant, MoneyInvariant, PaidInvariant, run.pc \in MixturePlaces,
         \/ \E code : Stumbles(code)
         \/ GoesOn(FirstRound) /\ UNCHANGED <<task, bill>>
  PROVE  PaidInvariant'
<1>1. CASE \E code : Fails(code)
  BY <1>1, FailsPaid
<1>2. CASE GoesOn(FirstRound) /\ UNCHANGED <<task, bill>>
  <2>1. DOMAIN run = MixtureFields
    BY BehindMixture
  <2>2. run'.pc = "deliver" /\ SamePlan /\ UNCHANGED <<request, docs>>
    BY <1>2, <2>1 DEF GoesOn, FirstRound, MixtureFields, SamePlan
  <2>3. run'.pc \in MixturePlaces
    BY <2>2 DEF MixturePlaces, Synthesized
  <2> QED BY <1>2, <2>2, <2>3, MixtureMovesOnce
<1> QED BY <1>1, <1>2 DEF Stumbles

\* A wave is opened where the one before it ended; its proposals lie behind as they come.
LEMMA WavesOnce ==
  ASSUME CoordinatorInvariant, MoneyInvariant, PaidInvariant,
         NextWave \/ ProposerAnswered \/ ProposerFailed \/ WaveDone
  PROVE  PaidInvariant'
<1>1. /\ run.pc \in {"wave", "wave_call"} /\ run.pc \in MixturePlaces
      /\ "wave" \in MixturePlaces /\ "wave_ask" \in MixturePlaces /\ "wave_call" \in MixturePlaces
      /\ {"wave", "wave_call", "wave_ask"} \cap Synthesized = {}
  BY DEF NextWave, ProposerAnswered, ProposerFailed, WaveDone, MixturePlaces, Synthesized
<1>2. /\ \A s \in bill.paid : KeptOther(s, MixtureSteps) \/ Escalated(s) \/ MixtureBehind(run, s)
      /\ MixtureCounts(run) /\ DOMAIN run = MixtureFields /\ run.round \in {1, 2}
  BY <1>1, BehindMixture
<1>3. /\ run.plan \in Seq(Nat) /\ run.wave \in Nat \ {0} /\ run.wave \in 1..(Len(run.plan) + 1)
      /\ Before(run.plan, run.wave) \in Nat
      /\ run.wave <= Len(run.plan) =>
           /\ run.plan[run.wave] \in Nat
           /\ Before(run.plan, run.wave + 1) = Before(run.plan, run.wave) + run.plan[run.wave]
  BY <1>2, WavesFollow DEF MixtureCounts
<1>4. CASE EndsAs("cancelled")
  BY <1>4, EndsAsPaid
<1>5. CASE Stumbles("BUDGET_EXCEEDED")
  BY <1>1, <1>5, StumblesPaid
<1>6. CASE NextWave /\ ~EndsAs("cancelled") /\ ~Stumbles("BUDGET_EXCEEDED")
  <2>1. PICK limit : /\ run' = [run EXCEPT !.pc = "wave_call", !.live = Slots(run.plan, run.wave),
                                           !.limit = limit]
                     /\ UNCHANGED <<request, docs, bill>> /\ Writes("active")
                     /\ run.pc = "wave" /\ run.wave <= Len(run.plan)
    BY <1>6, Zenon DEF NextWave, GoesOn
  <2>2. /\ run'.pc = "wave_call" /\ run'.plan = run.plan /\ run'.wave = run.wave
        /\ run'.round = run.round /\ run'.live = Slots(run.plan, run.wave)
    BY <1>2, <2>1 DEF MixtureFields
  <2>3. MixtureCounts(run')
    BY <1>2, <2>1, <2>2 DEF MixtureCounts
  <2>4. \A s : MixtureBehind(run, s) => MixtureBehind(run', s)
    BY <1>1, <2>1, <2>2 DEF MixtureBehind
  <2> QED BY <1>1, <1>2, <2>1, <2>2, <2>3, <2>4, MixtureMovesPaid
<1>7. CASE ProposerAnswered
  <2>1. PICK slot \in run.live, c \in Costs :
          /\ Pays(<<"propose", run.round, slot>>, c)
          /\ GoesOn([run EXCEPT !.live = run.live \ {slot}, !.got = run.got + 1, !.cost = run.cost + c])
    BY <1>7, Zenon DEF ProposerAnswered
  <2> DEFINE step == <<"propose", run.round, slot>>
  <2>2. /\ run'.pc = run.pc /\ run'.plan = run.plan /\ run'.wave = run.wave
        /\ run'.round = run.round /\ run'.live = run.live \ {slot}
        /\ UNCHANGED <<request, docs, task>> /\ run.pc = "wave_call"
    BY <1>2, <1>7, <2>1 DEF ProposerAnswered, GoesOn, MixtureFields
  <2>3. run.live \subseteq Slots(run.plan, run.wave) /\ run.wave <= Len(run.plan)
    BY <1>2, <2>2 DEF MixtureCounts
  <2>4. slot \in Slots(run.plan, run.wave) /\ slot \notin 1..Before(run.plan, run.wave)
    BY <1>3, <2>1, <2>3 DEF Slots
  <2>5. step[1] = "propose" /\ step[2] = run.round /\ step[3] = slot
    OBVIOUS
  <2>6. Pays(step, c)
    BY <2>1
  <2> HIDE DEF step
  <2>7. step[1] \in MixtureSteps /\ ~MixtureBehind(run, step)
    BY <2>1, <2>2, <2>4, <2>5 DEF MixtureSteps, MixtureBehind
  <2>8. PaysOnce(step)
    BY <1>1, <2>6, <2>7, MixturePaysOnce
  <2>9. MixtureCounts(run')
    BY <1>2, <2>2, <2>3 DEF MixtureCounts
  <2>10. MixtureBehind(run', step)
    BY <1>2, <2>2, <2>4, <2>5, <2>7 DEF MixtureBehind
  <2>11. \A s : MixtureBehind(run, s) => MixtureBehind(run', s)
    BY <2>2 DEF MixtureBehind
  <2>12. \A s \in bill'.paid : KeptOther(s, MixtureSteps) \/ Escalated(s) \/ MixtureBehind(run', s)
    BY <1>2, <2>8, <2>10, <2>11 DEF PaysOnce
  <2> QED BY <1>1, <2>2, <2>8, <2>9, <2>12, MixtureMovesPaid
<1>8. CASE ProposerFailed
  <2>1. PICK slot, code : run' = [run EXCEPT !.live = run.live \ {slot},
                                             !.fatal = run.fatal \/ code \in TaskFatal]
    BY <1>8, Zenon DEF ProposerFailed, GoesOn
  <2>2. /\ run'.pc = run.pc /\ run'.plan = run.plan /\ run'.wave = run.wave
        /\ run'.round = run.round /\ run'.live = run.live \ {slot}
        /\ UNCHANGED <<request, docs, task, bill>> /\ run.pc = "wave_call"
    BY <1>2, <1>8, <2>1 DEF ProposerFailed, GoesOn, MixtureFields
  <2>3. MixtureCounts(run')
    BY <1>2, <2>2 DEF MixtureCounts
  <2>4. \A s : MixtureBehind(run, s) => MixtureBehind(run', s)
    BY <2>2 DEF MixtureBehind
  <2> QED BY <1>1, <1>2, <2>2, <2>3, <2>4, MixtureMovesPaid
<1>9. CASE WaveDone /\ ~EndsAs("cancelled") /\ ~Stumbles("BUDGET_EXCEEDED")
  <2>1. PICK pc \in {"wave", "wave_ask"} : /\ run' = [run EXCEPT !.wave = run.wave + 1, !.pc = pc]
                     /\ UNCHANGED <<request, docs, bill>> /\ Writes("active")
                     /\ run.pc = "wave_call" /\ run.live = {}
    BY <1>9 DEF WaveDone, GoesOn
  <2>2. run'.pc = pc /\ run'.plan = run.plan /\ run'.wave = run.wave + 1 /\ run'.round = run.round
    BY <1>2, <2>1 DEF MixtureFields
  <2>3. run.wave <= Len(run.plan)
    BY <1>2, <2>1 DEF MixtureCounts
  <2>4. MixtureCounts(run')
    BY <1>3, <2>2, <2>3 DEF MixtureCounts
  <2>5. 1..Before(run.plan, run.wave + 1) = 1..Before(run.plan, run.wave) \cup Slots(run.plan, run.wave)
    BY <1>3, <2>3 DEF Slots
  <2>6. \A s : MixtureBehind(run, s) => MixtureBehind(run', s)
    BY <1>1, <2>1, <2>2, <2>5 DEF MixtureBehind
  <2> QED BY <1>1, <1>2, <2>1, <2>2, <2>4, <2>6, MixtureMovesPaid
<1> QED BY <1>4, <1>5, <1>6, <1>7, <1>8, <1>9

LEMMA SynthesizesOnce ==
  ASSUME CoordinatorInvariant, MoneyInvariant, PaidInvariant, run.pc = "wave", Synthesizes
  PROVE  PaidInvariant'
<1>1. run.pc \in MixturePlaces /\ run.pc \notin Synthesized /\ "synth_call" \in MixturePlaces
  BY DEF MixturePlaces, Synthesized
<1>2. DOMAIN run = MixtureFields
  BY <1>1, BehindMixture
<1>3. CASE Stumbles("BUDGET_EXCEEDED")
  BY <1>1, <1>3, StumblesPaid
<1>4. CASE /\ Writes("active") /\ UNCHANGED bill
           /\ GoesOn([run EXCEPT !.pc = "synth_call", !.retried = FALSE])
  <2>1. SamePlan /\ run'.pc = "synth_call" /\ run'.round = run.round /\ UNCHANGED <<request, docs>>
    BY <1>2, <1>4 DEF GoesOn, MixtureFields, SamePlan
  <2> QED BY <1>1, <1>4, <2>1, MixtureMovesOnce DEF Answered3
<1> QED BY <1>3, <1>4 DEF Synthesizes

LEMMA RoundsDoneOnce ==
  ASSUME CoordinatorInvariant, MoneyInvariant, PaidInvariant, RoundDone \/ SecondRoundDone
  PROVE  PaidInvariant'
<1>1. run.pc = "wave" /\ run.pc \in MixturePlaces
  BY DEF RoundDone, SecondRoundDone, WavesDone, MixturePlaces
<1>2. CASE RoundDone
  BY <1>1, <1>2, EndsWithPaid, EndsAsPaid, SynthesizesOnce DEF RoundDone
<1>3. CASE SecondRoundDone
  BY <1>1, <1>3, StumblesPaid, SynthesizesOnce DEF SecondRoundDone
<1> QED BY <1>2, <1>3

LEMMA SynthesisOnce ==
  ASSUME CoordinatorInvariant, MoneyInvariant, PaidInvariant, SynthesisAnswered \/ ArbiterFailed
  PROVE  PaidInvariant'
<1>1. /\ run.pc = "synth_call" /\ run.pc \in MixturePlaces /\ run.pc \notin Answered3
      /\ "synth_done" \in MixturePlaces /\ "synth_done" \in Synthesized
  BY DEF SynthesisAnswered, ArbiterFailed, MixturePlaces, Synthesized, Answered3
<1>2. /\ \A s \in bill.paid : KeptOther(s, MixtureSteps) \/ Escalated(s) \/ MixtureBehind(run, s)
      /\ MixtureCounts(run) /\ DOMAIN run = MixtureFields /\ run.round \in {1, 2}
  BY <1>1, BehindMixture
<1>3. CASE \E code : Stumbles(code)
  BY <1>1, <1>3, StumblesPaid
<1>4. CASE SynthesisAnswered
  <2>1. PICK c \in Costs : /\ Pays(<<"synthesis", run.round>>, c)
                           /\ GoesOn([run EXCEPT !.pc = "synth_done", !.synth = c])
    BY <1>4 DEF SynthesisAnswered
  <2> DEFINE step == <<"synthesis", run.round>>
  <2>2. /\ run'.pc = "synth_done" /\ run'.plan = run.plan /\ run'.wave = run.wave
        /\ run'.round = run.round /\ UNCHANGED <<request, docs, task>>
    BY <1>2, <1>4, <2>1 DEF SynthesisAnswered, GoesOn, MixtureFields
  <2>3. step[1] = "synthesis" /\ step[2] = run.round /\ Pays(step, c)
    BY <2>1
  <2> HIDE DEF step
  <2>4. step[1] \in MixtureSteps /\ ~MixtureBehind(run, step)
    BY <1>1, <2>3 DEF MixtureSteps, MixtureBehind
  <2>5. PaysOnce(step)
    BY <1>1, <2>3, <2>4, MixturePaysOnce
  <2>6. MixtureCounts(run')
    BY <1>2, <2>2 DEF MixtureCounts
  <2>7. MixtureBehind(run', step)
    BY <1>1, <1>2, <2>2, <2>3, <2>4 DEF MixtureBehind
  <2>8. \A s : MixtureBehind(run, s) => MixtureBehind(run', s)
    BY <1>1, <2>2 DEF MixtureBehind
  <2>9. \A s \in bill'.paid : KeptOther(s, MixtureSteps) \/ Escalated(s) \/ MixtureBehind(run', s)
    BY <1>2, <2>5, <2>7, <2>8 DEF PaysOnce
  <2> QED BY <1>1, <2>2, <2>5, <2>6, <2>9, MixtureMovesPaid
<1>5. CASE ArbiterFailed /\ ~ \E code : Stumbles(code)
  <2>1. UNCHANGED <<request, docs, task, bill>> /\ (FirstProposal \/ Substituted)
    BY <1>5 DEF ArbiterFailed, GoesOn, FirstProposal, Substituted
  <2>2. SamePlan /\ run'.round = run.round /\ run'.pc \in {"synth_call", "synth_done"}
    BY <1>1, <1>2, <2>1 DEF Substituted, FirstProposal, GoesOn, MixtureFields, SamePlan
  <2> QED BY <1>1, <2>1, <2>2, MixtureMovesOnce
<1> QED BY <1>3, <1>4, <1>5

\* From the first synthesis to what comes of it.
LEMMA GateOnce ==
  ASSUME CoordinatorInvariant, MoneyInvariant, PaidInvariant,
         SynthesisDone \/ AskAfterSynthesis \/ Gate \/ Judged \/ JudgeFailed
  PROVE  PaidInvariant'
<1>1. /\ run.pc \in {"synth_done", "synth_ask", "gate", "judge_call"}
      /\ run.pc \in MixturePlaces /\ run.pc \in Answered3
      /\ {"deliver", "synth_ask", "synth_save", "gate", "judge_call", "second"} \subseteq Answered3
      /\ Answered3 \subseteq MixturePlaces
  BY DEF SynthesisDone, AskAfterSynthesis, Gate, Judged, JudgeFailed, AsksToYield, MixturePlaces,
    Synthesized, Answered3
<1>2. /\ \A s \in bill.paid : KeptOther(s, MixtureSteps) \/ Escalated(s) \/ MixtureBehind(run, s)
      /\ MixtureCounts(run) /\ DOMAIN run = MixtureFields /\ run.round \in {1, 2}
  BY <1>1, BehindMixture
<1>3. CASE EndsAs("cancelled")
  BY <1>3, EndsAsPaid
<1>4. CASE ~Judged /\ ~EndsAs("cancelled")
  <2>1. PICK pc \in {"deliver", "synth_ask", "synth_save", "gate", "judge_call", "second"} :
          run' = [run EXCEPT !.pc = pc]
    BY <1>4 DEF SynthesisDone, AskAfterSynthesis, AsksToYield, Gate, JudgeFailed, GoesOn
  <2>2. UNCHANGED <<request, docs, task, bill>>
    BY <1>4 DEF SynthesisDone, AskAfterSynthesis, AsksToYield, Gate, JudgeFailed, GoesOn
  <2>3. SamePlan /\ run'.round = run.round /\ run'.pc = pc
    BY <1>2, <2>1 DEF MixtureFields, SamePlan
  <2> QED BY <1>1, <2>2, <2>3, MixtureMovesOnce
<1>5. CASE Judged
  <2>1. PICK c \in Costs, next \in {"deliver", "second"} :
          Pays(<<"judge">>, c) /\ GoesOn([run EXCEPT !.pc = next, !.extra = c])
    BY <1>5, Zenon DEF Judged
  <2> DEFINE step == <<"judge">>
  <2>2. /\ run'.pc = next /\ run'.plan = run.plan /\ run'.wave = run.wave
        /\ run'.round = run.round /\ UNCHANGED <<request, docs, task>> /\ run.pc = "judge_call"
    BY <1>2, <1>5, <2>1 DEF Judged, GoesOn, MixtureFields
  <2>3. run.round = 1
    BY <1>1, <2>2 DEF CoordinatorInvariant, RunInvariant, RunRests, Rests, SecondPlaces
  <2>4. step[1] = "judge" /\ Pays(step, c)
    BY <2>1
  <2> HIDE DEF step
  <2>5. step[1] \in MixtureSteps /\ ~MixtureBehind(run, step)
    BY <2>2, <2>3, <2>4 DEF MixtureSteps, MixtureBehind
  <2>6. PaysOnce(step)
    BY <1>1, <2>4, <2>5, MixturePaysOnce
  <2>7. MixtureCounts(run') /\ run'.pc \in Answered3
    BY <1>1, <1>2, <2>2 DEF MixtureCounts
  <2>8. MixtureBehind(run', step)
    BY <2>2, <2>4, <2>5 DEF MixtureBehind
  <2>9. \A s : MixtureBehind(run, s) => MixtureBehind(run', s)
    BY <2>2, <2>3, <2>7 DEF MixtureBehind, Answered3
  <2>10. \A s \in bill'.paid : KeptOther(s, MixtureSteps) \/ Escalated(s) \/ MixtureBehind(run', s)
    BY <1>2, <2>6, <2>8, <2>9 DEF PaysOnce
  <2> QED BY <1>1, <2>2, <2>6, <2>7, <2>10, MixtureMovesPaid
<1> QED BY <1>3, <1>4, <1>5

\* The second round pays for its own proposals.
LEMMA SecondOnce ==
  ASSUME CoordinatorInvariant, MoneyInvariant, PaidInvariant, StartSecond \/ SecondSynthesisDone
  PROVE  PaidInvariant'
<1>1. /\ run.pc \in {"second", "synth_done"} /\ run.pc \in MixturePlaces
      /\ "deliver" \in MixturePlaces /\ "wave" \in MixturePlaces
  BY DEF StartSecond, SecondSynthesisDone, MixturePlaces, Synthesized
<1>2. /\ \A s \in bill.paid : KeptOther(s, MixtureSteps) \/ Escalated(s) \/ MixtureBehind(run, s)
      /\ MixtureCounts(run) /\ DOMAIN run = MixtureFields /\ run.round \in {1, 2}
  BY <1>1, BehindMixture
<1>3. ASSUME GoesOn([run EXCEPT !.pc = "deliver"]), UNCHANGED <<task, bill>>
      PROVE  PaidInvariant'
  <2>1. SamePlan /\ run'.pc = "deliver" /\ UNCHANGED <<request, docs>>
    BY <1>2, <1>3 DEF GoesOn, MixtureFields, SamePlan
  <2> QED BY <1>1, <1>3, <2>1, MixtureMovesOnce
<1>4. CASE StartSecond
  <2>1. CASE EndsAs("cancelled")
    BY <2>1, EndsAsPaid
  <2>2. CASE GoesOn([run EXCEPT !.pc = "deliver"]) /\ UNCHANGED <<task, bill>>
    BY <1>3, <2>2
  <2>3. CASE /\ UNCHANGED <<task, bill>>
             /\ GoesOn([run EXCEPT !.pc = "wave", !.wave = 1, !.round = 2, !.got = 0, !.cost = 0,
                  !.synth = 0, !.first = [got |-> run.got, cost |-> run.cost, synth |-> run.synth]])
    <3>1. PICK first : /\ run' = [run EXCEPT !.pc = "wave", !.wave = 1, !.round = 2, !.got = 0,
                                             !.cost = 0, !.synth = 0, !.first = first]
                       /\ UNCHANGED <<request, docs, task, bill>>
      BY <2>3 DEF GoesOn
    <3>2. run'.pc = "wave" /\ run'.round = 2 /\ run'.wave = 1 /\ run'.plan = run.plan
      BY <1>2, <3>1 DEF MixtureFields
    <3>3. run.pc = "second" /\ run.round = 1
      BY <1>1, <1>4 DEF StartSecond, CoordinatorInvariant, RunInvariant, RunRests, Rests, SecondPlaces
    <3>4. MixtureCounts(run')
      BY <1>2, <3>2 DEF MixtureCounts
    <3>5. \A s : MixtureBehind(run, s) => MixtureBehind(run', s)
      BY <3>2, <3>3 DEF MixtureBehind
    <3> QED BY <1>1, <1>2, <3>1, <3>2, <3>4, <3>5, MixtureMovesPaid
  <2> QED BY <1>4, <2>1, <2>2, <2>3 DEF StartSecond
<1>5. CASE SecondSynthesisDone
  BY <1>1, <1>3, <1>5, StumblesPaid DEF SecondSynthesisDone
<1> QED BY <1>4, <1>5

\* A mixture gives way with its proposals, or with its first synthesis.
LEMMA BetweenRoundsOnce ==
  ASSUME NoneIsNoRecord, CoordinatorInvariant, MoneyInvariant, PaidInvariant,
         AskAfterWave \/ YieldAfterWave \/ YieldAfterSynthesis
  PROVE  PaidInvariant'
<1>1. /\ run.pc \in {"wave_ask", "wave_save", "synth_save"} /\ run.pc \in MixturePlaces
      /\ {"wave", "wave_save"} \subseteq MixturePlaces
      /\ run.pc \in Answered3 => run.pc = "synth_save"
      /\ "wave" \notin Synthesized
  BY DEF AskAfterWave, AsksToYield, YieldAfterWave, YieldAfterSynthesis, MixturePlaces, Synthesized,
    Answered3
<1>2. /\ \A s \in bill.paid : KeptOther(s, MixtureSteps) \/ Escalated(s) \/ MixtureBehind(run, s)
      /\ MixtureCounts(run) /\ DOMAIN run = MixtureFields /\ run.round \in {1, 2}
  BY <1>1, BehindMixture
<1>3. CASE AskAfterWave
  <2>1. /\ SamePlan /\ run'.round = run.round /\ run'.pc \in {"wave", "wave_save"}
        /\ UNCHANGED <<request, docs, task, bill>> /\ run.pc = "wave_ask"
    BY <1>2, <1>3 DEF AskAfterWave, AsksToYield, MixtureFields, SamePlan
  <2> QED BY <1>1, <2>1, MixtureMovesOnce
<1>4. CASE YieldAfterWave \/ YieldAfterSynthesis
  <2>1. PICK pc \in {"wave", "gate"} :
          /\ Yields("mixture", [run EXCEPT !.pc = pc])
          /\ run.pc = IF pc = "wave" THEN "wave_save" ELSE "synth_save"
    BY <1>4 DEF YieldAfterWave, YieldAfterSynthesis
  <2> DEFINE state == [run EXCEPT !.pc = pc]
  <2>2. /\ DOMAIN state = MixtureFields /\ state.pc = pc /\ state.round = run.round
        /\ state.plan = run.plan /\ state.wave = run.wave
    BY <1>2 DEF MixtureFields
  <2>3. /\ task' = [task EXCEPT !.status = "queued", !["mixture"] = state] /\ run' = Idle /\ Freeze
        /\ UNCHANGED <<request, docs>>
    BY <2>1 DEF Yields
  <2> HIDE DEF state
  <2>4. /\ task'.status = "queued" /\ task'.mixture = state /\ task'.agent = task.agent
        /\ task'.mapped = task.mapped
    BY <2>3 DEF CoordinatorInvariant, RowInvariant, RowFields
  <2>5. request.strategy = "mixture" /\ run.round = 1
    BY <1>1, <1>2, <2>1 DEF CoordinatorInvariant, RunInvariant, RunIsAsked, Asking, RunRests, Rests,
      SecondPlaces
  <2>6. MixtureCounts(state) /\ state # None
    BY <1>2, <2>2, CheckpointIsNotNone DEF MixtureCounts
  <2>7. ASSUME NEW s, MixtureBehind(run, s)
        PROVE  MixtureBehind(state, s) /\ s[1] \in {"propose", "synthesis"}
    BY <1>1, <2>1, <2>2, <2>5, <2>7 DEF MixtureBehind, MixtureSteps, Synthesized
  <2>8. RowCounted'
    BY <2>3, <2>4, <2>6 DEF PaidInvariant, RowCounted, MapCounts, MixtureCounts
  <2>9. ASSUME NEW s \in bill.paid
        PROVE  \/ s[1] \in {"map", "merge"} /\ task'.mapped # None /\ MapBehind(task'.mapped, s)
               \/ s[1] = "turn" /\ task'.agent # None /\ s[2] \in 1..task'.agent.at
               \/ s[1] \in {"propose", "synthesis"} /\ task'.mixture # None /\ MixtureBehind(task'.mixture, s)
    <3>1. CASE MixtureBehind(run, s)
      BY <2>4, <2>6, <2>7, <3>1
    <3>2. CASE KeptOther(s, MixtureSteps)
      BY <2>4, <3>2 DEF KeptOther, MixtureSteps, PaidInvariant, KeptBehind
    <3> QED BY <1>2, <2>5, <3>1, <3>2 DEF Escalated
  <2> QED BY <2>3, <2>4, <2>8, <2>9, PaidPauses
<1> QED BY <1>3, <1>4

LEMMA ConsensusOnce ==
  ASSUME NoneIsNoRecord, CoordinatorInvariant, MoneyInvariant, PaidInvariant, ConsensusNext
  PROVE  PaidInvariant'
<1>1. CASE Deliver
  <2>1. CASE Fails("BUDGET_EXCEEDED")
    BY <2>1, FailsPaid
  <2>2. CASE ~Fails("BUDGET_EXCEEDED")
    BY <1>1, <2>2, CompletesPaid DEF Deliver
  <2> QED BY <2>1, <2>2
<1> QED BY <1>1, MixtureBegunOnce, WavesOnce, RoundsDoneOnce, SynthesisOnce, GateOnce,
         BetweenRoundsOnce, SecondOnce DEF ConsensusNext

----------------------------------------------------------------------------
(* What was paid for, all together.                                        *)

LEMMA PaidBegins ==
  ASSUME WorkflowInit
  PROVE  PaidInvariant
<1>1. run.pc = "idle" /\ bill.paid = {} /\ bill.kept = {} /\ ~bill.twice
  BY DEF WorkflowInit, Idle, FreshBill
<1>2. task.mapped = None /\ task.agent = None /\ task.mixture = None
  BY DEF WorkflowInit, FreshRow
<1> QED BY <1>1, <1>2, PlacesApart
      DEF PaidInvariant, PaidWorkIsKept, RunCounted, RowCounted, KeptBehind, PaidBehind

LEMMA PaidStutters ==
  ASSUME PaidInvariant, UNCHANGED wvars
  PROVE  PaidInvariant'
<1>1. UNCHANGED <<request, task, run, docs, bill>>
  BY DEF wvars
<1>2. RunCounted' /\ RowCounted'
  BY <1>1 DEF PaidInvariant, RunCounted, RowCounted, MapCounts, MixtureCounts
<1>3. KeptBehind' /\ PaidWorkIsKept'
  BY <1>1 DEF PaidInvariant, KeptBehind, MapBehind, MixtureBehind, PaidWorkIsKept
<1>4. PaidBehind'
  BY <1>1 DEF PaidInvariant, PaidBehind, RunBehind, KeptOther, Escalated, MapBehind, TalkBehind,
    MixtureBehind
<1> QED BY <1>2, <1>3, <1>4 DEF PaidInvariant

LEMMA StepPaysOnce ==
  ASSUME NoneIsNoRecord, CoordinatorInvariant, MoneyInvariant, PaidInvariant, [Next]_wvars
  PROVE  PaidInvariant'
<1>1. ASSUME NEW provided, ToolResults(provided) PROVE PaidInvariant'
  BY <1>1, ToolResultsPaid
<1> QED BY <1>1, PaidStutters, DispatchPaid, MapReduceOnce, SinglePaid, AgentOnce, ConsensusOnce,
         InterruptionsPaid, CancelPaid, ReconvertPaid DEF Next

\* PaidWorkIsKept for any requests, prices, plans, conversions and interruptions: what was
\* saved when the task gave way, or waited for its client, lies behind every run that
\* takes it up, and no call behind a run is made again.
THEOREM PaidWorkStaysKept ==
  ASSUME NoneIsNoRecord
  PROVE  Spec => []PaidWorkIsKept
<1> DEFINE All == CoordinatorInvariant /\ MoneyInvariant /\ PaidInvariant
<1>1. WorkflowInit => All
  BY Begins, MoneyBegins, PaidBegins
<1>2. All /\ [Next]_wvars => All'
  BY StepKeeps, StepPays, StepPaysOnce
<1>3. All => PaidWorkIsKept
  BY DEF PaidInvariant
<1> HIDE DEF All
<1> QED BY <1>1, <1>2, <1>3, PTL DEF Spec

----------------------------------------------------------------------------
(* The types: ways to leave a step.                                        *)

BillTyped == bill.kept_spent <= bill.spent /\ bill.kept \subseteq bill.paid

LEMMA BillStaysTyped ==
  ASSUME MoneyInvariant, BillTyped,
         \/ bill' = bill \/ bill' = Interrupted \/ Freeze
         \/ \E step : \E c \in Nat : Pays(step, c)
  PROVE  BillTyped'
<1>1. DOMAIN bill = BillFields /\ bill.spent \in Nat /\ bill.kept_spent \in Nat
  BY DEF MoneyInvariant
<1>2. CASE bill' = bill
  BY <1>2 DEF BillTyped
<1>3. CASE bill' = Interrupted \/ Freeze
  <2>1. bill'.kept_spent = bill'.spent /\ bill'.spent \in Nat /\ bill'.kept = bill'.paid
    BY <1>1, <1>3 DEF Interrupted, Freeze, BillFields
  <2> QED BY <2>1 DEF BillTyped
<1>4. CASE \E step : \E c \in Nat : Pays(step, c)
  <2>1. PICK step : \E c \in Nat : Pays(step, c)
    BY <1>4
  <2>3. PICK c \in Nat : Pays(step, c)
    BY <2>1
  <2>4. /\ bill'.spent = bill.spent + c /\ bill'.kept_spent = bill.kept_spent
        /\ bill'.paid = bill.paid \cup {step} /\ bill'.kept = bill.kept
    <3>1. PICK twice : bill' = [bill EXCEPT !.paid = bill.paid \cup {step}, !.spent = bill.spent + c,
                                            !.twice = twice]
      BY <2>3 DEF Pays, Paid
    <3> QED BY <1>1, <3>1 DEF BillFields
  <2> QED BY <1>1, <2>4 DEF BillTyped
<1> QED BY <1>2, <1>3, <1>4

\* A row that keeps what it holds, and does not complete, keeps its types.
LEMMA RowStaysTyped ==
  ASSUME RowTyped, NEW status, RowKeeps(status), status # "completed", UNCHANGED request
  PROVE  RowTyped'
BY DEF RowTyped, RowKeeps, MixtureTyped, MapTyped, PlanMade, PresetOf, SchedulingOf

LEMMA IdleIsTyped ==
  ASSUME run' = Idle
  PROVE  RunTyped'
BY IdleHoldsNothing DEF RunTyped

\* How the coroutine was left, and what of the bill.
LEMMA TypesEnd ==
  ASSUME MoneyInvariant, TypesInvariant, run' = Idle, UNCHANGED <<request, docs>>,
         NEW status, RowKeeps(status), status # "completed",
         bill' = bill \/ bill' = Interrupted, left' = left \/ (left > 0 /\ left' = left - 1)
  PROVE  TypesInvariant'
<1>1. RunTyped' /\ RowTyped'
  BY IdleIsTyped, RowStaysTyped DEF TypesInvariant
<1>2. BillTyped'
  BY BillStaysTyped DEF TypesInvariant, BillTyped
<1>3. docs' \in 0..MaxDocs /\ left' \in 0..Interruptions
  BY SizesAssumption DEF TypesInvariant
<1> QED BY <1>1, <1>2, <1>3 DEF TypesInvariant, BillTyped

LEMMA EndsAsTyped ==
  ASSUME CoordinatorInvariant, MoneyInvariant, TypesInvariant, EndsAs("cancelled")
  PROVE  TypesInvariant'
<1>1. RowKeeps("cancelled")
  BY StatusWritten DEF CoordinatorInvariant, RowInvariant, EndsAs, Writes
<1> QED BY <1>1, TypesEnd DEF EndsAs

LEMMA EndsWithTyped ==
  ASSUME CoordinatorInvariant, MoneyInvariant, TypesInvariant, NEW code, EndsWith(code)
  PROVE  TypesInvariant'
<1>1. RowKeeps("failed")
  BY StatusWritten DEF CoordinatorInvariant, RowInvariant, EndsWith, WritesError
<1> QED BY <1>1, TypesEnd DEF EndsWith

LEMMA FailsTyped ==
  ASSUME CoordinatorInvariant, MoneyInvariant, TypesInvariant, NEW code, Fails(code)
  PROVE  TypesInvariant'
<1>1. /\ DOMAIN task = RowFields /\ run' = Idle /\ UNCHANGED <<request, docs>>
  BY DEF CoordinatorInvariant, RowInvariant, Fails
<1>2. CASE Writes("cancelled") /\ UNCHANGED <<bill, left>>
  BY <1>1, <1>2, StatusWritten, TypesEnd DEF Writes
<1>3. CASE WritesError(code) /\ UNCHANGED <<bill, left>>
  BY <1>1, <1>3, StatusWritten, TypesEnd DEF WritesError
<1>4. CASE RetriesAfterOutage(code)
  BY <1>1, <1>4, StatusWritten, TypesEnd DEF RetriesAfterOutage, Writes
<1> QED BY <1>2, <1>3, <1>4 DEF Fails

\* The coroutine goes on and may have paid a call.
LEMMA TypesGoOn ==
  ASSUME CoordinatorInvariant, MoneyInvariant, TypesInvariant, UNCHANGED <<request, docs, left>>,
         (task' = task /\ run.pc # "idle") \/ Writes("active"),
         bill' = bill \/ (\E step : \E c \in Costs : Pays(step, c)), RunTyped'
  PROVE  TypesInvariant'
<1>1. PICK status \in {task.status, "active"} : RowKeeps(status) /\ status # "completed"
  BY StatusWritten DEF CoordinatorInvariant, RowInvariant, Writes
<1>2. RowTyped'
  BY <1>1, RowStaysTyped DEF TypesInvariant
<1>3. BillTyped'
  BY BillStaysTyped, CostsAssumption DEF TypesInvariant, BillTyped
<1> QED BY <1>2, <1>3 DEF TypesInvariant, BillTyped

\* A coroutine that is in no mixture and among no chunks owes no types.
LEMMA ElsewhereIsTyped ==
  ASSUME run'.pc \in SinglePlaces \cup TalkPlaces \cup {"idle", "single", "agent", "map_plan"}
  PROVE  RunTyped'
BY PlacesApart DEF RunTyped

\* An answer is delivered.
LEMMA CompletesTyped ==
  ASSUME NoneIsNoRecord, CoordinatorInvariant, MoneyInvariant, TypesInvariant,
         NEW result, "of" \in DOMAIN result, result.of \in Results,
         task' = [task EXCEPT !.status = "completed", !.result = result],
         run' = Idle, UNCHANGED <<request, docs, bill, left>>
  PROVE  TypesInvariant'
<1>1. /\ task'.status = "completed" /\ task'.result = result
      /\ task'.cancel = task.cancel /\ task'.cancelled_at = task.cancelled_at
      /\ task'.mapped = task.mapped /\ task'.mixture = task.mixture
  BY DEF CoordinatorInvariant, RowInvariant, RowFields
<1>2. result # None
  BY DEF NoneIsNoRecord
<1>3. RowTyped'
  BY <1>1, <1>2 DEF TypesInvariant, RowTyped, MixtureTyped, MapTyped, PlanMade, PresetOf, SchedulingOf
<1> QED BY <1>3, IdleIsTyped DEF TypesInvariant

LEMMA CompletesSingleTyped ==
  ASSUME NoneIsNoRecord, CoordinatorInvariant, MoneyInvariant, TypesInvariant,
         NEW here, NEW result, "of" \in DOMAIN result, result.of \in Results,
         CompletesSingle(here, result)
  PROVE  TypesInvariant'
<1>1. CASE Fails("TASK_CANCELLED")
  BY <1>1, FailsTyped
<1>2. CASE ~Fails("TASK_CANCELLED")
  BY <1>2, CompletesTyped DEF CompletesSingle
<1> QED BY <1>1, <1>2

\* A run gives way, or waits for its client, with a checkpoint that has its types.
LEMMA PausesTyped ==
  ASSUME CoordinatorInvariant, MoneyInvariant, TypesInvariant,
         NEW status \in {"queued", "waiting_for_tools"},
         NEW column \in {"agent", "mapped", "mixture"}, NEW state,
         task' = [task EXCEPT !.status = status, ![column] = state],
         run' = Idle, Freeze, UNCHANGED <<request, docs, left>>,
         column = "mapped" => MapTyped(state), column = "mixture" => MixtureTyped(state)
  PROVE  TypesInvariant'
<1>1. /\ task'.status = status /\ task'.result = task.result
      /\ task'.cancel = task.cancel /\ task'.cancelled_at = task.cancelled_at
      /\ task'.mapped = IF column = "mapped" THEN state ELSE task.mapped
      /\ task'.mixture = IF column = "mixture" THEN state ELSE task.mixture
  BY DEF CoordinatorInvariant, RowInvariant, RowFields
<1>2. RowTyped'
  <2>1. task'.mapped # None => MapTyped(task.mapped)'
    BY <1>1 DEF TypesInvariant, RowTyped, MapTyped
  <2>2. task'.mixture # None => MixtureTyped(task.mixture)'
    BY <1>1 DEF TypesInvariant, RowTyped, MixtureTyped, PlanMade, PresetOf, SchedulingOf
  <2> QED BY <1>1, <2>1, <2>2 DEF TypesInvariant, RowTyped
<1>3. BillTyped'
  BY BillStaysTyped DEF TypesInvariant, BillTyped
<1> QED BY <1>2, <1>3, IdleIsTyped DEF TypesInvariant, BillTyped

----------------------------------------------------------------------------
(* The types among the chunks.                                             *)

\* A step that stays among the chunks: it pays a call that it was free to make, or
\* nothing.
MapCalls == {"map_call", "merge_call", "final_call"}
MapStays ==
  /\ bill' = bill /\ run'.spent = run.spent /\ run'.partials = run.partials
  /\ run'.pc \in MapCalls => ~OverBudget(run.spent, request.max)
  /\ run'.pc = "map_call" => Len(run.partials) < run.total
MapCallPaid ==
  /\ run.pc \in MapCalls /\ run'.pc \notin MapCalls
  /\ \E c \in Costs : /\ Fits(c, request.max, 1) /\ run'.spent = run.spent + c
                      /\ \E step : Pays(step, c)
  /\ \/ run'.partials = run.partials
     \/ run.pc = "map_call" /\ run'.partials = Append(run.partials, run.docs)
MapMovesOn ==
  /\ run.pc \in MapPlaces /\ run'.pc \in MapPlaces
  /\ UNCHANGED <<request, docs, left>> /\ (task' = task \/ Writes("active"))
  /\ run'.docs = run.docs /\ run'.total = run.total
  /\ MapStays \/ MapCallPaid

LEMMA AnsweredMovesOn ==
  ASSUME NEW here \in MapCalls, NEW step, NEW local, Answered(here, step, local), here \in MapPlaces,
         DOMAIN local = MapFields, local.pc \in {"map_done", "merge_done", "final_done"},
         local.docs = run.docs, local.total = run.total, local.spent = run.spent,
         \/ local.partials = run.partials
         \/ here = "map_call" /\ local.partials = Append(run.partials, run.docs)
  PROVE  MapMovesOn
<1>1. PICK c \in Costs : /\ Fits(c, request.max, 1) /\ Pays(step, c)
                         /\ run' = [local EXCEPT !.spent = local.spent + c]
                         /\ UNCHANGED <<request, docs, left, task>> /\ run.pc = here
  BY Zenon DEF Answered, GoesOn
<1>2. /\ run'.pc = local.pc /\ run'.docs = run.docs /\ run'.total = run.total
      /\ run'.spent = run.spent + c /\ run'.partials = local.partials
  BY <1>1 DEF MapFields
<1>3. run'.pc \notin MapCalls /\ run'.pc \in MapPlaces
  BY <1>2 DEF MapCalls, MapPlaces
<1>4. MapCallPaid
  BY <1>1, <1>2, <1>3 DEF MapCallPaid
<1> QED BY <1>1, <1>2, <1>3, <1>4 DEF MapMovesOn

LEMMA MapPlaceMoves ==
  ASSUME run.pc \in MapPlaces, DOMAIN run = MapFields, NEW pc \in MapPlaces \ MapCalls,
         NEW rounds, NEW input, NEW groups, NEW merged,
         run' = [run EXCEPT !.pc = pc, !.rounds = rounds, !.input = input, !.groups = groups,
                            !.merged = merged],
         UNCHANGED <<request, docs, left, bill>>, task' = task \/ Writes("active")
  PROVE  MapMovesOn
<1>1. /\ run'.pc = pc /\ run'.docs = run.docs /\ run'.total = run.total
      /\ run'.spent = run.spent /\ run'.partials = run.partials
  BY DEF MapFields
<1> QED BY <1>1 DEF MapMovesOn, MapStays, MapCalls

LEMMA MapsMove ==
  ASSUME CoordinatorInvariant, MapReduceNext
  PROVE  \/ ResumeChunks \/ SplitDocuments \/ SaveSynthesis
         \/ EndsAs("cancelled") \/ \E code : Fails(code)
         \/ run.pc \in MapPlaces /\ \E phase \in {"map", "merge"} : Yields("mapped", KeptIn(phase))
         \/ MapMovesOn
<1>1. CASE ResumeChunks \/ SplitDocuments \/ SaveSynthesis \/ CallFailed
  BY <1>1 DEF CallFailed
<1>2. SUFFICES ASSUME ~ (ResumeChunks \/ SplitDocuments \/ SaveSynthesis \/ CallFailed),
                      ~EndsAs("cancelled"), \A code : ~Fails(code)
               PROVE  \/ run.pc \in MapPlaces /\ \E phase \in {"map", "merge"} : Yields("mapped", KeptIn(phase))
                      \/ MapMovesOn
  BY <1>1
<1>3. run.pc \in MapPlaces
  BY <1>2 DEF MapReduceNext, NextChunk, ChunkAnswered, ChunkKept, AskAfterChunk, YieldAfterChunk,
    ChunksDone, ReduceRound, MergeGroup, GroupAnswered, GroupKept, AskAfterGroup, YieldAfterGroup,
    GroupsDone, LastCall, LastAnswered, LastKept, Answered, AnswerKept, AsksToYield, Guarded, MapPlaces
<1>4. DOMAIN run = MapFields
  BY <1>3, FieldsOf DEF CoordinatorInvariant, RunInvariant
<1>5. CASE NextChunk \/ MergeGroup
  <2>1. PICK there \in {"map_call", "merge_call"} :
          /\ ~OverBudget(run.spent, request.max) /\ UNCHANGED <<request, docs, left, task, bill>>
          /\ run' = [run EXCEPT !.pc = there]
          /\ there = "map_call" => Len(run.partials) < run.total
    <3>1. CASE NextChunk
      BY <1>2, <3>1 DEF NextChunk, Guarded, GoesOn
    <3>2. CASE MergeGroup
      BY <1>2, <3>2 DEF MergeGroup, Guarded, GoesOn
    <3> QED BY <1>5, <3>1, <3>2
  <2>2. /\ run'.pc = there /\ run'.docs = run.docs /\ run'.total = run.total
        /\ run'.spent = run.spent /\ run'.partials = run.partials
    BY <1>4, <2>1 DEF MapFields
  <2> QED BY <1>3, <2>1, <2>2 DEF MapMovesOn, MapStays, MapPlaces
<1>6. CASE ChunkAnswered
  <2> DEFINE local == [run EXCEPT !.pc = "map_done", !.partials = Append(run.partials, run.docs)]
  <2>1. PICK step : Answered("map_call", step, local)
    BY <1>6 DEF ChunkAnswered
  <2>2. /\ DOMAIN local = MapFields /\ local.pc = "map_done" /\ local.docs = run.docs
        /\ local.total = run.total /\ local.spent = run.spent
        /\ local.partials = Append(run.partials, run.docs)
    BY <1>4 DEF MapFields
  <2> HIDE DEF local
  <2> QED BY <2>1, <2>2, AnsweredMovesOn DEF MapCalls, MapPlaces
<1>7. CASE GroupAnswered
  <2> DEFINE local == [run EXCEPT !.pc = "merge_done", !.merged = run.merged + 1]
  <2>1. PICK step : Answered("merge_call", step, local)
    BY <1>7 DEF GroupAnswered
  <2>2. /\ DOMAIN local = MapFields /\ local.pc = "merge_done" /\ local.docs = run.docs
        /\ local.total = run.total /\ local.spent = run.spent /\ local.partials = run.partials
    BY <1>4 DEF MapFields
  <2> HIDE DEF local
  <2> QED BY <2>1, <2>2, AnsweredMovesOn DEF MapCalls, MapPlaces
<1>8. CASE LastAnswered
  <2> DEFINE local == [run EXCEPT !.pc = "final_done"]
  <2>1. PICK step : Answered("final_call", step, local)
    BY <1>8 DEF LastAnswered
  <2>2. /\ DOMAIN local = MapFields /\ local.pc = "final_done" /\ local.docs = run.docs
        /\ local.total = run.total /\ local.spent = run.spent /\ local.partials = run.partials
    BY <1>4 DEF MapFields
  <2> HIDE DEF local
  <2> QED BY <2>1, <2>2, AnsweredMovesOn DEF MapCalls, MapPlaces
<1>9. CASE YieldAfterChunk \/ YieldAfterGroup
  BY <1>3, <1>9 DEF YieldAfterChunk, YieldAfterGroup
<1>10. CASE ChunksDone \/ GroupsDone
  <2>1. PICK n : run' = [run EXCEPT !.pc = "reduce", !.input = n]
    BY <1>10 DEF ChunksDone, GroupsDone, GoesOn
  <2>2. run' = [run EXCEPT !.pc = "reduce", !.rounds = run.rounds, !.input = n, !.groups = run.groups,
                           !.merged = run.merged]
    BY <1>4, <2>1 DEF MapFields
  <2>3. UNCHANGED <<request, docs, left, bill, task>>
    BY <1>10 DEF ChunksDone, GroupsDone, GoesOn
  <2> QED BY <1>3, <1>4, <2>2, <2>3, MapPlaceMoves DEF MapPlaces, MapCalls
<1>11. CASE ReduceRound
  <2>1. PICK g : /\ run' = [run EXCEPT !.pc = IF g = 1 THEN "final" ELSE "merge",
                                       !.rounds = run.rounds + 1, !.groups = g, !.merged = 0]
                 /\ UNCHANGED <<request, docs, left, bill>> /\ Writes("active")
    BY <1>2, <1>11 DEF ReduceRound, GoesOn
  <2>2. /\ run'.pc \in {"final", "merge"} /\ run'.docs = run.docs /\ run'.total = run.total
        /\ run'.spent = run.spent /\ run'.partials = run.partials
    BY <1>4, <2>1 DEF MapFields
  <2> QED BY <1>3, <2>1, <2>2 DEF MapMovesOn, MapStays, MapCalls, MapPlaces
<1>12. CASE ChunkKept \/ GroupKept \/ AskAfterChunk \/ AskAfterGroup \/ LastKept
  <2>1. PICK pc \in {"map", "map_ask", "merge", "merge_ask", "map_save", "merge_save", "final_save"} :
          run' = [run EXCEPT !.pc = pc]
    BY <1>2, <1>12 DEF ChunkKept, GroupKept, AnswerKept, AskAfterChunk, AskAfterGroup, AsksToYield,
      LastKept, GoesOn
  <2>2. UNCHANGED <<request, docs, left, bill>> /\ (task' = task \/ Writes("active"))
    BY <1>2, <1>12 DEF ChunkKept, GroupKept, AnswerKept, AskAfterChunk, AskAfterGroup, AsksToYield,
      LastKept, GoesOn
  <2>3. run' = [run EXCEPT !.pc = pc, !.rounds = run.rounds, !.input = run.input,
                           !.groups = run.groups, !.merged = run.merged]
    BY <1>4, <2>1 DEF MapFields
  <2> QED BY <1>3, <1>4, <2>2, <2>3, MapPlaceMoves DEF MapPlaces, MapCalls
<1>13. CASE LastCall
  <2>1. /\ ~OverBudget(run.spent, request.max) /\ run' = [run EXCEPT !.pc = "final_call"]
        /\ UNCHANGED <<request, docs, left, task, bill>>
    BY <1>2, <1>13 DEF LastCall, GoesOn
  <2>2. /\ run'.pc = "final_call" /\ run'.docs = run.docs /\ run'.total = run.total
        /\ run'.spent = run.spent /\ run'.partials = run.partials
    BY <1>4, <2>1 DEF MapFields
  <2> QED BY <1>3, <2>1, <2>2 DEF MapMovesOn, MapStays, MapPlaces
<1> QED BY <1>2, <1>5, <1>6, <1>7, <1>8, <1>9, <1>10, <1>11, <1>12, <1>13 DEF MapReduceNext

LEMMA MapTypes ==
  ASSUME NoneIsNoRecord, CoordinatorInvariant, MoneyInvariant, TypesInvariant, MapReduceNext
  PROVE  TypesInvariant'
<1>1. CASE EndsAs("cancelled") \/ \E code : Fails(code)
  BY <1>1, EndsAsTyped, FailsTyped
<1>2. CASE ResumeChunks
  <2>1. /\ run.pc = "map_plan" /\ task.mapped # None /\ run' = [task.mapped EXCEPT !.docs = docs]
        /\ UNCHANGED <<request, docs, left, bill>> /\ Writes("active")
    BY <1>2 DEF ResumeChunks, Usable, SameChunks, Resumed, GoesOn
  <2>2. DOMAIN task.mapped = MapFields /\ task.mapped.pc \in {"map", "merge"} /\ MapTyped(task.mapped)
    BY <2>1 DEF CoordinatorInvariant, RowInvariant, CheckpointsHeld, TypesInvariant, RowTyped
  <2>3. /\ run'.pc \in {"map", "merge"} /\ run'.total = task.mapped.total
        /\ run'.partials = task.mapped.partials
    BY <2>1, <2>2 DEF MapFields
  <2>4. RunTyped'
    BY <2>2, <2>3, PlacesApart DEF RunTyped, MapTyped, MapPlaces
  <2> QED BY <2>1, <2>4, TypesGoOn
<1>3. CASE SplitDocuments /\ \A code : ~Fails(code)
  <2>1. run.pc = "map_plan" /\ UNCHANGED <<request, docs, left, bill>> /\ (task' = task \/ Writes("active"))
    BY <1>3 DEF SplitDocuments, GoesOn
  <2>2. CASE run' = Mapping("map")
    <3>1. run'.pc = "map" /\ run'.total = request.chunks /\ run'.partials = << >>
      BY <2>2 DEF Mapping
    <3>2. request.chunks \in Nat
      BY SizesAssumption DEF CoordinatorInvariant, RowInvariant
    <3>3. Len(<< >>) = 0
      OBVIOUS
    <3>4. RunTyped'
      BY <3>1, <3>2, <3>3, PlacesApart DEF RunTyped, MapTyped, MapPlaces
    <3> QED BY <2>1, <3>4, TypesGoOn
  <2>3. CASE run' = [pc |-> "single", escalates |-> FALSE]
    <3>1. run'.pc = "single"
      BY <2>3
    <3> QED BY <2>1, <3>1, ElsewhereIsTyped, TypesGoOn
  <2> QED BY <1>3, <2>2, <2>3 DEF SplitDocuments, GoesOn
<1>4. CASE SaveSynthesis
  <2> DEFINE result == [of |-> "chunks", partials |-> run.partials, cost |-> run.spent]
  <2>1. CompletesSingle("final_save", result) /\ "of" \in DOMAIN result /\ result.of \in Results
    BY <1>4 DEF SaveSynthesis, Results
  <2> HIDE DEF result
  <2> QED BY <2>1, CompletesSingleTyped
<1>5. CASE run.pc \in MapPlaces /\ \E phase \in {"map", "merge"} : Yields("mapped", KeptIn(phase))
  <2>1. PICK phase \in {"map", "merge"} : Yields("mapped", KeptIn(phase))
    BY <1>5
  <2>2. DOMAIN run = MapFields /\ MapTyped(run)
    BY <1>5, FieldsOf DEF CoordinatorInvariant, RunInvariant, TypesInvariant, RunTyped
  <2>3. MapTyped(KeptIn(phase))
    BY <2>2 DEF MapTyped, KeptIn, MapFields
  <2> QED BY <2>1, <2>3, PausesTyped DEF Yields
<1>6. CASE MapMovesOn
  <2>1. /\ run.pc \in MapPlaces /\ run'.pc \in MapPlaces /\ run.pc # "idle"
        /\ UNCHANGED <<request, docs, left>> /\ (task' = task \/ Writes("active"))
        /\ run'.docs = run.docs /\ run'.total = run.total
    BY <1>6, PlacesApart DEF MapMovesOn
  <2>2. MapTyped(run) /\ run.partials \in Seq(Nat) /\ run.docs \in Nat
    BY <2>1 DEF TypesInvariant, RunTyped, CoordinatorInvariant, RunInvariant, RunMaps, OfOne
  <2>3. MapTyped(run')
    <3>1. CASE MapStays
      BY <2>1, <2>2, <3>1 DEF MapStays, MapTyped
    <3>2. CASE MapCallPaid
      <4>1. CASE run'.partials = run.partials
        BY <2>1, <2>2, <3>2, <4>1 DEF MapCallPaid, MapCalls, MapTyped
      <4>2. CASE run.pc = "map_call" /\ run'.partials = Append(run.partials, run.docs)
        <5>1. Len(run'.partials) = Len(run.partials) + 1 /\ Len(run.partials) \in Nat
          BY <2>2, <4>2
        <5> QED BY <2>1, <2>2, <3>2, <4>2, <5>1 DEF MapCallPaid, MapCalls, MapTyped
      <4> QED BY <3>2, <4>1, <4>2 DEF MapCallPaid
    <3> QED BY <1>6, <3>1, <3>2 DEF MapMovesOn
  <2>4. RunTyped'
    BY <2>1, <2>3, PlacesApart DEF RunTyped, MapTyped
  <2>5. bill' = bill \/ (\E step : \E c \in Costs : Pays(step, c))
    BY <1>6 DEF MapMovesOn, MapStays, MapCallPaid
  <2> QED BY <2>1, <2>4, <2>5, TypesGoOn
<1> QED BY <1>1, <1>2, <1>3, <1>4, <1>5, <1>6, MapsMove

----------------------------------------------------------------------------
(* The types of a single answer and of a conversation.                     *)

LEMMA SingleTypes ==
  ASSUME NoneIsNoRecord, CoordinatorInvariant, MoneyInvariant, TypesInvariant, SingleNext
  PROVE  TypesInvariant'
<1>1. /\ run.pc # "idle" /\ run.pc \in SinglePlaces \cup {"single"}
  BY DEF SingleNext, SelectSingle, SingleAnswered, SingleFailed, SingleKept, SaveSingle, Rated,
    RatingFailed, Escalate, CompletesSingle, SinglePlaces
<1>2. run.pc \in SinglePlaces => DOMAIN run = {"pc", "escalates", "spent"}
  BY FieldsOf DEF CoordinatorInvariant, RunInvariant
<1>3. CASE EndsAs("cancelled") \/ \E code : Fails(code)
  BY <1>3, EndsAsTyped, FailsTyped
<1>4. CASE SaveSingle
  BY <1>4, CompletesSingleTyped DEF SaveSingle, Results
<1>5. CASE Escalate /\ \A code : ~Fails(code)
  <2>1. PICK max : run' = ToMixture(max, "fast", "sequential") /\ UNCHANGED <<request, docs, left, task, bill>>
    BY <1>5 DEF Escalate, GoesOn
  <2>2. run'.pc = "mixture" /\ run'.preset = "fast" /\ run'.scheduling = "sequential"
    BY <2>1 DEF ToMixture
  <2>3. request'.strategy # "mixture"
    BY <1>1, <2>1, PlacesApart DEF CoordinatorInvariant, RunInvariant, RunIsAsked
  <2>4. RunTyped'
    BY <2>2, <2>3, PlacesApart DEF RunTyped, PresetOf, SchedulingOf
  <2> QED BY <1>1, <2>1, <2>4, TypesGoOn
<1>6. CASE ~ (EndsAs("cancelled") \/ SaveSingle \/ Escalate) /\ \A code : ~Fails(code)
  <2>1. run'.pc \in SinglePlaces
    <3>1. CASE SelectSingle
      BY <1>6, <3>1 DEF SelectSingle, GoesOn, SinglePlaces
    <3>2. CASE SingleAnswered
      <4>1. PICK c : run' = [run EXCEPT !.pc = "single_done", !.spent = c]
        BY <3>2 DEF SingleAnswered, GoesOn
      <4> QED BY <1>2, <3>2, <4>1 DEF SingleAnswered, SinglePlaces
    <3>3. CASE Rated
      <4>1. PICK pc \in {"single_save", "escalate"} : \E c : run' = [run EXCEPT !.pc = pc, !.spent = run.spent + c]
        BY <3>3 DEF Rated, GoesOn
      <4>2. run.pc \in SinglePlaces
        BY <3>3 DEF Rated, SinglePlaces
      <4> QED BY <1>2, <4>1, <4>2 DEF SinglePlaces
    <3>4. CASE SingleKept
      BY <1>2, <1>6, <3>4 DEF SingleKept, GoesOn, SinglePlaces
    <3>5. CASE RatingFailed
      BY <1>2, <3>5 DEF RatingFailed, GoesOn, SinglePlaces
    <3> QED BY <1>6, <3>1, <3>2, <3>3, <3>4, <3>5 DEF SingleNext, SingleFailed
  <2>2. /\ UNCHANGED <<request, docs, left>> /\ (task' = task \/ Writes("active"))
        /\ bill' = bill \/ (\E step : \E c \in Costs : Pays(step, c))
    BY <1>6 DEF SingleNext, SelectSingle, SingleAnswered, SingleFailed, SingleKept, Rated, RatingFailed,
      GoesOn
  <2> QED BY <1>1, <2>1, <2>2, ElsewhereIsTyped, TypesGoOn
<1> QED BY <1>3, <1>4, <1>5, <1>6

\* A step that stays in the conversation: within its limit, but for what the last turn
\* or the closing one has cost.
TalkWithin == {"turn", "turn_call", "agent_ask", "closing_call"}
TalkStays ==
  /\ bill' = bill /\ run'.spent = run.spent
  /\ run'.pc \in TalkWithin => run.pc \in TalkWithin \/ ~NothingLeft(run.spent, request.max)
TalkCallPaid ==
  /\ run.pc \in TalkWithin /\ run'.pc \notin TalkWithin
  /\ \E c \in Costs : run'.spent = run.spent + c /\ \E step : Pays(step, c)
TalkMovesOn ==
  /\ run.pc \in TalkPlaces /\ run'.pc \in TalkPlaces
  /\ UNCHANGED <<request, docs, left>> /\ (task' = task \/ Writes("active"))
  /\ TalkStays \/ TalkCallPaid

LEMMA TalkPlaceMoves ==
  ASSUME run.pc \in TalkPlaces, DOMAIN run = TalkFields, NEW pc \in TalkPlaces, NEW why,
         run' = [run EXCEPT !.pc = pc, !.why = why],
         pc \in TalkWithin => run.pc \in TalkWithin \/ ~NothingLeft(run.spent, request.max),
         UNCHANGED <<request, docs, left, bill>>, task' = task \/ Writes("active")
  PROVE  TalkMovesOn
<1>1. run'.pc = pc /\ run'.spent = run.spent
  BY DEF TalkFields
<1> QED BY <1>1 DEF TalkMovesOn, TalkStays

LEMMA TalksMove ==
  ASSUME CoordinatorInvariant, AgentNext
  PROVE  \/ SelectAgent \/ SaveAnswer \/ PauseForClient \/ YieldAfterTurn
         \/ EndsAs("cancelled") \/ \E code : Fails(code)
         \/ TalkMovesOn
<1>1. CASE SelectAgent \/ SaveAnswer \/ PauseForClient \/ YieldAfterTurn \/ TurnFailed
  BY <1>1 DEF TurnFailed
<1>2. SUFFICES ASSUME ~ (SelectAgent \/ SaveAnswer \/ PauseForClient \/ YieldAfterTurn \/ TurnFailed),
                      ~EndsAs("cancelled"), \A code : ~Fails(code)
               PROVE  TalkMovesOn
  BY <1>1
<1>3. run.pc \in TalkPlaces
  BY <1>2 DEF AgentNext, NextTurn, TurnAnswered, ToolsRun, AskAfterTurn, LastTurn, LastTurnAnswered,
    LastTurnFailed, LeaveLoop, TalkPlaces
<1>4. DOMAIN run = TalkFields
  BY <1>3, FieldsOf DEF CoordinatorInvariant, RunInvariant
<1>5. CASE TurnAnswered \/ LastTurnAnswered
  <2>1. PICK c \in Costs : \E step : Pays(step, c) /\ \/ run' = [Leaves("answer") EXCEPT !.spent = @ + c]
                                                      \/ \E calls : run' = [run EXCEPT !.pc = "tools", !.at = @ + 1,
                                                           !.spent = @ + c, !.open = run.open \cup calls]
    BY <1>5, Zenon DEF TurnAnswered, LastTurnAnswered, GoesOn
  <2>2. run'.pc \in {"agent_exit", "tools"} /\ run'.spent = run.spent + c
    <3>1. CASE run' = [Leaves("answer") EXCEPT !.spent = @ + c]
      <4>1. /\ DOMAIN Leaves("answer") = TalkFields /\ Leaves("answer").pc = "agent_exit"
            /\ Leaves("answer").spent = run.spent
        BY <1>4 DEF Leaves, TalkFields
      <4> QED BY <3>1, <4>1 DEF TalkFields
    <3>2. CASE \E calls : run' = [run EXCEPT !.pc = "tools", !.at = @ + 1,
                                             !.spent = @ + c, !.open = run.open \cup calls]
      <4>1. PICK calls : run' = [run EXCEPT !.pc = "tools", !.at = run.at + 1,
                                            !.spent = run.spent + c, !.open = run.open \cup calls]
        BY <3>2
      <4> QED BY <1>4, <4>1 DEF TalkFields
    <3> QED BY <2>1, <3>1, <3>2
  <2>3. UNCHANGED <<request, docs, left, task>> /\ run.pc \in TalkWithin
    BY <1>5 DEF TurnAnswered, LastTurnAnswered, GoesOn, TalkWithin
  <2>4. TalkCallPaid
    BY <2>1, <2>2, <2>3 DEF TalkCallPaid, TalkWithin
  <2> QED BY <1>3, <2>2, <2>3, <2>4 DEF TalkMovesOn, TalkPlaces
<1>6. CASE NextTurn \/ LastTurn \/ LastTurnFailed \/ AskAfterTurn \/ LeaveLoop \/ ToolsRun
  <2>1. PICK pc \in TalkPlaces, why \in {run.why, "answer", "client", "yield"} :
          /\ run' = [run EXCEPT !.pc = pc, !.why = why]
          /\ pc \in TalkWithin => run.pc \in TalkWithin \/ ~NothingLeft(run.spent, request.max)
    <3>1. \A pc : [run EXCEPT !.pc = pc] = [run EXCEPT !.pc = pc, !.why = run.why]
      BY <1>4 DEF TalkFields
    <3>2. CASE ToolsRun
      <4>1. \/ run' = Leaves("client") \/ run' = Leaves("answer")
            \/ /\ ~NothingLeft(run.spent, request.max)
               /\ run' = [run EXCEPT !.pc = "agent_ask"] \/ run' = [run EXCEPT !.pc = "turn"]
        BY <3>2 DEF ToolsRun, GoesOn
      <4>2. \E why \in {"client", "answer"} : run' = [run EXCEPT !.pc = "agent_exit", !.why = why]
            \/ \E pc \in {"agent_ask", "turn"} :
                 ~NothingLeft(run.spent, request.max) /\ run' = [run EXCEPT !.pc = pc, !.why = run.why]
        BY <3>1, <4>1 DEF Leaves
      <4> QED BY <4>2 DEF TalkPlaces, TalkWithin
    <3>3. CASE NextTurn \/ LastTurn \/ LastTurnFailed \/ AskAfterTurn \/ LeaveLoop
      <4>1. \/ run' = Leaves("answer") \/ run' = Leaves("yield")
            \/ run.pc \in TalkWithin /\ \E pc \in {"turn", "turn_call", "closing_call"} : run' = [run EXCEPT !.pc = pc]
            \/ run' = [run EXCEPT !.pc = "agent_save"]
        BY <1>2, <3>3 DEF NextTurn, DoesNotFit, LastTurn, LastTurnFailed, AskAfterTurn, LeaveLoop, GoesOn,
          TalkWithin
      <4>2. \/ \E why \in {"answer", "yield"} : run' = [run EXCEPT !.pc = "agent_exit", !.why = why]
            \/ \E pc \in {"turn", "turn_call", "closing_call"} :
                 run.pc \in TalkWithin /\ run' = [run EXCEPT !.pc = pc, !.why = run.why]
            \/ run' = [run EXCEPT !.pc = "agent_save", !.why = run.why]
        BY <3>1, <4>1 DEF Leaves
      <4> QED BY <4>2 DEF TalkPlaces, TalkWithin
    <3> QED BY <1>6, <3>2, <3>3
  <2>2. UNCHANGED <<request, docs, left, bill>> /\ (task' = task \/ Writes("active"))
    BY <1>2, <1>6 DEF NextTurn, DoesNotFit, LastTurn, LastTurnFailed, AskAfterTurn, LeaveLoop, ToolsRun,
      GoesOn
  <2> QED BY <1>3, <1>4, <2>1, <2>2, TalkPlaceMoves
<1> QED BY <1>2, <1>5, <1>6 DEF AgentNext

LEMMA AgentTypes ==
  ASSUME NoneIsNoRecord, CoordinatorInvariant, MoneyInvariant, TypesInvariant, AgentNext
  PROVE  TypesInvariant'
<1>1. CASE EndsAs("cancelled") \/ \E code : Fails(code)
  BY <1>1, EndsAsTyped, FailsTyped
<1>2. CASE SelectAgent /\ \A code : ~Fails(code)
  <2>1. /\ run' = Talk(task.agent) /\ Writes("active") /\ UNCHANGED <<request, docs, left, bill>>
    BY <1>2 DEF SelectAgent, GoesOn
  <2>2. run'.pc = "turn"
    BY <2>1 DEF Talk
  <2> QED BY <2>1, <2>2, ElsewhereIsTyped, TypesGoOn DEF TalkPlaces
<1>3. CASE SaveAnswer
  <2> DEFINE result == [of |-> "agent", cost |-> run.prior + run.spent]
  <2>1. "of" \in DOMAIN result /\ result.of \in Results
    BY DEF Results
  <2>2. /\ task' = [task EXCEPT !.status = "completed", !.result = result]
        /\ run' = Idle /\ UNCHANGED <<request, docs, bill, left>>
    BY <1>3 DEF SaveAnswer
  <2> HIDE DEF result
  <2> QED BY <2>1, <2>2, CompletesTyped
<1>4. CASE PauseForClient
  BY <1>4, PausesTyped DEF PauseForClient
<1>5. CASE YieldAfterTurn
  BY <1>5, PausesTyped DEF YieldAfterTurn, Yields
<1>6. CASE TalkMovesOn
  <2>1. bill' = bill \/ (\E step : \E c \in Costs : Pays(step, c))
    BY <1>6 DEF TalkMovesOn, TalkStays, TalkCallPaid
  <2>2. /\ run.pc # "idle" /\ run'.pc \in TalkPlaces
        /\ UNCHANGED <<request, docs, left>> /\ (task' = task \/ Writes("active"))
    BY <1>6, PlacesApart DEF TalkMovesOn
  <2> QED BY <2>1, <2>2, ElsewhereIsTyped, TypesGoOn
<1> QED BY <1>1, <1>2, <1>3, <1>4, <1>5, <1>6, TalksMove

----------------------------------------------------------------------------
(* The types of a mixture.                                                 *)

\* The slots of a wave are places of proposers.
LEMMA SlotsAreProposers ==
  ASSUME MixtureTyped(run), request \in Requests, run.wave \in 1..Len(run.plan)
  PROVE  Slots(run.plan, run.wave) \subseteq 1..Len(request.footprints)
<1> DEFINE n == Len(request.footprints)
           plan == run.plan
           w == run.wave
<1>1. request.footprints \in Seq(Range(request.footprints))
  BY RequestsAssumption
<1>2. Whole(plan, n)
  <2>1. plan = Plan(PresetOf, SchedulingOf, run.known, request.footprints) /\ plan # Refused
    BY DEF MixtureTyped, PlanMade
  <2> QED BY <1>1, <2>1, PlanIsLengths
<1>3. /\ plan \in Seq(Nat) /\ Len(plan) \in Nat /\ Before(plan, Len(plan) + 1) = n
      /\ w \in 1..Len(plan) /\ n \in Nat
  BY <1>1, <1>2 DEF Whole
<1> HIDE DEF plan, n, w
<1>4. /\ Before(plan, w) \in Nat /\ plan[w] \in Nat /\ Before(plan, w + 1) \in Nat
      /\ Before(plan, w + 1) = Before(plan, w) + plan[w]
  BY <1>3, WavesFollow
<1>5. Before(plan, w + 1) <= n
  <2>1. w + 1 \in 1..(Len(plan) + 1) /\ Len(plan) + 1 \in 1..(Len(plan) + 1) /\ w + 1 <= Len(plan) + 1
    BY <1>3
  <2> QED BY <1>3, <2>1, BeforeGrows
<1>6. Slots(plan, w) \subseteq 1..n
  BY <1>3, <1>4, <1>5 DEF Slots
<1> QED BY <1>6 DEF plan, n, w

LEMMA MixtureTypesGoOn ==
  ASSUME CoordinatorInvariant, MoneyInvariant, TypesInvariant, UNCHANGED <<request, docs, left>>,
         task' = task \/ Writes("active"),
         run.pc \in MixturePlaces \cup {"mixture"}, run'.pc \in MixturePlaces,
         bill' = bill \/ (\E step : \E c \in Costs : Pays(step, c)), MixtureTyped(run')
  PROVE  TypesInvariant'
<1>1. run.pc # "idle"
  BY PlacesApart
<1>2. RunTyped'
  BY PlacesApart DEF RunTyped, MixtureTyped, PlanMade, PresetOf, SchedulingOf
<1> QED BY <1>1, <1>2, TypesGoOn

\* A step that leaves the plan as it is made, and counts as before.
SamePlanMade == run'.plan = run.plan /\ run'.known = run.known
LEMMA MixtureMovesTyped ==
  ASSUME CoordinatorInvariant, MoneyInvariant, TypesInvariant, UNCHANGED <<request, docs, left>>,
         task' = task \/ Writes("active"), run.pc \in MixturePlaces, run'.pc \in MixturePlaces,
         bill' = bill \/ (\E step : \E c \in Costs : Pays(step, c)), SamePlanMade,
         run'.live \subseteq run.live \/ run'.live \subseteq 1..Len(request.footprints),
         run'.got \in {run.got, run.got + 1, run.first.got, 0},
         run'.first = run.first \/ run'.first.got \in {run.got, 0}
  PROVE  TypesInvariant'
<1>1. MixtureTyped(run)
  BY DEF TypesInvariant, RunTyped
<1>2. MixtureTyped(run')
  BY <1>1 DEF MixtureTyped, PlanMade, SamePlanMade
<1> QED BY <1>2, MixtureTypesGoOn

\* Facts about a coroutine in a mixture.
LEMMA InMixtureTyped ==
  ASSUME CoordinatorInvariant, TypesInvariant, run.pc \in MixturePlaces
  PROVE  DOMAIN run = MixtureFields /\ MixtureTyped(run) /\ request \in Requests
BY FieldsOf DEF CoordinatorInvariant, RunInvariant, RowInvariant, TypesInvariant, RunTyped

LEMMA MixtureBegunTyped ==
  ASSUME CoordinatorInvariant, MoneyInvariant, TypesInvariant, ResumeMixture \/ PlanMixture
  PROVE  TypesInvariant'
<1>1. run.pc = "mixture" /\ Checkpoint = task.mixture
  BY DEF ResumeMixture, PlanMixture, Checkpoint
<1>2. CASE ResumeMixture
  <2>1. /\ task.mixture # None /\ run' = task.mixture /\ Writes("active")
        /\ UNCHANGED <<request, docs, left, bill>>
    BY <1>1, <1>2 DEF ResumeMixture, GoesOn
  <2>2. run'.pc \in MixturePlaces /\ MixtureTyped(run')
    BY <2>1 DEF CoordinatorInvariant, RowInvariant, CheckpointsHeld, MixturePlaces, Synthesized,
      TypesInvariant, RowTyped
  <2> QED BY <1>1, <2>1, <2>2, MixtureTypesGoOn
<1>3. CASE PlanMixture
  <2>1. CASE \E code : Fails(code)
    BY <2>1, FailsTyped
  <2>2. CASE \E known \in SizesRead :
               LET plan == Plan(run.preset, run.scheduling, known, request.footprints)
               IN plan # Refused /\ Writes("active") /\ GoesOn(Mixture(plan, known)) /\ UNCHANGED bill
    <3>1. PICK known \in SizesRead :
            /\ Plan(run.preset, run.scheduling, known, request.footprints) # Refused
            /\ Writes("active") /\ UNCHANGED bill
            /\ GoesOn(Mixture(Plan(run.preset, run.scheduling, known, request.footprints), known))
      BY <2>2
    <3> DEFINE plan == Plan(run.preset, run.scheduling, known, request.footprints)
    <3>2. plan = Plan(PresetOf, SchedulingOf, known, request.footprints) /\ plan # Refused
      BY <1>1, <3>1 DEF TypesInvariant, RunTyped
    <3>3. GoesOn(Mixture(plan, known))
      BY <3>1
    <3> HIDE DEF plan
    <3>4. /\ run'.pc = "wave" /\ run'.plan = plan /\ run'.known = known /\ run'.live = {}
          /\ run'.got = 0 /\ run'.first.got = 0 /\ UNCHANGED <<request, docs, left>>
      BY <3>3 DEF GoesOn, Mixture, NoRound
    <3>5. known \in BOOLEAN
      BY DEF SizesRead
    <3>6. run'.pc \in MixturePlaces /\ MixtureTyped(run')
      BY <3>2, <3>4, <3>5 DEF MixturePlaces, MixtureTyped, PlanMade
    <3> QED BY <1>1, <3>1, <3>4, <3>6, MixtureTypesGoOn
  <2> QED BY <1>3, <2>1, <2>2 DEF PlanMixture
<1> QED BY <1>2, <1>3

LEMMA StumblesTyped ==
  ASSUME CoordinatorInvariant, MoneyInvariant, TypesInvariant, run.pc \in MixturePlaces,
         \/ \E code : Stumbles(code)
         \/ GoesOn(FirstRound) /\ UNCHANGED <<task, bill>>
  PROVE  TypesInvariant'
<1>1. CASE \E code : Fails(code)
  BY <1>1, FailsTyped
<1>2. CASE GoesOn(FirstRound) /\ UNCHANGED <<task, bill>>
  <2>1. DOMAIN run = MixtureFields
    BY InMixtureTyped
  <2>2. /\ run'.pc = "deliver" /\ SamePlanMade /\ run'.live = run.live /\ run'.got = run.first.got
        /\ run'.first = NoRound /\ UNCHANGED <<request, docs, left>>
    BY <1>2, <2>1 DEF GoesOn, FirstRound, MixtureFields, SamePlanMade
  <2>3. run'.pc \in MixturePlaces /\ run'.first.got = 0
    BY <2>2 DEF MixturePlaces, Synthesized, NoRound
  <2> QED BY <1>2, <2>2, <2>3, MixtureMovesTyped
<1> QED BY <1>1, <1>2 DEF Stumbles

LEMMA WavesTyped ==
  ASSUME CoordinatorInvariant, MoneyInvariant, PaidInvariant, TypesInvariant,
         NextWave \/ ProposerAnswered \/ ProposerFailed \/ WaveDone
  PROVE  TypesInvariant'
<1>1. /\ run.pc \in {"wave", "wave_call"} /\ run.pc \in MixturePlaces
      /\ {"wave", "wave_ask", "wave_call"} \subseteq MixturePlaces
  BY DEF NextWave, ProposerAnswered, ProposerFailed, WaveDone, MixturePlaces
<1>2. DOMAIN run = MixtureFields /\ MixtureTyped(run) /\ request \in Requests
  BY <1>1, InMixtureTyped
<1>3. CASE EndsAs("cancelled") \/ Stumbles("BUDGET_EXCEEDED")
  BY <1>1, <1>3, EndsAsTyped, StumblesTyped
<1>4. CASE NextWave /\ ~EndsAs("cancelled") /\ ~Stumbles("BUDGET_EXCEEDED")
  <2>1. PICK limit : /\ run' = [run EXCEPT !.pc = "wave_call", !.live = Slots(run.plan, run.wave),
                                           !.limit = limit]
                     /\ UNCHANGED <<request, docs, left, bill>> /\ Writes("active")
                     /\ run.wave <= Len(run.plan)
    BY <1>4 DEF NextWave, GoesOn
  <2>2. run.wave \in 1..Len(run.plan)
    BY <1>1, <2>1 DEF PaidInvariant, RunCounted, MixtureCounts
  <2>3. /\ run'.pc = "wave_call" /\ SamePlanMade /\ run'.live = Slots(run.plan, run.wave)
        /\ run'.got = run.got /\ run'.first = run.first
    BY <1>2, <2>1 DEF MixtureFields, SamePlanMade
  <2>4. run'.live \subseteq 1..Len(request.footprints)
    BY <1>2, <2>2, <2>3, SlotsAreProposers
  <2> QED BY <1>1, <2>1, <2>3, <2>4, MixtureMovesTyped
<1>5. CASE ProposerAnswered
  <2>1. PICK s \in run.live, c \in Costs :
          /\ \E step : Pays(step, c)
          /\ run' = [run EXCEPT !.live = run.live \ {s}, !.got = run.got + 1, !.cost = run.cost + c]
          /\ UNCHANGED <<request, docs, left, task>>
    BY <1>5, Zenon DEF ProposerAnswered, GoesOn
  <2>2. /\ run'.pc = run.pc /\ SamePlanMade /\ run'.live = run.live \ {s} /\ run'.got = run.got + 1
        /\ run'.first = run.first
    BY <1>2, <2>1 DEF MixtureFields, SamePlanMade
  <2>3. run'.live \subseteq run.live /\ \E step : \E cost \in Costs : Pays(step, cost)
    BY <2>1, <2>2
  <2> QED BY <1>1, <2>1, <2>2, <2>3, MixtureMovesTyped
<1>6. CASE ProposerFailed
  <2>1. PICK s \in run.live : \E fatal : run' = [run EXCEPT !.live = run.live \ {s}, !.fatal = fatal]
    BY <1>6, Zenon DEF ProposerFailed, GoesOn
  <2>2. /\ run'.pc = run.pc /\ SamePlanMade /\ run'.live = run.live \ {s} /\ run'.got = run.got
        /\ run'.first = run.first
    BY <1>2, <2>1 DEF MixtureFields, SamePlanMade
  <2>3. UNCHANGED <<request, docs, left, task, bill>>
    BY <1>6 DEF ProposerFailed, GoesOn
  <2> QED BY <1>1, <2>2, <2>3, MixtureMovesTyped
<1>7. CASE WaveDone /\ ~EndsAs("cancelled") /\ ~Stumbles("BUDGET_EXCEEDED")
  <2>1. PICK pc \in {"wave_ask", "wave"} : run' = [run EXCEPT !.wave = @ + 1, !.pc = pc]
    BY <1>7 DEF WaveDone, GoesOn
  <2>2. /\ run'.pc = pc /\ SamePlanMade /\ run'.live = run.live /\ run'.got = run.got
        /\ run'.first = run.first
    BY <1>2, <2>1 DEF MixtureFields, SamePlanMade
  <2>3. UNCHANGED <<request, docs, left, bill>> /\ Writes("active")
    BY <1>7 DEF WaveDone, GoesOn
  <2> QED BY <1>1, <2>2, <2>3, MixtureMovesTyped
<1> QED BY <1>3, <1>4, <1>5, <1>6, <1>7

LEMMA SynthesizesTyped ==
  ASSUME CoordinatorInvariant, MoneyInvariant, TypesInvariant, run.pc = "wave", Synthesizes
  PROVE  TypesInvariant'
<1>1. run.pc \in MixturePlaces /\ "synth_call" \in MixturePlaces
  BY DEF MixturePlaces, Synthesized
<1>2. DOMAIN run = MixtureFields
  BY <1>1, InMixtureTyped
<1>3. CASE Stumbles("BUDGET_EXCEEDED")
  BY <1>1, <1>3, StumblesTyped
<1>4. CASE /\ Writes("active") /\ UNCHANGED bill
           /\ GoesOn([run EXCEPT !.pc = "synth_call", !.retried = FALSE])
  <2>1. /\ run'.pc = "synth_call" /\ SamePlanMade /\ run'.live = run.live /\ run'.got = run.got
        /\ run'.first = run.first /\ UNCHANGED <<request, docs, left>>
    BY <1>2, <1>4 DEF GoesOn, MixtureFields, SamePlanMade
  <2> QED BY <1>1, <1>4, <2>1, MixtureMovesTyped
<1> QED BY <1>3, <1>4 DEF Synthesizes

LEMMA RoundsDoneTyped ==
  ASSUME CoordinatorInvariant, MoneyInvariant, TypesInvariant, RoundDone \/ SecondRoundDone
  PROVE  TypesInvariant'
<1>1. run.pc = "wave" /\ run.pc \in MixturePlaces
  BY DEF RoundDone, SecondRoundDone, WavesDone, MixturePlaces
<1>2. CASE RoundDone
  BY <1>1, <1>2, EndsWithTyped, EndsAsTyped, SynthesizesTyped DEF RoundDone
<1>3. CASE SecondRoundDone
  BY <1>1, <1>3, StumblesTyped, SynthesizesTyped DEF SecondRoundDone
<1> QED BY <1>2, <1>3

\* A step that moves on without a look at the plan, whatever it writes down of its costs.
LEMMA MixturePlaceTyped ==
  ASSUME CoordinatorInvariant, MoneyInvariant, TypesInvariant, run.pc \in MixturePlaces,
         NEW pc \in MixturePlaces, NEW synth, NEW extra, NEW degraded, NEW retried,
         run' = [run EXCEPT !.pc = pc, !.synth = synth, !.extra = extra, !.degraded = degraded,
                            !.retried = retried],
         UNCHANGED <<request, docs, left, task>>,
         bill' = bill \/ (\E step : \E c \in Costs : Pays(step, c))
  PROVE  TypesInvariant'
<1>1. DOMAIN run = MixtureFields
  BY InMixtureTyped
<1>2. /\ run'.pc = pc /\ SamePlanMade /\ run'.live = run.live /\ run'.got = run.got
      /\ run'.first = run.first
  BY <1>1 DEF MixtureFields, SamePlanMade
<1> QED BY <1>2, MixtureMovesTyped

LEMMA SynthesisTyped ==
  ASSUME CoordinatorInvariant, MoneyInvariant, TypesInvariant,
         SynthesisAnswered \/ ArbiterFailed \/ SynthesisDone \/ AskAfterSynthesis \/ AskAfterWave
         \/ Gate \/ Judged \/ JudgeFailed
  PROVE  TypesInvariant'
<1>1. run.pc \in MixturePlaces
  BY DEF SynthesisAnswered, ArbiterFailed, SynthesisDone, AskAfterSynthesis, AskAfterWave, AsksToYield, Gate,
    Judged, JudgeFailed, MixturePlaces, Synthesized
<1>2. DOMAIN run = MixtureFields
  BY <1>1, InMixtureTyped
<1>3. CASE EndsAs("cancelled") \/ \E code : Stumbles(code)
  BY <1>1, <1>3, EndsAsTyped, StumblesTyped
<1>4. CASE SynthesisAnswered
  <2>1. PICK c \in Costs : /\ \E step : Pays(step, c)
                           /\ run' = [run EXCEPT !.pc = "synth_done", !.synth = c]
    BY <1>4 DEF SynthesisAnswered, GoesOn
  <2>2. run' = [run EXCEPT !.pc = "synth_done", !.synth = c, !.extra = run.extra,
                           !.degraded = run.degraded, !.retried = run.retried]
    BY <1>2, <2>1 DEF MixtureFields
  <2>3. UNCHANGED <<request, docs, left, task>> /\ "synth_done" \in MixturePlaces
    BY <1>4 DEF SynthesisAnswered, GoesOn, MixturePlaces, Synthesized
  <2>4. \E step : \E cost \in Costs : Pays(step, cost)
    BY <2>1
  <2> QED BY <1>1, <2>2, <2>3, <2>4, MixturePlaceTyped
<1>5. CASE Judged
  <2>1. PICK c \in Costs : /\ \E step : Pays(step, c)
                           /\ \E pc \in {"deliver", "second"} : run' = [run EXCEPT !.pc = pc, !.extra = c]
    BY <1>5, Zenon DEF Judged, GoesOn
  <2>2. PICK pc \in {"deliver", "second"} : run' = [run EXCEPT !.pc = pc, !.extra = c]
    BY <2>1
  <2>3. run' = [run EXCEPT !.pc = pc, !.synth = run.synth, !.extra = c,
                           !.degraded = run.degraded, !.retried = run.retried]
    BY <1>2, <2>2 DEF MixtureFields
  <2>4. UNCHANGED <<request, docs, left, task>> /\ pc \in MixturePlaces
    BY <1>5 DEF Judged, GoesOn, MixturePlaces, Synthesized
  <2>5. \E step : \E cost \in Costs : Pays(step, cost)
    BY <2>1
  <2> QED BY <1>1, <2>3, <2>4, <2>5, MixturePlaceTyped
<1>6. CASE ArbiterFailed /\ ~ \E code : Stumbles(code)
  <2>1. /\ UNCHANGED <<request, docs, left, task, bill>>
        /\ run' = [run EXCEPT !.pc = "synth_done", !.degraded = TRUE] \/ run' = [run EXCEPT !.retried = TRUE]
    BY <1>6 DEF ArbiterFailed, FirstProposal, Substituted, GoesOn
  <2>2. \E pc \in {"synth_done", run.pc} : \E degraded, retried :
          run' = [run EXCEPT !.pc = pc, !.synth = run.synth, !.extra = run.extra,
                             !.degraded = degraded, !.retried = retried]
    <3>1. CASE run' = [run EXCEPT !.pc = "synth_done", !.degraded = TRUE]
      <4>1. run' = [run EXCEPT !.pc = "synth_done", !.synth = run.synth, !.extra = run.extra,
                               !.degraded = TRUE, !.retried = run.retried]
        BY <1>2, <3>1 DEF MixtureFields
      <4> QED BY <4>1, Zenon
    <3>2. CASE run' = [run EXCEPT !.retried = TRUE]
      <4>1. run' = [run EXCEPT !.pc = run.pc, !.synth = run.synth, !.extra = run.extra,
                               !.degraded = run.degraded, !.retried = TRUE]
        BY <1>2, <3>2 DEF MixtureFields
      <4> QED BY <4>1, Zenon
    <3> QED BY <2>1, <3>1, <3>2
  <2>3. "synth_done" \in MixturePlaces
    BY DEF MixturePlaces, Synthesized
  <2>4. PICK pc \in {"synth_done", run.pc} : \E degraded, retried :
          run' = [run EXCEPT !.pc = pc, !.synth = run.synth, !.extra = run.extra,
                             !.degraded = degraded, !.retried = retried]
    BY <2>2, Zenon
  <2>5. PICK degraded, retried :
          run' = [run EXCEPT !.pc = pc, !.synth = run.synth, !.extra = run.extra,
                             !.degraded = degraded, !.retried = retried]
    BY <2>4, Zenon
  <2>6. pc \in MixturePlaces
    BY <1>1, <2>3
  <2> QED BY <1>1, <2>1, <2>5, <2>6, MixturePlaceTyped
<1>7. CASE /\ SynthesisDone \/ AskAfterSynthesis \/ AskAfterWave \/ Gate \/ JudgeFailed
           /\ ~EndsAs("cancelled")
  <2>1. PICK pc \in {"deliver", "synth_ask", "gate", "synth_save", "wave", "wave_save", "judge_call", "second"} :
          run' = [run EXCEPT !.pc = pc]
    BY <1>7 DEF SynthesisDone, AskAfterSynthesis, AskAfterWave, AsksToYield, Gate, JudgeFailed, GoesOn
  <2>2. UNCHANGED <<request, docs, left, task, bill>>
    BY <1>7 DEF SynthesisDone, AskAfterSynthesis, AskAfterWave, AsksToYield, Gate, JudgeFailed, GoesOn
  <2>3. run' = [run EXCEPT !.pc = pc, !.synth = run.synth, !.extra = run.extra,
                           !.degraded = run.degraded, !.retried = run.retried]
    BY <1>2, <2>1 DEF MixtureFields
  <2>4. pc \in MixturePlaces
    BY DEF MixturePlaces, Synthesized
  <2> QED BY <1>1, <2>2, <2>3, <2>4, MixturePlaceTyped
<1> QED BY <1>3, <1>4, <1>5, <1>6, <1>7

LEMMA SecondTyped ==
  ASSUME CoordinatorInvariant, MoneyInvariant, TypesInvariant, StartSecond \/ SecondSynthesisDone
  PROVE  TypesInvariant'
<1>1. run.pc \in MixturePlaces /\ {"wave", "deliver"} \subseteq MixturePlaces
  BY DEF StartSecond, SecondSynthesisDone, MixturePlaces, Synthesized
<1>2. DOMAIN run = MixtureFields
  BY <1>1, InMixtureTyped
<1>3. CASE EndsAs("cancelled")
  BY <1>3, EndsAsTyped
<1>4. CASE GoesOn([run EXCEPT !.pc = "deliver"]) /\ UNCHANGED <<task, bill>>
  <2>1. /\ run'.pc = "deliver" /\ SamePlanMade /\ run'.live = run.live /\ run'.got = run.got
        /\ run'.first = run.first /\ UNCHANGED <<request, docs, left>>
    BY <1>2, <1>4 DEF GoesOn, MixtureFields, SamePlanMade
  <2> QED BY <1>1, <1>4, <2>1, MixtureMovesTyped
<1>5. CASE GoesOn(FirstRound) /\ UNCHANGED <<task, bill>>
  BY <1>1, <1>5, StumblesTyped
<1>6. CASE /\ UNCHANGED <<task, bill>>
           /\ GoesOn([run EXCEPT !.pc = "wave", !.wave = 1, !.round = 2, !.got = 0, !.cost = 0,
                !.synth = 0, !.first = [got |-> run.got, cost |-> run.cost, synth |-> run.synth]])
  <2> DEFINE first == [got |-> run.got, cost |-> run.cost, synth |-> run.synth]
  <2>1. first.got = run.got
    OBVIOUS
  <2>2. /\ run' = [run EXCEPT !.pc = "wave", !.wave = 1, !.round = 2, !.got = 0, !.cost = 0,
                     !.synth = 0, !.first = first]
        /\ UNCHANGED <<request, docs, left, task, bill>>
    BY <1>6 DEF GoesOn
  <2> HIDE DEF first
  <2>3. /\ run'.pc = "wave" /\ SamePlanMade /\ run'.live = run.live /\ run'.got = 0
        /\ run'.first.got = run.got
    BY <1>2, <2>1, <2>2 DEF MixtureFields, SamePlanMade
  <2> QED BY <1>1, <2>2, <2>3, MixtureMovesTyped
<1> QED BY <1>3, <1>4, <1>5, <1>6 DEF StartSecond, SecondSynthesisDone

LEMMA MixturePausesTyped ==
  ASSUME CoordinatorInvariant, MoneyInvariant, TypesInvariant, YieldAfterWave \/ YieldAfterSynthesis
  PROVE  TypesInvariant'
<1>1. run.pc \in MixturePlaces
  BY DEF YieldAfterWave, YieldAfterSynthesis, MixturePlaces, Synthesized
<1>2. DOMAIN run = MixtureFields /\ MixtureTyped(run)
  BY <1>1, InMixtureTyped
<1>3. PICK pc : Yields("mixture", [run EXCEPT !.pc = pc])
  BY DEF YieldAfterWave, YieldAfterSynthesis
<1> DEFINE state == [run EXCEPT !.pc = pc]
<1>4. /\ state.plan = run.plan /\ state.known = run.known /\ state.live = run.live
      /\ state.got = run.got /\ state.first = run.first
  BY <1>2 DEF MixtureFields
<1>5. Yields("mixture", state)
  BY <1>3
<1> HIDE DEF state
<1>6. MixtureTyped(state)
  BY <1>2, <1>4 DEF MixtureTyped, PlanMade
<1> QED BY <1>5, <1>6, PausesTyped DEF Yields

LEMMA DeliverTyped ==
  ASSUME NoneIsNoRecord, CoordinatorInvariant, MoneyInvariant, TypesInvariant, Deliver
  PROVE  TypesInvariant'
<1>1. CASE Fails("BUDGET_EXCEEDED")
  BY <1>1, FailsTyped
<1>2. CASE ~Fails("BUDGET_EXCEEDED")
  <2> DEFINE result == [of |-> "mixture", rounds |-> run.round, got |-> run.got,
                        cost |-> AllOutputs, abandoned |-> run.abandoned]
  <2>1. /\ task' = [task EXCEPT !.status = "completed", !.result = result]
        /\ run' = Idle /\ UNCHANGED <<request, docs, bill, left>>
    BY <1>2 DEF Deliver
  <2>2. "of" \in DOMAIN result /\ result.of \in Results
    BY DEF Results
  <2> HIDE DEF result
  <2> QED BY <2>1, <2>2, CompletesTyped
<1> QED BY <1>1, <1>2

LEMMA ConsensusTypes ==
  ASSUME NoneIsNoRecord, CoordinatorInvariant, MoneyInvariant, PaidInvariant, TypesInvariant, ConsensusNext
  PROVE  TypesInvariant'
BY MixtureBegunTyped, WavesTyped, RoundsDoneTyped, SynthesisTyped, SecondTyped, MixturePausesTyped,
   DeliverTyped DEF ConsensusNext

----------------------------------------------------------------------------
(* The types, all together.                                                *)

LEMMA DispatchTypes ==
  ASSUME CoordinatorInvariant, MoneyInvariant, TypesInvariant, Dispatch
  PROVE  TypesInvariant'
<1>1. CASE EndsAs("cancelled")
  BY <1>1, EndsAsTyped
<1>2. CASE EndsWith("TABULAR_ATTACHMENT_REQUIRES_SANDBOX")
  BY <1>2, EndsWithTyped
<1>3. CASE /\ Writes("active") /\ UNCHANGED bill
           /\ \/ request.strategy # "auto" /\ GoesOn(Begin(request.strategy))
              \/ /\ request.strategy = "auto"
                 /\ \E cases \in Histories : GoesOn(BeginAuto(Route(request.signals, cases)))
  <2>1. request.strategy \in Concrete \cup {"map_reduce", "auto"} /\ UNCHANGED <<request, docs, left>>
    BY <1>3, RequestsAssumption DEF CoordinatorInvariant, RowInvariant, GoesOn
  <2>2. /\ run'.pc \in {"single", "map_plan", "agent", "mixture"}
        /\ run'.pc = "mixture" => run'.preset = PresetOf /\ run'.scheduling = SchedulingOf
    <3>1. CASE request.strategy # "auto" /\ run' = Begin(request.strategy)
      BY <2>1, <3>1 DEF Begin, ToMixture, Concrete, PresetOf, SchedulingOf
    <3>2. CASE /\ request.strategy = "auto"
               /\ \E cases \in Histories : run' = BeginAuto(Route(request.signals, cases))
      <4>1. PICK cases \in Histories : run' = BeginAuto(Route(request.signals, cases))
        BY <3>2
      <4>2. PICK strategy \in Concrete : run' = BeginAuto(strategy)
        <5>1. cases \in Seq(Case)
          BY RequestsAssumption
        <5> QED BY <4>1, <5>1, RouteIsConcrete
      <4>3. /\ BeginAuto(strategy).pc \in {"single", "agent", "mixture"}
            /\ BeginAuto(strategy).pc = "mixture" =>
                 BeginAuto(strategy).preset = "fast" /\ BeginAuto(strategy).scheduling = "sequential"
        BY DEF Concrete, BeginAuto, ToMixture
      <4> QED BY <3>2, <4>2, <4>3 DEF PresetOf, SchedulingOf
    <3> QED BY <1>3, <3>1, <3>2 DEF GoesOn
  <2>3. RunTyped'
    <3>1. run'.pc \notin MapPlaces \cup MixturePlaces
      BY <2>2, PlacesApart
    <3>2. PresetOf' = PresetOf /\ SchedulingOf' = SchedulingOf
      BY <2>1 DEF PresetOf, SchedulingOf
    <3> QED BY <2>2, <3>1, <3>2 DEF RunTyped
  <2> QED BY <1>3, <2>1, <2>3, TypesGoOn
<1> QED BY <1>1, <1>2, <1>3 DEF Dispatch

LEMMA InterruptionsTyped ==
  ASSUME CoordinatorInvariant, MoneyInvariant, TypesInvariant, TimesOut \/ Crash
  PROVE  TypesInvariant'
<1>1. CASE TimesOut
  BY <1>1, EndsAsTyped, EndsWithTyped DEF TimesOut
<1>2. CASE Crash
  <2>1. PICK status \in {"queued", "failed", "cancelled"} : RowKeeps(status)
    BY <1>2, StatusWritten DEF CoordinatorInvariant, RowInvariant, Crash, Writes, WritesError
  <2> QED BY <1>2, <2>1, TypesEnd DEF Crash
<1> QED BY <1>1, <1>2

LEMMA CancelTypes ==
  ASSUME NoneIsNoRecord, CoordinatorInvariant, MoneyInvariant, TypesInvariant, Cancel
  PROVE  TypesInvariant'
<1>1. UNCHANGED <<request, run, docs, bill, left>>
  BY DEF Cancel
<1>2. /\ task'.status = "cancelled" /\ task'.cancel = TRUE
      /\ task'.cancelled_at = (IF task.cancel THEN task.cancelled_at ELSE Place)
      /\ task'.result = task.result
      /\ task'.mapped = task.mapped /\ task'.mixture = task.mixture
  BY DEF CoordinatorInvariant, RowInvariant, RowFields, Cancel
<1>3. Place # None
  <2>1. "pc" \in DOMAIN Place
    BY DEF Place
  <2> QED BY <2>1 DEF NoneIsNoRecord
<1>4. task'.cancelled_at # None
  BY <1>2, <1>3 DEF TypesInvariant, RowTyped
<1>5. RunTyped'
  BY <1>1 DEF TypesInvariant, RunTyped, MixtureTyped, MapTyped, PlanMade, PresetOf, SchedulingOf
<1>6. RowTyped'
  BY <1>1, <1>2, <1>4 DEF TypesInvariant, RowTyped, MixtureTyped, MapTyped, PlanMade, PresetOf, SchedulingOf
<1> QED BY <1>1, <1>5, <1>6 DEF TypesInvariant

LEMMA ReconvertTypes ==
  ASSUME TypesInvariant, Reconvert
  PROVE  TypesInvariant'
<1>1. UNCHANGED <<request, run, task, bill, left>>
  BY DEF Reconvert
<1>2. docs' \in 0..MaxDocs
  BY SizesAssumption DEF Reconvert, TypesInvariant
<1>3. RunTyped' /\ RowTyped'
  BY <1>1 DEF TypesInvariant, RunTyped, RowTyped, MixtureTyped, MapTyped, PlanMade, PresetOf, SchedulingOf
<1> QED BY <1>1, <1>2, <1>3 DEF TypesInvariant

LEMMA ToolResultsTyped ==
  ASSUME CoordinatorInvariant, TypesInvariant, NEW provided, ToolResults(provided)
  PROVE  TypesInvariant'
<1>1. UNCHANGED <<request, run, docs, bill, left>>
  BY DEF ToolResults, Accepted
<1>2. \E agent : task' = [task EXCEPT !.status = "queued", !.agent = agent]
  BY DEF ToolResults
<1>3. /\ task'.status = "queued" /\ task'.cancel = task.cancel
      /\ task'.cancelled_at = task.cancelled_at /\ task'.result = task.result
      /\ task'.mapped = task.mapped /\ task'.mixture = task.mixture
  BY <1>2 DEF CoordinatorInvariant, RowInvariant, RowFields
<1>4. RunTyped'
  BY <1>1 DEF TypesInvariant, RunTyped, MixtureTyped, MapTyped, PlanMade, PresetOf, SchedulingOf
<1>5. RowTyped'
  BY <1>1, <1>3 DEF TypesInvariant, RowTyped, MixtureTyped, MapTyped, PlanMade, PresetOf, SchedulingOf
<1> QED BY <1>1, <1>4, <1>5 DEF TypesInvariant

LEMMA TypesBegin ==
  ASSUME WorkflowInit
  PROVE  TypesInvariant
<1>1. /\ run.pc = "idle" /\ bill.kept_spent <= bill.spent /\ bill.kept \subseteq bill.paid
      /\ docs \in 0..MaxDocs /\ left \in 0..Interruptions
  BY SizesAssumption DEF WorkflowInit, Idle, FreshBill
<1>2. RunTyped
  BY <1>1, PlacesApart DEF RunTyped
<1>3. RowTyped
  BY DEF WorkflowInit, FreshRow, RowTyped
<1> QED BY <1>1, <1>2, <1>3 DEF TypesInvariant

LEMMA TypesStutter ==
  ASSUME TypesInvariant, UNCHANGED wvars
  PROVE  TypesInvariant'
BY DEF wvars, TypesInvariant, RunTyped, RowTyped, MixtureTyped, MapTyped, PlanMade, PresetOf, SchedulingOf

LEMMA StepTypes ==
  ASSUME NoneIsNoRecord, CoordinatorInvariant, MoneyInvariant, PaidInvariant, TypesInvariant, [Next]_wvars
  PROVE  TypesInvariant'
<1>1. CASE Dispatch
  BY <1>1, DispatchTypes
<1>2. CASE MapReduceNext \/ SingleNext \/ AgentNext \/ ConsensusNext
  BY <1>2, MapTypes, SingleTypes, AgentTypes, ConsensusTypes
<1>3. CASE TimesOut \/ Crash
  BY <1>3, InterruptionsTyped
<1>4. CASE Cancel \/ Reconvert \/ \E provided \in SUBSET request.tools : ToolResults(provided)
  BY <1>4, CancelTypes, ReconvertTypes, ToolResultsTyped
<1>5. CASE UNCHANGED wvars
  BY <1>5, TypesStutter
<1> QED BY <1>1, <1>2, <1>3, <1>4, <1>5 DEF Next

\* What the coroutine holds tells where it is.
LEMMA MixturesAndMaps ==
  ASSUME RunShape
  PROVE  /\ InMixture => run.pc \in MixturePlaces
         /\ InMap => run.pc \in MapPlaces
BY DEF RunShape, InMixture, InMap, MapFields, TalkFields, MixtureFields

LEMMA TypesFollow ==
  ASSUME CoordinatorInvariant, TypesInvariant
  PROVE  TypeOK
<1>1. /\ InMixture => run.live \subseteq 1..Len(request.footprints) /\ run.got \in Nat
      /\ InMap => run.total \in Nat /\ Len(run.partials) <= run.total
  BY MixturesAndMaps
     DEF CoordinatorInvariant, RunInvariant, TypesInvariant, RunTyped, MixtureTyped, MapTyped
<1>2. /\ request \in Requests /\ task.status \in Statuses
  BY DEF CoordinatorInvariant, RowInvariant, Statuses, Final
<1> QED BY <1>1, <1>2 DEF TypesInvariant, RowTyped, TypeOK

LEMMA TightFollows ==
  ASSUME CoordinatorInvariant, TypesInvariant
  PROVE  PlanIsTight
<1> DEFINE footprints == request.footprints
           plan == run.plan
           n == Len(footprints)
<1>1. SUFFICES ASSUME InMixture PROVE PlanIsTight
  BY DEF PlanIsTight
<1>2. PlanMade(run) /\ request \in Requests
  BY <1>1, MixturesAndMaps
     DEF CoordinatorInvariant, RunInvariant, RowInvariant, TypesInvariant, RunTyped, MixtureTyped
<1>3. footprints \in Seq(Range(footprints)) /\ Sized(footprints)
  BY <1>2, RequestsAssumption, SizesAssumption DEF Sized
<1>4. Whole(plan, n)
  BY <1>2, <1>3, PlanIsLengths DEF PlanMade
<1>5. ASSUME OneSizeEach(footprints)
      PROVE  PlanFits(run.known, footprints, plan)
  BY <1>2, <1>3, <1>5, PlanKeepsItsPromise DEF PlanMade
<1>6. ASSUME OneSizeEach(footprints), request.strategy = "mixture", request.preset = "slow",
             request.scheduling # "sequential", WavesAllowed,
             NEW k \in 1..(Len(plan) - 1), NEW other \in [1..k -> 1..n]
      PROVE  ~PlanFits(run.known, footprints, other)
  <2>1. \A w \in 1..(Len(plan) - 1) : Full(run.known, footprints, plan, w)
    <3>1. plan = Plan("slow", request.scheduling, run.known, footprints)
      BY <1>2, <1>6 DEF PlanMade, PresetOf, SchedulingOf
    <3> QED BY <1>2, <1>3, <1>6, <3>1, PlanIsFull DEF PlanMade
  <2>2. n \in Nat /\ Len(plan) \in Nat
    BY <1>3, <1>4 DEF Whole
  <2>3. other \in Seq(Nat) /\ Len(other) < Len(plan)
    BY <1>6, <2>2
  <2> HIDE DEF footprints, plan, n
  <2> QED BY <1>3, <1>4, <2>1, <2>3, NoShorterPlan DEF n
<1> QED BY <1>4, <1>5, <1>6 DEF PlanIsTight, Whole

\* What is proved of every step, together.
StepsKeep == CoordinatorInvariant /\ MoneyInvariant /\ PaidInvariant /\ TypesInvariant

LEMMA AllIsKept ==
  ASSUME NoneIsNoRecord
  PROVE  Spec => []StepsKeep
<1>1. WorkflowInit => StepsKeep
  BY Begins, MoneyBegins, PaidBegins, TypesBegin DEF StepsKeep
<1>2. StepsKeep /\ [Next]_wvars => StepsKeep'
  BY StepKeeps, StepPays, StepPaysOnce, StepTypes DEF StepsKeep
<1> QED BY <1>1, <1>2, PTL DEF Spec

\* TypeOK for any requests, prices, conversions and interruptions: whatever the strategy
\* holds, and whatever was frozen and taken up again, keeps its type, no call counts the
\* money backwards, and an answer stands behind every completed row.
THEOREM TypesAreKept ==
  ASSUME NoneIsNoRecord
  PROVE  Spec => []TypeOK
<1>1. StepsKeep => TypeOK
  BY TypesFollow DEF StepsKeep
<1> QED BY <1>1, AllIsKept, PTL

\* PlanIsTight for any proposers, sizes, memory and slots: the plan that a mixture runs
\* by, also after it gave way and was taken up, gives every proposer its place, keeps
\* within the slots and the memory, and has the fewest waves that do.
THEOREM PlansAreTight ==
  ASSUME NoneIsNoRecord
  PROVE  Spec => []PlanIsTight
<1>1. StepsKeep => PlanIsTight
  BY TightFollows DEF StepsKeep
<1> QED BY <1>1, AllIsKept, PTL

----------------------------------------------------------------------------
(* The limit: ways to leave a step.                                        *)

\* SpendingIsBounded for other values of the bill and another number of conversions.
Within(spent, kept, converted) ==
  CASE request.strategy = "agent" -> spent - kept <= request.max + MaxOf(Costs)
    [] request.strategy = "auto" -> spent - kept <= request.max + MaxOf(Costs \cup {request.max})
    [] OTHER -> spent <= 2 * request.max * (converted + 1)

LEMMA CostsHaveMost ==
  /\ MaxOf(Costs) \in Nat /\ \A c \in Costs : c \in Nat /\ c <= MaxOf(Costs)
  /\ \A m \in Nat : /\ MaxOf(Costs \cup {m}) \in Nat /\ m <= MaxOf(Costs \cup {m})
                    /\ MaxOf(Costs) <= MaxOf(Costs \cup {m})
<1>1. ASSUME NEW S \in SUBSET Nat, \E x \in S : \A y \in S : y <= x
      PROVE  MaxOf(S) \in S /\ \A y \in S : y <= MaxOf(S)
  BY <1>1 DEF MaxOf
<1>2. PICK top \in Costs : \A c \in Costs : c <= top
  BY LimitsAssumption
<1>3. MaxOf(Costs) \in Costs /\ \A c \in Costs : c <= MaxOf(Costs)
  BY <1>1, <1>2, CostsAssumption
<1>4. ASSUME NEW m \in Nat
      PROVE  /\ MaxOf(Costs \cup {m}) \in Costs \cup {m}
             /\ \A y \in Costs \cup {m} : y <= MaxOf(Costs \cup {m})
  <2>1. \E x \in Costs \cup {m} : \A y \in Costs \cup {m} : y <= x
    <3>1. CASE m <= top
      BY <1>2, <3>1
    <3>2. CASE ~(m <= top)
      <4>1. \A c \in Costs : c <= m
        BY <1>2, <3>2, CostsAssumption
      <4> QED BY <4>1
    <3> QED BY <3>1, <3>2
  <2>2. Costs \cup {m} \in SUBSET Nat
    BY CostsAssumption
  <2> QED BY <1>1, <2>1, <2>2
<1> QED BY <1>3, <1>4, CostsAssumption

\* The numbers that the limit is about.
LEMMA LimitsAreNumbers ==
  ASSUME CoordinatorInvariant, MoneyInvariant, request.max # None
  PROVE  /\ request.max \in Nat /\ Twice \in Nat /\ Twice = request.max + request.max /\ docs \in Nat
         /\ bill.spent \in Nat /\ bill.kept_spent \in Nat /\ KeptBefore \in {0, bill.kept_spent}
         /\ \A d \in Nat : Twice * d \in Nat /\ Twice * (d + 1) = Twice * d + Twice
<1>1. request.max \in Nat
  BY LimitsAssumption DEF CoordinatorInvariant, RowInvariant
<1>2. Twice \in Nat /\ Twice = request.max + request.max
  BY <1>1 DEF Twice
<1>3. \A d \in Nat : Twice * d \in Nat /\ Twice * (d + 1) = Twice * d + Twice
  BY <1>2
<1> QED BY <1>1, <1>2, <1>3 DEF CoordinatorInvariant, RowInvariant, MoneyInvariant, KeptBefore

\* What a strategy may have spent where it runs keeps within the bound of the task.
LEMMA KeepsWithin ==
  ASSUME CoordinatorInvariant, MoneyInvariant, request.max # None,
         NEW spent \in Nat, NEW kept \in Nat,
         \/ request.strategy \notin {"agent", "auto"} /\ spent <= Twice * docs + Twice
         \/ request.strategy = "auto" /\ spent <= kept + Twice
         \/ request.strategy \in {"agent", "auto"} /\ spent <= kept + (request.max + MaxOf(Costs))
  PROVE  Within(spent, kept, docs)
<1> DEFINE m == request.max
           top == MaxOf(Costs)
           most == MaxOf(Costs \cup {m})
<1>1. /\ m \in Nat /\ Twice \in Nat /\ Twice = m + m /\ docs \in Nat
      /\ Twice * (docs + 1) = Twice * docs + Twice
  BY LimitsAreNumbers
<1>2. top \in Nat /\ most \in Nat /\ m <= most /\ top <= most
  BY <1>1, CostsHaveMost
<1>3. CASE request.strategy \notin {"agent", "auto"}
  BY <1>1, <1>3 DEF Within, Twice
<1>4. CASE request.strategy = "auto"
  <2>1. /\ \/ spent <= kept + Twice
           \/ spent <= kept + (m + top)
        /\ (spent - kept <= m + most => Within(spent, kept, docs))
    BY <1>4 DEF Within
  <2> HIDE DEF m, top, most
  <2>2. spent - kept <= m + most
    BY <1>1, <1>2, <2>1
  <2> QED BY <2>1, <2>2
<1>5. CASE request.strategy = "agent"
  <2>1. spent <= kept + (m + top) /\ (spent - kept <= m + top => Within(spent, kept, docs))
    BY <1>5 DEF Within
  <2> HIDE DEF m, top, most
  <2>2. spent - kept <= m + top
    BY <1>1, <1>2, <2>1
  <2> QED BY <2>1, <2>2
<1> QED BY <1>3, <1>4, <1>5

\* Nothing is paid, or what is paid is kept, or lost with the process.
LEMMA UnpaidIsWithin ==
  ASSUME CoordinatorInvariant, MoneyInvariant, TypesInvariant, SpendingIsBounded,
         UNCHANGED <<request, docs>>, bill' = bill \/ bill' = Interrupted \/ Freeze
  PROVE  SpendingIsBounded'
<1>1. SUFFICES ASSUME request.max # None PROVE SpendingIsBounded'
  BY DEF SpendingIsBounded
<1>2. CASE bill' = bill
  BY <1>2 DEF SpendingIsBounded
<1>3. CASE bill' = Interrupted \/ Freeze
  <2> DEFINE m == request.max
             top == MaxOf(Costs)
             most == MaxOf(Costs \cup {m})
  <2>1. /\ bill'.spent = bill'.kept_spent /\ bill'.spent \in Nat /\ bill'.spent <= bill.spent
        /\ bill.spent \in Nat
    <3>1. DOMAIN bill = BillFields /\ bill.spent \in Nat /\ bill.kept_spent \in Nat
      BY DEF MoneyInvariant
    <3> QED BY <1>3, <3>1, BillFrozen DEF TypesInvariant
  <2>2. /\ m \in Nat /\ top \in Nat /\ most \in Nat /\ docs \in Nat /\ Twice \in Nat
        /\ Twice * (docs + 1) \in Nat
    <3>1. m \in Nat /\ docs \in Nat /\ Twice \in Nat
      BY <1>1, LimitsAreNumbers
    <3> QED BY <3>1, CostsHaveMost
  <2>3. bill'.spent - bill'.kept_spent = 0
    BY <2>1
  <2>4. request.strategy \notin {"agent", "auto"} => bill.spent <= Twice * (docs + 1)
    BY <1>1 DEF SpendingIsBounded, Twice
  <2>5. /\ bill'.spent - bill'.kept_spent <= m + top /\ bill'.spent - bill'.kept_spent <= m + most
        /\ request.strategy \notin {"agent", "auto"} => bill'.spent <= Twice * (docs + 1)
    <3> HIDE DEF m, top, most
    <3> QED BY <2>1, <2>2, <2>3, <2>4
  <2> QED BY <2>5 DEF SpendingIsBounded, Twice
<1> QED BY <1>2, <1>3

LEMMA IdleSpendsNothing ==
  ASSUME run' = Idle
  PROVE  RunSpends'
BY IdleHoldsNothing DEF RunSpends, MixturePlaces, Synthesized

\* The checkpoints stay, and with them what was kept.
LEMMA RowStillSpends ==
  ASSUME RowSpends, NEW status, RowKeeps(status), UNCHANGED request, bill'.kept_spent = bill.kept_spent,
         status \in {"queued", "waiting_for_tools"} => bill'.spent = bill'.kept_spent
  PROVE  RowSpends'
BY DEF RowSpends, RowKeeps, Outputs, Twice

LEMMA SpendingEnds ==
  ASSUME CoordinatorInvariant, MoneyInvariant, TypesInvariant, SpendingInvariant,
         run' = Idle, UNCHANGED <<request, docs>>,
         NEW status \in {"queued", "failed", "cancelled", "completed"}, RowKeeps(status),
         (bill' = bill /\ status # "queued") \/ bill' = Interrupted
  PROVE  SpendingInvariant'
<1>1. SpendingIsBounded'
  BY UnpaidIsWithin DEF SpendingInvariant
<1>2. bill'.kept_spent = bill.kept_spent /\ (status = "queued" => bill'.spent = bill'.kept_spent)
  BY BillFrozen DEF MoneyInvariant
<1>3. request.max # None => RowSpends'
  BY <1>2, RowStillSpends DEF SpendingInvariant
<1> QED BY <1>1, <1>3, IdleSpendsNothing DEF SpendingInvariant

LEMMA EndsAsSpends ==
  ASSUME CoordinatorInvariant, MoneyInvariant, TypesInvariant, SpendingInvariant, EndsAs("cancelled")
  PROVE  SpendingInvariant'
<1>1. RowKeeps("cancelled")
  BY StatusWritten DEF CoordinatorInvariant, RowInvariant, EndsAs, Writes
<1> QED BY <1>1, SpendingEnds DEF EndsAs

LEMMA EndsWithSpends ==
  ASSUME CoordinatorInvariant, MoneyInvariant, TypesInvariant, SpendingInvariant, NEW code, EndsWith(code)
  PROVE  SpendingInvariant'
<1>1. RowKeeps("failed")
  BY StatusWritten DEF CoordinatorInvariant, RowInvariant, EndsWith, WritesError
<1> QED BY <1>1, SpendingEnds DEF EndsWith

LEMMA FailsSpends ==
  ASSUME CoordinatorInvariant, MoneyInvariant, TypesInvariant, SpendingInvariant, NEW code, Fails(code)
  PROVE  SpendingInvariant'
<1>1. /\ DOMAIN task = RowFields /\ run' = Idle /\ UNCHANGED <<request, docs>>
  BY DEF CoordinatorInvariant, RowInvariant, Fails
<1>2. CASE Writes("cancelled") /\ UNCHANGED <<bill, left>>
  BY <1>1, <1>2, StatusWritten, SpendingEnds DEF Writes
<1>3. CASE WritesError(code) /\ UNCHANGED <<bill, left>>
  BY <1>1, <1>3, StatusWritten, SpendingEnds DEF WritesError
<1>4. CASE RetriesAfterOutage(code)
  BY <1>1, <1>4, StatusWritten, SpendingEnds DEF RetriesAfterOutage, Writes
<1> QED BY <1>2, <1>3, <1>4 DEF Fails

\* An answer is delivered for what was spent already.
LEMMA CompletesSpends ==
  ASSUME CoordinatorInvariant, MoneyInvariant, TypesInvariant, SpendingInvariant, NEW result,
         task' = [task EXCEPT !.status = "completed", !.result = result],
         run' = Idle, UNCHANGED <<request, docs, bill, left>>
  PROVE  SpendingInvariant'
<1>1. /\ task'.status = "completed" /\ task'.mapped = task.mapped /\ task'.mixture = task.mixture
  BY DEF CoordinatorInvariant, RowInvariant, RowFields
<1>2. SpendingIsBounded'
  BY UnpaidIsWithin DEF SpendingInvariant
<1>3. request.max # None => RowSpends'
  BY <1>1 DEF SpendingInvariant, RowSpends, Outputs, Twice
<1> QED BY <1>2, <1>3, IdleSpendsNothing DEF SpendingInvariant

LEMMA CompletesSingleSpends ==
  ASSUME CoordinatorInvariant, MoneyInvariant, TypesInvariant, SpendingInvariant, NEW here, NEW result,
         CompletesSingle(here, result)
  PROVE  SpendingInvariant'
<1>1. CASE Fails("TASK_CANCELLED")
  BY <1>1, FailsSpends
<1>2. CASE ~Fails("TASK_CANCELLED")
  BY <1>2, CompletesSpends DEF CompletesSingle
<1> QED BY <1>1, <1>2

\* The coroutine goes on and may have paid a call, within the bound of the task.
LEMMA SpendingGoesOn ==
  ASSUME CoordinatorInvariant, MoneyInvariant, TypesInvariant, SpendingInvariant,
         UNCHANGED <<request, docs>>, (task' = task /\ run.pc # "idle") \/ Writes("active"),
         bill' = bill \/ (\E step : \E c \in Costs : Pays(step, c)),
         request.max # None => RunSpends',
         request.max # None /\ bill' # bill => Within(bill'.spent, bill'.kept_spent, docs)
  PROVE  SpendingInvariant'
<1>1. PICK status \in {task.status, "active"} :
        RowKeeps(status) /\ status \notin {"queued", "waiting_for_tools"}
  BY StatusWritten DEF CoordinatorInvariant, RowInvariant, Writes
<1>2. bill'.kept_spent = bill.kept_spent
  <2>1. DOMAIN bill = BillFields /\ bill.spent \in Nat
    BY DEF MoneyInvariant
  <2> QED BY <2>1, BillMoved DEF BillMoves
<1>3. request.max # None => RowSpends'
  BY <1>1, <1>2, RowStillSpends DEF SpendingInvariant
<1>4. SpendingIsBounded'
  <2>1. CASE bill' = bill
    BY <2>1, UnpaidIsWithin DEF SpendingInvariant
  <2>2. CASE bill' # bill
    BY <2>2 DEF SpendingIsBounded, Within
  <2> QED BY <2>1, <2>2
<1> QED BY <1>3, <1>4 DEF SpendingInvariant

\* A run gives way, or waits for its client: what it has spent is kept.
LEMMA SpendingPauses ==
  ASSUME CoordinatorInvariant, MoneyInvariant, TypesInvariant, SpendingInvariant,
         NEW status \in {"queued", "waiting_for_tools"},
         NEW column \in {"agent", "mapped", "mixture"}, NEW state,
         task' = [task EXCEPT !.status = status, ![column] = state],
         run' = Idle, Freeze, UNCHANGED <<request, docs>>,
         request.max # None =>
           /\ column # "mapped" => task.mapped = None \/ bill.spent = bill.kept_spent
           /\ column = "mapped" => /\ request.strategy # "auto" /\ state.spent <= Twice
                                   /\ bill.spent <= Twice * state.docs + state.spent
           /\ column = "mixture" => state.max = request.max /\ Outputs(state) <= request.max
  PROVE  SpendingInvariant'
<1>1. /\ task'.status = status
      /\ task'.mapped = IF column = "mapped" THEN state ELSE task.mapped
      /\ task'.mixture = IF column = "mixture" THEN state ELSE task.mixture
  BY DEF CoordinatorInvariant, RowInvariant, RowFields
<1>2. SpendingIsBounded'
  BY UnpaidIsWithin DEF SpendingInvariant
<1>3. bill'.spent = bill.spent /\ bill'.kept_spent = bill.spent
  BY BillFrozen DEF MoneyInvariant
<1>4. ASSUME request.max # None PROVE RowSpends'
  <2>1. RowSpends
    BY <1>4 DEF SpendingInvariant
  <2>2. task'.mapped # None =>
          /\ request.strategy # "auto" /\ task'.mapped.spent <= Twice
          /\ bill.spent <= Twice * task'.mapped.docs + task'.mapped.spent
    BY <1>1, <1>4, <2>1 DEF RowSpends
  <2>3. task'.mixture # None => task'.mixture.max = request.max /\ Outputs(task.mixture)' <= request.max
    BY <1>1, <1>4, <2>1 DEF RowSpends, Outputs
  <2> QED BY <1>1, <1>3, <2>2, <2>3 DEF RowSpends, Twice
<1> QED BY <1>2, <1>4, IdleSpendsNothing DEF SpendingInvariant

\* A call that is paid.
LEMMA CallIsPaid ==
  ASSUME MoneyInvariant, NEW step, NEW c \in Costs, Pays(step, c)
  PROVE  /\ c \in Nat /\ c <= MaxOf(Costs)
         /\ bill'.spent = bill.spent + c /\ bill'.kept_spent = bill.kept_spent
         /\ bill'.spent \in Nat /\ bill'.kept_spent \in Nat
         /\ \A m \in Nat : m # None /\ Fits(c, m, 1) => c <= m
<1>1. c \in Nat /\ c <= MaxOf(Costs)
  BY CostsHaveMost
<1>2. bill'.spent = bill.spent + c /\ bill'.kept_spent = bill.kept_spent
  BY BillMoved DEF MoneyInvariant, BillMoves
<1> QED BY <1>1, <1>2 DEF MoneyInvariant, Fits

----------------------------------------------------------------------------
(* The limit among the chunks.                                             *)

LEMMA MapsSpend ==
  ASSUME run'.pc \in MapPlaces, MapSpends', request'.strategy # "auto"
  PROVE  RunSpends'
<1>1. run'.pc \notin {"single", "agent", "map_plan", "mixture"}
                   \cup SinglePlaces \cup TalkPlaces \cup MixturePlaces
  BY PlacesApart
<1>2. run'.pc # "deliver"
  BY <1>1 DEF MixturePlaces, Synthesized
<1> QED BY <1>1, <1>2 DEF RunSpends

\* What the chunks of older conversions have cost, when they are cut again.
LEMMA OlderChunksArePaid ==
  ASSUME CoordinatorInvariant, MoneyInvariant, SpendingInvariant, request.max # None,
         run.pc = "map_plan", ~Usable
  PROVE  bill.spent <= Twice * docs
<1>1. /\ Twice \in Nat /\ docs \in Nat /\ bill.spent \in Nat /\ Twice * docs \in Nat
      /\ \A d \in Nat : Twice * d \in Nat /\ Twice * (d + 1) = Twice * d + Twice
  BY LimitsAreNumbers
<1>2. bill.spent = bill.kept_spent /\ request.strategy # "auto" /\ RowSpends
  BY DEF SpendingInvariant, RunSpends
<1>3. request.strategy = "map_reduce" /\ RowHolds /\ task.agent = None
  BY <1>2 DEF MoneyInvariant, Chosen
<1>4. CASE task.mapped = None
  <2>1. task.mixture = None
    BY <1>3 DEF CoordinatorInvariant, RowInvariant, CheckpointsHeld
  <2>2. bill.kept_spent = 0
    BY <1>3, <1>4, <2>1 DEF RowHolds
  <2> QED BY <1>1, <1>2, <2>2
<1>5. CASE task.mapped # None
  <2> DEFINE d == task.mapped.docs
             s == task.mapped.spent
             two == Twice
  <2>1. d \in Nat /\ s \in Nat /\ d <= docs /\ d # docs
    BY <1>3, <1>5 DEF RowHolds, Holds, Usable, SameChunks, CoordinatorInvariant, RowInvariant,
      CheckpointsHeld, OfOne
  <2>2. bill.spent <= two * d + s /\ s <= two
    BY <1>2, <1>5 DEF RowSpends
  <2>3. two \in Nat /\ two * d \in Nat /\ two * (d + 1) = two * d + two
    BY <1>1, <2>1
  <2>4. two * docs \in Nat
    BY <1>1
  <2> HIDE DEF d, s, two
  <2>5. two * (d + 1) <= two * docs
    <3>1. d + 1 \in Int /\ docs \in Int /\ d + 1 <= docs
      BY <1>1, <2>1
    <3> QED BY <2>3, <3>1, ProductsAreOrdered
  <2>6. bill.spent <= two * docs
    BY <1>1, <2>1, <2>2, <2>3, <2>4, <2>5
  <2> QED BY <2>6 DEF two
<1> QED BY <1>4, <1>5

LEMMA MapSpendsOn ==
  ASSUME CoordinatorInvariant, MoneyInvariant, TypesInvariant, SpendingInvariant, MapMovesOn
  PROVE  SpendingInvariant'
<1>1. /\ run.pc \in MapPlaces /\ run'.pc \in MapPlaces /\ run.pc # "idle"
      /\ UNCHANGED <<request, docs>> /\ (task' = task \/ Writes("active")) /\ run'.docs = run.docs
  BY PlacesApart DEF MapMovesOn
<1>2. bill' = bill \/ (\E step : \E c \in Costs : Pays(step, c))
  BY DEF MapMovesOn, MapStays, MapCallPaid
<1>3. ASSUME request.max # None
      PROVE  RunSpends' /\ (bill' # bill => Within(bill'.spent, bill'.kept_spent, docs))
  <2> DEFINE m == request.max
             two == Twice
             s == run.spent
             d == run.docs
  <2>1. MapSpends /\ request.strategy # "auto"
    BY <1>1, <1>3 DEF SpendingInvariant, RunSpends
  <2>2. request.strategy = "map_reduce" /\ d \in Nat /\ d <= docs
    BY <1>1, <2>1 DEF MoneyInvariant, Chosen, RunHolds, Holds, CoordinatorInvariant, RunInvariant, RunMaps,
      OfOne
  <2>3. /\ m \in Nat /\ two \in Nat /\ two = m + m /\ docs \in Nat /\ bill.spent \in Nat
        /\ two * d \in Nat /\ two * docs \in Nat
    BY <1>3, <2>2, LimitsAreNumbers
  <2>4. /\ s \in Nat /\ s <= two /\ bill.spent <= two * d + s
        /\ run.pc \in MapCalls => s <= m
    BY <2>1 DEF MapSpends, MapCalls
  <2>5. Twice' = two
    BY <1>1 DEF Twice
  <2>6. CASE MapStays
    <3>1. run'.pc \in MapCalls => s <= m
      BY <1>3, <2>3, <2>4, <2>6 DEF MapStays, OverBudget
    <3>2. run'.spent = s /\ bill' = bill
      BY <2>6 DEF MapStays
    <3>3. MapSpends'
      BY <1>1, <2>4, <2>5, <3>1, <3>2 DEF MapSpends, MapCalls
    <3> QED BY <1>1, <2>1, <3>2, <3>3, MapsSpend
  <2>7. CASE MapCallPaid
    <3>1. PICK c \in Costs : Fits(c, m, 1) /\ run'.spent = s + c /\ \E step : Pays(step, c)
      BY <2>7 DEF MapCallPaid
    <3>2. /\ c \in Nat /\ c <= m /\ bill'.spent = bill.spent + c /\ bill'.spent \in Nat
          /\ bill'.kept_spent \in Nat
      BY <1>3, <2>3, <3>1, CallIsPaid
    <3>3. run.pc \in MapCalls /\ run'.pc \notin MapCalls
      BY <2>7 DEF MapCallPaid
    <3>4. two * d <= two * docs
      BY <2>2, <2>3, ProductsAreOrdered
    <3> HIDE DEF m, two, s, d
    <3>5. s + c \in Nat /\ s + c <= two /\ bill'.spent <= two * d + (s + c)
      BY <2>3, <2>4, <3>2, <3>3
    <3>6. bill'.spent <= two * docs + two
      BY <2>3, <3>2, <3>4, <3>5
    <3> USE DEF m, two, s, d
    <3>7. MapSpends'
      BY <1>1, <2>5, <3>1, <3>3, <3>5 DEF MapSpends, MapCalls
    <3>8. Within(bill'.spent, bill'.kept_spent, docs)
      BY <1>3, <2>2, <3>2, <3>6, KeepsWithin
    <3> QED BY <1>1, <2>1, <3>7, <3>8, MapsSpend
  <2> QED BY <2>6, <2>7 DEF MapMovesOn
<1> QED BY <1>1, <1>2, <1>3, SpendingGoesOn

LEMMA MapReduceSpends ==
  ASSUME CoordinatorInvariant, MoneyInvariant, TypesInvariant, SpendingInvariant, MapReduceNext
  PROVE  SpendingInvariant'
<1>1. CASE EndsAs("cancelled") \/ \E code : Fails(code)
  BY <1>1, EndsAsSpends, FailsSpends
<1>2. CASE ResumeChunks
  <2>1. /\ run.pc = "map_plan" /\ task.mapped # None /\ run' = [task.mapped EXCEPT !.docs = docs]
        /\ task.mapped.docs = docs /\ UNCHANGED <<request, docs, bill>> /\ Writes("active")
    BY <1>2 DEF ResumeChunks, Usable, SameChunks, Resumed, GoesOn
  <2>2. DOMAIN task.mapped = MapFields /\ task.mapped.pc \in {"map", "merge"}
    BY <2>1 DEF CoordinatorInvariant, RowInvariant, CheckpointsHeld
  <2>3. run'.pc \in {"map", "merge"} /\ run'.spent = task.mapped.spent /\ run'.docs = task.mapped.docs
    BY <2>1, <2>2 DEF MapFields
  <2>4. ASSUME request.max # None PROVE RunSpends'
    <3>1. bill.spent = bill.kept_spent /\ request.strategy # "auto" /\ RowSpends
      BY <2>1, <2>4 DEF SpendingInvariant, RunSpends
    <3>2. task.mapped.spent \in Nat
      BY <2>1, <3>1 DEF MoneyInvariant, RowHolds, Holds
    <3>3. MapSpends'
      BY <2>1, <2>3, <3>1, <3>2 DEF MapSpends, RowSpends, Twice
    <3> QED BY <2>1, <2>3, <3>1, <3>3, MapsSpend DEF MapPlaces
  <2> QED BY <2>1, <2>4, SpendingGoesOn
<1>3. CASE SplitDocuments /\ \A code : ~Fails(code)
  <2>1. /\ run.pc = "map_plan" /\ ~Usable /\ UNCHANGED <<request, docs, bill>>
        /\ (task' = task \/ Writes("active"))
    BY <1>3 DEF SplitDocuments, GoesOn
  <2>2. ASSUME request.max # None
        PROVE  /\ bill.spent <= Twice * docs /\ bill.spent = bill.kept_spent
               /\ request.strategy # "auto" /\ request.strategy # "agent"
    <3>1. bill.spent = bill.kept_spent /\ request.strategy # "auto"
      BY <2>1, <2>2 DEF SpendingInvariant, RunSpends
    <3>2. request.strategy = "map_reduce"
      BY <2>1, <3>1 DEF MoneyInvariant, Chosen
    <3> QED BY <2>1, <2>2, <3>1, <3>2, OlderChunksArePaid
  <2>3. CASE run' = Mapping("map")
    <3>1. run'.pc = "map" /\ run'.docs = docs /\ run'.spent = 0
      BY <2>3 DEF Mapping
    <3>2. ASSUME request.max # None PROVE RunSpends'
      <4>1. Twice \in Nat /\ Twice * docs \in Nat /\ bill.spent \in Nat /\ request.max \in Nat
        BY <3>2, LimitsAreNumbers
      <4>2. bill.spent <= Twice * docs + 0
        BY <2>2, <3>2, <4>1
      <4>3. MapSpends'
        BY <2>1, <3>1, <4>1, <4>2 DEF MapSpends, Twice
      <4> QED BY <2>1, <2>2, <3>1, <3>2, <4>3, MapsSpend DEF MapPlaces
    <3> QED BY <2>1, <3>2, SpendingGoesOn
  <2>4. CASE run' = [pc |-> "single", escalates |-> FALSE]
    <3>1. run'.pc = "single" /\ run'.pc \notin SinglePlaces \cup MapPlaces \cup TalkPlaces \cup MixturePlaces
      BY <2>4, PlacesApart
    <3>2. request.max # None => RunSpends'
      BY <2>1, <2>2, <3>1 DEF RunSpends, Twice
    <3> QED BY <2>1, <3>2, SpendingGoesOn
  <2> QED BY <1>3, <2>3, <2>4 DEF SplitDocuments, GoesOn
<1>4. CASE SaveSynthesis
  BY <1>4, CompletesSingleSpends DEF SaveSynthesis
<1>5. CASE run.pc \in MapPlaces /\ \E phase \in {"map", "merge"} : Yields("mapped", KeptIn(phase))
  <2>1. PICK phase \in {"map", "merge"} : Yields("mapped", KeptIn(phase))
    BY <1>5
  <2> DEFINE state == KeptIn(phase)
  <2>2. state.docs = run.docs /\ state.spent = run.spent
    BY <1>5, FieldsOf DEF KeptIn, MapFields, CoordinatorInvariant, RunInvariant
  <2>3. Yields("mapped", state)
    BY <2>1
  <2> HIDE DEF state
  <2>4. request.max # None =>
          /\ request.strategy # "auto" /\ state.spent <= Twice
          /\ bill.spent <= Twice * state.docs + state.spent
    BY <1>5, <2>2 DEF SpendingInvariant, RunSpends, MapSpends
  <2> QED BY <2>3, <2>4, SpendingPauses DEF Yields
<1>6. CASE MapMovesOn
  BY <1>6, MapSpendsOn
<1> QED BY <1>1, <1>2, <1>3, <1>4, <1>5, <1>6, MapsMove

----------------------------------------------------------------------------
(* The limit of a conversation and of a single answer.                     *)

LEMMA TalksSpend ==
  ASSUME run'.pc \in TalkPlaces, TalkSpends'
  PROVE  RunSpends'
<1>1. run'.pc \notin {"single", "agent", "map_plan", "mixture"}
                   \cup SinglePlaces \cup MapPlaces \cup MixturePlaces
  BY PlacesApart
<1>2. run'.pc # "deliver"
  BY <1>1 DEF MixturePlaces, Synthesized
<1> QED BY <1>1, <1>2 DEF RunSpends

LEMMA TalkSpendsOn ==
  ASSUME CoordinatorInvariant, MoneyInvariant, TypesInvariant, SpendingInvariant, TalkMovesOn
  PROVE  SpendingInvariant'
<1>1. /\ run.pc \in TalkPlaces /\ run'.pc \in TalkPlaces /\ run.pc # "idle"
      /\ UNCHANGED <<request, docs>> /\ (task' = task \/ Writes("active"))
  BY PlacesApart DEF TalkMovesOn
<1>2. bill' = bill \/ (\E step : \E c \in Costs : Pays(step, c))
  BY DEF TalkMovesOn, TalkStays, TalkCallPaid
<1>3. ASSUME request.max # None
      PROVE  RunSpends' /\ (bill' # bill => Within(bill'.spent, bill'.kept_spent, docs))
  <2> DEFINE m == request.max
             s == run.spent
             top == MaxOf(Costs)
  <2>1. TalkSpends
    BY <1>1, <1>3 DEF SpendingInvariant, RunSpends
  <2>2. request.strategy \in {"agent", "auto"}
    BY <1>1 DEF MoneyInvariant, Chosen
  <2>3. m \in Nat /\ top \in Nat /\ bill.spent \in Nat /\ bill.kept_spent \in Nat
    BY <1>3, LimitsAreNumbers, CostsHaveMost
  <2>4. /\ s \in Nat /\ bill.spent = bill.kept_spent + s /\ s <= m + top
        /\ run.pc \in TalkWithin => s <= m
    BY <2>1, <2>3 DEF TalkSpends, TalkWithin
  <2>5. ASSUME /\ run'.spent \in Nat /\ bill'.spent = bill'.kept_spent + run'.spent
               /\ run'.spent <= m + top /\ (run'.pc \in TalkWithin => run'.spent <= m)
        PROVE  TalkSpends'
    BY <1>1, <2>3, <2>5 DEF TalkSpends, TalkWithin
  <2>6. CASE TalkStays
    <3>1. run'.spent = s /\ bill' = bill
      BY <2>6 DEF TalkStays
    <3>2. run'.pc \in TalkWithin => s <= m
      BY <1>3, <2>3, <2>4, <2>6 DEF TalkStays, NothingLeft
    <3>3. TalkSpends'
      BY <2>4, <2>5, <3>1, <3>2
    <3> QED BY <1>1, <3>1, <3>3, TalksSpend
  <2>7. CASE TalkCallPaid
    <3>1. PICK c \in Costs : run'.spent = s + c /\ \E step : Pays(step, c)
      BY <2>7 DEF TalkCallPaid
    <3>2. /\ c \in Nat /\ c <= top /\ bill'.spent = bill.spent + c
          /\ bill'.kept_spent = bill.kept_spent /\ bill'.spent \in Nat
      BY <3>1, CallIsPaid
    <3>3. s <= m /\ run'.pc \notin TalkWithin
      BY <2>4, <2>7 DEF TalkCallPaid
    <3> HIDE DEF m, s, top
    <3>4. /\ s + c \in Nat /\ s + c <= m + top
          /\ bill'.spent = bill.kept_spent + (s + c)
      BY <2>3, <2>4, <3>2, <3>3
    <3>5. bill'.spent <= bill.kept_spent + (m + top)
      BY <2>3, <3>4
    <3> USE DEF m, s, top
    <3>6. TalkSpends'
      BY <2>5, <3>1, <3>2, <3>3, <3>4
    <3>7. Within(bill'.spent, bill'.kept_spent, docs)
      BY <1>3, <2>2, <2>3, <3>2, <3>5, KeepsWithin
    <3> QED BY <1>1, <3>6, <3>7, TalksSpend
  <2> QED BY <2>6, <2>7 DEF TalkMovesOn
<1> QED BY <1>1, <1>2, <1>3, SpendingGoesOn

LEMMA AgentSpends ==
  ASSUME CoordinatorInvariant, MoneyInvariant, TypesInvariant, SpendingInvariant, AgentNext
  PROVE  SpendingInvariant'
<1>1. CASE EndsAs("cancelled") \/ \E code : Fails(code)
  BY <1>1, EndsAsSpends, FailsSpends
<1>2. CASE SelectAgent /\ \A code : ~Fails(code)
  <2>1. /\ run.pc = "agent" /\ run' = Talk(task.agent) /\ Writes("active")
        /\ UNCHANGED <<request, docs, bill>>
    BY <1>2 DEF SelectAgent, GoesOn
  <2>2. run'.pc = "turn" /\ run'.spent = 0
    BY <2>1 DEF Talk
  <2>3. ASSUME request.max # None PROVE RunSpends'
    <3>1. bill.spent = bill.kept_spent
      BY <2>1, <2>3 DEF SpendingInvariant, RunSpends
    <3>2. request.max \in Nat /\ bill.spent \in Nat /\ bill.kept_spent \in Nat
      BY <2>3, LimitsAreNumbers
    <3>3. TalkSpends'
      BY <2>1, <2>2, <3>1, <3>2 DEF TalkSpends
    <3> QED BY <2>2, <3>3, TalksSpend DEF TalkPlaces
  <2> QED BY <2>1, <2>3, SpendingGoesOn
<1>3. CASE SaveAnswer
  <2> DEFINE result == [of |-> "agent", cost |-> run.prior + run.spent]
  <2>1. /\ task' = [task EXCEPT !.status = "completed", !.result = result]
        /\ run' = Idle /\ UNCHANGED <<request, docs, bill, left>>
    BY <1>3 DEF SaveAnswer
  <2> HIDE DEF result
  <2> QED BY <2>1, CompletesSpends
<1>4. CASE PauseForClient \/ YieldAfterTurn
  <2>1. run.pc \in TalkPlaces
    BY <1>4 DEF PauseForClient, YieldAfterTurn, TalkPlaces
  <2>2. request.max # None => task.mapped = None
    BY <2>1 DEF MoneyInvariant, Chosen, SpendingInvariant, RowSpends
  <2>3. CASE PauseForClient
    BY <2>2, <2>3, SpendingPauses DEF PauseForClient
  <2>4. CASE YieldAfterTurn
    BY <2>2, <2>4, SpendingPauses DEF YieldAfterTurn, Yields
  <2> QED BY <1>4, <2>3, <2>4
<1>5. CASE TalkMovesOn
  BY <1>5, TalkSpendsOn
<1> QED BY <1>1, <1>2, <1>3, <1>4, <1>5, TalksMove

LEMMA SinglesSpend ==
  ASSUME run'.pc \in SinglePlaces, SingleSpends', request'.strategy # "agent"
  PROVE  RunSpends'
<1>1. run'.pc \notin {"single", "agent", "map_plan", "mixture"}
                   \cup TalkPlaces \cup MapPlaces \cup MixturePlaces
  BY PlacesApart
<1>2. run'.pc # "deliver"
  BY <1>1 DEF MixturePlaces, Synthesized
<1> QED BY <1>1, <1>2 DEF RunSpends

\* A step of a single answer that pays nothing.
LEMMA SingleSpendsNothing ==
  ASSUME CoordinatorInvariant, MoneyInvariant, TypesInvariant, SpendingInvariant,
         UNCHANGED <<request, docs, bill>>, task' = task \/ Writes("active"),
         run.pc \in SinglePlaces, run'.pc \in SinglePlaces, run'.spent = run.spent,
         run'.pc # "single_call", run'.pc \in {"single_done", "rate_call"} => run.pc = "single_done"
  PROVE  SpendingInvariant'
<1>1. run.pc # "idle"
  BY PlacesApart
<1>2. ASSUME request.max # None PROVE RunSpends'
  <2>1. SingleSpends /\ request.strategy # "agent"
    BY <1>2 DEF SpendingInvariant, RunSpends
  <2>2. SingleSpends'
    BY <2>1 DEF SingleSpends, Twice
  <2> QED BY <2>1, <2>2, SinglesSpend
<1> QED BY <1>1, <1>2, SpendingGoesOn

\* The answer, and the mark that a judge gives it, cost no more than the limit each.
LEMMA SingleCallsSpend ==
  ASSUME CoordinatorInvariant, MoneyInvariant, TypesInvariant, SpendingInvariant, SingleAnswered \/ Rated
  PROVE  SpendingInvariant'
<1>1. /\ run.pc \in {"single_call", "rate_call"} /\ run.pc \in SinglePlaces /\ run.pc # "idle"
      /\ UNCHANGED <<request, docs, task>>
  BY DEF SingleAnswered, Rated, GoesOn, SinglePlaces
<1>2. DOMAIN run = {"pc", "escalates", "spent"}
  BY <1>1, FieldsOf DEF CoordinatorInvariant, RunInvariant
<1>3. PICK c \in Costs : /\ Fits(c, request.max, 1) /\ \E step : Pays(step, c)
                         /\ \/ /\ run.pc = "single_call"
                               /\ run' = [run EXCEPT !.pc = "single_done", !.spent = c]
                            \/ /\ run.pc = "rate_call"
                               /\ \E next \in {"single_save", "escalate"} :
                                    run' = [run EXCEPT !.pc = next, !.spent = run.spent + c]
  <2>1. CASE SingleAnswered
    BY <2>1, Zenon DEF SingleAnswered, GoesOn
  <2>2. CASE Rated
    BY <2>2, Zenon DEF Rated, GoesOn
  <2> QED BY <2>1, <2>2
<1>4. \/ run.pc = "single_call" /\ run'.pc = "single_done" /\ run'.spent = c
      \/ run.pc = "rate_call" /\ run'.pc \in {"single_save", "escalate"} /\ run'.spent = run.spent + c
  BY <1>2, <1>3
<1>5. run'.pc \in SinglePlaces
  BY <1>4 DEF SinglePlaces
<1>6. ASSUME request.max # None
      PROVE  RunSpends' /\ Within(bill'.spent, bill'.kept_spent, docs)
  <2> DEFINE m == request.max
             s == run.spent
             two == Twice
             b == two * docs
  <2>1. SingleSpends /\ request.strategy # "agent"
    BY <1>1, <1>6 DEF SpendingInvariant, RunSpends
  <2>2. /\ m \in Nat /\ two \in Nat /\ two = m + m /\ b \in Nat
        /\ bill.spent \in Nat /\ bill.kept_spent \in Nat
    BY <1>6, LimitsAreNumbers
  <2>3. /\ c \in Nat /\ c <= m /\ bill'.spent = bill.spent + c /\ bill'.kept_spent = bill.kept_spent
        /\ bill'.spent \in Nat
    BY <1>3, <1>6, <2>2, CallIsPaid
  <2>4. /\ s \in Nat /\ (run.pc = "single_call" => s = 0) /\ (run.pc = "rate_call" => s <= m)
        /\ request.strategy = "auto" => bill.spent = bill.kept_spent + s
        /\ request.strategy # "auto" => bill.spent <= b + s
    BY <2>1 DEF SingleSpends
  <2>5. run'.spent = s + c /\ s <= m /\ (run'.pc = "single_done" => s + c <= m)
    BY <1>4, <2>2, <2>3, <2>4
  <2> HIDE DEF m, s, two, b
  <2>6. /\ s + c \in Nat /\ s + c <= two
        /\ request.strategy = "auto" => bill'.spent = bill.kept_spent + (s + c)
        /\ request.strategy # "auto" => bill'.spent <= b + (s + c)
    BY <2>2, <2>3, <2>4, <2>5
  <2>7. /\ request.strategy = "auto" => bill'.spent <= bill.kept_spent + two
        /\ request.strategy # "auto" => bill'.spent <= b + two
    BY <2>2, <2>3, <2>6
  <2> USE DEF m, s, two, b
  <2>8. Twice' = two /\ run'.pc \notin {"single_call", "rate_call"} /\ request' = request /\ docs' = docs
    BY <1>1, <1>4 DEF Twice
  <2>9. SingleSpends'
    BY <2>3, <2>5, <2>6, <2>8 DEF SingleSpends
  <2>10. Within(bill'.spent, bill'.kept_spent, docs)
    BY <1>6, <2>1, <2>2, <2>3, <2>7, KeepsWithin
  <2> QED BY <1>5, <2>1, <2>8, <2>9, <2>10, SinglesSpend
<1>7. \E step : \E cost \in Costs : Pays(step, cost)
  BY <1>3
<1> QED BY <1>1, <1>6, <1>7, SpendingGoesOn

LEMMA MixtureSpendsAhead ==
  ASSUME run'.pc = "mixture",
         /\ run'.max \in Nat /\ run'.max <= request'.max
         /\ request'.strategy # "auto" => run'.max = request'.max
         /\ task'.mixture = None => bill'.spent + run'.max = KeptBefore' + request'.max
  PROVE  RunSpends'
<1>1. run'.pc \notin {"single", "agent", "map_plan", "deliver"} \cup SinglePlaces
                   \cup TalkPlaces \cup MapPlaces \cup MixturePlaces
  BY PlacesApart
<1> QED BY <1>1 DEF RunSpends

LEMMA SingleSpendsOn ==
  ASSUME CoordinatorInvariant, MoneyInvariant, TypesInvariant, SpendingInvariant, SingleNext
  PROVE  SpendingInvariant'
<1>1. /\ run.pc # "idle" /\ run.pc \in SinglePlaces \cup {"single"}
  BY DEF SingleNext, SelectSingle, SingleAnswered, SingleFailed, SingleKept, SaveSingle, Rated,
    RatingFailed, Escalate, CompletesSingle, SinglePlaces
<1>2. run.pc \in SinglePlaces => DOMAIN run = {"pc", "escalates", "spent"}
  BY FieldsOf DEF CoordinatorInvariant, RunInvariant
<1>3. CASE EndsAs("cancelled") \/ \E code : Fails(code)
  BY <1>3, EndsAsSpends, FailsSpends
<1>4. CASE SaveSingle
  BY <1>4, CompletesSingleSpends DEF SaveSingle
<1>5. CASE SingleAnswered \/ Rated
  BY <1>5, SingleCallsSpend
<1>6. CASE SelectSingle /\ \A code : ~Fails(code)
  <2>1. /\ run.pc = "single" /\ UNCHANGED <<request, docs, bill>> /\ Writes("active")
        /\ run' = [pc |-> "single_call", escalates |-> run.escalates, spent |-> 0]
    BY <1>6 DEF SelectSingle, GoesOn
  <2>2. run'.pc = "single_call" /\ run'.spent = 0
    BY <2>1
  <2>3. ASSUME request.max # None PROVE RunSpends'
    <3>1. /\ bill.spent = bill.kept_spent /\ request.strategy # "agent"
          /\ request.strategy # "auto" => bill.spent <= Twice * docs
      BY <2>1, <2>3 DEF SpendingInvariant, RunSpends
    <3>2. /\ Twice \in Nat /\ Twice * docs \in Nat /\ bill.spent \in Nat /\ bill.kept_spent \in Nat
          /\ request.max \in Nat
      BY <2>3, LimitsAreNumbers
    <3>3. /\ request.strategy = "auto" => bill.spent = bill.kept_spent + 0
          /\ request.strategy # "auto" => bill.spent <= Twice * docs + 0
      BY <3>1, <3>2
    <3>4. Twice' = Twice
      BY <2>1 DEF Twice
    <3>5. SingleSpends'
      BY <2>1, <2>2, <3>2, <3>3, <3>4 DEF SingleSpends
    <3> QED BY <2>1, <2>2, <3>1, <3>5, SinglesSpend DEF SinglePlaces
  <2> QED BY <2>1, <2>3, SpendingGoesOn
<1>7. CASE (SingleKept \/ RatingFailed) /\ ~EndsAs("cancelled")
  <2>1. PICK pc \in {"rate_call", "single_save"} :
          /\ run' = [run EXCEPT !.pc = pc] /\ UNCHANGED <<request, docs, task, bill>>
          /\ run.pc \in {"single_done", "rate_call"} /\ (pc = "rate_call" => run.pc = "single_done")
    BY <1>7 DEF SingleKept, RatingFailed, GoesOn
  <2>2. run.pc \in SinglePlaces
    BY <2>1 DEF SinglePlaces
  <2>3. run'.pc = pc /\ run'.spent = run.spent
    BY <1>2, <2>1, <2>2
  <2> QED BY <2>1, <2>2, <2>3, SingleSpendsNothing DEF SinglePlaces
<1>8. CASE Escalate /\ \A code : ~Fails(code)
  <2>1. /\ run' = ToMixture(Remaining(run.spent, request.max), "fast", "sequential")
        /\ UNCHANGED <<request, docs, task, bill>>
        /\ run.pc = "escalate" /\ ~NothingLeft(run.spent, request.max)
    BY <1>8 DEF Escalate, GoesOn
  <2>2. run'.pc = "mixture" /\ run'.max = Remaining(run.spent, request.max)
    BY <2>1 DEF ToMixture
  <2>3. ASSUME request.max # None PROVE RunSpends'
    <3>1. request.strategy = "auto"
      BY <2>1 DEF MoneyInvariant, Chosen, SinglePlaces
    <3>2. run.spent \in Nat /\ bill.spent = bill.kept_spent + run.spent
      BY <2>1, <2>3, <3>1 DEF SpendingInvariant, RunSpends, SingleSpends, SinglePlaces
    <3>3. request.max \in Nat /\ bill.spent \in Nat /\ bill.kept_spent \in Nat
      BY <2>3, LimitsAreNumbers
    <3>4. /\ run'.max \in Nat /\ run'.max <= request.max /\ run'.max + run.spent = request.max
      BY <2>1, <2>2, <2>3, <3>2, <3>3 DEF Remaining, NothingLeft
    <3>5. bill.spent + run'.max = bill.kept_spent + request.max
      BY <3>2, <3>3, <3>4
    <3> QED BY <2>1, <2>2, <3>1, <3>4, <3>5, MixtureSpendsAhead DEF KeptBefore
  <2> QED BY <1>1, <2>1, <2>3, SpendingGoesOn
<1> QED BY <1>3, <1>4, <1>5, <1>6, <1>7, <1>8 DEF SingleNext, SingleFailed

----------------------------------------------------------------------------
(* The limit of a mixture.                                                 *)

LEMMA MixturesSpend ==
  ASSUME run'.pc \in MixturePlaces,
         run'.pc # "deliver" => MixtureSpends(run)',
         run'.pc = "deliver" => bill'.spent <= KeptBefore' + Twice'
  PROVE  RunSpends'
<1>1. run'.pc \notin {"single", "agent", "map_plan", "mixture"}
                   \cup SinglePlaces \cup TalkPlaces \cup MapPlaces
  BY PlacesApart
<1> QED BY <1>1 DEF RunSpends

\* What a mixture that has not come to its end has spent.
LEMMA MixtureSpent ==
  ASSUME CoordinatorInvariant, MoneyInvariant, SpendingInvariant, request.max # None,
         run.pc \in MixturePlaces \ {"deliver"}
  PROVE  /\ MixtureSpends(run) /\ Counts(run) /\ DOMAIN run = MixtureFields /\ run.round \in {1, 2}
         /\ run.max \in Nat /\ run.max # None /\ run.max <= request.max
         /\ Outputs(run) \in Nat /\ Outputs(run) <= 2 * run.max
         /\ run.pc # "second" => Outputs(run) <= run.max
         /\ bill.spent + run.max = KeptBefore + request.max + Outputs(run)
         /\ request.strategy \in {"mixture", "auto"}
<1>1. MixtureSpends(run)
  BY DEF SpendingInvariant, RunSpends
<1>2. run.max \in Nat /\ run.max # None /\ Outputs(run) \in Nat
  BY <1>1, LimitsAssumption DEF MixtureSpends, Counts, Outputs
<1>3. Outputs(run) <= 2 * run.max /\ (run.pc # "second" => Outputs(run) <= run.max)
  BY <1>1, <1>2 DEF MixtureSpends
<1>4. request.strategy \in {"mixture", "auto"}
  BY DEF MoneyInvariant, Chosen
<1> QED BY <1>1, <1>2, <1>3, <1>4, MixtureCounted DEF MixtureSpends

\* However it goes on, it answers for no more than twice the limit.
LEMMA MixtureIsWithin ==
  ASSUME CoordinatorInvariant, MoneyInvariant, SpendingInvariant, request.max # None,
         run.pc \in MixturePlaces \ {"deliver"}, NEW c \in Nat, Outputs(run) + c <= 2 * run.max,
         bill'.spent = bill.spent + c, bill'.kept_spent = bill.kept_spent
  PROVE  /\ bill'.spent <= KeptBefore + Twice /\ Within(bill'.spent, bill'.kept_spent, docs)
         /\ bill'.spent + run.max = KeptBefore + request.max + (Outputs(run) + c)
<1> DEFINE m == request.max
           x == run.max
           o == Outputs(run)
           two == Twice
           b == KeptBefore
<1>1. /\ x \in Nat /\ x <= m /\ o \in Nat /\ bill.spent + x = b + m + o
      /\ request.strategy \in {"mixture", "auto"}
  BY MixtureSpent
<1>2. /\ m \in Nat /\ two \in Nat /\ two = m + m /\ bill.spent \in Nat /\ bill.kept_spent \in Nat
      /\ b \in {0, bill.kept_spent} /\ two * docs \in Nat
  BY LimitsAreNumbers
<1>3. o + c <= 2 * x
  OBVIOUS
<1>4. request.strategy # "auto" => b = 0
  BY DEF KeptBefore
<1> HIDE DEF m, x, o, two, b
<1>5. b \in Nat /\ b <= bill.kept_spent
  BY <1>2
<1>6. bill'.spent + x = b + m + (o + c)
  BY <1>1, <1>2, <1>5
<1>7. bill'.spent <= b + two /\ bill'.spent \in Nat /\ bill'.kept_spent \in Nat
  BY <1>1, <1>2, <1>3, <1>5, <1>6
<1>8. bill'.spent <= bill'.kept_spent + two /\ (request.strategy # "auto" => bill'.spent <= two * docs + two)
  BY <1>2, <1>4, <1>5, <1>7
<1> USE DEF m, x, o, two, b
<1>9. Within(bill'.spent, bill'.kept_spent, docs)
  BY <1>1, <1>7, <1>8, KeepsWithin
<1> QED BY <1>6, <1>7, <1>9

\* The bill of a step that pays a call, or nothing.
PaysOnly(c) == (bill' = bill /\ c = 0) \/ (c \in Costs /\ \E step : Pays(step, c))

LEMMA OnlyPaid ==
  ASSUME MoneyInvariant, NEW c, PaysOnly(c)
  PROVE  /\ c \in Nat /\ bill'.spent = bill.spent + c /\ bill'.kept_spent = bill.kept_spent
         /\ bill' = bill \/ (\E step : \E cost \in Costs : Pays(step, cost))
<1>1. bill.spent \in Nat
  BY DEF MoneyInvariant
<1>2. CASE bill' = bill /\ c = 0
  BY <1>1, <1>2
<1>3. CASE c \in Costs /\ \E step : Pays(step, c)
  BY <1>3, CallIsPaid
<1> QED BY <1>2, <1>3 DEF PaysOnly

LEMMA MixtureSpendsOn ==
  ASSUME CoordinatorInvariant, MoneyInvariant, TypesInvariant, SpendingInvariant,
         UNCHANGED <<request, docs>>, task' = task \/ Writes("active"),
         run.pc \in MixturePlaces \ {"deliver"}, run'.pc \in MixturePlaces \ {"deliver"},
         NEW c, PaysOnly(c),
         request.max # None =>
           /\ run'.max = run.max /\ Counts(run') /\ Outputs(run') = Outputs(run) + c
           /\ Outputs(run') <= (IF run'.pc = "second" THEN 2 * run.max ELSE run.max)
           /\ run'.pc = "wave_call" => WaveSpends(run', run'.plan[run'.wave])
  PROVE  SpendingInvariant'
<1>1. run.pc # "idle"
  BY PlacesApart
<1>2. /\ c \in Nat /\ bill'.spent = bill.spent + c /\ bill'.kept_spent = bill.kept_spent
      /\ bill' = bill \/ (\E step : \E cost \in Costs : Pays(step, cost))
  BY OnlyPaid
<1>3. ASSUME request.max # None
      PROVE  RunSpends' /\ Within(bill'.spent, bill'.kept_spent, docs)
  <2>0. run.max \in Nat /\ Outputs(run) \in Nat
    BY <1>3, MixtureSpent
  <2>1. Outputs(run') <= 2 * run.max
    BY <1>2, <1>3, <2>0
  <2>2. /\ Within(bill'.spent, bill'.kept_spent, docs)
        /\ bill'.spent + run.max = KeptBefore + request.max + Outputs(run')
    BY <1>2, <1>3, <2>1, MixtureIsWithin
  <2>3. KeptBefore' = KeptBefore
    BY <1>2 DEF KeptBefore
  <2>4. run.max <= request.max /\ (request.strategy # "auto" => run.max = request.max)
    BY <1>3, MixtureSpent DEF MixtureSpends
  <2>5. MixtureSpends(run)'
    BY <1>3, <2>0, <2>2, <2>3, <2>4 DEF MixtureSpends, Counts, Outputs, WaveSpends
  <2> QED BY <2>2, <2>5, MixturesSpend
<1> QED BY <1>1, <1>2, <1>3, SpendingGoesOn

LEMMA MixtureDelivers ==
  ASSUME CoordinatorInvariant, MoneyInvariant, TypesInvariant, SpendingInvariant,
         UNCHANGED <<request, docs, task>>,
         run.pc \in MixturePlaces \ {"deliver"}, run'.pc = "deliver", NEW c, PaysOnly(c),
         request.max # None => Outputs(run) + c <= 2 * run.max
  PROVE  SpendingInvariant'
<1>1. run.pc # "idle" /\ run'.pc \in MixturePlaces
  BY PlacesApart DEF MixturePlaces, Synthesized
<1>2. /\ c \in Nat /\ bill'.spent = bill.spent + c /\ bill'.kept_spent = bill.kept_spent
      /\ bill' = bill \/ (\E step : \E cost \in Costs : Pays(step, cost))
  BY OnlyPaid
<1>3. ASSUME request.max # None
      PROVE  RunSpends' /\ Within(bill'.spent, bill'.kept_spent, docs)
  <2>1. bill'.spent <= KeptBefore + Twice /\ Within(bill'.spent, bill'.kept_spent, docs)
    BY <1>2, <1>3, MixtureIsWithin
  <2>2. KeptBefore' = KeptBefore /\ Twice' = Twice
    BY <1>2 DEF KeptBefore, Twice
  <2> QED BY <1>1, <2>1, <2>2, MixturesSpend
<1> QED BY <1>1, <1>2, <1>3, SpendingGoesOn

\* A step that pays nothing and forgets nothing.
LEMMA MixtureSpendsNothing ==
  ASSUME CoordinatorInvariant, MoneyInvariant, TypesInvariant, SpendingInvariant,
         UNCHANGED <<request, docs, bill>>, task' = task \/ Writes("active"), SameCounts,
         run'.max = run.max,
         \/ run.pc \in Unsynthesized /\ run'.pc \in Unsynthesized \ {"wave_call"}
         \/ /\ run.pc \in Answered2 \ {"deliver", "second"}
            /\ run'.pc \in Answered2 \ {"deliver", "synth_done"}
            /\ run.pc # "synth_done" \/ ~run.degraded
  PROVE  SpendingInvariant'
<1>1. /\ run.pc \in MixturePlaces \ {"deliver"} /\ run'.pc \in MixturePlaces \ {"deliver"}
      /\ run.pc # "second" /\ run'.pc # "wave_call"
  BY DEF Unsynthesized, Answered2, MixturePlaces, Synthesized
<1>2. ASSUME request.max # None
      PROVE  /\ Counts(run') /\ Outputs(run') = Outputs(run) + 0
             /\ Outputs(run') <= (IF run'.pc = "second" THEN 2 * run.max ELSE run.max)
  <2>1. Counts(run) /\ run.max \in Nat /\ Outputs(run) \in Nat /\ Outputs(run) <= run.max
    BY <1>1, <1>2, MixtureSpent
  <2>2. Outputs(run') = Outputs(run)
    BY DEF Outputs, SameCounts
  <2>3. Counts(run')
    BY <2>1 DEF Counts, SameCounts, Unsynthesized, Answered2, Synthesized
  <2> QED BY <2>1, <2>2, <2>3
<1>3. PaysOnly(0)
  BY DEF PaysOnly
<1> QED BY <1>1, <1>2, <1>3, MixtureSpendsOn

LEMMA StumblesSpends ==
  ASSUME CoordinatorInvariant, MoneyInvariant, TypesInvariant, SpendingInvariant,
         run.pc \in MixturePlaces \ {"deliver"},
         \/ \E code : Stumbles(code)
         \/ GoesOn(FirstRound) /\ UNCHANGED <<task, bill>>
         \/ GoesOn([run EXCEPT !.pc = "deliver"]) /\ UNCHANGED <<task, bill>>
  PROVE  SpendingInvariant'
<1>1. CASE \E code : Fails(code)
  BY <1>1, FailsSpends
<1>2. CASE /\ GoesOn(FirstRound) \/ GoesOn([run EXCEPT !.pc = "deliver"])
           /\ UNCHANGED <<task, bill>>
  <2>1. DOMAIN run = MixtureFields
    BY MixtureCounted
  <2>2. run'.pc = "deliver" /\ UNCHANGED <<request, docs, task>>
    BY <1>2, <2>1 DEF GoesOn, FirstRound, MixtureFields
  <2>3. PaysOnly(0)
    BY <1>2 DEF PaysOnly
  <2>4. request.max # None => Outputs(run) + 0 <= 2 * run.max
    BY MixtureSpent
  <2> QED BY <2>2, <2>3, <2>4, MixtureDelivers
<1> QED BY <1>1, <1>2 DEF Stumbles

LEMMA MixtureBegunSpends ==
  ASSUME CoordinatorInvariant, MoneyInvariant, TypesInvariant, SpendingInvariant,
         ResumeMixture \/ PlanMixture
  PROVE  SpendingInvariant'
<1>1. run.pc = "mixture" /\ run.pc # "idle" /\ Checkpoint = task.mixture
  BY DEF ResumeMixture, PlanMixture, Checkpoint
<1>2. request.strategy # "auto" => bill.spent = bill.kept_spent /\ request.strategy = "mixture" /\ RowHolds
  BY <1>1 DEF MoneyInvariant, RunHolds, Chosen
<1>3. CASE ResumeMixture
  <2>1. /\ task.mixture # None /\ run' = task.mixture /\ Writes("active")
        /\ UNCHANGED <<request, docs, bill>>
    BY <1>1, <1>3 DEF ResumeMixture, GoesOn
  <2>2. /\ run'.pc \in {"wave", "gate"} /\ run'.pc \in MixturePlaces /\ run'.pc # "deliver"
        /\ request.strategy = "mixture"
    BY <2>1 DEF CoordinatorInvariant, RowInvariant, CheckpointsHeld, MixturePlaces, Synthesized
  <2>3. ASSUME request.max # None PROVE RunSpends'
    <3>1. /\ run'.max = request.max /\ Outputs(run') <= request.max
          /\ Counts(run') /\ Outputs(run') = bill.spent
      BY <1>2, <2>1, <2>2, <2>3 DEF SpendingInvariant, RowSpends, RowHolds
    <3>2. request.max \in Nat /\ bill.spent \in Nat
      BY <2>3, LimitsAreNumbers
    <3>3. KeptBefore' = 0
      BY <2>1, <2>2 DEF KeptBefore
    <3>4. /\ bill'.spent + run'.max = KeptBefore' + request'.max + Outputs(run')
          /\ Outputs(run') <= run'.max /\ run'.max = request'.max /\ run'.max \in Nat
          /\ run'.pc # "second" /\ run'.pc # "wave_call"
      BY <2>1, <2>2, <3>1, <3>2, <3>3
    <3>5. MixtureSpends(run)'
      BY <3>1, <3>4 DEF MixtureSpends, Counts, Outputs
    <3> QED BY <2>2, <3>5, MixturesSpend
  <2> QED BY <1>1, <2>1, <2>3, SpendingGoesOn
<1>4. CASE PlanMixture
  <2>1. CASE \E code : Fails(code)
    BY <2>1, FailsSpends
  <2>2. CASE \E plan, known : Writes("active") /\ GoesOn(Mixture(plan, known)) /\ UNCHANGED bill
    <3>1. PICK plan, known : Writes("active") /\ GoesOn(Mixture(plan, known)) /\ UNCHANGED bill
      BY <2>2, Zenon
    <3>2. NoRound.cost = 0 /\ NoRound.synth = 0
      BY DEF NoRound
    <3>3. /\ run'.pc = "wave" /\ run'.round = 1 /\ run'.cost = 0 /\ run'.synth = 0 /\ run'.extra = 0
          /\ run'.first = NoRound /\ run'.degraded = FALSE /\ run'.abandoned = FALSE
          /\ run'.max = run.max /\ UNCHANGED <<request, docs, bill>>
      BY <3>1 DEF GoesOn, Mixture
    <3>4. run'.pc \in MixturePlaces /\ run'.pc \notin Synthesized
      BY <3>3 DEF MixturePlaces, Synthesized
    <3>5. ASSUME request.max # None PROVE RunSpends'
      <4>1. task.mixture = None
        BY <1>1, <1>4 DEF PlanMixture
      <4>2. /\ run.max \in Nat /\ run.max <= request.max
            /\ request.strategy # "auto" => run.max = request.max
            /\ bill.spent + run.max = KeptBefore + request.max
        BY <1>1, <3>5, <4>1 DEF SpendingInvariant, RunSpends
      <4>3. Counts(run') /\ Outputs(run') = 0
        BY <3>2, <3>3, <3>4 DEF Counts, Outputs
      <4>4. KeptBefore + request.max \in Nat
        <5>1. /\ request.max \in Nat /\ bill.kept_spent \in Nat
              /\ KeptBefore \in {0, bill.kept_spent}
          BY <3>5, LimitsAreNumbers
        <5> QED BY <5>1
      <4>5. bill.spent + run.max = KeptBefore + request.max + 0
        BY <4>2, <4>4
      <4>6. KeptBefore' = KeptBefore
        BY <3>3 DEF KeptBefore
      <4>7. MixtureSpends(run)'
        BY <3>3, <4>2, <4>3, <4>5, <4>6 DEF MixtureSpends, Counts, Outputs
      <4> QED BY <3>3, <3>4, <4>7, MixturesSpend
    <3> QED BY <1>1, <3>1, <3>3, <3>5, SpendingGoesOn
  <2> QED BY <1>4, <2>1, <2>2, Zenon DEF PlanMixture
<1> QED BY <1>3, <1>4

\* The slots of a wave are as many as the plan says.
LEMMA SlotsAreCounted ==
  ASSUME MixtureTyped(run), request \in Requests, run.wave \in 1..Len(run.plan)
  PROVE  /\ run.plan[run.wave] \in Nat /\ IsFiniteSet(Slots(run.plan, run.wave))
         /\ Cardinality(Slots(run.plan, run.wave)) = run.plan[run.wave]
<1> DEFINE plan == run.plan
           w == run.wave
<1>1. plan \in Seq(Nat)
  <2>1. request.footprints \in Seq(Range(request.footprints))
    BY RequestsAssumption
  <2>2. plan = Plan(PresetOf, SchedulingOf, run.known, request.footprints)
    BY DEF MixtureTyped, PlanMade
  <2> QED BY <2>1, <2>2, PlanIsLengths
<1>2. w \in 1..Len(plan) /\ w \in 1..(Len(plan) + 1) /\ w <= Len(plan)
  BY <1>1
<1> HIDE DEF plan, w
<1>3. Before(plan, w) \in Nat /\ plan[w] \in Nat
  BY <1>1, <1>2, WavesFollow
<1> DEFINE b == Before(plan, w)
           n == plan[w]
<1>4. Slots(plan, w) = (b + 1)..(b + n)
  BY DEF Slots
<1> HIDE DEF b, n
<1>5. b \in Nat /\ n \in Nat
  BY <1>3 DEF b, n
<1>6. IsFiniteSet((b + 1)..(b + n)) /\ Cardinality((b + 1)..(b + n)) = n
  <2> DEFINE first == b + 1
             last == b + n
  <2>1. first \in Int /\ last \in Int /\ (IF first > last THEN 0 ELSE last - first + 1) = n
    BY <1>5
  <2> HIDE DEF first, last
  <2>2. IsFiniteSet(first..last) /\ Cardinality(first..last) = n
    BY <2>1, FS_Interval
  <2> QED BY <2>2 DEF first, last
<1> QED BY <1>4, <1>5, <1>6 DEF plan, w, n

\* Before each wave the round may spend no more than the limit leaves.
LEMMA RoomOfAWave ==
  ASSUME Counts(run), run.max \in Nat, run.pc = "wave", run.round \in {1, 2}, Outputs(run) <= run.max
  PROVE  /\ Remaining(Proposals, RoundLimit) \in Nat
         /\ Outputs(run) + Remaining(Proposals, RoundLimit) <= run.max
<1> DEFINE fc == run.first.cost
           fs == run.first.synth
           e == run.extra
           c == run.cost
           x == run.max
           room == Remaining(Proposals, RoundLimit)
           out == Outputs(run)
<1>1. /\ fc \in Nat /\ fs \in Nat /\ e \in Nat /\ c \in Nat /\ run.synth = 0 /\ ~run.degraded
      /\ run.round = 1 => fc = 0 /\ fs = 0 /\ e = 0
  BY DEF Counts, Synthesized
<1>2. out = fc + fs + e + c
  BY <1>1 DEF Outputs
<1>3. x \in Nat /\ out <= x /\ None \notin Nat
  BY LimitsAssumption
<1>4. CASE run.round = 1
  <2>1. room = IF fc + c >= x THEN 0 ELSE x - (fc + c)
    BY <1>3, <1>4 DEF Remaining, Proposals, RoundLimit
  <2> HIDE DEF fc, fs, e, c, x, room, out
  <2>2. room \in Nat /\ out + room <= x
    BY <1>1, <1>2, <1>3, <1>4, <2>1
  <2> QED BY <2>2 DEF x, room, out
<1>5. CASE run.round = 2
  <2> DEFINE limit == IF fc + fs + e >= x THEN 0 ELSE x - (fc + fs + e)
  <2>1. limit \in Nat /\ limit # None
    BY <1>1, <1>3
  <2>2. RoundLimit = limit
    BY <1>3, <1>5 DEF RoundLimit, Remaining, Before2
  <2>3. room = IF fc + c >= limit THEN 0 ELSE limit - (fc + c)
    BY <2>1, <2>2 DEF Remaining, Proposals
  <2>4. limit = IF fc + fs + e >= x THEN 0 ELSE x - (fc + fs + e)
    OBVIOUS
  <2> HIDE DEF fc, fs, e, c, x, room, out, limit
  <2>5. room \in Nat /\ out + room <= x
    BY <1>1, <1>2, <1>3, <2>1, <2>3, <2>4
  <2> QED BY <2>5 DEF x, room, out
<1> QED BY <1>4, <1>5

\* The shares of a wave: at its beginning, and when one of its calls has ended.
LEMMA SharesFit ==
  ASSUME NEW o \in Nat, NEW limit \in Nat, NEW max \in Nat, NEW n \in Nat, o + limit <= max
  PROVE  o * n + n * limit <= max * n
<1>1. n * (o + limit) <= n * max
  BY ProductsAreOrdered
<1>2. n * (o + limit) = o * n + n * limit /\ n * max = max * n
  OBVIOUS
<1> QED BY <1>1, <1>2

LEMMA ShareIsSpent ==
  ASSUME NEW o \in Nat, NEW limit \in Nat, NEW max \in Nat, NEW n \in Nat \ {0}, NEW k \in Nat \ {0},
         NEW c \in Nat, o * n + k * limit <= max * n, c * n <= limit
  PROVE  (o + c) * n + (k - 1) * limit <= max * n /\ o + c <= max
<1>1. /\ (o + c) * n = o * n + c * n /\ (k - 1) * limit = k * limit - limit
      /\ o * n \in Nat /\ c * n \in Nat /\ k * limit \in Nat /\ max * n \in Nat
      /\ (k - 1) * limit \in Nat /\ (o + c) * n \in Nat
  OBVIOUS
<1>2. (o + c) * n + (k - 1) * limit <= max * n /\ max * n >= (o + c) * n
  BY <1>1
<1>3. o + c \in Nat
  OBVIOUS
<1>4. max >= o + c
  BY <1>2, <1>3, ProductsGrow
<1> QED BY <1>2, <1>3, <1>4

LEMMA NextWaveSpends ==
  ASSUME CoordinatorInvariant, MoneyInvariant, PaidInvariant, TypesInvariant, SpendingInvariant,
         run.pc = "wave", run.wave <= Len(run.plan), Writes("active"), UNCHANGED bill,
         GoesOn([run EXCEPT !.pc = "wave_call", !.live = Slots(run.plan, run.wave),
                            !.limit = Remaining(Proposals, RoundLimit)])
  PROVE  SpendingInvariant'
<1>1. /\ run.pc \in MixturePlaces \ {"deliver"} /\ "wave_call" \in MixturePlaces \ {"deliver"}
      /\ "wave_call" \notin Synthesized /\ run.pc \notin Synthesized
  BY DEF MixturePlaces, Synthesized
<1>2. DOMAIN run = MixtureFields /\ MixtureTyped(run) /\ request \in Requests /\ MixtureCounts(run)
  BY <1>1, InMixtureTyped DEF PaidInvariant, RunCounted
<1> DEFINE slots == Slots(run.plan, run.wave)
           room == Remaining(Proposals, RoundLimit)
           n == run.plan[run.wave]
<1>3. run' = [run EXCEPT !.pc = "wave_call", !.live = slots, !.limit = room] /\ UNCHANGED <<request, docs>>
  BY DEF GoesOn
<1>4. n \in Nat /\ Cardinality(slots) = n
  <2>1. run.wave \in 1..Len(run.plan)
    BY <1>2 DEF MixtureCounts
  <2> QED BY <1>2, <2>1, SlotsAreCounted
<1> HIDE DEF slots, room
<1>5. /\ run'.pc = "wave_call" /\ run'.live = slots /\ run'.limit = room /\ run'.max = run.max
      /\ run'.plan = run.plan /\ run'.wave = run.wave /\ SameCounts
  BY <1>2, <1>3 DEF MixtureFields, SameCounts
<1>6. ASSUME request.max # None
      PROVE  /\ run'.max = run.max /\ Counts(run') /\ Outputs(run') = Outputs(run) + 0
             /\ Outputs(run') <= (IF run'.pc = "second" THEN 2 * run.max ELSE run.max)
             /\ run'.pc = "wave_call" => WaveSpends(run', run'.plan[run'.wave])
  <2>1. /\ Counts(run) /\ run.max \in Nat /\ Outputs(run) \in Nat /\ Outputs(run) <= run.max
        /\ run.round \in {1, 2}
    BY <1>1, <1>6, MixtureSpent
  <2>2. Outputs(run') = Outputs(run)
    BY <1>5 DEF Outputs, SameCounts
  <2>3. Counts(run')
    BY <1>1, <1>5, <2>1 DEF Counts, SameCounts
  <2>4. room \in Nat /\ Outputs(run) + room <= run.max
    BY <2>1, RoomOfAWave DEF room
  <2> HIDE DEF n
  <2>5. Outputs(run) * n + n * room <= run.max * n
    BY <1>4, <2>1, <2>4, SharesFit
  <2>6. WaveSpends(run', n)
    BY <1>4, <1>5, <2>2, <2>4, <2>5 DEF WaveSpends
  <2>7. n = run'.plan[run'.wave]
    BY <1>5 DEF n
  <2> QED BY <1>5, <2>1, <2>2, <2>3, <2>6, <2>7
<1>7. PaysOnly(0)
  BY DEF PaysOnly
<1> QED BY <1>1, <1>3, <1>5, <1>6, <1>7, MixtureSpendsOn

\* A call of a wave that has ended, with an answer or without.
LEMMA ProposerSpends ==
  ASSUME CoordinatorInvariant, MoneyInvariant, PaidInvariant, TypesInvariant, SpendingInvariant,
         run.pc = "wave_call", UNCHANGED <<request, docs, task>>,
         NEW s \in run.live, NEW c, PaysOnly(c), c = 0 \/ Fits(c, run.limit, run.plan[run.wave]),
         run'.live = run.live \ {s}, run'.cost = run.cost + c \/ (c = 0 /\ run'.cost = run.cost),
         run'.pc = run.pc, run'.max = run.max, run'.limit = run.limit, run'.plan = run.plan,
         run'.wave = run.wave, run'.round = run.round, run'.synth = run.synth,
         run'.extra = run.extra, run'.first = run.first, run'.degraded = run.degraded,
         run'.abandoned = run.abandoned
  PROVE  SpendingInvariant'
<1>1. run.pc \in MixturePlaces \ {"deliver"} /\ run'.pc \in MixturePlaces \ {"deliver"}
  BY DEF MixturePlaces
<1>2. MixtureTyped(run) /\ request \in Requests /\ MixtureCounts(run)
  BY <1>1, InMixtureTyped DEF PaidInvariant, RunCounted
<1> DEFINE slots == Slots(run.plan, run.wave)
           n == run.plan[run.wave]
           k == Cardinality(run.live)
           o == Outputs(run)
           limit == run.limit
           max == run.max
<1>3. n \in Nat \ {0} /\ k \in Nat \ {0} /\ Cardinality(run.live \ {s}) = k - 1
  <2>1. run.wave \in 1..Len(run.plan) /\ run.live \subseteq slots
    BY <1>2 DEF MixtureCounts
  <2>2. n \in Nat /\ IsFiniteSet(slots) /\ Cardinality(slots) = n
    BY <1>2, <2>1, SlotsAreCounted
  <2>3. IsFiniteSet(run.live) /\ k <= n /\ k \in Nat
    BY <2>1, <2>2, FS_Subset, FS_CardinalityType
  <2>4. Cardinality(run.live \ {s}) = k - 1
    BY <2>3, FS_RemoveElement
  <2>5. k # 0
    BY <2>3, FS_EmptySet
  <2> QED BY <2>2, <2>3, <2>4, <2>5
<1>4. c \in Nat
  BY OnlyPaid
<1>5. ASSUME request.max # None
      PROVE  /\ run'.max = run.max /\ Counts(run') /\ Outputs(run') = Outputs(run) + c
             /\ Outputs(run') <= (IF run'.pc = "second" THEN 2 * run.max ELSE run.max)
             /\ run'.pc = "wave_call" => WaveSpends(run', run'.plan[run'.wave])
  <2>1. Counts(run) /\ max \in Nat /\ o \in Nat /\ MixtureSpends(run)
    BY <1>1, <1>5, MixtureSpent
  <2>2. limit \in Nat /\ o * n + k * limit <= max * n
    BY <2>1 DEF MixtureSpends, WaveSpends
  <2>3. c * n <= limit
    BY <1>3, <2>2, LimitsAssumption DEF Fits
  <2>4. Outputs(run') = o + c
    BY <1>4, <2>1 DEF Outputs, Counts
  <2>5. Counts(run')
    BY <1>4, <2>1 DEF Counts
  <2> HIDE DEF n, k, o, limit, max
  <2>6. (o + c) * n + (k - 1) * limit <= max * n /\ o + c <= max
    BY <1>3, <1>4, <2>1, <2>2, <2>3, ShareIsSpent
  <2>7. WaveSpends(run', n)
    BY <1>3, <2>2, <2>4, <2>6 DEF WaveSpends, limit, max
  <2> QED BY <2>4, <2>5, <2>6, <2>7 DEF n, o, max
<1> QED BY <1>1, <1>5, MixtureSpendsOn

LEMMA WavesSpend ==
  ASSUME CoordinatorInvariant, MoneyInvariant, PaidInvariant, TypesInvariant, SpendingInvariant,
         NextWave \/ ProposerAnswered \/ ProposerFailed \/ WaveDone
  PROVE  SpendingInvariant'
<1>1. /\ run.pc \in {"wave", "wave_call"} /\ run.pc \in MixturePlaces \ {"deliver"}
      /\ run.pc \in Unsynthesized
  BY DEF NextWave, ProposerAnswered, ProposerFailed, WaveDone, MixturePlaces, Unsynthesized
<1>2. DOMAIN run = MixtureFields
  BY <1>1, MixtureCounted
<1>3. CASE EndsAs("cancelled")
  BY <1>3, EndsAsSpends
<1>4. CASE Stumbles("BUDGET_EXCEEDED")
  BY <1>1, <1>4, StumblesSpends
<1>5. CASE NextWave /\ ~EndsAs("cancelled") /\ ~Stumbles("BUDGET_EXCEEDED")
  BY <1>5, NextWaveSpends DEF NextWave
<1>6. CASE ProposerAnswered
  <2>1. PICK s \in run.live, c \in Costs :
          /\ Fits(c, run.limit, run.plan[run.wave])
          /\ Pays(<<"propose", run.round, s>>, c)
          /\ GoesOn([run EXCEPT !.live = run.live \ {s}, !.got = run.got + 1, !.cost = run.cost + c])
    BY <1>6, Zenon DEF ProposerAnswered
  <2>2. /\ run.pc = "wave_call" /\ UNCHANGED <<request, docs, task>> /\ PaysOnly(c)
    BY <1>6, <2>1 DEF ProposerAnswered, GoesOn, PaysOnly
  <2>3. /\ run'.live = run.live \ {s} /\ run'.cost = run.cost + c
        /\ run'.pc = run.pc /\ run'.max = run.max /\ run'.limit = run.limit /\ run'.plan = run.plan
        /\ run'.wave = run.wave /\ run'.round = run.round /\ run'.synth = run.synth
        /\ run'.extra = run.extra /\ run'.first = run.first /\ run'.degraded = run.degraded
        /\ run'.abandoned = run.abandoned
    BY <1>2, <2>1 DEF GoesOn, MixtureFields
  <2> QED BY <2>1, <2>2, <2>3, ProposerSpends
<1>7. CASE ProposerFailed
  <2>1. PICK s \in run.live : \E code :
          GoesOn([run EXCEPT !.live = run.live \ {s}, !.fatal = run.fatal \/ code \in TaskFatal])
    BY <1>7, Zenon DEF ProposerFailed
  <2>2. /\ run.pc = "wave_call" /\ UNCHANGED <<request, docs, task>> /\ PaysOnly(0)
    BY <1>7, <2>1 DEF ProposerFailed, GoesOn, PaysOnly
  <2>3. /\ run'.live = run.live \ {s} /\ run'.cost = run.cost
        /\ run'.pc = run.pc /\ run'.max = run.max /\ run'.limit = run.limit /\ run'.plan = run.plan
        /\ run'.wave = run.wave /\ run'.round = run.round /\ run'.synth = run.synth
        /\ run'.extra = run.extra /\ run'.first = run.first /\ run'.degraded = run.degraded
        /\ run'.abandoned = run.abandoned
    BY <1>2, <2>1 DEF GoesOn, MixtureFields
  <2> QED BY <2>2, <2>3, ProposerSpends
<1>8. CASE WaveDone /\ ~EndsAs("cancelled") /\ ~Stumbles("BUDGET_EXCEEDED")
  <2>1. /\ SameCounts /\ run'.max = run.max /\ run'.pc \in {"wave", "wave_ask"}
        /\ Writes("active") /\ UNCHANGED <<request, docs, bill>>
    BY <1>2, <1>8 DEF WaveDone, GoesOn, MixtureFields, SameCounts
  <2>2. run'.pc \in Unsynthesized \ {"wave_call"}
    BY <2>1 DEF Unsynthesized
  <2> QED BY <1>1, <2>1, <2>2, MixtureSpendsNothing
<1> QED BY <1>3, <1>4, <1>5, <1>6, <1>7, <1>8

LEMMA SynthesizesSpends ==
  ASSUME CoordinatorInvariant, MoneyInvariant, TypesInvariant, SpendingInvariant,
         run.pc = "wave", Synthesizes
  PROVE  SpendingInvariant'
<1>1. run.pc \in MixturePlaces \ {"deliver"} /\ run.pc \in Unsynthesized
  BY DEF MixturePlaces, Unsynthesized
<1>2. DOMAIN run = MixtureFields
  BY <1>1, MixtureCounted
<1>3. CASE Stumbles("BUDGET_EXCEEDED")
  BY <1>1, <1>3, StumblesSpends
<1>4. CASE /\ Writes("active") /\ UNCHANGED bill
           /\ GoesOn([run EXCEPT !.pc = "synth_call", !.retried = FALSE])
  <2>1. SameCounts /\ run'.max = run.max /\ run'.pc = "synth_call" /\ UNCHANGED <<request, docs>>
    BY <1>2, <1>4 DEF GoesOn, MixtureFields, SameCounts
  <2>2. run'.pc \in Unsynthesized \ {"wave_call"}
    BY <2>1 DEF Unsynthesized
  <2> QED BY <1>1, <1>4, <2>1, <2>2, MixtureSpendsNothing
<1> QED BY <1>3, <1>4 DEF Synthesizes

LEMMA RoundsDoneSpend ==
  ASSUME CoordinatorInvariant, MoneyInvariant, TypesInvariant, SpendingInvariant,
         RoundDone \/ SecondRoundDone
  PROVE  SpendingInvariant'
<1>1. run.pc = "wave" /\ run.pc \in MixturePlaces \ {"deliver"}
  BY DEF RoundDone, SecondRoundDone, WavesDone, MixturePlaces
<1>2. CASE RoundDone
  BY <1>1, <1>2, EndsWithSpends, EndsAsSpends, SynthesizesSpends DEF RoundDone
<1>3. CASE SecondRoundDone
  BY <1>1, <1>3, StumblesSpends, SynthesizesSpends DEF SecondRoundDone
<1> QED BY <1>2, <1>3

\* The arbiter is given what the proposals have left.
LEMMA SynthesisSpends ==
  ASSUME CoordinatorInvariant, MoneyInvariant, TypesInvariant, SpendingInvariant,
         SynthesisAnswered \/ ArbiterFailed
  PROVE  SpendingInvariant'
<1>1. /\ run.pc = "synth_call" /\ run.pc \in MixturePlaces \ {"deliver"} /\ run.pc \in Unsynthesized
      /\ run.pc \in Unsynthesized \ {"wave_call"}
      /\ "synth_done" \in MixturePlaces \ {"deliver"} /\ "synth_done" \in Synthesized
  BY DEF SynthesisAnswered, ArbiterFailed, MixturePlaces, Synthesized, Unsynthesized
<1>2. DOMAIN run = MixtureFields
  BY <1>1, MixtureCounted
<1>3. request.max # None =>
        /\ Counts(run) /\ run.synth = 0 /\ ~run.degraded /\ (run.round = 1 => run.extra = 0)
        /\ run.max \in Nat /\ run.max # None /\ Outputs(run) \in Nat /\ Outputs(run) <= run.max
  BY <1>1, MixtureSpent DEF Counts
<1>4. CASE \E code : Stumbles(code)
  BY <1>1, <1>4, StumblesSpends
<1>5. CASE SynthesisAnswered
  <2>1. PICK c \in Costs : /\ Fits(c, Remaining(SoFar, run.max), 1)
                           /\ Pays(<<"synthesis", run.round>>, c)
                           /\ GoesOn([run EXCEPT !.pc = "synth_done", !.synth = c])
    BY <1>5 DEF SynthesisAnswered
  <2>2. /\ run'.pc = "synth_done" /\ run'.synth = c /\ run'.round = run.round /\ run'.cost = run.cost
        /\ run'.extra = run.extra /\ run'.first = run.first /\ run'.max = run.max
        /\ run'.degraded = run.degraded /\ run'.abandoned = run.abandoned
        /\ UNCHANGED <<request, docs, task>>
    BY <1>2, <1>5, <2>1 DEF SynthesisAnswered, GoesOn, MixtureFields
  <2>3. c \in Nat /\ PaysOnly(c)
    BY <2>1, CostsAssumption DEF PaysOnly
  <2>4. ASSUME request.max # None
        PROVE  /\ run'.max = run.max /\ Counts(run') /\ Outputs(run') = Outputs(run) + c
               /\ Outputs(run') <= (IF run'.pc = "second" THEN 2 * run.max ELSE run.max)
               /\ run'.pc = "wave_call" => WaveSpends(run', run'.plan[run'.wave])
    <3>1. Counts(run')
      BY <1>1, <1>3, <2>2, <2>3, <2>4 DEF Counts
    <3>2. Outputs(run') = Outputs(run) + c
      BY <1>3, <2>2, <2>3, <2>4 DEF Counts, Outputs
    <3>3. SoFar = Outputs(run)
      BY <1>3, <2>4 DEF Counts, Outputs, SoFar, Before2
    <3>4. Outputs(run) + c <= run.max
      <4> DEFINE o == Outputs(run)
                 x == run.max
      <4>1. c * 1 <= IF o >= x THEN 0 ELSE x - o
        <5>1. Remaining(o, x) = (IF o >= x THEN 0 ELSE x - o) /\ Remaining(o, x) \in Nat
          BY <1>3, <2>4 DEF Remaining
        <5> QED BY <2>1, <3>3, <5>1, LimitsAssumption DEF Fits
      <4>2. o \in Nat /\ x \in Nat /\ o <= x
        BY <1>3, <2>4
      <4> HIDE DEF o, x
      <4>3. o + c <= x
        BY <2>3, <4>1, <4>2
      <4> QED BY <4>3 DEF o, x
    <3> QED BY <2>2, <3>1, <3>2, <3>4
  <2> QED BY <1>1, <2>2, <2>3, <2>4, MixtureSpendsOn
<1>6. CASE ArbiterFailed /\ ~ \E code : Stumbles(code)
  <2>1. UNCHANGED <<request, docs, task, bill>> /\ (FirstProposal \/ Substituted)
    BY <1>6 DEF ArbiterFailed, GoesOn, FirstProposal, Substituted
  <2>2. CASE Substituted
    <3>1. SameCounts /\ run'.pc = run.pc /\ run'.max = run.max
      BY <1>2, <2>2 DEF Substituted, GoesOn, MixtureFields, SameCounts
    <3> QED BY <1>1, <2>1, <3>1, MixtureSpendsNothing
  <2>3. CASE FirstProposal
    <3>1. /\ run'.pc = "synth_done" /\ run'.synth = run.synth /\ run'.round = run.round
          /\ run'.cost = run.cost /\ run'.extra = run.extra /\ run'.first = run.first
          /\ run'.degraded = TRUE /\ run'.abandoned = run.abandoned /\ run'.max = run.max
      BY <1>2, <2>3 DEF FirstProposal, GoesOn, MixtureFields
    <3>2. ASSUME request.max # None
          PROVE  /\ run'.max = run.max /\ Counts(run') /\ Outputs(run') = Outputs(run) + 0
                 /\ Outputs(run') <= (IF run'.pc = "second" THEN 2 * run.max ELSE run.max)
                 /\ run'.pc = "wave_call" => WaveSpends(run', run'.plan[run'.wave])
      <4>1. Counts(run')
        BY <1>1, <1>3, <3>1, <3>2 DEF Counts
      <4>2. Outputs(run') = Outputs(run)
        BY <1>3, <3>1, <3>2 DEF Counts, Outputs
      <4> QED BY <1>3, <3>1, <3>2, <4>1, <4>2
    <3>3. PaysOnly(0)
      BY <2>1 DEF PaysOnly
    <3> QED BY <1>1, <2>1, <3>1, <3>2, <3>3, MixtureSpendsOn
  <2> QED BY <2>1, <2>2, <2>3
<1> QED BY <1>4, <1>5, <1>6

\* The judge alone is paid beyond the limit: it is asked with the whole of it.
LEMMA JudgeSpends ==
  ASSUME CoordinatorInvariant, MoneyInvariant, TypesInvariant, SpendingInvariant, Judged
  PROVE  SpendingInvariant'
<1>1. run.pc = "judge_call" /\ run.pc \in MixturePlaces \ {"deliver"} /\ run.pc # "second"
  BY DEF Judged, MixturePlaces, Synthesized
<1>2. DOMAIN run = MixtureFields
  BY <1>1, MixtureCounted
<1>3. PICK c \in Costs, next \in {"deliver", "second"} :
        /\ Fits(c, run.max, 1)
        /\ Pays(<<"judge">>, c) /\ GoesOn([run EXCEPT !.pc = next, !.extra = c])
  BY Zenon DEF Judged
<1>4. /\ run'.pc = next /\ run'.extra = c /\ run'.round = run.round /\ run'.cost = run.cost
      /\ run'.synth = run.synth /\ run'.first = run.first /\ run'.max = run.max
      /\ run'.degraded = run.degraded /\ run'.abandoned = run.abandoned
      /\ UNCHANGED <<request, docs, task>>
  BY <1>2, <1>3 DEF Judged, GoesOn, MixtureFields
<1>5. c \in Nat /\ PaysOnly(c) /\ "second" \in MixturePlaces \ {"deliver"} /\ "second" \in Synthesized
  BY <1>3, CostsAssumption DEF PaysOnly, MixturePlaces, Synthesized
<1>6. run.round = 1
  BY <1>1 DEF CoordinatorInvariant, RunInvariant, RunRests, Rests, SecondPlaces
<1>7. request.max # None =>
        /\ Counts(run) /\ run.extra = 0 /\ ~run.degraded
        /\ run.max \in Nat /\ run.max # None /\ Outputs(run) \in Nat /\ Outputs(run) <= run.max
  BY <1>1, <1>6, MixtureSpent DEF Counts
<1>8. request.max # None => Outputs(run) + c <= 2 * run.max
  <2>1. request.max # None => c * 1 <= run.max
    BY <1>3, <1>7 DEF Fits
  <2> QED BY <1>5, <1>7, <2>1
<1>9. CASE next = "deliver"
  BY <1>1, <1>4, <1>5, <1>8, <1>9, MixtureDelivers
<1>10. CASE next = "second"
  <2>1. ASSUME request.max # None
        PROVE  /\ run'.max = run.max /\ Counts(run') /\ Outputs(run') = Outputs(run) + c
               /\ Outputs(run') <= (IF run'.pc = "second" THEN 2 * run.max ELSE run.max)
               /\ run'.pc = "wave_call" => WaveSpends(run', run'.plan[run'.wave])
    <3>1. Counts(run')
      BY <1>1, <1>4, <1>5, <1>6, <1>7, <1>10, <2>1 DEF Counts
    <3>2. Outputs(run') = Outputs(run) + c
      BY <1>4, <1>5, <1>7, <2>1 DEF Counts, Outputs
    <3> QED BY <1>4, <1>8, <1>10, <2>1, <3>1, <3>2
  <2> QED BY <1>1, <1>4, <1>5, <1>10, <2>1, MixtureSpendsOn
<1> QED BY <1>9, <1>10

LEMMA GateSpends ==
  ASSUME CoordinatorInvariant, MoneyInvariant, TypesInvariant, SpendingInvariant,
         SynthesisDone \/ SecondSynthesisDone \/ AskAfterSynthesis \/ Gate \/ JudgeFailed
  PROVE  SpendingInvariant'
<1>1. /\ run.pc \in {"synth_done", "synth_ask", "gate", "judge_call"}
      /\ run.pc \in MixturePlaces \ {"deliver"} /\ run.pc \in Answered2 \ {"deliver", "second"}
  BY DEF SynthesisDone, SecondSynthesisDone, AskAfterSynthesis, Gate, JudgeFailed, AsksToYield,
    MixturePlaces, Synthesized, Answered2
<1>2. DOMAIN run = MixtureFields
  BY <1>1, MixtureCounted
<1>3. CASE EndsAs("cancelled")
  BY <1>3, EndsAsSpends
<1>4. CASE /\ GoesOn(FirstRound) \/ GoesOn([run EXCEPT !.pc = "deliver"])
           /\ UNCHANGED <<task, bill>>
  BY <1>1, <1>4, StumblesSpends
<1>5. ASSUME NEW next \in {"synth_ask", "synth_save", "gate", "judge_call", "second"},
             run' = [run EXCEPT !.pc = next], UNCHANGED <<request, docs, task, bill>>,
             run.pc # "synth_done" \/ ~run.degraded
      PROVE  SpendingInvariant'
  <2>1. SameCounts /\ run'.max = run.max /\ run'.pc = next
    BY <1>2, <1>5 DEF MixtureFields, SameCounts
  <2>2. run'.pc \in Answered2 \ {"deliver", "synth_done"}
    BY <2>1 DEF Answered2
  <2> QED BY <1>1, <1>5, <2>1, <2>2, MixtureSpendsNothing
<1>6. CASE SynthesisDone
  BY <1>3, <1>4, <1>5, <1>6 DEF SynthesisDone, GoesOn
<1>7. CASE SecondSynthesisDone
  BY <1>4, <1>7 DEF SecondSynthesisDone
<1>8. CASE AskAfterSynthesis
  BY <1>5, <1>8 DEF AskAfterSynthesis, AsksToYield
<1>9. CASE Gate
  BY <1>4, <1>5, <1>9 DEF Gate, GoesOn
<1>10. CASE JudgeFailed
  BY <1>4, <1>10 DEF JudgeFailed
<1> QED BY <1>6, <1>7, <1>8, <1>9, <1>10

\* What the first round has cost goes with the second, which is begun only within the limit.
LEMMA SecondSpends ==
  ASSUME CoordinatorInvariant, MoneyInvariant, TypesInvariant, SpendingInvariant, StartSecond
  PROVE  SpendingInvariant'
<1>1. /\ run.pc = "second" /\ run.pc \in MixturePlaces \ {"deliver"}
      /\ "wave" \in MixturePlaces \ {"deliver"} /\ "wave" \notin Synthesized
  BY DEF StartSecond, MixturePlaces, Synthesized
<1>2. DOMAIN run = MixtureFields
  BY <1>1, MixtureCounted
<1>3. CASE EndsAs("cancelled")
  BY <1>3, EndsAsSpends
<1>4. CASE GoesOn([run EXCEPT !.pc = "deliver"]) /\ UNCHANGED <<task, bill>>
  BY <1>1, <1>4, StumblesSpends
<1>5. CASE /\ ~NothingLeft(AllOutputs, run.max) /\ UNCHANGED <<task, bill>>
           /\ GoesOn([run EXCEPT !.pc = "wave", !.wave = 1, !.round = 2, !.got = 0, !.cost = 0,
                !.synth = 0, !.first = [got |-> run.got, cost |-> run.cost, synth |-> run.synth]])
  <2> DEFINE first == [got |-> run.got, cost |-> run.cost, synth |-> run.synth]
  <2>1. first.cost = run.cost /\ first.synth = run.synth
    OBVIOUS
  <2>2. /\ run' = [run EXCEPT !.pc = "wave", !.wave = 1, !.round = 2, !.got = 0, !.cost = 0,
                     !.synth = 0, !.first = first]
        /\ UNCHANGED <<request, docs, task, bill>>
    BY <1>5 DEF GoesOn
  <2> HIDE DEF first
  <2>3. /\ run'.pc = "wave" /\ run'.round = 2 /\ run'.cost = 0 /\ run'.synth = 0
        /\ run'.first = first /\ run'.extra = run.extra /\ run'.max = run.max
        /\ run'.degraded = run.degraded /\ run'.abandoned = run.abandoned
    BY <1>2, <2>2 DEF MixtureFields
  <2>4. run.round = 1
    BY <1>1 DEF CoordinatorInvariant, RunInvariant, RunRests, Rests, SecondPlaces
  <2>5. ASSUME request.max # None
        PROVE  /\ run'.max = run.max /\ Counts(run') /\ Outputs(run') = Outputs(run) + 0
               /\ Outputs(run') <= (IF run'.pc = "second" THEN 2 * run.max ELSE run.max)
               /\ run'.pc = "wave_call" => WaveSpends(run', run'.plan[run'.wave])
    <3>1. /\ Counts(run) /\ ~run.degraded /\ run.first.cost = 0 /\ run.first.synth = 0
          /\ run.max \in Nat /\ run.max # None /\ Outputs(run) \in Nat
      BY <1>1, <2>4, <2>5, MixtureSpent DEF Counts
    <3>2. Counts(run')
      BY <1>1, <2>1, <2>3, <3>1 DEF Counts
    <3>3. Outputs(run') = Outputs(run)
      BY <2>1, <2>3, <3>1 DEF Counts, Outputs
    <3>4. AllOutputs = Outputs(run)
      BY DEF AllOutputs, SoFar, Before2, Outputs
    <3>5. Outputs(run) <= run.max
      BY <1>5, <3>1, <3>4 DEF NothingLeft
    <3> QED BY <2>3, <3>1, <3>2, <3>3, <3>5
  <2>6. PaysOnly(0)
    BY <2>2 DEF PaysOnly
  <2> QED BY <1>1, <2>2, <2>3, <2>5, <2>6, MixtureSpendsOn
<1> QED BY <1>3, <1>4, <1>5 DEF StartSecond

LEMMA BetweenRoundsSpend ==
  ASSUME CoordinatorInvariant, MoneyInvariant, TypesInvariant, SpendingInvariant,
         AskAfterWave \/ YieldAfterWave \/ YieldAfterSynthesis
  PROVE  SpendingInvariant'
<1>1. run.pc \in {"wave_ask", "wave_save", "synth_save"} /\ run.pc \in MixturePlaces \ {"deliver"}
  BY DEF AskAfterWave, AsksToYield, YieldAfterWave, YieldAfterSynthesis, MixturePlaces, Synthesized
<1>2. DOMAIN run = MixtureFields
  BY <1>1, MixtureCounted
<1>3. request.strategy = "mixture"
  BY <1>1 DEF CoordinatorInvariant, RunInvariant, RunIsAsked, Asking
<1>4. CASE AskAfterWave
  <2>1. /\ SameCounts /\ run'.max = run.max /\ run'.pc \in {"wave", "wave_save"}
        /\ UNCHANGED <<request, docs, task, bill>>
    BY <1>2, <1>4 DEF AskAfterWave, AsksToYield, MixtureFields, SameCounts
  <2>2. run.pc \in Unsynthesized /\ run'.pc \in Unsynthesized \ {"wave_call"}
    BY <1>4, <2>1 DEF AskAfterWave, AsksToYield, Unsynthesized
  <2> QED BY <2>1, <2>2, MixtureSpendsNothing
<1>5. CASE YieldAfterWave \/ YieldAfterSynthesis
  <2>1. PICK pc \in {"wave", "gate"} : Yields("mixture", [run EXCEPT !.pc = pc])
    BY <1>5 DEF YieldAfterWave, YieldAfterSynthesis
  <2> DEFINE state == [run EXCEPT !.pc = pc]
  <2>2. /\ state.max = run.max /\ state.cost = run.cost /\ state.synth = run.synth
        /\ state.extra = run.extra /\ state.first = run.first /\ state.degraded = run.degraded
    BY <1>2 DEF MixtureFields
  <2>3. Yields("mixture", state)
    BY <2>1
  <2> HIDE DEF state
  <2>4. Outputs(state) = Outputs(run)
    BY <2>2 DEF Outputs
  <2>5. request.max # None => state.max = request.max /\ Outputs(state) <= request.max
    <3>1. request.max # None => /\ MixtureSpends(run) /\ Outputs(run) <= run.max
      BY <1>1, MixtureSpent
    <3>2. request.max # None => run.max = request.max
      BY <1>3, <3>1 DEF MixtureSpends
    <3> QED BY <2>2, <2>4, <3>1, <3>2
  <2>6. task.mapped = None
    BY <1>3 DEF MoneyInvariant, Chosen
  <2>7. /\ task' = [task EXCEPT !.status = "queued", !["mixture"] = state]
        /\ run' = Idle /\ Freeze /\ UNCHANGED <<request, docs>>
    BY <2>3 DEF Yields
  <2> QED BY <2>5, <2>6, <2>7, SpendingPauses
<1> QED BY <1>4, <1>5

LEMMA DeliverSpends ==
  ASSUME CoordinatorInvariant, MoneyInvariant, TypesInvariant, SpendingInvariant, Deliver
  PROVE  SpendingInvariant'
<1>1. CASE Fails("BUDGET_EXCEEDED")
  BY <1>1, FailsSpends
<1>2. CASE ~Fails("BUDGET_EXCEEDED")
  BY <1>2, CompletesSpends DEF Deliver
<1> QED BY <1>1, <1>2

LEMMA ConsensusSpends ==
  ASSUME CoordinatorInvariant, MoneyInvariant, PaidInvariant, TypesInvariant, SpendingInvariant,
         ConsensusNext
  PROVE  SpendingInvariant'
BY MixtureBegunSpends, WavesSpend, RoundsDoneSpend, SynthesisSpends, GateSpends, JudgeSpends,
   BetweenRoundsSpend, SecondSpends, DeliverSpends DEF ConsensusNext

----------------------------------------------------------------------------
(* The limit, all together.                                                *)

LEMMA DispatchSpends ==
  ASSUME CoordinatorInvariant, MoneyInvariant, TypesInvariant, SpendingInvariant, Dispatch
  PROVE  SpendingInvariant'
<1>1. task.status = "queued"
  BY DEF Dispatch
<1>2. CASE EndsAs("cancelled")
  BY <1>2, EndsAsSpends
<1>3. CASE EndsWith("TABULAR_ATTACHMENT_REQUIRES_SANDBOX")
  BY <1>3, EndsWithSpends
<1>4. CASE /\ Writes("active") /\ UNCHANGED bill
           /\ \/ request.strategy # "auto" /\ GoesOn(Begin(request.strategy))
              \/ /\ request.strategy = "auto"
                 /\ \E cases \in Histories : GoesOn(BeginAuto(Route(request.signals, cases)))
  <2>1. request.strategy \in Concrete \cup {"map_reduce", "auto"} /\ UNCHANGED <<request, docs>>
    BY <1>4, RequestsAssumption DEF CoordinatorInvariant, RowInvariant, GoesOn
  <2>2. /\ run'.pc \in {"single", "map_plan", "agent", "mixture"}
        /\ run'.pc = "single" => request.strategy \in {"single", "auto"}
        /\ run'.pc = "map_plan" => request.strategy = "map_reduce"
        /\ run'.pc = "mixture" => request.strategy \in {"mixture", "auto"} /\ run'.max = request.max
    <3>1. CASE request.strategy # "auto" /\ run' = Begin(request.strategy)
      BY <2>1, <3>1 DEF Begin, ToMixture, Concrete
    <3>2. CASE /\ request.strategy = "auto"
               /\ \E cases \in Histories : run' = BeginAuto(Route(request.signals, cases))
      <4>1. PICK cases \in Histories : run' = BeginAuto(Route(request.signals, cases))
        BY <3>2
      <4>2. Route(request.signals, cases) \in Concrete
        <5>1. cases \in Seq(Case)
          BY RequestsAssumption
        <5> QED BY <5>1, RouteIsConcrete
      <4>3. \A s \in Concrete : /\ BeginAuto(s).pc \in {"single", "agent", "mixture"}
                                /\ BeginAuto(s).pc = "mixture" => BeginAuto(s).max = request.max
        BY DEF BeginAuto, ToMixture, Concrete
      <4> QED BY <3>2, <4>1, <4>2, <4>3
    <3> QED BY <1>4, <3>1, <3>2 DEF GoesOn
  <2>3. run'.pc \notin MapPlaces \cup SinglePlaces \cup TalkPlaces \cup MixturePlaces
    BY <2>2, PlacesApart
  <2>4. ASSUME request.max # None PROVE RunSpends'
    <3>1. bill.spent = bill.kept_spent
      BY <1>1, <2>4 DEF SpendingInvariant, RowSpends
    <3>2. /\ request.max \in Nat /\ Twice \in Nat /\ docs \in Nat /\ bill.spent \in Nat
          /\ KeptBefore \in {0, bill.kept_spent} /\ Twice * docs \in Nat
      BY <2>4, LimitsAreNumbers
    <3>3. KeptBefore' = KeptBefore /\ Twice' = Twice
      BY <1>4, <2>1 DEF KeptBefore, Twice
    <3>4. request.strategy \in {"single", "mixture"} /\ task.mixture = None => bill.spent = 0
      BY <1>1, <3>1 DEF MoneyInvariant, Chosen, RowHolds
    <3>5. task'.mixture = task.mixture
      BY <1>4, StatusWritten DEF CoordinatorInvariant, RowInvariant, Writes, RowKeeps
    <3>6. run'.pc = "single" /\ request.strategy # "auto" => bill'.spent <= Twice' * docs'
      <4>1. request.strategy = "single" => task.mixture = None
        BY DEF CoordinatorInvariant, RowInvariant, CheckpointsHeld
      <4> QED BY <1>4, <2>1, <2>2, <3>2, <3>3, <3>4, <4>1
    <3>7. run'.pc = "mixture" =>
            /\ run'.max \in Nat /\ run'.max <= request'.max
            /\ request'.strategy # "auto" => run'.max = request'.max
            /\ task'.mixture = None => bill'.spent + run'.max = KeptBefore' + request'.max
      <4>1. task.mixture # None => request.strategy = "mixture"
        BY DEF CoordinatorInvariant, RowInvariant, CheckpointsHeld
      <4>2. request.strategy = "auto" => KeptBefore = bill.spent
        BY <3>1 DEF KeptBefore
      <4>3. request.strategy = "mixture" => KeptBefore = 0
        BY DEF KeptBefore
      <4> QED BY <1>4, <2>1, <2>2, <3>2, <3>3, <3>4, <3>5, <4>2, <4>3
    <3> QED BY <1>4, <2>1, <2>2, <2>3, <3>1, <3>6, <3>7 DEF RunSpends
  <2>5. bill' = bill
    BY <1>4
  <2> QED BY <1>4, <2>1, <2>4, <2>5, SpendingGoesOn
<1> QED BY <1>2, <1>3, <1>4 DEF Dispatch

LEMMA InterruptionsSpend ==
  ASSUME CoordinatorInvariant, MoneyInvariant, TypesInvariant, SpendingInvariant, TimesOut \/ Crash
  PROVE  SpendingInvariant'
<1>1. CASE TimesOut
  BY <1>1, EndsAsSpends, EndsWithSpends DEF TimesOut
<1>2. CASE Crash
  <2>1. \/ task.status = "active"
        \/ task.status \in {"failed", "cancelled", "completed", "queued"}
    BY <1>2 DEF CoordinatorInvariant, RowInvariant, Crash
  <2>2. PICK status \in {"queued", "failed", "cancelled", "completed"} : RowKeeps(status)
    BY <1>2, <2>1, StatusWritten DEF CoordinatorInvariant, RowInvariant, Crash, Writes, WritesError
  <2> QED BY <1>2, <2>2, SpendingEnds DEF Crash
<1> QED BY <1>1, <1>2

\* A step that leaves the bill and the coroutine alone.
LEMMA SpendingStands ==
  ASSUME CoordinatorInvariant, MoneyInvariant, TypesInvariant, SpendingInvariant,
         UNCHANGED <<request, run, docs, bill>>,
         task'.mapped = task.mapped, task'.mixture = task.mixture,
         task'.status \in {"queued", "waiting_for_tools"} => bill.spent = bill.kept_spent
  PROVE  SpendingInvariant'
<1>1. SpendingIsBounded'
  BY UnpaidIsWithin DEF SpendingInvariant
<1>2. request.max # None => RowSpends'
  BY DEF SpendingInvariant, RowSpends, Twice, Outputs
<1>3. request.max # None => RunSpends'
  BY DEF SpendingInvariant, RunSpends, SingleSpends, TalkSpends, MapSpends, MixtureSpends, WaveSpends,
    Counts, Outputs, KeptBefore, Twice
<1> QED BY <1>1, <1>2, <1>3 DEF SpendingInvariant

LEMMA CancelSpends ==
  ASSUME CoordinatorInvariant, MoneyInvariant, TypesInvariant, SpendingInvariant, Cancel
  PROVE  SpendingInvariant'
<1>1. UNCHANGED <<request, run, docs, bill>>
  BY DEF Cancel
<1>2. /\ task'.status = "cancelled" /\ task'.mapped = task.mapped /\ task'.mixture = task.mixture
  BY DEF CoordinatorInvariant, RowInvariant, RowFields, Cancel
<1> QED BY <1>1, <1>2, SpendingStands

LEMMA ToolResultsSpend ==
  ASSUME CoordinatorInvariant, MoneyInvariant, TypesInvariant, SpendingInvariant,
         NEW provided, ToolResults(provided)
  PROVE  SpendingInvariant'
<1>1. UNCHANGED <<request, run, docs, bill>> /\ task.status = "waiting_for_tools"
  BY DEF ToolResults, Accepted
<1>2. \E agent : task' = [task EXCEPT !.status = "queued", !.agent = agent]
  BY DEF ToolResults
<1>3. task'.mapped = task.mapped /\ task'.mixture = task.mixture
  BY <1>2 DEF CoordinatorInvariant, RowInvariant, RowFields
<1>4. CASE request.max = None
  BY <1>1, <1>4, UnpaidIsWithin DEF SpendingInvariant
<1>5. CASE request.max # None
  <2>1. bill.spent = bill.kept_spent
    BY <1>1, <1>5 DEF SpendingInvariant, RowSpends
  <2> QED BY <1>1, <1>3, <2>1, SpendingStands
<1> QED BY <1>4, <1>5

\* Another conversion allows the limit to be spent once more.
LEMMA ReconvertSpends ==
  ASSUME CoordinatorInvariant, MoneyInvariant, TypesInvariant, SpendingInvariant, Reconvert
  PROVE  SpendingInvariant'
<1>1. UNCHANGED <<request, run, task, bill>> /\ docs' = docs + 1 /\ docs \in Nat
  BY DEF Reconvert, CoordinatorInvariant, RowInvariant
<1>2. ASSUME request.max # None
      PROVE  Twice \in Nat /\ Twice * docs <= Twice * (docs + 1) /\ Twice * docs \in Nat
             /\ Twice * (docs + 1) \in Nat /\ Twice * (docs + 1) <= Twice * (docs + 1 + 1)
             /\ request.max \in Nat /\ bill.spent \in Nat
  <2> DEFINE less == Twice * docs
             next == Twice * (docs + 1)
             more == Twice * (docs + 1 + 1)
             two == Twice
  <2>1. request.max \in Nat /\ bill.spent \in Nat /\ two \in Nat
    BY <1>2, LimitsAreNumbers
  <2>2. \A d \in Nat : Twice * d \in Nat /\ Twice * (d + 1) = Twice * d + Twice
    BY <1>2, LimitsAreNumbers
  <2>3. docs + 1 \in Nat
    BY <1>1
  <2>4. less \in Nat /\ next = less + two
    BY <1>1, <2>2
  <2>5. next \in Nat /\ more = next + two
    BY <2>2, <2>3
  <2> HIDE DEF less, next, more, two
  <2>6. less <= next /\ next <= more
    BY <2>1, <2>4, <2>5
  <2> QED BY <2>1, <2>4, <2>5, <2>6 DEF less, next, more, two
<1>3. SpendingIsBounded'
  <2>1. SUFFICES ASSUME request.max # None PROVE SpendingIsBounded'
    BY <1>1 DEF SpendingIsBounded
  <2>2. CASE request.strategy \in {"agent", "auto"}
    BY <1>1, <2>1, <2>2 DEF SpendingInvariant, SpendingIsBounded
  <2>3. CASE request.strategy \notin {"agent", "auto"}
    <3>1. bill.spent <= Twice * (docs + 1)
      BY <2>1, <2>3 DEF SpendingInvariant, SpendingIsBounded, Twice
    <3> HIDE DEF Twice
    <3>2. bill.spent <= Twice * (docs' + 1)
      <4> DEFINE less == Twice * (docs + 1)
                 more == Twice * (docs + 1 + 1)
      <4>1. less \in Nat /\ less <= more /\ bill.spent <= less /\ bill.spent \in Nat
        BY <1>2, <2>1, <3>1
      <4>2. more \in Nat
        <5>1. docs + 1 + 1 \in Nat
          BY <1>1
        <5> QED BY <2>1, <5>1, LimitsAreNumbers
      <4> HIDE DEF less, more
      <4>3. bill.spent <= more
        BY <4>1, <4>2
      <4> QED BY <1>1, <4>3 DEF more
    <3> USE DEF Twice
    <3> QED BY <1>1, <2>1, <2>3, <3>2 DEF SpendingIsBounded, Twice
  <2> QED BY <2>2, <2>3
<1>4. request.max # None => RowSpends'
  BY <1>1 DEF SpendingInvariant, RowSpends, Twice, Outputs
<1>5. ASSUME request.max # None PROVE RunSpends'
  <2>1. RunSpends
    BY <1>5 DEF SpendingInvariant
  <2>2. Twice' = Twice /\ KeptBefore' = KeptBefore
    BY <1>1 DEF Twice, KeptBefore
  <2>3. \A x \in Int, spent \in Int :
          spent <= Twice * docs + x => spent <= Twice * docs' + x
    <3> DEFINE less == Twice * docs
               more == Twice * docs'
    <3>1. less \in Int /\ more \in Int /\ less <= more
      BY <1>1, <1>2, <1>5
    <3> HIDE DEF less, more
    <3>2. \A x \in Int, spent \in Int : spent <= less + x => spent <= more + x
      BY <3>1
    <3> QED BY <3>2 DEF less, more
  <2>4. run.pc = "single" /\ request.strategy # "auto" => bill'.spent <= Twice' * docs'
    BY <1>1, <1>2, <1>5, <2>1, <2>2 DEF RunSpends
  <2>5. run.pc \in SinglePlaces => SingleSpends'
    BY <1>1, <1>2, <1>5, <2>1, <2>2, <2>3 DEF RunSpends, SingleSpends
  <2>6. run.pc \in TalkPlaces => TalkSpends'
    BY <1>1, <2>1 DEF RunSpends, TalkSpends
  <2>7. run.pc \in MapPlaces => MapSpends'
    BY <1>1, <2>1, <2>2 DEF RunSpends, MapSpends
  <2>8. MixtureSpends(run) => MixtureSpends(run)'
    BY <1>1, <2>2 DEF MixtureSpends, WaveSpends, Counts, Outputs
  <2> QED BY <1>1, <2>1, <2>2, <2>4, <2>5, <2>6, <2>7, <2>8 DEF RunSpends
<1> QED BY <1>1, <1>3, <1>4, <1>5 DEF SpendingInvariant

LEMMA SpendingBegins ==
  ASSUME WorkflowInit
  PROVE  SpendingInvariant
<1>1. /\ run.pc = "idle" /\ bill.spent = 0 /\ bill.kept_spent = 0 /\ docs = 0 /\ request \in Requests
      /\ task.mapped = None /\ task.mixture = None
  BY DEF WorkflowInit, Idle, FreshRow, FreshBill
<1>2. run.pc \notin MapPlaces \cup SinglePlaces \cup TalkPlaces \cup MixturePlaces
  BY <1>1, PlacesApart
<1>3. run.pc # "deliver"
  BY <1>1
<1>4. RunSpends
  BY <1>1, <1>2, <1>3 DEF RunSpends
<1>5. RowSpends
  BY <1>1 DEF RowSpends
<1>6. SpendingIsBounded
  <2>1. SUFFICES ASSUME request.max # None PROVE SpendingIsBounded
    BY DEF SpendingIsBounded
  <2>2. request.max \in Nat
    BY <1>1, <2>1, LimitsAssumption
  <2>3. MaxOf(Costs) \in Nat /\ MaxOf(Costs \cup {request.max}) \in Nat
    BY <2>2, CostsHaveMost
  <2> QED BY <1>1, <2>2, <2>3 DEF SpendingIsBounded
<1> QED BY <1>4, <1>5, <1>6 DEF SpendingInvariant

LEMMA StepSpends ==
  ASSUME CoordinatorInvariant, MoneyInvariant, PaidInvariant, TypesInvariant, SpendingInvariant,
         [Next]_wvars
  PROVE  SpendingInvariant'
<1>1. CASE Dispatch
  BY <1>1, DispatchSpends
<1>2. CASE MapReduceNext \/ SingleNext \/ AgentNext \/ ConsensusNext
  BY <1>2, MapReduceSpends, SingleSpendsOn, AgentSpends, ConsensusSpends
<1>3. CASE TimesOut \/ Crash
  BY <1>3, InterruptionsSpend
<1>4. CASE Cancel \/ Reconvert \/ \E provided \in SUBSET request.tools : ToolResults(provided)
  BY <1>4, CancelSpends, ReconvertSpends, ToolResultsSpend
<1>5. CASE UNCHANGED wvars
  <2>1. /\ UNCHANGED <<request, run, docs, bill>> /\ task' = task
    BY <1>5 DEF wvars
  <2>2. CASE request.max = None
    BY <2>1, <2>2, UnpaidIsWithin DEF SpendingInvariant
  <2>3. CASE request.max # None
    <3>1. task.status \in {"queued", "waiting_for_tools"} => bill.spent = bill.kept_spent
      BY <2>3 DEF SpendingInvariant, RowSpends
    <3> QED BY <2>1, <3>1, SpendingStands
  <2> QED BY <2>2, <2>3
<1> QED BY <1>1, <1>2, <1>3, <1>4, <1>5 DEF Next

\* SpendingIsBounded for any requests, prices, conversions and interruptions: the money
\* that a limit is set on is bounded in every strategy, not only in the result but in
\* what has been paid at each moment, whatever is frozen, taken up again or given up.
THEOREM SpendingStaysBounded ==
  ASSUME NoneIsNoRecord
  PROVE  Spec => []SpendingIsBounded
<1>1. WorkflowInit => SpendingInvariant
  BY SpendingBegins
<1>2. StepsKeep /\ SpendingInvariant /\ [Next]_wvars => SpendingInvariant'
  BY StepSpends DEF StepsKeep
<1>3. SpendingInvariant => SpendingIsBounded
  BY DEF SpendingInvariant
<1> QED BY <1>1, <1>2, <1>3, AllIsKept, PTL DEF Spec
=============================================================================
