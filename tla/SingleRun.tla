----------------------------- MODULE SingleRun -----------------------------
(* A task answered by one call, and the same with a judge that may send it *)
(* on to a mixture (_process_single, _process_single_with_escalation).     *)
EXTENDS Workflow

\* The model and its understudies are chosen; the row says generating.
SelectSingle ==
  /\ run.pc = "single"
  /\ \/ Fails("PROVIDER_ERROR")
     \/ Writes("active") /\ UNCHANGED bill
        /\ GoesOn([pc |-> "single_call", escalates |-> run.escalates, spent |-> 0])

\* Retries and understudies repeat the call until one answers or the last one fails.
SingleAnswered ==
  /\ run.pc = "single_call"
  /\ \E c \in Costs :
       /\ Fits(c, request.max, 1)
       /\ Pays(<<"single">>, c)
       /\ GoesOn([run EXCEPT !.pc = "single_done", !.spent = c])
  /\ UNCHANGED task
SingleFailed ==
  run.pc = "single_call" /\ \E code \in Errors(request.max, 1) : Fails(code)

SingleKept ==
  /\ run.pc = "single_done"
  /\ \/ task.cancel /\ EndsAs("cancelled")
     \/ /\ ~task.cancel /\ UNCHANGED <<task, bill>>
        /\ GoesOn([run EXCEPT !.pc = IF run.escalates THEN "rate_call" ELSE "single_save"])
SaveSingle == CompletesSingle("single_save", [of |-> "single"])

\* The judge is asked with the whole limit; no usable mark is a mark of 1.
Rated ==
  /\ run.pc = "rate_call"
  /\ \E c \in Costs, next \in {"single_save", "escalate"} :
       /\ Fits(c, request.max, 1)
       /\ Pays(<<"rate">>, c)
       /\ GoesOn([run EXCEPT !.pc = next, !.spent = @ + c])
  /\ UNCHANGED task
RatingFailed ==
  /\ run.pc = "rate_call"
  /\ GoesOn([run EXCEPT !.pc = "single_save"]) /\ UNCHANGED <<task, bill>>
\* A low mark starts a mixture on what remains, without a look at the flag.
Escalate ==
  /\ run.pc = "escalate"
  /\ \/ NothingLeft(run.spent, request.max) /\ Fails("BUDGET_EXCEEDED")
     \/ /\ ~NothingLeft(run.spent, request.max) /\ UNCHANGED <<task, bill>>
        /\ GoesOn(ToMixture(Remaining(run.spent, request.max), "fast", "sequential"))

SingleNext ==
  \/ SelectSingle \/ SingleAnswered \/ SingleFailed \/ SingleKept \/ SaveSingle
  \/ Rated \/ RatingFailed \/ Escalate
=============================================================================
