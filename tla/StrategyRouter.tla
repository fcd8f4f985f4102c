-------------------------- MODULE StrategyRouter --------------------------
(* The strategy of a task that asks for `auto`: a heuristic over technical *)
(* signals of the prompt, corrected by what happened to similar tasks      *)
(* (strategy_router.py, _resolve_auto_strategy of coordinator.py).         *)
EXTENDS Naturals, Sequences, FiniteSets

CONSTANTS CasesRead,       \* the latest cases that are looked at
          MinCases,        \* learning_min_cases
          EscalationRate,  \* learning_escalation_threshold, in per cent
          FailureRate      \* learning_failure_threshold, in per cent

ASSUME RatesAreRates ==
  /\ CasesRead \in Nat /\ MinCases \in Nat \ {0}
  /\ EscalationRate \in 0..100 /\ FailureRate \in 0..100

Concrete == {"single", "agent", "mixture"}

\* What classify_request looks for in the prompt and the request.  `open` says
\* that its classification of data allows calls outside the machine.
Signals == [recent : BOOLEAN, calc : BOOLEAN, url : BOOLEAN, deliberative : BOOLEAN,
            long : BOOLEAN, stakes : BOOLEAN, affordable : BOOLEAN, open : BOOLEAN]

\* A task of the past in the same group of signals.
Case == [chosen : Concrete, final : Concrete, escalated : BOOLEAN, ok : BOOLEAN]

StrategyForSignals(s) ==
  CASE s.recent \/ s.calc \/ s.url -> "agent"
    [] ~(s.recent \/ s.calc \/ s.url)
       /\ (s.deliberative \/ s.long \/ s.stakes) /\ s.affordable -> "mixture"
    [] OTHER -> "single"

\* Without permission to leave the machine an agent has no network skills, so the
\* signals that call for the network do not count; a calculation still does.
Classify(s) ==
  IF StrategyForSignals(s) = "agent" /\ ~s.open
    THEN StrategyForSignals([s EXCEPT !.recent = FALSE, !.url = FALSE])
    ELSE StrategyForSignals(s)

\* The cases that ended with the strategy s.
TriedWith(cases, s) == {i \in DOMAIN cases : cases[i].final = s}
AtLeast(part, whole, rate) == part * 100 >= rate * whole

\* The final strategy with the best rate of success, the more evidence on a tie,
\* and of two equal in both the one met first.
BestBySuccess(cases) ==
  LET Tried(s) == Cardinality(TriedWith(cases, s))
      Good(s) == Cardinality({i \in TriedWith(cases, s) : cases[i].ok})
      First(s) == CHOOSE i \in DOMAIN cases :
                    cases[i].final = s /\ \A j \in 1..(i - 1) : cases[j].final # s
      Beats(s, t) ==
        \/ Good(s) * Tried(t) > Good(t) * Tried(s)
        \/ /\ Good(s) * Tried(t) = Good(t) * Tried(s)
           /\ (Tried(s) > Tried(t) \/ (Tried(s) = Tried(t) /\ First(s) < First(t)))
      met == {cases[i].final : i \in DOMAIN cases}
  IN CHOOSE s \in met : \A t \in met \ {s} : Beats(s, t)

\* The heuristic's choice, unless similar tasks say that it escalates or fails.
Recommended(heuristic, cases) ==
  LET chosen == {i \in DOMAIN cases : cases[i].chosen = "single"}
      singles == Cardinality(chosen)
      escalated == Cardinality({i \in chosen : cases[i].escalated})
      tried == Cardinality(TriedWith(cases, heuristic))
      failed == Cardinality({i \in TriedWith(cases, heuristic) : ~cases[i].ok})
  IN CASE Len(cases) < MinCases -> heuristic
       [] Len(cases) >= MinCases /\ heuristic = "single" /\ singles >= MinCases
          /\ AtLeast(escalated, singles, EscalationRate) -> "mixture"
       [] OTHER -> IF tried >= MinCases /\ AtLeast(failed, tried, FailureRate)
                     THEN BestBySuccess(cases)
                     ELSE heuristic

\* The cases are read from the latest to the oldest, and not all of them.
Latest(cases) == SubSeq(cases, 1, IF Len(cases) < CasesRead THEN Len(cases) ELSE CasesRead)
Route(signals, cases) == Recommended(Classify(signals), Latest(cases))
=============================================================================
