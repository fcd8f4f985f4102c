---------------------------- MODULE MCStrategies ----------------------------
(* Values of the constants of Strategies for TLC.                            *)
EXTENDS StrategiesInvariant

\* What a client may leave unsaid.
Plain ==
  [strategy |-> "single", max |-> None, chunks |-> 2, iterations |-> 2, tools |-> {},
   preset |-> "fast", scheduling |-> "sequential", known |-> FALSE,
   footprints |-> <<>>, substitutes |-> FALSE, rounds |-> 1, judges |-> TRUE,
   signals |-> [s \in DOMAIN (CHOOSE s \in Signals : TRUE) |-> FALSE],
   escalates |-> FALSE, tabular |-> FALSE]
Model(name, bytes) == [model |-> name, size |-> bytes]
\* By size the first goes alone and the two copies together, by number it is not so.
Crew == <<Model("a", 2), Model("b", 2), Model("b", 2)>>

SomeRequests ==
  {[Plain EXCEPT !.max = 1],
   [Plain EXCEPT !.tabular = TRUE],
   [Plain EXCEPT !.strategy = "map_reduce", !.max = 1],
   [Plain EXCEPT !.strategy = "map_reduce", !.max = 2],
   [Plain EXCEPT !.strategy = "agent", !.max = 1, !.tools = {"x", "y"}],
   [Plain EXCEPT !.strategy = "mixture", !.preset = "slow", !.scheduling = "auto",
                 !.known = TRUE, !.footprints = Crew, !.rounds = 2,
                 !.substitutes = TRUE, !.max = 2],
   [Plain EXCEPT !.strategy = "mixture", !.footprints = SubSeq(Crew, 2, 3),
                 !.rounds = 2, !.judges = FALSE],
   [Plain EXCEPT !.strategy = "auto", !.escalates = TRUE, !.max = 1,
                 !.footprints = SubSeq(Crew, 2, 3)]}

TwoRounds ==
  {[Plain EXCEPT !.strategy = "mixture", !.footprints = SubSeq(Crew, 2, 3),
                 !.rounds = 2, !.max = 1]}

\* No evidence, and evidence that single answers are escalated, or fail.
Past(final, escalated, ok) ==
  [chosen |-> "single", final |-> final, escalated |-> escalated, ok |-> ok]
SomeHistories ==
  {<<>>, <<Past("mixture", TRUE, TRUE), Past("mixture", TRUE, TRUE)>>,
   <<Past("single", FALSE, FALSE), Past("single", FALSE, FALSE), Past("agent", FALSE, TRUE)>>}
NoHistory == {<<>>}
=============================================================================
