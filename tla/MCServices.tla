----------------------------- MODULE MCServices -----------------------------
(* Values of the constants of Services for TLC.                             *)
EXTENDS ServicesInvariant, TLC

CONSTANTS
  a, b, s, big,           \* models of Ollama
  chat, draft, embed, judge, hub, leased, \* models of the catalogue
  i1, e1, c1,             \* a task of each lane
  f, g, j1, j2

\* Two ordinary models, the resident classifier, and one that fits in part.
SomeSizes == (a :> 2) @@ (b :> 2) @@ (s :> 1) @@ (big :> 8)
SomeLayers == (a :> 2) @@ (b :> 0) @@ (s :> 0) @@ (big :> 4)

SomeProviders ==
  (chat :> "ollama") @@ (draft :> "ollama") @@ (embed :> "ollama") @@ (judge :> "ollama")
  @@ (hub :> "hub") @@ (leased :> "larm")
SomeAbilities ==
  (chat :> {"completion"}) @@ (draft :> {"completion"}) @@ (embed :> {"embedding"})
  @@ (judge :> {"completion", "decision"}) @@ (hub :> {"completion", "vision"}) @@ (leased :> {"completion"})
SomeWindows ==
  (chat :> 3) @@ (draft :> 3) @@ (embed :> 3) @@ (judge :> 3) @@ (hub :> 5) @@ (leased :> 0)

Ordinary ==
  [kind |-> "completion", needs |-> {}, input |-> 1, output |-> 2, role |-> "single",
   closed |-> FALSE, said |-> "silent", providers |-> {}, target |-> Nobody, home |-> "local",
   prefer |-> {}, fallback |-> TRUE, aux |-> TRUE, learn |-> TRUE, lane |-> FALSE,
   long |-> FALSE, named |-> {}, skills |-> "default", server |-> FALSE, tight |-> FALSE]
SomeRequests == {
  [Ordinary EXCEPT !.closed = TRUE, !.said = "yes", !.providers = {"hub"}],
  [Ordinary EXCEPT !.long = TRUE, !.tight = TRUE, !.lane = TRUE],
  [Ordinary EXCEPT !.said = "yes", !.role = "proposer"],
  [Ordinary EXCEPT !.said = "no", !.fallback = FALSE, !.target = chat],
  [Ordinary EXCEPT !.target = leased, !.prefer = {leased}, !.providers = {"larm", "hub"}],
  [Ordinary EXCEPT !.closed = TRUE, !.role = "agent", !.aux = FALSE],
  [Ordinary EXCEPT !.said = "no", !.role = "agent", !.server = TRUE, !.learn = FALSE],
  [Ordinary EXCEPT !.role = "agent", !.output = 4],
  [Ordinary EXCEPT !.role = "arbiter"],
  [Ordinary EXCEPT !.closed = TRUE, !.role = "proposer", !.named = {chat, hub}],
  [Ordinary EXCEPT !.role = "proposer", !.named = {draft}, !.target = chat, !.fallback = FALSE],
  [Ordinary EXCEPT !.kind = "embedding"],
  \* These ask for what cannot be: a remote target, web skills, a remote server, an image.
  [Ordinary EXCEPT !.closed = TRUE, !.target = hub, !.home = "cloud"],
  [Ordinary EXCEPT !.closed = TRUE, !.role = "agent", !.skills = "web"],
  [Ordinary EXCEPT !.closed = TRUE, !.role = "agent", !.server = TRUE],
  [Ordinary EXCEPT !.said = "no", !.target = hub, !.home = "cloud"],
  [Ordinary EXCEPT !.closed = TRUE, !.needs = {"vision"}]}

LaneOfEach == (i1 :> "inference") @@ (e1 :> "embedding") @@ (c1 :> "cloud")
SomeLimits ==
  [serial |-> <<1>>, background |-> <<1>>, parallel |-> <<1, 2>>, embedding |-> <<2, 1>>]
SomeWidths == [inference |-> 1, embedding |-> 2, cloud |-> 2]
\* The first runs here, the second on another machine.
SomeUnproven == <<chat, hub>>

SomeRefs == <<{f}, {f, g}>>
=============================================================================
