---------------------------- MODULE ModelRouting ----------------------------
(***************************************************************************)
(* Which model is given the prompt of a request, and who else reads it     *)
(* (RoutedModelProvider in app/providers/routing.py, with the evidence of  *)
(* app/model_quarantine.py, the classifier of app/system1.py and the       *)
(* measurements of app/shadow_probe.py).                                   *)
(*                                                                         *)
(* One request at a time: what requests leave to each other is the history *)
(* of the models.  A reload may change what a provider publishes between   *)
(* the choice of a model and its call.  Tasks are of one type, the ranking *)
(* adapts to what was measured and the strongest arbiter is asked, as by   *)
(* default; among the models with a measured time any may be the fastest.  *)
(***************************************************************************)
EXTENDS Integers, Sequences, FiniteSets, Functions

CONSTANTS
  Nobody,
  Entries,       \* models of the catalogue
  ProviderOf,    \* the provider of each
  Abilities,     \* what each declares: completion, embedding, decision, vision, image
  Window,        \* its context, 0 when it is unknown
  Margin,        \* of the context, kept for the form of the messages
  Unsuited,      \* those that task_affinity puts aside
  TooBig,        \* local ones beyond the memory of the machine
  Toolless,      \* those known not to call tools
  Dear,          \* remote ones beyond a tight limit of cost, or without a price
  Movable,       \* those of custom providers, whose deployment is configured
  Fleeting,      \* those whose provider may stop publishing them
  Laya,          \* the classifier behind MCP
  LayaHome,      \* its data boundary, "none" without one
  Judge,         \* system1.ollama.model
  Requests,      \* what clients ask
  Streak,        \* model_quarantine.consecutive_failures
  RoleMin,       \* role_min_attempts
  RolePercent,   \* role_max_failure_rate
  Proven,        \* arbiter_proven_attempts
  Enough,        \* routing.min_invocations
  MaxHistory,    \* bound: invocations within the window
  MaxReloads     \* bound: changes of what the providers publish

ASSUME RoutingAssumption ==
  /\ ProviderOf \in [Entries -> STRING] /\ Window \in [Entries -> Nat]
  /\ Unsuited \cup TooBig \cup Toolless \cup Dear \subseteq Entries
  /\ Movable \cup Fleeting \cup {Judge} \subseteq Entries
  /\ {Streak, RoleMin, Proven, Enough} \subseteq Nat \ {0}
  /\ RolePercent \in 1..100 /\ {Margin, MaxHistory, MaxReloads} \subseteq Nat
  \* The names of the providers of the house are not for custom ones.
  /\ \A m \in Movable : ProviderOf[m] \notin {"ollama", "deepseek", "larm"}
  /\ \A r \in Requests : r.named \subseteq Entries /\ r.target \in Entries \cup {Nobody}
  /\ Laya \notin Entries /\ Nobody \notin Entries

VARIABLES
  home,      \* deployment of each entry: "local", "near" (labelled cloud, on this machine) or "cloud"
  offered,   \* entries that the providers publish as compatible
  history,   \* of each entry, the group of roles and outcome of its invocations in the window
  request,   \* as the client posted it
  stage,
  chosen,    \* the ModelReference in use: the entry and the deployment it had
  rest,      \* the references that follow it in the ranking
  seen,      \* who is given the prompt in this step, how and where it is
  reloads    \* [count, late]: reloads so far, and one since the choice

routingVars == <<home, offered, history, request, stage, chosen, rest, seen, reloads>>

\* The boundary goes by the label: only "local" counts as local.
Label(m) == IF home[m] = "local" THEN "local" ELSE "cloud"
Ref(m) == [entry |-> m, home |-> Label(m)]

\* --- What a posted request comes to: its classification rules what it left unsaid.
LocalNames == {"ollama", "lmstudio", "larm"}
CloudNames == {"deepseek", "ollama_cloud", "openai", "anthropic", "google"}
MayLeave(r) == ~r.closed /\ r.said # "no"
Providers(r) ==
  LET near == r.providers \cap LocalNames IN
  IF ~r.closed \/ r.providers = {} THEN r.providers
  ELSE IF near = {} THEN {"ollama"} ELSE near
Preferred(r) == IF r.prefer = {} THEN {r.target} \ {Nobody} ELSE r.prefer

\* enforce_cloud_policy: what the client says of models contradicts itself.
Contradictory(r) ==
  \/ r.said = "no" /\ r.providers \cap CloudNames # {}
  \/ /\ r.target # Nobody
     /\ \/ r.providers # {} /\ ProviderOf[r.target] \notin r.providers
        \/ r.prefer # {} /\ r.target \notin r.prefer
        \/ r.said = "no" /\ (r.home # "local" \/ ProviderOf[r.target] \in CloudNames)

\* Closed data cannot go where it was asked to: a model, a skill or an MCP server.
Leaking(r) ==
  /\ r.closed
  /\ \/ r.target # Nobody /\ (ProviderOf[r.target] \notin LocalNames \/ r.home = "cloud")
     \/ r.skills = "web"
     \/ r.server /\ LayaHome # "local"

\* --- The evidence: "ok", "bad" (a definitive code) or "odd" (a circumstance).
RoleGroup(role) == IF role \in {"proposer", "arbiter"} THEN role ELSE "none"
Rows(m, role) == {i \in DOMAIN history[m] : history[m][i].group = RoleGroup(role)}
Bad(m) == {i \in DOMAIN history[m] : history[m][i].out = "bad"}
Good(m) == {i \in DOMAIN history[m] : history[m][i].out = "ok"}

\* load_quarantine: enough definitive failures since the last success.
Quarantined(m) == Cardinality({i \in Bad(m) : \A j \in Good(m) : j < i}) >= Streak

\* load_model_stats counts them all, whatever their outcome.
Invocations(m) == Len(history[m])
Attempts(m, role) == Cardinality(Rows(m, role) \cap (Bad(m) \cup Good(m)))
Failures(m, role) == Cardinality(Rows(m, role) \cap Bad(m))
Flaky(m, role) == Failures(m, role) * 100 >= RolePercent * Attempts(m, role)
Unfit(m, role) ==
  RoleGroup(role) # "none" /\ Attempts(m, role) >= RoleMin /\ Flaky(m, role)

\* ArbiterRecord.band: 0 proven, 1 untried, 2 proven and weak, 3 mostly failing.
Band(m) ==
  LET tries == Attempts(m, "arbiter")  falls == Failures(m, "arbiter") IN
  IF falls > tries - falls THEN 3
  ELSE IF tries < Proven THEN 1 ELSE IF Flaky(m, "arbiter") THEN 2 ELSE 0

\* --- eligible_catalog.
\* Faulty: what runs on this machine is local, whatever its label.
PermittedNear(r, remote) ==
  {m \in offered : /\ ProviderOf[m] = "larm" => m = r.target
                   /\ Providers(r) # {} => ProviderOf[m] \in Providers(r)
                   /\ MayLeave(r) \/ home[m] # "cloud"
                   /\ remote => home[m] = "cloud"}

\* A LARM variant only by its exact name, the providers of the request, and the
\* boundary of its data: without leave only what is labelled local.  The cloud lane
\* sees only what another machine serves.
Permitted(r, remote) ==
  {m \in offered : /\ ProviderOf[m] = "larm" => m = r.target
                   /\ Providers(r) # {} => ProviderOf[m] \in Providers(r)
                   /\ MayLeave(r) \/ home[m] = "local"
                   /\ remote => home[m] = "cloud"}

\* Fail-open, before anybody looks at what the rest can do.
Catalogue(r, remote) ==
  LET sound == {m \in Permitted(r, remote) : ~Quarantined(m)} IN
  IF sound = {} THEN Permitted(r, remote) ELSE sound

Capable(r, catalogue) ==
  {m \in catalogue : /\ {r.kind} \cup r.needs \subseteq Abilities[m]
                     /\ r.kind = "completion" => "decision" \notin Abilities[m]}

\* The answer is cut to what the context leaves; LARM says itself what fits.
Room(r, m) == Window[m] - r.input - Margin
FitsWindow(r, m) ==
  ProviderOf[m] = "larm" \/ IF r.kind = "embedding" THEN r.input <= Window[m] ELSE Room(r, m) >= 1
Roomy(r, m) == ProviderOf[m] = "larm" \/ 2 * Room(r, m) >= r.output

\* Those with room for half of the answer, if there are any.
InContext(r, capable) ==
  LET fits == {m \in capable : FitsWindow(r, m)}
      roomy == {m \in fits : r.kind = "embedding" \/ Roomy(r, m)}
  IN IF roomy = {} THEN fits ELSE roomy

Eligible(r, remote) == InContext(r, Capable(r, Catalogue(r, remote)))

\* --- select.
\* One model and no relief: it is part of what was asked, or of a long document.
Fixed(r) == r.kind = "embedding" \/ r.target # Nobody \/ ~r.fallback \/ r.long
\* Nobody the request may use sees its images, or draws the one it asks for.
Blind(r) == \E need \in r.needs : \A m \in Catalogue(r, r.lane) : need \notin Abilities[m]
Matched(r) == r.target \in Eligible(r, r.lane) /\ Label(r.target) = r.home
Refused(r) ==
  LET fit == Eligible(r, r.lane) IN
  \/ fit = {} \/ Blind(r)
  \/ ~r.fallback /\ r.target # Nobody /\ ~Matched(r)
  \/ ~r.fallback /\ Preferred(r) # {} /\ Preferred(r) \cap fit = {}

\* Affinity and fitness for the role give way before they leave nobody.
SetAside(fit) == fit \cap Unsuited
Apt(fit) == IF SetAside(fit) = fit THEN fit ELSE fit \ SetAside(fit)
Fitting(pool, role) ==
  IF \A m \in pool : Unfit(m, role) THEN pool ELSE {m \in pool : ~Unfit(m, role)}

Ranked(r) ==
  LET fit == Eligible(r, r.lane) IN
  IF Matched(r) THEN {r.target}
  ELSE IF Preferred(r) = {} THEN Fitting(Apt(fit), r.role)
  ELSE Apt(fit) \cup (Preferred(r) \cap fit)

\* --- Who comes first.
\* A time is expected of those that answered, once there is evidence enough.
Timed(m) == Invocations(m) >= Enough /\ Good(m) # {}
\* Of the others the one that lacks least, then the untried, then the least used.
EvidenceRank(m) ==
  LET n == Invocations(m) IN IF n \in 1..(Enough - 1) THEN Enough - n ELSE Enough + n
Leaders(pool) ==
  LET timed == {m \in pool : Timed(m)} IN
  IF timed # {} THEN timed
  ELSE {m \in pool : \A n \in pool : EvidenceRank(m) <= EvidenceRank(n)}

\* Those that lack measurements: the most advanced of them.
Unmeasured(pool) ==
  LET short == {m \in pool : Invocations(m) < Enough} IN
  {m \in short : \A n \in short : Invocations(n) <= Invocations(m)}
\* Exploring, one of them takes the place of the leader; or any, if all are measured.
Explored(others) == IF Unmeasured(others) = {} THEN others ELSE Unmeasured(others)
Opening(pool) == Leaders(pool) \cup UNION {Explored(pool \ {m}) : m \in Leaders(pool)}

\* By size of memory and by record; exploring, an untried one before a proven one.
Arbiters(pool) ==
  LET rank == [m \in pool |-> (IF m \in TooBig /\ home[m] = "local" THEN 10 ELSE 0) + Band(m)]
      first == {m \in pool : \A n \in pool : rank[m] <= rank[n]}
  IN IF \E m \in first : Band(m) = 0 THEN first \cup {m \in pool : rank[m] = 1} ELSE first

ServedRemotely(pool) == {m \in pool : home[m] = "cloud"}

\* Served by another machine before this one; fitness for the role is looked at when
\* the order stands, and whoever follows those it takes out comes first.
First(r) ==
  LET pool == Ranked(r)
      liked == Preferred(r) \cap pool
      apt == Apt(Eligible(r, r.lane))
      away == IF MayLeave(r) THEN ServedRemotely(apt) ELSE {}
      block == IF away = {} THEN apt ELSE away
  IN IF liked # {} THEN liked
     ELSE IF r.role = "arbiter" /\ Preferred(r) = {} THEN Arbiters(pool)
     ELSE IF Opening(block) \subseteq pool THEN Opening(block)
     ELSE IF block \cap pool # {} THEN block \cap pool ELSE pool

\* System-1 only reads for a selection of one model, and when it has a choice among
\* those the budget allows.
Affordable(r) == {m \in Ranked(r) : r.tight => m \notin Dear \/ Label(m) = "local"}
Classified(r) ==
  /\ r.role = "single" /\ Fixed(r) /\ Preferred(r) = {} /\ r.kind = "completion"
  /\ r.aux /\ Cardinality(Affordable(r)) > 1

Reader(by, m) ==
  [by |-> by, entry |-> m, late |-> reloads.late,
   home |-> IF m = Laya THEN LayaHome ELSE IF m = Nobody THEN "cloud" ELSE home[m]]
Shows(by, m) == seen' = {Reader(by, m)}
ShowsNobody == seen' = {}

RoutingInit ==
  /\ home \in {h \in [Entries -> {"local", "cloud"}] : \A m \in Entries :
                 IF ProviderOf[m] \in {"ollama", "larm"} THEN h[m] = "local" ELSE h[m] = "cloud"}
  /\ offered = Entries /\ history = [m \in Entries |-> <<>>]
  /\ request = Nobody /\ stage = "idle" /\ chosen = Nobody /\ rest = {} /\ seen = {}
  /\ reloads = [count |-> 0, late |-> FALSE]

Receive ==
  /\ stage \in {"idle", "refused", "failed"}
  /\ request' \in Requests /\ chosen' = Nobody /\ rest' = {} /\ ShowsNobody
  /\ stage' = IF Contradictory(request') \/ Leaking(request') THEN "refused" ELSE "select"
  /\ reloads' = [reloads EXCEPT !.late = FALSE]
  /\ UNCHANGED <<home, offered, history>>

Select ==
  /\ stage = "select" /\ request.named = {}
  /\ IF Refused(request)
       THEN stage' = "refused" /\ UNCHANGED <<chosen, rest>>
       ELSE \E m \in First(request) :
              /\ chosen' = Ref(m)
              /\ rest' = IF Fixed(request) THEN {} ELSE {Ref(n) : n \in Ranked(request) \ {m}}
              /\ stage' = IF Classified(request) THEN "route"
                          ELSE IF request.role = "agent" THEN "check" ELSE "call"
  /\ reloads' = [reloads EXCEPT !.late = FALSE]
  /\ ShowsNobody /\ UNCHANGED <<home, offered, history, request>>

\* The client names the models itself, with the deployment it believes they have.
UseNamed ==
  /\ stage = "select" /\ request.named # {}
  /\ \E m \in request.named, h \in {"local", "cloud"} : chosen' = [entry |-> m, home |-> h]
  /\ stage' = "call" /\ ShowsNobody /\ UNCHANGED <<home, offered, history, request, rest, reloads>>

\* Both look at the boundary themselves; the second is asked when the first fails.
LayaJudgment == LayaHome # "none" /\ (MayLeave(request) \/ LayaHome = "local")
OllamaJudgment ==
  /\ Judge \in offered /\ {"completion", "decision"} \subseteq Abilities[Judge]
  /\ MayLeave(request) \/ Label(Judge) = "local"
Classify ==
  /\ stage = "route"
  /\ \/ LayaJudgment /\ Shows("judge", Laya)
     \/ OllamaJudgment /\ Shows("judge", Judge)
  /\ UNCHANGED <<home, offered, history, request, stage, chosen, rest, reloads>>

\* An accepted judgment may put another of the candidates first.
Route ==
  /\ stage = "route" /\ stage' = "call"
  /\ chosen' \in {chosen} \cup {Ref(m) : m \in Affordable(request)}
  /\ ShowsNobody /\ UNCHANGED <<home, offered, history, request, rest, reloads>>

\* _generate_raw looks again at what it was given.
Published(ref) == ref.entry \in offered /\ Label(ref.entry) = ref.home
Accepts(ref) ==
  LET m == ref.entry IN
  /\ Providers(request) = {} \/ ProviderOf[m] \in Providers(request)
  /\ IF ProviderOf[m] = "larm" THEN ref.home = "local"
     ELSE Published(ref) /\ (MayLeave(request) \/ ref.home = "local")

Length == {p \in Entries \X (1..MaxHistory) : p[2] \in DOMAIN history[p[1]]}
Recorded(m, role, out) ==
  IF request.learn
    THEN /\ Cardinality(Length) < MaxHistory
         /\ history' = [history EXCEPT ![m] = Append(@, [group |-> RoleGroup(role), out |-> out])]
    ELSE UNCHANGED history

Call ==
  /\ stage = "call"
  /\ \/ /\ Accepts(chosen) /\ Shows("call", chosen.entry)
        /\ \E out \in {"ok", "bad", "odd"} :
             /\ Recorded(chosen.entry, request.role, out)
             /\ stage' = IF out = "ok" THEN "answered" ELSE "error"
     \/ /\ ~Accepts(chosen) /\ ShowsNobody /\ stage' = "error"
        /\ \E out \in {"bad", "odd"} : Recorded(chosen.entry, request.role, out)
  /\ UNCHANGED <<home, offered, request, chosen, rest, reloads>>

\* ensure_agent_capable: LARM does not converse, and a model may be known not to call
\* tools; one that is not in the catalogue passes.
HasAgents(m) == ProviderOf[m] # "larm"
CheckAgent ==
  /\ stage = "check"
  /\ stage' = IF HasAgents(chosen.entry) /\ chosen.entry \notin offered \cap Toolless
                THEN "turn" ELSE "failed"
  /\ ShowsNobody /\ UNCHANGED <<home, offered, history, request, chosen, rest, reloads>>

\* The tools of the request that read what the agent writes to them: without a word of
\* the client the web is among them, unless its data is closed.
Tools(r) ==
  {Reader("tool", x) : x \in
     (IF r.server THEN {Laya} ELSE {})
     \cup (IF r.skills = "web" \/ (r.skills = "default" /\ ~r.closed) THEN {Nobody} ELSE {})}

\* A turn of an agent goes to the provider as it is now.
Turn ==
  /\ stage = "turn"
  /\ IF chosen.entry \notin offered
       THEN /\ stage' = "error" /\ ShowsNobody
            /\ Recorded(chosen.entry, "agent", "bad")
       ELSE \E out \in {"ok", "bad", "odd"} :
              /\ Recorded(chosen.entry, "agent", out)
              /\ stage' \in IF out = "ok" THEN {"turn", "answered"} ELSE {"error"}
              /\ \E tools \in SUBSET Tools(request) :
                   /\ tools # {} => stage' = "turn"
                   /\ seen' = {Reader("turn", chosen.entry)} \cup tools
  /\ UNCHANGED <<home, offered, request, chosen, rest, reloads>>

\* The next of the ranking: for `single` when one fails, for an arbiter once, and for
\* proposers anyway.
Follows(next) ==
  /\ chosen' = next /\ stage' = "call"
  /\ ShowsNobody /\ UNCHANGED <<home, offered, history, request, reloads>>
Failover ==
  /\ stage = "error" /\ request.role = "single"
  /\ \E next \in rest : Follows(next) /\ rest' = rest \ {next}
NextProposer ==
  /\ stage \in {"error", "answered"} /\ request.role = "proposer"
  /\ \E next \in rest : Follows(next) /\ rest' = rest \ {next}
\* The arbiter reads more than the request: the proposals too.  One whose window is not
\* known is asked all the same.
Synthesis(r) == [r EXCEPT !.input = @ + 1]
Readable(ref) == Published(ref) => FitsWindow(Synthesis(request), ref.entry)
SubstituteArbiter ==
  /\ stage = "error" /\ request.role = "arbiter"
  /\ \E next \in rest : Readable(next) /\ Follows(next) /\ rest' = {}
GiveUpRequest ==
  /\ stage = "error" /\ stage' = "failed" /\ UNCHANGED <<chosen, rest>>
  /\ ShowsNobody /\ UNCHANGED <<home, offered, history, request, reloads>>

DemandsExact(r) == r.target # Nobody /\ ~r.fallback
Probeable(r) == r.kind = "completion" /\ r.aux /\ r.learn /\ ~DemandsExact(r)

\* choose_aspirant.  The measurement is not bound to the cloud lane.
Aspirants(local) == Unmeasured({m \in Eligible(request, FALSE) : local \/ Label(m) # "local"})
Measure ==
  /\ stage = "answered" /\ Probeable(request)
  /\ \E local \in BOOLEAN : \E m \in Aspirants(local) :
       /\ Shows("measure", m)
       /\ \E out \in {"ok", "bad", "odd"} : Recorded(m, "shadow_probe", out)
  /\ stage' = "idle" /\ UNCHANGED <<home, offered, request, chosen, rest, reloads>>
Finish ==
  /\ stage = "answered" /\ stage' = "idle"
  /\ ShowsNobody /\ UNCHANGED <<home, offered, history, request, chosen, rest, reloads>>

\* A reload of the configuration, or a provider that does not answer any more.  What a
\* model did under another label is not what it does under this one.
ReloadProviders ==
  /\ reloads.count < MaxReloads
  /\ reloads' = [count |-> reloads.count + 1, late |-> TRUE]
  /\ \/ \E m \in Movable, h \in {"local", "near", "cloud"} :
          /\ home' = [home EXCEPT ![m] = h] /\ UNCHANGED offered
          /\ history' = IF (h = "local") = (home[m] = "local") THEN history
                         ELSE [history EXCEPT ![m] = <<>>]
     \/ \E m \in Fleeting : offered' = offered \ {m} /\ UNCHANGED <<home, history>>
  /\ ShowsNobody /\ UNCHANGED <<request, stage, chosen, rest>>

\* The oldest invocation leaves the window.
Forget ==
  /\ \E m \in Entries : history[m] # <<>> /\ history' = [history EXCEPT ![m] = Tail(@)]
  /\ ShowsNobody /\ UNCHANGED <<home, offered, request, stage, chosen, rest, reloads>>

RoutingNext ==
  \/ Receive \/ Select \/ UseNamed \/ Classify \/ Route \/ Call \/ CheckAgent \/ Turn
  \/ Failover \/ NextProposer \/ SubstituteArbiter \/ GiveUpRequest
  \/ Measure \/ Finish \/ ReloadProviders \/ Forget
=============================================================================
