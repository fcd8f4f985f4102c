------------------------- MODULE ServicesProperties -------------------------
(* What must hold of the services around the task engine.                   *)
EXTENDS Services, BackupProperties

ResidencyTypeOK ==
  /\ loaded \subseteq Models /\ stray \subseteq Models /\ idle \subseteq Models
  /\ leases \in [Models -> Nat] /\ reserved \in [Models -> Nat]
  /\ holder \in Users \cup {None, "idle"}
  /\ \A u \in Users : user[u].model \in Models \cup {None} /\ user[u].evict \subseteq Models
RoutingTypeOK ==
  /\ offered \subseteq Entries /\ home \in [Entries -> {"local", "near", "cloud"}]
  /\ request \in Requests \cup {Nobody} /\ Cardinality(Length) <= MaxHistory
  /\ \A s \in seen : s.entry \in Entries \cup {Laya, Nobody}
SlotsTypeOK ==
  /\ work \in [Tasks -> Works] /\ victims \in [Tasks -> SUBSET Tasks]
  /\ \A t \in Tasks : probe[t].at \in Phases /\ probe[t].of \in {0} \cup DOMAIN Unproven
  /\ \A i \in DOMAIN attempts : attempts[i] \in 0..Needed
ChannelTypeOK ==
  /\ current \in 0..spawned /\ spawned \in 0..Processes
  /\ starting \subseteq Callers /\ calling \subseteq Callers
  /\ \A c \in Callers : caller[c].asked \in 0..counter /\ caller[c].from \in 0..spawned
BackupTypeOK ==
  /\ base \in Versions /\ journal \in Versions \cup {0}
  /\ file \in [Files -> Versions \cup {0}]
  /\ lock \subseteq Jobs \cup {Service} /\ Cardinality(lock) <= 1

\* Every service keeps the types of its state.
TypeOK ==
  /\ LarmTypeOK /\ ResidencyTypeOK /\ RoutingTypeOK
  /\ SlotsTypeOK /\ ChannelTypeOK /\ BackupTypeOK

\* The models the broker knows to be in memory, or has promised a place to, fit in the
\* budget and in the places for models; and a call is never answered by a model that was
\* unloaded under it.  What Ollama goes on loading for a call that was given up is not
\* known to the broker.
MemoryIsHeld ==
  LET known == (loaded \cup Leased) \ stray IN
  /\ MapThenSumSet(GpuBytes, known) <= Budget
  /\ Cardinality(known \ Pinned) <= Slots
  /\ \A u \in Users : UserAt(u, {"serve"}) => user[u].model \in loaded

\* Whoever reads a prompt, to answer, to judge, to be measured or as a tool, is within the
\* boundary of its request: closed data stays on this machine, models without leave to go
\* out are local, they are of the providers it names, the very model it fixes unless it
\* names its proposers too, and nobody besides the one that answers when it forbids it.  A
\* turn of an agent after a reload is the exception: nothing is looked at again.
BoundaryIsKept ==
  \A s \in seen :
    /\ request.closed \/ (request.said = "no" /\ s.by # "tool") =>
         s.home = "local" \/ (s.by = "turn" /\ s.late)
    /\ s.by \in {"call", "measure"} /\ request.providers # {} =>
         ProviderOf[s.entry] \in request.providers \cup (IF request.closed THEN {"ollama"} ELSE {})
    /\ DemandsExact(request) => s.by \in {"call", "turn", "tool"}
    /\ DemandsExact(request) /\ request.named = {} /\ s.by # "tool" => s.entry = request.target
    /\ ~request.aux => s.by \in {"call", "turn", "tool"}

\* While a local model is measured nobody works whose task needs this machine: it looked
\* long before it started, and the task that came meanwhile waited for its end.
ProbesGiveWay ==
  \A p \in Measuring : Local(probe[p].of) =>
    \A t \in Tasks : LaneOf[t] # "cloud" /\ status[t] = "active" =>
                       work[t] \notin {"working", "waiting", "calling"}

\* A call of the cloud lane does not wait for a slot that a call to a local model holds.
CloudDoesNotWait ==
  \A t \in Tasks : LaneOf[t] = "cloud" /\ work[t] = "waiting" /\ ~HasRoom(slot[t]) =>
    \A u \in Holders(slot[t]) : LaneOf[u] = "cloud"

Readers(p) == {c \in Callers : CallerAt(c, Reading) /\ caller[c].from = p}
Failing(p) == {c \in Callers : CallerAt(c, {"failing"}) /\ caller[c].from = p}
Answers(p) == {child[p].output[i] : i \in DOMAIN child[p].output} \ {0}

\* The calls that raised what no handler catches, and left the process as it was.
Dropped(p) == {c \in Callers : CallerAt(c, {"uncaught"}) /\ caller[c].from = p}

\* A server has one living process and its output one reader, whose answer nobody else
\* takes or loses: the process still owes it or has written it.  A process that is ready
\* for the next call owes no answer to an earlier one, nor has one unread, but for those
\* of the calls that an unexpected line took out of their locks without a handler.
ChannelIsClean ==
  \A p \in 1..Processes :
    /\ child[p].alive => p = current
    /\ Cardinality(Readers(p)) <= 1
    /\ child[p].alive => \A c \in Readers(p) : caller[c].asked \in child[p].owes \cup Answers(p)
    /\ started /\ child[p].alive /\ Readers(p) \cup Failing(p) = {} =>
         child[p].owes \cup Answers(p) \subseteq {caller[c].asked : c \in Dropped(p)}
=============================================================================
