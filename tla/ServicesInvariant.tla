------------------------- MODULE ServicesInvariant -------------------------
(***************************************************************************)
(* The inductive invariants behind the theorems of ServicesProofs, one for *)
(* each of the services that the theorems are about.                       *)
(***************************************************************************)
EXTENDS ServicesProperties

----------------------------------------------------------------------------
(* Copies of the state: what a job knows of what it found, and the others, *)
(* by the lock and the marker, of it.                                      *)

Restoring == {"mark", "replace", "replaced", "undo", "undone", "unmark", "restored"}
JobPlaces == {"none", "copy", "files", "verify"} \cup Restoring
StateRow == [base : Versions \cup {0}, file : [Files -> Versions \cup {0}]]
UndoRow == [target : Files \cup {"base"}, was : Versions \cup {0}]
JobRow == [at : JobPlaces, copy : StateRow, todo : SUBSET Files, undo : Seq(UndoRow),
           prior : BOOLEAN, before : StateRow]

BackupIsTyped ==
  /\ base \in Versions /\ journal \in Versions \cup {0}
  /\ file \in [Files -> Versions \cup {0}] /\ marker \in BOOLEAN
  /\ job \in [Jobs -> JobRow] /\ losses \in Nat
  /\ backups \subseteq {copy \in StateRow : copy.base \in Versions /\ Whole(copy)}

\* The lock is of whoever works: the service, or one job; and the service does not work
\* on what a restoration left unfinished.
LockIsHeld ==
  /\ lock \in {{}, {Service}} \cup {{j} : j \in Jobs}
  /\ \A j \in Jobs : ~JobAt(j, "none") => lock = {j}
  /\ Up => ~marker
\* Without the marker, the base, its journal and its files are of one version.
UnmarkedIsOne == ~marker => journal \in {0, base} /\ Contained(State)

\* What the job replaced is there, but for what was lost since.
Restored(j, f) == file[f] \in {0, job[j].copy.file[f]}
Replaced(j) ==
  /\ job[j].copy.base \in Versions /\ Whole(job[j].copy)
  /\ job[j].at \in {"mark", "replace"} =>
       \A f \in Contents(job[j].copy) \ job[j].todo : Restored(j, f)
  /\ job[j].at \in {"replaced", "unmark"} =>
       base = job[j].copy.base /\ \A f \in Contents(job[j].copy) : Restored(j, f)
  /\ JobAt(j, "unmark") => journal = 0

\* What it found is on record: in place or in the undo list, once.
Found(j, f, v) == v = job[j].before.file[f] \/ (v = 0 /\ losses > 0)
Target(j, i) == job[j].undo[i].target
Replacements(j) == {Target(j, i) : i \in 1..Len(job[j].undo)}
Undoable(j) ==
  /\ base = job[j].before.base
  /\ \A f \in Files \ Replacements(j) : Found(j, f, file[f])
  /\ \A i \in 1..Len(job[j].undo) :
       Target(j, i) \in Files /\ Found(j, Target(j, i), job[j].undo[i].was)
  /\ \A i, k \in 1..Len(job[j].undo) : Target(j, i) = Target(j, k) => i = k
  /\ JobAt(j, "replace") => job[j].todo \cap Replacements(j) = {}
  /\ job[j].at \in {"mark", "undone"} => job[j].undo = << >>

\* A restoration that found no marker found a state of one version.
Marked(j) ==
  /\ job[j].at \in {"replace", "replaced", "undo", "unmark"} => marker
  /\ \/ JobAt(j, "mark") /\ ~marker
     \/ job[j].at \in {"replace", "undo"} /\ ~job[j].prior
     => journal \in {0, job[j].before.base} /\ Contained(job[j].before)

BackupInvariant ==
  /\ BackupIsTyped /\ LockIsHeld /\ UnmarkedIsOne
  /\ \A j \in Jobs :
       /\ job[j].at \in {"files", "verify"} => job[j].copy.base \in Versions
       /\ job[j].at \in {"mark", "replace", "replaced", "unmark"} => Replaced(j)
       /\ job[j].at \in {"mark", "replace", "undo", "undone"} => Undoable(j)
       /\ Marked(j)

----------------------------------------------------------------------------
(* Slots and probes.                                                       *)

SlotsAreTyped ==
  /\ status \in [Tasks -> {"queued", "active", "cancelled", "completed"}]
  /\ work \in [Tasks -> Works] /\ victims \in [Tasks -> SUBSET Tasks]
  /\ probe \in [Tasks -> [at : Phases, local : BOOLEAN, of : {0} \cup DOMAIN Unproven]]
  /\ \A t \in Tasks : probe[t].at \in {"start", "wait", "measure"} =>
                        probe[t].of \in DOMAIN Unproven
  /\ attempts \in [DOMAIN Unproven -> 0..Needed]

\* Once a task of this machine has begun to look for probes, none is left, and none comes
\* up while it works, that measures a local model or is about to.
Proceeding == {"yielding", "working", "waiting", "calling"}
NeedsMachine(t) == LaneOf[t] # "cloud" /\ status[t] = "active" /\ work[t] \in Proceeding
Threatens(p) ==
  \/ probe[p].at = "choose" /\ probe[p].local
  \/ probe[p].at \in {"start", "wait", "measure"} /\ Local(probe[p].of)

SlotsInvariant ==
  /\ SlotsAreTyped
  /\ \A t, p \in Tasks : ~(NeedsMachine(t) /\ Threatens(p))

----------------------------------------------------------------------------
(* The routing of requests.                                                *)

Invocation == [group : {"proposer", "arbiter", "none"}, out : {"ok", "bad", "odd"}]
Reference == [entry : Entries, home : {"local", "cloud"}]

RoutingIsTyped ==
  /\ home \in [Entries -> {"local", "near", "cloud"}] /\ offered \subseteq Entries
  /\ history \in [Entries -> Seq(Invocation)]
  /\ IsFiniteSet(Length) /\ Cardinality(Length) <= MaxHistory
  /\ request \in Requests \cup {Nobody}
  /\ reloads \in [count : Nat, late : BOOLEAN]
  /\ \A s \in seen : s.entry \in Entries \cup {Laya, Nobody}
  /\ \A m \in Entries : ProviderOf[m] = "larm" => home[m] = "local"

\* A request on its way was not refused at the door, and whoever it was given to is the
\* one it fixes; an agent keeps the home it had at the choice until a reload.
Given == {"route", "check", "call", "turn", "answered", "error"}
RequestIsKept ==
  /\ stage \in {"select"} \cup Given =>
       /\ request \in Requests /\ ~Contradictory(request) /\ ~Leaking(request)
       /\ rest \subseteq Reference
  /\ stage \in Given =>
       /\ chosen \in Reference
       /\ DemandsExact(request) /\ request.named = {} =>
            chosen.entry = request.target /\ rest = {}
  /\ stage = "route" => request.aux /\ ~DemandsExact(request)
  /\ stage \in {"check", "turn"} /\ ~reloads.late =>
       MayLeave(request) \/ home[chosen.entry] = "local"

RoutingInvariant == RoutingIsTyped /\ RequestIsKept /\ BoundaryIsKept

----------------------------------------------------------------------------
(* The models in memory.                                                   *)

Loadable == {m \in Models : Fits(m)}
UserPlaces == {"idle", "wait", "check", "evict", "load", "serve", "leave", "done"}
UserRow == [pc : UserPlaces, model : Models \cup {None}, evict : SUBSET Models, last : BOOLEAN]
Waits(u) == UserAt(u, {"wait", "check", "evict"})
Borrows(u) == UserAt(u, {"load", "serve", "leave"})
Borrowers(m) == {u \in Users : Borrows(u) /\ user[u].model = m}

ResidencyIsTyped ==
  /\ loaded \subseteq Loadable /\ stray \subseteq Loadable /\ idle \subseteq Models
  /\ leases \in [Models -> Nat] /\ Leased \subseteq Loadable
  /\ holder \in Users \cup {None, "idle"}
  /\ user \in [Users -> UserRow]
  /\ \A u \in Users : Waits(u) \/ Borrows(u) => user[u].model \in Loadable

\* Each call that has a lease is counted; whoever has a lease has its size reserved, and
\* the lock is of the admission or the eviction at hand, or of a round that began with no
\* lease at all.
LeasesAreCounted == \A m \in Models : Cardinality(Borrowers(m)) <= leases[m]
SizesAreReserved == reserved = [m \in Models |-> IF leases[m] > 0 THEN GpuBytes(m) ELSE 0]
LifecycleIsHeld ==
  /\ \A u \in Users : UserAt(u, {"check", "evict"}) => holder = u
  /\ holder = "idle" => Leased = {}

ResidencyInvariant ==
  /\ ResidencyIsTyped /\ LeasesAreCounted /\ SizesAreReserved /\ LifecycleIsHeld
  /\ MemoryIsHeld

----------------------------------------------------------------------------
(* The channel of an MCP server.                                           *)

CallerPlaces == {"idle", "queue", "start", "spawn", "failing"} \cup Reading \cup Ended
CallerRow == [at : CallerPlaces, wants : {"tools", "call"}, asked : Nat, from : Nat,
              noise : Nat, was : CallerPlaces]
ChildRow == [alive : BOOLEAN, owes : SUBSET Nat, output : Seq(Nat)]

\* Inside `_lock`, or inside `_call_lock` to read an answer, or on the way out.
Stands(c, places) ==
  caller[c].at \in places \/ (CallerAt(c, {"failing"}) /\ caller[c].was \in places)
InLock(c) == Stands(c, Handshake)
Greets(c) == Stands(c, {"hello", "list"})
AsksTool(c) == Stands(c, {"read"})

ChannelIsTyped ==
  /\ caller \in [Callers -> CallerRow] /\ child \in [1..Processes -> ChildRow]
  /\ spawned \in 0..Processes /\ current \in 0..spawned /\ counter \in Nat
  /\ started \in BOOLEAN /\ upsets \in Nat
  /\ starting \in SUBSET Callers /\ calling \in SUBSET Callers
  /\ \A c \in Callers : /\ caller[c].asked <= counter /\ caller[c].from <= spawned
                        /\ CallerAt(c, Reading) => caller[c].from # 0
                        /\ CallerAt(c, {"failing"}) => caller[c].was \in Handshake \cup {"read"}

LocksAreHeld ==
  /\ \A c \in Callers : InLock(c) => starting = {c}
  /\ \A c \in Callers : AsksTool(c) => calling = {c} /\ caller[c].wants = "call"
  /\ \A c \in Callers :
       caller[c].wants = "call" /\ (InLock(c) \/ CallerAt(c, {"start"})) => calling = {c}

\* The process at hand: nobody has one while it is started, who greets has the current
\* one, and only who entered before it started may read of another.
ProcessIsAtHand ==
  /\ \A p \in 1..Processes : child[p].alive => p = current
  /\ \A c \in Callers :
       /\ InLock(c) /\ ~Greets(c) => current = 0
       /\ Greets(c) => caller[c].from = current /\ current # 0
       /\ AsksTool(c) /\ caller[c].from = current /\ current # 0 => starting = {}

\* Whatever a living process owes, or has written, is the answer of somebody who reads, is
\* about to handle a failure or left without a handler; it is written once.
Unread(owes, output) == owes \cup ({output[i] : i \in 1..Len(output)} \ {0})
Once(owes, output) ==
  /\ \A i, k \in 1..Len(output) : output[i] = output[k] => i = k \/ output[i] = 0
  /\ \A i \in 1..Len(output) : output[i] \notin owes
  /\ 0 \notin owes
Awaits(c, p, id) ==
  CallerAt(c, Reading \cup {"failing", "uncaught"}) /\ caller[c].from = p /\ caller[c].asked = id
AnswersAreAwaited ==
  \A p \in 1..Processes : child[p].alive =>
    /\ Once(child[p].owes, child[p].output)
    /\ \A id \in Unread(child[p].owes, child[p].output) :
         id <= counter /\ \E c \in Callers : Awaits(c, p, id)

\* Whoever reads of a living process has its answer still to come.
IsOwed(c) ==
  CallerAt(c, Reading) =>
    LET p == caller[c].from
    IN  child[p].alive => caller[c].asked \in Unread(child[p].owes, child[p].output)

ChannelInvariant ==
  /\ ChannelIsTyped /\ LocksAreHeld /\ ProcessIsAtHand /\ AnswersAreAwaited
  /\ \A c \in Callers : IsOwed(c)
=============================================================================
