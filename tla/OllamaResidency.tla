-------------------------- MODULE OllamaResidency --------------------------
(***************************************************************************)
(* Which local models are in memory (OllamaLifecycleManager and its users  *)
(* in app/providers/ollama.py, idle_unload_loop in app/maintenance.py).    *)
(*                                                                         *)
(* One lock covers the admission of a call, with the evictions it makes,   *)
(* the end of a lease and the round of the idle loop.  A delete_model asks *)
(* Ollama to unload without that lock.  Both the loop and the panel look   *)
(* for unfinished work some awaits before.  Ollama is external: it loads   *)
(* the model of a call when the call reaches it (keep_alive -1), and may   *)
(* go on loading for a call that was given up.  A call is a generation, a  *)
(* turn of an agent, an embedding, a batch of them or a judgment: all      *)
(* alike.                                                                  *)
(***************************************************************************)
EXTENDS Integers, FiniteSets, FiniteSetsExt

CONSTANTS
  None,
  Models,      \* local models of the catalogue
  Pinned,      \* system1.ollama.model when it is kept loaded, as a set
  Size,        \* size_bytes of each model, 0 when it is unknown
  Layers,      \* layers of each model, 0 when they are unknown
  Budget,      \* local_memory_budget_bytes
  Slots,       \* effective_max_loaded_local_models
  Offload,     \* resources.gpu_layer_offload
  Users,       \* calls that ask for a local model
  Mishaps      \* bound: cancellations, deletions, reloads and failures, in all

ASSUME ResidencyAssumption ==
  /\ Pinned \subseteq Models /\ Size \in [Models -> Nat] /\ Layers \in [Models -> Nat]
  /\ Budget \in Nat /\ Slots \in Nat \ {0} /\ Offload \in BOOLEAN /\ Mishaps \in Nat
  /\ IsFiniteSet(Models) /\ IsFiniteSet(Users)
  /\ None \notin Models \cup Users \cup {"idle"} /\ "idle" \notin Users

VARIABLES
  loaded,     \* models Ollama has in memory (/api/ps)
  stray,      \* of them, or on their way: loaded by calls nobody waits for
  leases,     \* _leases
  reserved,   \* _reserved_sizes
  holder,     \* who has the lifecycle's lock
  user,       \* each call: where it is, its model, what it has yet to evict
  idle,       \* the round of the idle loop: what it has yet to unload
  tracker,    \* the idle loop counts, has found the time due, or has had its round
  panel,      \* a deletion found no unfinished work, and goes on
  unloads,    \* processing.unload_after_task
  fresh,      \* the idle loop has the lifecycle in use: reload_config made no other
  mishaps

residencyVars == <<loaded, stray, leases, reserved, holder, user, idle, tracker, panel,
                   unloads, fresh, mishaps>>
looks == <<tracker, panel>>

\* plan_offload: the whole model, the layers of it that fit, or no plan at all.
\* The reserve the configuration keeps for the rest is left out of Budget.
GpuLayers(m) == Min({Layers[m], (Budget * Layers[m]) \div Size[m]})
Fits(m) == Size[m] <= Budget \/ (Offload /\ Layers[m] > 0 /\ GpuLayers(m) > 0)
GpuBytes(m) ==
  IF Size[m] <= Budget THEN Size[m] ELSE (GpuLayers(m) * Size[m]) \div Layers[m]

ResidencyInit ==
  /\ loaded \in {{}} \cup {{m} : m \in {m \in Models : Fits(m)}} /\ stray = {}
  /\ leases = [m \in Models |-> 0] /\ reserved = [m \in Models |-> 0]
  /\ holder = None /\ idle = {} /\ unloads \in BOOLEAN /\ fresh = TRUE /\ mishaps = 0
  /\ tracker = "counting" /\ panel = FALSE
  /\ user = [u \in Users |-> [pc |-> "idle", model |-> None, evict |-> {}, last |-> FALSE]]

Mishap == mishaps < Mishaps /\ mishaps' = mishaps + 1
UserAt(u, pcs) == user[u].pc \in pcs
Moves(u, pc) == user' = [user EXCEPT ![u].pc = pc]

\* The models with leases are also the keys of _reserved_sizes.
Leased == {m \in Models : leases[m] > 0}
\* _occupied: what is loaded, and what others reserved and have not loaded yet.
Occupied ==
  MapThenSumSet(GpuBytes, loaded) + MapThenSumSet(LAMBDA m : reserved[m], Leased \ loaded)
TakenSlots == (loaded \cup Leased) \ Pinned
RoomFor(m) == Occupied + GpuBytes(m) <= Budget
SlotFor(m) == m \in Pinned \/ Cardinality(TakenSlots) < Slots

\* A call with a plan asks for the lease of its model.
Ask(u) ==
  /\ UserAt(u, {"idle"})
  /\ \E m \in Models :
       user' = [user EXCEPT ![u] = [@ EXCEPT !.model = m,
                                             !.pc = IF Fits(m) THEN "wait" ELSE "done"]]
  /\ UNCHANGED <<loaded, stray, leases, reserved, holder, idle, unloads, fresh, looks, mishaps>>

Lock(u) ==
  /\ UserAt(u, {"wait"}) /\ holder = None /\ holder' = u /\ Moves(u, "check")
  /\ UNCHANGED <<loaded, stray, leases, reserved, idle, unloads, fresh, looks, mishaps>>

\* The lease is noted, or refused, under the lock that this gives back.
Admit(u) ==
  LET m == user[u].model IN
  /\ leases' = [leases EXCEPT ![m] = @ + 1]
  /\ reserved' = [reserved EXCEPT ![m] = Max({@, GpuBytes(m)})]
  /\ stray' = IF m \in loaded THEN stray ELSE stray \ {m}
  /\ holder' = None /\ Moves(u, "load")
Refuse(u) == holder' = None /\ Moves(u, "done") /\ UNCHANGED <<leases, reserved, stray>>

\* _ensure_capacity, first look: loaded already, or room and a place for it.
Check(u) ==
  LET m == user[u].model IN
  /\ UserAt(u, {"check"})
  /\ IF m \in loaded \/ (RoomFor(m) /\ SlotFor(m))
       THEN Admit(u)
       ELSE /\ user' = [user EXCEPT ![u] = [@ EXCEPT !.pc = "evict", !.last = FALSE,
                                                      !.evict = loaded \ Pinned]]
            /\ UNCHANGED <<leases, reserved, holder, stray>>
  /\ UNCHANGED <<loaded, idle, unloads, fresh, looks, mishaps>>

\* unload waits until the model has left /api/ps.
Unloads(m) ==
  /\ loaded' = loaded \ {m}
  /\ stray' = IF m \in Leased THEN stray ELSE stray \ {m}
\* Faulty: a model in use goes too.
AnyLoaded(m) == m \in loaded

Evictable(m) == m \in loaded /\ m \notin Leased
Evict(u) ==
  /\ UserAt(u, {"evict"})
  /\ \E m \in user[u].evict :
       /\ user' = [user EXCEPT ![u].evict = @ \ {m}]
       /\ IF Evictable(m) THEN Unloads(m) ELSE UNCHANGED <<loaded, stray>>
  /\ UNCHANGED <<leases, reserved, holder, idle, unloads, fresh, looks, mishaps>>

\* Room after the eviction, or the resident classifier goes too, or the call waits
\* its turn (LOCAL_MODEL_SLOTS_BUSY, VRAM_INSUFFICIENT).
Recheck(u) ==
  LET m == user[u].model IN
  /\ UserAt(u, {"evict"}) /\ user[u].evict = {}
  /\ IF RoomFor(m) \/ user[u].last
       THEN IF RoomFor(m) /\ SlotFor(m) THEN Admit(u) ELSE Refuse(u)
       ELSE /\ user' = [user EXCEPT ![u] = [@ EXCEPT !.last = TRUE,
                                                      !.evict = Pinned \cap loaded]]
            /\ UNCHANGED <<leases, reserved, holder, stray>>
  /\ UNCHANGED <<loaded, idle, unloads, fresh, looks, mishaps>>

\* Ollama does not answer, or does not unload, or the call is cancelled meanwhile.
AdmissionFails(u) ==
  /\ UserAt(u, {"wait", "check", "evict"}) /\ Mishap
  /\ holder' = IF holder = u THEN None ELSE holder
  /\ Moves(u, "done")
  /\ UNCHANGED <<loaded, stray, leases, reserved, idle, unloads, fresh, looks>>

\* The request reaches Ollama, which loads the model unless it is there.
Load(u) ==
  /\ UserAt(u, {"load"}) /\ loaded' = loaded \cup {user[u].model} /\ Moves(u, "serve")
  /\ UNCHANGED <<stray, leases, reserved, holder, idle, unloads, fresh, looks, mishaps>>

\* The answer, after a second call without reasoning if the first ran away.
Answer(u) ==
  /\ UserAt(u, {"serve"}) /\ Moves(u, "leave")
  /\ UNCHANGED <<loaded, stray, leases, reserved, holder, idle, unloads, fresh, looks, mishaps>>

\* A call given up before its answer: Ollama may load the model all the same.
GiveUpCall(u) ==
  /\ UserAt(u, {"load"}) /\ Mishap /\ Moves(u, "leave")
  /\ \E late \in SUBSET ({user[u].model} \ loaded) : stray' = stray \cup late
  /\ UNCHANGED <<loaded, leases, reserved, holder, idle, unloads, fresh, looks>>
StrayLoad ==
  /\ \E m \in stray \ loaded : loaded' = loaded \cup {m}
  /\ UNCHANGED <<stray, leases, reserved, holder, user, idle, unloads, fresh, looks, mishaps>>

\* The last lease of a model may unload it, and gives up what it had reserved
\* whether it does or not.
EndLease(u) ==
  LET m == user[u].model IN
  /\ UserAt(u, {"leave"}) /\ holder = None /\ Moves(u, "done")
  /\ leases' = [leases EXCEPT ![m] = @ - 1]
  /\ IF leases[m] > 1
       THEN UNCHANGED <<reserved, loaded, stray>>
       ELSE /\ reserved' = [reserved EXCEPT ![m] = 0]
            /\ \/ /\ unloads /\ m \notin Pinned
                  /\ loaded' = loaded \ {m} /\ stray' = stray \ {m}
               \/ UNCHANGED <<loaded, stray>>
  /\ UNCHANGED <<holder, idle, unloads, fresh, looks, mishaps>>

\* A second cancellation reaches a call that waits for the lock to give its lease
\* back: the lease stays for ever.
CancelAgain(u) ==
  /\ UserAt(u, {"leave"}) /\ holder # None /\ Mishap /\ Moves(u, "done")
  /\ UNCHANGED <<loaded, stray, leases, reserved, holder, idle, unloads, fresh, looks>>

\* The idle loop looks for unfinished work, and after long enough without any a round
\* is due.  With unload_after_task there is nothing to wait for.
Quiet == \A u \in Users : UserAt(u, {"idle", "done"})
IdleLook ==
  /\ \/ ~Quiet /\ tracker = "reclaimed" /\ tracker' = "counting"
     \/ Quiet /\ tracker = "counting" /\ ~unloads /\ tracker' = "due"
  /\ UNCHANGED <<loaded, stray, leases, reserved, holder, user, idle, panel, unloads, fresh, mishaps>>

\* The round, once it has the lock: nothing if there is a lease by then, and nothing
\* for ever with the lifecycle of before a reload.
IdleRound ==
  /\ tracker = "due" /\ holder = None
  /\ IF fresh /\ Leased = {} /\ loaded \ Pinned # {}
       THEN holder' = "idle" /\ idle' = loaded \ Pinned
       ELSE UNCHANGED <<holder, idle>>
  /\ tracker' = IF fresh THEN "reclaimed" ELSE "counting"
  /\ UNCHANGED <<loaded, stray, leases, reserved, user, panel, unloads, fresh, mishaps>>
IdleUnload ==
  /\ holder = "idle"
  /\ \E m \in idle :
       /\ idle' = idle \ {m}
       /\ Unloads(m) \/ UNCHANGED <<loaded, stray>>
  /\ holder' = IF idle' = {} THEN None ELSE "idle"
  /\ UNCHANGED <<leases, reserved, user, unloads, fresh, looks, mishaps>>

\* The panel deletes a model if no work is unfinished: by the time it is unloaded,
\* without the lock, somebody may use it.
DeletePanel ==
  /\ Mishap /\ Quiet /\ panel' = TRUE
  /\ UNCHANGED <<loaded, stray, leases, reserved, holder, user, idle, tracker, unloads, fresh>>
DeleteModel ==
  /\ panel /\ panel' = FALSE
  /\ \E m \in loaded :
       /\ Unloads(m)
       /\ user' = [u \in Users |-> IF user[u].model = m /\ UserAt(u, {"serve"})
                                     THEN [user[u] EXCEPT !.pc = "load"] ELSE user[u]]
  /\ UNCHANGED <<leases, reserved, holder, idle, tracker, unloads, fresh, mishaps>>

\* Faulty: the calls of the old lifecycle go on to give their leases back to the new.
KeepsItsCalls ==
  /\ Mishap /\ fresh' = FALSE /\ holder' = None /\ idle' = {}
  /\ leases' = [m \in Models |-> 0] /\ reserved' = [m \in Models |-> 0]
  /\ UNCHANGED <<loaded, stray, user, unloads, looks>>

\* Another base_url or timeout: a new lifecycle that knows no lease, and the client
\* of the old one closed.  The idle loop keeps the old one, and fails from then on.
ReplaceLifecycle ==
  /\ Mishap /\ fresh' = FALSE /\ holder' = None /\ idle' = {}
  /\ leases' = [m \in Models |-> 0] /\ reserved' = [m \in Models |-> 0]
  /\ \E late \in SUBSET ({user[u].model : u \in {v \in Users : UserAt(v, {"load"})}} \ loaded) :
       stray' = stray \cup late
  /\ user' = [u \in Users |-> IF UserAt(u, {"idle"}) THEN user[u]
                                ELSE [user[u] EXCEPT !.pc = "done"]]
  /\ UNCHANGED <<loaded, unloads, looks>>

ResidencyNext ==
  \/ \E u \in Users :
       \/ Ask(u) \/ Lock(u) \/ Check(u) \/ Evict(u) \/ Recheck(u) \/ AdmissionFails(u)
       \/ Load(u) \/ Answer(u) \/ GiveUpCall(u) \/ EndLease(u) \/ CancelAgain(u)
  \/ StrayLoad \/ IdleLook \/ IdleRound \/ IdleUnload
  \/ DeletePanel \/ DeleteModel \/ ReplaceLifecycle
=============================================================================
