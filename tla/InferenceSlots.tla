--------------------------- MODULE InferenceSlots ---------------------------
(***************************************************************************)
(* The slots that bound the calls of RoutedModelProvider (routing.py), the *)
(* tasks of the three lanes that take them, and the probes that measure a  *)
(* model once a task has completed (shadow_probe.py).                      *)
(*                                                                         *)
(* A slot is a semaphore: its name and its generation.  A reload with      *)
(* another limit makes a new generation, and who holds or awaits the old   *)
(* one goes on with it.  A probe is a coroutine that nobody awaits, but a  *)
(* task that is about to start cancels those it finds.                     *)
(***************************************************************************)
EXTENDS Integers, Sequences, FiniteSets, FiniteSetsExt

CONSTANTS Tasks,      \* the tasks; each may leave one probe behind
          LaneOf,     \* LaneOf[t]: "inference", "embedding" or "cloud"
          Parallel,   \* the tasks that run a slow mixture of agents
          Limits,     \* Limits[n]: the limits of the slot n, one per reload
          Width,      \* Width[l]: how many tasks the lane l runs at once
          Unproven,   \* the models without evidence, in the catalogue's order
          Remote,     \* those that do not run on this machine
          Needed      \* calls that make an estimate credible

ASSUME SlotsAssumption ==
  /\ \A t \in Tasks : LaneOf[t] \in {"inference", "embedding", "cloud"}
  /\ Parallel \subseteq {t \in Tasks : LaneOf[t] # "embedding"}
  /\ \A n \in {"serial", "background"} : Limits[n] = <<1>>
  /\ \A n \in {"parallel", "embedding"} : Limits[n] \in Seq(Nat \ {0}) /\ Limits[n] # << >>
  /\ Unproven \in Seq({Unproven[i] : i \in DOMAIN Unproven}) /\ Needed \in Nat

VARIABLES status,     \* status[t]: "queued", "active", "cancelled" or "completed"
          work,       \* work[t]: where the coroutine of t is
          slot,       \* slot[t]: the slot t awaits or holds
          victims,    \* victims[t]: the probes t cancelled and awaits
          probe,      \* probe[t]: the probe that t left
          attempts,   \* attempts[m]: the evidence about the aspirant m
          generation  \* generation[n]: the current slot of the name n

slotsVars == <<status, work, slot, victims, probe, attempts, generation>>

Works == {"none", "claimed", "yielding", "working", "waiting", "calling", "closing"}
Phases == {"none", "look", "choose", "start", "wait", "measure", "dying", "over"}
NoSlot == [name |-> "none", gen |-> 0]
NoProbe == [at |-> "none", local |-> FALSE, of |-> 0]

Local(i) == Unproven[i] \notin Remote
Probing == {t \in Tasks : probe[t].at \notin {"none", "over"}}
Measuring == {t \in Probing : probe[t].at = "measure"}
Running(l) == {t \in Tasks : LaneOf[t] = l /\ (work[t] # "none" \/ status[t] = "active")}

Current(n) == [name |-> n, gen |-> generation[n]]
Holders(s) == {t \in Tasks : work[t] = "calling" /\ slot[t] = s}
HasRoom(s) == Cardinality(Holders(s)) < Limits[s.name][s.gen]

(* The slot of a call: the embeddings have their own, a slow mixture the    *)
(* parallel one, and everything else, the cloud lane included, the serial.  *)
SlotOf(t) ==
  IF LaneOf[t] = "embedding" THEN Current("embedding")
  ELSE IF t \in Parallel THEN Current("parallel")
  ELSE Current("serial")

SlotsInit ==
  /\ status = [t \in Tasks |-> "queued"]
  /\ work = [t \in Tasks |-> "none"]
  /\ slot = [t \in Tasks |-> NoSlot]
  /\ victims = [t \in Tasks |-> {}]
  /\ probe = [t \in Tasks |-> NoProbe]
  /\ attempts = [i \in DOMAIN Unproven |-> 0]
  /\ generation = [n \in DOMAIN Limits |-> 1]

Advances(t, from, to) == work[t] = from /\ work' = [work EXCEPT ![t] = to]

---------------------------------------------------------------------------
(* Tasks.                                                                  *)

(* A dispatcher claims the task while its lane has room.                   *)
Claim(t) ==
  /\ status[t] = "queued" /\ Cardinality(Running(LaneOf[t])) < Width[LaneOf[t]]
  /\ Advances(t, "none", "claimed")
  /\ status' = [status EXCEPT ![t] = "active"]
  /\ UNCHANGED <<slot, victims, probe, attempts, generation>>

(* Faulty: embeddings are so quick that they let the probes be.             *)
EvictsForChat(t) == LaneOf[t] = "inference"

(* A task of the cloud lane leaves the probes alone; any other cancels      *)
(* those that live and awaits their end.                                    *)
Cancels(p) == IF p.at \in {"none", "over"} THEN p ELSE [p EXCEPT !.at = "dying"]
Evicts(t) == LaneOf[t] # "cloud"
Yield(t) ==
  /\ Advances(t, "claimed", "yielding")
  /\ victims' = [victims EXCEPT ![t] = IF Evicts(t) THEN Probing ELSE {}]
  /\ probe' = IF Evicts(t) THEN [u \in Tasks |-> Cancels(probe[u])] ELSE probe
  /\ UNCHANGED <<status, slot, attempts, generation>>
Yielded(t) ==
  /\ victims[t] \cap Probing = {}
  /\ Advances(t, "yielding", "working")
  /\ victims' = [victims EXCEPT ![t] = {}]
  /\ UNCHANGED <<status, slot, probe, attempts, generation>>

(* A call picks its slot when it starts to wait, acquires it, and gives it  *)
(* back whatever its end.                                                   *)
Need(t) ==
  /\ Advances(t, "working", "waiting")
  /\ slot' = [slot EXCEPT ![t] = SlotOf(t)]
  /\ UNCHANGED <<status, victims, probe, attempts, generation>>
Acquire(t) ==
  /\ Advances(t, "waiting", "calling")
  /\ HasRoom(slot[t])
  /\ UNCHANGED <<status, slot, victims, probe, attempts, generation>>
Return(t) ==
  /\ Advances(t, "calling", "working")
  /\ slot' = [slot EXCEPT ![t] = NoSlot]
  /\ UNCHANGED <<status, victims, probe, attempts, generation>>

(* The result is saved; a cancelled row stays as it is.                     *)
Complete(t) ==
  /\ Advances(t, "working", "closing")
  /\ status' = [status EXCEPT ![t] = IF @ = "active" THEN "completed" ELSE @]
  /\ UNCHANGED <<slot, victims, probe, attempts, generation>>
(* The task lacks memory, or its provider is down: back to the queue.       *)
Defer(t) ==
  /\ status[t] = "active"
  /\ Advances(t, "working", "none")
  /\ status' = [status EXCEPT ![t] = "queued"]
  /\ UNCHANGED <<slot, victims, probe, attempts, generation>>

(* The finally block: a completed task leaves a probe, and does not wait.   *)
Scheduled(t) == [probe EXCEPT ![t].at = "look"]
CloseTask(t) ==
  /\ Advances(t, "closing", "none")
  /\ probe' = IF status[t] = "completed" THEN Scheduled(t) ELSE probe
  /\ UNCHANGED <<status, slot, victims, attempts, generation>>

(* The client cancels: the row is no longer active, and the coroutine goes  *)
(* on until it looks, or until the call it awaits is cut.                   *)
Withdraw(t) ==
  /\ status[t] \in {"queued", "active"}
  /\ status' = [status EXCEPT ![t] = "cancelled"]
  /\ UNCHANGED <<work, slot, victims, probe, attempts, generation>>
Abort(t) ==
  /\ status[t] = "cancelled" /\ work[t] \in {"working", "waiting", "calling"}
  /\ work' = [work EXCEPT ![t] = "closing"]
  /\ slot' = [slot EXCEPT ![t] = NoSlot]
  /\ UNCHANGED <<status, victims, probe, attempts, generation>>

---------------------------------------------------------------------------
(* Probes.                                                                  *)

Probes(t, from, to) == probe[t].at = from /\ probe' = [probe EXCEPT ![t].at = to]
ProbeOnly == UNCHANGED <<status, work, slot, victims, generation>>

(* Is any task active?  The answer is used several awaits later.            *)
NoActiveTask == \A t \in Tasks : status[t] # "active"
Look(t) ==
  /\ probe[t].at = "look"
  /\ probe' = [probe EXCEPT ![t] = [@ EXCEPT !.at = "choose", !.local = NoActiveTask]]
  /\ UNCHANGED attempts /\ ProbeOnly

(* choose_aspirant: the one with most evidence among those half measured,   *)
(* else the first of the catalogue.                                         *)
Pending(local) == {i \in DOMAIN Unproven : attempts[i] < Needed /\ (local \/ ~Local(i))}
Aspirant(pending) ==
  LET most == Max({attempts[i] : i \in pending})
  IN  Min({i \in pending : attempts[i] = most})
Choose(t) ==
  LET pending == Pending(probe[t].local) IN
  /\ IF pending = {}
     THEN Probes(t, "choose", "over")
     ELSE /\ probe[t].at = "choose"
          /\ probe' = [probe EXCEPT ![t] = [@ EXCEPT !.at = "start", !.of = Aspirant(pending)]]
  /\ UNCHANGED attempts /\ ProbeOnly

(* The row of the invocation, and then the slot of the background.          *)
Start(t) ==
  /\ Probes(t, "start", "wait")
  /\ UNCHANGED attempts /\ ProbeOnly
AcquireBackground(t) ==
  /\ Measuring = {}
  /\ Probes(t, "wait", "measure")
  /\ UNCHANGED attempts /\ ProbeOnly
(* Success and failure are both evidence.                                   *)
Measured(t) ==
  /\ Probes(t, "measure", "over")
  /\ attempts' = [attempts EXCEPT ![probe[t].of] = IF @ < Needed THEN @ + 1 ELSE @]
  /\ ProbeOnly
(* A cancelled probe ends, and its lease with it, without evidence.         *)
Die(t) ==
  /\ Probes(t, "dying", "over")
  /\ UNCHANGED attempts /\ ProbeOnly

---------------------------------------------------------------------------
(* A reload replaces the slots whose limit changes.                         *)
ReloadSlots ==
  \E changed \in SUBSET {"embedding", "parallel"} \ {{}} :
    /\ \A n \in changed : generation[n] < Len(Limits[n])
    /\ generation' = [n \in DOMAIN Limits |->
                        IF n \in changed THEN generation[n] + 1 ELSE generation[n]]
    /\ UNCHANGED <<status, work, slot, victims, probe, attempts>>

SlotsNext ==
  \/ \E t \in Tasks :
       \/ Claim(t) \/ Yield(t) \/ Yielded(t) \/ Need(t) \/ Acquire(t) \/ Return(t)
       \/ Complete(t) \/ Defer(t) \/ CloseTask(t) \/ Withdraw(t) \/ Abort(t)
       \/ Look(t) \/ Choose(t) \/ Start(t) \/ AcquireBackground(t) \/ Measured(t) \/ Die(t)
  \/ ReloadSlots

SlotsSpec == SlotsInit /\ [][SlotsNext]_slotsVars
=============================================================================
