------------------------------ MODULE MCBroker ------------------------------
(* Values of the constants of Broker for TLC.                              *)
EXTENDS BrokerInvariant

Req(kind, strategy, explicit, prio, deps) ==
  [kind |-> kind, strategy |-> strategy, explicit |-> explicit, prio |-> prio, deps |-> deps]

NoEvents == [[e \in Bounded |-> 0] EXCEPT !["any"] = 3]

\* One task at a time, of every lane and strategy, and many disturbances.
LifecycleRequests ==
  {Req("inference", "single", TRUE, 1, {}), Req("inference", "agent", TRUE, 1, {}),
   Req("inference", "mixture", TRUE, 1, {}), Req("cloud", "single", TRUE, 1, {}),
   Req("cloud", "agent", FALSE, 1, {}), Req("embedding", "single", TRUE, 1, {}),
   Req("cloud", "mixture", FALSE, 1, {})}
LifecycleBudget ==
  [NoEvents EXCEPT !["round"] = 2, !["fault"] = 2, !["timeout"] = 1, !["bug"] = 1,
                   !["crash"] = 2, !["stop"] = 2, !["cancel"] = 2, !["tick"] = 1, !["any"] = 5]

\* Three tasks that meet in the lanes and in the queue.
LanesRequests ==
  {Req("inference", "agent", TRUE, 2, {}), Req("cloud", "single", TRUE, 1, {})}
LanesBudget ==
  [NoEvents EXCEPT !["round"] = 1, !["fault"] = 1, !["cancel"] = 1, !["reorder"] = 1,
                   !["any"] = 2]

\* Two tasks that wait for each other, as members of a group may.
LivenessRequests ==
  {Req("cloud", "single", TRUE, 1, {2}), Req("inference", "agent", TRUE, 2, {1})}
LivenessBudget ==
  [NoEvents EXCEPT !["round"] = 1, !["fault"] = 1, !["cancel"] = 1, !["crash"] = 1]

\* The shortest stories behind the divergences.
UrgentRequests == {Req("inference", "single", TRUE, p, {}) : p \in {1, 2}}
UrgentBudget == [NoEvents EXCEPT !["fault"] = 1]
CloudRequests == {Req("cloud", "single", TRUE, 1, {})}
StopBudget == [NoEvents EXCEPT !["stop"] = 1]
DemotionBudget == [NoEvents EXCEPT !["fault"] = 1, !["cancel"] = 1]
TickRequests == {Req("inference", "single", TRUE, 1, {})}
TickBudget == [NoEvents EXCEPT !["tick"] = 1, !["cancel"] = 1]
=============================================================================
