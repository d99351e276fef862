---- MODULE PodDistribution ----
(* Pod distribution: at the end of a reconcile of the RHMI the operator looks for
   workloads whose running pods are all in one zone and deletes a pod of each, so
   that the scheduler places it anew.  An annotation of the workload counts the
   attempts, and after three the workload is left alone.  The count is written
   five seconds after the pod is deleted, by which time the request can fail, the
   wait can have timed out or the operator can have restarted. *)
EXTENDS Naturals, FiniteSets

CONSTANTS Workloads,   \* ReplicaSets and StatefulSets of one namespace
          Zones,       \* zones of the cluster's nodes
          Replicas,    \* pods of a workload
          MaxMishaps   \* bound on failures, restarts, drained nodes and rollouts

VARIABLES
    pods,      \* zones of the pods of each workload; None of one that is not running
    attempts,  \* the annotation pod-rebalance-attempts
    todo,      \* unbalanced workloads that the pass has still to look at
    victim,    \* the first pod of each in the list it was found from; 0 once it is gone
    busy,      \* the workload whose attempt is not counted yet, if there is one
    hit,       \* whether its pod was deleted
    deleted,   \* pods deleted of each workload since its rollout
    uncounted, \* of these, the ones whose attempt was never counted
    mishaps

vars == <<pods, attempts, todo, victim, busy, hit, deleted, uncounted, mishaps>>

maxBalanceAttempts == 3
None  == "none"
Slots == 1 .. Replicas

Init ==
    /\ pods = [w \in Workloads |-> [s \in Slots |-> None]]
    /\ attempts = [w \in Workloads |-> 0] /\ victim = [w \in Workloads |-> 0]
    /\ deleted = [w \in Workloads |-> 0] /\ uncounted = [w \in Workloads |-> 0]
    /\ todo = {} /\ busy = {} /\ hit = FALSE /\ mishaps = 0

Mishap == mishaps < MaxMishaps /\ mishaps' = mishaps + 1
Fine   == UNCHANGED mishaps

--------------------------------------------------------------------------------
Running(w) == {s \in Slots : pods[w][s] # None}

\* Mutant: a workload of two pods counts as balanced.
UnbalancedMany(w) ==
    Cardinality(Running(w)) > 2 /\ Cardinality({pods[w][s] : s \in Running(w)}) = 1

\* More than one running pod, and all of them in one zone.
Unbalanced(w) ==
    Cardinality(Running(w)) > 1 /\ Cardinality({pods[w][s] : s \in Running(w)}) = 1

IsMultiAZCluster == Cardinality(Zones) > 1

\* A pass lists the pods of the namespace once, in any order.
findUnbalanced ==
    /\ IsMultiAZCluster /\ todo = {} /\ busy = {}
    /\ todo' = {w \in Workloads : Unbalanced(w)}
    /\ victim' \in [Workloads -> Slots \union {0}]
    /\ \A w \in Workloads : IF w \in todo' THEN victim'[w] \in Running(w) ELSE victim'[w] = 0
    /\ UNCHANGED <<pods, attempts, busy, hit, deleted, uncounted, mishaps>>

\* Mutant: a fourth attempt.
verifyRebalanceCountLate(w) == attempts[w] <= maxBalanceAttempts

verifyRebalanceCount(w) == attempts[w] < maxBalanceAttempts

Gone(w) == [pods[w] EXCEPT ![victim[w]] = None]

\* The workload is read, and if attempts are left the pod is deleted.  That it is
\* gone, or that the request fails, is only logged.
forceRebalance(w) ==
    /\ w \in todo /\ busy = {} /\ todo' = todo \ {w}
    /\ \/ /\ ~verifyRebalanceCount(w)
          /\ Fine /\ UNCHANGED <<pods, busy, hit, deleted>>
       \/ /\ verifyRebalanceCount(w) /\ busy' = {w}
          /\ \/ /\ victim[w] # 0 /\ hit' = TRUE /\ Fine
                /\ pods' = [pods EXCEPT ![w] = Gone(w)]
                /\ deleted' = [deleted EXCEPT ![w] = @ + 1]
             \/ victim[w] = 0 /\ hit' = FALSE /\ Fine /\ UNCHANGED <<pods, deleted>>
             \/ hit' = FALSE /\ Mishap /\ UNCHANGED <<pods, deleted>>
       \/ Mishap /\ UNCHANGED <<pods, busy, hit, deleted>>
    /\ UNCHANGED <<attempts, victim, uncounted>>

\* Mutant: the attempt is counted for every workload.
getAnnotationsOfAll(w) == [v \in Workloads |-> attempts[v] + 1]

getAnnotations(w) == [attempts EXCEPT ![w] = @ + 1]

\* Five seconds later the attempt is counted, unless that fails or the wait is over.
updatePodBalanceAttempts(w) ==
    /\ w \in busy /\ busy' = {}
    /\ \/ Fine /\ attempts' = getAnnotations(w) /\ UNCHANGED uncounted
       \/ /\ Mishap /\ uncounted' = [uncounted EXCEPT ![w] = IF hit = TRUE THEN @ + 1 ELSE @]
          /\ UNCHANGED attempts
    /\ UNCHANGED <<pods, todo, victim, hit, deleted>>

\* The operator restarts in the middle of a pass.
Restart ==
    /\ todo # {} \/ busy # {}
    /\ Mishap /\ todo' = {} /\ busy' = {}
    /\ uncounted' = [w \in Workloads |-> IF w \in busy /\ hit = TRUE THEN uncounted[w] + 1 ELSE uncounted[w]]
    /\ UNCHANGED <<pods, attempts, victim, hit, deleted>>

--------------------------------------------------------------------------------
\* The scheduler places a pod in any zone.
Schedule(w) ==
    /\ \E s \in Slots \ Running(w), z \in Zones : pods' = [pods EXCEPT ![w] = [@ EXCEPT ![s] = z]]
    /\ UNCHANGED <<attempts, todo, victim, busy, hit, deleted, uncounted, mishaps>>

\* A node is drained, and a pod of the workload is replaced.
Drain(w) ==
    /\ Mishap
    /\ \E s \in Running(w) :
         /\ pods' = [pods EXCEPT ![w] = [@ EXCEPT ![s] = None]]
         /\ victim' = [victim EXCEPT ![w] = IF @ = s THEN 0 ELSE @]
    /\ UNCHANGED <<attempts, todo, busy, hit, deleted, uncounted>>

\* A Deployment replaces its ReplicaSet by a new one, which has no annotation yet.
\* What a pass still does for the old one does not touch the new one.
Rollout(w) ==
    /\ Mishap
    /\ pods' = [pods EXCEPT ![w] = [s \in Slots |-> None]]
    /\ attempts' = [attempts EXCEPT ![w] = 0]
    /\ deleted' = [deleted EXCEPT ![w] = 0] /\ uncounted' = [uncounted EXCEPT ![w] = 0]
    /\ todo' = todo \ {w} /\ busy' = busy \ {w}
    /\ UNCHANGED <<victim, hit>>

Step == findUnbalanced \/ \E w \in Workloads : forceRebalance(w) \/ updatePodBalanceAttempts(w)

Next == Step \/ Restart \/ \E w \in Workloads : Schedule(w) \/ Drain(w) \/ Rollout(w)

\* The installation is reconciled again and again, and the scheduler places pods.
Fairness == WF_vars(Step) /\ \A w \in Workloads : WF_vars(Schedule(w))

Spec == Init /\ [][Next]_vars /\ Fairness

--------------------------------------------------------------------------------
\* Type invariant.
TypeOK ==
    /\ pods \in [Workloads -> [Slots -> Zones \union {None}]]
    /\ attempts \in [Workloads -> 0 .. maxBalanceAttempts] /\ victim \in [Workloads -> Slots \union {0}]
    /\ deleted \in [Workloads -> Nat] /\ uncounted \in [Workloads -> Nat]
    /\ todo \subseteq Workloads /\ busy \subseteq Workloads
    /\ hit \in BOOLEAN /\ mishaps \in Nat

\* Rebalancing takes no more pods from a workload than the attempts it is allowed,
\* but for those whose attempt could not be counted.
DisruptionBounded ==
    \A w \in Workloads : deleted[w] <= maxBalanceAttempts + uncounted[w]

\* Every pod deleted is counted, is not counted for a reason, or is about to be; one
\* workload at a time is busy, and only while it has attempts left.
EveryDeletionCounted ==
    \A w \in Workloads :
        /\ attempts[w] <= maxBalanceAttempts
        /\ deleted[w] <= attempts[w] + uncounted[w] + 1
        /\ w \notin busy \/ hit = FALSE => deleted[w] <= attempts[w] + uncounted[w]
        /\ w \in busy => attempts[w] < maxBalanceAttempts /\ busy = {w}

\* Every workload is spread over the zones, or was tried three times.
Balanced ==
    LET Spread(w) == \E s, t \in Slots : pods[w][s] # pods[w][t] /\ None \notin {pods[w][s], pods[w][t]}
    IN  \A w \in Workloads : Spread(w) \/ attempts[w] = maxBalanceAttempts
====
