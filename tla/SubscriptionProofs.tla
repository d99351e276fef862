--------------------------- MODULE SubscriptionProofs ---------------------------
(***************************************************************************)
(* Proofs about Subscription, for every set of executors, number of        *)
(* releases and plans, and number of faults, failures and edits.           *)
(***************************************************************************)
EXTENDS Subscription, TLAPS

\* What the actions write into a plan is a plan.
LEMMA PlanWrites ==
  /\ NoPlan \in Plan
  /\ \A p \in Plan : Approved(p) \in Plan /\ [p EXCEPT !.gen = @ + 1] \in Plan
  /\ \A p \in Plan : \A s \in {"Installing", "Complete", "Failed"} :
       [p EXCEPT !.st = s] \in Plan
  /\ \A p \in Plan : p.csv \in 0 .. MaxRelease /\ p.gen \in Nat
  /\ \A c \in 0 .. MaxRelease :
       [csv |-> c, approved |-> FALSE, gen |-> 1, st |-> "RequiresApproval"] \in Plan
<1>1. NoPlan \in Plan
  BY BoundsAssumption DEF Plan, NoPlan
<1>2. ASSUME NEW p \in Plan PROVE Approved(p) \in Plan
  BY DEF Plan, Approved
<1>3. ASSUME NEW p \in Plan PROVE [p EXCEPT !.gen = @ + 1] \in Plan
  BY DEF Plan
<1>4. ASSUME NEW p \in Plan, NEW s \in {"Installing", "Complete", "Failed"}
      PROVE [p EXCEPT !.st = s] \in Plan
  BY DEF Plan
<1>5. ASSUME NEW p \in Plan PROVE p.csv \in 0 .. MaxRelease /\ p.gen \in Nat
  BY DEF Plan
<1>6. ASSUME NEW c \in 0 .. MaxRelease
      PROVE [csv |-> c, approved |-> FALSE, gen |-> 1, st |-> "RequiresApproval"] \in Plan
  BY DEF Plan
<1> QED
  BY <1>1, <1>2, <1>3, <1>4, <1>5, <1>6

\* What OLM keeps stays within its type.
LEMMA OlmTypeStep ==
  TypeOK /\ [Next]_vars => TypeOlm'
<1> SUFFICES ASSUME TypeOK, [Next]_vars PROVE TypeOlm'
  OBVIOUS
<1> USE BoundsAssumption DEF TypeOK, TypeOlm, TypeLocals, TypeRest, Releases, PlanIds
<1>1. CASE Start
  BY <1>1 DEF Start, Goto, olm
<1>2. CASE ReconcileCatalogSource
  BY <1>2 DEF ReconcileCatalogSource, Declared, Goto, olm
<1>3. CASE reconcileOperatorGroup
  BY <1>3 DEF reconcileOperatorGroup, Goto, olm
<1>4. CASE InstallOperator
  BY <1>4 DEF InstallOperator, Goto
<1>5. CASE getSubscription
  BY <1>5, PlanWrites DEF getSubscription, Return, olm
<1>6. CASE GetSubscriptionInstallPlan
  BY <1>6, PlanWrites DEF GetSubscriptionInstallPlan, NextAfterRead,
     IsUpgrade, olm
<1>7. CASE PerformBackup
  BY <1>7 DEF PerformBackup, olm
<1>8. CASE WaitForBackups
  BY <1>8, PlanWrites DEF WaitForBackups, Goto, Return, BackupSucceeded, olm
<1>9. CASE Approve
  <2>1. plans' = plans \/ plans' = [plans EXCEPT ![ip.id] = Approved(plans[ip.id])]
    BY <1>9 DEF Approve
  <2>2. plans' \in [PlanIds -> Plan]
    <3>1. CASE ip.id \in PlanIds
      <4>1. Approved(plans[ip.id]) \in Plan
        BY <3>1, PlanWrites
      <4> QED
        BY <2>1, <3>1, <4>1
    <3>2. CASE ip.id \notin PlanIds
      BY <2>1, <3>2
    <3> QED
      BY <3>1, <3>2
  <2> QED
    BY <1>9, <2>2 DEF Approve
<1>10. CASE DecideOnPlan
  BY <1>10, PlanWrites DEF DecideOnPlan, Goto, Return, Retry, FailedPlanCSV,
     PlanFailed, olm
<1>11. CASE ValidateCSV
  BY <1>11, PlanWrites DEF ValidateCSV, Invalid, Return, Retry, olm
<1>12. CASE DeleteCSV
  BY <1>12 DEF DeleteCSV, Goto, Without
<1>13. CASE DeleteSub
  BY <1>13, PlanWrites DEF DeleteSub, NoSub
<1>14. CASE Resolve
  <2>1. sub' \in [exists : BOOLEAN, current : 0 .. MaxRelease,
                   installed : 0 .. MaxRelease, plan : 0 .. MaxPlans]
    BY <1>14 DEF Resolve
  <2>2. last' \in 0 .. MaxPlans /\ csvs' = csvs
    BY <1>14 DEF Resolve
  <2>3. plans' \in [PlanIds -> Plan]
    <3> DEFINE new == [csv |-> catalog, approved |-> FALSE, gen |-> 1, st |-> "RequiresApproval"]
    <3>1. plans' = [plans EXCEPT ![last + 1] = new]
      BY <1>14 DEF Resolve
    <3>2. new \in Plan
      BY PlanWrites
    <3> QED
      BY <3>1, <3>2
  <2> QED
    BY <2>1, <2>2, <2>3
<1>15. CASE Fault
  BY <1>15, PlanWrites DEF Fault, Return, olm
<1>16. CASE OperatorUpgraded
  BY <1>16, PlanWrites DEF OperatorUpgraded, Return, olm
<1>17. ASSUME NEW e \in Executors, PollSnapshot(e) PROVE TypeOlm'
  BY <1>17 DEF PollSnapshot, olm
<1>18. ASSUME NEW e \in Executors, FinishSnapshot(e) PROVE TypeOlm'
  BY <1>18 DEF FinishSnapshot, olm, locals
<1>19. ASSUME NEW e \in Executors, BackupError(e) PROVE TypeOlm'
  BY <1>19 DEF BackupError, olm
<1>20. ASSUME NEW i \in PlanIds, BeginInstall(i) PROVE TypeOlm'
  BY <1>20, PlanWrites DEF BeginInstall, locals, Due, Runnable, Pending
<1>21. ASSUME NEW i \in PlanIds, FailInstall(i) PROVE TypeOlm'
  BY <1>21, PlanWrites DEF FailInstall, locals, Due, Runnable, Pending
<1>22. ASSUME NEW i \in PlanIds, EditPlan(i) PROVE TypeOlm'
  BY <1>22, PlanWrites DEF EditPlan, locals
<1>23. ASSUME NEW i \in PlanIds, NEW q \in {"ok", "broken"}, CompleteInstall(i, q)
      PROVE TypeOlm'
  BY <1>23, PlanWrites DEF CompleteInstall, locals, Due, Runnable, Pending
<1>24. CASE UNCHANGED vars
  BY <1>24 DEF vars, olm, locals
<1> HIDE DEF TypeOK, TypeOlm, TypeLocals, TypeRest, Releases, PlanIds
<1> QED
  BY <1>1, <1>2, <1>3, <1>4, <1>5, <1>6, <1>7, <1>8, <1>9, <1>10, <1>11, <1>12, <1>13,
     <1>14, <1>15, <1>16, <1>17, <1>18, <1>19, <1>20, <1>21, <1>22, <1>23,
     <1>24 DEF Next, Worker, Progress

\* The locals of ReconcileSubscription stay within their types.
LEMMA LocalsTypeStep ==
  TypeOK /\ [Next]_vars => TypeLocals'
<1> SUFFICES ASSUME TypeOK, [Next]_vars PROVE TypeLocals'
  OBVIOUS
<1> USE BoundsAssumption DEF TypeOK, TypeOlm, TypeLocals, Releases, PlanIds
<1>1. CASE Start
  BY <1>1 DEF Start, Goto, olm
<1>2. CASE ReconcileCatalogSource
  BY <1>2 DEF ReconcileCatalogSource, Declared, Goto, olm
<1>3. CASE reconcileOperatorGroup
  BY <1>3 DEF reconcileOperatorGroup, Goto, olm
<1>4. CASE InstallOperator
  BY <1>4 DEF InstallOperator, Goto
<1>5. CASE getSubscription
  BY <1>5, PlanWrites DEF getSubscription, Return, olm
<1>6. CASE GetSubscriptionInstallPlan
  <2>1. plans[ip.id] \in Plan
    BY <1>6 DEF GetSubscriptionInstallPlan
  <2>2. ip' = [id |-> ip.id, plan |-> plans[ip.id]] /\ UNCHANGED <<phase, target, backups>>
    BY <1>6 DEF GetSubscriptionInstallPlan
  <2>3. pc' \in {"decide", "backup", "approve"}
    BY <1>6 DEF GetSubscriptionInstallPlan, NextAfterRead
  <2> QED
    BY <2>1, <2>2, <2>3
<1>7. CASE PerformBackup
  BY <1>7 DEF PerformBackup, olm
<1>8. CASE WaitForBackups
  BY <1>8, PlanWrites DEF WaitForBackups, Goto, Return, BackupSucceeded, olm
<1>9. CASE Approve
  <2>1. CASE ip' = [ip EXCEPT !.plan = Approved(ip.plan)] /\ pc' = "decide"
                 /\ UNCHANGED <<phase, target, backups>>
    BY <2>1, PlanWrites
  <2>2. CASE Return("Failed")
    BY <2>2, PlanWrites DEF Return
  <2> QED
    BY <1>9, <2>1, <2>2 DEF Approve
<1>10. CASE DecideOnPlan
  <2>1. CASE Retry(FailedPlanCSV)
    BY <2>1 DEF Retry, FailedPlanCSV
  <2>2. CASE Return("InProgress")
    BY <2>2, PlanWrites DEF Return
  <2>3. CASE Goto("validate")
    BY <2>3 DEF Goto
  <2> QED
    BY <1>10, <2>1, <2>2, <2>3 DEF DecideOnPlan
<1>11. CASE ValidateCSV
  <2>1. CASE Return("InProgress") \/ Return("Completed")
    BY <2>1, PlanWrites DEF Return
  <2>2. CASE Retry(ip.plan.csv)
    <3>1. ip.plan.csv \in 0 .. MaxRelease
      BY PlanWrites
    <3> QED
      BY <2>2, <3>1 DEF Retry
  <2> QED
    BY <1>11, <2>1, <2>2 DEF ValidateCSV
<1>12. CASE DeleteCSV
  BY <1>12 DEF DeleteCSV, Goto, Without
<1>13. CASE DeleteSub
  BY <1>13, PlanWrites DEF DeleteSub, Return
<1>14. CASE Resolve
  BY <1>14 DEF Resolve, locals
<1>15. CASE Fault
  BY <1>15, PlanWrites DEF Fault, Return, olm
<1>16. CASE OperatorUpgraded
  BY <1>16, PlanWrites DEF OperatorUpgraded, Return, olm
<1>17. ASSUME NEW e \in Executors, PollSnapshot(e) PROVE TypeLocals'
  BY <1>17 DEF PollSnapshot, olm
<1>18. ASSUME NEW e \in Executors, FinishSnapshot(e) PROVE TypeLocals'
  BY <1>18 DEF FinishSnapshot, olm, locals
<1>19. ASSUME NEW e \in Executors, BackupError(e) PROVE TypeLocals'
  BY <1>19 DEF BackupError, olm
<1>20. ASSUME NEW i \in PlanIds, BeginInstall(i) PROVE TypeLocals'
  BY <1>20, PlanWrites DEF BeginInstall, locals, Due, Runnable, Pending
<1>21. ASSUME NEW i \in PlanIds, FailInstall(i) PROVE TypeLocals'
  BY <1>21, PlanWrites DEF FailInstall, locals, Due, Runnable, Pending
<1>22. ASSUME NEW i \in PlanIds, EditPlan(i) PROVE TypeLocals'
  BY <1>22, PlanWrites DEF EditPlan, locals
<1>23. ASSUME NEW i \in PlanIds, NEW q \in {"ok", "broken"}, CompleteInstall(i, q)
      PROVE TypeLocals'
  BY <1>23, PlanWrites DEF CompleteInstall, locals, Due, Runnable, Pending
<1>24. CASE UNCHANGED vars
  BY <1>24 DEF vars, olm, locals
<1> HIDE DEF TypeOK, TypeOlm, TypeLocals, Releases, PlanIds
<1> QED
  BY <1>1, <1>2, <1>3, <1>4, <1>5, <1>6, <1>7, <1>8, <1>9, <1>10, <1>11, <1>12, <1>13,
     <1>14, <1>15, <1>16, <1>17, <1>18, <1>19, <1>20, <1>21, <1>22, <1>23,
     <1>24 DEF Next, Worker, Progress

\* The remaining variables stay within their types.
LEMMA RestTypeStep ==
  TypeOK /\ [Next]_vars => TypeRest'
<1> SUFFICES ASSUME TypeOK, [Next]_vars PROVE TypeRest'
  OBVIOUS
<1> USE BoundsAssumption DEF TypeOK, TypeRest, Releases
<1>1. CASE Start
  BY <1>1 DEF Start, Goto, olm
<1>2. CASE ReconcileCatalogSource
  BY <1>2 DEF ReconcileCatalogSource, Declared, Goto, olm
<1>3. CASE reconcileOperatorGroup
  BY <1>3 DEF reconcileOperatorGroup, Goto, olm
<1>4. CASE InstallOperator
  BY <1>4 DEF InstallOperator, Goto
<1>5. CASE getSubscription
  BY <1>5 DEF getSubscription, Return, olm
<1>6. CASE GetSubscriptionInstallPlan
  BY <1>6 DEF GetSubscriptionInstallPlan, NextAfterRead, IsUpgrade, olm
<1>7. CASE PerformBackup
  BY <1>7 DEF PerformBackup, olm
<1>8. CASE WaitForBackups
  BY <1>8 DEF WaitForBackups, Goto, Return, BackupSucceeded, olm
<1>9. CASE Approve
  BY <1>9 DEF Approve, Return, Approved
<1>10. CASE DecideOnPlan
  BY <1>10 DEF DecideOnPlan, Goto, Return, Retry, FailedPlanCSV, PlanFailed, olm
<1>11. CASE ValidateCSV
  BY <1>11 DEF ValidateCSV, Invalid, Return, Retry, olm
<1>12. CASE DeleteCSV
  BY <1>12 DEF DeleteCSV, Goto, Without
<1>13. CASE DeleteSub
  BY <1>13 DEF DeleteSub, Return
<1>14. CASE Resolve
  BY <1>14 DEF Resolve, locals
<1>15. CASE Fault
  BY <1>15 DEF Fault, Return, olm
<1>16. CASE OperatorUpgraded
  BY <1>16 DEF OperatorUpgraded, Return, olm
<1>17. ASSUME NEW e \in Executors, PollSnapshot(e) PROVE TypeRest'
  BY <1>17 DEF PollSnapshot, olm
<1>18. ASSUME NEW e \in Executors, FinishSnapshot(e) PROVE TypeRest'
  BY <1>18 DEF FinishSnapshot, olm, locals
<1>19. ASSUME NEW e \in Executors, BackupError(e) PROVE TypeRest'
  BY <1>19 DEF BackupError, olm
<1>20. ASSUME NEW i \in PlanIds, BeginInstall(i) PROVE TypeRest'
  BY <1>20 DEF BeginInstall, locals, Due, Runnable, Pending
<1>21. ASSUME NEW i \in PlanIds, FailInstall(i) PROVE TypeRest'
  BY <1>21 DEF FailInstall, locals, Due, Runnable, Pending
<1>22. ASSUME NEW i \in PlanIds, EditPlan(i) PROVE TypeRest'
  BY <1>22 DEF EditPlan, locals
<1>23. ASSUME NEW i \in PlanIds, NEW q \in {"ok", "broken"}, CompleteInstall(i, q)
      PROVE TypeRest'
  <2>1. CASE q = "ok"
    BY <1>23, <2>1 DEF CompleteInstall
  <2>2. CASE q = "broken"
    <3>1. used.broken + 1 \in 0 .. MaxBroken
      BY <1>23, <2>2 DEF CompleteInstall
    <3>2. used' = [used EXCEPT !.broken = @ + 1] /\ UNCHANGED <<want, catalog, group, snapshots>>
      BY <1>23, <2>2 DEF CompleteInstall
    <3> QED
      BY <3>1, <3>2
  <2> QED
    BY <2>1, <2>2
<1>24. CASE UNCHANGED vars
  BY <1>24 DEF vars, olm, locals
<1> HIDE DEF TypeOK, TypeRest, Releases
<1> QED
  BY <1>1, <1>2, <1>3, <1>4, <1>5, <1>6, <1>7, <1>8, <1>9, <1>10, <1>11, <1>12, <1>13,
     <1>14, <1>15, <1>16, <1>17, <1>18, <1>19, <1>20, <1>21, <1>22, <1>23,
     <1>24 DEF Next, Worker, Progress

\* A plan that is due moves on: the order of the plans stays as it is.
LEMMA DuePlanMoves ==
  ASSUME TypeOlm, PlanInv, NEW i \in PlanIds, Due(i),
         NEW s \in {"Installing", "Complete", "Failed"},
         plans' = [plans EXCEPT ![i].st = s], last' = last, sub'.exists = sub.exists,
         sub'.plan = sub.plan
  PROVE  \A k \in PlanIds : PlanOK(k)'
<1>1. plans[i] \in Plan /\ \A k \in PlanIds : k # i => plans'[k] = plans[k]
  BY DEF TypeOlm
<1>2. plans'[i] = [plans[i] EXCEPT !.st = s]
  BY DEF TypeOlm
<1>3. plans'[i].st = s /\ plans'[i].approved = plans[i].approved /\ plans'[i].csv = plans[i].csv
  BY <1>1, <1>2 DEF Plan
<1>4. \A k \in PlanIds : Runnable(k)' => Runnable(k)
  BY <1>1, <1>3 DEF Runnable, Pending, Due
<1>5. plans[i].approved /\ plans[i].st # "none" /\ \A j \in 1 .. i - 1 : ~Runnable(j)
  BY DEF Due, Runnable, Pending
<1>6. i \in Int /\ \A k \in PlanIds : \A j \in 1 .. k - 1 : j \in PlanIds
  BY BoundsAssumption DEF PlanIds
<1>7. PlanOK(i)'
  <2>1. PlanOK(i)
    BY DEF PlanInv
  <2>2. plans[i] # NoPlan
    BY <1>5 DEF NoPlan
  <2>3. ~(i > last \/ ~sub.exists) /\ plans[i].csv \in Releases
    BY <2>1, <2>2, <1>5 DEF PlanOK
  <2>4. \A j \in 1 .. i - 1 : ~Runnable(j)'
    BY <1>4, <1>5, <1>6
  <2> QED
    BY <1>3, <1>5, <2>3, <2>4 DEF PlanOK, Releases
<1>8. ASSUME NEW k \in PlanIds, k # i PROVE PlanOK(k)'
  <2>1. PlanOK(k) /\ plans'[k] = plans[k]
    BY <1>1, <1>8 DEF PlanInv
  <2>2. \A j \in 1 .. k - 1 : Runnable(j)' => Runnable(j)
    BY <1>4, <1>6
  <2> QED
    BY <2>1, <2>2 DEF PlanOK, Releases
<1> QED
  BY <1>7, <1>8

\* A plan is rewritten and is not carried out: the order of the plans stays as it
\* is unless a later plan was carried out already.
LEMMA PlanRewritten ==
  ASSUME TypeOlm, PlanInv, NEW i \in PlanIds, NEW p \in Plan,
         plans' = [plans EXCEPT ![i] = p], UNCHANGED <<last, sub>>,
         p.csv = plans[i].csv, p.st = plans[i].st, plans[i].st # "none",
         plans[i].approved => p.approved,
         \/ p.approved = plans[i].approved
         \/ \A k \in PlanIds : k > i => ~plans[k].approved
  PROVE  PlanInv'
<1>1. plans'[i] = p /\ \A k \in PlanIds : k # i => plans'[k] = plans[k]
  BY DEF TypeOlm
<1>2. \A k \in PlanIds : \A j \in 1 .. k - 1 : j \in PlanIds /\ k > j
  BY BoundsAssumption DEF PlanIds
<1>3. ASSUME NEW k \in PlanIds, plans'[k].st \in {"Installing", "Complete", "Failed"}
      PROVE  plans'[k].approved /\ \A j \in 1 .. k - 1 : ~Runnable(j)'
  <2>1. plans[k].approved /\ \A j \in 1 .. k - 1 : ~Runnable(j)
    BY <1>1, <1>3 DEF PlanInv, PlanOK
  <2>2. plans'[k].approved
    BY <1>1, <2>1
  <2>3. ASSUME NEW j \in 1 .. k - 1 PROVE ~Runnable(j)'
    <3>1. CASE j # i
      BY <1>1, <1>2, <2>1, <3>1 DEF Runnable, Pending
    <3>2. CASE j = i
      BY <1>1, <1>2, <2>1, <3>2 DEF Runnable, Pending
    <3> QED
      BY <3>1, <3>2
  <2> QED
    BY <2>2, <2>3
<1>4. ASSUME NEW k \in PlanIds PROVE PlanOK(k)'
  <2>1. PlanOK(k) /\ PlanOK(i)
    BY DEF PlanInv
  <2>2. plans[i] # NoPlan
    BY DEF NoPlan
  <2>3. CASE k = i
    BY <1>1, <1>3, <2>1, <2>2, <2>3 DEF PlanOK, Releases
  <2>4. CASE k # i
    BY <1>1, <1>3, <2>1, <2>4 DEF PlanOK, Releases
  <2> QED
    BY <2>3, <2>4
<1> QED
  BY <1>4 DEF PlanInv, NoSub

\* A CSV in the namespace is the one its subscription installed.
LEMMA CSVStep ==
  TypeOK /\ IInv /\ [Next]_vars => CSVInv'
<1> SUFFICES ASSUME TypeOK /\ IInv, [Next]_vars PROVE CSVInv'
  OBVIOUS
<1> USE BoundsAssumption DEF TypeOK, TypeOlm, IInv, CSVInv, Releases, PlanIds
<1>1. CASE Start
  BY <1>1 DEF Start, Goto, olm
<1>2. CASE ReconcileCatalogSource
  BY <1>2 DEF ReconcileCatalogSource, Declared, Goto, olm
<1>3. CASE reconcileOperatorGroup
  BY <1>3 DEF reconcileOperatorGroup, Goto, olm
<1>4. CASE InstallOperator
  BY <1>4 DEF InstallOperator, Goto
<1>5. CASE getSubscription
  BY <1>5 DEF getSubscription, Return, olm
<1>6. CASE GetSubscriptionInstallPlan
  BY <1>6 DEF GetSubscriptionInstallPlan, NextAfterRead, IsUpgrade, olm
<1>7. CASE PerformBackup
  BY <1>7 DEF PerformBackup, olm
<1>8. CASE WaitForBackups
  BY <1>8 DEF WaitForBackups, Goto, Return, BackupSucceeded, olm
<1>9. CASE Approve
  BY <1>9 DEF Approve, Return, Approved
<1>10. CASE DecideOnPlan
  BY <1>10 DEF DecideOnPlan, Goto, Return, Retry, FailedPlanCSV, PlanFailed, olm
<1>11. CASE ValidateCSV
  BY <1>11 DEF ValidateCSV, Invalid, Return, Retry, olm
<1>12. CASE DeleteCSV
  BY <1>12 DEF DeleteCSV, Goto, Without
<1>13. CASE DeleteSub
  BY <1>13 DEF DeleteSub, RetryInv
<1>14. CASE Resolve
  BY <1>14 DEF Resolve, locals
<1>15. CASE Fault
  BY <1>15 DEF Fault, Return, olm
<1>16. CASE OperatorUpgraded
  BY <1>16 DEF OperatorUpgraded, Return, olm
<1>17. ASSUME NEW e \in Executors, PollSnapshot(e) PROVE CSVInv'
  BY <1>17 DEF PollSnapshot, olm
<1>18. ASSUME NEW e \in Executors, FinishSnapshot(e) PROVE CSVInv'
  BY <1>18 DEF FinishSnapshot, olm, locals
<1>19. ASSUME NEW e \in Executors, BackupError(e) PROVE CSVInv'
  BY <1>19 DEF BackupError, olm
<1>20. ASSUME NEW i \in PlanIds, BeginInstall(i) PROVE CSVInv'
  BY <1>20 DEF BeginInstall, locals, Due, Runnable, Pending
<1>21. ASSUME NEW i \in PlanIds, FailInstall(i) PROVE CSVInv'
  BY <1>21 DEF FailInstall, locals, Due, Runnable, Pending
<1>22. ASSUME NEW i \in PlanIds, EditPlan(i) PROVE CSVInv'
  BY <1>22 DEF EditPlan, locals
<1>23. ASSUME NEW i \in PlanIds, NEW q \in {"ok", "broken"}, CompleteInstall(i, q)
      PROVE CSVInv'
  BY <1>23 DEF CompleteInstall, Due, PlanInv, PlanOK, NoPlan
<1>24. CASE UNCHANGED vars
  BY <1>24 DEF vars, olm, locals
<1> HIDE DEF TypeOK, TypeOlm, IInv, CSVInv, Releases, PlanIds
<1> QED
  BY <1>1, <1>2, <1>3, <1>4, <1>5, <1>6, <1>7, <1>8, <1>9, <1>10, <1>11, <1>12, <1>13,
     <1>14, <1>15, <1>16, <1>17, <1>18, <1>19, <1>20, <1>21, <1>22, <1>23,
     <1>24 DEF Next, Worker, Progress

\* OLM carries out one subscription's plans in order.
LEMMA PlanStep ==
  TypeOK /\ IInv /\ [Next]_vars => PlanInv'
<1> SUFFICES ASSUME TypeOK /\ IInv, [Next]_vars PROVE PlanInv'
  OBVIOUS
<1> USE BoundsAssumption DEF IInv, PlanInv, NoSub
<1>1. CASE Start
  BY <1>1 DEF Start, Goto, olm, PlanOK, Runnable, Pending, Releases
<1>2. CASE ReconcileCatalogSource
  BY <1>2 DEF ReconcileCatalogSource, Declared, Goto, olm, PlanOK, Runnable, Pending, Releases
<1>3. CASE reconcileOperatorGroup
  BY <1>3 DEF reconcileOperatorGroup, Goto, olm, PlanOK, Runnable, Pending, Releases
<1>4. CASE InstallOperator
  BY <1>4 DEF InstallOperator, Goto, PlanOK, Runnable, Pending, TypeOK, TypeOlm, Releases
<1>5. CASE getSubscription
  BY <1>5 DEF getSubscription, Return, olm,
     PlanOK, Runnable, Pending, Releases
<1>6. CASE GetSubscriptionInstallPlan
  BY <1>6 DEF GetSubscriptionInstallPlan, NextAfterRead, IsUpgrade, olm,
     PlanOK, Runnable, Pending, Releases
<1>7. CASE PerformBackup
  BY <1>7 DEF PerformBackup, olm, PlanOK, Runnable, Pending, Releases
<1>8. CASE WaitForBackups
  BY <1>8 DEF WaitForBackups, Goto, Return, BackupSucceeded, olm, PlanOK, Runnable, Pending,
     Releases
<1>9. CASE Approve
  <2>1. CASE UNCHANGED plans
    BY <1>9, <2>1 DEF Approve, PlanOK, Runnable, Pending, Releases
  <2>2. CASE plans[ip.id] = ip.plan /\ plans' = [plans EXCEPT ![ip.id] = Approved(@)]
    <3> DEFINE p == Approved(plans[ip.id])
    <3>1. ip.id \in PlanIds /\ ip.plan.csv \in Releases
          /\ \A k \in PlanIds : k > ip.id => ~plans[k].approved
      BY <1>9 DEF Approve, IInv, HeldInv, HoldsPlan, TypeOK, TypeOlm, PlanIds
    <3>2. plans[ip.id] \in Plan /\ plans[ip.id].st # "none"
      BY <2>2, <3>1, BoundsAssumption DEF TypeOK, TypeOlm, IInv, PlanInv,
         PlanOK, NoPlan, Releases
    <3>3. p \in Plan /\ p.csv = plans[ip.id].csv /\ p.st = plans[ip.id].st /\ p.approved
      BY <3>2, PlanWrites DEF Approved
    <3>4. plans' = [plans EXCEPT ![ip.id] = p] /\ UNCHANGED <<last, sub>>
      BY <1>9, <2>2 DEF Approve
    <3> HIDE DEF p
    <3> QED
      BY <3>1, <3>2, <3>3, <3>4, PlanRewritten DEF TypeOK, IInv
  <2> QED
    BY <1>9, <2>1, <2>2 DEF Approve
<1>10. CASE DecideOnPlan
  BY <1>10 DEF DecideOnPlan, Goto, Return, Retry, FailedPlanCSV, PlanFailed, olm,
     PlanOK, Runnable, Pending, Releases
<1>11. CASE ValidateCSV
  BY <1>11 DEF ValidateCSV, Invalid, Return, Retry, olm, PlanOK, Runnable, Pending, Releases
<1>12. CASE DeleteCSV
  BY <1>12 DEF DeleteCSV, Goto, Without, PlanOK, Runnable, Pending, Releases
<1>13. CASE DeleteSub
  BY <1>13 DEF DeleteSub, Return, PlanOK, NoPlan, Releases, Runnable, Pending
<1>14. CASE Resolve
  <2>1. last + 1 \in PlanIds /\ catalog \in Releases /\ last \in Int
    BY <1>14, BoundsAssumption DEF Resolve, TypeOK, TypeOlm, TypeRest, PlanIds, Releases
  <2>2. /\ plans'[last + 1] = [csv |-> catalog, approved |-> FALSE, gen |-> 1,
                                st |-> "RequiresApproval"]
        /\ \A k \in PlanIds : k # last + 1 => plans'[k] = plans[k]
    BY <1>14, <2>1 DEF Resolve, TypeOK, TypeOlm
  <2>3. \A j \in PlanIds : Runnable(j)' => Runnable(j)
    BY <1>14, <2>1, <2>2 DEF Resolve, Runnable, Pending
  <2>4. ASSUME NEW k \in PlanIds PROVE PlanOK(k)'
    <3>1. k \in Int /\ \A j \in 1 .. k - 1 : j \in PlanIds
      BY BoundsAssumption DEF PlanIds
    <3>2. sub.exists /\ sub'.exists /\ last' = last + 1
      BY <1>14 DEF Resolve
    <3>3. CASE k = last + 1
      BY <2>1, <2>2, <3>1, <3>2, <3>3 DEF PlanOK, Releases
    <3>4. CASE k # last + 1
      <4>1. PlanOK(k) /\ plans'[k] = plans[k] /\ \A j \in 1 .. k - 1 : Runnable(j)' => Runnable(j)
        BY <2>2, <2>3, <3>1, <3>4 DEF IInv, PlanInv
      <4> QED
        BY <2>1, <3>1, <3>2, <3>4, <4>1 DEF PlanOK, Releases
    <3> QED
      BY <3>3, <3>4
  <2> QED
    BY <1>14, <2>4 DEF Resolve, PlanInv, NoSub
<1>15. CASE Fault
  BY <1>15 DEF Fault, Return, olm, PlanOK, Runnable, Pending, Releases
<1>16. CASE OperatorUpgraded
  BY <1>16 DEF OperatorUpgraded, Return, olm, PlanOK, Runnable, Pending, Releases
<1>17. ASSUME NEW e \in Executors, PollSnapshot(e) PROVE PlanInv'
  BY <1>17 DEF PollSnapshot, olm, PlanOK, Runnable, Pending, Releases
<1>18. ASSUME NEW e \in Executors, FinishSnapshot(e) PROVE PlanInv'
  BY <1>18 DEF FinishSnapshot, olm, locals, PlanOK, Runnable, Pending, Releases
<1>19. ASSUME NEW e \in Executors, BackupError(e) PROVE PlanInv'
  BY <1>19 DEF BackupError, olm, PlanOK, Runnable, Pending, Releases
<1>20. ASSUME NEW i \in PlanIds, BeginInstall(i) PROVE PlanInv'
  <2>1. plans' = [plans EXCEPT ![i].st = "Installing"] /\ Due(i)
         /\ last' = last /\ sub'.exists = sub.exists /\ sub'.plan = sub.plan
    BY <1>20 DEF BeginInstall, TypeOK, TypeOlm
  <2>2. \A k \in PlanIds : PlanOK(k)'
    BY <2>1, DuePlanMoves DEF TypeOK, IInv
  <2>3. (~sub.exists => sub = NoSub)' /\ (sub.plan # 0 => sub.plan = last)'
    BY <1>20 DEF BeginInstall, TypeOK, TypeOlm, IInv, PlanInv, NoSub
  <2> QED
    BY <2>2, <2>3 DEF PlanInv
<1>21. ASSUME NEW i \in PlanIds, FailInstall(i) PROVE PlanInv'
  <2>1. plans' = [plans EXCEPT ![i].st = "Failed"] /\ Due(i)
         /\ last' = last /\ sub'.exists = sub.exists /\ sub'.plan = sub.plan
    BY <1>21 DEF FailInstall, TypeOK, TypeOlm
  <2>2. \A k \in PlanIds : PlanOK(k)'
    BY <2>1, DuePlanMoves DEF TypeOK, IInv
  <2>3. (~sub.exists => sub = NoSub)' /\ (sub.plan # 0 => sub.plan = last)'
    BY <1>21 DEF FailInstall, TypeOK, TypeOlm, IInv, PlanInv, NoSub
  <2> QED
    BY <2>2, <2>3 DEF PlanInv
<1>22. ASSUME NEW i \in PlanIds, EditPlan(i) PROVE PlanInv'
  <2> DEFINE p == [plans[i] EXCEPT !.gen = @ + 1]
  <2>1. plans' = [plans EXCEPT ![i] = p] /\ UNCHANGED <<last, sub>> /\ plans[i].st # "none"
    BY <1>22 DEF EditPlan
  <2>2. plans[i] \in Plan
    BY DEF TypeOK, TypeOlm
  <2>3. p \in Plan /\ p.csv = plans[i].csv /\ p.st = plans[i].st /\ p.approved = plans[i].approved
    BY <2>2 DEF Plan
  <2> HIDE DEF p
  <2> QED
    BY <2>1, <2>3, PlanRewritten DEF TypeOK, IInv
<1>23. ASSUME NEW i \in PlanIds, NEW q \in {"ok", "broken"}, CompleteInstall(i, q)
      PROVE PlanInv'
  <2>1. plans' = [plans EXCEPT ![i].st = "Complete"] /\ Due(i)
         /\ last' = last /\ sub'.exists = sub.exists /\ sub'.plan = sub.plan
    BY <1>23 DEF CompleteInstall, TypeOK, TypeOlm
  <2>2. \A k \in PlanIds : PlanOK(k)'
    BY <2>1, DuePlanMoves DEF TypeOK, IInv
  <2>3. (~sub.exists => sub = NoSub)' /\ (sub.plan # 0 => sub.plan = last)'
    BY <1>23 DEF CompleteInstall, TypeOK, TypeOlm, IInv, PlanInv, NoSub, Due,
       PlanOK, NoPlan
  <2> QED
    BY <2>2, <2>3 DEF PlanInv
<1>24. CASE UNCHANGED vars
  BY <1>24 DEF vars, olm, PlanOK, Runnable, Pending, Releases
<1> HIDE DEF IInv, PlanInv, NoSub
<1> QED
  BY <1>1, <1>2, <1>3, <1>4, <1>5, <1>6, <1>7, <1>8, <1>9, <1>10, <1>11, <1>12, <1>13,
     <1>14, <1>15, <1>16, <1>17, <1>18, <1>19, <1>20, <1>21, <1>22, <1>23,
     <1>24 DEF Next, Worker, Progress

\* The plan a subscription refers to is there.
LEMMA RefStep ==
  TypeOK /\ IInv /\ [Next]_vars => RefInv'
<1> SUFFICES ASSUME TypeOK /\ IInv, [Next]_vars PROVE RefInv'
  OBVIOUS
<1> USE BoundsAssumption DEF IInv, RefInv
<1>1. CASE Start
  BY <1>1 DEF Start, Goto, olm
<1>2. CASE ReconcileCatalogSource
  BY <1>2 DEF ReconcileCatalogSource, Declared, Goto, olm
<1>3. CASE reconcileOperatorGroup
  BY <1>3 DEF reconcileOperatorGroup, Goto, olm
<1>4. CASE InstallOperator
  BY <1>4 DEF InstallOperator, Goto, TypeOK, TypeOlm, PlanIds
<1>5. CASE getSubscription
  BY <1>5 DEF getSubscription, Return, olm
<1>6. CASE GetSubscriptionInstallPlan
  BY <1>6 DEF GetSubscriptionInstallPlan, NextAfterRead, IsUpgrade, olm
<1>7. CASE PerformBackup
  BY <1>7 DEF PerformBackup, olm
<1>8. CASE WaitForBackups
  BY <1>8 DEF WaitForBackups, Goto, Return, BackupSucceeded, olm
<1>9. CASE Approve
  <2>1. CASE UNCHANGED plans
    BY <1>9, <2>1 DEF Approve
  <2>2. CASE plans' = [plans EXCEPT ![ip.id] = Approved(@)]
    <3>1. \A k \in PlanIds : plans'[k].st = plans[k].st
      BY <2>2 DEF Approved, TypeOK, TypeOlm
    <3>2. UNCHANGED sub /\ (sub.plan # 0 => sub.plan \in PlanIds)
      BY <1>9 DEF Approve, TypeOK, TypeOlm, PlanIds
    <3> QED
      BY <3>1, <3>2
  <2> QED
    BY <1>9, <2>1, <2>2 DEF Approve
<1>10. CASE DecideOnPlan
  BY <1>10 DEF DecideOnPlan, Goto, Return, Retry, FailedPlanCSV, PlanFailed, olm
<1>11. CASE ValidateCSV
  BY <1>11 DEF ValidateCSV, Invalid, Return, Retry, olm
<1>12. CASE DeleteCSV
  BY <1>12 DEF DeleteCSV, Goto, Without
<1>13. CASE DeleteSub
  BY <1>13 DEF DeleteSub, Return, NoSub
<1>14. CASE Resolve
  BY <1>14 DEF Resolve, locals, TypeOK, TypeOlm, PlanIds
<1>15. CASE Fault
  BY <1>15 DEF Fault, Return, olm
<1>16. CASE OperatorUpgraded
  BY <1>16 DEF OperatorUpgraded, Return, olm
<1>17. ASSUME NEW e \in Executors, PollSnapshot(e) PROVE RefInv'
  BY <1>17 DEF PollSnapshot, olm
<1>18. ASSUME NEW e \in Executors, FinishSnapshot(e) PROVE RefInv'
  BY <1>18 DEF FinishSnapshot, olm, locals
<1>19. ASSUME NEW e \in Executors, BackupError(e) PROVE RefInv'
  BY <1>19 DEF BackupError, olm
<1>20. ASSUME NEW i \in PlanIds, BeginInstall(i) PROVE RefInv'
  BY <1>20 DEF BeginInstall, locals, Due, Runnable, Pending, TypeOK, TypeOlm, PlanIds
<1>21. ASSUME NEW i \in PlanIds, FailInstall(i) PROVE RefInv'
  BY <1>21 DEF FailInstall, locals, Due, Runnable, Pending, TypeOK, TypeOlm, PlanIds
<1>22. ASSUME NEW i \in PlanIds, EditPlan(i) PROVE RefInv'
  BY <1>22 DEF EditPlan, locals, TypeOK, TypeOlm, PlanIds
<1>23. ASSUME NEW i \in PlanIds, NEW q \in {"ok", "broken"}, CompleteInstall(i, q)
      PROVE RefInv'
  BY <1>23 DEF CompleteInstall, locals, Due, Runnable, Pending, TypeOK, TypeOlm, PlanIds
<1>24. CASE UNCHANGED vars
  BY <1>24 DEF vars, olm, locals
<1> HIDE DEF IInv, RefInv
<1> QED
  BY <1>1, <1>2, <1>3, <1>4, <1>5, <1>6, <1>7, <1>8, <1>9, <1>10, <1>11, <1>12, <1>13,
     <1>14, <1>15, <1>16, <1>17, <1>18, <1>19, <1>20, <1>21, <1>22, <1>23,
     <1>24 DEF Next, Worker, Progress

\* What OLM may do between the reads of the subscription and of its plan.
LEMMA ReadStep ==
  TypeOK /\ IInv /\ [Next]_vars => ReadInv'
<1> SUFFICES ASSUME TypeOK /\ IInv, [Next]_vars PROVE ReadInv'
  OBVIOUS
<1> USE BoundsAssumption DEF IInv, ReadInv
<1>1. CASE Start
  BY <1>1 DEF Start, Goto, olm
<1>2. CASE ReconcileCatalogSource
  BY <1>2 DEF ReconcileCatalogSource, Declared, Goto, olm
<1>3. CASE reconcileOperatorGroup
  BY <1>3 DEF reconcileOperatorGroup, Goto, olm
<1>4. CASE InstallOperator
  BY <1>4 DEF InstallOperator, Goto
<1>5. CASE getSubscription
  <2>1. CASE Return("AwaitingOperator")
    BY <2>1 DEF Return
  <2>2. CASE sub.exists /\ sub.plan # 0 /\ ip' = [id |-> sub.plan, plan |-> NoPlan]
             /\ target' = sub.installed
    <3>1. sub.plan = last /\ last \in PlanIds /\ last \in 1 .. last
      BY <2>2 DEF PlanInv, TypeOK, TypeOlm, PlanIds
    <3>2. plans[last].st # "none" /\ \A j \in PlanIds : j > last => ~plans[j].approved
      BY <2>2, <3>1 DEF RefInv, PlanInv, PlanOK, NoPlan
    <3>3. UNCHANGED <<sub, plans, last>> /\ ip'.id = last
      BY <1>5, <2>2, <3>1 DEF getSubscription, olm
    <3> QED
      BY <2>2, <3>1, <3>2, <3>3 DEF PlanIds
  <2> QED
    BY <1>5, <2>1, <2>2 DEF getSubscription
<1>6. CASE GetSubscriptionInstallPlan
  BY <1>6 DEF GetSubscriptionInstallPlan, NextAfterRead, IsUpgrade, olm
<1>7. CASE PerformBackup
  BY <1>7 DEF PerformBackup, olm
<1>8. CASE WaitForBackups
  BY <1>8 DEF WaitForBackups, Goto, Return, BackupSucceeded, olm
<1>9. CASE Approve
  BY <1>9 DEF Approve, Return, Approved
<1>10. CASE DecideOnPlan
  BY <1>10 DEF DecideOnPlan, Goto, Return, Retry, FailedPlanCSV, PlanFailed, olm
<1>11. CASE ValidateCSV
  BY <1>11 DEF ValidateCSV, Invalid, Return, Retry, olm
<1>12. CASE DeleteCSV
  BY <1>12 DEF DeleteCSV, Goto, Without
<1>13. CASE DeleteSub
  BY <1>13 DEF DeleteSub, Return
<1>14. CASE Resolve
  <2>1. last \in Int /\ last + 1 \in PlanIds /\ UNCHANGED <<pc, ip, target>>
    BY <1>14 DEF Resolve, locals, TypeOK, TypeOlm, PlanIds
  <2>2. /\ ~plans'[last + 1].approved
        /\ \A j \in PlanIds : j # last + 1 => plans'[j] = plans[j]
        /\ last' = last + 1 /\ sub'.exists /\ sub'.installed = sub.installed
    BY <1>14, <2>1 DEF Resolve, TypeOK, TypeOlm
  <2>3. SUFFICES ASSUME pc = "getPlan" PROVE ReadInv'
    BY <2>1
  <2>4. ip.id \in 1 .. last /\ ip.id \in PlanIds /\ ip.id # last + 1
    BY <2>1, <2>3 DEF PlanIds
  <2> QED
    BY <2>1, <2>2, <2>3, <2>4 DEF PlanIds
<1>15. CASE Fault
  BY <1>15 DEF Fault, Return, olm
<1>16. CASE OperatorUpgraded
  BY <1>16 DEF OperatorUpgraded, Return, olm
<1>17. ASSUME NEW e \in Executors, PollSnapshot(e) PROVE ReadInv'
  BY <1>17 DEF PollSnapshot, olm, TypeOK, TypeLocals
<1>18. ASSUME NEW e \in Executors, FinishSnapshot(e) PROVE ReadInv'
  BY <1>18 DEF FinishSnapshot, olm, locals, TypeOK, TypeRest
<1>19. ASSUME NEW e \in Executors, BackupError(e) PROVE ReadInv'
  BY <1>19 DEF BackupError, olm, TypeOK, TypeLocals
<1>20. ASSUME NEW i \in PlanIds, BeginInstall(i) PROVE ReadInv'
  BY <1>20 DEF BeginInstall, locals, Due, Runnable, Pending
<1>21. ASSUME NEW i \in PlanIds, FailInstall(i) PROVE ReadInv'
  BY <1>21 DEF FailInstall, locals, Due, Runnable, Pending
<1>22. ASSUME NEW i \in PlanIds, EditPlan(i) PROVE ReadInv'
  BY <1>22 DEF EditPlan, locals
<1>23. ASSUME NEW i \in PlanIds, NEW q \in {"ok", "broken"}, CompleteInstall(i, q)
      PROVE ReadInv'
  <2>1. plans[i].approved /\ (Serial => i = sub.plan) /\ UNCHANGED <<pc, ip, target, last>>
    BY <1>23 DEF CompleteInstall, locals, Due, Runnable, Pending
  <2>2. SUFFICES ASSUME pc = "getPlan" PROVE ReadInv'
    BY <2>1
  <2>3. ip.id \in 1 .. last /\ ip.id \in PlanIds /\ ip.id \in Int /\ i \in Int /\ ~(i > ip.id)
    BY <2>1, <2>2 DEF TypeOK, TypeOlm, PlanIds
  <2>4. /\ plans'[i].st = "Complete" /\ plans'[i].approved = plans[i].approved
        /\ \A j \in PlanIds : j # i => plans'[j] = plans[j]
        /\ sub'.exists = sub.exists
    BY <1>23 DEF CompleteInstall, TypeOK, TypeOlm, Plan
  <2>5. Serial => i = ip.id
    <3>1. Serial => i = sub.plan /\ sub.plan = last
      BY <2>1 DEF PlanInv, PlanIds
    <3> QED
      BY <2>3, <3>1
  <2> QED
    BY <2>1, <2>2, <2>3, <2>4, <2>5 DEF PlanIds
<1>24. CASE UNCHANGED vars
  BY <1>24 DEF vars, olm, locals
<1> HIDE DEF IInv, ReadInv
<1> QED
  BY <1>1, <1>2, <1>3, <1>4, <1>5, <1>6, <1>7, <1>8, <1>9, <1>10, <1>11, <1>12, <1>13,
     <1>14, <1>15, <1>16, <1>17, <1>18, <1>19, <1>20, <1>21, <1>22, <1>23,
     <1>24 DEF Next, Worker, Progress

\* The plan ReconcileSubscription holds.
LEMMA HeldStep ==
  TypeOK /\ IInv /\ [Next]_vars => HeldInv'
<1> SUFFICES ASSUME TypeOK /\ IInv, [Next]_vars PROVE HeldInv'
  OBVIOUS
<1> USE BoundsAssumption DEF IInv, HeldInv, HoldsPlan, Ended
<1>1. CASE Start
  BY <1>1 DEF Start, Goto, olm
<1>2. CASE ReconcileCatalogSource
  BY <1>2 DEF ReconcileCatalogSource, Declared, Goto, olm
<1>3. CASE reconcileOperatorGroup
  BY <1>3 DEF reconcileOperatorGroup, Goto, olm
<1>4. CASE InstallOperator
  BY <1>4 DEF InstallOperator, Goto
<1>5. CASE getSubscription
  BY <1>5 DEF getSubscription, Return
<1>6. CASE GetSubscriptionInstallPlan
  <2>1. ip.id \in 1 .. last /\ ip.id \in PlanIds /\ PlanOK(ip.id)
    BY <1>6 DEF GetSubscriptionInstallPlan, ReadInv, PlanInv, TypeOK, TypeOlm, PlanIds
  <2>2. plans[ip.id].csv \in Releases
    BY <1>6, <2>1 DEF GetSubscriptionInstallPlan, ReadInv, PlanOK
  <2>3. /\ UNCHANGED <<sub, plans, last>>
        /\ ip'.id = ip.id /\ ip'.plan = plans[ip.id]
        /\ pc' = NextAfterRead(plans[ip.id])
    BY <1>6 DEF GetSubscriptionInstallPlan, olm
  <2>4. sub.exists /\ \A j \in PlanIds : j > ip.id => ~plans[j].approved
    BY <1>6 DEF GetSubscriptionInstallPlan, ReadInv
  <2>5. pc' # "wait" /\ (pc' \in {"backup", "approve"} => ~plans[ip.id].approved)
    BY <2>3 DEF NextAfterRead
  <2> QED
    BY <2>1, <2>2, <2>3, <2>4, <2>5 DEF Releases, PlanIds
<1>7. CASE PerformBackup
  BY <1>7 DEF PerformBackup, olm
<1>8. CASE WaitForBackups
  BY <1>8 DEF WaitForBackups, Goto, Return, BackupSucceeded, olm
<1>9. CASE Approve
  <2>1. CASE Return("Failed")
    BY <2>1 DEF Return
  <2>2. CASE plans[ip.id] = ip.plan /\ plans' = [plans EXCEPT ![ip.id] = Approved(@)]
             /\ ip' = [ip EXCEPT !.plan = Approved(@)] /\ pc' = "decide"
    <3>1. ip.id \in 1 .. last /\ ip.id \in PlanIds /\ ip.id \in Int
      BY <1>9 DEF Approve, TypeOK, TypeOlm, PlanIds
    <3>2. ip'.id = ip.id /\ ip'.plan = Approved(ip.plan) /\ plans'[ip.id] = Approved(ip.plan)
          /\ \A j \in PlanIds : j # ip.id => plans'[j] = plans[j]
      BY <2>2, <3>1 DEF TypeOK, TypeOlm, TypeLocals
    <3>3. Approved(ip.plan).csv = ip.plan.csv
      BY DEF Approved
    <3>4. UNCHANGED <<sub, last>>
      BY <1>9 DEF Approve
    <3>5. /\ ip.plan.csv \in Releases /\ sub.exists
          /\ \A j \in PlanIds : j > ip.id => ~plans[j].approved
      BY <1>9 DEF Approve
    <3> QED
      BY <2>2, <3>1, <3>2, <3>3, <3>4, <3>5 DEF Releases, PlanIds
  <2> QED
    BY <1>9, <2>1, <2>2 DEF Approve
<1>10. CASE DecideOnPlan
  BY <1>10 DEF DecideOnPlan, Goto, Return, Retry, FailedPlanCSV, PlanFailed, olm
<1>11. CASE ValidateCSV
  BY <1>11 DEF ValidateCSV, Invalid, Return, Retry, olm
<1>12. CASE DeleteCSV
  BY <1>12 DEF DeleteCSV, Goto, Without
<1>13. CASE DeleteSub
  BY <1>13 DEF DeleteSub, Return
<1>14. CASE Resolve
  <2>1. /\ UNCHANGED <<pc, ip, target, csvs>> /\ last' = last + 1 /\ last + 1 \in PlanIds
        /\ sub'.exists /\ sub'.installed = sub.installed /\ last \in Nat
    BY <1>14 DEF Resolve, locals, TypeOK, TypeOlm, PlanIds
  <2>2. \A i \in PlanIds : i # last + 1 => plans'[i] = plans[i]
    BY <1>14 DEF Resolve, TypeOK, TypeOlm
  <2>3. ~plans'[last + 1].approved
    BY <1>14, <2>1 DEF Resolve, TypeOK, TypeOlm
  <2>4. HoldsPlan => ip.id \in PlanIds /\ ip.id # last + 1
    BY <2>1 DEF PlanIds
  <2> QED
    BY <2>1, <2>2, <2>3, <2>4
<1>15. CASE Fault
  BY <1>15 DEF Fault, Return, olm
<1>16. CASE OperatorUpgraded
  BY <1>16 DEF OperatorUpgraded, Return, olm
<1>17. ASSUME NEW e \in Executors, PollSnapshot(e) PROVE HeldInv'
  BY <1>17 DEF PollSnapshot, olm
<1>18. ASSUME NEW e \in Executors, FinishSnapshot(e) PROVE HeldInv'
  BY <1>18 DEF FinishSnapshot, olm, locals
<1>19. ASSUME NEW e \in Executors, BackupError(e) PROVE HeldInv'
  BY <1>19 DEF BackupError, olm
<1>20. ASSUME NEW i \in PlanIds, BeginInstall(i) PROVE HeldInv'
  BY <1>20 DEF BeginInstall, locals, Due, Runnable, Pending, TypeOK, TypeOlm, PlanIds
<1>21. ASSUME NEW i \in PlanIds, FailInstall(i) PROVE HeldInv'
  BY <1>21 DEF FailInstall, locals, Due, Runnable, Pending, TypeOK, TypeOlm, PlanIds
<1>22. ASSUME NEW i \in PlanIds, EditPlan(i) PROVE HeldInv'
  BY <1>22 DEF EditPlan, locals, TypeOK, TypeOlm, PlanIds, PlanInv, PlanOK
<1>23. ASSUME NEW i \in PlanIds, NEW q \in {"ok", "broken"}, CompleteInstall(i, q)
      PROVE HeldInv'
  <2>1. UNCHANGED <<pc, ip, last>> /\ sub'.exists = sub.exists
    BY <1>23 DEF CompleteInstall, locals, TypeOK, TypeOlm
  <2>2. \A j \in PlanIds : /\ plans'[j].approved = plans[j].approved
                           /\ j # i => plans'[j] = plans[j]
    BY <1>23 DEF CompleteInstall, TypeOK, TypeOlm
  <2>3. ~Ended(plans[i])
    BY <1>23 DEF CompleteInstall
  <2>4. HoldsPlan => ip.id \in PlanIds
    BY DEF TypeOK, TypeOlm, PlanIds
  <2>5. HoldsPlan /\ Ended(ip.plan) => plans'[ip.id] = ip.plan
    BY <2>2, <2>3, <2>4
  <2>6. HoldsPlan => \A j \in PlanIds : j > ip.id => ~plans'[j].approved
    BY <2>2
  <2> QED
    BY <2>1, <2>5, <2>6
<1>24. CASE UNCHANGED vars
  BY <1>24 DEF vars, olm, locals
<1> HIDE DEF IInv, HeldInv, HoldsPlan, Ended
<1> QED
  BY <1>1, <1>2, <1>3, <1>4, <1>5, <1>6, <1>7, <1>8, <1>9, <1>10, <1>11, <1>12, <1>13,
     <1>14, <1>15, <1>16, <1>17, <1>18, <1>19, <1>20, <1>21, <1>22, <1>23,
     <1>24 DEF Next, Worker, Progress

\* Nothing a retry relies on changes while it is under way.
LEMMA RetryStep ==
  TypeOK /\ IInv /\ [Next]_vars => RetryInv'
<1> SUFFICES ASSUME TypeOK /\ IInv, [Next]_vars PROVE RetryInv'
  BY Zenon
<1> USE BoundsAssumption DEF IInv, RetryInv, Ended
<1>1. CASE Start
  BY <1>1 DEF Start, Goto, olm
<1>2. CASE ReconcileCatalogSource
  BY <1>2 DEF ReconcileCatalogSource, Declared, Goto, olm
<1>3. CASE reconcileOperatorGroup
  BY <1>3 DEF reconcileOperatorGroup, Goto, olm
<1>4. CASE InstallOperator
  BY <1>4 DEF InstallOperator, Goto
<1>5. CASE getSubscription
  BY <1>5 DEF getSubscription, Return, olm
<1>6. CASE GetSubscriptionInstallPlan
  BY <1>6 DEF GetSubscriptionInstallPlan, NextAfterRead, IsUpgrade, olm, ReadInv
<1>7. CASE PerformBackup
  BY <1>7 DEF PerformBackup, olm
<1>8. CASE WaitForBackups
  BY <1>8 DEF WaitForBackups, Goto, Return, BackupSucceeded, olm
<1>9. CASE Approve
  <2>1. CASE Return("Failed")
    BY <2>1 DEF Return
  <2>2. CASE plans[ip.id] = ip.plan /\ ip' = [ip EXCEPT !.plan = Approved(@)] /\ pc' = "decide"
    <3>0. ip.id \in 1 .. last /\ ~ip.plan.approved
      BY <1>9 DEF Approve, HeldInv, HoldsPlan
    <3>1. ip.id \in PlanIds /\ ~ip.plan.approved
      BY <3>0 DEF TypeOK, TypeOlm, PlanIds
    <3>2. ip.plan.st # "Failed"
      BY <2>2, <3>1 DEF PlanInv, PlanOK
    <3>3. ip'.plan.st = ip.plan.st
      BY <2>2 DEF Approved, TypeOK, TypeLocals
    <3> QED
      BY <2>2, <3>2, <3>3
  <2> QED
    BY <1>9, <2>1, <2>2 DEF Approve
<1>10. CASE DecideOnPlan
  BY <1>10 DEF DecideOnPlan, Goto, Return, Retry, FailedPlanCSV, PlanFailed, olm,
     CSVInv, HeldInv, HoldsPlan, TypeOK, TypeOlm, TypeLocals, Releases
<1>11. CASE ValidateCSV
  BY <1>11 DEF ValidateCSV, Invalid, Return, Retry, olm, CSVInv, HeldInv, HoldsPlan, TypeOK,
     TypeOlm, Releases
<1>12. CASE DeleteCSV
  BY <1>12 DEF DeleteCSV, Goto, Without, TypeOK, TypeOlm, Releases
<1>13. CASE DeleteSub
  BY <1>13 DEF DeleteSub, Return
<1>14. CASE Resolve
  <2>1. /\ UNCHANGED <<pc, ip, target, csvs>> /\ last' = last + 1 /\ last + 1 \in PlanIds
        /\ sub'.exists /\ sub'.installed = sub.installed /\ last \in Nat
    BY <1>14 DEF Resolve, locals, TypeOK, TypeOlm, PlanIds
  <2>2. \A i \in PlanIds : i # last + 1 => plans'[i] = plans[i]
    BY <1>14 DEF Resolve, TypeOK, TypeOlm
  <2>3. pc = "deleteCSV" => ip.id \in PlanIds /\ ip.id # last + 1
    BY <2>1 DEF HeldInv, HoldsPlan, PlanIds
  <2> QED
    BY <2>1, <2>2, <2>3
<1>15. CASE Fault
  BY <1>15 DEF Fault, Return, olm
<1>16. CASE OperatorUpgraded
  BY <1>16 DEF OperatorUpgraded, Return, olm
<1>17. ASSUME NEW e \in Executors, PollSnapshot(e) PROVE RetryInv'
  BY <1>17 DEF PollSnapshot, olm
<1>18. ASSUME NEW e \in Executors, FinishSnapshot(e) PROVE RetryInv'
  BY <1>18 DEF FinishSnapshot, olm, locals
<1>19. ASSUME NEW e \in Executors, BackupError(e) PROVE RetryInv'
  BY <1>19 DEF BackupError, olm
<1>20. ASSUME NEW i \in PlanIds, BeginInstall(i) PROVE RetryInv'
  BY <1>20 DEF BeginInstall, locals, Due, Runnable, Pending, HeldInv, HoldsPlan, TypeOK, TypeOlm, PlanIds
<1>21. ASSUME NEW i \in PlanIds, FailInstall(i) PROVE RetryInv'
  BY <1>21 DEF FailInstall, locals, Due, Runnable, Pending, HeldInv, HoldsPlan, TypeOK, TypeOlm, PlanIds
<1>22. ASSUME NEW i \in PlanIds, EditPlan(i) PROVE RetryInv'
  BY <1>22 DEF EditPlan, locals, HeldInv, HoldsPlan, TypeOK, TypeOlm, PlanIds
<1>23. ASSUME NEW i \in PlanIds, NEW q \in {"ok", "broken"}, CompleteInstall(i, q)
      PROVE RetryInv'
  <2>1. Runnable(i) /\ i \in Int /\ plans[i].approved /\ ~Ended(plans[i])
    BY <1>23 DEF CompleteInstall, Due, Runnable, Pending, PlanIds
  <2>2. ASSUME HoldsPlan, Ended(ip.plan) PROVE FALSE
    <3>1. ip.id \in 1 .. last /\ ip.id \in PlanIds /\ ip.id \in Int /\ plans[ip.id] = ip.plan
      BY <2>2 DEF HeldInv, TypeOK, TypeOlm, PlanIds
    <3>2. i # ip.id /\ ~(i > ip.id)
      BY <2>1, <2>2, <3>1 DEF HeldInv
    <3>3. i \in 1 .. ip.id - 1
      BY <2>1, <3>1, <3>2 DEF PlanIds
    <3>4. PlanOK(ip.id) /\ plans[ip.id].st \in {"Complete", "Failed"}
      BY <2>2, <3>1 DEF PlanInv
    <3> QED
      BY <2>1, <3>3, <3>4 DEF PlanOK
  <2>3. UNCHANGED <<pc, ip, target>>
    BY <1>23 DEF CompleteInstall, locals
  <2> QED
    BY <2>2, <2>3 DEF HoldsPlan
<1>24. CASE UNCHANGED vars
  BY <1>24 DEF vars, olm, locals
<1> HIDE DEF IInv, RetryInv, Ended
<1> QED
  BY <1>1, <1>2, <1>3, <1>4, <1>5, <1>6, <1>7, <1>8, <1>9, <1>10, <1>11, <1>12, <1>13,
     <1>14, <1>15, <1>16, <1>17, <1>18, <1>19, <1>20, <1>21, <1>22, <1>23,
     <1>24 DEF Next, Worker, Progress

\* A backup counts as done only when its snapshots are complete.
LEMMA BackupStep ==
  TypeOK /\ IInv /\ [Next]_vars => BackupInv'
<1> SUFFICES ASSUME TypeOK /\ IInv, [Next]_vars PROVE BackupInv'
  BY Zenon
<1> USE BoundsAssumption DEF IInv, BackupInv
<1>1. CASE Start
  BY <1>1 DEF Start, Goto, olm
<1>2. CASE ReconcileCatalogSource
  BY <1>2 DEF ReconcileCatalogSource, Declared, Goto, olm
<1>3. CASE reconcileOperatorGroup
  BY <1>3 DEF reconcileOperatorGroup, Goto, olm
<1>4. CASE InstallOperator
  BY <1>4 DEF InstallOperator, Goto
<1>5. CASE getSubscription
  BY <1>5 DEF getSubscription, Return, olm
<1>6. CASE GetSubscriptionInstallPlan
  BY <1>6 DEF GetSubscriptionInstallPlan, NextAfterRead, IsUpgrade, olm
<1>7. CASE PerformBackup
  BY <1>7 DEF PerformBackup, olm
<1>8. CASE WaitForBackups
  BY <1>8 DEF WaitForBackups, Goto, Return, BackupSucceeded, olm
<1>9. CASE Approve
  BY <1>9 DEF Approve, Return, Approved
<1>10. CASE DecideOnPlan
  BY <1>10 DEF DecideOnPlan, Goto, Return, Retry, FailedPlanCSV, PlanFailed, olm
<1>11. CASE ValidateCSV
  BY <1>11 DEF ValidateCSV, Invalid, Return, Retry, olm
<1>12. CASE DeleteCSV
  BY <1>12 DEF DeleteCSV, Goto, Without
<1>13. CASE DeleteSub
  BY <1>13 DEF DeleteSub, Return
<1>14. CASE Resolve
  BY <1>14 DEF Resolve, locals
<1>15. CASE Fault
  BY <1>15 DEF Fault, Return, olm
<1>16. CASE OperatorUpgraded
  BY <1>16 DEF OperatorUpgraded, Return, olm
<1>17. ASSUME NEW e \in Executors, PollSnapshot(e) PROVE BackupInv'
  BY <1>17 DEF PollSnapshot, olm, TypeOK, TypeLocals
<1>18. ASSUME NEW e \in Executors, FinishSnapshot(e) PROVE BackupInv'
  BY <1>18 DEF FinishSnapshot, olm, locals, TypeOK, TypeRest
<1>19. ASSUME NEW e \in Executors, BackupError(e) PROVE BackupInv'
  BY <1>19 DEF BackupError, olm, TypeOK, TypeLocals
<1>20. ASSUME NEW i \in PlanIds, BeginInstall(i) PROVE BackupInv'
  BY <1>20 DEF BeginInstall, locals, Due, Runnable, Pending
<1>21. ASSUME NEW i \in PlanIds, FailInstall(i) PROVE BackupInv'
  BY <1>21 DEF FailInstall, locals, Due, Runnable, Pending
<1>22. ASSUME NEW i \in PlanIds, EditPlan(i) PROVE BackupInv'
  BY <1>22 DEF EditPlan, locals
<1>23. ASSUME NEW i \in PlanIds, NEW q \in {"ok", "broken"}, CompleteInstall(i, q)
      PROVE BackupInv'
  BY <1>23 DEF CompleteInstall, locals, Due, Runnable, Pending
<1>24. CASE UNCHANGED vars
  BY <1>24 DEF vars, olm, locals
<1> HIDE DEF IInv, BackupInv
<1> QED
  BY <1>1, <1>2, <1>3, <1>4, <1>5, <1>6, <1>7, <1>8, <1>9, <1>10, <1>11, <1>12, <1>13,
     <1>14, <1>15, <1>16, <1>17, <1>18, <1>19, <1>20, <1>21, <1>22, <1>23,
     <1>24 DEF Next, Worker, Progress

--------------------------------------------------------------------------------
\* Every variable of ReconcileSubscription's model stays within its type.
THEOREM TypeCorrect == Spec => []TypeOK
<1>1. Init => TypeOK
  <2>1. Init => TypeOlm
    BY BoundsAssumption, PlanWrites DEF Init, TypeOlm, NoSub
  <2>2. Init => TypeLocals
    BY BoundsAssumption, PlanWrites DEF Init, TypeLocals
  <2>3. Init => TypeRest
    <3>1. 1 \in Releases /\ 0 \in 0 .. MaxRelease /\ 0 \in 0 .. MaxFaults
          /\ 0 \in 0 .. MaxFailures /\ 0 \in 0 .. MaxBroken /\ 0 \in 0 .. MaxEdits
      BY BoundsAssumption DEF Releases
    <3>2. Init => group \in BOOLEAN
      BY Zenon DEF Init
    <3>3. Init => used \in [faults : 0 .. MaxFaults, failures : 0 .. MaxFailures,
                           broken : 0 .. MaxBroken, edits : 0 .. MaxEdits]
      BY <3>1 DEF Init
    <3>4. Init => want \in Releases /\ catalog \in 0 .. MaxRelease
                  /\ snapshots \in [Executors -> {"none", "pending", "complete", "failed"}]
      BY <3>1 DEF Init
    <3> QED
      BY <3>2, <3>3, <3>4 DEF TypeRest
  <2> QED
    BY <2>1, <2>2, <2>3 DEF TypeOK
<1>2. TypeOK /\ [Next]_vars => TypeOK'
  BY OlmTypeStep, LocalsTypeStep, RestTypeStep DEF TypeOK
<1> QED
  BY <1>1, <1>2, PTL DEF Spec

\* The inductive invariant holds throughout.
THEOREM Invariance == Spec => []IInv
<1>1. Init => IInv
  <2> SUFFICES ASSUME Init PROVE IInv
    OBVIOUS
  <2>1. CSVInv /\ RefInv /\ BackupInv
    BY DEF Init, CSVInv, RefInv, BackupInv, NoSub
  <2>2. PlanInv
    BY DEF Init, PlanInv, PlanOK, NoPlan, NoSub
  <2>3. ReadInv /\ HeldInv /\ RetryInv
    BY DEF Init, ReadInv, HeldInv, HoldsPlan, RetryInv
  <2> QED
    BY <2>1, <2>2, <2>3 DEF IInv
<1>2. TypeOK /\ IInv /\ [Next]_vars => IInv'
  BY CSVStep, PlanStep, RefStep, ReadStep, HeldStep, RetryStep, BackupStep DEF IInv
<1> QED
  BY <1>1, <1>2, TypeCorrect, PTL DEF Spec

\* A subscription that retryInstallation deleted, in whatever interleaving with
\* crashes, failed calls and an OLM that is Serial, leaves no CSV behind.
THEOREM CleanSlateHolds == Spec => []CleanSlate
<1>1. IInv => CleanSlate
  BY DEF IInv, CSVInv, CleanSlate
<1> QED
  BY <1>1, Invariance, PTL

\* retryInstallation takes a working CSV away only after an install plan failed.
THEOREM HealthyKeptHolds == Spec => HealthyKept
<1> DEFINE Kept == \A c \in Releases : csvs[c] = "ok" /\ csvs'[c] = "none" =>
       \/ \E d \in Releases : csvs[d] = "none" /\ csvs'[d] # "none"
       \/ \E i \in PlanIds : plans[i].st = "Failed"
<1>1. TypeOK /\ IInv /\ [Next]_vars => [Kept]_vars
  <2> SUFFICES ASSUME TypeOK, IInv, Next, NEW c \in Releases,
                      csvs[c] = "ok", csvs'[c] = "none"
               PROVE  \/ \E d \in Releases : csvs[d] = "none" /\ csvs'[d] # "none"
                      \/ \E i \in PlanIds : plans[i].st = "Failed"
    OBVIOUS
  <2>1. CASE DeleteCSV
    <3>1. c = target /\ csvs[target] = "ok"
      BY <2>1 DEF DeleteCSV, Without, TypeOK, TypeOlm
    <3>2. plans[ip.id].st = "Failed"
      BY <2>1, <3>1 DEF DeleteCSV, IInv, RetryInv
    <3>3. ip.id \in PlanIds
      <4>1. ip.id \in 1 .. last
        BY <2>1 DEF DeleteCSV, IInv, HeldInv, HoldsPlan
      <4>2. last \in 0 .. MaxPlans
        BY DEF TypeOK, TypeOlm
      <4> QED
        BY <4>1, <4>2, BoundsAssumption DEF PlanIds
    <3> QED
      BY <3>2, <3>3
  <2>2. ASSUME NEW i \in PlanIds, NEW q \in {"ok", "broken"}, CompleteInstall(i, q)
        PROVE  \E d \in Releases : csvs[d] = "none" /\ csvs'[d] # "none"
    <3>1. plans[i].csv \in Releases
      BY <2>2 DEF CompleteInstall, IInv, PlanInv, PlanOK
    <3>2. plans[i].csv # c /\ csvs'[plans[i].csv] # "none"
      BY <2>2, <3>1 DEF CompleteInstall
    <3>3. csvs[plans[i].csv] = "none"
      BY <3>1, <3>2 DEF IInv, CSVInv
    <3> QED
      BY <3>1, <3>2, <3>3
  <2>3. CASE UNCHANGED csvs
    BY <2>3
  <2> QED
    BY <2>1, <2>2, <2>3 DEF Next, Worker, Progress, Start, ReconcileCatalogSource,
       reconcileOperatorGroup, InstallOperator, getSubscription, GetSubscriptionInstallPlan, PerformBackup,
       WaitForBackups, Approve, DecideOnPlan, ValidateCSV, DeleteSub, Resolve, Fault,
       OperatorUpgraded, PollSnapshot, FinishSnapshot, BackupError, BeginInstall,
       FailInstall, EditPlan, olm
<1> QED
  BY <1>1, TypeCorrect, Invariance, PTL DEF Spec, HealthyKept

\* upgradeApproval approves a plan of a higher generation only over complete
\* snapshots of every executor.
THEOREM BackupBeforeApprovalHolds == Spec => BackupBeforeApproval
<1> DEFINE Safe == \A i \in PlanIds : Approves(i) /\ plans[i].gen > 1 => BackedUp
<1>1. TypeOK /\ IInv /\ [Next]_vars => [Safe]_vars
  <2> SUFFICES ASSUME TypeOK, IInv, Next, NEW i \in PlanIds, Approves(i), plans[i].gen > 1
               PROVE  BackedUp
    OBVIOUS
  <2>1. CASE Approve
    <3>1. i = ip.id /\ plans[i] = ip.plan
      BY <2>1 DEF Approve, Approves, TypeOK, TypeOlm
    <3> QED
      BY <2>1, <3>1 DEF Approve, IInv, BackupInv, IsUpgrade, BackedUp
  <2>2. ASSUME NEW k \in PlanIds, NEW s \in {"Installing", "Complete", "Failed"},
               plans' = [plans EXCEPT ![k].st = s]
        PROVE  FALSE
    BY <2>2 DEF Approves, TypeOK, TypeOlm, Plan
  <2>3. ASSUME NEW k \in PlanIds, EditPlan(k) PROVE FALSE
    BY <2>3 DEF EditPlan, Approves, TypeOK, TypeOlm, Plan
  <2>4. ~Resolve /\ ~DeleteSub /\ ~(UNCHANGED plans)
    BY DEF Resolve, DeleteSub, Approves, TypeOK, TypeOlm, NoPlan
  <2> QED
    BY <2>1, <2>2, <2>3, <2>4 DEF Next, Worker, Progress, Start, ReconcileCatalogSource,
       reconcileOperatorGroup, InstallOperator, getSubscription, GetSubscriptionInstallPlan, PerformBackup,
       WaitForBackups, DecideOnPlan, ValidateCSV, DeleteCSV, Fault, OperatorUpgraded,
       PollSnapshot, FinishSnapshot, BackupError, BeginInstall, CompleteInstall,
       FailInstall, olm
<1> QED
  BY <1>1, TypeCorrect, Invariance, PTL DEF Spec, BackupBeforeApproval
================================================================================
