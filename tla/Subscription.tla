------------------------------ MODULE Subscription ------------------------------
(***************************************************************************)
(* How the operator installs, upgrades and repairs the operator of one     *)
(* product through the Operator Lifecycle Manager (OLM).  Every reconcile  *)
(* of the product runs ReconcileSubscription: it writes the catalog        *)
(* source, the operator group and the subscription, approves the install   *)
(* plan OLM made, after a backup when it takes it for an upgrade, and      *)
(* deletes the CSV (ClusterServiceVersion) and the subscription when the   *)
(* installation went wrong, so that the next reconcile starts over.        *)
(*                                                                         *)
(* A release of the product's operator is a number; CSV c is the CSV of    *)
(* release c.  One reconcile is a sequence of steps that ends after each   *)
(* call of the API server; OLM, the executors of a backup, the service     *)
(* that takes the snapshots, a person with write access and the crash of   *)
(* the operator step in between.                                           *)
(***************************************************************************)
EXTENDS Integers, FiniteSets

CONSTANTS
  Serial,        \* OLM carries out only the plan the subscription refers to, and
                 \* makes no other while it does
  Executors,     \* the executors of the pre-upgrade backup; {} for the no-op one
  MaxRelease,    \* releases of the product's operator are 1 .. MaxRelease
  MaxPlans,      \* bound on the install plans OLM makes
  MaxFaults,     \* bound on crashes, failed calls and failed or late snapshots
  MaxFailures,   \* bound on the install plans that fail
  MaxBroken,     \* bound on the CSVs that arrive without a deployment
  MaxEdits       \* bound on edits of an install plan by a person

ASSUME BoundsAssumption ==
  /\ Serial \in BOOLEAN
  /\ MaxRelease \in Nat \ {0}
  /\ MaxPlans \in Nat /\ MaxFaults \in Nat /\ MaxFailures \in Nat
  /\ MaxBroken \in Nat /\ MaxEdits \in Nat

VARIABLES
  want,      \* the release the running operator's product declaration names
  catalog,   \* the release the catalog source serves; 0 when there is none
  group,     \* the operator group exists
  sub,       \* the subscription
  plans,     \* the install plans by name
  last,      \* the newest install plan
  csvs,      \* the CSVs in the namespace
  snapshots, \* the snapshot each executor asked for last
  pc,        \* where ReconcileSubscription is; "idle" between two reconciles
  ip,        \* its copy of the install plan, and the plan's name
  target,    \* the CSV the subscription it read had installed, then the one
             \* retryInstallation deletes; 0 for none
  backups,   \* the result of each executor's goroutine
  phase,     \* the phase ReconcileSubscription returned last
  used       \* how much of each bound has been used up

olm    == <<sub, plans, last, csvs>>
locals == <<pc, ip, target, backups, phase>>
vars   == <<want, catalog, group, olm, snapshots, locals, used>>

Releases == 1 .. MaxRelease
PlanIds  == 1 .. MaxPlans

Plan == [csv : 0 .. MaxRelease, approved : BOOLEAN, gen : Nat,
         st : {"none", "RequiresApproval", "Installing", "Complete", "Failed"}]
NoPlan == [csv |-> 0, approved |-> FALSE, gen |-> 0, st |-> "none"]
NoSub  == [exists |-> FALSE, current |-> 0, installed |-> 0, plan |-> 0]

\* Deleting a CSV, as the garbage collection of OLM and the API server leave it.
Without(c) == [csvs EXCEPT ![c] = "none"]

TypeOlm ==
  /\ sub \in [exists : BOOLEAN, current : 0 .. MaxRelease,
              installed : 0 .. MaxRelease, plan : 0 .. MaxPlans]
  /\ plans \in [PlanIds -> Plan]
  /\ last \in 0 .. MaxPlans
  /\ csvs \in [Releases -> {"none", "ok", "broken"}]
TypeLocals ==
  /\ pc \in {"idle", "catalogSource", "operatorGroup", "subscription", "installPlan",
             "getPlan", "backup", "wait", "approve", "decide", "validate", "deleteCSV", "deleteSub"}
  /\ ip \in [id : 0 .. MaxPlans, plan : Plan]
  /\ pc = "getPlan" => ip.id \in PlanIds
  /\ target \in 0 .. MaxRelease
  /\ backups \in [Executors -> {"none", "running", "ok", "error"}]
  /\ phase \in {"none", "Failed", "AwaitingOperator", "InProgress", "Completed"}
TypeRest ==
  /\ want \in Releases
  /\ catalog \in 0 .. MaxRelease
  /\ group \in BOOLEAN
  /\ snapshots \in [Executors -> {"none", "pending", "complete", "failed"}]
  /\ used \in [faults : 0 .. MaxFaults, failures : 0 .. MaxFailures,
               broken : 0 .. MaxBroken, edits : 0 .. MaxEdits]
\* The type of every variable.
TypeOK == TypeOlm /\ TypeLocals /\ TypeRest

Init ==
  /\ want = 1 /\ catalog = 0 /\ group = FALSE
  /\ sub = NoSub /\ plans = [i \in PlanIds |-> NoPlan] /\ last = 0
  /\ csvs = [c \in Releases |-> "none"]
  /\ snapshots = [e \in Executors |-> "none"]
  /\ pc = "idle" /\ ip = [id |-> 0, plan |-> NoPlan] /\ target = 0
  /\ backups = [e \in Executors |-> "none"]
  /\ phase = "none"
  /\ used = [faults |-> 0, failures |-> 0, broken |-> 0, edits |-> 0]

--------------------------------------------------------------------------------
(* ReconcileSubscription *)

\* Return: the reconcile ends with a phase and drops its locals.
Return(p) ==
  /\ pc' = "idle" /\ phase' = p
  /\ ip' = [id |-> 0, plan |-> NoPlan] /\ target' = 0
  /\ backups' = [e \in Executors |-> "none"]

Goto(l) == pc' = l /\ UNCHANGED <<phase, ip, target, backups>>

Start == pc = "idle" /\ Goto("catalogSource")
         /\ UNCHANGED <<want, catalog, group, olm, snapshots, used>>

\* ToCatalogSourceReconciler: the release the product declaration names, be it by
\* an index image, a directory of manifests or the add-on's own catalog.
\* Mutated: the declaration of the next release.
DeclaredNext == want + 1
Declared == want

\* CatalogSourceReconciler.Reconcile: the catalog source serves that release.
ReconcileCatalogSource ==
  /\ pc = "catalogSource"
  /\ catalog' = Declared
  /\ Goto("operatorGroup")
  /\ UNCHANGED <<want, group, olm, snapshots, used>>

reconcileOperatorGroup ==
  /\ pc = "operatorGroup"
  /\ group' = TRUE
  /\ Goto("subscription")
  /\ UNCHANGED <<want, catalog, olm, snapshots, used>>

\* InstallOperator: creates the subscription, with manual approval, or rewrites
\* its spec, which does not touch what OLM keeps in its status.
InstallOperator ==
  /\ pc = "subscription"
  /\ sub' = [sub EXCEPT !.exists = TRUE]
  /\ Goto("installPlan")
  /\ UNCHANGED <<want, catalog, group, plans, last, csvs, snapshots, used>>

\* upgradeApproval: only a plan that is not approved is approved; the generation
\* of the plan's metadata decides whether a backup comes first.
IsUpgrade(p) == p.gen > 1
\* Mutated: no backup.
NextAfterReadUnsaved(p) == IF p.approved THEN "decide" ELSE "approve"
NextAfterRead(p) ==
  IF p.approved THEN "decide" ELSE IF IsUpgrade(p) THEN "backup" ELSE "approve"

\* getSubscription: the CSV the subscription has installed and the plan its
\* status names, if it names one.
getSubscription ==
  /\ pc = "installPlan"
  /\ \/ /\ ~sub.exists \/ sub.plan = 0
        /\ Return("AwaitingOperator")
     \/ /\ sub.exists /\ sub.plan # 0
        /\ ip' = [id |-> sub.plan, plan |-> NoPlan]
        /\ target' = sub.installed
        /\ pc' = "getPlan"
        /\ UNCHANGED <<phase, backups>>
  /\ UNCHANGED <<want, catalog, group, olm, snapshots, used>>

\* GetSubscriptionInstallPlan: a second read, of the plan; OLM may have moved in
\* between.  It keeps the plan, so the branch for one that is gone is not taken.
GetSubscriptionInstallPlan ==
  /\ pc = "getPlan"
  /\ ip' = [id |-> ip.id, plan |-> plans[ip.id]]
  /\ pc' = NextAfterRead(plans[ip.id])
  /\ UNCHANGED <<want, catalog, group, olm, snapshots, phase, target, backups, used>>

\* ConcurrentBackupExecutor.PerformBackup: one goroutine for each executor, and
\* each asks for a snapshot under a name of its own.
PerformBackup ==
  /\ pc = "backup"
  /\ snapshots' = [e \in Executors |-> "pending"]
  /\ backups' = [e \in Executors |-> "running"]
  /\ pc' = "wait"
  /\ UNCHANGED <<want, catalog, group, olm, phase, ip, target, used>>

\* AWSBackupExecutor.PerformBackup: the poll ends with the snapshot.
PollSnapshot(e) ==
  /\ backups[e] = "running"
  /\ \/ snapshots[e] = "complete" /\ backups' = [backups EXCEPT ![e] = "ok"]
     \/ snapshots[e] = "failed"   /\ backups' = [backups EXCEPT ![e] = "error"]
  /\ UNCHANGED <<want, catalog, group, olm, snapshots, pc, ip, target, phase, used>>

\* The poll times out, the snapshot cannot be created or cannot be read.
BackupError(e) ==
  /\ backups[e] = "running" /\ used.faults < MaxFaults
  /\ backups' = [backups EXCEPT ![e] = "error"]
  /\ used' = [used EXCEPT !.faults = @ + 1]
  /\ UNCHANGED <<want, catalog, group, olm, snapshots, pc, ip, target, phase>>

\* g.Wait() returns when every goroutine has, with an error if one had one.
\* Mutated: the first goroutine that succeeds is taken for all of them.
BackupSucceededAny == Executors # {} => \E e \in Executors : backups[e] = "ok"
BackupSucceeded == \A e \in Executors : backups[e] = "ok"

WaitForBackups ==
  /\ pc = "wait"
  /\ \A e \in Executors : backups[e] # "running"
  /\ \/ BackupSucceeded /\ Goto("approve")
     \/ ~BackupSucceeded /\ Return("Failed")
  /\ UNCHANGED <<want, catalog, group, olm, snapshots, used>>

\* The update is refused when the plan changed since it was read.  A plan never
\* returns to an earlier state, so equal copies have equal resource versions.
Approved(p) == [csv |-> p.csv, approved |-> TRUE, gen |-> p.gen + 1, st |-> p.st]

Approve ==
  /\ pc = "approve"
  /\ \/ /\ plans[ip.id] = ip.plan
        /\ plans' = [plans EXCEPT ![ip.id] = Approved(@)]
        /\ ip' = [ip EXCEPT !.plan = Approved(@)]
        /\ pc' = "decide"
        /\ UNCHANGED <<phase, target, backups>>
     \/ /\ plans[ip.id] # ip.plan
        /\ Return("Failed")
        /\ UNCHANGED plans
  /\ UNCHANGED <<want, catalog, group, sub, last, csvs, snapshots, used>>

Retry(c) ==
  /\ target' = c
  /\ pc' = IF c = 0 THEN "deleteSub" ELSE "deleteCSV"
  /\ UNCHANGED <<phase, ip, backups>>

\* A failed plan is retried without the CSV the subscription had installed.
\* Mutated: a plan that is not complete is taken for a failed one.
PlanFailedUnlessComplete(p) == p.st # "Complete"
\* Mutated: a failed plan is waited for like any other.
PlanFailedNever(p) == FALSE
PlanFailed(p) == p.st = "Failed"

\* The CSV that goes with the subscription when a plan failed.
\* Mutated: the CSV the failed plan was for.
FailedPlanCSVOfPlan == ip.plan.csv
FailedPlanCSV == target

DecideOnPlan ==
  /\ pc = "decide"
  /\ \/ PlanFailed(ip.plan) /\ Retry(FailedPlanCSV)
     \/ ~PlanFailed(ip.plan) /\ ip.plan.st # "Complete" /\ Return("InProgress")
     \/ ~PlanFailed(ip.plan) /\ ip.plan.st = "Complete" /\ Goto("validate")
  /\ UNCHANGED <<want, catalog, group, olm, snapshots, used>>

\* validateCSV: a CSV without a deployment is not valid.
Invalid(c) == csvs[c] = "broken"

\* A CSV that is not valid starts the installation over.
ValidateCSV ==
  /\ pc = "validate"
  /\ \/ csvs[ip.plan.csv] = "none" /\ Return("InProgress")
     \/ csvs[ip.plan.csv] # "none" /\ Invalid(ip.plan.csv)  /\ Retry(ip.plan.csv)
     \/ csvs[ip.plan.csv] # "none" /\ ~Invalid(ip.plan.csv) /\ Return("Completed")
  /\ UNCHANGED <<want, catalog, group, olm, snapshots, used>>

\* retryInstallation: the CSV goes before the subscription.
DeleteCSV ==
  /\ pc = "deleteCSV"
  /\ csvs' = Without(target)
  /\ Goto("deleteSub")
  /\ UNCHANGED <<want, catalog, group, sub, plans, last, snapshots, used>>

\* The plans go with the subscription that owns them.
DeleteSub ==
  /\ pc = "deleteSub"
  /\ sub' = NoSub
  /\ plans' = [i \in PlanIds |-> NoPlan]
  /\ Return("AwaitingOperator")
  /\ UNCHANGED <<want, catalog, group, last, csvs, snapshots, used>>

\* A call of the API server fails, or the operator's process is killed.
Fault ==
  /\ pc # "idle" /\ used.faults < MaxFaults
  /\ used' = [used EXCEPT !.faults = @ + 1]
  /\ Return("Failed")
  /\ UNCHANGED <<want, catalog, group, olm, snapshots>>

\* The operator is replaced by a release that declares a newer product operator.
OperatorUpgraded ==
  /\ want < MaxRelease
  /\ want' = want + 1
  /\ Return("none")
  /\ UNCHANGED <<catalog, group, olm, snapshots, used>>

--------------------------------------------------------------------------------
(* The environment: OLM, the snapshot service, a person *)

\* OLM makes a plan for the release the catalog serves when the subscription has
\* none, or has an older one.  It refuses a namespace with a CSV no subscription
\* accounts for.
Resolve ==
  /\ sub.exists /\ catalog > sub.current /\ last < MaxPlans
  /\ \A c \in Releases : csvs[c] # "none" => c = sub.installed
  /\ Serial => \A i \in PlanIds : i = sub.plan => plans[i].st # "Installing"
  /\ last' = last + 1
  /\ plans' = [plans EXCEPT ![last + 1] =
       [csv |-> catalog, approved |-> FALSE, gen |-> 1, st |-> "RequiresApproval"]]
  /\ sub' = [exists |-> TRUE, current |-> catalog, installed |-> sub.installed,
             plan |-> last + 1]
  /\ UNCHANGED <<want, catalog, group, csvs, snapshots, locals, used>>

\* An approved plan is carried out, and plans are carried out in the order they
\* were made; when OLM is Serial, only the one the subscription refers to is.
Pending(i)  == plans[i].approved /\ plans[i].st \in {"RequiresApproval", "Installing"}
Runnable(i) == Pending(i) /\ (Serial => i = sub.plan)
Due(i) == Runnable(i) /\ \A j \in 1 .. i - 1 : ~Runnable(j)

BeginInstall(i) ==
  /\ Due(i) /\ group /\ plans[i].st = "RequiresApproval"
  /\ plans' = [plans EXCEPT ![i].st = "Installing"]
  /\ UNCHANGED <<want, catalog, group, sub, last, csvs, snapshots, locals, used>>

\* The new CSV replaces the one that was installed.
CompleteInstall(i, q) ==
  /\ Due(i) /\ plans[i].st = "Installing"
  /\ q = "broken" => used.broken < MaxBroken
  /\ plans' = [plans EXCEPT ![i].st = "Complete"]
  /\ csvs' = [c \in Releases |-> IF c = plans[i].csv THEN q ELSE "none"]
  /\ sub' = [sub EXCEPT !.installed = plans[i].csv]
  /\ used' = [used EXCEPT !.broken = IF q = "broken" THEN @ + 1 ELSE @]
  /\ UNCHANGED <<want, catalog, group, last, snapshots, locals>>

FailInstall(i) ==
  /\ Due(i) /\ plans[i].st = "Installing" /\ used.failures < MaxFailures
  /\ plans' = [plans EXCEPT ![i].st = "Failed"]
  /\ used' = [used EXCEPT !.failures = @ + 1]
  /\ UNCHANGED <<want, catalog, group, sub, last, csvs, snapshots, locals>>

\* The snapshot service finishes, or gives up on, a snapshot.
FinishSnapshot(e) ==
  /\ snapshots[e] = "pending"
  /\ \/ /\ snapshots' = [snapshots EXCEPT ![e] = "complete"]
        /\ UNCHANGED used
     \/ /\ used.faults < MaxFaults
        /\ snapshots' = [snapshots EXCEPT ![e] = "failed"]
        /\ used' = [used EXCEPT !.faults = @ + 1]
  /\ UNCHANGED <<want, catalog, group, olm, locals>>

\* Someone edits the spec of a plan that waits for approval.
EditPlan(i) ==
  /\ plans[i].st = "RequiresApproval" /\ ~plans[i].approved
  /\ used.edits < MaxEdits
  /\ plans' = [plans EXCEPT ![i].gen = @ + 1]
  /\ used' = [used EXCEPT !.edits = @ + 1]
  /\ UNCHANGED <<want, catalog, group, sub, last, csvs, snapshots, locals>>

Worker ==
  \/ Start \/ ReconcileCatalogSource \/ reconcileOperatorGroup \/ InstallOperator
  \/ getSubscription \/ GetSubscriptionInstallPlan \/ PerformBackup \/ WaitForBackups \/ Approve
  \/ DecideOnPlan \/ ValidateCSV \/ DeleteCSV \/ DeleteSub
  \/ \E e \in Executors : PollSnapshot(e)

Progress ==
  \/ Resolve
  \/ \E i \in PlanIds : BeginInstall(i) \/ CompleteInstall(i, "ok")
  \/ \E e \in Executors : FinishSnapshot(e)

Next ==
  \/ Worker \/ Progress \/ Fault \/ OperatorUpgraded
  \/ \E e \in Executors : BackupError(e)
  \/ \E i \in PlanIds : CompleteInstall(i, "broken") \/ FailInstall(i) \/ EditPlan(i)

Spec == Init /\ [][Next]_vars

\* The controller requeues after every result, so a reconcile always follows and
\* always goes on; OLM and the snapshot service do what they were asked to do.
Fairness ==
  /\ WF_vars(Worker)
  /\ WF_vars(Resolve)
  /\ \A i \in PlanIds : WF_vars(BeginInstall(i)) /\ WF_vars(CompleteInstall(i, "ok"))
  /\ \A e \in Executors : WF_vars(FinishSnapshot(e))

FairSpec == Spec /\ Fairness

--------------------------------------------------------------------------------
(* Properties *)

\* A subscription that retryInstallation removed leaves no CSV behind, whatever
\* failed in between: OLM would refuse to install next to it, and no later
\* reconcile would know which CSV to delete.  It needs an OLM that is Serial: the
\* CSV to delete is the one the subscription named before the plan was read.
CleanSlate == Serial /\ ~sub.exists => \A c \in Releases : csvs[c] = "none"

\* retryInstallation never takes a working CSV away unless an install plan has
\* failed: it disappears in favour of another one, or after a failure.
HealthyKept ==
  [][\A c \in Releases : csvs[c] = "ok" /\ csvs'[c] = "none" =>
       \/ \E d \in Releases : csvs[d] = "none" /\ csvs'[d] # "none"
       \/ \E i \in PlanIds : plans[i].st = "Failed"]_vars

Approves(i) == ~plans[i].approved /\ plans'[i].approved
BackedUp == \A e \in Executors : snapshots[e] = "complete"

\* upgradeApproval approves a plan of a higher generation only when every
\* executor's snapshot is complete, across timeouts, failures and restarts.
BackupBeforeApproval ==
  [][\A i \in PlanIds : Approves(i) /\ plans[i].gen > 1 => BackedUp]_vars

\* upgradeApproval's comment: a plan is approved after a backup when the product
\* is already installed.
BackupBeforeUpgrade ==
  [][\A i \in PlanIds : Approves(i) /\ sub.installed # 0 => BackedUp]_vars

\* The inductive invariant behind CleanSlate, HealthyKept and BackupBeforeApproval.
\* Plans are carried out in order, and once ReconcileSubscription holds a plan
\* that ended, OLM has no plan left to carry out: nothing changes until the CSV and
\* the subscription are deleted.  When OLM is Serial, a CSV is the one its
\* subscription installed, and that one is still the one that was read first
\* unless the plan that was read next has completed.
Ended(p)   == p.st \in {"Complete", "Failed"}
HoldsPlan  == pc \in {"backup", "wait", "approve", "decide", "validate",
                      "deleteCSV", "deleteSub"}
CSVInv ==
  /\ \A c, d \in Releases : csvs[c] # "none" /\ csvs[d] # "none" => c = d
  /\ Serial => \A c \in Releases : csvs[c] # "none" => sub.exists /\ sub.installed = c
PlanOK(i) ==
  /\ i > last \/ ~sub.exists => plans[i] = NoPlan
  /\ plans[i].st = "none" => plans[i] = NoPlan
  /\ plans[i].st # "none" => plans[i].csv \in Releases
  /\ plans[i].st \in {"Installing", "Complete", "Failed"} =>
       plans[i].approved /\ \A j \in 1 .. i - 1 : ~Runnable(j)
PlanInv ==
  /\ ~sub.exists => sub = NoSub
  /\ sub.plan # 0 => sub.plan = last
  /\ \A i \in PlanIds : PlanOK(i)
RefInv == sub.plan # 0 => plans[sub.plan].st # "none"
ReadInv ==
  pc = "getPlan" =>
    /\ ip.id \in 1 .. last /\ sub.exists
    /\ plans[ip.id].st # "none"
    /\ \A j \in PlanIds : j > ip.id => ~plans[j].approved
    /\ Serial /\ plans[ip.id].st # "Complete" => target = sub.installed
HeldInv ==
  HoldsPlan =>
    /\ ip.id \in 1 .. last /\ sub.exists
    /\ ip.plan.csv \in Releases
    /\ pc \in {"backup", "wait", "approve"} => ~ip.plan.approved
    /\ \A j \in PlanIds : j > ip.id => ~plans[j].approved
    /\ Ended(ip.plan) => plans[ip.id] = ip.plan
RetryInv ==
  /\ pc = "decide" /\ ip.plan.st = "Failed" /\ Serial => target = sub.installed
  /\ pc \in {"validate", "deleteCSV", "deleteSub"} => Ended(ip.plan)
  /\ pc = "deleteCSV" =>
       /\ target \in Releases
       /\ Serial => \A c \in Releases : csvs[c] # "none" => c = target
       /\ csvs[target] = "ok" => plans[ip.id].st = "Failed"
  /\ pc = "deleteSub" /\ Serial => \A c \in Releases : csvs[c] = "none"
BackupInv ==
  /\ \A e \in Executors : backups[e] = "ok" => snapshots[e] = "complete"
  /\ pc = "approve" /\ IsUpgrade(ip.plan) => \A e \in Executors : backups[e] = "ok"
IInv == CSVInv /\ PlanInv /\ RefInv /\ ReadInv /\ HeldInv /\ RetryInv /\ BackupInv

\* The release the operator declares gets installed, with a working CSV, and
\* ReconcileSubscription reports it as completed.
Settles ==
  /\ <>[](sub.exists /\ sub.installed = want /\ csvs[want] = "ok")
  /\ []<>(phase = "Completed")

\* One thing alone keeps ReconcileSubscription from that, with a fault at any call,
\* failed plans and broken CSVs: a complete plan whose CSV was deleted, which it takes
\* for a CSV that is still to come.
Stranded ==
  /\ sub.exists /\ sub.plan # 0
  /\ plans[sub.plan].st = "Complete" /\ csvs[plans[sub.plan].csv] = "none"
SettlesUnlessStranded == Serial => Settles \/ <>[]Stranded
================================================================================
