---- MODULE OperatorUpgrade ----
(* The upgrade of the operator itself: the controller of its Subscription keeps
   the approval manual, approves the install plans of releases that do not affect
   the service, and opens the maintenance window of the databases while a service
   affecting upgrade is under way.  The operator lifecycle manager (OLM) publishes
   and installs releases, people approve plans, and the RHMI controller records
   the version in its custom resource, all between the steps of the controller.

   A release and its install plan are a number; 0 stands for none. *)
EXTENDS Naturals, FiniteSets

CONSTANTS Releases,    \* the last release published
          MaxMishaps   \* bound on failures, conflicts and restarts

VARIABLES
    plans,    \* install plans: who approved them, and whether they affect the service
    sub,      \* Subscription: approval, currentCSV (and its InstallPlanRef), installedCSV
    cr,       \* RHMI: exists, status.version, status.toVersion
    window,   \* databases whose maintenanceWindow is true
    cache,    \* CachedCSVLocator: what the CSV of a plan says of the service
    queued,   \* the controller has a request to reconcile
    skipped,  \* the last reconcile returned because it found no RHMI
    pass,     \* the reconcile in progress: where it is, and what it holds
    mishaps

vars == <<plans, sub, cr, window, cache, queued, skipped, pass, mishaps>>
env  == <<plans, sub, cr>>

Plans     == 1 .. Releases
Databases == {"postgres", "redis"}
Status    == [version : 0 .. Releases, toVersion : 0 .. Releases]
Idle      == [at |-> "idle", inst |-> [version |-> 0, toVersion |-> 0],
              plan |-> 0, approved |-> FALSE, available |-> FALSE, affecting |-> TRUE]

Init ==
    /\ plans = [v \in Plans |-> [approver |-> "none", affecting |-> TRUE]]
    /\ sub = [manual |-> FALSE, current |-> 0, installed |-> 0]
    /\ cr = [exists |-> FALSE, version |-> 0, toVersion |-> 0]
    /\ window = {} /\ cache = [v \in Plans |-> "none"]
    /\ queued = FALSE /\ skipped = FALSE /\ pass = Idle /\ mishaps = 0

Mishap == mishaps < MaxMishaps /\ mishaps' = mishaps + 1
Fine   == UNCHANGED mishaps

running == sub.installed   \* the operator that runs is the release installed

--------------------------------------------------------------------------------
\* OLM resolves the subscription to a newer release and creates its plan, which
\* it approves itself while the approval is automatic.
Publish ==
    /\ sub.installed = sub.current \/ sub.manual
    /\ \E v \in sub.current + 1 .. Releases, affecting \in BOOLEAN :
         /\ plans' = [plans EXCEPT ![v] =
                [approver |-> IF sub.manual THEN "none" ELSE "OLM", affecting |-> affecting]]
         /\ sub' = [sub EXCEPT !.current = v]
    /\ queued' = (sub.installed # 0)
    /\ UNCHANGED <<cr, window, cache, skipped, pass, mishaps>>

\* The operator starts: its memory is empty and its subscription is reconciled.
Started == cache' = [v \in Plans |-> "none"] /\ pass' = Idle /\ queued' = TRUE /\ skipped' = FALSE

\* OLM installs the release whose plan is approved.
Install ==
    /\ sub.installed # sub.current /\ plans[sub.current].approver # "none"
    /\ sub' = [sub EXCEPT !.installed = sub.current] /\ Started
    /\ UNCHANGED <<plans, cr, window, mishaps>>

Restart ==
    /\ running # 0 /\ (pass.at # "idle" \/ \E v \in Plans : cache[v] # "none")
    /\ Mishap /\ Started /\ UNCHANGED <<env, window>>

\* Someone approves the plan of a release.
Approve ==
    /\ sub.current # 0 /\ plans[sub.current].approver = "none"
    /\ plans' = [plans EXCEPT ![sub.current].approver = "person"]
    /\ UNCHANGED <<sub, cr, window, cache, queued, skipped, pass, mishaps>>

\* The RHMI is created; its controller announces the version of the operator and
\* records it once every stage is complete.
CreateRHMI ==
    /\ running # 0 /\ ~cr.exists /\ cr' = [cr EXCEPT !.exists = TRUE]
    /\ UNCHANGED <<plans, sub, window, cache, queued, skipped, pass, mishaps>>

AnnounceVersion ==
    /\ cr.exists /\ cr.toVersion = 0 /\ cr.version # running
    /\ cr' = [cr EXCEPT !.toVersion = running]
    /\ UNCHANGED <<plans, sub, window, cache, queued, skipped, pass, mishaps>>

CompleteVersion ==
    /\ cr.exists /\ cr.toVersion # 0 /\ cr.toVersion = running
    /\ cr' = [cr EXCEPT !.version = running, !.toVersion = 0]
    /\ UNCHANGED <<plans, sub, window, cache, queued, skipped, pass, mishaps>>

\* The cloud resource operator closes the window once it has applied the updates.
CloseWindow(db) ==
    /\ db \in window /\ window' = window \ {db}
    /\ UNCHANGED <<env, cache, queued, skipped, pass, mishaps>>

--------------------------------------------------------------------------------
\* What the CSV of a plan says.
Says(v) == IF plans[v].affecting THEN "affecting" ELSE "harmless"

\* Mutant: the cache is keyed by the namespace, which all the plans share.
GetCSVByNamespace(v, found) ==
    IF \E u \in Plans : cache[u] # "none"
    THEN (\E u \in Plans : cache[u] # "none" /\ found = cache[u]) /\ Fine
    ELSE found = Says(v) /\ Fine

\* What GetCSV finds for plan v: what the cache holds, or else the CSV in the
\* plan's config map, which the cache keeps.  A config map without a CSV yields an
\* empty one, and IsUpgradeServiceAffecting takes that for service affecting.
GetCSV(v, found) ==
    IF cache[v] # "none" THEN found = cache[v] /\ Fine
    ELSE \/ found = Says(v) /\ Fine
         \/ found = "empty" /\ Mishap

Keep(v, found) == cache' = [cache EXCEPT ![v] = found]
IsUpgradeServiceAffecting(found) == found # "harmless"

\* Mutant: the error is logged and not returned.
FailQuietly == Mishap /\ pass' = Idle /\ UNCHANGED queued

\* A reconcile that fails is queued again.
Fail == Mishap /\ pass' = Idle /\ queued' = TRUE

\* It starts by making the approval manual, which needs the CSV of the latest
\* plan, and reads the RHMI.  Without one it returns and nothing is queued.
Reconcile ==
    /\ running # 0 /\ pass.at = "idle" /\ queued /\ queued' = FALSE
    /\ \/ sub.manual /\ Fine /\ UNCHANGED <<sub, cache>>
       \/ /\ ~sub.manual /\ sub.current # 0
          /\ \E found \in {"affecting", "harmless", "empty"} :
                GetCSV(sub.current, found) /\ Keep(sub.current, found)
          /\ sub' = [sub EXCEPT !.manual = TRUE]
    /\ skipped' = ~cr.exists
    /\ pass' = IF cr.exists
               THEN [Idle EXCEPT !.at = "poll",
                                 !.inst = [version |-> cr.version, toVersion |-> cr.toVersion]]
               ELSE Idle
    /\ UNCHANGED <<plans, cr, window>>

\* HandleUpgrades polls the subscription and its plan, while the RHMI it holds ages.
PollInstallPlan ==
    /\ pass.at = "poll"
    /\ pass' = [pass EXCEPT !.at = "csv", !.plan = sub.current,
                            !.approved = plans[sub.current].approver # "none",
                            !.available = sub.current # sub.installed]
    /\ UNCHANGED <<env, window, cache, queued, skipped, mishaps>>

JudgeUpgrade ==
    /\ pass.at = "csv"
    /\ \E found \in {"affecting", "harmless", "empty"} :
         /\ GetCSV(pass.plan, found) /\ Keep(pass.plan, found)
         /\ pass' = [pass EXCEPT !.at = "databases", !.affecting = IsUpgradeServiceAffecting(found)]
    /\ UNCHANGED <<env, window, queued, skipped>>

\* Opens the window of the databases, and stops at the first that fails.
allowDatabaseUpdates ==
    LET open == pass.inst.version # 0 /\ pass.inst.toVersion # 0 /\ pass.affecting IN
    /\ pass.at = "databases"
    /\ \/ /\ window' = IF open THEN Databases ELSE window
          /\ pass' = [pass EXCEPT !.at = "decide"] /\ Fine /\ UNCHANGED queued
       \/ open /\ Fail /\ window' \in {window, window \union {"postgres"}}
    /\ UNCHANGED <<env, cache, skipped>>

\* The poll times out, or the CSV is not found.
JudgeFails == pass.at \in {"poll", "csv"} /\ Fail /\ UNCHANGED <<env, window, cache, skipped>>

\* Mutant: only an upgrade that was already announced is waited for.
RequeueAnnounced == pass.available \/ (pass.inst.toVersion # 0 /\ pass.affecting)

\* The requests that HandleUpgrades asks for: while the upgrade of the RHMI is under
\* way and affects the service, and as long as an upgrade is available.
Requeue ==
    \/ pass.available
    \/ /\ pass.inst.toVersion # 0 \/ pass.inst.version # running
       /\ pass.affecting

Done == pass' = Idle /\ queued' = (queued \/ Requeue)

\* It approves a harmless plan.  A plan that changed since it was read is a conflict.
DecideUpgrade ==
    LET approve == pass.available /\ ~pass.affecting /\ ~pass.approved IN
    /\ pass.at = "decide"
    /\ \/ ~approve /\ Done /\ Fine /\ UNCHANGED plans
       \/ /\ approve /\ plans[pass.plan].approver = "none"
          /\ plans' = [plans EXCEPT ![pass.plan].approver = "operator"] /\ Done /\ Fine
       \/ /\ approve /\ plans[pass.plan].approver # "none"
          /\ pass' = Idle /\ queued' = TRUE /\ Fine /\ UNCHANGED plans
       \/ approve /\ Fail /\ UNCHANGED plans
    /\ UNCHANGED <<sub, cr, window, cache, skipped>>

Step == Reconcile \/ PollInstallPlan \/ JudgeUpgrade \/ allowDatabaseUpdates \/ DecideUpgrade
     \/ JudgeFails

Next ==
    \/ Publish \/ Install \/ Restart \/ Approve \/ CreateRHMI \/ AnnounceVersion
    \/ CompleteVersion \/ (\E db \in Databases : CloseWindow(db)) \/ Step

\* The controller works on what is queued, OLM installs what is approved, and the
\* RHMI controller announces the operator's version.  Nothing makes a person
\* approve a plan, or the stages complete.
Fairness == WF_vars(Step) /\ WF_vars(Install) /\ WF_vars(AnnounceVersion)

Spec == Init /\ [][Next]_vars /\ Fairness

--------------------------------------------------------------------------------
\* Type invariant.
TypeOK ==
    /\ plans \in [Plans -> [approver : {"none", "OLM", "person", "operator"}, affecting : BOOLEAN]]
    /\ sub \in [manual : BOOLEAN, current : 0 .. Releases, installed : 0 .. Releases]
    /\ cr.exists \in BOOLEAN /\ [version |-> cr.version, toVersion |-> cr.toVersion] \in Status
    /\ window \subseteq Databases
    /\ cache \in [Plans -> {"none", "affecting", "harmless", "empty"}]
    /\ queued \in BOOLEAN /\ skipped \in BOOLEAN
    /\ pass.at \in {"idle", "poll", "csv", "databases", "decide"} /\ pass.inst \in Status

\* The operator approves no upgrade that affects the service, though it judges a
\* plan by a cached CSV and approves it some time after reading it.
OnlyHarmlessApproved ==
    \A v \in Plans : plans[v].approver = "operator" => ~plans[v].affecting

\* A harmless release is installed without anyone, unless its config map was once
\* read without a CSV, or the subscription was last reconciled when there was no
\* RHMI: a RHMI created later wakes nobody.
NoHarmlessWaits ==
    LET Waiting == /\ sub.installed # 0 /\ sub.installed # sub.current /\ cr.exists
                   /\ ~plans[sub.current].affecting
    IN  Waiting => cache[sub.current] = "empty" \/ skipped

\* While a service affecting upgrade is under way the windows are open.
OpenIfUnderWay ==
    LET UnderWay == cr.version # 0 /\ cr.toVersion # 0 /\ plans[sub.current].affecting
    IN  UnderWay => window = Databases
====
