---- MODULE ControllersProofs ----
(* The controllers beside the installation, for any number of releases, workloads, zones,
   replicas, failures and requests.  The operator approves no service affecting upgrade,
   whenever people and OLM act.  The pods that rebalancing deletes are accounted for by the
   annotation.  Whatever the add-on's controllers read earlier and act on now was asked for
   by then, because nobody takes a request back from the one who has read it. *)
EXTENDS Controllers, TLAPS

--------------------------------------------------------------------------------
(* The upgrade: x1 are the install plans, x2 the subscription, x3 the RHMI, x4 the windows,
   x5 the cache and x8 the reconcile in progress.  The approval rests on what a reconcile
   holds, which rests on the cache, which rests on a plan that OLM wrote once: the
   invariant follows the verdict along that way. *)

UpgradeSteps == {"idle", "poll", "csv", "databases", "decide"}

\* The types that the argument needs.
UpgradeShape ==
    /\ x1 \in [Upgrade!Plans -> [approver : {"none", "OLM", "person", "operator"}, affecting : BOOLEAN]]
    /\ x2 \in [manual : BOOLEAN, current : Nat, installed : Nat]
    /\ x5 \in [Upgrade!Plans -> {"none", "affecting", "harmless", "empty"}]
    /\ x8 \in [at : UpgradeSteps, inst : [version : Nat, toVersion : Nat], plan : Nat,
                 approved : BOOLEAN, available : BOOLEAN, affecting : BOOLEAN]
    /\ x3 \in [exists : BOOLEAN, version : Nat, toVersion : Nat]

\* Only published plans are installed, reconciled, cached and approved.
Published ==
    /\ x2.installed # 0 \/ x2.current # 0 => x2.current \in Upgrade!Plans
    /\ x8.at # "idle" => x2.current \in Upgrade!Plans
    /\ x8.at \in {"csv", "databases", "decide"} => x8.plan \in Upgrade!Plans /\ x8.plan <= x2.current
    /\ \A v \in Upgrade!Plans : v > x2.current => x5[v] = "none" /\ x1[v].approver = "none"

\* The cache and the reconcile call harmless only what is.
Verdicts ==
    /\ \A v \in Upgrade!Plans : x5[v] = "harmless" => x1[v].affecting = FALSE
    /\ x8.at \in {"databases", "decide"} /\ x8.affecting = FALSE
           => x1[x8.plan].affecting = FALSE

UpgradeInv == UpgradeShape /\ Published /\ Verdicts /\ Upgrade!OnlyHarmlessApproved

\* At first there is nothing.
LEMMA InitTrue == ASSUME Releases \in Nat PROVE Upgrade!Init => UpgradeInv
<1> SUFFICES ASSUME Upgrade!Init PROVE UpgradeInv
  OBVIOUS
<1> USE DEF Upgrade!Init, Upgrade!Idle, Upgrade!Plans, UpgradeSteps
<1>1. UpgradeShape
  BY DEF UpgradeShape
<1>2. Published
  BY DEF Published
<1>3. Verdicts /\ Upgrade!OnlyHarmlessApproved
  BY DEF Verdicts, Upgrade!OnlyHarmlessApproved
<1> QED
  BY <1>1, <1>2, <1>3 DEF UpgradeInv

\* Steps that touch neither a plan, the subscription, the cache nor the reconcile.
LEMMA OthersTrue ==
    ASSUME UpgradeInv, UNCHANGED <<x1, x2, x5, x8>>,
           x3' \in [exists : BOOLEAN, version : Nat, toVersion : Nat]
    PROVE  UpgradeInv'
BY DEF UpgradeInv, UpgradeShape, Published, Verdicts, Upgrade!OnlyHarmlessApproved, Upgrade!Says

\* A plan is published behind all that was cached or is being judged.
LEMMA PublishTrue == ASSUME Releases \in Nat, UpgradeInv, Upgrade!Publish PROVE UpgradeInv'
<1>1. PICK v \in x2.current + 1 .. Releases, affecting \in BOOLEAN :
        /\ x1' = [x1 EXCEPT ![v] =
               [approver |-> IF x2.manual THEN "none" ELSE "OLM", affecting |-> affecting]]
        /\ x2' = [x2 EXCEPT !.current = v]
  BY DEF Upgrade!Publish
<1>2. UNCHANGED <<x3, x5, x8>>
  BY DEF Upgrade!Publish
<1>3. v \in Upgrade!Plans /\ v > x2.current /\ x2.current \in Nat /\ x2.installed \in Nat
  BY <1>1 DEF UpgradeInv, UpgradeShape, Upgrade!Plans
<1>4. x2'.current = v /\ x2'.installed = x2.installed
  BY <1>1 DEF UpgradeInv, UpgradeShape
<1>5. \A u \in Upgrade!Plans : u # v => x1'[u] = x1[u]
  BY <1>1 DEF UpgradeInv, UpgradeShape
<1>6. x1'[v].approver \in {"none", "OLM"} /\ x1'[v].affecting = affecting
  BY <1>1, <1>3 DEF UpgradeInv, UpgradeShape
<1>7. UpgradeShape'
  <2>1. x1' \in [Upgrade!Plans -> [approver : {"none", "OLM", "person", "operator"}, affecting : BOOLEAN]]
    BY <1>1, <1>3 DEF UpgradeInv, UpgradeShape
  <2>2. v \in Nat
    BY <1>3 DEF Upgrade!Plans
  <2>3. x2' \in [manual : BOOLEAN, current : Nat, installed : Nat]
    BY <1>1, <2>2 DEF UpgradeInv, UpgradeShape
  <2> QED
    BY <1>2, <2>1, <2>3 DEF UpgradeInv, UpgradeShape
<1>8. Published'
  BY <1>2, <1>3, <1>4, <1>5 DEF UpgradeInv, UpgradeShape, Published, Upgrade!Plans
<1>9. Verdicts'
  <2>1. \A u \in Upgrade!Plans : x5[u] = "harmless" => u # v
    BY <1>3 DEF UpgradeInv, Published
  <2>2. x8.at \in {"databases", "decide"} => x8.plan \in Upgrade!Plans /\ x8.plan # v
    BY <1>3 DEF UpgradeInv, Published, UpgradeShape, Upgrade!Plans
  <2> QED
    BY <1>2, <1>5, <2>1, <2>2 DEF UpgradeInv, Verdicts
<1>10. Upgrade!OnlyHarmlessApproved'
  BY <1>5, <1>6 DEF UpgradeInv, Upgrade!OnlyHarmlessApproved
<1> QED
  BY <1>7, <1>8, <1>9, <1>10 DEF UpgradeInv

\* A start empties the cache and drops the reconcile.
LEMMA StartTrue ==
    ASSUME Releases \in Nat, UpgradeInv, Upgrade!Started, UNCHANGED <<x1, x3>>,
           x2' = x2 \/ (x2' = [x2 EXCEPT !.installed = x2.current] /\ x2.current \in Upgrade!Plans)
    PROVE  UpgradeInv'
<1>1. x2' \in [manual : BOOLEAN, current : Nat, installed : Nat] /\ x2'.current = x2.current
      /\ (x2'.installed # 0 \/ x2.current # 0 => x2.current \in Upgrade!Plans)
  BY DEF UpgradeInv, UpgradeShape, Published
<1>2. x8' = Upgrade!Idle /\ x5' = [v \in Upgrade!Plans |-> "none"]
  BY DEF Upgrade!Started
<1>3. UpgradeShape'
  BY <1>1, <1>2 DEF UpgradeInv, UpgradeShape, Upgrade!Idle, UpgradeSteps
<1>4. Published'
  BY <1>1, <1>2 DEF UpgradeInv, Published, Upgrade!Idle
<1>5. Verdicts' /\ Upgrade!OnlyHarmlessApproved'
  BY <1>2 DEF UpgradeInv, Verdicts, Upgrade!OnlyHarmlessApproved, Upgrade!Idle
<1> QED
  BY <1>3, <1>4, <1>5 DEF UpgradeInv

\* Somebody's approval is not the operator's.
LEMMA ApproveTrue == ASSUME Releases \in Nat, UpgradeInv, Upgrade!Approve PROVE UpgradeInv'
<1>1. x1' = [x1 EXCEPT ![x2.current].approver = "person"] /\ UNCHANGED <<x2, x3, x5, x8>>
  BY DEF Upgrade!Approve
<1>2. \A v \in Upgrade!Plans : /\ x1'[v].affecting = x1[v].affecting
                      /\ x1'[v].approver = IF v = x2.current THEN "person" ELSE x1[v].approver
  BY <1>1 DEF UpgradeInv, UpgradeShape
<1>3. UpgradeShape'
  BY <1>1 DEF UpgradeInv, UpgradeShape
<1>4. Published'
  BY <1>1, <1>2 DEF UpgradeInv, UpgradeShape, Published, Upgrade!Plans
<1>5. Verdicts'
  BY <1>1, <1>2 DEF UpgradeInv, Verdicts, Published
<1>6. Upgrade!OnlyHarmlessApproved'
  BY <1>1, <1>2 DEF UpgradeInv, Upgrade!OnlyHarmlessApproved
<1> QED
  BY <1>3, <1>4, <1>5, <1>6 DEF UpgradeInv

\* A reconcile that fails, conflicts or has nothing to do ends and leaves the rest.
LEMMA EndTrue ==
    ASSUME UpgradeInv, x8' = Upgrade!Idle, UNCHANGED <<x1, x2, x3, x5>>
    PROVE  UpgradeInv'
<1>1. UpgradeShape'
  BY DEF UpgradeInv, UpgradeShape, Upgrade!Idle, UpgradeSteps
<1>2. Published'
  BY DEF UpgradeInv, Published, Upgrade!Idle
<1>3. Verdicts' /\ Upgrade!OnlyHarmlessApproved'
  BY DEF UpgradeInv, Verdicts, Upgrade!OnlyHarmlessApproved, Upgrade!Idle
<1> QED
  BY <1>1, <1>2, <1>3 DEF UpgradeInv

\* What GetCSV finds is harmless only if the plan is, and so is what the cache keeps.
LEMMA FoundTrue ==
    ASSUME UpgradeInv, NEW v \in Upgrade!Plans, NEW found \in {"affecting", "harmless", "empty"},
           Upgrade!GetCSV(v, found)
    PROVE  found = "harmless" => x1[v].affecting = FALSE
BY DEF UpgradeInv, UpgradeShape, Verdicts, Upgrade!GetCSV, Upgrade!Says

\* A cache c that is true of the plans.
CacheTrue(c) ==
    /\ c \in [Upgrade!Plans -> {"none", "affecting", "harmless", "empty"}]
    /\ \A u \in Upgrade!Plans : c[u] = "harmless" => x1[u].affecting = FALSE
    /\ \A u \in Upgrade!Plans : u > x2.current => c[u] = "none"

\* Caching what was found keeps the cache true.
LEMMA KeepTrue ==
    ASSUME UpgradeInv, NEW v \in Upgrade!Plans, v <= x2.current,
           NEW found \in {"affecting", "harmless", "empty"},
           Upgrade!GetCSV(v, found), Upgrade!Keep(v, found)
    PROVE  CacheTrue(x5')
<1>1. x5' = [x5 EXCEPT ![v] = found]
  BY DEF Upgrade!Keep
<1>2. found = "harmless" => x1[v].affecting = FALSE
  BY FoundTrue
<1>3. x5' \in [Upgrade!Plans -> {"none", "affecting", "harmless", "empty"}]
  BY <1>1 DEF UpgradeInv, UpgradeShape
<1>4. \A u \in Upgrade!Plans : x5'[u] = IF u = v THEN found ELSE x5[u]
  BY <1>1 DEF UpgradeInv, UpgradeShape
<1>5. \A u \in Upgrade!Plans : x5'[u] = "harmless" => x1[u].affecting = FALSE
  BY <1>2, <1>4 DEF UpgradeInv, Verdicts
<1>6. ASSUME NEW u \in Upgrade!Plans, u > x2.current PROVE x5'[u] = "none"
  <2>1. u # v
    BY <1>6 DEF UpgradeInv, UpgradeShape, Upgrade!Plans
  <2> QED
    BY <1>4, <1>6, <2>1 DEF UpgradeInv, Published
<1> QED
  BY <1>3, <1>5, <1>6 DEF CacheTrue

\* The invariant, for a step that leaves the plans alone, from its parts.
LEMMA PassTrue ==
    ASSUME UpgradeInv, UNCHANGED <<x1, x3>>, CacheTrue(x5'), x2.current \in Upgrade!Plans,
           x2' \in [manual : BOOLEAN, current : Nat, installed : Nat], x2'.current = x2.current,
           x8' \in [at : UpgradeSteps, inst : [version : Nat, toVersion : Nat], plan : Nat,
                      approved : BOOLEAN, available : BOOLEAN, affecting : BOOLEAN],
           x8'.at \in {"csv", "databases", "decide"} => x8'.plan \in Upgrade!Plans /\ x8'.plan <= x2.current,
           x8'.at \in {"databases", "decide"} /\ x8'.affecting = FALSE
               => x1[x8'.plan].affecting = FALSE
    PROVE  UpgradeInv'
<1>1. UpgradeShape'
  BY DEF UpgradeInv, UpgradeShape, CacheTrue
<1>2. Published'
  BY DEF UpgradeInv, Published, CacheTrue
<1>3. Verdicts' /\ Upgrade!OnlyHarmlessApproved'
  BY DEF UpgradeInv, Verdicts, Upgrade!OnlyHarmlessApproved, CacheTrue
<1> QED
  BY <1>1, <1>2, <1>3 DEF UpgradeInv

\* A reconcile begins, and may cache a verdict on the way.
LEMMA ReconcileTrue == ASSUME Releases \in Nat, UpgradeInv, Upgrade!Reconcile PROVE UpgradeInv'
<1>1. UNCHANGED <<x1, x3>> /\ x2.installed # 0 /\ x2.current \in Upgrade!Plans
  BY DEF Upgrade!Reconcile, Upgrade!running, UpgradeInv, Published
<1>2. x2' \in [manual : BOOLEAN, current : Nat, installed : Nat] /\ x2'.current = x2.current
  BY DEF Upgrade!Reconcile, UpgradeInv, UpgradeShape
<1>3. CacheTrue(x5')
  <2>1. CASE UNCHANGED x5
    BY <2>1 DEF UpgradeInv, UpgradeShape, Verdicts, Published, CacheTrue
  <2>2. CASE \E found \in {"affecting", "harmless", "empty"} :
               Upgrade!GetCSV(x2.current, found) /\ Upgrade!Keep(x2.current, found)
    <3>1. x2.current <= x2.current
      BY DEF UpgradeInv, UpgradeShape
    <3> QED
      BY <1>1, <2>2, <3>1, KeepTrue
  <2> QED
    BY <2>1, <2>2 DEF Upgrade!Reconcile
<1>4. /\ x8' \in [at : UpgradeSteps, inst : [version : Nat, toVersion : Nat], plan : Nat,
                     approved : BOOLEAN, available : BOOLEAN, affecting : BOOLEAN]
      /\ x8'.at \in {"idle", "poll"}
  BY DEF Upgrade!Reconcile, Upgrade!Idle, UpgradeSteps, UpgradeInv, UpgradeShape
<1> QED
  BY <1>1, <1>2, <1>3, <1>4, PassTrue

\* The plan to judge is read.
LEMMA PollTrue == ASSUME Releases \in Nat, UpgradeInv, Upgrade!PollInstallPlan PROVE UpgradeInv'
<1>1. UNCHANGED <<x1, x2, x3, x5>> /\ x8.at = "poll" /\ x2.current \in Upgrade!Plans
  BY DEF Upgrade!PollInstallPlan, UpgradeInv, Published, Upgrade!env
<1>2. CacheTrue(x5')
  BY <1>1 DEF UpgradeInv, UpgradeShape, Verdicts, Published, CacheTrue
<1>3. x8' = [x8 EXCEPT !.at = "csv", !.plan = x2.current,
                           !.approved = x1[x2.current].approver # "none",
                           !.available = x2.current # x2.installed]
  BY DEF Upgrade!PollInstallPlan
<1>4. /\ (x1[x2.current].approver # "none") \in BOOLEAN
      /\ (x2.current # x2.installed) \in BOOLEAN
  BY Zenon
<1>5. /\ x8' \in [at : UpgradeSteps, inst : [version : Nat, toVersion : Nat], plan : Nat,
                    approved : BOOLEAN, available : BOOLEAN, affecting : BOOLEAN]
      /\ x8'.at = "csv" /\ x8'.plan = x2.current
  BY <1>3, <1>4 DEF UpgradeInv, UpgradeShape, UpgradeSteps
<1>6. x2.current <= x2.current /\ x2 \in [manual : BOOLEAN, current : Nat, installed : Nat]
  BY DEF UpgradeInv, UpgradeShape
<1> QED
  BY <1>1, <1>2, <1>5, <1>6, PassTrue

\* The verdict is found, cached and held.
LEMMA JudgeTrue == ASSUME Releases \in Nat, UpgradeInv, Upgrade!JudgeUpgrade PROVE UpgradeInv'
<1>1. /\ UNCHANGED <<x1, x2, x3>> /\ x8.at = "csv" /\ x2.current \in Upgrade!Plans
      /\ x8.plan \in Upgrade!Plans /\ x8.plan <= x2.current
  BY DEF Upgrade!JudgeUpgrade, UpgradeInv, Published, Upgrade!env
<1>2. PICK found \in {"affecting", "harmless", "empty"} :
        /\ Upgrade!GetCSV(x8.plan, found) /\ Upgrade!Keep(x8.plan, found)
        /\ x8' = [x8 EXCEPT !.at = "databases", !.affecting = Upgrade!IsUpgradeServiceAffecting(found)]
  BY DEF Upgrade!JudgeUpgrade
<1>3. CacheTrue(x5')
  BY <1>1, <1>2, KeepTrue
<1>4. found = "harmless" => x1[x8.plan].affecting = FALSE
  BY <1>1, <1>2, FoundTrue
<1>5. (found # "harmless") \in BOOLEAN
  BY Zenon
<1>6. /\ x8' \in [at : UpgradeSteps, inst : [version : Nat, toVersion : Nat], plan : Nat,
                    approved : BOOLEAN, available : BOOLEAN, affecting : BOOLEAN]
      /\ x8'.at = "databases" /\ x8'.plan = x8.plan
      /\ x8'.affecting = (found # "harmless")
  BY <1>2, <1>5 DEF UpgradeInv, UpgradeShape, UpgradeSteps, Upgrade!IsUpgradeServiceAffecting
<1>7. x8'.affecting = FALSE => x1[x8'.plan].affecting = FALSE
  BY <1>4, <1>6
<1>8. x2 \in [manual : BOOLEAN, current : Nat, installed : Nat]
  BY DEF UpgradeInv, UpgradeShape
<1> QED
  BY <1>1, <1>3, <1>6, <1>7, <1>8, PassTrue

\* The databases are told, and the verdict is kept.
LEMMA DatabasesTrue == ASSUME Releases \in Nat, UpgradeInv, Upgrade!allowDatabaseUpdates PROVE UpgradeInv'
<1>1. UNCHANGED <<x1, x2, x3, x5>> /\ x8.at = "databases"
  BY DEF Upgrade!allowDatabaseUpdates, Upgrade!env
<1>2. CASE x8' = Upgrade!Idle
  BY <1>1, <1>2, EndTrue
<1>3. CASE x8' = [x8 EXCEPT !.at = "decide"]
  <2>1. /\ x8' \in [at : UpgradeSteps, inst : [version : Nat, toVersion : Nat], plan : Nat,
                      approved : BOOLEAN, available : BOOLEAN, affecting : BOOLEAN]
        /\ x8'.at = "decide" /\ x8'.plan = x8.plan /\ x8'.affecting = x8.affecting
    BY <1>3 DEF UpgradeInv, UpgradeShape, UpgradeSteps
  <2>2. CacheTrue(x5') /\ x2.current \in Upgrade!Plans
    BY <1>1 DEF UpgradeInv, UpgradeShape, Verdicts, Published, CacheTrue
  <2>3. /\ x8.plan \in Upgrade!Plans /\ x8.plan <= x2.current
        /\ x8.affecting = FALSE => x1[x8.plan].affecting = FALSE
        /\ x2 \in [manual : BOOLEAN, current : Nat, installed : Nat]
    BY <1>1 DEF UpgradeInv, UpgradeShape, Verdicts, Published
  <2> QED
    BY <1>1, <2>1, <2>2, <2>3, PassTrue
<1> QED
  BY <1>2, <1>3 DEF Upgrade!allowDatabaseUpdates, Upgrade!Fail

\* Only a plan that is held to be harmless is approved.
LEMMA DecideTrue == ASSUME Releases \in Nat, UpgradeInv, Upgrade!DecideUpgrade PROVE UpgradeInv'
<1>1. UNCHANGED <<x2, x3, x5>> /\ x8.at = "decide" /\ x8' = Upgrade!Idle
  BY DEF Upgrade!DecideUpgrade, Upgrade!Done, Upgrade!Fail
<1>2. CASE UNCHANGED x1
  BY <1>1, <1>2, EndTrue
<1>3. CASE ~x8.affecting /\ x1' = [x1 EXCEPT ![x8.plan].approver = "operator"]
  <2>1. x8.affecting = FALSE
    BY <1>3 DEF UpgradeInv, UpgradeShape
  <2>2. /\ x8.plan \in Upgrade!Plans /\ x8.plan <= x2.current
        /\ x1[x8.plan].affecting = FALSE
    BY <1>1, <2>1 DEF UpgradeInv, Verdicts, Published
  <2>3. \A v \in Upgrade!Plans : v # x8.plan => x1'[v] = x1[v]
    BY <1>3 DEF UpgradeInv, UpgradeShape
  <2>4. x1'[x8.plan].affecting = FALSE
    BY <1>3, <2>2 DEF UpgradeInv, UpgradeShape
  <2>5. UpgradeShape'
    BY <1>1, <1>3 DEF UpgradeInv, UpgradeShape, Upgrade!Idle, UpgradeSteps
  <2>6. Published'
    <3>1. \A v \in Upgrade!Plans : v > x2.current => v # x8.plan
      BY <2>2 DEF UpgradeInv, UpgradeShape, Upgrade!Plans
    <3>2. x8'.at = "idle"
      BY <1>1 DEF Upgrade!Idle
    <3> QED
      BY <1>1, <2>3, <3>1, <3>2 DEF UpgradeInv, Published
  <2>7. Verdicts'
    <3>1. x8'.at = "idle"
      BY <1>1 DEF Upgrade!Idle
    <3> QED
      BY <1>1, <2>3, <2>4, <3>1 DEF UpgradeInv, Verdicts
  <2>8. Upgrade!OnlyHarmlessApproved'
    BY <2>2, <2>3, <2>4 DEF UpgradeInv, Upgrade!OnlyHarmlessApproved
  <2> QED
    BY <2>5, <2>6, <2>7, <2>8 DEF UpgradeInv
<1> QED
  BY <1>2, <1>3 DEF Upgrade!DecideUpgrade

\* Every step of the specification preserves the invariant.
LEMMA NextTrue == ASSUME Releases \in Nat PROVE UpgradeInv /\ [Upgrade!Next]_(Upgrade!vars) => UpgradeInv'
<1> SUFFICES ASSUME UpgradeInv, [Upgrade!Next]_(Upgrade!vars) PROVE UpgradeInv'
  OBVIOUS
<1>1. CASE Upgrade!Install \/ Upgrade!Restart
  <2>1. CASE Upgrade!Install
    <3>1. Upgrade!Started /\ UNCHANGED <<x1, x3>> /\ x2' = [x2 EXCEPT !.installed = x2.current]
      BY <2>1 DEF Upgrade!Install
    <3>2. x2.current \in Upgrade!Plans
      BY <2>1 DEF Upgrade!Install, UpgradeInv, Published
    <3> QED
      BY <3>1, <3>2, StartTrue
  <2>2. CASE Upgrade!Restart
    BY <2>2, StartTrue DEF Upgrade!Restart, Upgrade!env
  <2> QED
    BY <1>1, <2>1, <2>2
<1>2. CASE \/ Upgrade!CreateRHMI \/ Upgrade!AnnounceVersion \/ Upgrade!CompleteVersion \/ UNCHANGED Upgrade!vars
           \/ \E db \in Upgrade!Databases : Upgrade!CloseWindow(db)
  <2>1. UNCHANGED <<x1, x2, x5, x8>>
    BY <1>2 DEF Upgrade!CreateRHMI, Upgrade!AnnounceVersion, Upgrade!CompleteVersion, Upgrade!CloseWindow, Upgrade!vars, Upgrade!env
  <2>2. x3' \in [exists : BOOLEAN, version : Nat, toVersion : Nat]
    <3>1. x3 \in [exists : BOOLEAN, version : Nat, toVersion : Nat] /\ Upgrade!running \in Nat
      BY DEF Upgrade!running, UpgradeInv, UpgradeShape
    <3>2. CASE Upgrade!CreateRHMI
      BY <3>1, <3>2 DEF Upgrade!CreateRHMI
    <3>3. CASE Upgrade!AnnounceVersion
      BY <3>1, <3>3 DEF Upgrade!AnnounceVersion
    <3>4. CASE Upgrade!CompleteVersion
      BY <3>1, <3>4 DEF Upgrade!CompleteVersion
    <3>5. CASE UNCHANGED Upgrade!vars \/ \E db \in Upgrade!Databases : Upgrade!CloseWindow(db)
      BY <3>1, <3>5 DEF Upgrade!CloseWindow, Upgrade!vars, Upgrade!env
    <3> QED
      BY <1>2, <3>2, <3>3, <3>4, <3>5
  <2> QED
    BY <2>1, <2>2, OthersTrue
<1>3. CASE Upgrade!JudgeFails
  BY <1>3, EndTrue DEF Upgrade!JudgeFails, Upgrade!Fail, Upgrade!env
<1> QED
  BY <1>1, <1>2, <1>3, PublishTrue, ApproveTrue, ReconcileTrue, PollTrue, JudgeTrue,
     DatabasesTrue, DecideTrue DEF Upgrade!Next, Upgrade!Step

\* What the invariant leaves out of the types: releases stay within those published,
\* also in what a reconcile holds of a RHMI that has changed since.
VersionsBounded ==
    /\ x2.installed \in 0 .. Releases
    /\ [version |-> x3.version, toVersion |-> x3.toVersion] \in Upgrade!Status /\ x8.inst \in Upgrade!Status
    /\ x4 \subseteq Upgrade!Databases /\ x6 \in BOOLEAN /\ x7 \in BOOLEAN

\* Together they are the type invariant.
LEMMA BoundedIsTyped == ASSUME Releases \in Nat PROVE UpgradeInv /\ VersionsBounded => Upgrade!TypeOK
<1> SUFFICES ASSUME UpgradeInv, VersionsBounded PROVE Upgrade!TypeOK
  OBVIOUS
<1>1. x2 \in [manual : BOOLEAN, current : 0 .. Releases, installed : 0 .. Releases]
  BY DEF UpgradeInv, UpgradeShape, Published, VersionsBounded, Upgrade!Plans
<1> QED
  BY <1>1 DEF UpgradeInv, UpgradeShape, VersionsBounded, Upgrade!TypeOK, UpgradeSteps

\* At first no release is installed.
LEMMA InitBounded == ASSUME Releases \in Nat PROVE Upgrade!Init => VersionsBounded
<1> SUFFICES ASSUME Upgrade!Init PROVE VersionsBounded
  OBVIOUS
<1>1. x6 \in BOOLEAN /\ x7 \in BOOLEAN
  BY Zenon DEF Upgrade!Init
<1> QED
  BY <1>1 DEF Upgrade!Init, Upgrade!Idle, Upgrade!Status, VersionsBounded

\* A release is installed only once it is published, and recorded only once it is
\* installed.
LEMMA NextBounded == ASSUME Releases \in Nat PROVE UpgradeInv /\ VersionsBounded /\ [Upgrade!Next]_(Upgrade!vars) => VersionsBounded'
<1> SUFFICES ASSUME UpgradeInv, VersionsBounded, [Upgrade!Next]_(Upgrade!vars) PROVE VersionsBounded'
  OBVIOUS
<1>a. /\ x3 \in [exists : BOOLEAN, version : 0 .. Releases, toVersion : 0 .. Releases]
      /\ x2.installed \in 0 .. Releases /\ x2.current \in 0 .. Releases
      /\ x2 \in [manual : BOOLEAN, current : Nat, installed : Nat]
  BY DEF UpgradeInv, UpgradeShape, Published, VersionsBounded, Upgrade!Status, Upgrade!Plans
<1>1. x2'.installed \in 0 .. Releases
  <2>1. CASE Upgrade!Publish
    BY <1>a, <2>1 DEF Upgrade!Publish
  <2>2. CASE Upgrade!Install
    BY <1>a, <2>2 DEF Upgrade!Install
  <2>3. CASE Upgrade!Reconcile
    BY <1>a, <2>3 DEF Upgrade!Reconcile
  <2>4. CASE UNCHANGED x2
    BY <1>a, <2>4
  <2> QED
    BY <2>1, <2>2, <2>3, <2>4 DEF Upgrade!Next, Upgrade!Step, Upgrade!vars, Upgrade!env, Upgrade!Restart, Upgrade!Approve, Upgrade!CreateRHMI, Upgrade!AnnounceVersion,
       Upgrade!CompleteVersion, Upgrade!CloseWindow, Upgrade!PollInstallPlan, Upgrade!JudgeUpgrade, Upgrade!allowDatabaseUpdates,
       Upgrade!DecideUpgrade, Upgrade!JudgeFails
<1>2. [version |-> x3'.version, toVersion |-> x3'.toVersion] \in Upgrade!Status
  <2>1. CASE Upgrade!CreateRHMI \/ Upgrade!AnnounceVersion \/ Upgrade!CompleteVersion
    <3>1. CASE Upgrade!CreateRHMI
      BY <1>a, <3>1 DEF Upgrade!CreateRHMI, Upgrade!Status
    <3>2. CASE Upgrade!AnnounceVersion
      BY <1>a, <3>2 DEF Upgrade!AnnounceVersion, Upgrade!running, Upgrade!Status
    <3>3. CASE Upgrade!CompleteVersion
      <4>1. x3'.version = x2.installed /\ x3'.toVersion = 0
        BY <1>a, <3>3 DEF Upgrade!CompleteVersion, Upgrade!running
      <4> QED
        BY <1>a, <4>1 DEF Upgrade!Status
    <3> QED
      BY <2>1, <3>1, <3>2, <3>3
  <2>2. CASE UNCHANGED x3
    BY <1>a, <2>2 DEF Upgrade!Status
  <2> QED
    BY <2>1, <2>2 DEF Upgrade!Next, Upgrade!Step, Upgrade!vars, Upgrade!env, Upgrade!Publish, Upgrade!Install, Upgrade!Restart, Upgrade!Approve,
       Upgrade!CloseWindow, Upgrade!Reconcile, Upgrade!PollInstallPlan, Upgrade!JudgeUpgrade, Upgrade!allowDatabaseUpdates,
       Upgrade!DecideUpgrade, Upgrade!JudgeFails
<1>3. x8'.inst \in Upgrade!Status
  <2>1. CASE x8' = Upgrade!Idle
    BY <2>1 DEF Upgrade!Idle, Upgrade!Status
  <2>2. CASE Upgrade!Reconcile
    BY <1>a, <2>2 DEF Upgrade!Reconcile, Upgrade!Idle, Upgrade!Status
  <2>3. CASE x8'.inst = x8.inst
    BY <2>3 DEF VersionsBounded
  <2>4. CASE Upgrade!PollInstallPlan \/ Upgrade!JudgeUpgrade
    BY <2>3, <2>4 DEF Upgrade!PollInstallPlan, Upgrade!JudgeUpgrade, UpgradeInv, UpgradeShape
  <2>5. CASE Upgrade!allowDatabaseUpdates
    BY <2>1, <2>3, <2>5 DEF Upgrade!allowDatabaseUpdates, Upgrade!Fail, UpgradeInv, UpgradeShape
  <2> QED
    BY <2>1, <2>2, <2>3, <2>4, <2>5 DEF Upgrade!Next, Upgrade!Step, Upgrade!vars, Upgrade!Publish, Upgrade!Install, Upgrade!Restart, Upgrade!Approve,
       Upgrade!CloseWindow, Upgrade!CreateRHMI, Upgrade!AnnounceVersion, Upgrade!CompleteVersion, Upgrade!DecideUpgrade, Upgrade!JudgeFails,
       Upgrade!Started, Upgrade!Fail, Upgrade!Done
<1>4. x4' \subseteq Upgrade!Databases
  <2>1. CASE UNCHANGED x4
    BY <2>1 DEF VersionsBounded
  <2>2. CASE Upgrade!allowDatabaseUpdates \/ \E db \in Upgrade!Databases : Upgrade!CloseWindow(db)
    BY <2>2 DEF Upgrade!allowDatabaseUpdates, Upgrade!CloseWindow, VersionsBounded, Upgrade!Databases
  <2> QED
    BY <2>1, <2>2 DEF Upgrade!Next, Upgrade!Step, Upgrade!vars, Upgrade!Publish, Upgrade!Install, Upgrade!Restart, Upgrade!Approve, Upgrade!CreateRHMI,
       Upgrade!AnnounceVersion, Upgrade!CompleteVersion, Upgrade!Reconcile, Upgrade!PollInstallPlan, Upgrade!JudgeUpgrade,
       Upgrade!DecideUpgrade, Upgrade!JudgeFails
<1>5. x6' \in BOOLEAN
  <2>1. x6 \in BOOLEAN /\ (x2.installed # 0) \in BOOLEAN /\ (x6 \/ Upgrade!Requeue) \in BOOLEAN
    BY Zenon DEF VersionsBounded
  <2>2. \/ UNCHANGED x6 \/ x6' = (x2.installed # 0) \/ x6' = (x6 \/ Upgrade!Requeue)
        \/ x6' = TRUE \/ x6' = FALSE
    BY Zenon DEF Upgrade!Next, Upgrade!Step, Upgrade!vars, Upgrade!Publish, Upgrade!Install, Upgrade!Restart, Upgrade!Approve, Upgrade!CreateRHMI,
       Upgrade!AnnounceVersion, Upgrade!CompleteVersion, Upgrade!CloseWindow, Upgrade!Reconcile, Upgrade!PollInstallPlan, Upgrade!JudgeUpgrade,
       Upgrade!allowDatabaseUpdates, Upgrade!DecideUpgrade, Upgrade!JudgeFails, Upgrade!Started, Upgrade!Fail, Upgrade!Done
  <2> QED
    BY Zenon, <2>1, <2>2
<1>6. x7' \in BOOLEAN
  <2>1. x7 \in BOOLEAN /\ (~x3.exists) \in BOOLEAN
    BY Zenon DEF VersionsBounded
  <2>2. UNCHANGED x7 \/ x7' = (~x3.exists) \/ x7' = FALSE
    BY Zenon DEF Upgrade!Next, Upgrade!Step, Upgrade!vars, Upgrade!Publish, Upgrade!Install, Upgrade!Restart, Upgrade!Approve, Upgrade!CreateRHMI,
       Upgrade!AnnounceVersion, Upgrade!CompleteVersion, Upgrade!CloseWindow, Upgrade!Reconcile, Upgrade!PollInstallPlan, Upgrade!JudgeUpgrade,
       Upgrade!allowDatabaseUpdates, Upgrade!DecideUpgrade, Upgrade!JudgeFails, Upgrade!Started
  <2> QED
    BY Zenon, <2>1, <2>2
<1> QED
  BY <1>1, <1>2, <1>3, <1>4, <1>5, <1>6 DEF VersionsBounded

--------------------------------------------------------------------------------
(* Pod distribution: the pods (x1), the attempts in the annotation (x2), the workloads that
   a pass has still to look at (x3) and the pod it chose of each (x4), the workload whose
   attempt is due (x5) and whether its pod was deleted (x6), the pods deleted (x7) and those
   known not to be counted (x8), and the mishaps (x9).  DisruptionBounded is not inductive:
   whether another pod may be deleted is decided by the annotation, so the invariant ties
   the pods deleted to the annotation and to the attempt that is still to be written. *)

\* The counters are typed and the pods deleted are accounted for.
PodCounters ==
    /\ x2 \in [Workloads -> Nat] /\ x7 \in [Workloads -> Nat]
    /\ x8 \in [Workloads -> Nat]
    /\ x5 \subseteq Workloads /\ x6 \in BOOLEAN
PodsCounted == PodCounters /\ Pods!EveryDeletionCounted

\* The bound follows from the invariant.
LEMMA CountedIsBounded == PodsCounted => Pods!DisruptionBounded
<1> SUFFICES ASSUME PodsCounted, NEW w \in Workloads
             PROVE  x7[w] <= Pods!maxBalanceAttempts + x8[w]
  BY DEF Pods!DisruptionBounded
<1>1. /\ x2[w] \in Nat /\ x7[w] \in Nat /\ x8[w] \in Nat
      /\ x2[w] <= 3 /\ x7[w] <= x2[w] + x8[w] + 1
      /\ w \notin x5 => x7[w] <= x2[w] + x8[w]
      /\ w \in x5 => x2[w] < 3
  BY DEF PodsCounted, PodCounters, Pods!EveryDeletionCounted, Pods!maxBalanceAttempts
<1> QED
  BY <1>1 DEF Pods!maxBalanceAttempts

\* Nothing is deleted, counted or due at first.
LEMMA InitCounted == Pods!Init => PodsCounted
<1> SUFFICES ASSUME Pods!Init PROVE PodsCounted
  OBVIOUS
<1>1. PodCounters
  <2>1. x6 \in BOOLEAN
    BY Zenon DEF Pods!Init
  <2> QED
    BY <2>1 DEF Pods!Init, PodCounters
<1>2. Pods!EveryDeletionCounted
  BY DEF Pods!Init, Pods!EveryDeletionCounted, Pods!maxBalanceAttempts
<1> QED
  BY <1>1, <1>2 DEF PodsCounted

\* A step that leaves the counters alone.
LEMMA UntouchedCounted ==
    ASSUME PodsCounted, UNCHANGED <<x2, x7, x8, x5, x6>>
    PROVE  PodsCounted'
BY DEF PodsCounted, PodCounters, Pods!EveryDeletionCounted, Pods!maxBalanceAttempts

\* Deleting a pod makes one attempt due, and only where attempts are left.
LEMMA ForceCounted ==
    ASSUME PodsCounted, NEW w \in Workloads, Pods!forceRebalance(w)
    PROVE  PodsCounted'
<1>1. CASE UNCHANGED <<x5, x6, x7>>
  BY <1>1, UntouchedCounted DEF Pods!forceRebalance
<1>2. CASE /\ Pods!verifyRebalanceCount(w) /\ x5' = {w} /\ x6' = TRUE
           /\ x7' = [x7 EXCEPT ![w] = @ + 1]
  <2>1. UNCHANGED <<x2, x8>> /\ x5 = {}
    BY DEF Pods!forceRebalance
  <2>2. PodCounters'
    BY <1>2, <2>1 DEF PodsCounted, PodCounters
  <2>3. Pods!EveryDeletionCounted'
    BY <1>2, <2>1 DEF PodsCounted, PodCounters, Pods!EveryDeletionCounted, Pods!verifyRebalanceCount, Pods!maxBalanceAttempts
  <2> QED
    BY <2>2, <2>3 DEF PodsCounted
<1>3. CASE Pods!verifyRebalanceCount(w) /\ x5' = {w} /\ x6' = FALSE /\ UNCHANGED x7
  <2>1. UNCHANGED <<x2, x8>> /\ x5 = {}
    BY DEF Pods!forceRebalance
  <2>2. PodCounters'
    BY <1>3, <2>1 DEF PodsCounted, PodCounters
  <2>3. Pods!EveryDeletionCounted'
    BY <1>3, <2>1 DEF PodsCounted, PodCounters, Pods!EveryDeletionCounted, Pods!verifyRebalanceCount, Pods!maxBalanceAttempts
  <2> QED
    BY <2>2, <2>3 DEF PodsCounted
<1> QED
  BY <1>1, <1>2, <1>3 DEF Pods!forceRebalance

\* What is due is counted, or is known not to be.
LEMMA UpdateCounted ==
    ASSUME PodsCounted, NEW w \in Workloads, Pods!updatePodBalanceAttempts(w)
    PROVE  PodsCounted'
<1>1. w \in x5 /\ x5' = {} /\ UNCHANGED <<x6, x7>>
  BY DEF Pods!updatePodBalanceAttempts
<1>2. CASE x2' = [x2 EXCEPT ![w] = @ + 1] /\ UNCHANGED x8
  BY <1>1, <1>2 DEF PodsCounted, PodCounters, Pods!EveryDeletionCounted, Pods!maxBalanceAttempts
<1>3. CASE UNCHANGED x2 /\ x8' = [x8 EXCEPT ![w] = IF x6 THEN @ + 1 ELSE @]
  BY <1>1, <1>3 DEF PodsCounted, PodCounters, Pods!EveryDeletionCounted, Pods!maxBalanceAttempts
<1> QED
  BY <1>2, <1>3 DEF Pods!updatePodBalanceAttempts, Pods!getAnnotations

\* A restart drops what is due; it is known not to be counted.
LEMMA RestartCounted ==
    ASSUME PodsCounted, Pods!Restart
    PROVE  PodsCounted'
BY DEF Pods!Restart, PodsCounted, PodCounters, Pods!EveryDeletionCounted, Pods!maxBalanceAttempts

\* A new ReplicaSet starts from nothing.
LEMMA RolloutCounted ==
    ASSUME PodsCounted, NEW w \in Workloads, Pods!Rollout(w)
    PROVE  PodsCounted'
BY DEF Pods!Rollout, PodsCounted, PodCounters, Pods!EveryDeletionCounted, Pods!maxBalanceAttempts

\* Every step of pod distribution preserves the invariant.
LEMMA NextCounted == PodsCounted /\ [Pods!Next]_(Pods!vars) => PodsCounted'
<1> SUFFICES ASSUME PodsCounted, [Pods!Next]_(Pods!vars) PROVE PodsCounted'
  OBVIOUS
<1>1. CASE Pods!findUnbalanced
  BY <1>1, UntouchedCounted DEF Pods!findUnbalanced
<1>2. ASSUME NEW w \in Workloads, Pods!Schedule(w) \/ Pods!Drain(w) PROVE PodsCounted'
  BY <1>2, UntouchedCounted DEF Pods!Schedule, Pods!Drain
<1>3. CASE UNCHANGED Pods!vars
  BY <1>3, UntouchedCounted DEF Pods!vars
<1> QED
  BY <1>1, <1>2, <1>3, ForceCounted, UpdateCounted, RestartCounted, RolloutCounted DEF Pods!Next, Pods!Step

\* The rest of the state has its type too: pods are placed in zones or not running, and
\* what a pass remembers are workloads and pods of theirs.
PodsPlaced ==
    /\ x1 \in [Workloads -> [Pods!Slots -> Zones \union {Pods!None}]]
    /\ x4 \in [Workloads -> Pods!Slots \union {0}]
    /\ x3 \subseteq Workloads /\ x9 \in Nat

\* The annotation stays within the attempts allowed.
LEMMA CountedIsTyped == PodsCounted /\ PodsPlaced => Pods!TypeOK
<1> SUFFICES ASSUME PodsCounted, PodsPlaced PROVE Pods!TypeOK
  OBVIOUS
<1>1. x2 \in [Workloads -> 0 .. Pods!maxBalanceAttempts]
  BY DEF PodsCounted, PodCounters, Pods!EveryDeletionCounted, Pods!maxBalanceAttempts
<1> QED
  BY <1>1 DEF PodsCounted, PodCounters, PodsPlaced, Pods!TypeOK

\* At first no pod runs.
LEMMA InitPlaced == Pods!Init => PodsPlaced
BY DEF Pods!Init, PodsPlaced

\* Deleting, scheduling and replacing pods keep them where pods can be.
LEMMA NextPlaced == PodsPlaced /\ [Pods!Next]_(Pods!vars) => PodsPlaced'
<1> SUFFICES ASSUME PodsPlaced, [Pods!Next]_(Pods!vars) PROVE PodsPlaced'
  OBVIOUS
<1> USE DEF PodsPlaced, Pods!Mishap, Pods!Fine
<1>1. CASE Pods!findUnbalanced
  BY <1>1 DEF Pods!findUnbalanced
<1>2. ASSUME NEW w \in Workloads, Pods!forceRebalance(w) PROVE PodsPlaced'
  <2>1. UNCHANGED x4 /\ x3' \subseteq Workloads /\ x9' \in Nat
    BY <1>2 DEF Pods!forceRebalance
  <2>2. x1' \in [Workloads -> [Pods!Slots -> Zones \union {Pods!None}]]
    BY <1>2 DEF Pods!forceRebalance, Pods!Gone
  <2> QED
    BY <2>1, <2>2
<1>3. ASSUME NEW w \in Workloads, Pods!updatePodBalanceAttempts(w) PROVE PodsPlaced'
  BY <1>3 DEF Pods!updatePodBalanceAttempts
<1>4. CASE Pods!Restart
  BY <1>4 DEF Pods!Restart
<1>5. ASSUME NEW w \in Workloads, Pods!Schedule(w) PROVE PodsPlaced'
  BY <1>5 DEF Pods!Schedule, Pods!Running
<1>6. ASSUME NEW w \in Workloads, Pods!Drain(w) PROVE PodsPlaced'
  BY <1>6 DEF Pods!Drain, Pods!Running
<1>7. ASSUME NEW w \in Workloads, Pods!Rollout(w) PROVE PodsPlaced'
  BY <1>7 DEF Pods!Rollout
<1>8. CASE UNCHANGED Pods!vars
  BY <1>8 DEF Pods!vars
<1> QED
  BY <1>1, <1>2, <1>3, <1>4, <1>5, <1>6, <1>7, <1>8 DEF Pods!Next, Pods!Step

\* For any workloads, zones and replicas, and any number of failures and restarts, the
\* pods that rebalancing deletes of a workload stay within the allowed attempts and
\* those that could not be counted.
THEOREM DisruptionIsBounded == Pods!Spec => []Pods!DisruptionBounded
<1>1. Pods!Spec => []PodsCounted
  BY InitCounted, NextCounted, PTL DEF Pods!Spec
<1> QED
  BY <1>1, CountedIsBounded, PTL

--------------------------------------------------------------------------------
\* The add-on's controllers: the RHMI (x1), the monitoring stack (x2), the labels of the
\* namespace (x3) and of the config map (x4), the network (x5), the mark (x6), whether
\* someone has asked (x8), and what the namespace label controller (x9) and the status
\* controller (x10) hold.
Installations == [state : {"none", "live", "deleting"}, installed : BOOLEAN,
                  complete : BOOLEAN, late : BOOLEAN]
Labels == {"absent", "false", "true"}
Objects ==
    /\ x1 \in Installations /\ x2 \in BOOLEAN
    /\ x3 \in [delete : Labels, cidr : BOOLEAN] /\ x4 \in Labels \union {"none"}
    /\ x5 \in {"none", "", "cidr"} /\ x6 \in BOOLEAN /\ x8 \in BOOLEAN
Held ==
    /\ x9 \in [at : {"idle", "config map", "labels"}, delete : Labels, cidr : BOOLEAN]
    /\ x10 \in [at : {"idle", "rhmi", "stack", "pulse"}, marked : BOOLEAN, cr : Installations]
AddonTyped == Objects /\ Held

\* As long as nobody has asked to uninstall (x8), neither label says so (x3, x4), the
\* AddonInstance is not marked (x6), and neither controller holds such a label or mark.
AddonAsked ==
    x8 = FALSE =>
        /\ x1.state # "deleting"
        /\ x3.delete # "true" /\ x4 # "true" /\ x6 = FALSE
        /\ x9.delete # "true" /\ x10.marked = FALSE

\* These are the types of the type invariant.
LEMMA AddonIsTyped == AddonTyped => Addon!TypeOK
<1> SUFFICES ASSUME AddonTyped PROVE Addon!TypeOK
  OBVIOUS
<1>1. x9.at \in {"idle", "config map", "labels"} /\ x10.cr \in Installations
      /\ x10.at \in {"idle", "rhmi", "stack", "pulse"}
  BY DEF AddonTyped, Held
<1> QED
  BY Zenon, <1>1 DEF AddonTyped, Addon!TypeOK, Addon!Label, Objects, Installations, Labels

\* At first nothing is installed, labelled, marked or read.
LEMMA InitAddon == Addon!Init => AddonTyped /\ AddonAsked
<1> SUFFICES ASSUME Addon!Init PROVE AddonTyped /\ AddonAsked
  OBVIOUS
<1>1. Addon!NoCR \in Installations
  BY DEF Addon!NoCR, Installations
<1>2. Held
  BY <1>1 DEF Addon!Init, Labels, Held
<1>3. Objects
  <2>1. x2 \in BOOLEAN /\ x6 \in BOOLEAN /\ x8 \in BOOLEAN
    BY Zenon DEF Addon!Init
  <2>2. x1 \in Installations
    BY <1>1 DEF Addon!Init
  <2>3. x3 \in [delete : Labels, cidr : BOOLEAN] /\ x4 = "none" /\ x5 = "none"
    BY DEF Addon!Init, Labels
  <2> QED
    BY <2>1, <2>2, <2>3 DEF Objects
<1>4. AddonAsked
  BY DEF Addon!Init, Addon!NoCR, AddonAsked
<1> QED
  BY <1>2, <1>3, <1>4 DEF AddonTyped

\* A controller that takes no step holds what it held.
LEMMA HeldStays == ASSUME Held, UNCHANGED <<x9, x10>> PROVE Held'
<1>1. x9' = x9 /\ x10' = x10
  OBVIOUS
<1> QED
  BY <1>1 DEF Held, Labels, Installations

\* A step that changes the RHMI or what is reported of it, and does not delete it.
LEMMA RhmiChanges ==
    ASSUME AddonTyped, AddonAsked, x1' \in Installations, x2' \in BOOLEAN,
           x5' \in {"none", "", "cidr"}, x1'.state = "deleting" => x1.state = "deleting",
           UNCHANGED <<x3, x4, x6, x8, x9, x10>>
    PROVE  AddonTyped' /\ AddonAsked'
<1>1. AddonTyped'
  <2>1. Held'
    BY HeldStays DEF AddonTyped
  <2>2. Objects'
    BY Zenon DEF AddonTyped, Objects, Labels, Installations
  <2> QED
    BY <2>1, <2>2 DEF AddonTyped
<1>2. AddonAsked'
  BY DEF AddonAsked
<1> QED
  BY <1>1, <1>2

\* The RHMI is created, installed, changed and uninstalled by its own controller, and
\* the network is set up.
LEMMA InstallationMoves ==
    ASSUME AddonTyped, AddonAsked,
           Addon!CreateRHMI \/ Addon!InstallRHMI \/ Addon!Disturb \/ Addon!UninstallRHMI
    PROVE  AddonTyped' /\ AddonAsked'
<1>1. /\ x1 \in Installations /\ x2 \in BOOLEAN /\ Addon!NoCR \in Installations
      /\ Addon!NoCR.state = "none" /\ x5 \in {"none", "", "cidr"}
  BY DEF AddonTyped, Objects, Installations, Addon!NoCR
<1>2. UNCHANGED <<x3, x4, x5, x6, x8, x9, x10>>
  BY DEF Addon!CreateRHMI, Addon!InstallRHMI, Addon!Disturb, Addon!UninstallRHMI, Addon!request
<1>3. x2' \in BOOLEAN
  BY <1>1 DEF Addon!CreateRHMI, Addon!InstallRHMI, Addon!Disturb, Addon!UninstallRHMI
<1>4. x1' \in Installations /\ (x1'.state = "deleting" => x1.state = "deleting")
  <2>1. CASE Addon!CreateRHMI
    BY <1>1, <2>1 DEF Addon!CreateRHMI, Installations
  <2>2. CASE Addon!InstallRHMI
    BY <1>1, <2>2 DEF Addon!InstallRHMI, Installations
  <2>3. CASE Addon!Disturb
    BY <1>1, <2>3 DEF Addon!Disturb, Installations
  <2>4. CASE Addon!UninstallRHMI
    BY <1>1, <2>4 DEF Addon!UninstallRHMI
  <2> QED
    BY <2>1, <2>2, <2>3, <2>4
<1> QED
  BY <1>1, <1>2, <1>3, <1>4, RhmiChanges

\* A request is recorded as one: whatever label or mark may be acted on later has been
\* asked for.
LEMMA RequestMoves ==
    ASSUME AddonTyped, AddonAsked, Addon!Request
    PROVE  AddonTyped' /\ AddonAsked'
<1>1. UNCHANGED <<x1, x2, x5, x9, x10>>
  BY DEF Addon!Request, Addon!rhmi
<1>2. x8 \in BOOLEAN /\ x6 \in BOOLEAN /\ x4 \in Labels \union {"none"}
      /\ x3 \in [delete : Labels, cidr : BOOLEAN]
  BY DEF AddonTyped, Objects
<1>. DEFINE Recorded ==
              /\ x8' \in BOOLEAN /\ (x8' = FALSE => x8 = FALSE)
              /\ x6' \in BOOLEAN /\ x4' \in Labels \union {"none"}
              /\ x3' \in [delete : Labels, cidr : BOOLEAN]
              /\ x8' = FALSE => UNCHANGED x6 /\ (x4' = x4 \/ x4' # "true")
                                /\ (x3' = x3 \/ x3'.delete # "true")
<1>3. Recorded
  <2>1. CASE ~x6 /\ x6' = TRUE /\ x8' = TRUE /\ UNCHANGED <<x3, x4>>
    BY <1>2, <2>1, Zenon
  <2>2. CASE x4' \in Labels \ {x4} /\ x8' = (x8 \/ x4' = "true") /\ UNCHANGED <<x3, x6>>
    BY <1>2, <2>2, Zenon
  <2>3. ASSUME NEW v \in Labels, x3' = [x3 EXCEPT !.delete = v], x8' = (x8 \/ v = "true"),
               UNCHANGED <<x4, x6>>
        PROVE  Recorded
    <3>1. x3' \in [delete : Labels, cidr : BOOLEAN] /\ x3'.delete = v
      BY <1>2, <2>3
    <3> QED
      BY <1>2, <2>3, <3>1, Zenon
  <2> QED
    BY <2>1, <2>2, <2>3, Zenon DEF Addon!Request, Addon!Label, Labels
<1>4. AddonTyped'
  <2>1. Held'
    BY <1>1, HeldStays DEF AddonTyped
  <2>2. Objects'
    BY Zenon, <1>1, <1>3 DEF AddonTyped, Objects, Labels, Installations
  <2> QED
    BY <2>1, <2>2 DEF AddonTyped
<1>5. AddonAsked'
  BY <1>1, <1>3 DEF AddonAsked
<1> QED
  BY <1>4, <1>5

\* The CIDR label and the network strategies have nothing to do with it.
LEMMA NetworkMoves ==
    ASSUME AddonTyped, AddonAsked, Addon!SetNetwork
    PROVE  AddonTyped' /\ AddonAsked'
<1>1. UNCHANGED <<x1, x2, x4, x6, x8, x9, x10>>
  BY DEF Addon!SetNetwork, Addon!rhmi
<1>2. /\ x3' \in [delete : Labels, cidr : BOOLEAN] /\ x3'.delete = x3.delete
      /\ x5' \in {"none", "", "cidr"}
  BY DEF Addon!SetNetwork, AddonTyped, Objects
<1>3. AddonTyped'
  <2>1. Held'
    BY <1>1, HeldStays DEF AddonTyped
  <2>2. Objects'
    BY Zenon, <1>1, <1>2 DEF AddonTyped, Objects, Labels, Installations
  <2> QED
    BY <2>1, <2>2 DEF AddonTyped
<1>4. AddonAsked'
  BY <1>1, <1>2 DEF AddonAsked
<1> QED
  BY <1>3, <1>4

\* A step of a controller that deletes the RHMI only when it was asked for, and holds
\* only what was asked for.
LEMMA ControllerMoves ==
    ASSUME AddonTyped, AddonAsked, UNCHANGED <<x2, x3, x4, x6, x8>>,
           x5' \in {"none", "", "cidr"}, Held',
           UNCHANGED x1 \/ (Addon!Delete /\ x8 = TRUE),
           x8 = FALSE => x9'.delete # "true" /\ x10'.marked = FALSE
    PROVE  AddonTyped' /\ AddonAsked'
<1>1. x1' \in Installations /\ (x8 = FALSE => x1' = x1)
  <2>1. x1 \in Installations
    BY DEF AddonTyped, Objects, Installations
  <2>2. CASE UNCHANGED x1
    BY <2>1, <2>2
  <2>3. CASE Addon!Delete /\ x8 = TRUE
    BY <2>1, <2>3 DEF Addon!Delete, Installations
  <2> QED
    BY <2>2, <2>3
<1>2. AddonTyped'
  BY <1>1 DEF AddonTyped, Objects, Held, Labels, Installations
<1>3. AddonAsked'
  BY <1>1 DEF AddonAsked
<1> QED
  BY <1>2, <1>3

\* The namespace label controller deletes for a label that it sees now, in the config map,
\* or saw when its reconcile began, in the namespace.
LEMMA LookMoves ==
    ASSUME AddonTyped, AddonAsked, Addon!Look
    PROVE  AddonTyped' /\ AddonAsked'
<1>1. UNCHANGED <<x2, x3, x4, x6, x8, x10>>
  BY DEF Addon!Look, Addon!ReconcileNamespace, Addon!CheckConfigMap, Addon!CheckLabel,
         Addon!rhmi, Addon!request
<1>2. /\ Held /\ x5 \in {"none", "", "cidr"} /\ x8 \in BOOLEAN
      /\ x3 \in [delete : Labels, cidr : BOOLEAN]
  BY DEF AddonTyped, Objects
<1>3. x8 = FALSE => /\ x3.delete # "true" /\ x4 # "true" /\ x9.delete # "true"
                    /\ x10.marked = FALSE
  BY DEF AddonAsked
<1>4. CASE Addon!ReconcileNamespace
  <2>1. UNCHANGED <<x1, x5>>
    BY <1>4 DEF Addon!ReconcileNamespace, Addon!rhmi
  <2>2. /\ x9' \in [at : {"idle", "config map", "labels"}, delete : Labels, cidr : BOOLEAN]
        /\ x9'.delete \in {x3.delete, "absent"}
    <3>1. x3.delete \in Labels /\ x3.cidr \in BOOLEAN /\ "absent" \in Labels
      BY <1>2 DEF Labels
    <3>2. CASE x9' = [at |-> "config map", delete |-> x3.delete, cidr |-> x3.cidr]
      BY <3>1, <3>2
    <3>3. CASE x9' = [at |-> "config map", delete |-> "absent", cidr |-> FALSE]
      BY <3>1, <3>3
    <3> QED
      BY <1>4, <3>2, <3>3 DEF Addon!ReconcileNamespace
  <2>3. Held'
    BY Zenon, <1>1, <1>2, <2>2 DEF Held, Labels, Installations
  <2> QED
    BY <1>1, <1>2, <1>3, <2>1, <2>2, <2>3, ControllerMoves
<1>5. CASE Addon!CheckConfigMap
  <2>1. UNCHANGED x5
    BY <1>5 DEF Addon!CheckConfigMap
  <2>2. Held' /\ x9'.delete = x9.delete
    BY <1>1, <1>2, <1>5 DEF Addon!CheckConfigMap, Held, Labels, Installations
  <2>3. UNCHANGED x1 \/ (Addon!Delete /\ x8 = TRUE)
    <3>1. UNCHANGED x1 \/ (Addon!Delete /\ x4 = "true")
      BY <1>5 DEF Addon!CheckConfigMap, Addon!Uninstall
    <3> QED
      BY <1>2, <1>3, <3>1
  <2> QED
    BY <1>1, <1>2, <1>3, <2>1, <2>2, <2>3, ControllerMoves
<1>6. ASSUME NEW first, Addon!CheckLabel(first) PROVE AddonTyped' /\ AddonAsked'
  <2>1. x5' \in {"none", "", "cidr"}
    BY <1>2, <1>6 DEF Addon!CheckLabel, Addon!CheckCidrValueAndUpdate
  <2>2. Held' /\ x9'.delete = x9.delete
    BY <1>1, <1>2, <1>6 DEF Addon!CheckLabel, Held, Labels, Installations
  <2>3. UNCHANGED x1 \/ (Addon!Delete /\ x8 = TRUE)
    <3>1. UNCHANGED x1 \/ (Addon!Delete /\ x9.delete = "true")
      BY <1>6 DEF Addon!CheckLabel, Addon!Uninstall
    <3> QED
      BY <1>2, <1>3, <3>1
  <2> QED
    BY <1>1, <1>2, <1>3, <2>1, <2>2, <2>3, ControllerMoves
<1> QED
  BY <1>4, <1>5, <1>6 DEF Addon!Look

\* The status controller deletes for a mark that it saw on the AddonInstance before it
\* read the RHMI.
LEMMA ReportMoves ==
    ASSUME AddonTyped, AddonAsked, Addon!Report
    PROVE  AddonTyped' /\ AddonAsked'
<1>1. UNCHANGED <<x2, x3, x4, x5, x6, x8, x9>>
  BY DEF Addon!Report, Addon!ReadAddonInstance, Addon!ReadRHMI, Addon!ReadMonitoringStack,
         Addon!SendPulse, Addon!rhmi, Addon!request
<1>2. /\ Held /\ x5 \in {"none", "", "cidr"} /\ x8 \in BOOLEAN /\ x6 \in BOOLEAN
      /\ x1 \in Installations
  BY DEF AddonTyped, Objects, Installations
<1>3. x8 = FALSE => x6 = FALSE /\ x9.delete # "true" /\ x10.marked = FALSE
  BY DEF AddonAsked
<1>4. CASE Addon!ReadAddonInstance
  <2>1. UNCHANGED x1
    BY <1>4 DEF Addon!ReadAddonInstance, Addon!rhmi
  <2>2. Held' /\ x10'.marked = x6
    BY <1>1, <1>2, <1>4 DEF Addon!ReadAddonInstance, Held, Labels, Installations
  <2> QED
    BY <1>1, <1>2, <1>3, <2>1, <2>2, ControllerMoves
<1>5. CASE Addon!ReadRHMI
  <2>1. Held' /\ x10'.marked = x10.marked
    BY <1>1, <1>2, <1>5 DEF Addon!ReadRHMI, Held, Labels, Installations
  <2>2. UNCHANGED x1 \/ (Addon!Delete /\ x8 = TRUE)
    <3>1. UNCHANGED x1 \/ (Addon!Delete /\ x10.marked)
      BY <1>5 DEF Addon!ReadRHMI
    <3> QED
      BY <1>2, <1>3, <3>1 DEF Held
  <2> QED
    BY <1>1, <1>2, <1>3, <2>1, <2>2, ControllerMoves
<1>6. CASE Addon!ReadMonitoringStack \/ Addon!SendPulse
  <2>1. UNCHANGED x1
    BY <1>6 DEF Addon!ReadMonitoringStack, Addon!SendPulse, Addon!rhmi
  <2>2. Held' /\ x10'.marked = x10.marked
    BY <1>1, <1>2, <1>6 DEF Addon!ReadMonitoringStack, Addon!SendPulse, Held, Labels, Installations
  <2> QED
    BY <1>1, <1>2, <1>3, <2>1, <2>2, ControllerMoves
<1> QED
  BY <1>4, <1>5, <1>6 DEF Addon!Report

\* Every step of the add-on's controllers and of those who ask preserves the invariant.
LEMMA NextAddon ==
    ASSUME AddonTyped, AddonAsked, Addon!Next
    PROVE  AddonTyped' /\ AddonAsked'
BY InstallationMoves, RequestMoves, NetworkMoves, LookMoves, ReportMoves DEF Addon!Next

--------------------------------------------------------------------------------
\* The invariant of the part that runs.
ControllersInv ==
    /\ which \in {"upgrade", "pods", "addon"}
    /\ which = "upgrade" => UpgradeInv /\ VersionsBounded
    /\ which = "pods" => PodsCounted /\ PodsPlaced
    /\ which = "addon" => AddonTyped /\ AddonAsked

\* It holds of the part that starts.
LEMMA InitControllers == Init => ControllersInv
<1> SUFFICES ASSUME Init PROVE ControllersInv
  OBVIOUS
<1>1. CASE which = "upgrade" /\ Upgrade!Init
  BY <1>1, ReleasesAssumption, InitTrue, InitBounded DEF ControllersInv
<1>2. CASE which = "pods" /\ Pods!Init
  BY <1>2, InitCounted, InitPlaced DEF ControllersInv
<1>3. CASE which = "addon" /\ Addon!Init
  BY <1>3, InitAddon DEF ControllersInv
<1> QED
  BY <1>1, <1>2, <1>3 DEF Init

\* Only the part that runs takes steps, and they preserve its invariant.
LEMMA NextControllers == ControllersInv /\ [Next]_vars => ControllersInv'
<1> SUFFICES ASSUME ControllersInv, [Next]_vars PROVE ControllersInv'
  OBVIOUS
<1>1. UNCHANGED which
  BY DEF Next, vars, InUpgrade, InPods, InAddon
<1>2. CASE which = "upgrade"
  <2>1. [Upgrade!Next]_(Upgrade!vars)
    BY <1>2 DEF Next, vars, InUpgrade, InPods, InAddon, Upgrade!vars
  <2>2. UpgradeInv' /\ VersionsBounded'
    BY <1>2, <2>1, ReleasesAssumption, NextTrue, NextBounded DEF ControllersInv
  <2> QED
    BY <1>1, <1>2, <2>2 DEF ControllersInv
<1>3. CASE which = "pods"
  <2>1. [Pods!Next]_(Pods!vars)
    BY <1>3 DEF Next, vars, InUpgrade, InPods, InAddon, Pods!vars
  <2>2. PodsCounted' /\ PodsPlaced'
    BY <1>3, <2>1, NextCounted, NextPlaced DEF ControllersInv
  <2> QED
    BY <1>1, <1>3, <2>2 DEF ControllersInv
<1>4. CASE which = "addon"
  <2>1. CASE Addon!Next
    BY <1>1, <1>4, <2>1, NextAddon DEF ControllersInv
  <2>2. CASE UNCHANGED vars
    <3>1. UNCHANGED <<x1, x2, x3, x4, x5, x6, x8, x9, x10>> /\ AddonTyped /\ AddonAsked
      BY <1>4, <2>2 DEF vars, ControllersInv
    <3>2. x1' \in Installations /\ x2' \in BOOLEAN /\ x5' \in {"none", "", "cidr"}
      BY <3>1, Zenon DEF AddonTyped, Objects
    <3> QED
      BY <1>1, <1>4, <3>1, <3>2, RhmiChanges DEF ControllersInv
  <2> QED
    BY <1>4, <2>1, <2>2 DEF Next, InUpgrade, InPods, InAddon
<1> QED
  BY <1>2, <1>3, <1>4 DEF ControllersInv

\* The invariant of the part that runs holds always.
THEOREM ControllersInvariant == Spec => []ControllersInv
BY InitControllers, NextControllers, PTL DEF Spec

\* However many releases, workloads and events there are, the state of the controllers
\* keeps its types: no reconcile runs past the plans, pods and labels there are.
THEOREM ControllersTyped == Spec => []TypeOK
<1>1. ControllersInv => TypeOK
  <2> SUFFICES ASSUME ControllersInv PROVE TypeOK
    OBVIOUS
  <2>1. CASE which = "upgrade"
    <3>1. Upgrade!TypeOK
      BY <2>1, ReleasesAssumption, BoundedIsTyped DEF ControllersInv
    <3> QED
      BY <2>1, <3>1 DEF TypeOK
  <2>2. CASE which = "pods"
    <3>1. Pods!TypeOK
      BY <2>2, CountedIsTyped DEF ControllersInv
    <3> QED
      BY <2>2, <3>1 DEF TypeOK
  <2>3. CASE which = "addon"
    <3>1. Addon!TypeOK
      BY <2>3, AddonIsTyped DEF ControllersInv
    <3> QED
      BY <2>3, <3>1 DEF TypeOK
  <2> QED
    BY <2>1, <2>2, <2>3 DEF ControllersInv
<1> QED
  BY <1>1, ControllersInvariant, PTL

\* However many releases, failures and restarts there are, an upgrade that the operator
\* approved (HandleUpgrades) does not affect the service.
THEOREM ApprovedIsHarmless == Spec => []OnlyHarmlessApproved
<1>1. ControllersInv => OnlyHarmlessApproved
  BY DEF ControllersInv, UpgradeInv, OnlyHarmlessApproved
<1> QED
  BY <1>1, ControllersInvariant, PTL

\* However many workloads, pods, failures and rollouts there are, rebalancing
\* (forceRebalance) deletes at most three pods of a workload and those that it could not
\* count.
THEOREM RebalancingIsBounded == Spec => []DisruptionBounded
<1>1. ControllersInv => DisruptionBounded
  BY CountedIsBounded DEF ControllersInv, DisruptionBounded
<1> QED
  BY <1>1, ControllersInvariant, PTL

\* However the two controllers' reconciles and the requests interleave, and whatever
\* fails, the RHMI is being deleted only if a label of the config map or of the namespace,
\* or the mark of the AddonInstance, has asked for it.
THEOREM DeletionWasRequested == Spec => []DeletedOnlyOnRequest
<1>1. ControllersInv => DeletedOnlyOnRequest
  BY DEF ControllersInv, AddonTyped, Objects, AddonAsked, DeletedOnlyOnRequest, Addon!DeletedOnlyOnRequest
<1> QED
  BY <1>1, ControllersInvariant, PTL
====
