# A TLA+ model of the integreatly operator

The integreatly operator installs, upgrades and uninstalls Red Hat OpenShift API
Management: one custom resource, `RHMI`, describes the installation, and one
controller, the RHMI controller, brings a set of products (cloud resources, RHSSO,
user SSO, 3scale, marin3r, Grafana) to the state it describes. This directory holds
specifications of that system, the configurations TLC checks them with, and proofs
that TLAPS checks.

## 1. The system

### Parts, state and operations

| Part | State | Operations | Talks to |
| --- | --- | --- | --- |
| RHMI controller (`internal/controller/rhmi`) | the `RHMI` resource: finalizers, deletion timestamp, status (preflight, version, toVersion, quota, toQuota, stage, product versions); the package level stage tables | Reconcile, preflightChecks, bootstrapStage, processStage, handleUninstall, createInstallationCR | every part below |
| Bootstrap reconciler | OAuth client secrets, SMTP secret, quota, add-on parameters, priority class | Reconcile, processQuota, reconcileOauthSecrets | RHMI controller, quota |
| Product reconcilers (`pkg/products`) | namespaces, subscriptions, custom resources and configuration of a product | Reconcile, VerifyVersion, a clean up function per product | RHMI controller, OLM, each other |
| Common resources (`pkg/resources`) | finalizers, namespaces, subscriptions, install plans, backups | ReconcileFinalizer, ReconcileNamespace, ReconcileSubscription, RemoveNamespace | product reconcilers |
| Quota (`pkg/resources/quota`) | replicas and resources of a product's workloads | GetQuota, Configure | bootstrap, product reconcilers |
| Subscription controller | the operator's own subscription and install plan | Reconcile, HandleUpgrades, allowDatabaseUpdates | RHMI resource, OLM |
| Tenant and user controllers | `APIManagementTenant`, annotations on users, groups | verify, addAnnotationToUser, reconcileTenantUrl | 3scale, RHSSO |
| Namespace label and status controllers | labels of the operator's namespace, status of the add-on | delete the resource, report | RHMI resource |
| Webhooks (`pkg/webhooks`, `pkg/addon/uninstall.go`) | webhook configurations, the operator's CSV | Reconcile, Handle | API server |
| 3scale users, rate limit, pod distribution | users in 3scale, Limitador configuration, pods | synchronise, compare and redeploy, kill to rebalance | Kubernetes, 3scale API |

### What makes it hard

* The controller reads the resource from a cache that lags behind the server, works
  on a copy in memory, and writes it back in pieces: metadata with `Update`, status
  with `Status().Update`, several times in one reconcile. Any write can be refused.
* A reconcile is not atomic: the process can die, or be replaced by OLM, between any
  two writes, and another reconcile picks up what is stored.
* The deletion timestamp can appear at any moment, also in the middle of an
  installation, and finalizers decide what happens then.
* The answer of the API server replaces the copy in memory. What was changed there and is
  not stored by that write is lost: a write of the status brings the server's finalizers
  back, a write of the object the server's status.
* A version and a quota are announced (`toVersion`, `toQuota`), worked on over many
  reconciles and confirmed at the end, while the announcement's cause may change.
* Finalizers come in two formats, and some product names are part of others.

The hazards of this kind, with the line where each bites and the properties that watch
it, are in `PROJECT.json` under `hazards`; section 5 names four more that no model covers.

## 2. Modules

| Module | What it models |
| --- | --- |
| `ApiServer` | the API server as the operator uses it: resourceVersion conflicts, the status subresource, finalizers and the removal of objects. External to the repository. |
| `Installation` | the RHMI controller and everything one `RHMI` resource goes through |
| `MCInstallation` | values of the constants for TLC |
| `InstallationTypes` | what a write does, type correctness, and the layer of the inductive invariant about what a pass may report |
| `InstallationProofs` | the layer about the copies of the resource, and the theorems that need no other |
| `InstallationSafety` | the layer about the order of an uninstall, the whole invariant and what follows from it; the format of finalizers |
| `Subscription` | `ReconcileSubscription`: install, upgrade, backup and repair of one product's operator, beside OLM |
| `SubscriptionProofs` | types, inductive invariant and safety theorems of `Subscription` |
| `Cluster` | the calls a product's reconciler makes on the cluster, what each changes and when it ends the reconcile |
| `Alerts`, `Keycloaks`, `ThreeScale`, `Platform` | the products' reconcilers as sequences of such calls: alert rules; rhsso and user SSO; 3scale; cloud resources, marin3r and Grafana |
| `Products`, `MCProducts` | all products of an installation on one cluster, with the operators and the platform that react |
| `SecretCustody`, `SecretCustodyProofs` | the abstract specification of a secret that a product's data depends on, which `Products` implements |
| `OperatorUpgrade` | the subscription controller: upgrades of the operator itself |
| `PodDistribution` | rebalancing of pods over zones |
| `AddonInstance` | the namespace label and the status controller |
| `Controllers`, `ControllersProofs` | the three before, side by side; their safety theorems |
| `Tenancy` | tenants: the tenant controller beside 3scale's reconciler |
| `UserSync` | users of OpenShift, Keycloak and 3scale |
| `OauthSecrets` | client secrets and their copies at both ends of every login |
| `Accounts`, `MCAccounts`, `TenancyProofs`, `AccountsProofs` | the three before, side by side; their safety theorems |

### Installation

`cr` is the resource on the server, `cached` the manager's copy, `inst` the variable
`installation` of the running reconcile. An object has `exists`, `rv` (the
resourceVersion), `deleting`, `fin` (its finalizers) and `st` (its status). `pc` says
where the running reconcile is and `run` holds its other locals. `mem` is the package
level map `stage.Products`, which survives a reconcile and not the process. `world`,
`applied` and `configured` say what is really on the cluster for each product: its
namespaces, the last release that completed it, the quota it is sized for.

A reconcile is a sequence of actions; each one ends with the write it makes, so that
everything between two writes is one step:

| Code | Actions |
| --- | --- |
| `Reconcile`, up to the finalizer | `Reconcile`, `CopyEmail`, `EnsureDeletionFinalizer`, `EarlyError` |
| `preflightChecks` | `preflightChecks(outcome)` |
| announcement of the version | `SetToVersion` |
| `bootstrapStage`, `processQuota` | `bootstrapStage(quotaRead, completed)` |
| `processStage` | `ReconcileProduct(p, phase)`, `FinalizerRefused(p)`, `StageAborted` |
| end of `Reconcile`, `updateStatusAndObject` | `Finish`, `UpdateObject` |
| `handleUninstall`, `handleUninstallProduct` | `handleUninstall`, `UninstallProduct(p)`, `SkipProduct(p)`, `NextUninstallStage`, `PendingUninstalls`, `SaveFinalizers`, `TidyUp`, `Release` |
| `addon.UninstallOperator` | `UninstallOperator` |
| process, OLM, users, cluster | `Start`, `Crash`, `Upgrade`, `CacheSync`, `DeleteCR`, `EditCR`, `ChangeQuota`, `NamespaceGone` |

Products of a stage are visited in the order of a Go map, so the model lets them come
in any order. A definition whose comment starts with *Mutated* is a wrong version of
the one after it; it is used by nothing and shows, when put in its place, that a
property can fail.

What the model leaves out, and why that is sound:

* The spec of the resource, its last error and the phases of products: no decision
  the properties depend on reads them. A write that changes only those is a write
  that changes nothing, which is always allowed.
* Finalizers are a set. `OneFormat` justifies it: `UpdateFinalizer` cannot create a
  finalizer that is there already.
* `updateStatusAndObject` skips a write that would change nothing. A status that is
  unchanged in the model may have changed in a field that is left out, so `Finish` skips
  the write or makes it, and the write then only brings the server's finalizers back. The
  write of the object is made in any case; one that changes nothing has no effect.
* A product's reconcile is one step: its finalizer is written first, then something is
  deployed or not. `Products` opens that step up.
* At a restart the cache is filled from the server, so it is never older than before
  the crash. Two operator processes never run at once (leader election).
* One budget, `MaxDisturbances`, pays for crashes, errors, failed writes other than
  conflicts, delays and edits. Conflicts are free: they follow from the interleaving.
* The manager's cache and the operator's writes are for one resource. Deleting and
  creating it again gives an object with a resourceVersion no copy carries.
* The operator runs as an add-on (`StartFrom = "absent"`, it creates the resource) or
  through OLM (`"created"`, a user does). `"legacy"` starts from an installation made
  by a release that wrote finalizers in the old format.

### Subscription

`want` is the release the running operator declares, `catalog` the one the catalog
source serves. `sub`, `plans`, `csvs` and `snapshots` are the objects in the cluster;
`ip`, `target` and `backups` are locals of `ReconcileSubscription`, and `pc` its place.

| Code | Actions |
| --- | --- |
| `InstallOperator` and what it calls | `ReconcileCatalogSource`, `reconcileOperatorGroup`, `InstallOperator` |
| `GetSubscriptionInstallPlan` | `getSubscription`, `GetSubscriptionInstallPlan`: two reads, two steps |
| `upgradeApproval`, backup executors | `PerformBackup`, `PollSnapshot(e)`, `BackupError(e)`, `WaitForBackups`, `Approve` |
| rest of `ReconcileSubscription` | `DecideOnPlan`, `ValidateCSV` |
| `retryInstallation` | `DeleteCSV`, `DeleteSub` |
| failed calls, crash, new operator | `Fault`, `OperatorUpgraded` |
| OLM, snapshot service, a person | `Resolve`, `BeginInstall`, `CompleteInstall`, `FailInstall`, `FinishSnapshot`, `EditPlan` |

OLM is not in the repository. The model assumes of it that a new plan has generation 1,
that the plan a subscription refers to is kept, that a deleted CSV is not created again
while its plan is complete, that nothing is resolved next to a CSV no subscription
accounts for, and that the installed CSV is recorded together with the completion of
the plan. What the repository does not settle is a constant: with `Serial`, OLM carries
out only the plan the subscription refers to and makes no other meanwhile; without it,
approved plans of one subscription are carried out one after the other.

Left out: the three kinds of catalog source, which all make the declared release
available, have one action; a plan has one CSV; all snapshots of a backup are asked for
in one step, and the failure to create one is a `BackupError`.

### Products

`objs` is the cluster: a function from the objects that exist to `Deleting`, `Made` or
`Ready`, and to its content for a secret. A product's `Reconcile` is a sequence of calls
(`RhssoInstall`, `ThreeScaleCleanup`, ...), each the translation of one helper the
reconciler calls: a write into a namespace, a wait for a phase, a deletion, a copy of a
secret. `Run` of `Cluster` carries the calls out in order and stops at the first that does
not complete, as every `if err != nil || phase != PhaseCompleted` does. What an object
contains is left out unless a later call waits for it.

| Code | Actions |
| --- | --- |
| `Reconcile` of each product, in any order | `Reconcile(p)` |
| a call that fails, or the operator killed after it | `Interrupted(p)` |
| deletion of the installation | `StartUninstall`; from then on `Reconcile(p)` runs the clean-ups |
| someone deletes a product's namespace | `LoseNamespace(n)` |
| OLM, the operators of the products, the API server | `React`: one of `InstalledOperator`, `Generated`, `ProvidedCloudResources`, `Provisioned`, `Routed`, `Finished`, `Terminated` |

A reconcile that is not interrupted is one step. That is an abstraction: a reaction in the
middle of a reconcile, or of another product's, appears only as a reconcile that stopped
there, the reaction, and a reconcile that starts over. Alert rules are there as the writes they are: which rule
goes where and after what, not its text. The OAuth client secrets, the pull secret and the
namespaces of the operator and of the observability stack exist from the start; the
bootstrap stage makes them.

`SecretCustody` says what is promised about the seed of 3scale and the administrator
credentials of the two Keycloaks, whose databases cannot be used without them: once there
is a copy in the operator's namespace it is never replaced, and a product that comes back
comes back with it. `Products`
implements it three times, with the two copies of each secret as the refinement mapping.

### The controllers beside the installation

`Controllers` and `Accounts` are disjoint sums: a behaviour runs one part, because the parts
share no state the models tell apart. The sum only lets one run of TLC check all of them.

* `OperatorUpgrade`: `Reconcile`, `PollInstallPlan`, `JudgeUpgrade`, `allowDatabaseUpdates` and
  `DecideUpgrade` are the reconcile of the subscription, which holds the plan and the RHMI it
  read in `pass`. `cache` is the CSV locator's cache, which outlives a reconcile. OLM
  publishes and installs, people approve, the RHMI controller announces and completes
  versions, maintenance windows close, and the process restarts.
* `PodDistribution`: `findUnbalanced`, then for each workload `forceRebalance` and, five seconds
  later in the code, `updatePodBalanceAttempts`. In between there are restarts, failures,
  evictions and rollouts. `deleted` and `uncounted` are history variables.
* `AddonInstance`: `look` is the namespace label controller's reconcile, which visits labels in
  the order of a Go map; `report` is the status controller's. `asked` is a history variable.
* `Tenancy`: `ReconcileTenant(t)` and `addAnnotationToUser(t)` beside the four steps of
  `reconcile3scaleMultiTenancy`: listing accounts page by page, setting them up, creating
  and deleting them. The loop that removes accounts from the slice it ranges over is modelled
  as Go runs it. A name is the sequence of its parts between dashes, so that the suffixes of a
  namespace are tested and cut off as the code does it: first `-dev`, then `-stage`. Accounts,
  tokens and clients go by the tenant name of a user, the sanitised form, which two users can
  share; an account also has the user it was created for, which no step reads. 3scale's own
  two accounts take the first two places of the list and are left out of what was read. Of
  `pass`, `read` is a history variable: the ids of the accounts the pass was given.
* `UserSync`: one pass through `syncronizeWithOpenshiftUsers` of rhsso and
  `reconcileOpenshiftUsers` of 3scale; `pass` holds the users and accounts read at its start.
* `OauthSecrets`: `Bootstrap` generates what is missing; `SetupOpenshiftIDP`,
  `SyncOpenshiftIDPClientSecret`, `reconcileRHSSOIntegration` and `ReconcileOauthClient` copy it.
  The realm is created in Keycloak from its resource once and never updated.

## 3. What the runs check

Two products suffice for most questions: one that waits for its namespace during an
uninstall and the cloud resources, which go last. `lifecycle` has three, two of which
have overlapping names, so that matching by substring matters. Two releases are the
least with which an upgrade can hit any point of an installation. Two quotas allow a
change in both directions, from either start. Two disturbances let one fault hit the
recovery from another. Deadlock is not checked there: after a completed uninstall the
system rightly stops. It is checked for `Subscription`, where two releases give one
upgrade, two executors let one backup fail while the other completes, and four plans
are enough for two releases, one failed plan and one broken CSV.

`products` checks four scenarios of `MCProducts`: a multitenant installation that has its
cloud resources and Grafana and installs rhsso, 3scale and marin3r; the same with rhsso
complete and one reconcile that stops anywhere; the same with the namespace of rhsso or
3scale lost at any moment; and the two Keycloaks side by side, with one disturbance of
either kind, deleted when complete or when one product is not. To begin with complete
products is what keeps it small; `Settled` computes that cluster with the reconcilers
themselves. One disturbance is enough to hit every pair of neighbouring calls once; two of
them, which could meet, are not checked. An uninstall begins only with at most
`unfinished` incomplete products.

`controllers` has three releases, so that one can be published while another is pending, two
workloads of two pods over two zones, one mishap for each of those parts, and three events
around the add-on. `accounts` has the users `ann`, `bob-k` and `bob--k`, the last two with one
tenant name, and four starts: `ann` alone with two troubles, `ann` and `bob--k` with one, all
three with one, and `ann` with tenants in `ann-dev`, `ann-stage` and `ann-stage-dev` with one.
Two pages of two places hold two accounts beside 3scale's own, so that they suffice for two
users and not for three. Among the people two names differ in case only; they have four
events, and the logins two mishaps. `MaxId` is large enough for these never to be the reason
why an account is not created; 3scale refuses a fifth one (`MaxAccounts`). Deadlock is
not checked in these three: with the budget spent and everything settled nothing happens.

| Run | Bounds | Shows |
| --- | --- | --- |
| `lifecycle` | 3 products, 1 release, 2 disturbances | `TypeOK`; cloud resources go last (`CloudResourcesLast`); the resource disappears only after all products and, if it has the deletion finalizer, after the ConfigMap (`UninstallIsComplete`) |
| `upgrades` | 2 products, 2 releases with the same product versions, 2 disturbances | finalizers only after the preflight checks (`FinalizersAfterPreflight`); a deployed product is guarded (`NoOrphans`); a reported version was reached by every product (`VersionMeansDone`); the inductive invariant `IInv` of the proofs |
| `legacy` | old finalizers, 2 quotas, 1 change, 2 disturbances | `OneFormat`; `status.quota` names a quota only when every product has it (`QuotaMeansConfigured`) |
| `progress` | 2 products, 2 quotas, 1 change, 1 disturbance, fair | a deletion ends (`UninstallTerminates`), a quota settles (`QuotaSettles`) |
| `upgrade_progress` | resource made by a user, 2 releases with new product versions, 1 disturbance, fair | an announced version is reached (`AnnouncedVersionReached`) |
| `product_operator` | `Serial`, 2 releases, 2 executors, 2 faults, 1 failed plan, 1 broken CSV, 1 edit, fair | a deleted subscription leaves no CSV (`CleanSlate`); a working CSV goes only for another or while a failed plan is there (`HealthyKept`); a plan of a higher generation is approved over complete snapshots (`BackupBeforeApproval`); the declared release gets installed unless a complete plan has lost its CSV (`SettlesUnlessStranded`); `TypeOK`, `IInv` |
| `products` | four scenarios, at most one disturbance, fair | an object that waits for its finalizer has the operator that serves it (`FinalizersServed`); databases outlive what uses them (`DataOutlivesWorkload`); the three secrets are kept (`SecretsKept`, a refinement); an installation completes and an uninstall leaves nothing (`StageSettles`); `TypeOK` |
| `controllers` | 3 releases, 2 workloads, 2 zones, 2 replicas, 1 mishap each, 3 add-on events, fair | the operator approves only upgrades that do not affect the service (`OnlyHarmlessApproved`) and those get installed (`HarmlessInstalled`); a service affecting one finds the maintenance windows open (`WindowOpened`); deleted pods are bounded (`DisruptionBounded`) and workloads end spread or given up (`RebalanceSettles`); the RHMI is deleted only when asked for (`DeletedOnlyOnRequest`), then is, and the report becomes true (`ReportSettles`); `TypeOK` |
| `accounts` | 3 tenant users, 5 tenants, 4 starts, 3 people, 2 troubles, 4 events, 2 mishaps, fair | one accepted tenant in a user's two namespaces (`OneTenantPerUser`); no second account for a user whose account in use was read (`OneAccountPerUser`); accounts are set up (`AccountsConfigured`), tenants reported (`TenantsSettle`), and accounts deleted with their users (`OrphansDeleted`); an account whose id is recorded is not deleted (`RecordedAccountKept`), users get in step (`UsersSettle`), logins come to work (`LoginsSettle`); `TypeOK` |

Several of these hold only but for cases that the code leaves open. Each case is a
definition of its own or a condition in the property, and TLC reaches every one of them:

* `UninstallIsComplete`: the resource has finalizers of products and not the deletion
  finalizer, which was lost in a write of the status; then the ConfigMap stays.
* `StageSettles`: the namespace went before the first reconcile that got as far as the
  backup of the secret, while the database had been filled (`Stranded`).
* `HarmlessInstalled`: the CSV of a plan was once read as empty and is cached as such, or the
  subscription was last reconciled when there was no RHMI; nothing wakes it later.
* `DisruptionBounded`: a pod deleted before a failure or restart that kept its attempt from
  being counted is not counted (`uncounted`).
* `ReportSettles`: the delete label of the namespace is heard only where the config map exists.
* `OneTenantPerUser`: a tenant in a namespace that counts as the user's and is not one of the
  two that are searched, such as `ann-stage-dev`.
* `OneAccountPerUser`: the account in use was not among those that were read.
* `AccountsConfigured`, `OrphansDeleted`, `TenantsSettle`: there are more accounts than the
  pages hold that are asked for (`Cut`).
* `AccountsConfigured`: the name stands in `tenants-created` from an earlier account or user,
  or the access token was lost between creating the account and storing it, or was replaced
  by that of another account with the same name (`TokenLost`).
* `TenantsSettle` (`Stuck`): the tenant was rejected at first, or its user was deleted and came
  back, so that the annotation is missing; the user's name is not its sanitised form; the
  name stands in `tenants-created`; the token was lost or replaced.
* `RecordedAccountKept`: a read of users or accounts failed in that pass.
* `LoginsSettle`: the identity provider of user SSO and the authentication provider in 3scale
  are written once; a secret generated again, or typed over, stays different.

Fairness (`FairSpec`) is weak fairness of the operator's own steps, of its start, of
the cache and of the removal of namespaces. The code justifies it: every return of
`Reconcile` asks for another one or follows a change that triggers one, OLM keeps the
deployment running, the cache is a watch. It does assume that a reconcile returns,
which `addCustomInformer` puts in doubt: it waits for a cache without a timeout. No
fairness is assumed of upgrades, deletions, edits or faults; the latter are bounded,
that is, they stop at some point, which is what *eventually* needs. `Subscription` has
weak fairness of the reconcile, which is requeued after every result, of OLM's
resolution and successful installation, and of the snapshots. `Products` has weak fairness
of every product's reconcile, since a stage visits all its products in every pass, and of
the reactions. `Controllers` has it of each reconcile, of OLM's installation, of the
scheduler and of the RHMI controller's progress; a person's approval and the completion of
a version are never assumed. One action has strong fairness, `CheckLabel("delete")`: Go
visits a map in a random order, so no order is left out for ever. In `Accounts` the
operator's pass always moves on (`[]<><<pass' # pass>>_vars`: only its own steps change
`pass`), the tenant controller is weakly fair because every result is requeued, and
Keycloak and 3scale do what they were asked.

### Disagreements

Three runs end in a counterexample. Each states what the code, a test or a document
says, and shows that the code does otherwise.

* `upgrade_during_upgrade`: `toVersion` is set only when empty and cleared only when it
  equals the running release. An operator replaced in between never reports the new
  version, though all stages complete in every pass (comment at
  `rhmi_controller.go:452`). `AnnouncedVersionReached` is the part that holds.
* `quota_reverted`: a quota changed and changed back before the change was complete
  equals `status.quota` again, so `toQuota` is never cleared (`test/common/quota.go:82`,
  `:525`). In the same trace a product already resized for the larger quota keeps that
  size, because sizes are only reduced while the quota counts as updated.
* `backup_skipped`: whether a plan is an upgrade is read off the plan's own generation,
  which is 1 for the new plan of every upgrade, so the upgrade of an installed product
  is approved without a backup (comment at `installPlan.go:20`).

More were found the same way and have no run of their own:

* The deletion finalizer is appended to the copy in memory (`rhmi_controller.go:349`), and
  the status writes of the first reconciles drop it before a write of the object could store
  it. A resource deleted after the first products have their finalizers, and before a
  reconcile stores its own, goes with the last product's; "tidy up bootstrap stuff"
  (`rhmi_controller.go:614`) is passed over and the installation ConfigMap stays. The comment
  at `pkg/resources/finalizers.go:19` says of such a finalizer that it "allows us to clean up
  oauth clients and other cluster level objects owned by the installation before the cr is
  deleted". This is the exception of `UninstallIsComplete`.
* A tenant in `ann-stage-dev` passes for one of the user `ann`, since both suffixes are cut off
  (`apimanagementtenant_controller.go:329`), while other tenants are looked for in `ann-dev` and
  `ann-stage` only (comment at `:159`, "either of the users namespaces"): `ann` gets two.
  This is the exception of `OneTenantPerUser`.
* The pages of accounts are counted by the users, with one more "in case of accounts set to be
  deleted" (comment at `threescale/reconciler.go:1697`), and 3scale's own two accounts take
  places on them. For `n` users beyond the first page that leaves
  `PageSize - n % PageSize - 2` places: one too few when the remainder is `PageSize - 1`, and
  none for accounts set to be deleted when it is one less. An account behind the last page is
  not set up, and each pass asks 3scale to create it again. This is `Cut`.
* Two users with one tenant name get an account each, if 3scale accepts the second, and one
  access token: accounts are compared with tenant names, and created per user
  (`threescale/reconciler.go:2268`). This is a part of `TokenLost`.
* Old format finalizers are not rewritten on a resource that is being deleted, and nothing
  else removes them (`docs/uninstallation/local_and_olm.md:15`): `UninstallTerminates` fails
  with `StartFrom = "legacy"`.
* With some finalizers in the old format the uninstall passes over products that are
  running and takes the cloud resources from under them (comment at
  `rhmi_controller.go:596`): `CloudResourcesLast` fails with `StartFrom = "legacy"`.
* After a fault between the deletion of a CSV without a deployment and that of its
  subscription, every later reconcile waits for the CSV (`reconciler_test.go:220`). This is
  the exception of `SettlesUnlessStranded`. A failed plan is safe: it is still failed
  afterwards.

One more behaviour is not counted among them, because it depends on OLM. The CSV to
delete after a failed plan comes from a subscription read before the plan
(`manager.go:178`, `:189`). If OLM completes one approved plan and fails the next between
the two reads, the subscription is deleted, the CSV stays, and OLM installs nothing
beside it, although the code means to re-install (comment at `reconciler.go:232`). TLC
finds this for `Settles` with `Serial = FALSE`, `MaxFailures = 1` and no fault; `Serial`
excludes it. It takes two plans that end between two calls, so it is rare if it can
happen at all. `CleanSlate` and `SettlesUnlessStranded` are claimed for `Serial` only.

## 4. What is proved

For every set of products, every number of releases, quotas and disturbances, under
the assumptions `ProductsAssumption` and `BoundsAssumption` of `Installation`:

| Theorem | States |
| --- | --- |
| `TypeCorrect` | `Spec => []TypeOK` |
| `FinalizersNeedPreflight` | `Spec => []FinalizersAfterPreflight` |
| `DeployedIsGuarded` | `Spec => []NoOrphans` |
| `GoneMeansUninstalled` | `Spec => UninstallIsComplete` |
| `FinalizersHaveOneFormat` | `Spec => []OneFormat` |
| `InstallationInvariant` | `Spec => []IInv` |
| `ReportedVersionIsReached` | `Spec => []VersionMeansDone` |
| `ReportedQuotaIsConfigured` | `Spec => QuotaMeansConfigured` |
| `CloudResourcesGoLast` | `StartFrom # "legacy" /\ Spec => CloudResourcesLast` |

None of these is inductive: each speaks of the server's object or of the cluster, while
every step works on a copy that may be stale and on what the pass noted earlier. The
invariant `IInv` has three layers: `CoreInv` is inductive, and each of the other two is
inductive given `CoreInv`.

* `CoreInv` ties the copies to the server: a copy whose resourceVersion is the server's
  hides no finalizer that is stored there (`CopyLags`), the cache is an earlier state of the
  object, in which finalizers of products were only added (`CacheLags`), a resource under
  deletion has finalizers (`ObjectFacts`), and the branch `Reconcile` took still
  describes the copy it works on (`RunFacts`, `BranchFacts`). With it, a write that would
  drop the finalizer of a deployed product is refused, since the copy it writes is not
  current. `GoneMeansUninstalled` needs besides that only two writes of `handleUninstall` let
  a resource under deletion go (`OnlyUninstallCollects`): `Release`, after the ConfigMap was
  deleted, and `SaveFinalizers` of a copy that lacks the deletion finalizer, and then so does
  the server's object (`CopyLags`). `OneFormat` has its own short induction on top of `TypeOK`.
* `PassInv` follows a pass over the products: no copy, however old, has a version that some
  product has not reached (`VersionFacts`), and while nothing has failed every product the
  pass has behind it is at the operator's version and, if the quota was changed, of its size
  (`PassFacts`). When no product is left that is what the end of `Reconcile` reports.
* `TeardownInv` follows an uninstall: where a product's finalizer is missing, on the server or
  in a copy under deletion, the product is cleaned up (`SettledFacts`), and a stage after the
  first is reached only when all products but the cloud resources are (`StageFacts`). It
  excludes `StartFrom = "legacy"`, for which `CloudResourcesLast` is false (section 3): old
  finalizers are not the ones the uninstall looks for.

For every set of executors and every number of releases, plans, faults, failures and
edits, under `BoundsAssumption` of `Subscription`, `SubscriptionProofs` shows:

| Theorem | States |
| --- | --- |
| `TypeCorrect` | `Spec => []TypeOK` |
| `Invariance` | `Spec => []IInv` |
| `CleanSlateHolds` | `Spec => []CleanSlate`; says something only when `Serial` |
| `HealthyKeptHolds` | `Spec => HealthyKept`, with `Serial` or without |
| `BackupBeforeApprovalHolds` | `Spec => BackupBeforeApproval`, with `Serial` or without |

The retry acts on what was read several calls ago. `IInv` says why that is still true:
plans are carried out in order (`PlanInv`), only this reconcile approves, so no plan
newer than the one it holds can run (`HeldInv`), and once that one has ended OLM has
nothing to do until the subscription is gone (`RetryInv`). Between the two reads this
is not so, and `ReadInv` says what is: with `Serial`, the installed CSV can change only
by the completion of the very plan that is read next, and then it did not fail.

For any releases, workloads, zones, replicas, mishaps and events, from `Releases \in Nat`
(`ReleasesAssumption`), `ControllersProofs` shows:

| Theorem | States |
| --- | --- |
| `ControllersTyped` | `Spec => []TypeOK` |
| `ApprovedIsHarmless` | `Spec => []OnlyHarmlessApproved` |
| `RebalancingIsBounded` | `Spec => []DisruptionBounded`; `DisruptionIsBounded` states it of `PodDistribution` alone |
| `DeletionWasRequested` | `Spec => []DeletedOnlyOnRequest` |

In `ControllersInv` each part has its invariant while it runs:

* The upgrade (`UpgradeInv`): the approval is made from what the reconcile holds, long after
  the plan was read, so the invariant follows the verdict: only published plans are cached,
  held or approved (`Published`), and what the cache or the reconcile calls harmless is
  harmless (`Verdicts`).
* Rebalancing (`PodsCounted`, `PodsPlaced`): whether another pod may be deleted is decided by
  the annotation, not by the pods deleted, so `EveryDeletionCounted` ties the two: a deleted
  pod is counted, is known as uncounted, or belongs to the one workload whose attempt is about
  to be written.
* For the add-on's controllers `AddonAsked` says that before anyone asks, no label and no mark
  says so, neither on the cluster nor in what a controller has read and will act on later.

For any users, tenants, namespaces, page size, people and number of failures, from
`TenantsAssumption` (finitely many users, pages that hold at least 3scale's own two accounts,
starts with some of the users), `PeopleAssumption`
(finitely many people, numbered accounts) and `LoginsAssumption`, `AccountsProofs` shows:

| Theorem | States |
| --- | --- |
| `AccountsAreTyped` | `Spec => []TypeOK` |
| `OneTenantIsProvisioned` | `Spec => []OneTenantPerUser` |
| `NoSecondAccount` | `Spec => OneAccountPerUser` |
| `RecordedAccountsSurvive` | `Spec => RecordedAccountKept` |
| `UserAccountsStayUnique` | `Spec => [](which = "users" => Sync!TypeOK)` |
| `LoginSecretsAreGenerated` | `Spec => [](which = "logins" => Login!TypeOK)` |

* Tenants (`TenancyProofs`): `verifyAPIManagementTenant` accepts a tenant where no other in the
  user's two namespaces is (`StatusInv`). An account is created for a name that is not in the
  list the pass has read, so between the reading and the creation the list has the name of
  every account in use that was read (`ReadListed`). What was read is known by the accounts'
  ids, so these must be unique (`IdsUnique`): an account that is created later, or moves up in
  3scale's list, is not mistaken for one that was read. In between lies the loop of
  `reconcile3scaleMultiTenancy`, which ranges over the list and removes accounts from it. It
  is a function on the positions of the list (`Walk`), and its invariant (`LoopInv`) is
  proved by induction over them: as long as the loop does not run past the end of what is
  left of the list, what it removes is never the entry of an account in use. That every
  account in use was read is not claimed, and false (section 3).
* Users (`UsersInv`): names and ids of accounts are unique and no id is above the last one
  given (`AccountsUnique`), so an account that is added, renamed or recorded by id is the one
  that was meant. When the deletion begins, every KeycloakUser that could record an id is
  among those the pass has read (`ListedAreRead`): they only get fewer in between.
* Logins (`LoginsInv`): the Secret has all client secrets or none, and each time it lost them
  was a mishap (`GeneratedOnce`), which bounds what is generated; every copy anywhere is a
  secret that was generated or typed.

`SecretCustodyProofs` shows of the abstract specification that a live copy beside a saved
one equals it (`CopiesAgreeTheorem`), and so that saving again replaces nothing
(`NeverReplacedTheorem`, `Spec => NeverReplaced`). That `Products` implements it is
model-checked.

Only model-checked:

* the liveness properties, which are out of reach of TLAPS's step proofs;
* the properties of `Products` (`TypeOK`, `FinalizersServed`, `DataOutlivesWorkload` and the
  refinement `SecretsKept`), whose calls and starting cluster are computed by recursive
  operators, which the prover does not admit.

TLC checks the inductive invariants too: `IInv` of `Installation` and of `Subscription` are
invariants of runs, and `ControllersInv` and `AccountsInv` hold in every state of
`controllers` and `accounts`.

## 5. Not modelled

* Webhook registration: one `CreateOrUpdate` per configuration at start up. The effect of the
  deletion webhook is in `Installation`.
* Custom domain and SMTP settings: validation of parameters and one write of a secret, which
  decide contents only.
* Texts: alert rules, dashboards, Envoy resources, the templates of the observability stack,
  cloud resource strategies, quota tables, rate limits and the contents of the
  installation ConfigMap. That they are written, where and in which order is in `Products`.
* STS credentials and queries of the cluster: reads, whose failures are those of the
  preflight checks and of the bootstrap stage.
* The promotion and demotion of administrators and the groups in user SSO, of which only the
  calls are there; the group of developers the user controller keeps; the removal of a
  conflicting user by rhsso; `CheckCPUUsage`, which deletes a Keycloak pod by a metric.
* Custom informers and the wait for their caches, which is without a timeout. The fairness of
  a reconcile assumes that it returns.
* The backup executor that runs a CronJob, which only tests construct.
* Metrics and logging, which nothing in the operator reads back, and generated code.

Four places in the code deserve attention and lie outside what the models tell apart:

* `threescale/reconciler.go:680` rolls out `system-app` and `system-sidekiq` before the secret
  they read is written, and only logs the errors of the rollout.
* `threescale/reconciler.go:2395`: a rollout that fails after the service discovery config map
  was written is not repeated, since the next reconcile finds the map unchanged.
* `threescale/reconciler.go:407` looks at the phase of `reconcile3scaleMultiTenancy` only
  together with an error, so 3scale completes while new accounts wait for activation.
* `rhmi/bootstrapReconciler.go:721` dereferences `CustomSmtp` of the status when the deletion of
  the SMTP secret fails, also where it is nil.
