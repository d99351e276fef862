---- MODULE Platform ----
(* The calls of the reconcilers of what the products stand on: cloud resources,
   which asks the cloud provider for databases, marin3r, which limits the rate
   of requests to 3scale, and grafana, which shows it.  A definition is the
   sequence of the calls of the function it is named after. *)
EXTENDS ThreeScale

--------------------------------------------------------------------------------
\* Cloud resources.  The cluster does not use STS; the storage is the cloud's.

reconcileCloudResourceStrategies == <<Write("rhoam")>>
reconcileCIDRValue == <<Write("rhoam")>>
\* The reconcile ends once the list of updates changed, and only then.
addServiceUpdates(type) == <<Once(<<"rhoam", type \o "-service-updates">>)>>

removeSnapshots == <<Mark(<<"rhoam", "snapshots">>)>>
createDeletionStrategy == <<Write("rhoam")>>
\* Every request is deleted before any of them is waited for.
cleanupResources ==
    LET all == SetToSeq(CloudResources)
    IN [i \in DOMAIN all |-> Mark(all[i])] \o [i \in DOMAIN all |-> AwaitGone(all[i])]

CloudResourcesInstall ==
    <<ReconcileNamespace("cloud-resources-operator")>>
    \o ReconcileLimitRange("cloud-resources-operator")
    \o reconcileCloudResourceStrategies
    \o reconcileCIDRValue
    \o SubscribeTo("cloud-resources-operator")
    \o addServiceUpdates("redis") \o addServiceUpdates("postgres")
    \o CloudResourcesAlerts
    \o WriteConfig

\* Nothing is left to do once the namespace is gone.
CloudResourcesCleanup(s) ==
    IF Namespace("cloud-resources-operator") \notin DOMAIN s THEN <<>>
    ELSE removeSnapshots
         \o createDeletionStrategy
         \o cleanupResources
         \o <<EnsureDeleted(<<"cloud-resources-operator", "subscription">>),
              EnsureDeleted(<<"cloud-resources-operator", "csv">>),
              RemoveNamespace("cloud-resources-operator")>>

--------------------------------------------------------------------------------
\* marin3r.  Its discovery service lives in 3scale's namespace.

DiscoveryService == <<"3scale", "discoveryservice">>
reconcileDiscoveryService == <<Make(DiscoveryService)>>
deleteDiscoveryService    == <<Mark(DiscoveryService)>>
reconcileRedis ==
    <<Make(CloudResource("ratelimit-redis")),
      Await(CloudResource("ratelimit-redis"), Ready, "awaiting components"), Write("marin3r")>>
    \o ReconcileRedisAlerts(CloudResource("ratelimit-redis")) \o CreateRedisCpuUsageAlerts

reconcileConfigMap  == <<Write("marin3r")>>
reconcileDeployment == <<Write("marin3r")>>
reconcileService    == <<Make(RateLimitService)>>
ReconcileRateLimitService == reconcileConfigMap \o reconcileDeployment \o reconcileService

GrafanaRoute == <<"grafana", "route">>
\* The alerts link to a dashboard: they wait for grafana's route.
reconcileAlerts == <<Await(GrafanaRoute, Made, "in progress")>> \o ApiUsageAlerts

Marin3rCleanupHasty ==
    deleteDiscoveryService \o <<RemoveNamespace("marin3r"), RemoveNamespace("marin3r-operator")>>
Marin3rCleanup ==
    <<EnsureDeleted(EnvoyConfigs)>>
    \o deleteDiscoveryService
    \o <<RemoveNamespace("marin3r"), RemoveNamespace("marin3r-operator")>>

Marin3rInstall ==
    <<ReconcileNamespace("marin3r-operator"), ReconcileNamespace("marin3r")>>
    \o ReconcileLimitRange("marin3r-operator") \o ReconcileLimitRange("marin3r")
    \o SubscribeTo("marin3r-operator")
    \o reconcileDiscoveryService
    \o WaitForRHSSOPostgresToBeComplete
    \o reconcileRedis
    \o ReconcileRateLimitService
    \o <<Write("marin3r")>>
    \o Marin3rAlerts
    \o reconcileAlerts
    \o RejectedRequestsAlerts

--------------------------------------------------------------------------------
\* grafana.  Nothing in its reconciler creates its namespace.

GrafanaDeployment == <<"grafana", "deployment">>
GrafanaConsoleLink == <<"cluster", "grafana-console-link">>
reconcileSecrets == <<Write("grafana")>>
ReconcileGrafanaRateLimitDashboardConfigMap == <<Write("grafana")>>
ReconcileGrafanaDeployment == <<Make(GrafanaDeployment)>>
checkDeploymentStatus == <<Await(GrafanaDeployment, Ready, "in progress")>>
reconcileHost == <<Need(GrafanaRoute)>> \o WriteConfig
reconcileGrafanaConsoleLink(mt) == IF mt THEN <<>> ELSE <<Make(GrafanaConsoleLink)>>
deleteMonitoringOperatorNamespace == <<Mark(<<"cluster", "customer-monitoring-operator">>)>>

GrafanaCleanup == <<RemoveNamespace("grafana"), Mark(GrafanaConsoleLink)>>

GrafanaInstall(mt) ==
    reconcileSecrets
    \o ReconcileGrafanaRateLimitDashboardConfigMap
    \o ReconcileGrafanaDeployment
    \o checkDeploymentStatus
    \o WriteConfig
    \o removeGrafanaOperatorAlerts
    \o GrafanaAlerts
    \o reconcileHost
    \o reconcileGrafanaConsoleLink(mt)
    \o deleteMonitoringOperatorNamespace
====
