---- MODULE Alerts ----
(* The alert rules that the products' reconcilers write, as calls.  What a rule
   says is data; what counts here is how many writes a function makes, into
   which namespace, and what it waits for between them. *)
EXTENDS Cluster

\* A rule of a cloud resource goes to the namespace of the observability stack.
reconcilePrometheusRule == <<Write("obo")>>

\* A product hands over its rule groups, each of them one object in namespace n.
reconcileRule(n) == Write(n)
ReconcileAlerts(n, groups) == [i \in 1..groups |-> reconcileRule(n)]

--------------------------------------------------------------------------------
\* The rules of a Postgres, cr.  Only some of them do not wait for it.

createPostgresResourceStatusPhaseFailedAlert    == reconcilePrometheusRule
createPostgresResourceDeletionStatusFailedAlert == reconcilePrometheusRule
createPostgresResourceStatusPhasePendingAlert   == reconcilePrometheusRule
createPostgresAvailabilityAlert                 == reconcilePrometheusRule
createPostgresConnectivityAlert                 == reconcilePrometheusRule
\* full in four hours, full in four days, and low
reconcilePostgresFreeStorageAlerts ==
    reconcilePrometheusRule \o reconcilePrometheusRule \o reconcilePrometheusRule
reconcilePostgresFreeableMemoryAlert  == reconcilePrometheusRule
reconcilePostgresCPUUtilizationAlerts == reconcilePrometheusRule

ReconcilePostgresAlerts(cr) ==
    createPostgresResourceStatusPhaseFailedAlert
    \o createPostgresResourceDeletionStatusFailedAlert
    \o <<Await(cr, Ready, "awaiting components")>>
    \o createPostgresResourceStatusPhasePendingAlert
    \o createPostgresAvailabilityAlert
    \o createPostgresConnectivityAlert
    \o createPostgresResourceDeletionStatusFailedAlert
    \o reconcilePostgresFreeStorageAlerts
    \o reconcilePostgresFreeableMemoryAlert
    \o reconcilePostgresCPUUtilizationAlerts

--------------------------------------------------------------------------------
\* The rules of a Redis, cr.

createRedisResourceStatusPhaseFailedAlert    == reconcilePrometheusRule
createRedisResourceDeletionStatusFailedAlert == reconcilePrometheusRule
createRedisResourceStatusPhasePendingAlert   == reconcilePrometheusRule
createRedisAvailabilityAlert                 == reconcilePrometheusRule
createRedisConnectivityAlert                 == reconcilePrometheusRule
\* high, at its limit in four hours, and in four days
createRedisMemoryUsageAlerts ==
    reconcilePrometheusRule \o reconcilePrometheusRule \o reconcilePrometheusRule
CreateRedisCpuUsageAlerts           == reconcilePrometheusRule
CreateRedisServiceMaintenanceAlerts == reconcilePrometheusRule

ReconcileRedisAlerts(cr) ==
    createRedisResourceStatusPhaseFailedAlert
    \o createRedisResourceDeletionStatusFailedAlert
    \o <<Await(cr, Ready, "awaiting components")>>
    \o createRedisResourceStatusPhasePendingAlert
    \o createRedisAvailabilityAlert
    \o createRedisConnectivityAlert
    \o createRedisMemoryUsageAlerts
    \o CreateRedisCpuUsageAlerts
    \o CreateRedisServiceMaintenanceAlerts

--------------------------------------------------------------------------------
\* The rule groups of the products.

RhssoAlerts   == ReconcileAlerts("obo", 4)
UserSsoAlerts == ReconcileAlerts("obo", 4)
ThreeScaleAlerts      == ReconcileAlerts("obo", 6)
ThreeScaleEnvoyAlerts == ReconcileAlerts("obo", 1)
\* A rule on the snapshots of the Redis instances joins the first group.
CloudResourcesAlerts  == ReconcileAlerts("obo", 2)
Marin3rAlerts          == ReconcileAlerts("obo", 4)
RejectedRequestsAlerts == ReconcileAlerts("obo", 1)
\* one group for each alert configured, here one spike and one threshold
ApiUsageAlerts == ReconcileAlerts("obo", 2)
GrafanaAlerts  == ReconcileAlerts("grafana", 2)
\* rules an earlier release had left behind
removeGrafanaOperatorAlerts ==
    <<Mark(<<"cluster", "ksm-grafana-alerts">>), Mark(<<"cluster", "ksm-endpoint-alerts">>)>>
====
