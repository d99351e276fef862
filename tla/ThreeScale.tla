---- MODULE ThreeScale ----
(* The calls of the reconciler of 3scale, in the order its Reconcile makes
   them.  mt is true for a multitenant installation.  A definition is the
   sequence of the calls of the function it is named after.

   No custom domain is configured and the namespace is the operator's to
   delete (not hive managed).  The users and the tenants of 3scale, their
   accounts and tokens are in modules UserSync and Tenancy: here their steps
   stand only for what they need of the cluster. *)
EXTENDS Keycloaks

APIManager == <<"3scale", "apimanager">>
Routes     == <<"3scale", "routes">>
\* the command that makes 3scale create the routes it has created before
Resync     == <<"3scale", "resync">>
SystemSeed == <<"3scale", "system-seed">>
SavedSeed  == <<"rhoam", "system-seed">>
\* the passwords and tokens 3scale's database got when it was filled
SeededWith == <<"cloud", "3scale-seed">>
EnvoyConfigs == <<"3scale", "envoyconfig">>
RateLimitService == <<"marin3r", "ratelimit">>

--------------------------------------------------------------------------------
\* Secrets, databases and storage.

restoreSystemSecrets == <<CopyIfAny(SavedSeed, SystemSeed)>>
backupSystemSecrets  == <<Copy(SystemSeed, SavedSeed)>>
CopyPullSecretToNameSpace == <<Copy(<<"rhoam", "pull-secret">>, <<"3scale", "pull-secret">>)>>
reconcileSubscription == SubscribeTo("3scale-operator")
reconcileSMTPCredentials == <<Write("3scale")>>

CloudResource(name) == <<"rhoam", name>>
\* The three are asked for before any of them is waited for.
RequestDatasources ==
    <<Make(CloudResource("backend-redis")), Make(CloudResource("system-redis")),
      Make(CloudResource("3scale-postgres")),
      Await(CloudResource("3scale-postgres"), Ready, "awaiting cloud resources")>>
\* The secret with which 3scale connects is written for each in turn.
ConnectRedises ==
    ReconcileRedisAlerts(CloudResource("backend-redis")) \o CreateRedisCpuUsageAlerts
    \o <<Write("3scale")>>
    \o ReconcileRedisAlerts(CloudResource("system-redis"))
    \o <<Write("3scale")>>
\* The URL is always the same here, and no job that has read another is deleted.
ConnectPostgres ==
    ReconcilePostgresAlerts(CloudResource("3scale-postgres")) \o <<Write("3scale")>>
reconcileExternalDatasources == RequestDatasources \o ConnectRedises \o ConnectPostgres
reconcileBlobStorage ==
    <<Make(CloudResource("blob-storage")),
      Await(CloudResource("blob-storage"), Ready, "awaiting components")>>
getBlobStorageFileStorageSpec ==
    <<Await(CloudResource("blob-storage"), Ready, "failed"), Write("3scale")>>

--------------------------------------------------------------------------------
\* 3scale itself.

routesExist_only == <<Await(Routes, Made, "in progress")>>
routesExist_resyncRoutes == <<Request(Routes, Resync)>>
reconcileComponents ==
    getBlobStorageFileStorageSpec
    \o <<Make(APIManager), Await(APIManager, Ready, "in progress")>>
    \o WriteConfig
    \o routesExist_resyncRoutes

\* the tokens in the seed, as 3scale accepts them
GetMasterToken == <<Login(SystemSeed, SeededWith)>>
GetAdminToken  == <<Login(SystemSeed, SeededWith)>>
getThreescaleRoute == <<Need(Routes)>>

ping3scalePortals == GetMasterToken \o <<Need(Routes)>>
reconcile3scaleMultiTenancy == GetMasterToken \o <<Write("3scale")>>
reconcileTenantOutgoingEmailAddress == getThreescaleRoute \o GetMasterToken
reconcileOutgoingEmailAddress == GetAdminToken \o reconcileTenantOutgoingEmailAddress
reconcileDeploymentEnvarEmailAddress == <<Await(APIManager, Ready, "failed")>>

getOauthClientSecret == <<Need(OauthClientSecrets)>>
\* The identity provider of 3scale is a client of rhsso's realm.
reconcileRHSSOIntegration ==
    <<Await(RealmConfig, Made, "in progress")>>
    \o getOauthClientSecret
    \o <<Make(<<"rhsso", "clients">>)>>
    \o GetAdminToken
reconcileOpenshiftUsers == <<Need(Users("rhsso"))>> \o GetAdminToken
ReconcileOauthClient == <<Make(OAuthClient("3scale"))>>
reconcileServiceDiscovery == <<Write("3scale"), Await(APIManager, Ready, "in progress")>>
reconcileRouteEditRole == <<Write("3scale")>>
reconcileRatelimitPortAnnotation == <<Make(APIManager)>>

createBackendListenerProxyService == <<Write("3scale"), Need(Routes)>>
CreateEnvoyProxyContainer == <<Await(APIManager, Ready, "awaiting components")>>
getRateLimitServiceCR == <<Need(RateLimitService)>>
reconcileRatelimitingTo3scaleComponents ==
    createBackendListenerProxyService
    \o CreateEnvoyProxyContainer \o CreateEnvoyProxyContainer \o CreateEnvoyProxyContainer
    \o getRateLimitServiceCR
    \o <<Make(EnvoyConfigs)>>
reconcileServiceMonitor == <<Write("3scale")>>
syncInvitationEmail == <<Await(APIManager, Ready, "in progress")>> \o GetAdminToken
ensureDeploymentsReady == <<Await(APIManager, Ready, "in progress")>>

ThreeScaleConsoleLink == <<"cluster", "3scale-console-link">>

--------------------------------------------------------------------------------
\* Reconcile.

ThreeScaleCleanup ==
    <<EnsureDeleted(EnvoyConfigs), EnsureDeleted(APIManager),
      EnsureDeleted(<<"3scale-operator", "subscription">>), EnsureDeleted(<<"3scale-operator", "csv">>),
      RemoveNamespace("3scale"), RemoveNamespace("3scale-operator")>>
    \o RemoveOauthClient("3scale")
    \o <<Mark(ThreeScaleConsoleLink)>>

\* From the namespaces to a 3scale that runs.
ThreeScaleDeploy ==
    ThreeScaleAlerts
    \o <<ReconcileNamespace("3scale-operator"), ReconcileNamespace("3scale")>>
    \o ReconcileLimitRange("3scale-operator") \o ReconcileLimitRange("3scale")
    \o restoreSystemSecrets
    \o CopyPullSecretToNameSpace
    \o reconcileSubscription
    \o reconcileSMTPCredentials
    \o WaitForRHSSOPostgresToBeComplete
    \o reconcileExternalDatasources
    \o reconcileBlobStorage
    \o reconcileComponents
    \o ping3scalePortals

\* From a 3scale that runs to one that its users log in to, and to one that is
\* limited.
ThreeScaleIntegrate(mt) ==
    (IF mt THEN reconcile3scaleMultiTenancy ELSE <<>>)
    \o reconcileOutgoingEmailAddress
    \o reconcileDeploymentEnvarEmailAddress \o reconcileDeploymentEnvarEmailAddress
    \o reconcileRHSSOIntegration
    \o (IF mt THEN <<>> ELSE reconcileOpenshiftUsers)
    \o getOauthClientSecret \o getThreescaleRoute \o ReconcileOauthClient
    \o reconcileServiceDiscovery
    \o backupSystemSecrets

ThreeScaleLimit(mt) ==
    reconcileRouteEditRole
    \o reconcileRatelimitPortAnnotation
    \o reconcileRatelimitingTo3scaleComponents
    \o ThreeScaleEnvoyAlerts
    \o reconcileServiceMonitor
    \o (IF mt THEN <<>> ELSE <<Make(ThreeScaleConsoleLink)>>)
    \o syncInvitationEmail
    \o ensureDeploymentsReady

ThreeScaleInstall(mt) == ThreeScaleDeploy \o ThreeScaleIntegrate(mt) \o ThreeScaleLimit(mt)
====
