---- MODULE Keycloaks ----
(* The calls of the reconcilers of the two Keycloak servers: rhsso, which the
   cluster's users log in with, and user-sso, which belongs to the customer.
   Both are built from the steps of rhssocommon.  A definition is the sequence
   of the calls of the function it is named after; ns is the product's
   namespace, which the names of the other objects follow from.  Patches of an
   object that change nothing another step reads, such as the priority class of
   the operator's deployment, are left out. *)
EXTENDS Alerts

OperatorOf(ns)       == ns \o "-operator"
Database(ns)         == <<"rhoam", ns \o "-postgres">>
Keycloak(ns)         == <<ns, "keycloak">>
Realm(ns)            == <<ns, "realm">>
Users(ns)            == <<ns, "users">>
OAuthClient(ns)      == <<"cluster", ns \o "-oauth-client">>
Credentials(ns)      == <<ns, "credential">>
SavedCredentials(ns) == <<"rhoam", "credential-" \o ns>>
\* the password the server's database got when the server first started
AdminPassword(ns)    == <<"cloud", ns \o "-admin-password">>
OauthClientSecrets   == <<"rhoam", "oauth-client-secrets">>

--------------------------------------------------------------------------------
\* Steps of pkg/resources that the products share.

ReconcileLimitRange(n) == <<Write(n)>>
WriteConfig == <<Write("rhoam")>>
\* A reconcile goes on once the release is installed (module Subscription).
SubscribeTo(n) == <<Make(<<n, "subscription">>), Await(<<n, "csv">>, Made, "in progress")>>
WaitForRHSSOPostgresToBeComplete == <<Await(Database("rhsso"), Ready, "awaiting components")>>
ReconcileSecretToProductNamespaceSkipped(ns) == <<>>
ReconcileSecretToProductNamespace(ns)      == <<CopyIfAny(SavedCredentials(ns), Credentials(ns))>>
ReconcileSecretToRHMIOperatorNamespace(ns) == <<Copy(Credentials(ns), SavedCredentials(ns))>>
AddOwnerRefToSSOSecret(ns)                 == <<Need(Credentials(ns))>>
ReconcileRHSSOPostgresCredentials(ns) ==
    <<Make(Database(ns)), Await(Database(ns), Ready, "awaiting cloud resources"), Write(ns)>>
RemoveOauthClient(ns) == <<Mark(OAuthClient(ns))>>

--------------------------------------------------------------------------------
\* Steps of rhssocommon.

ReconcileCloudResources(ns) == ReconcileRHSSOPostgresCredentials(ns) \o ReconcilePostgresAlerts(Database(ns))
ReconcileSubscription(ns)   == SubscribeTo(OperatorOf(ns))
ReconcileOperatorMetricsService(ns) == <<Write(OperatorOf(ns))>>
\* The API server names the host when the route is created.
CreateKeycloakRoute(ns) == <<Write(ns)>> \o WriteConfig
SetupOpenshiftIDP(ns)   == <<Need(OauthClientSecrets), Make(OAuthClient(ns))>>
\* The server answers when it runs and takes the password in the secret.
AuthenticatedClient(ns) ==
    <<Await(Keycloak(ns), Ready, "failed"), Login(Credentials(ns), AdminPassword(ns))>>
SyncOpenshiftIDPClientSecret(ns) == <<Need(OauthClientSecrets), Await(Realm(ns), Ready, "failed")>>
ReconcilePodDisruptionBudget(ns) == <<Write(ns)>>
\* The stateful set is patched if the Keycloak operator has made it.
ReconcileStatefulSet(ns) == <<Await(Keycloak(ns), Ready, "in progress")>>
exportConfig(ns) == <<Need(Keycloak(ns))>>
HandleProgressPhase(ns) ==
    <<Need(Keycloak(ns))>> \o WriteConfig
    \o <<Need(Realm(ns)), Await(Realm(ns), Ready, "in progress")>> \o exportConfig(ns)
RemovePodMonitors(ns) == <<Mark(<<ns, "pod-monitor">>)>>
\* The rules that are exported are written by the Keycloak operator.
ExportAlerts(ns) == <<Await(Keycloak(ns), Ready, "failed"), Write("obo")>>

\* Users and clients go first, while the operator that takes off their
\* finalizers still runs; the finalizers of the realm are taken off here.
CleanupKeycloakResources(ns) ==
    <<Mark(Users(ns)), Mark(<<ns, "clients">>),
      AwaitGone(Users(ns)), AwaitGone(<<ns, "clients">>), Strip(Realm(ns))>>

--------------------------------------------------------------------------------
\* rhsso.

\* The credentials are the dummy ones of bootstrap: no identity provider is
\* updated.
setupGithubIDP == <<Need(<<"rhoam", "github-oauth-secret">>)>>
createAuthDelayAuthenticationFlow == <<Await(Realm("rhsso"), Ready, "failed")>>
createOrUpdateKeycloakUser == <<Make(Users("rhsso"))>>
\* what the other products read of rhsso in the configuration
RealmConfig == <<"rhoam", "rhsso-realm">>

RhssoComponents(multitenant) ==
    <<Make(Keycloak("rhsso"))>>
    \o AddOwnerRefToSSOSecret("rhsso")
    \o SetupOpenshiftIDP("rhsso")
    \o (IF multitenant THEN <<>> ELSE setupGithubIDP)
    \o <<Make(Realm("rhsso"))>>
    \o AuthenticatedClient("rhsso")
    \o createAuthDelayAuthenticationFlow
    \o SyncOpenshiftIDPClientSecret("rhsso")
    \o createOrUpdateKeycloakUser
    \o ReconcilePodDisruptionBudget("rhsso")

RhssoCleanup ==
    CleanupKeycloakResources("rhsso")
    \o <<RemoveNamespace("rhsso"), RemoveNamespace("rhsso-operator")>>
    \o RemoveOauthClient("rhsso")
    \o <<AwaitGone(Namespace("rhsso-operator")), AwaitGone(Namespace("rhsso"))>>

RhssoInstall(multitenant) ==
    <<ReconcileNamespace("rhsso"), ReconcileNamespace("rhsso-operator")>>
    \o ReconcileLimitRange("rhsso-operator") \o ReconcileLimitRange("rhsso")
    \o ReconcileSecretToProductNamespace("rhsso")
    \o ReconcileSubscription("rhsso")
    \o ReconcileOperatorMetricsService("rhsso")
    \o CreateKeycloakRoute("rhsso")
    \o ReconcileCloudResources("rhsso")
    \o RhssoComponents(multitenant)
    \o ReconcileStatefulSet("rhsso")
    \o HandleProgressPhase("rhsso")
    \o <<Make(RealmConfig)>>
    \o RemovePodMonitors("rhsso")
    \o ReconcileSecretToRHMIOperatorNamespace("rhsso")
    \o RhssoAlerts
    \o ExportAlerts("rhsso")

--------------------------------------------------------------------------------
\* user-sso.  Its realm is the master realm, which the server brings along: the
\* resource only stands for it.

updateMasterRealm == SetupOpenshiftIDP("user-sso") \o <<Make(Realm("user-sso"))>>
reconcileBrowserAuthFlow    == AuthenticatedClient("user-sso")
reconcileFirstLoginAuthFlow == AuthenticatedClient("user-sso")
reconcileGroups == AuthenticatedClient("user-sso") \o WriteConfig
\* A user is put into its groups by the identifier it has in Keycloak.
reconcileGroupMembership == <<Await(Users("user-sso"), Ready, "failed")>>
reconcileAdminUsers == <<Make(Users("user-sso"))>> \o reconcileGroupMembership
ConsoleLink == <<"cluster", "user-sso-console-link">>
reconcileConsoleLink == <<Make(ConsoleLink)>>
deleteConsoleLink    == <<Mark(ConsoleLink)>>

UserSsoComponents ==
    <<Make(Keycloak("user-sso"))>>
    \o AddOwnerRefToSSOSecret("user-sso")
    \o updateMasterRealm
    \o AuthenticatedClient("user-sso")
    \o reconcileBrowserAuthFlow \o reconcileFirstLoginAuthFlow
    \o reconcileGroups \o reconcileAdminUsers
    \o ReconcilePodDisruptionBudget("user-sso")

UserSsoCleanup ==
    CleanupKeycloakResources("user-sso")
    \o <<RemoveNamespace("user-sso"), RemoveNamespace("user-sso-operator")>>
    \o RemoveOauthClient("user-sso") \o deleteConsoleLink

UserSsoInstall ==
    <<ReconcileNamespace("user-sso-operator"), ReconcileNamespace("user-sso")>>
    \o ReconcileLimitRange("user-sso-operator") \o ReconcileLimitRange("user-sso")
    \o ReconcileSecretToProductNamespace("user-sso")
    \o ReconcileSubscription("user-sso")
    \o ReconcileOperatorMetricsService("user-sso")
    \o CreateKeycloakRoute("user-sso")
    \o WaitForRHSSOPostgresToBeComplete
    \o ReconcileCloudResources("user-sso")
    \o UserSsoComponents
    \o ReconcileStatefulSet("user-sso")
    \o HandleProgressPhase("user-sso")
    \o WriteConfig
    \o ReconcileSecretToRHMIOperatorNamespace("user-sso")
    \o UserSsoAlerts
    \o RemovePodMonitors("user-sso")
    \o reconcileConsoleLink
    \o ExportAlerts("user-sso")
====
