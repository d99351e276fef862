---- MODULE Accounts ----
(* Who may log in where: the tenants of a multitenant installation, the users of a
   single-tenant one, and the secrets of the OAuth clients behind both.  A behaviour
   has one of the three run; pass is the operator's pass, mishaps counts what went
   wrong, and the other variables are those of the part that runs. *)
EXTENDS Naturals, Sequences, FiniteSets

CONSTANTS Users, Tenants, Starts, TenantName, Inside, PageSize, MaxAccounts, People,
          Lower(_), MaxId, TenantTrouble, UserEvents, LoginMishaps

\* A cluster has finitely many users, some of which are there at first, and a page of
\* 3scale's list holds at least 3scale's own two accounts; the ids of 3scale's accounts are
\* numbers, and so is what goes wrong with the logins.
ASSUME TenantsAssumption ==
    IsFiniteSet(Users) /\ PageSize \in Nat \ {0, 1} /\ \A s \in Starts : s.users \subseteq Users
ASSUME PeopleAssumption == IsFiniteSet(People) /\ MaxId \in Nat
ASSUME LoginsAssumption == LoginMishaps \in Nat

VARIABLES which, pass, mishaps, x1, x2, x3, x4, x5, x6, x7, x8, x9, x10

vars == <<which, pass, mishaps, x1, x2, x3, x4, x5, x6, x7, x8, x9, x10>>

Tenant == INSTANCE Tenancy WITH
    MaxTrouble <- TenantTrouble, trouble <- mishaps, present <- x1, annotated <- x2,
    ssoReady <- x3, status <- x4, accounts <- x5, tokens <- x6, created <- x7,
    secrets <- x8, keycloak <- x9, clients <- x10
Sync == INSTANCE UserSync WITH
    Users <- People, MaxEvents <- UserEvents, events <- mishaps, active <- x1,
    excluded <- x2, admins <- x3, kc <- x4, accounts <- x5, lastId <- x6
Login == INSTANCE OauthSecrets WITH
    MaxMishaps <- LoginMishaps, data <- x1, oauth <- x2, realm <- x3, idp <- x4,
    client <- x5, provider <- x6, generated <- x7

Init ==
    \/ which = "tenants" /\ Tenant!Init
    \/ which = "users" /\ Sync!Init /\ x7 = 0 /\ x8 = 0 /\ x9 = 0 /\ x10 = 0
    \/ which = "logins" /\ Login!Init /\ x8 = 0 /\ x9 = 0 /\ x10 = 0

InTenants == which = "tenants" /\ UNCHANGED which
InUsers   == which = "users" /\ UNCHANGED <<which, x7, x8, x9, x10>>
InLogins  == which = "logins" /\ UNCHANGED <<which, x8, x9, x10>>

Next ==
    \/ InTenants /\ Tenant!Next
    \/ InUsers /\ Sync!Next
    \/ InLogins /\ Login!Next

\* The operator's pass goes on in all three; the rest is the fairness of each part.
Fairness ==
    /\ []<><<pass' # pass>>_vars
    /\ WF_vars(InTenants /\ \E t \in Tenants : Tenant!ReconcileTenant(t))
    /\ WF_vars(InTenants /\ Tenant!SyncKeycloak) /\ WF_vars(InTenants /\ Tenant!Purge)
    /\ \A u \in People : WF_vars(InUsers /\ Sync!FinalizeUser(u))
    /\ \A p \in {"rhsso", "rhssouser"} : WF_vars(InLogins /\ Login!CreateRealm(p))

Spec == Init /\ [][Next]_vars /\ Fairness

--------------------------------------------------------------------------------
\* Type invariant.
TypeOK ==
    CASE which = "tenants" -> Tenant!TypeOK
      [] which = "users"   -> Sync!TypeOK
      [] which = "logins"  -> Login!TypeOK

\* Of the tenants in the two namespaces of a user at most one is provisioned
\* (verifyAPIManagementTenant).
OneTenantPerUser == which = "tenants" => Tenant!OneTenantPerUser

\* No user gets a second account in 3scale while the first one is in use and was in the
\* pages that the pass has read: not after a crash right after its creation, nor when
\* accounts are removed from the list while reconcile3scaleMultiTenancy walks over it.
OneAccountPerUser == [][which = "tenants" => Tenant!OneAccountPerUser]_vars

\* While the pages hold all accounts: every annotated user gets an account that is set up,
\* whatever fails on the way, but for the cases of AllConfigured (addAuthProviderToMTAccount).
AccountsConfigured == <>[](which = "tenants" => Tenant!Cut \/ Tenant!AllConfigured)

\* While the pages hold all accounts: the accounts of users that are no more are deleted
\* in the end (DeleteTenants).
OrphansDeleted == <>[](which = "tenants" => Tenant!Cut \/ Tenant!AllOwned)

\* While the pages hold all accounts: every tenant ends rejected or ready, but for the ways
\* it gets stuck in (reconcileTenantUrl).
TenantsSettle == <>[](which = "tenants" => Tenant!Cut \/ Tenant!AllServed)

\* Unless a read fails, the synchronisation of users (reconcileOpenshiftUsers) never
\* deletes an account whose id a KeycloakUser records, though it was renamed.
RecordedAccountKept == [][which = "users" => Sync!RecordedKept]_vars

\* After the last change and the last failure the users of OpenShift, Keycloak and
\* 3scale get in step, and so do the administrators.
UsersSettle == <>[](which = "users" => Sync!InStep)

\* After the last failure and the last intervention the logins work, as far as
\* LoginsWork says (reconcileOauthSecrets and the copies of the secrets).
LoginsSettle == <>[](which = "logins" => Login!LoginsWork)
====
