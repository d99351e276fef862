---- MODULE Tenancy ----
(* The tenants of a multitenant installation.  A user of the cluster asks for a
   tenant with an APIManagementTenant resource in a namespace of its own.  The
   tenant controller annotates the user, the 3scale reconciler gives every
   annotated user an account and sets it up, and the controller reports the
   tenant ready once the account is.  The two run side by side, the cluster's
   administrator creates and deletes users at any time, and requests to 3scale
   fail.

   Accounts, tokens and clients go by the tenant name of a user, which is the
   user's name in lower case with every run of other characters than letters and
   digits made one dash; two users can have the same.  A name is the sequence of its
   parts between dashes: user bob--k is <<"bob", "", "k">>, namespace ann-stage-dev is
   <<"ann", "stage", "dev">>. *)
EXTENDS Naturals, Sequences, FiniteSetsExt

CONSTANTS
    Users,
    Tenants,      \* resources, as pairs of a namespace and a name
    Starts,       \* the users and resources there are at first, and the trouble there was
    TenantName,   \* the tenant name of each user: SanitiseTenantUserName
    Inside,       \* the pairs of a name and a tenant name that contains it
    PageSize,     \* accounts per page of 3scale's list
    MaxAccounts,  \* bound on accounts: 3scale refuses to create more
    MaxTrouble    \* bound on failing requests, crashes, accounts that break, and
                  \* users and resources that are created or deleted

Names == {TenantName[u] : u \in Users}

VARIABLES
    present,    \* users of the cluster
    annotated,  \* users with the annotation tenant
    ssoReady,   \* users with the annotation ssoReady
    status,     \* provisioning status of the tenants
    accounts,   \* the accounts of 3scale, oldest first
    tokens,     \* stored access tokens: the account it is for, or 0
    created,    \* config map tenants-created
    secrets,    \* tenants with an OAuth client secret
    keycloak,   \* users whose KeycloakUser is reconciled, as <<"user", u>>, clients as <<"client", n>>
    clients,    \* KeycloakClients
    pass,       \* where the pass of the operator is, the users and accounts it works on,
                \* and the ids of the accounts it was given (for OneAccountPerUser only)
    trouble     \* how much of it there was

users     == <<present, annotated, ssoReady>>
threeScale == <<accounts, tokens, created>>
sso       == <<secrets, keycloak, clients>>
vars      == <<users, status, threeScale, sso, pass, trouble>>

Trouble(n) == trouble + n <= MaxTrouble /\ trouble' = trouble + n

\* UserAnnotated and ThreeScaleAccountRequested are told apart nowhere: "accepted".
Accepted == {"accepted", "ready"}
Idle     == [at |-> "idle", users |-> {}, list |-> <<>>, read |-> {}]

Init ==
    /\ \E s \in Starts :
         /\ present = s.users /\ trouble = s.trouble
         /\ status = [t \in Tenants |-> IF t \in s.tenants THEN "" ELSE "absent"]
    /\ annotated = {} /\ ssoReady = {}
    /\ accounts = <<>> /\ tokens = [n \in Names |-> 0] /\ created = {}
    /\ secrets = {} /\ keycloak = {} /\ clients = {}
    /\ pass = Idle

--------------------------------------------------------------------------------
\* The tenant controller.

HasSuffix(name, s)  == Len(name) > 1 /\ name[Len(name)] = s
TrimSuffix(name, s) == IF HasSuffix(name, s) THEN SubSeq(name, 1, Len(name) - 1) ELSE name
getUserByTenantNamespace(ns) == TrimSuffix(TrimSuffix(ns, "dev"), "stage")
namespacesToCheck(u) == {Append(u, "dev"), Append(u, "stage")}

UserOf(t) == getUserByTenantNamespace(t[1])
NoneAccepted(u) == \A o \in Tenants : status[o] \in Accepted => o[1] \notin namespacesToCheck(u)

\* Mutants: the user is not looked up; the user's other tenants are not.
verifyWithoutUser(t) == status[t] \in Accepted \/ NoneAccepted(UserOf(t))
verifyWithoutOthers(t) == status[t] \in Accepted \/ UserOf(t) \in present

\* Only a tenant without an accepted status is verified.
verifyAPIManagementTenant(t) ==
    \/ status[t] \in Accepted
    \/ /\ HasSuffix(t[1], "dev") \/ HasSuffix(t[1], "stage")
       /\ UserOf(t) \in present
       /\ NoneAccepted(UserOf(t))

\* 3scale has a route for each account; it is found by the user's name.
InUse == {i \in DOMAIN accounts : accounts[i].state = "approved"}
RouteFound(u) == \E i \in InUse : <<u, accounts[i].org>> \in Inside

\* Mutant: a tenant that was looked at is not looked at again.
reconcileTenantUrlOnce(t) ==
    IF status[t] \notin Accepted /\ UserOf(t) \in present
    THEN IF UserOf(t) \in ssoReady /\ RouteFound(UserOf(t)) THEN "ready" ELSE "accepted"
    ELSE status[t]

reconcileTenantUrl(t) ==
    IF status[t] # "ready" /\ UserOf(t) \in present
    THEN IF UserOf(t) \in ssoReady /\ RouteFound(UserOf(t)) THEN "ready" ELSE "accepted"
    ELSE status[t]

\* A tenant without a status gets one when its user is annotated; what follows in the
\* function is the step for the others.  It is an error that there are no routes at all,
\* not even 3scale's own.
ReconcileTenant(t) ==
    /\ status[t] # "absent"
    /\ IF ~verifyAPIManagementTenant(t)
       THEN status' = [status EXCEPT ![t] = "wont provision"] /\ UNCHANGED annotated
       ELSE IF status[t] = ""
       THEN status' = [status EXCEPT ![t] = "accepted"] /\ annotated' = annotated \union {UserOf(t)}
       ELSE /\ \/ status' = [status EXCEPT ![t] = reconcileTenantUrl(t)]
               \/ InUse = {} /\ UNCHANGED status
            /\ UNCHANGED annotated
    /\ UNCHANGED <<present, ssoReady, threeScale, sso, pass, trouble>>

\* The user is annotated and the update of the tenant fails.
addAnnotationToUser(t) ==
    /\ status[t] = "" /\ verifyAPIManagementTenant(t)
    /\ Trouble(1)
    /\ annotated' = annotated \union {UserOf(t)}
    /\ UNCHANGED <<present, ssoReady, status, threeScale, sso, pass>>

--------------------------------------------------------------------------------
\* Bootstrap, which the operator reconciles before 3scale in every pass.

GetMultiTenantUsers == annotated
reconcileTenantOauthSecrets ==
    /\ pass = Idle
    /\ secrets' = {TenantName[u] : u \in GetMultiTenantUsers}
    /\ pass' = [Idle EXCEPT !.at = "list"]
    /\ UNCHANGED <<users, status, threeScale, keycloak, clients, trouble>>

--------------------------------------------------------------------------------
(* The 3scale reconciler: the users and accounts are read, the accounts in the
   list are set up one after the other, and then accounts are created and
   deleted by what was read. *)

\* One page more than the whole pages the users fill, and at least two.  The first
\* places hold 3scale's own two accounts, which are left out of what was read.
Pages(n) == (IF n > PageSize THEN n \div PageSize ELSE 1) + 1
Places == Pages(Cardinality(GetMultiTenantUsers)) * PageSize - 2
ListTenantAccounts ==
    /\ pass.at = "list"
    /\ LET m == IF Places < Len(accounts) THEN Places ELSE Len(accounts)
       IN pass' = [at |-> "accounts", users |-> GetMultiTenantUsers,
                   list |-> SubSeq(accounts, 1, m), read |-> {accounts[i].id : i \in 1 .. m}]
    /\ UNCHANGED <<users, status, threeScale, sso, trouble>>

\* The requests on behalf of an account, in order; the reconciler goes on to
\* the next account at the first that fails.
Requests == <<"activate", "client", "provider", "annotate", "link", "mark">>

With(w, id, field) ==
    [w EXCEPT !.accounts = [i \in DOMAIN w.accounts |->
        IF w.accounts[i].id = id THEN [w.accounts[i] EXCEPT ![field] = TRUE] ELSE w.accounts[i]]]
HasProvider(w, id) == \E i \in DOMAIN w.accounts : w.accounts[i].id = id /\ w.accounts[i].provider

\* Mutant: an account with a client counts as set up.
addAuthProviderToMTAccountOnce(a, w) ==
    IF a.org \in w.clients THEN w
    ELSE With([w EXCEPT !.clients = @ \union {a.org}], a.id, "provider")

addAuthProviderToMTAccount(a, w) ==
    IF HasProvider(w, a.id) THEN w
    ELSE With([w EXCEPT !.clients = @ \union {a.org}], a.id, "provider")
SsoIsReady(n) ==
    /\ <<"user", n>> \in keycloak
    /\ \E c \in clients : <<n, c>> \in Inside /\ <<"client", c>> \in keycloak

\* What an approved account a gets when its requests from `fails` on fail.
SetUp(a, w, fails) ==
    LET does(request) == \A i \in DOMAIN Requests : Requests[i] = request => i < fails
        active   == IF does("activate") THEN With(w, a.id, "active") ELSE w
        authorised == tokens[a.org] = a.id
        known    == HasProvider(w, a.id) \/ a.org \in secrets
        client   == IF HasProvider(w, a.id) THEN active
                    ELSE [active EXCEPT !.clients = @ \union {a.org}]
        provider == addAuthProviderToMTAccount(a, active)
        ready    == [provider EXCEPT !.ssoReady = @ \union {a.org}]
    IN IF ~a.active /\ ~does("activate") THEN w
       ELSE IF ~authorised \/ ~known \/ ~does("client") THEN active
       ELSE IF ~does("provider") THEN client
       ELSE IF ~SsoIsReady(a.org) \/ ~does("annotate") \/ a.org \notin present THEN provider
       ELSE IF ~does("link") \/ ~does("mark") THEN ready
       ELSE [ready EXCEPT !.created = @ \union {a.org}]

\* 3scale deletes an account later.
Scheduled(w, id) ==
    [w EXCEPT !.accounts = [i \in DOMAIN w.accounts |->
        IF w.accounts[i].id = id THEN [w.accounts[i] EXCEPT !.state = "scheduled"] ELSE w.accounts[i]]]

\* Mutant: a broken account keeps its place, and the one after it loses its own.
WithoutNext(array, i, n) ==
    [j \in DOMAIN array |-> IF i < j /\ j < n THEN array[j + 1] ELSE array[j]]

\* The i-th of the first n entries is removed: the others move up, the last entry stays.
Without(array, i, n) ==
    [j \in DOMAIN array |-> IF i <= j /\ j < n THEN array[j + 1] ELSE array[j]]

\* The loop ranges over the array of the list, from which broken accounts are
\* removed on the way; an entry read beyond the end of the shortened list is a panic.
Visit(loop, i, fails) ==
    LET a == loop.array[i]
        w == loop.w
        up == SetUp(a, w, fails[a.id])
    IN IF loop.over \/ a.org \in w.created \/ a.state = "scheduled" THEN loop
       ELSE IF a.state = "approved"
       THEN [loop EXCEPT !.w = up,
                         !.over = fails[a.id] = Len(Requests) /\ a.org \in up.ssoReady]
       ELSE [w     |-> IF fails[a.id] = 1 THEN w ELSE Scheduled(w, a.id),
             over  |-> i > loop.len,
             array |-> Without(loop.array, i, loop.len),
             len   |-> loop.len - 1]

\* What the loop has come to at each position of the list.
Walk(begin, fails) ==
    LET loop[i \in 0 .. Len(pass.list)] == IF i = 0 THEN begin ELSE Visit(loop[i - 1], i, fails)
    IN  loop

\* At most one account has a failing request in a pass.
Fails(id, k) == [j \in {pass.list[i].id : i \in DOMAIN pass.list} |->
                    IF j = id THEN k ELSE Len(Requests) + 1]
reconcileAccounts ==
    /\ pass.at = "accounts"
    /\ \E id \in {0} \union {pass.list[i].id : i \in DOMAIN pass.list}, k \in DOMAIN Requests :
         /\ IF id = 0 THEN k = 1 /\ Trouble(0)
            ELSE Trouble(1)
         /\ LET begin == [w |-> [accounts |-> accounts, clients |-> clients,
                                 ssoReady |-> ssoReady, created |-> created],
                          array |-> pass.list, len |-> Len(pass.list), over |-> FALSE]
                end == Walk(begin, Fails(id, k))[Len(pass.list)]
            IN /\ accounts' = end.w.accounts /\ clients' = end.w.clients
               /\ ssoReady' = end.w.ssoReady /\ created' = end.w.created
               /\ pass' = IF end.over THEN Idle
                          ELSE [pass EXCEPT !.at = "create", !.list = SubSeq(end.array, 1, end.len)]
    /\ UNCHANGED <<present, annotated, status, tokens, secrets, keycloak>>

\* Mutant: only accounts that were set up are deleted.
getReadyMTAccountsToBeDeleted ==
    SelectSeq(pass.list, LAMBDA a : a.org \in created /\ a.org \notin {TenantName[u] : u \in pass.users})

ListedOrgs == {pass.list[i].org : i \in DOMAIN pass.list}
\* One for each user, also of users with the same tenant name.
getMTAccountsToBeCreated ==
    LET new == {u \in pass.users : TenantName[u] \notin ListedOrgs}
    IN  CHOOSE order \in Injection(1 .. Cardinality(new), new) : TRUE
getMTAccountsToBeDeleted ==
    SelectSeq(pass.list, LAMBDA a : a.org \notin {TenantName[u] : u \in pass.users})

NextId == 1 + Max({0} \union {accounts[i].id : i \in DOMAIN accounts} \union {tokens[n] : n \in Names})
CreateTenant(u, id) ==
    [id |-> id, user |-> u, org |-> TenantName[u], state |-> "approved",
     active |-> FALSE, provider |-> FALSE]

\* 3scale may refuse a second account of an organisation, and refuses one too many.
MayRefuse(n, before) ==
    Len(before) = MaxAccounts \/ \E i \in DOMAIN before : before[i].org = n

\* The first m accounts are created.  Then a request is refused or fails, or the operator
\* stops before it has stored the last token.
createTenants ==
    /\ pass.at = "create"
    /\ LET new == getMTAccountsToBeCreated
       IN \E m \in 0..Len(new), stored \in BOOLEAN :
            /\ Len(accounts) + m <= MaxAccounts
            /\ accounts' = accounts \o [i \in 1..m |-> CreateTenant(new[i], NextId + i - 1)]
            /\ tokens' = [n \in Names |->
                 LET mine == {i \in 1..m : TenantName[new[i]] = n /\ (i < m \/ stored)}
                 IN  IF mine = {} THEN tokens[n] ELSE NextId - 1 + Max(mine)]
            /\ IF m = Len(new) /\ stored
               THEN pass' = [pass EXCEPT !.at = "delete"] /\ Trouble(0)
               ELSE /\ pass' = Idle
                    /\ \/ Trouble(1)
                       \/ m < Len(new) /\ stored /\ MayRefuse(TenantName[new[m + 1]], accounts') /\ Trouble(0)
    /\ UNCHANGED <<users, status, created, sso>>

\* A deletion that succeeds ends the pass with an error; after one that fails,
\* as it does for an account that is scheduled already, the next is tried.
Deletable(id) == \E i \in DOMAIN accounts : accounts[i].id = id /\ accounts[i].state # "scheduled"
DeleteTenants ==
    /\ pass.at = "delete"
    /\ LET ids == [i \in DOMAIN getMTAccountsToBeDeleted |-> getMTAccountsToBeDeleted[i].id]
           tried == SelectSeq(ids, Deletable)
       IN \E refused \in 0..Len(tried) :
            /\ Trouble(refused)
            /\ accounts' = [i \in DOMAIN accounts |->
                 IF refused < Len(tried) /\ accounts[i].id = tried[refused + 1]
                 THEN [accounts[i] EXCEPT !.state = "scheduled"] ELSE accounts[i]]
    /\ pass' = Idle
    /\ UNCHANGED <<users, status, tokens, created, sso>>

--------------------------------------------------------------------------------
\* The others.

\* A user that comes back is a new object, without annotations.  The user's
\* tenants go with the user or stay.
CreateUser(u) ==
    /\ Trouble(1) /\ u \notin present
    /\ present' = present \union {u}
    /\ UNCHANGED <<annotated, ssoReady, status, threeScale, sso, pass>>
DeleteUser(u) ==
    /\ Trouble(1) /\ u \in present
    /\ present' = present \ {u} /\ annotated' = annotated \ {u} /\ ssoReady' = ssoReady \ {u}
    /\ status' \in {status, [t \in Tenants |-> IF UserOf(t) = u THEN "absent" ELSE status[t]]}
    /\ UNCHANGED <<threeScale, sso, pass>>
CreateTenantResource(t) ==
    /\ Trouble(1) /\ status[t] = "absent"
    /\ status' = [status EXCEPT ![t] = ""]
    /\ UNCHANGED <<users, threeScale, sso, pass>>
DeleteTenantResource(t) ==
    /\ Trouble(1) /\ status[t] # "absent"
    /\ status' = [status EXCEPT ![t] = "absent"]
    /\ UNCHANGED <<users, threeScale, sso, pass>>
BreakAccount(i) ==
    /\ Trouble(1) /\ accounts[i].state = "approved"
    /\ accounts' = [accounts EXCEPT ![i].state = "broken"]
    /\ UNCHANGED <<users, status, tokens, created, sso, pass>>
\* 3scale removes an account some time after its deletion.
PurgeAccount(i) ==
    /\ accounts[i].state = "scheduled"
    /\ accounts' = SubSeq(accounts, 1, i - 1) \o SubSeq(accounts, i + 1, Len(accounts))
    /\ UNCHANGED <<users, status, tokens, created, sso, pass, trouble>>
Purge == \E i \in DOMAIN accounts : PurgeAccount(i)
\* rhsso has the users of the cluster (module UserSync) and the clients.
SyncKeycloak ==
    /\ keycloak' = {<<"user", u>> : u \in present} \union {<<"client", n>> : n \in clients}
    /\ UNCHANGED <<users, status, threeScale, secrets, clients, pass, trouble>>

Next ==
    \/ \E t \in Tenants :
         \/ ReconcileTenant(t) \/ addAnnotationToUser(t)
         \/ CreateTenantResource(t) \/ DeleteTenantResource(t)
    \/ reconcileTenantOauthSecrets
    \/ ListTenantAccounts \/ reconcileAccounts \/ createTenants \/ DeleteTenants
    \/ \E u \in Users : CreateUser(u) \/ DeleteUser(u)
    \/ \E i \in DOMAIN accounts : BreakAccount(i)
    \/ Purge
    \/ SyncKeycloak

\* The controllers requeue their resources; the operator's pass goes on, and
\* only its own steps change pass.
Fairness ==
    /\ WF_vars(\E t \in Tenants : ReconcileTenant(t))
    /\ WF_vars(SyncKeycloak)
    /\ []<><<pass' # pass>>_vars
    /\ WF_vars(Purge)

Spec == Init /\ [][Next]_vars /\ Fairness

--------------------------------------------------------------------------------
\* Type invariant.
TypeOK ==
    /\ annotated \subseteq present /\ ssoReady \subseteq present /\ present \subseteq Users
    /\ status \in [Tenants -> {"absent", "", "wont provision"} \union Accepted]
    /\ \A i \in DOMAIN accounts :
         /\ accounts[i].user \in Users /\ accounts[i].org = TenantName[accounts[i].user]
         /\ accounts[i].state \in {"approved", "broken", "scheduled"}
    /\ created \subseteq Names /\ clients \subseteq Names /\ secrets \subseteq Names
    /\ pass.at \in {"idle", "list", "accounts", "create", "delete"}

\* Of the tenants in the two namespaces of a user at most one is provisioned.  (One in
\* ann-stage-dev counts as the user ann's, and is in neither of the two.)
OneTenantPerUser ==
    \A t, o \in Tenants :
        /\ UserOf(t) = UserOf(o) /\ {t[1], o[1]} \subseteq namespacesToCheck(UserOf(t))
        /\ status[t] \in Accepted /\ status[o] \in Accepted
        => t = o

\* No user gets a second account while the first one is in use, if that one was in the
\* pages that were read: not after a crash right after its creation, a lost token, or
\* accounts that are removed from the list while the loop walks over it.
OneAccountPerUser ==
    \A j \in Len(accounts) + 1 .. Len(accounts') : \A i \in InUse :
        accounts'[j].user = accounts[i].user => accounts[i].id \notin pass.read

\* There are more accounts than the pages hold that the operator asks for.
Cut == Len(accounts) > Places

Configured(n) == \E i \in InUse :
    accounts[i].org = n /\ accounts[i].active /\ accounts[i].provider

\* The access token of an account in use is not the one that is stored.
TokenLost(n) == \E i \in InUse : accounts[i].org = n /\ tokens[n] # accounts[i].id

\* Every annotated user has an account that is set up, unless the name was set up
\* before, for an account or a user that is no more, or the account's token was
\* lost in a crash or replaced by that of another account with the name.
AllConfigured ==
    \A u \in annotated :
        Configured(TenantName[u]) \/ TenantName[u] \in created \/ TokenLost(TenantName[u])

\* Every account belongs to an annotated user.
AllOwned ==
    \A i \in DOMAIN accounts : accounts[i].org \in {TenantName[u] : u \in annotated}

\* What keeps a tenant from becoming ready for good.
Stuck(u) ==
    \/ u \notin annotated                       \* rejected at first, or its user came back
    \/ TenantName[u] # u                         \* looked up by another name
    \/ TenantName[u] \in created /\ (u \notin ssoReady \/ ~Configured(u))
    \/ TokenLost(u)

\* Every tenant is rejected or ready, but for the four ways above.
AllServed ==
    \A t \in Tenants : status[t] \in Accepted => status[t] = "ready" \/ Stuck(UserOf(t))
====
