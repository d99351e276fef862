---- MODULE OauthSecrets ----
(* The secrets of the OAuth clients.  The bootstrap stage keeps one for each
   product in a Secret of the operator's namespace, and the products copy them:
   to the OAuthClient of the product, to the OpenShift identity provider of the
   two Keycloaks, to 3scale's client in Keycloak, and to the authentication
   provider in 3scale's database.  A login works while both ends of it hold the
   same secret.  Administrators delete the objects and change the identity
   providers, requests fail, and the operator restarts.

   A secret is a number, in the order they were generated; 0 stands for none. *)
EXTENDS Naturals, FiniteSets

CONSTANT MaxMishaps   \* bound on failures, restarts, deletions and changes by hand

VARIABLES
    data,      \* the Secret with the client secrets, by product; all 0 when deleted
    oauth,     \* OAuthClients, by name
    realm,     \* client secret in the KeycloakRealm of each Keycloak
    idp,       \* client secret of its identity provider, in Keycloak's database
    client,    \* KeycloakClient of 3scale
    provider,  \* authentication provider in 3scale's database
    generated, \* secrets generated so far
    pass,      \* the operator's pass: products left, and where it is
    mishaps

vars == <<data, oauth, realm, idp, client, provider, generated, pass, mishaps>>

Sso        == {"rhsso", "rhssouser"}
Products   == Sso \union {"3scale"}
productsList ==
    [p \in Products |-> CASE p = "rhsso" -> 1 [] p = "rhssouser" -> 2 [] p = "3scale" -> 3]
SecretName == "oauth-client-secrets"
Typed      == 1000   \* what an administrator types over a secret

Init ==
    /\ data = [p \in Products |-> 0]
    /\ oauth = [n \in Products \union {SecretName} |-> 0]
    /\ realm = [p \in Sso |-> 0] /\ idp = [p \in Sso |-> 0]
    /\ client = 0 /\ provider = 0 /\ generated = 0 /\ mishaps = 0
    /\ pass = [at |-> "bootstrap", left |-> {}]

Mishap == mishaps < MaxMishaps /\ mishaps' = mishaps + 1
Fine   == UNCHANGED mishaps

\* The stage goes on with its other products, in the order of a Go map, when one
\* is done or has failed; with none left the pass ends and the next one begins.
Leave(p) ==
    LET left == pass.left \ {p} IN
    pass' = IF left = {} THEN [at |-> "bootstrap", left |-> {}]
                         ELSE [at |-> "products", left |-> left]

At(step, p) == pass.at = step /\ p \in pass.left
Goto(step)  == pass' = [pass EXCEPT !.at = step]

--------------------------------------------------------------------------------
\* The OAuthClient in which reconcileOauthSecrets looks for a secret it lacks:
\* the object it builds has the product's name, the key it reads has not.
LookedUp(p) == SecretName

\* A secret that is missing is taken from the OAuthClient found, or generated, in
\* the order of productsList.
reconcileOauthSecrets ==
    LET missing == {p \in Products : data[p] = 0 /\ oauth[LookedUp(p)] = 0}
        Nth(p)  == Cardinality({q \in missing : productsList[q] <= productsList[p]})
    IN  /\ data' = [p \in Products |->
                       IF data[p] # 0 THEN data[p]
                       ELSE IF p \in missing THEN generated + Nth(p) ELSE oauth[LookedUp(p)]]
        /\ generated' = generated + Cardinality(missing)

\* The bootstrap stage.  A step of it that fails, before the secrets are written or
\* after, ends the pass.
Bootstrap ==
    /\ pass.at = "bootstrap"
    /\ \/ Fine /\ reconcileOauthSecrets /\ pass' = [at |-> "products", left |-> Products]
       \/ Mishap /\ UNCHANGED pass /\ (reconcileOauthSecrets \/ UNCHANGED <<data, generated>>)
    /\ UNCHANGED <<oauth, realm, idp, client, provider>>

\* The mutate function of the KeycloakRealm reads the Secret and writes the
\* OAuthClient before the realm is written.  The realm's specification is built
\* anew, so that it never contains the identity provider yet.
SetupOpenshiftIDP(p) ==
    /\ At("products", p)
    /\ \/ /\ data[p] = 0 /\ Fine /\ Leave(p) /\ UNCHANGED <<oauth, realm>>
       \/ /\ data[p] # 0
          /\ oauth' = [oauth EXCEPT ![p] = data[p]]
          /\ \/ /\ Fine /\ realm' = [realm EXCEPT ![p] = data[p]]
                /\ IF p = "rhsso" THEN Goto("sync") ELSE Leave(p)
             \/ Mishap /\ UNCHANGED realm /\ Leave(p)
       \/ Mishap /\ Leave(p) /\ UNCHANGED <<oauth, realm>>
    /\ UNCHANGED <<data, idp, client, provider, generated>>

\* Mutant: the secret is written only to an identity provider that has none.
SyncAbsentSecret ==
    /\ At("sync", "rhsso") /\ Fine /\ Leave("rhsso")
    /\ UNCHANGED <<data, oauth, realm, idp, client, provider, generated>>

\* Only rhsso writes the secret to Keycloak itself.
SyncOpenshiftIDPClientSecret ==
    /\ At("sync", "rhsso")
    /\ \/ /\ Fine
          /\ idp' = [idp EXCEPT !["rhsso"] =
                        IF data["rhsso"] # 0 /\ idp["rhsso"] # 0 THEN data["rhsso"] ELSE @]
       \/ Mishap /\ UNCHANGED idp
    /\ Leave("rhsso")
    /\ UNCHANGED <<data, oauth, realm, client, provider, generated>>

\* A provider that exists is left as it is.
reconcileRHSSOIntegration ==
    LET Add == provider' = IF provider = 0 THEN data["3scale"] ELSE provider IN
    /\ At("products", "3scale")
    /\ \/ /\ data["3scale"] = 0 /\ Fine /\ Leave("3scale") /\ UNCHANGED <<client, provider>>
       \/ /\ data["3scale"] # 0
          /\ client' = data["3scale"]
          /\ \/ Fine /\ Add /\ Goto("oauth")
             \/ Mishap /\ Leave("3scale") /\ (Add \/ UNCHANGED provider)
       \/ Mishap /\ Leave("3scale") /\ UNCHANGED <<client, provider>>
    /\ UNCHANGED <<data, oauth, realm, idp, generated>>

\* 3scale's own OAuthClient, at the end of its Reconcile.
ReconcileOauthClient ==
    /\ At("oauth", "3scale")
    /\ \/ /\ Fine
          /\ oauth' = [oauth EXCEPT !["3scale"] = IF data["3scale"] # 0 THEN data["3scale"] ELSE @]
       \/ Mishap /\ UNCHANGED oauth
    /\ Leave("3scale")
    /\ UNCHANGED <<data, realm, idp, client, provider, generated>>

\* The operator restarts and begins a pass.
Restart ==
    /\ pass.at # "bootstrap" /\ Mishap
    /\ pass' = [at |-> "bootstrap", left |-> {}]
    /\ UNCHANGED <<data, oauth, realm, idp, client, provider, generated>>

--------------------------------------------------------------------------------
\* The Keycloak operator creates the realm in Keycloak, and never updates it.
CreateRealm(p) ==
    /\ realm[p] # 0 /\ idp[p] = 0 /\ idp' = [idp EXCEPT ![p] = realm[p]]
    /\ UNCHANGED <<data, oauth, realm, client, provider, generated, pass, mishaps>>

\* Administrators: the Secret, an OAuthClient, 3scale's client or provider are
\* deleted, or an identity provider is changed in the Keycloak console.
Interfere ==
    /\ Mishap
    /\ \/ data' = [p \in Products |-> 0] /\ UNCHANGED <<oauth, idp, client, provider>>
       \/ /\ \E p \in Products : oauth' = [oauth EXCEPT ![p] = 0]
          /\ UNCHANGED <<data, idp, client, provider>>
       \/ client' = 0 /\ UNCHANGED <<data, oauth, idp, provider>>
       \/ provider' = 0 /\ UNCHANGED <<data, oauth, idp, client>>
       \/ /\ \E p \in Sso : idp[p] # 0 /\ idp' = [idp EXCEPT ![p] = Typed]
          /\ UNCHANGED <<data, oauth, client, provider>>
    /\ UNCHANGED <<realm, generated, pass>>

Step ==
    \/ Bootstrap \/ (\E p \in Sso : SetupOpenshiftIDP(p)) \/ SyncOpenshiftIDPClientSecret
    \/ reconcileRHSSOIntegration \/ ReconcileOauthClient

Next ==
    \/ Step \/ Restart
    \/ (\E p \in Sso : CreateRealm(p)) \/ Interfere

\* The installation is reconciled again and again, and the Keycloak operator
\* serves the realms.
Fairness == []<><<pass' # pass>>_vars /\ \A p \in Sso : WF_vars(CreateRealm(p))

Spec == Init /\ [][Next]_vars /\ Fairness

--------------------------------------------------------------------------------
\* Type invariant.
TypeOK ==
    LET Secret == 0 .. generated \union {Typed} IN
    /\ generated \in 0 .. Cardinality(Products) * (MaxMishaps + 1)
    /\ data \in [Products -> Secret] /\ oauth \in [Products \union {SecretName} -> Secret]
    /\ realm \in [Sso -> Secret] /\ idp \in [Sso -> Secret]
    /\ client \in Secret /\ provider \in Secret
    /\ pass.at \in {"bootstrap", "products", "sync", "oauth"} /\ pass.left \subseteq Products

\* The logins work: every OAuthClient, rhsso's identity provider and 3scale's client
\* in Keycloak hold the product's secret.  User SSO's identity provider and 3scale's
\* provider do so if the Secret was never generated again and nobody typed over them:
\* nothing in the operator repairs those two.
LoginsWork ==
    LET Firm == generated = Cardinality(Products) IN
    /\ \A p \in Products : data[p] # 0 /\ oauth[p] = data[p]
    /\ idp["rhsso"] = data["rhsso"] /\ client = data["3scale"]
    /\ (Firm => provider = client)
    /\ (Firm /\ idp["rhssouser"] # Typed => idp["rhssouser"] = data["rhssouser"])
====
