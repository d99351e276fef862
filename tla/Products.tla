---- MODULE Products ----
(* The products of one installation on one cluster: their reconcilers, which
   the stage of the installation visits again and again, and the operators and
   the platform that react to what they write.  It opens up the step that
   module Installation takes for a product's reconcile.

   A reconcile is the sequence of calls of modules Platform, ThreeScale and
   Keycloaks; it may fail or the operator may be killed between two of them.
   A product's namespace may be deleted by accident, which the backups of the
   secrets are for.  On deletion of the installation the same products are
   cleaned up, cloud resources after all others. *)
EXTENDS Platform, FiniteSets

CONSTANT Scenarios   \* what the installations consist of and how far they have got

AllProducts == {"cloud-resources", "rhsso", "3scale", "user-sso", "marin3r", "grafana"}

\* A scenario has the products of an installation in its stage, in done those
\* that are complete when the behaviour begins, and in unfinished how many may be
\* incomplete when the installation is deleted.  It bounds the disturbances:
\* reconciles that stop half way, and losses of a namespace in perishable.
ASSUME ScenariosAssumption ==
    \A sc \in Scenarios :
        /\ "cloud-resources" \in sc.stage /\ sc.stage \subseteq AllProducts
        /\ sc.done \subseteq sc.stage
        /\ sc.unfinished \subseteq Nat /\ sc.disturbances \in Nat
        /\ sc.perishable \subseteq {"rhsso", "user-sso", "3scale"}

VARIABLES
    scenario,
    objs,          \* the cluster
    complete,      \* products whose last reconcile completed
    uninstalling,
    losses,        \* namespaces lost
    faults         \* reconciles that stopped half way

vars == <<scenario, objs, complete, uninstalling, losses, faults>>

stage == scenario.stage

\* A write into a standing namespace always completes and leaves nothing that
\* the model tells apart: a reconcile is the same without it.
Effective(calls) == SelectSeq(calls, LAMBDA c : c.op = "write" => c.o[1] \notin Standing)
Install ==
    [mt \in BOOLEAN |->
        [p \in AllProducts |-> Effective(
            CASE p = "cloud-resources" -> CloudResourcesInstall
              [] p = "rhsso"           -> RhssoInstall(mt)
              [] p = "3scale"          -> ThreeScaleInstall(mt)
              [] p = "user-sso"        -> UserSsoInstall
              [] p = "marin3r"         -> Marin3rInstall
              [] p = "grafana"         -> GrafanaInstall(mt))]]
\* Only the single-tenant installation has a user-sso.
MultiTenant(st) == "user-sso" \notin st

Cleanup(p) ==
    CASE p = "cloud-resources" -> CloudResourcesCleanup(objs)
      [] p = "rhsso"           -> RhssoCleanup
      [] p = "3scale"          -> ThreeScaleCleanup
      [] p = "user-sso"        -> UserSsoCleanup
      [] p = "marin3r"         -> Marin3rCleanup
      [] p = "grafana"         -> GrafanaCleanup

Calls(p) == IF uninstalling THEN Cleanup(p) ELSE Install[MultiTenant(stage)][p]

--------------------------------------------------------------------------------
(* What the operators of the products, OLM and the cluster itself may do next
   to a cluster s: for each reaction the set of the clusters it may lead to. *)

Is(s, o, v)    == o \in DOMAIN s /\ s[o] = v
Csv(n)         == <<n, "csv">>
Operators      == {"cloud-resources-operator", "rhsso-operator", "user-sso-operator",
                   "3scale-operator", "marin3r-operator"}
Servers        == {"rhsso", "user-sso"}

\* OLM installs the release a subscription asks for.
InstalledOperator(s) ==
    {Put(s, Csv(n), Made) : n \in {n \in Operators :
        <<n, "subscription">> \in DOMAIN s /\ Csv(n) \notin DOMAIN s /\ Active(s, n)}}

\* The operator of a product makes up the secret that the product has not got;
\* fresh is a content no secret has had before.
SecretOf == [o \in {Keycloak(ns) : ns \in Servers} |-> Credentials(o[1])] @@ (APIManager :> SystemSeed)
Generated(s, fresh) ==
    {Put(s, SecretOf[o], fresh) : o \in {o \in DOMAIN SecretOf :
        /\ o \in DOMAIN s /\ Csv(OperatorOf(o[1])) \in DOMAIN s
        /\ SecretOf[o] \notin DOMAIN s /\ Active(s, o[1])}}

\* The cloud resources requested by then are provided together.
ProvidedCloudResources(s) ==
    LET asked == {o \in CloudResources : Is(s, o, Made)}
    IN {[o \in DOMAIN s |-> IF o \in asked THEN Ready ELSE s[o]] :
          csv \in {c \in {Csv("cloud-resources-operator")} : asked # {} /\ c \in DOMAIN s}}

\* What must be there, and what must be ready, before an operator reports an
\* object ready.
NeededBy ==
    [o \in {Keycloak(ns) : ns \in Servers} |->
        {Csv(OperatorOf(o[1])), Credentials(o[1]), Database(o[1])}]
    @@ [o \in {Realm(ns) : ns \in Servers} \union {Users("user-sso")} |-> {Csv(OperatorOf(o[1]))}]
    @@ (APIManager :> {Csv("3scale-operator"), SystemSeed, CloudResource("3scale-postgres")})
    @@ (GrafanaDeployment :> {})
ReadyBefore ==
    [o \in DOMAIN NeededBy |->
        IF o \in {Realm(ns) : ns \in Servers} \union {Users("user-sso")}
        THEN {Keycloak(o[1])} ELSE {}]
\* A server fills its database with the secret when it first starts.  3scale
\* has its routes created then, and afterwards only when told to.
FilledWith == [o \in {Keycloak(ns) : ns \in Servers} |-> AdminPassword(o[1])] @@ (APIManager :> SeededWith)
Fill(s, o) ==
    IF o \notin DOMAIN FilledWith \/ FilledWith[o] \in DOMAIN s THEN s
    ELSE LET filled == Put(s, FilledWith[o], s[SecretOf[o]])
         IN IF o = APIManager THEN Put(filled, Resync, Made) ELSE filled
Provisioned(s) ==
    {Fill(Put(s, o, Ready), o) : o \in {o \in DOMAIN NeededBy :
        /\ Is(s, o, Made) /\ Active(s, o[1])
        /\ NeededBy[o] \subseteq DOMAIN s
        /\ \A x \in ReadyBefore[o] : Is(s, x, Ready)}}

Routed(s) ==
    {Put(Drop(s, {Resync}), Routes, Made) : ns \in {n \in {"3scale"} :
        Is(s, APIManager, Ready) /\ Resync \in DOMAIN s /\ Active(s, n)}}
    \union {Put(s, GrafanaRoute, Made) : ns \in {n \in {"grafana"} :
        Active(s, n) /\ GrafanaRoute \notin DOMAIN s}}

\* The operator behind deleted objects takes off their finalizers; the data of
\* a database goes with it.
DataOf(o) ==
    {AdminPassword(ns) : ns \in {n \in Servers : o = Database(n)}}
    \union {x \in {SeededWith} : o = CloudResource("3scale-postgres")}
DeletedBy(s, csv) == {o \in Finalized : Server[o] = csv /\ Is(s, o, Deleting)}
Finished(s) ==
    {Drop(s, DeletedBy(s, csv) \union UNION {DataOf(o) : o \in DeletedBy(s, csv)}) :
        csv \in {c \in {Csv(n) : n \in Operators} : c \in DOMAIN s /\ DeletedBy(s, c) # {}}}

\* A namespace that is being deleted takes its objects along and waits for
\* those with finalizers.
In(s, n) == {o \in DOMAIN s : o[1] = n /\ o # Namespace(n)}
Terminate(s, n) ==
    IF In(s, n) \intersect Finalized = {} THEN Drop(s, In(s, n) \union {Namespace(n)})
    ELSE [o \in DOMAIN s \ (In(s, n) \ Finalized) |-> IF o \in In(s, n) THEN Deleting ELSE s[o]]
Terminated(s) ==
    {Terminate(s, n) : n \in {n \in (AllProducts \ {"cloud-resources"}) \union Operators :
        Is(s, Namespace(n), Deleting)}}

Reactions(s, fresh) ==
    InstalledOperator(s) \union Generated(s, fresh) \union ProvidedCloudResources(s)
    \union Provisioned(s) \union Routed(s) \union Finished(s) \union Terminated(s)

--------------------------------------------------------------------------------
\* The reconcilers.

\* The cluster on which the products in done are complete: they are reconciled,
\* and the others react, until nothing changes.
RECURSIVE Settled(_, _, _), InTurn(_, _, _)
InTurn(s, done, mt) ==
    IF done = {} THEN s
    ELSE LET p == CHOOSE x \in done : TRUE
         IN InTurn(Run(s, Install[mt][p]).s, done \ {p}, mt)
Settled(s, done, mt) ==
    LET t == InTurn(s, done, mt)
        next == Reactions(t, 1) \ {t}
    IN IF next # {} THEN Settled(CHOOSE u \in next : TRUE, done, mt)
       ELSE IF t # s THEN Settled(t, done, mt) ELSE s

BeforeInstall(st) ==
    [o \in {OauthClientSecrets, <<"rhoam", "pull-secret">>, <<"rhoam", "github-oauth-secret">>}
            \union {Namespace(n) : n \in st \intersect {"grafana"}} |-> Made]

Init ==
    /\ scenario \in Scenarios
    /\ complete = scenario.done
    /\ objs = Settled(BeforeInstall(stage), complete, MultiTenant(stage))
    /\ uninstalling = FALSE
    /\ losses = 0 /\ faults = 0

VisitedTogether(p) == p \in stage /\ (uninstalling => p \notin complete)
VisitedUnlisted(p) ==
    uninstalling => p \notin complete /\ (p = "cloud-resources" => stage \ {p} \subseteq complete)

\* The products of a stage are all visited in a pass, in no fixed order.  On
\* uninstall a product that has lost its finalizer is not cleaned up again, and
\* cloud resources has a later stage of its own.
Visited(p) ==
    /\ p \in stage
    /\ uninstalling => /\ p \notin complete
                       /\ p = "cloud-resources" => stage \ {p} \subseteq complete

Reconcile(p) ==
    /\ UNCHANGED <<scenario, uninstalling, losses, faults>>
    /\ Visited(p)
    /\ \E r \in {Run(objs, Calls(p))} :
          /\ objs' = r.s
          /\ complete' = IF r.phase = "completed" THEN complete \union {p} ELSE complete \ {p}

\* A call fails, or the operator is killed, after the first n calls.
Interrupted(p) ==
    /\ Visited(p) /\ losses + faults < scenario.disturbances
    /\ faults' = faults + 1
    /\ objs' \in {Run(objs, SubSeq(Calls(p), 1, n)).s : n \in 1..(Len(Calls(p)) - 1)}
    /\ complete' = complete \ {p}
    /\ UNCHANGED <<scenario, uninstalling, losses>>

StartUninstall ==
    /\ ~uninstalling
    /\ Cardinality(stage \ complete) \in scenario.unfinished
    /\ uninstalling' = TRUE /\ complete' = {}
    /\ UNCHANGED <<scenario, objs, losses, faults>>

\* Somebody deletes the namespace of a product.
LoseNamespace(n) ==
    /\ n \in scenario.perishable
    /\ ~uninstalling /\ losses + faults < scenario.disturbances
    /\ Is(objs, Namespace(n), Made)
    /\ objs' = Put(objs, Namespace(n), Deleting)
    /\ losses' = losses + 1
    /\ UNCHANGED <<scenario, complete, uninstalling, faults>>

React ==
    /\ UNCHANGED <<scenario, complete, uninstalling, losses, faults>>
    /\ objs' \in Reactions(objs, 1 + losses)

Next ==
    \/ \E p \in AllProducts : Reconcile(p)
    \/ \E p \in AllProducts : Interrupted(p)
    \/ StartUninstall
    \/ React
    \/ \E n \in {"3scale", "rhsso", "user-sso"} : LoseNamespace(n)

\* The operator requeues every installation, and the others react in the end.
Fairness ==
    /\ \A p \in AllProducts : WF_vars(Reconcile(p))
    /\ WF_vars(React)

Spec == Init /\ [][Next]_vars /\ Fairness

--------------------------------------------------------------------------------
\* Properties.

There(o) == o \in DOMAIN objs

TypeOK ==
    /\ scenario \in Scenarios /\ complete \subseteq stage
    /\ \A o \in DOMAIN objs : objs[o] \in 0..(2 + losses)
    /\ uninstalling \in BOOLEAN
    /\ losses + faults \in 0..scenario.disturbances

\* An object that waits for the operator behind it to take off its finalizer
\* has that operator: no clean-up removes the operator first, in whatever order
\* the products are cleaned up and wherever a reconcile stops.  Otherwise the
\* object, its namespace and the uninstall would hang.
FinalizersServed == \A o \in Finalized : Is(objs, o, Deleting) => There(Server[o])

\* A running Keycloak or 3scale keeps its database: the requests for cloud
\* resources are deleted only after every product is on its way out.
DataOutlivesWorkload ==
    /\ \A ns \in Servers : There(Keycloak(ns)) /\ Active(objs, ns) => ~Is(objs, Database(ns), Deleting)
    /\ There(APIManager) => ~Is(objs, CloudResource("3scale-postgres"), Deleting)

\* The secrets the data depends on are kept as module SecretCustody promises.
Content(o) == IF There(o) THEN objs[o] ELSE 0
Seed     == INSTANCE SecretCustody WITH None <- 0, live <- Content(SystemSeed), saved <- Content(SavedSeed)
Rhsso    == INSTANCE SecretCustody WITH
              None <- 0, live <- Content(Credentials("rhsso")), saved <- Content(SavedCredentials("rhsso"))
UserSso  == INSTANCE SecretCustody WITH
              None <- 0, live <- Content(Credentials("user-sso")), saved <- Content(SavedCredentials("user-sso"))
SecretsKept == Seed!Spec /\ Rhsso!Spec /\ UserSso!Spec

\* The password or seed the database holds is lost: the namespace went before
\* the first reconcile that got as far as the backup.
Lost(secret, saved, data) ==
    There(data) /\ Content(secret) # objs[data] /\ Content(saved) # objs[data]
Stranded ==
    \/ \E ns \in Servers : Lost(Credentials(ns), SavedCredentials(ns), AdminPassword(ns))
    \/ Lost(SystemSeed, SavedSeed, SeededWith)

NothingLeft ==
    \A o \in DOMAIN objs : o[1] \in {"rhoam", "obo"} /\ o \notin CloudResources

\* Every installation comes to stand with all products complete, also after a
\* reconcile that stopped anywhere and after a namespace was deleted, unless
\* the namespace went with the only copy of the secret.  Every uninstall comes to
\* stand with nothing left behind: no namespace, no cloud resource, no OAuth client
\* and no console link.  It begins when as many products are unfinished as the
\* scenario says.
StageSettles ==
    <>[](IF uninstalling THEN complete = stage /\ NothingLeft
         ELSE complete = stage \/ Stranded)
====
