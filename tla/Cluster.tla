---- MODULE Cluster ----
(* The calls a product's reconciler makes on the cluster, as the reconciler
   sees them: what each one changes, and the phase with which it ends the
   reconcile when the cluster is not ready for it.

   A cluster is a function from the objects that exist, pairs <<namespace,
   name>>, to what matters of them: Deleting while the API server waits for
   finalizers, Made once the object is there, Ready once the operator behind it
   reports success.  A secret's number is its content.  The namespace n itself
   is the object <<n, "">>. *)
EXTENDS Naturals, Sequences, SequencesExt

Deleting == 0
Made     == 1
Ready    == 2

\* What is there whatever the products do: the operator's own namespace, the
\* one of the observability stack, the objects outside any namespace, and what
\* the databases at the cloud provider hold.
Standing == {"rhoam", "obo", "cluster", "cloud"}

Namespace(n) == <<n, "">>
Active(s, n) ==
    \/ n \in Standing
    \/ Namespace(n) \in DOMAIN s /\ s[Namespace(n)] # Deleting

Put(s, o, v)  == (o :> v) @@ s
Drop(s, objs) == [x \in DOMAIN s \ objs |-> s[x]]

\* Keycloak users, clients and realms, envoy configurations and the requests
\* for cloud resources carry a finalizer of the operator that serves them.
CloudResources ==
    {<<"rhoam", r>> : r \in {"rhsso-postgres", "user-sso-postgres", "backend-redis",
                             "system-redis", "3scale-postgres", "blob-storage", "ratelimit-redis"}}
Server ==
    [o \in CloudResources |-> <<"cloud-resources-operator", "csv">>]
    @@ [o \in {<<"rhsso", k>> : k \in {"users", "clients", "realm"}} |-> <<"rhsso-operator", "csv">>]
    @@ [o \in {<<"user-sso", k>> : k \in {"users", "realm"}} |-> <<"user-sso-operator", "csv">>]
    @@ (<<"3scale", "envoyconfig">> :> <<"marin3r-operator", "csv">>)
Finalized == DOMAIN Server

\* A request for a cloud resource gets its finalizer when its operator first
\* sees it; the others are created when their operator already runs.
HasFinalizer(s, o) ==
    /\ o \in Finalized
    /\ o \in CloudResources => s[o] # Made \/ Server[o] \in DOMAIN s

\* Delete: an object without finalizers is gone at once.
Delete(s, o) ==
    CASE o \notin DOMAIN s     -> s
      [] HasFinalizer(s, o)    -> Put(s, o, Deleting)
      [] OTHER                 -> Drop(s, {o})

--------------------------------------------------------------------------------
(* The calls.  `to` is the phase the reconcile ends with when the call does not
   find what it needs; v is the value to make or to wait for; from is what a
   copy reads. *)
Call(op, o, v, from, to) == [op |-> op, o |-> o, v |-> v, from |-> from, to |-> to]

\* CreateOrUpdate of an object that something else reads
Make(o)           == Call("make", o, Made, o, "failed")
\* CreateOrUpdate of an object that nothing in the model reads back
Write(n)          == Call("write", Namespace(n), Made, Namespace(n), "failed")
\* Get, and end the reconcile with phase `to` while the object is not at v
Await(o, v, to)   == Call("await", o, v, o, to)
Need(o)           == Await(o, Deleting, "failed")
\* a request that o, a password or token, authorises only if it is the one the
\* database behind the server was filled with
Login(o, from)    == Call("login", o, Made, from, "failed")
\* CopySecret; a source that is absent is ignored, or ends the reconcile
CopyIfAny(from, o) == Call("copy", o, Made, from, "completed")
Copy(from, o)      == Call("copy", o, Made, from, "failed")
\* a change that makes the reconcile return the first time only
Once(o)           == Call("once", o, Made, o, "in progress")
\* ask for `from` to be made when o is absent, and come back later
Request(o, from)  == Call("request", o, Made, from, "in progress")
\* EnsureObjectDeleted and list-delete-list: in progress while the object was there
EnsureDeleted(o)  == Call("remove", o, Made, o, "in progress")
\* Delete without waiting; Delete with the finalizers taken off
Mark(o)           == Call("mark", o, Made, o, "completed")
Strip(o)          == Call("strip", o, Made, o, "completed")
AwaitGone(o)      == Call("gone", o, Made, o, "in progress")
ReconcileNamespace(n) == Call("namespace", Namespace(n), Made, Namespace(n), "in progress")
RemoveNamespace(n)    == Call("remove namespace", Namespace(n), Made, Namespace(n), "in progress")

Answer(s, to) == [s |-> s, phase |-> to]
OK(s)         == Answer(s, "completed")

\* One call on cluster s: the cluster it leaves and the phase it ends with.
Do(s, c) ==
    LET o == c.o
        there == o \in DOMAIN s
    IN CASE c.op = "make" ->
              IF there THEN OK(s)
              ELSE IF Active(s, o[1]) THEN OK(Put(s, o, Made)) ELSE Answer(s, c.to)
         [] c.op = "write" -> Answer(s, IF Active(s, o[1]) THEN "completed" ELSE c.to)
         [] c.op = "await" -> Answer(s, IF there /\ s[o] >= c.v THEN "completed" ELSE c.to)
         [] c.op = "login" ->
              Answer(s, IF there /\ c.from \in DOMAIN s /\ s[o] = s[c.from] THEN "completed" ELSE c.to)
         [] c.op = "copy" ->
              IF c.from \notin DOMAIN s THEN Answer(s, c.to)
              ELSE IF Active(s, o[1]) THEN OK(Put(s, o, s[c.from])) ELSE Answer(s, "failed")
         [] c.op = "once" -> IF there THEN OK(s) ELSE Answer(Put(s, o, Made), c.to)
         [] c.op = "request" -> IF there THEN OK(s) ELSE Answer(Put(s, c.from, Made), c.to)
         [] c.op = "remove" -> IF there THEN Answer(Delete(s, o), c.to) ELSE OK(s)
         [] c.op = "mark" -> OK(Delete(s, o))
         [] c.op = "strip" -> OK(Drop(s, {o}))
         [] c.op = "gone" -> Answer(s, IF there THEN c.to ELSE "completed")
         [] c.op = "namespace" ->
              IF ~there THEN OK(Put(s, o, Made))
              ELSE Answer(s, IF s[o] = Deleting THEN c.to ELSE "completed")
         [] c.op = "remove namespace" ->
              IF there /\ s[o] # Deleting THEN Answer(Put(s, o, Deleting), c.to) ELSE OK(s)

\* A reconcile makes its calls in order and returns at the first that does not
\* complete.
RECURSIVE Run(_, _)
Run(s, calls) ==
    IF calls = <<>> THEN OK(s)
    ELSE CHOOSE end \in {IF r.phase = "completed" THEN Run(r.s, rest) ELSE r :
                            r \in {Do(s, Head(calls))}, rest \in {Tail(calls)}} : TRUE
====
