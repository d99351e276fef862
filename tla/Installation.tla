------------------------------ MODULE Installation ------------------------------
(***************************************************************************)
(* The life of one RHMI custom resource under the RHMI controller: created *)
(* by the operator, checked, installed, upgraded, given another quota, and *)
(* uninstalled, while the operator process may crash or be upgraded at any *)
(* point, another writer may touch the resource, and the manager's cache   *)
(* lags behind the API server.                                             *)
(*                                                                         *)
(* One reconcile is a sequence of atomic steps that ends after each write  *)
(* to the API server.  The controller has one worker, so there is one      *)
(* reconcile at a time; everyone else may step in between.                 *)
(***************************************************************************)
EXTENDS ApiServer, Sequences

CONSTANTS
  Products,           \* the products of the install stage
  CloudResources,     \* the one that is uninstalled in a stage of its own
  WaitsForNamespace,  \* products whose uninstall waits until the namespace is gone
  Infix,              \* pairs <<p, o>>: p's name is a proper substring of o's
  MaxVersion,         \* releases of the operator are 1 .. MaxVersion
  Ships,              \* the product versions a release of the operator carries
  MaxQuota,           \* quotas, ordered by size, are 1 .. MaxQuota
  StartFrom,          \* the resource at the start: "absent", "created", "legacy"
  MaxDisturbances,    \* bound on crashes, errors, delays and edits by others
  MaxQuotaChanges     \* bound on changes of the quota parameter

VARIABLES
  cr,          \* the RHMI resource held by the API server
  cached,      \* the manager's cached copy of it
  inst,        \* `installation`, the copy the running reconcile works on
  pc,          \* where the running reconcile is; "idle" between two reconciles
  run,         \* the other locals of the running reconcile
  mem,         \* versions in the package level map stage.Products
  up,          \* the operator process is running
  installed,   \* the operator's CSV is on the cluster
  opVersion,   \* the release of the operator
  world,       \* what is on the cluster for each product
  applied,     \* the last release that reconciled the product to completion
  configured,  \* the quota the product's workloads are sized for
  cfgMap,      \* the installation ConfigMap exists
  param,       \* the quota parameter of the add-on secret
  disturbances, quotaChanges

resource == <<cr, cached>>
process  == <<inst, pc, run, mem, up, installed, opVersion>>
cluster  == <<world, applied, configured, cfgMap>>
world3   == <<world, applied, configured>>
bounds   == <<disturbances, quotaChanges>>
vars     == <<resource, process, cluster, param, bounds>>

Versions   == 0 .. MaxVersion      \* 0 is the empty string
Quotas     == 0 .. MaxQuota        \* 0 is the empty string
Stages     == {"", "Preflight Checks", "bootstrap", "installation", "complete",
               "deletion"}

\* A finalizer is its format and its owner.  Since Operator SDK 1.7 the format
\* is "new"; UpdateFinalizer and Reconcile rewrite the "old" ones.
Owners     == Products \cup {"deletion"}
Finalizers == {"old", "new"} \X Owners
Finalizer(o)         == <<"new", o>>
PreviousFinalizer(o) == <<"old", o>>
DeletionFinalizer    == Finalizer("deletion")

ASSUME ProductsAssumption ==
  /\ CloudResources \in Products
  /\ "deletion" \notin Products
  /\ WaitsForNamespace \subseteq Products
  /\ Infix \subseteq Products \X Products

ASSUME BoundsAssumption ==
  /\ MaxVersion \in Nat \ {0}
  /\ MaxQuota \in Nat \ {0}
  /\ Ships \in [1 .. MaxVersion -> 1 .. MaxVersion]
  /\ MaxDisturbances \in Nat
  /\ MaxQuotaChanges \in Nat
  /\ StartFrom \in {"absent", "created", "legacy"}

(***************************************************************************)
(* The resource and its copies                                             *)
(***************************************************************************)
Status == [preflight : {"none", "fail", "success"}, version : Versions,
           toVersion : Versions, quota : Quotas, toQuota : Quotas,
           stage : Stages, prod : [Products -> Versions]]

Object == [exists : BOOLEAN, rv : RVs, deleting : BOOLEAN,
           fin : SUBSET Finalizers, st : Status]

NoStatus == [preflight |-> "none", version |-> 0, toVersion |-> 0, quota |-> 0,
             toQuota |-> 0, stage |-> "", prod |-> [p \in Products |-> 0]]

NoObject == [exists |-> FALSE, rv |-> 0, deleting |-> FALSE, fin |-> {},
             st |-> NoStatus]

Created(rv) == [NoObject EXCEPT !.exists = TRUE, !.rv = rv]

NewRV == FreshRV(cr, cached, inst)

\* r.Client.Update(ctx, installation), accepted by the server.  The client empties
\* the caller's object before it decodes the answer into it, so of what the caller
\* had changed in memory only what the server has taken over is left.
Update(obj) ==
  /\ Accepts(cr, obj)
  /\ cr' = Put(cr, obj, NewRV, NoObject)
  /\ inst' = Stored(cr, obj, NewRV)

\* r.Client.Status().Update(ctx, installation), accepted by the server: the same,
\* and a finalizer that was only appended in memory is lost.
StatusUpdate(obj) ==
  /\ Accepts(cr, obj)
  /\ cr' = PutStatus(cr, obj, NewRV)
  /\ inst' = cr'

(***************************************************************************)
(* The running reconcile                                                   *)
(***************************************************************************)
\* todo: products of the current stage still to handle; snap: the finalizers
\* when the uninstall began; us: index of the uninstall stage; unfinished:
\* installInProgress / pendingUninstalls; errs: merr is not empty; mismatch:
\* productVersionMismatchFound; quota, updated: installationQuota; orig: the status
\* as it was read (originalInstallation).
NoRun == [todo |-> {}, snap |-> {}, us |-> 0, unfinished |-> FALSE,
          errs |-> FALSE, mismatch |-> FALSE, quota |-> 0, updated |-> FALSE,
          orig |-> NoStatus]

Return == pc' = "idle" /\ run' = NoRun /\ inst' = NoObject

Running == UNCHANGED <<mem, up, installed, opVersion>>

\* An error, delay or crash the environment may cause, finitely often.
Disturbed == disturbances < MaxDisturbances /\ disturbances' = disturbances + 1
             /\ UNCHANGED quotaChanges

\* Either write fails: with a conflict or NotFound, or for another reason.
Refused(obj) ==
  /\ UNCHANGED cr
  /\ IF Accepts(cr, obj) THEN Disturbed ELSE UNCHANGED bounds

\* Reads the resource from the manager's cache.
Reconcile ==
  /\ pc = "idle" /\ up /\ cached.exists
  /\ inst' = cached /\ pc' = "begin" /\ run' = [NoRun EXCEPT !.orig = cached.st]
  /\ UNCHANGED <<resource, cluster, param, bounds>> /\ Running

\* Copies an alerting e-mail address into the spec; a failure is only logged.
CopyEmail ==
  /\ pc = "begin"
  /\ \/ /\ Accepts(cr, inst)
        /\ cr' = [cr EXCEPT !.rv = NewRV] /\ inst' = [inst EXCEPT !.rv = NewRV]
     \/ UNCHANGED <<cr, inst>>
  /\ Disturbed
  /\ UNCHANGED <<cached, pc, run, cluster, param>> /\ Running

\* Where Reconcile goes on: preflight checks come before the deletion timestamp.
Branch(obj) ==
  pc' = IF obj.st.preflight # "success" THEN "preflight"
        ELSE IF obj.deleting THEN "uninstall" ELSE "version"

\* The deletion finalizer: an old one is replaced on the server, a missing one
\* appended in memory only.
EnsureDeletionFinalizer ==
  /\ pc = "begin"
  /\ \/ /\ inst.deleting \/ DeletionFinalizer \in inst.fin
        /\ Branch(inst) /\ UNCHANGED <<cr, inst, run, bounds>>
     \/ /\ ~inst.deleting
        /\ {DeletionFinalizer, PreviousFinalizer("deletion")} \cap inst.fin = {}
        /\ inst' = [inst EXCEPT !.fin = @ \cup {DeletionFinalizer}]
        /\ Branch(inst) /\ UNCHANGED <<cr, run, bounds>>
     \/ /\ ~inst.deleting /\ DeletionFinalizer \notin inst.fin
        /\ PreviousFinalizer("deletion") \in inst.fin
        /\ LET obj == [inst EXCEPT !.fin = (@ \ {PreviousFinalizer("deletion")})
                                           \cup {DeletionFinalizer}]
           IN  \/ Update(obj) /\ Branch(inst) /\ UNCHANGED <<run, bounds>>
               \/ Refused(obj) /\ Return
  /\ UNCHANGED <<cached, cluster, param>> /\ Running

\* Mutated: the outcome is written together with the metadata.
preflightChecksWithObject(outcome) ==
  /\ pc = "preflight"
  /\ LET obj == [inst EXCEPT !.st.stage = "Preflight Checks",
                             !.st.preflight = outcome]
     IN  \/ Refused(obj)
         \/ /\ Accepts(cr, obj)
            /\ cr' = Put(PutStatus(cr, obj, NewRV), obj, NewRV, NoObject)
            /\ IF outcome = "success" THEN UNCHANGED bounds ELSE Disturbed
  /\ Return /\ UNCHANGED <<cached, cluster, param>> /\ Running

\* Writes the outcome of the checks and returns; product reconcilers are built
\* along the way, and building one writes the installation ConfigMap.
preflightChecks(outcome) ==
  /\ pc = "preflight"
  /\ LET obj == [inst EXCEPT !.st.stage = "Preflight Checks",
                             !.st.preflight = outcome]
     IN  \/ Refused(obj)
         \/ /\ Accepts(cr, obj) /\ cr' = PutStatus(cr, obj, NewRV)
            /\ IF outcome = "success" THEN UNCHANGED bounds ELSE Disturbed
  /\ Return
  /\ cfgMap' = TRUE \/ (outcome = "fail" /\ UNCHANGED cfgMap)
  /\ UNCHANGED <<cached, world3, param>> /\ Running

\* An error before anything is written: no client, no configuration, the webhooks
\* or the cluster version cannot be read, a preflight check gives no answer.
EarlyError ==
  /\ pc \in {"begin", "preflight", "version"}
  /\ Return /\ Disturbed
  /\ UNCHANGED <<resource, cluster, param>> /\ Running

\* Mutated: an installation counts as announced from the start.
firstInstallFirstReconcileNever(st) == st.version = 0 /\ st.toVersion # 0

firstInstallFirstReconcile(st) == st.version = 0 /\ st.toVersion = 0

upgradeFirstReconcile(st) ==
  st.version # 0 /\ st.toVersion = 0 /\ st.version # opVersion

\* Announces the version that is being installed before any stage runs.
SetToVersion ==
  /\ pc = "version"
  /\ IF firstInstallFirstReconcile(inst.st) \/ upgradeFirstReconcile(inst.st)
     THEN LET obj == [inst EXCEPT !.st.toVersion = opVersion]
          IN  \/ StatusUpdate(obj) /\ pc' = "bootstrap" /\ UNCHANGED <<run, bounds>>
              \/ Refused(obj) /\ Return
     ELSE pc' = "bootstrap" /\ UNCHANGED <<cr, inst, run, bounds>>
  /\ UNCHANGED <<cached, cluster, param>> /\ Running

(***************************************************************************)
(* Installation                                                            *)
(***************************************************************************)
\* processQuota: the first pass of an installation, or another parameter.
QuotaChanged ==
  (inst.st.toQuota = 0 /\ inst.st.quota = 0) \/ param # inst.st.quota

\* The bootstrap stage: processQuota looks the parameter up and marks a change
\* in memory, later steps may still fail.  On success the install stage starts.
bootstrapStage(quotaRead, completed) ==
  /\ pc = "bootstrap" /\ (completed => quotaRead)
  /\ LET changed == quotaRead /\ QuotaChanged
     IN  /\ inst' = [inst EXCEPT
                       !.st.stage = IF completed THEN "installation" ELSE "bootstrap",
                       !.st.toQuota = IF changed THEN param ELSE @]
         /\ run' = [NoRun EXCEPT !.todo = IF completed THEN Products ELSE {},
                                 !.unfinished = ~completed,
                                 !.quota = IF quotaRead THEN param ELSE 0,
                                 !.updated = changed, !.orig = run.orig]
  /\ pc' = IF completed THEN "products" ELSE "finish"
  /\ IF completed THEN UNCHANGED bounds ELSE Disturbed
  /\ UNCHANGED <<resource, cluster, param>> /\ Running

\* Mutated: the name of another owner; the old finalizer is left in place.
WithFinalizerMisnamed(p) == [inst EXCEPT !.fin = @ \cup {Finalizer("product")}]
WithFinalizerAppended(p) == [inst EXCEPT !.fin = @ \cup {Finalizer(p)}]

\* The finalizers of a product reconcile that is not an uninstall:
\* UpdateFinalizer rewrites the old format, AddFinalizer adds a missing one.
WithFinalizer(p) ==
  [inst EXCEPT !.fin = (@ \ {PreviousFinalizer(p)}) \cup {Finalizer(p)}]

Registered(p) == WithFinalizer(p).fin = inst.fin

\* productVersionMismatchFound after VerifyVersion on the status as read.
Mismatch(p) == run.mismatch \/ inst.st.prod[p] # Ships[opVersion]

\* Mutated: a change of the quota only ever makes a product larger.
ConfigureLarger(p) == IF configured[p] < run.quota THEN run.quota ELSE configured[p]

\* mutateReplicas, mutateResources: a size in place is only replaced when the
\* quota is being changed or the size is too small.
Configure(p) ==
  IF run.updated \/ configured[p] < run.quota THEN run.quota ELSE configured[p]

\* Mutated: the error is ignored and the product deployed.
FinalizerRefusedIgnored(p) ==
  /\ pc = "products" /\ p \in run.todo
  /\ ~Registered(p) /\ Refused(WithFinalizer(p))
  /\ inst' = WithFinalizer(p) /\ run' = [run EXCEPT !.todo = @ \ {p}]
  /\ world' = [world EXCEPT ![p] = "present"]
  /\ UNCHANGED <<pc, cached, applied, configured, cfgMap, param>> /\ Running

\* The write of the finalizer fails: the product fails and is not touched.
FinalizerRefused(p) ==
  /\ pc = "products" /\ p \in run.todo
  /\ ~Registered(p) /\ Refused(WithFinalizer(p))
  /\ inst' = WithFinalizer(p)
  /\ run' = [run EXCEPT !.todo = @ \ {p}, !.unfinished = TRUE, !.mismatch = Mismatch(p)]
  /\ cfgMap' = TRUE
  /\ UNCHANGED <<pc, cached, world3, param>> /\ Running

\* The product is reconciled up to a phase.  A namespace that is terminating
\* keeps it from being deployed, and so from completing.  "aborted": processStage
\* returns early because the product's watches cannot be created; the products
\* left are not reconciled and stage.Products is not updated.
ReconcileProduct(p, phase) ==
  /\ pc = "products" /\ p \in run.todo
  /\ IF Registered(p) THEN UNCHANGED <<cr, inst>> ELSE Update(WithFinalizer(p))
  /\ phase = "completed" => world[p] # "terminating"
  /\ \/ phase = "in progress" /\ UNCHANGED <<world, configured>>
     \/ /\ world[p] # "terminating"
        /\ world' = [world EXCEPT ![p] = "present"]
        /\ configured' = [configured EXCEPT ![p] = Configure(p)]
  /\ applied' = IF phase = "completed" THEN [applied EXCEPT ![p] = opVersion]
                ELSE applied
  /\ mem' = IF phase = "completed" THEN [mem EXCEPT ![p] = Ships[opVersion]] ELSE mem
  /\ run' = [run EXCEPT !.todo = IF phase = "aborted" THEN {} ELSE @ \ {p},
                        !.mismatch = Mismatch(p),
                        !.unfinished = @ \/ phase # "completed"]
  /\ IF phase = "completed" \/ (phase = "in progress" /\ world[p] = "terminating")
     THEN UNCHANGED bounds ELSE Disturbed
  /\ cfgMap' = TRUE
  /\ UNCHANGED <<cached, pc, up, installed, opVersion, param>>

\* processStage returns early because a reconciler cannot be built.
StageAborted ==
  /\ pc = "products" /\ run.todo # {}
  /\ run' = [run EXCEPT !.todo = {}, !.unfinished = TRUE]
  /\ Disturbed
  /\ UNCHANGED <<resource, inst, pc, cluster, param>> /\ Running

\* Mutated: does not wait for the stages to complete.
VersionCompleteEarly == inst.st.toVersion = opVersion

\* Every stage is complete, at the version that was announced.
VersionComplete == ~run.unfinished /\ inst.st.toVersion = opVersion /\ ~run.mismatch

\* Mutated: the quota is only reported together with a version.
QuotaCompleteWithVersion == VersionComplete

\* The quota of this pass has been applied to every product.
QuotaComplete == VersionComplete \/ (~run.unfinished /\ run.updated)

\* The end of Reconcile: the versions of stage.Products, then the version, the
\* quota and the stage go into the status.
FinalStatus ==
  [inst.st EXCEPT !.prod      = IF pc = "products" THEN mem ELSE @,
                  !.version   = IF VersionComplete THEN opVersion ELSE @,
                  !.toVersion = IF VersionComplete THEN 0 ELSE @,
                  !.quota     = IF QuotaComplete THEN run.quota ELSE @,
                  !.toQuota   = IF QuotaComplete THEN 0 ELSE @,
                  !.stage     = IF run.unfinished THEN @ ELSE "complete"]

\* The first half of updateStatusAndObject: a status that differs from the one that
\* was read goes to the server.  It may differ in a field the model leaves out.
Finish ==
  /\ pc = "finish" \/ (pc = "products" /\ run.todo = {})
  /\ LET obj == [inst EXCEPT !.st = FinalStatus]
     IN  \/ StatusUpdate(obj) /\ pc' = "object" /\ run' = NoRun /\ UNCHANGED bounds
         \/ /\ FinalStatus = run.orig
            /\ inst' = obj /\ pc' = "object" /\ run' = NoRun /\ UNCHANGED <<cr, bounds>>
         \/ Refused(obj) /\ Return
  /\ UNCHANGED <<cached, cluster, param>> /\ Running

\* The second half of updateStatusAndObject.
UpdateObject ==
  /\ pc = "object"
  /\ \/ Refused(inst)
     \/ Accepts(cr, inst) /\ cr' = Put(cr, inst, NewRV, NoObject) /\ UNCHANGED bounds
  /\ Return
  /\ UNCHANGED <<cached, cluster, param>> /\ Running

(***************************************************************************)
(* Uninstallation                                                          *)
(***************************************************************************)
UninstallStages == <<Products \ {CloudResources}, {CloudResources}, {}>>

\* strings.Contains(finalizer, productName) over the finalizers when the
\* uninstall began.
Matched(p) ==
  {f \in run.snap : f[2] = p \/ \E o \in Products : f[2] = o /\ <<p, o>> \in Infix}

\* handleUninstall up to the first stage: the alerts are deleted, or an error
\* ends the reconcile.
handleUninstall ==
  /\ pc = "uninstall"
  /\ \/ Return /\ Disturbed
     \/ /\ inst' = [inst EXCEPT !.st.stage = "deletion"]
        /\ run' = [NoRun EXCEPT !.snap = inst.fin, !.us = 1, !.todo = UninstallStages[1]]
        /\ pc' = "removing"
        /\ UNCHANGED bounds
  /\ UNCHANGED <<resource, cluster, param>> /\ Running

\* Mutated: a namespace that is not found does not count as cleaned up.
CleanedUpTerminating(p) == world[p] = "terminating" /\ p \notin WaitsForNamespace

\* The product's finalFunc reports completion.
CleanedUp(p) ==
  world[p] = "absent" \/ (world[p] = "terminating" /\ p \notin WaitsForNamespace)

\* The namespaces of the product are deleted.
Deleted(p) == [world EXCEPT ![p] = IF @ = "present" THEN "terminating" ELSE @]

\* Mutated: the finalizer goes in the reconcile that deletes the namespaces.
UninstallProductEarly(p) ==
  /\ pc = "removing" /\ p \in run.todo /\ Finalizer(p) \in inst.fin
  /\ inst' = [inst EXCEPT !.fin = @ \ {Finalizer(p)}] /\ world' = Deleted(p)
  /\ run' = [run EXCEPT !.todo = @ \ {p}]
  /\ UNCHANGED <<resource, pc, applied, configured, cfgMap, param, bounds>> /\ Running

\* handleUninstallProduct for a product whose clean up is still needed and runs:
\* the namespaces are deleted in one reconcile and found terminating, or gone, in
\* a later one.  Only then is the finalizer removed, in memory.
UninstallProduct(p) ==
  /\ pc = "removing" /\ p \in run.todo
  /\ Matched(p) # {} /\ Finalizer(p) \in inst.fin
  /\ \/ /\ inst' = [inst EXCEPT !.fin = IF CleanedUp(p) THEN @ \ {Finalizer(p)} ELSE @]
        /\ world' = Deleted(p)
        /\ run' = [run EXCEPT !.todo = @ \ {p}, !.unfinished = @ \/ ~CleanedUp(p)]
        /\ UNCHANGED bounds
     \/ /\ UNCHANGED inst
        /\ world' \in {world, Deleted(p)}
        /\ run' = [run EXCEPT !.todo = @ \ {p}, !.unfinished = TRUE, !.errs = TRUE]
        /\ Disturbed
  /\ cfgMap' = TRUE
  /\ UNCHANGED <<resource, pc, applied, configured, param>> /\ Running

\* handleUninstallProduct with nothing to clean up: no finalizer matched, or the
\* ones that did are not the product's own in the current format.
SkipProduct(p) ==
  /\ pc = "removing" /\ p \in run.todo
  /\ Matched(p) = {} \/ Finalizer(p) \notin inst.fin
  /\ run' = [run EXCEPT !.todo = @ \ {p}]
  /\ cfgMap' = (cfgMap \/ Matched(p) # {})
  /\ UNCHANGED <<resource, inst, pc, world3, param, bounds>> /\ Running

\* Mutated: moves on whether or not a product is pending.
StageRemovedEager == run.todo = {}

\* Every product of the stage has been handled and none is pending.
StageRemoved == run.todo = {} /\ ~run.unfinished

OnlyDeletionLeft == inst.fin = {DeletionFinalizer}

NextUninstallStage ==
  /\ pc = "removing" /\ StageRemoved
  /\ IF run.us < Len(UninstallStages)
     THEN /\ run' = [run EXCEPT !.us = @ + 1, !.todo = UninstallStages[run.us + 1]]
          /\ UNCHANGED pc
     ELSE /\ pc' = IF OnlyDeletionLeft THEN "tidy" ELSE "save"
          /\ UNCHANGED run
  /\ UNCHANGED <<resource, inst, cluster, param, bounds>> /\ Running

\* A product is pending.  After an error the status is written first, and the
\* answer puts the server's finalizers back into memory.
PendingUninstalls ==
  /\ pc = "removing" /\ run.todo = {} /\ run.unfinished
  /\ IF run.errs
     THEN \/ StatusUpdate(inst) /\ UNCHANGED bounds
          \/ Refused(inst) /\ UNCHANGED inst
     ELSE UNCHANGED <<cr, inst, bounds>>
  /\ pc' = "save"
  /\ UNCHANGED <<cached, run, cluster, param>> /\ Running

\* Writes the remaining finalizers and gives up until the next reconcile.
SaveFinalizers ==
  /\ pc = "save"
  /\ \/ Refused(inst)
     \/ Accepts(cr, inst) /\ cr' = Put(cr, inst, NewRV, NoObject) /\ UNCHANGED bounds
  /\ Return
  /\ UNCHANGED <<cached, cluster, param>> /\ Running

\* Mutated: an error while the ConfigMap is deleted is not looked at.
TidyUpUnchecked ==
  /\ pc = "tidy" /\ cfgMap' \in {cfgMap, FALSE}
  /\ inst' = [inst EXCEPT !.fin = @ \ {DeletionFinalizer}]
  /\ pc' = "release"
  /\ UNCHANGED <<resource, run, world3, param, bounds>> /\ Running

\* All products are gone: the ConfigMaps are deleted, then the deletion
\* finalizer is dropped in memory.
TidyUp ==
  /\ pc = "tidy"
  /\ \/ /\ cfgMap' = FALSE
        /\ inst' = [inst EXCEPT !.fin = @ \ {DeletionFinalizer}]
        /\ pc' = "release" /\ UNCHANGED bounds
     \/ /\ cfgMap' \in {cfgMap, FALSE}
        /\ pc' = "save" /\ UNCHANGED inst /\ Disturbed
  /\ UNCHANGED <<resource, run, world3, param>> /\ Running

\* The write that lets the resource go.
Release ==
  /\ pc = "release"
  /\ \/ Update(inst) /\ pc' = "goodbye" /\ UNCHANGED <<run, bounds>>
     \/ Refused(inst) /\ Return
  /\ UNCHANGED <<cached, cluster, param>> /\ Running

\* The operator deletes its own CSV; an error is returned and never retried,
\* because the resource is gone.
UninstallOperator ==
  /\ pc = "goodbye" /\ Return
  /\ \/ installed' = FALSE /\ up' = FALSE /\ UNCHANGED bounds
     \/ Disturbed /\ UNCHANGED <<installed, up>>
  /\ UNCHANGED <<resource, mem, opVersion, cluster, param>>

(***************************************************************************)
(* Everyone else                                                           *)
(***************************************************************************)
NoMem == [p \in Products |-> 0]

\* SetupWithManager: as an add-on the operator creates the resource when there
\* is none.  The cache is filled from the server.
Start ==
  /\ installed /\ ~up /\ up' = TRUE
  /\ cr' = IF cr.exists \/ StartFrom = "created" THEN cr ELSE Created(NewRV)
  /\ cached' = cr'
  /\ UNCHANGED <<inst, pc, run, mem, installed, opVersion, cluster, param, bounds>>

Stop == up' = FALSE /\ Return /\ mem' = NoMem

Crash ==
  /\ up /\ Stop /\ Disturbed
  /\ UNCHANGED <<resource, installed, opVersion, cluster, param>>

\* OLM replaces the operator by its next release.
Upgrade ==
  /\ installed /\ opVersion < MaxVersion /\ opVersion' = opVersion + 1
  /\ Stop
  /\ UNCHANGED <<resource, installed, cluster, param, bounds>>

CacheSync ==
  /\ up /\ cached # cr /\ cached' = cr
  /\ UNCHANGED <<cr, process, cluster, param, bounds>>

\* A user deletes the resource.  Without finalizers it goes at once, and the
\* admission handler for deletions may uninstall the operator with it.
DeleteCR ==
  /\ cr.exists /\ ~cr.deleting
  /\ IF cr.fin # {}
     THEN cr' = [cr EXCEPT !.deleting = TRUE, !.rv = NewRV] /\ UNCHANGED process
     ELSE /\ cr' = NoObject
          /\ \/ UNCHANGED process
             \/ installed' = FALSE /\ Stop /\ UNCHANGED opVersion
  /\ UNCHANGED <<cached, cluster, param, bounds>>

\* Anyone edits the metadata or the spec.
EditCR ==
  /\ cr.exists /\ cr' = [cr EXCEPT !.rv = NewRV]
  /\ Disturbed
  /\ UNCHANGED <<cached, process, cluster, param>>

ChangeQuota(q) ==
  /\ quotaChanges < MaxQuotaChanges /\ quotaChanges' = quotaChanges + 1
  /\ param # q /\ param' = q
  /\ UNCHANGED <<resource, process, cluster, disturbances>>

\* The cluster finishes deleting the namespaces of a product.
NamespaceGone(p) ==
  /\ world[p] = "terminating"
  /\ world' = [world EXCEPT ![p] = "absent"]
  /\ configured' = [configured EXCEPT ![p] = 0]
  /\ UNCHANGED <<resource, process, applied, cfgMap, param, bounds>>

(***************************************************************************)
(* The specification                                                       *)
(***************************************************************************)
\* "legacy": installed by a release that wrote old format finalizers.
LegacyCR ==
  [Created(0) EXCEPT
     !.fin = {PreviousFinalizer(o) : o \in Owners},
     !.st = [NoStatus EXCEPT !.preflight = "success", !.version = 1, !.quota = 1,
                             !.stage = "complete",
                             !.prod = [p \in Products |-> Ships[1]]]]

Init ==
  LET legacy == StartFrom = "legacy"
  IN  /\ cr = IF legacy THEN LegacyCR
              ELSE IF StartFrom = "created" THEN Created(0) ELSE NoObject
      /\ cached = cr
      /\ inst = NoObject /\ pc = "idle" /\ run = NoRun /\ mem = NoMem
      /\ up = FALSE /\ installed = TRUE
      /\ opVersion = IF legacy THEN MaxVersion ELSE 1
      /\ world = [p \in Products |-> IF legacy THEN "present" ELSE "absent"]
      /\ applied = [p \in Products |-> IF legacy THEN 1 ELSE 0]
      /\ configured = applied
      /\ cfgMap = legacy
      /\ param \in 1 .. MaxQuota
      /\ disturbances = 0 /\ quotaChanges = 0

OperatorStep ==
  \/ Reconcile
  \/ CopyEmail
  \/ EnsureDeletionFinalizer
  \/ \E outcome \in {"success", "fail"} : preflightChecks(outcome)
  \/ EarlyError
  \/ SetToVersion
  \/ \E quotaRead, completed \in BOOLEAN : bootstrapStage(quotaRead, completed)
  \/ \E p \in Products : FinalizerRefused(p)
  \/ \E p \in Products, phase \in {"completed", "in progress", "aborted"} :
        ReconcileProduct(p, phase)
  \/ StageAborted
  \/ Finish
  \/ UpdateObject
  \/ handleUninstall
  \/ \E p \in Products : UninstallProduct(p)
  \/ \E p \in Products : SkipProduct(p)
  \/ NextUninstallStage
  \/ PendingUninstalls
  \/ SaveFinalizers
  \/ TidyUp
  \/ Release
  \/ UninstallOperator

Next ==
  \/ OperatorStep
  \/ Start
  \/ Crash
  \/ Upgrade
  \/ CacheSync
  \/ DeleteCR
  \/ EditCR
  \/ \E q \in 1 .. MaxQuota : ChangeQuota(q)
  \/ \E p \in Products : NamespaceGone(p)

Spec == Init /\ [][Next]_vars

\* The worker, the cache and the cluster keep going: a reconcile is requeued
\* after every return, OLM keeps the operator's deployment running, and a
\* namespace that is being deleted is eventually gone.
Fairness ==
  /\ WF_vars(OperatorStep)
  /\ WF_vars(Start)
  /\ WF_vars(CacheSync)
  /\ \A p \in Products : WF_vars(NamespaceGone(p))

FairSpec == Spec /\ Fairness

(***************************************************************************)
(* Properties                                                              *)
(***************************************************************************)
Locals == [todo : SUBSET Products, snap : SUBSET Finalizers, us : 0 .. 3,
           unfinished : BOOLEAN, errs : BOOLEAN, mismatch : BOOLEAN,
           quota : Quotas, updated : BOOLEAN, orig : Status]

\* Every variable keeps its type.
TypeOK ==
  /\ cr \in Object /\ cached \in Object /\ inst \in Object
  /\ pc \in {"idle", "begin", "preflight", "version", "bootstrap", "products", "finish",
             "object", "uninstall", "removing", "save", "tidy", "release", "goodbye"}
  /\ run \in Locals
  /\ mem \in [Products -> Versions]
  /\ up \in BOOLEAN /\ installed \in BOOLEAN /\ cfgMap \in BOOLEAN
  /\ opVersion \in 1 .. MaxVersion
  /\ world \in [Products -> {"absent", "present", "terminating"}]
  /\ applied \in [Products -> Versions]
  /\ configured \in [Products -> Quotas]
  /\ param \in 1 .. MaxQuota
  /\ disturbances \in 0 .. MaxDisturbances
  /\ quotaChanges \in 0 .. MaxQuotaChanges

\* A resource carries finalizers only once its preflight checks have passed.
\* Reconcile looks at the preflight status before it looks at the deletion
\* timestamp, so a resource with finalizers and failed checks could never be
\* uninstalled.
FinalizersAfterPreflight == cr.fin # {} => cr.st.preflight = "success"

HasDeletion(fin) == DeletionFinalizer \in fin \/ PreviousFinalizer("deletion") \in fin

Guarded(p, fin) == Finalizer(p) \in fin \/ PreviousFinalizer(p) \in fin

\* A product that is deployed is guarded by a finalizer on the server, through
\* stale reads, conflicts, crashes, upgrades and deletions at any point.
NoOrphans == \A p \in Products : world[p] = "present" => Guarded(p, cr.fin)

\* A finalizer is never there in both formats, on the server, in the cache or in
\* the copy of the running reconcile.  UpdateFinalizer would then write the new one twice, and
\* Remove, which slices the list it ranges over, does not survive a duplicate.
OneFormat ==
  \A obj \in {cr, cached, inst}, o \in Owners :
    ~(Finalizer(o) \in obj.fin /\ PreviousFinalizer(o) \in obj.fin)

\* The resource reports a version only if every product has been reconciled to
\* completion by that release of the operator or a later one.
VersionMeansDone == \A p \in Products : applied[p] >= cr.st.version

\* Cloud resources are torn down only when no other product is still running on
\* them, and those that wait for their namespace have seen it go.
CloudResourcesLast ==
  [][world[CloudResources] = "present" /\ world'[CloudResources] = "terminating" =>
       \A p \in Products \ {CloudResources} :
         world[p] = "absent" \/ (world[p] = "terminating" /\ p \notin WaitsForNamespace)
    ]_vars

\* A resource under deletion disappears only when no product is running any
\* more and, if it carries the deletion finalizer, the installation ConfigMap has
\* been deleted.
UninstallIsComplete ==
  [][cr.deleting /\ ~cr'.exists =>
       /\ \A p \in Products : world[p] # "present"
       /\ HasDeletion(cr.fin) => ~cfgMap]_vars

\* The status names a new quota only at the end of a pass in which every product
\* was sized for it.
QuotaMeansConfigured ==
  [][cr'.exists /\ cr'.st.quota # cr.st.quota =>
       \A p \in Products : configured[p] = cr'.st.quota]_vars

\* A resource that is being deleted is eventually gone.
UninstallTerminates == cr.deleting ~> ~cr.exists

\* An installation reaches the version of the running operator, unless it is
\* deleted first.
VersionReached ==
  cr.exists ~> (cr.st.version = opVersion \/ cr.deleting \/ ~cr.exists)

\* The same, unless the operator was replaced while the version of an earlier
\* release was still announced: then the announcement is never renewed.
AnnouncedVersionReached ==
  \A v \in 1 .. MaxVersion :
    (cr.exists /\ opVersion = v /\ cr.st.toVersion \in {0, v}) ~>
      (cr.st.version = v \/ cr.deleting \/ ~cr.exists \/ opVersion # v)

\* A quota parameter that stops changing ends up in status.quota, and
\* status.toQuota is cleared.
QuotaSettles ==
  <>[](\/ cr.st.quota = param /\ cr.st.toQuota = 0
       \/ cr.deleting \/ ~cr.exists)

(***************************************************************************)
(* The inductive invariant                                                 *)
(***************************************************************************)
InstallPcs   == {"version", "bootstrap", "products", "finish", "object"}
UninstallPcs == {"uninstall", "removing", "save", "tidy", "release", "goodbye"}

\* A copy of the resource that carries the version the server holds.
Current(obj) == cr.exists /\ obj.exists /\ obj.rv = cr.rv

\* Objects that do not exist are blank, and only finalizers keep a resource that
\* is being deleted.
ObjectFacts ==
  /\ ~cr.exists => cr = NoObject
  /\ ~cached.exists => cached = NoObject
  /\ cr.deleting => cr.fin # {}
  /\ cached.deleting => cached.fin # {}

\* The cache is an earlier state of the server's object.  Finalizers of products
\* are only removed from an object that is being deleted.
CacheLags ==
  /\ Current(cached) => cached = cr
  /\ cached.deleting /\ cr.exists => cr.deleting
  /\ cached.exists /\ ~cached.deleting =>
       \A p \in Products : Finalizer(p) \in cached.fin => Finalizer(p) \in cr.fin

ResourceInv == ObjectFacts /\ CacheLags /\ FinalizersAfterPreflight /\ NoOrphans

\* A reconcile that is not running holds nothing; one that drops the deletion
\* finalizer has found no other and deleted the ConfigMap.
RunFacts ==
  /\ pc = "idle" => inst = NoObject /\ run = NoRun
  /\ pc # "idle" => inst.exists /\ up
  /\ pc = "tidy" => inst.fin = {DeletionFinalizer}
  /\ pc = "release" => inst.fin = {}
  /\ pc \in {"release", "goodbye"} => ~cfgMap

\* What the branch taken by Reconcile says about the copy it works on.
BranchFacts ==
  /\ pc = "preflight" => inst.st.preflight # "success"
  /\ pc \in InstallPcs => inst.st.preflight = "success" /\ ~inst.deleting
  /\ pc \in UninstallPcs => inst.st.preflight = "success" /\ inst.deleting

\* The copy of the running reconcile is based on an earlier state of the object,
\* and if a write of it would be accepted it hides no finalizer.
CopyLags ==
  /\ Current(inst) /\ pc = "begin" => inst = cr
  /\ Current(inst) => inst.deleting = cr.deleting /\ inst.st.preflight = cr.st.preflight
  /\ inst.deleting => (cr.exists => cr.deleting) /\ (cached.exists => cached.deleting)
  /\ ~inst.deleting /\ pc \in {"begin", "version", "bootstrap", "products"} =>
       \A p \in Products :
         (pc = "products" => p \in run.todo) /\ Finalizer(p) \in inst.fin =>
           Finalizer(p) \in cr.fin
  /\ Current(inst) /\ ~inst.deleting /\ pc # "preflight" =>
       \A p \in Products : Finalizer(p) \in cr.fin => Finalizer(p) \in inst.fin
  /\ Current(inst) /\ inst.deleting /\ pc \notin {"release", "goodbye"} =>
       (HasDeletion(cr.fin) => HasDeletion(inst.fin))
  /\ Current(inst) =>
       \A p \in Products : world[p] = "present" => Guarded(p, inst.fin)

CopyInv == RunFacts /\ BranchFacts /\ CopyLags

CoreInv == TypeOK /\ ResourceInv /\ CopyInv

\* A version in the status of any copy has been reached by every product, and
\* none is ahead of the operator.
VersionFacts ==
  \A p \in Products :
    /\ applied[p] <= opVersion
    /\ cr.st.version <= applied[p] /\ cached.st.version <= applied[p]
    /\ inst.st.version <= applied[p]

\* The products that a pass without failures has behind it are deployed, at the
\* operator's version and, if the quota has changed, of its size.  A pass that found
\* no change has the quota of the copy it works on.
PassFacts ==
  /\ pc = "finish" => run.unfinished
  /\ pc = "products" /\ ~run.unfinished =>
       \A p \in Products \ run.todo :
         /\ applied[p] = opVersion /\ world[p] = "present"
         /\ run.updated => configured[p] = run.quota
  /\ pc = "products" /\ ~run.updated => run.quota = inst.st.quota
  /\ Current(inst) /\ pc # "object" => inst.st.quota = cr.st.quota

PassInv == VersionFacts /\ PassFacts

\* A product whose finalizer is not among fin needs no clean up any more.
Settled(fin) == \A p \in Products : Finalizer(p) \in fin \/ CleanedUp(p)

\* Finalizers go only after the clean up, on the server and in every copy of a
\* resource under deletion.  While an installation runs on a stale copy, the cache
\* has the finalizers of the products it has yet to reconcile.
SettledFacts ==
  /\ Settled(cr.fin)
  /\ cached.deleting => Settled(cached.fin)
  /\ inst.deleting => Settled(inst.fin)
  /\ cached.deleting /\ ~inst.deleting /\ pc \in {"begin", "version", "bootstrap", "products"} =>
       \A p \in Products :
         (pc = "products" => p \in run.todo) /\ Finalizer(p) \in inst.fin =>
           Finalizer(p) \in cached.fin

\* The stage of the cloud resources is reached only after everyone else's.
StageFacts ==
  pc = "removing" =>
    /\ inst.fin \subseteq run.snap
    /\ run.us \in 1 .. 3 /\ run.todo \subseteq UninstallStages[run.us]
    /\ run.us > 1 \/ ~run.unfinished =>
         \A p \in Products \ {CloudResources} : (run.us = 1 /\ p \in run.todo) \/ CleanedUp(p)

\* An installation of a release that wrote the old format starts without the
\* finalizers that handleUninstallProduct looks for.
TeardownInv == StartFrom # "legacy" => SettledFacts /\ StageFacts

\* Inductive, and strong enough for the safety properties it is used for.
IInv == CoreInv /\ PassInv /\ TeardownInv

================================================================================
