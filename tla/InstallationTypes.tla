--------------------------- MODULE InstallationTypes ---------------------------
(***************************************************************************)
(* Theorems about Installation, for any products, releases, quotas, bounds *)
(* and any way the resource came to be.  First what the writes of the API  *)
(* server do, and types; then PassInv, the layer of the invariant about    *)
(* the versions and quotas that a pass over the products may report, which *)
(* rests on CoreInv of InstallationProofs.                                 *)
(***************************************************************************)
EXTENDS Installation, TLAPS

(***************************************************************************)
(* The API server                                                          *)
(***************************************************************************)
\* Among four tokens there is one that three copies of the object do not carry.
LEMMA FreshRVIsFresh ==
  ASSUME NEW a, NEW b, NEW c
  PROVE  FreshRV(a, b, c) \in RVs /\ FreshRV(a, b, c) \notin {a.rv, b.rv, c.rv}
<1>1. \E v \in RVs : v \notin {a.rv, b.rv, c.rv}
  BY DEF RVs
<1>. QED  BY <1>1 DEF FreshRV

\* The version of the next write is none that a copy has.
LEMMA NewRVIsFresh ==
  NewRV \in RVs /\ NewRV # cr.rv /\ NewRV # cached.rv /\ NewRV # inst.rv
BY FreshRVIsFresh DEF NewRV

\* The blank object and the blank status are typed.
LEMMA NoObjectType == NoObject \in Object /\ NoStatus \in Status
BY BoundsAssumption DEF NoObject, NoStatus, Object, Status, Versions, Quotas, Stages, RVs, Finalizers

\* So is a resource that was just created.
LEMMA CreatedType == ASSUME NEW rv \in RVs PROVE Created(rv) \in Object
BY Zenon, NoObjectType DEF Created, Object

\* So are the locals of a reconcile that does not run.
LEMMA NoRunType == NoRun \in Locals
<1>1. NoStatus \in Status
  BY NoObjectType DEF NoObject, Object
<1>. QED  BY <1>1, BoundsAssumption DEF NoRun, Locals, Quotas

\* The answer to client.Update, which the caller's copy becomes.
LEMMA StoredFacts ==
  ASSUME NEW server \in Object, NEW obj \in Object, NEW rv \in RVs
  PROVE  LET o == Stored(server, obj, rv)
         IN  /\ o \in Object
             /\ o.exists = server.exists /\ o.deleting = server.deleting
             /\ o.st = server.st /\ o.fin = obj.fin
BY Zenon DEF Stored, Object

\* What it leaves on the server: the resource, or nothing.
LEMMA PutFacts ==
  ASSUME NEW server \in Object, NEW obj \in Object, NEW rv \in RVs
  PROVE  LET s == Put(server, obj, rv, NoObject)
         IN  /\ s \in Object
             /\ s = NoObject \/ (s.st = server.st /\ s.fin = obj.fin)
BY Zenon, NoObjectType, StoredFacts DEF Put, Collected

\* What client.Status().Update does to it.
LEMMA PutStatusFacts ==
  ASSUME NEW server \in Object, NEW obj \in Object, NEW rv \in RVs
  PROVE  LET s == PutStatus(server, obj, rv)
         IN  /\ s \in Object
             /\ s.st = obj.st /\ s.fin = server.fin /\ s.exists = server.exists
             /\ s.deleting = server.deleting
             /\ (s = server) \/ s.rv = rv
BY Zenon DEF PutStatus, Object

(***************************************************************************)
(* Types                                                                   *)
(***************************************************************************)
\* The writes of a reconcile keep the server's object and the caller's copy
\* objects.
LEMMA UpdateType ==
  ASSUME TypeOK, NEW obj \in Object, Update(obj)
  PROVE  cr' \in Object /\ inst' \in Object
<1>1. cr' \in Object
  BY Zenon, NewRVIsFresh, PutFacts DEF Update, TypeOK
<1>. QED  BY Zenon, <1>1, NewRVIsFresh, StoredFacts DEF Update, TypeOK

\* A write of the status keeps the types.
LEMMA StatusUpdateType ==
  ASSUME TypeOK, NEW obj \in Object, StatusUpdate(obj)
  PROVE  cr' \in Object /\ inst' \in Object
<1>1. cr' \in Object
  BY NewRVIsFresh, PutStatusFacts DEF StatusUpdate, TypeOK
<1>. QED  BY <1>1 DEF StatusUpdate

\* So does the end of a reconcile.
LEMMA ReturnType ==
  ASSUME Return
  PROVE  inst' \in Object /\ pc' = "idle" /\ run' \in Locals
BY NoObjectType, NoRunType DEF Return

\* Disturbances and quota changes stay within their bounds.
LEMMA DisturbedType ==
  ASSUME TypeOK, Disturbed \/ UNCHANGED bounds
  PROVE  disturbances' \in 0 .. MaxDisturbances /\ quotaChanges' \in 0 .. MaxQuotaChanges
BY SMTT(30), BoundsAssumption DEF TypeOK, Disturbed, bounds

\* A write that is refused leaves the server alone.
LEMMA RefusedFacts ==
  ASSUME NEW obj, Refused(obj)
  PROVE  cr' = cr /\ (Disturbed \/ UNCHANGED bounds)
BY DEF Refused

\* The version and the quotas a reconcile handles are versions and quotas.
LEMMA ScalarTypes ==
  ASSUME TypeOK
  PROVE  /\ opVersion \in Versions /\ Ships[opVersion] \in Versions /\ 0 \in Versions
         /\ param \in Quotas /\ 0 \in Quotas /\ run.quota \in Quotas
<1>1. opVersion \in 1 .. MaxVersion /\ param \in 1 .. MaxQuota /\ run \in Locals
  BY DEF TypeOK
<1>2. Ships[opVersion] \in 1 .. MaxVersion
  BY <1>1, BoundsAssumption
<1>3. run.quota \in Quotas
  BY <1>1 DEF Locals
<1>. QED  BY <1>1, <1>2, <1>3, BoundsAssumption DEF Versions, Quotas

\* The finalizers of the operator and of every product are finalizers, in both formats.
LEMMA DeletionIsFinalizer ==
  /\ DeletionFinalizer \in Finalizers
  /\ PreviousFinalizer("deletion") \in Finalizers
  /\ \A p \in Products : Finalizer(p) \in Finalizers /\ PreviousFinalizer(p) \in Finalizers
BY DEF DeletionFinalizer, Finalizer, PreviousFinalizer, Finalizers, Owners

\* The first state is typed.
LEMMA InitType == Init => TypeOK
<1>. SUFFICES ASSUME Init PROVE TypeOK
  OBVIOUS
<1>1. LegacyCR \in Object
  <2>. DEFINE st == [NoStatus EXCEPT !.preflight = "success", !.version = 1, !.quota = 1,
                                     !.stage = "complete",
                                     !.prod = [p \in Products |-> Ships[1]]]
  <2>1. [p \in Products |-> Ships[1]] \in [Products -> Versions]
    BY BoundsAssumption DEF Versions
  <2>a. 1 \in Versions /\ 1 \in Quotas
    BY BoundsAssumption DEF Versions, Quotas
  <2>b. "complete" \in Stages
    BY DEF Stages
  <2>2. st \in Status
    BY Zenon, <2>1, <2>a, <2>b, NoObjectType DEF Status
  <2>3. {PreviousFinalizer(o) : o \in Owners} \in SUBSET Finalizers
    BY DEF PreviousFinalizer, Finalizers
  <2>4. Created(0) \in Object
    BY CreatedType DEF RVs
  <2>. HIDE DEF st
  <2>5. [Created(0) EXCEPT !.fin = {PreviousFinalizer(o) : o \in Owners}, !.st = st] \in Object
    BY Zenon, <2>2, <2>3, <2>4 DEF Object
  <2>. QED  BY <2>5 DEF LegacyCR, st
<1>2. cr \in Object /\ cached \in Object /\ inst \in Object
  BY <1>1, CreatedType, NoObjectType DEF Init, RVs
<1>3. mem \in [Products -> Versions]
  BY BoundsAssumption DEF Init, NoMem, Versions
<1>4. /\ world \in [Products -> {"absent", "present", "terminating"}]
      /\ applied \in [Products -> Versions]
      /\ configured \in [Products -> Quotas]
  BY BoundsAssumption DEF Init, Versions, Quotas
<1>5. cfgMap \in BOOLEAN
  BY DEF Init
<1>6. opVersion \in 1 .. MaxVersion /\ param \in 1 .. MaxQuota
  BY BoundsAssumption DEF Init
<1>7. disturbances \in 0 .. MaxDisturbances /\ quotaChanges \in 0 .. MaxQuotaChanges
  BY BoundsAssumption DEF Init
<1>8. up \in BOOLEAN /\ installed \in BOOLEAN /\ pc = "idle" /\ run \in Locals
  BY Zenon, NoRunType DEF Init
<1>. QED  BY <1>2, <1>3, <1>4, <1>5, <1>6, <1>7, <1>8 DEF TypeOK

\* Updates of an object and of the locals, field by field.
LEMMA ObjectUpdates ==
  ASSUME NEW o \in Object
  PROVE  /\ o.exists \in BOOLEAN /\ o.deleting \in BOOLEAN /\ o.rv \in RVs
         /\ o.fin \in SUBSET Finalizers /\ o.st \in Status
         /\ \A v \in RVs : [o EXCEPT !.rv = v] \in Object
         /\ \A v \in RVs : [o EXCEPT !.deleting = TRUE, !.rv = v] \in Object
         /\ \A f \in SUBSET Finalizers : [o EXCEPT !.fin = f] \in Object
         /\ \A s \in Status : [o EXCEPT !.st = s] \in Object
BY Zenon DEF Object

\* An object stays typed when fields of its status are set.
LEMMA StatusUpdates ==
  ASSUME NEW o \in Object
  PROVE  /\ \A x \in Stages : [o EXCEPT !.st.stage = x] \in Object
         /\ \A x \in Versions : [o EXCEPT !.st.toVersion = x] \in Object
         /\ \A x \in Stages, y \in {"success", "fail"} :
              [o EXCEPT !.st.stage = x, !.st.preflight = y] \in Object
         /\ \A x \in Stages, y \in Quotas :
              [o EXCEPT !.st.stage = x, !.st.toQuota = y] \in Object
BY Zenon DEF Object, Status

\* The status that the end of Reconcile writes.
LEMMA FinalStatusFacts ==
  ASSUME TypeOK
  PROVE  /\ FinalStatus \in Status
         /\ FinalStatus.preflight = inst.st.preflight
         /\ FinalStatus.version = IF VersionComplete THEN opVersion ELSE inst.st.version
         /\ FinalStatus.quota = IF QuotaComplete THEN run.quota ELSE inst.st.quota
<1>1. /\ inst.st \in Status /\ mem \in [Products -> Versions]
      /\ opVersion \in Versions /\ 0 \in Versions /\ 0 \in Quotas /\ run.quota \in Quotas
      /\ "complete" \in Stages
  BY Zenon, ScalarTypes, ObjectUpdates DEF TypeOK, Stages
<1>. QED  BY ZenonT(40), <1>1 DEF Status, FinalStatus

\* Every step keeps the types.
LEMMA StepType == TypeOK /\ [Next]_vars => TypeOK'
<1>. SUFFICES ASSUME TypeOK, [Next]_vars PROVE TypeOK'
  OBVIOUS
<1>. USE DEF resource, process, cluster, world3, Running
<1>0. NewRV \in RVs
  BY NewRVIsFresh
<1>1. CASE Reconcile
  <2>1. run' \in Locals
    BY <1>1, NoRunType DEF Reconcile, TypeOK, Object, Locals
  <2>. QED  BY <1>1, <2>1 DEF Reconcile, TypeOK, bounds
<1>2. CASE CopyEmail
  <2>1. cr \in Object /\ inst \in Object
    BY DEF TypeOK
  <2>2. cr' \in Object /\ inst' \in Object
    BY Zenon, <1>0, <1>2, <2>1, ObjectUpdates DEF CopyEmail
  <2>. QED  BY <1>2, <2>2, DisturbedType DEF CopyEmail, TypeOK
<1>3. CASE EnsureDeletionFinalizer
  <2>. DEFINE obj == [inst EXCEPT !.fin = (@ \ {PreviousFinalizer("deletion")})
                                          \cup {DeletionFinalizer}]
  <2>1. obj \in Object
    BY Zenon, ObjectUpdates, DeletionIsFinalizer DEF TypeOK
  <2>2. [inst EXCEPT !.fin = @ \cup {DeletionFinalizer}] \in Object
    BY Zenon, ObjectUpdates, DeletionIsFinalizer DEF TypeOK
  <2>. HIDE DEF obj
  <2>3. /\ cr' \in Object /\ inst' \in Object /\ run' \in Locals
        /\ pc' \in {"idle", "preflight", "uninstall", "version"}
    BY <1>3, <2>1, <2>2, UpdateType, ReturnType, RefusedFacts
    DEF EnsureDeletionFinalizer, Branch, TypeOK, obj
  <2>4. Disturbed \/ UNCHANGED bounds
    BY <1>3, RefusedFacts DEF EnsureDeletionFinalizer
  <2>. QED  BY <1>3, <2>3, <2>4, DisturbedType DEF EnsureDeletionFinalizer, TypeOK
<1>4. ASSUME NEW outcome \in {"success", "fail"}, preflightChecks(outcome) PROVE TypeOK'
  <2>. DEFINE obj == [inst EXCEPT !.st.stage = "Preflight Checks", !.st.preflight = outcome]
  <2>1. obj \in Object
    BY Zenon, StatusUpdates DEF TypeOK, Stages
  <2>. HIDE DEF obj
  <2>2. cr' = cr \/ cr' = PutStatus(cr, obj, NewRV)
    BY <1>4, RefusedFacts DEF preflightChecks, obj
  <2>3. cr' \in Object
    <3>1. cr \in Object
      BY DEF TypeOK
    <3>2. PutStatus(cr, obj, NewRV) \in Object
      BY <1>0, <2>1, <3>1, PutStatusFacts
    <3>. QED  BY <2>2, <3>1, <3>2
  <2>4. Disturbed \/ UNCHANGED bounds
    BY <1>4, RefusedFacts DEF preflightChecks
  <2>. QED  BY Zenon, <1>4, <2>3, <2>4, ReturnType, DisturbedType DEF preflightChecks, TypeOK
<1>5. CASE EarlyError
  BY <1>5, ReturnType, DisturbedType DEF EarlyError, TypeOK
<1>6. CASE SetToVersion
  <2>. DEFINE obj == [inst EXCEPT !.st.toVersion = opVersion]
  <2>1. opVersion \in Versions
    BY ScalarTypes
  <2>2. obj \in Object
    BY Zenon, <2>1, StatusUpdates DEF TypeOK
  <2>. HIDE DEF obj
  <2>3. /\ cr' \in Object /\ inst' \in Object /\ run' \in Locals
        /\ pc' \in {"idle", "bootstrap"}
    BY <1>6, <2>2, StatusUpdateType, ReturnType, RefusedFacts DEF SetToVersion, TypeOK, obj
  <2>4. Disturbed \/ UNCHANGED bounds
    BY <1>6, RefusedFacts DEF SetToVersion
  <2>. QED  BY <1>6, <2>3, <2>4, DisturbedType DEF SetToVersion, TypeOK
<1>7. ASSUME NEW quotaRead \in BOOLEAN, NEW completed \in BOOLEAN,
             bootstrapStage(quotaRead, completed)
      PROVE  TypeOK'
  <2>. DEFINE changed == quotaRead /\ QuotaChanged
  <2>0. param \in Quotas /\ 0 \in Quotas /\ inst.st.toQuota \in Quotas
    BY BoundsAssumption DEF TypeOK, Quotas, Object, Status
  <2>1. inst' = [inst EXCEPT !.st.stage = IF completed THEN "installation" ELSE "bootstrap",
                             !.st.toQuota = IF changed THEN param ELSE @]
    BY <1>7 DEF bootstrapStage
  <2>2. inst' \in Object
    BY Zenon, <2>0, <2>1, StatusUpdates DEF TypeOK, Stages
  <2>3. run' = [NoRun EXCEPT !.todo = IF completed THEN Products ELSE {},
                             !.unfinished = ~completed,
                             !.quota = IF quotaRead THEN param ELSE 0,
                             !.updated = changed, !.orig = run.orig]
    BY <1>7 DEF bootstrapStage
  <2>4. changed \in BOOLEAN /\ (~completed) \in BOOLEAN /\ run.orig \in Status
    BY DEF TypeOK, Locals
  <2>. HIDE DEF changed
  <2>5. run' \in Locals
    BY Zenon, <2>0, <2>3, <2>4, NoRunType DEF Locals
  <2>. QED  BY <1>7, <2>2, <2>5, DisturbedType DEF bootstrapStage, TypeOK
<1>8. ASSUME NEW p \in Products, FinalizerRefused(p) PROVE TypeOK'
  <2>1. inst' \in Object
    BY Zenon, <1>8, ObjectUpdates, DeletionIsFinalizer DEF FinalizerRefused, WithFinalizer, TypeOK
  <2>2. Mismatch(p) \in BOOLEAN
    BY DEF Mismatch, TypeOK, Locals
  <2>3. run' \in Locals
    BY Zenon, <1>8, <2>2 DEF FinalizerRefused, TypeOK, Locals
  <2>. QED  BY <1>8, <2>1, <2>3, DisturbedType, RefusedFacts DEF FinalizerRefused, TypeOK
<1>9. ASSUME NEW p \in Products, NEW phase \in {"completed", "in progress", "aborted"},
             ReconcileProduct(p, phase)
      PROVE  TypeOK'
  <2>1. WithFinalizer(p) \in Object
    BY Zenon, ObjectUpdates, DeletionIsFinalizer DEF WithFinalizer, TypeOK
  <2>2. cr' \in Object /\ inst' \in Object
    BY <1>9, <2>1, UpdateType DEF ReconcileProduct, TypeOK
  <2>3. Mismatch(p) \in BOOLEAN /\ (phase # "completed") \in BOOLEAN
    BY DEF Mismatch, TypeOK, Locals
  <2>4. run' \in Locals
    BY <1>9, <2>3 DEF ReconcileProduct, TypeOK, Locals
  <2>5. Configure(p) \in Quotas
    BY DEF Configure, TypeOK, Locals
  <2>6. opVersion \in Versions /\ Ships[opVersion] \in Versions
    BY ScalarTypes
  <2>7. /\ world' \in [Products -> {"absent", "present", "terminating"}]
        /\ applied' \in [Products -> Versions]
        /\ configured' \in [Products -> Quotas]
        /\ mem' \in [Products -> Versions]
    BY <1>9, <2>5, <2>6 DEF ReconcileProduct, TypeOK
  <2>8. disturbances' \in 0 .. MaxDisturbances /\ quotaChanges' \in 0 .. MaxQuotaChanges
    BY <1>9, DisturbedType DEF ReconcileProduct
  <2>. QED  BY <1>9, <2>2, <2>4, <2>7, <2>8 DEF ReconcileProduct, TypeOK
<1>10. CASE StageAborted
  <2>1. run' \in Locals
    BY Zenon, <1>10 DEF StageAborted, TypeOK, Locals
  <2>. QED  BY <1>10, <2>1, DisturbedType DEF StageAborted, TypeOK
<1>11. CASE Finish
  <2>. DEFINE obj == [inst EXCEPT !.st = FinalStatus]
  <2>1. /\ inst \in Object /\ inst.st \in Status /\ mem \in [Products -> Versions]
        /\ opVersion \in Versions /\ 0 \in Versions /\ 0 \in Quotas /\ run.quota \in Quotas
        /\ "complete" \in Stages
    BY Zenon, ScalarTypes, ObjectUpdates DEF TypeOK, Stages
  <2>2. (\/ StatusUpdate(obj) /\ pc' = "object" /\ run' = NoRun /\ UNCHANGED bounds
         \/ inst' = obj /\ pc' = "object" /\ run' = NoRun /\ UNCHANGED <<cr, bounds>>
         \/ Refused(obj) /\ Return)
    BY <1>11 DEF Finish
  <2>3. FinalStatus \in Status
    BY FinalStatusFacts
  <2>4. obj \in Object
    BY ZenonT(40), <2>1, <2>3, ObjectUpdates
  <2>. HIDE DEF obj
  <2>5. cr' \in Object /\ inst' \in Object /\ run' \in Locals /\ pc' \in {"object", "idle"}
    BY <2>2, <2>4, StatusUpdateType, ReturnType, NoRunType, RefusedFacts DEF TypeOK
  <2>. QED  BY <1>11, <2>2, <2>5, DisturbedType, RefusedFacts DEF Finish, TypeOK
<1>12. ASSUME UpdateObject \/ SaveFinalizers PROVE TypeOK'
  <2>1. cr' \in Object
    <3>1. cr \in Object /\ inst \in Object
      BY DEF TypeOK
    <3>2. Put(cr, inst, NewRV, NoObject) \in Object
      BY Zenon, <1>0, <3>1, PutFacts
    <3>. QED  BY <1>12, <3>1, <3>2, RefusedFacts DEF UpdateObject, SaveFinalizers
  <2>. QED
    BY <1>12, <2>1, ReturnType, DisturbedType, RefusedFacts
    DEF UpdateObject, SaveFinalizers, TypeOK
<1>13. CASE handleUninstall
  <2>1. inst' \in Object
    BY Zenon, <1>13, StatusUpdates, ReturnType DEF handleUninstall, TypeOK, Stages
  <2>2. UninstallStages[1] \in SUBSET Products /\ inst.fin \in SUBSET Finalizers
    BY Zenon, ObjectUpdates DEF UninstallStages, TypeOK
  <2>3. run' \in Locals
    <3>0. 1 \in 0 .. 3
      OBVIOUS
    <3>. DEFINE r == [NoRun EXCEPT !.snap = inst.fin, !.us = 1, !.todo = UninstallStages[1]]
    <3>1. r \in Locals
      BY <2>2, <3>0, NoRunType, Zenon DEF Locals
    <3>. QED  BY <1>13, <3>1, ReturnType DEF handleUninstall
  <2>4. pc' \in {"idle", "removing"}
    BY <1>13, ReturnType DEF handleUninstall
  <2>. QED  BY <1>13, <2>1, <2>3, <2>4, DisturbedType DEF handleUninstall, TypeOK
<1>14. ASSUME NEW p \in Products, UninstallProduct(p) PROVE TypeOK'
  <2>1. inst' \in Object
    <3>1. inst \in Object /\ inst.fin \ {Finalizer(p)} \in SUBSET Finalizers
      BY Zenon, ObjectUpdates DEF TypeOK
    <3>2. /\ [inst EXCEPT !.fin = inst.fin \ {Finalizer(p)}] \in Object
          /\ [inst EXCEPT !.fin = inst.fin] \in Object
      BY Zenon, <3>1, ObjectUpdates
    <3>. QED  BY <1>14, <3>1, <3>2 DEF UninstallProduct
  <2>2. world' \in [Products -> {"absent", "present", "terminating"}]
    BY <1>14 DEF UninstallProduct, Deleted, TypeOK
  <2>3. run' \in Locals
    <3>1. \/ run' = [run EXCEPT !.todo = @ \ {p}, !.unfinished = @ \/ ~CleanedUp(p)]
          \/ run' = [run EXCEPT !.todo = @ \ {p}, !.unfinished = TRUE, !.errs = TRUE]
      BY <1>14, Zenon DEF UninstallProduct
    <3>2. run \in Locals /\ (run.unfinished \/ ~CleanedUp(p)) \in BOOLEAN
      BY DEF TypeOK
    <3>. QED  BY Zenon, <3>1, <3>2 DEF Locals
  <2>. QED  BY <1>14, <2>1, <2>2, <2>3, DisturbedType DEF UninstallProduct, TypeOK
<1>15. ASSUME NEW p \in Products, SkipProduct(p) PROVE TypeOK'
  <2>1. run' \in Locals
    BY <1>15 DEF SkipProduct, TypeOK, Locals
  <2>2. cfgMap' \in BOOLEAN
    BY <1>15 DEF SkipProduct, TypeOK
  <2>. QED  BY <1>15, <2>1, <2>2, DisturbedType DEF SkipProduct, TypeOK
<1>16. CASE NextUninstallStage
  <2>1. run' \in Locals
    <3>1. /\ run \in Locals /\ Len(UninstallStages) = 3
          /\ UninstallStages[1] \in SUBSET Products /\ UninstallStages[2] \in SUBSET Products
          /\ UninstallStages[3] \in SUBSET Products
      BY ProductsAssumption DEF TypeOK, UninstallStages
    <3>2. CASE run.us < Len(UninstallStages)
      <4>1. run.us \in 0 .. 2
        BY <3>1, <3>2 DEF Locals
      <4>2. run.us + 1 \in 0 .. 3 /\ UninstallStages[run.us + 1] \in SUBSET Products
        BY <3>1, <4>1
      <4>3. run' = [run EXCEPT !.us = run.us + 1, !.todo = UninstallStages[run.us + 1]]
        BY <1>16, <3>2 DEF NextUninstallStage
      <4>. QED  BY Zenon, <3>1, <4>2, <4>3 DEF Locals
    <3>3. CASE ~(run.us < Len(UninstallStages))
      BY <1>16, <3>1, <3>3 DEF NextUninstallStage
    <3>. QED  BY <3>2, <3>3
  <2>2. pc' \in {"removing", "tidy", "save"}
    BY <1>16 DEF NextUninstallStage
  <2>. QED  BY <1>16, <2>1, <2>2, DisturbedType DEF NextUninstallStage, TypeOK
<1>17. CASE PendingUninstalls
  <2>1. cr' \in Object /\ inst' \in Object
    BY <1>17, StatusUpdateType, RefusedFacts DEF PendingUninstalls, TypeOK
  <2>. QED  BY <1>17, <2>1, DisturbedType, RefusedFacts DEF PendingUninstalls, TypeOK
<1>18. CASE TidyUp
  <2>1. inst' \in Object
    <3>1. inst \in Object /\ inst.fin \ {DeletionFinalizer} \in SUBSET Finalizers
      BY Zenon, ObjectUpdates DEF TypeOK
    <3>2. [inst EXCEPT !.fin = inst.fin \ {DeletionFinalizer}] \in Object
      BY Zenon, <3>1, ObjectUpdates
    <3>. QED  BY Zenon, <1>18, <3>1, <3>2 DEF TidyUp
  <2>. QED  BY Zenon, <1>18, <2>1, DisturbedType DEF TidyUp, TypeOK
<1>19. CASE Release
  <2>1. /\ cr' \in Object /\ inst' \in Object /\ run' \in Locals
        /\ pc' \in {"goodbye", "idle"}
    BY <1>19, UpdateType, ReturnType, RefusedFacts DEF Release, TypeOK
  <2>. QED  BY <1>19, <2>1, DisturbedType, RefusedFacts DEF Release, TypeOK
<1>20. CASE UninstallOperator
  BY Zenon, <1>20, ReturnType, DisturbedType DEF UninstallOperator, TypeOK
<1>21. NoMem \in [Products -> Versions]
  BY ScalarTypes DEF NoMem
<1>22. CASE Start
  <2>1. cr' \in Object
    BY <1>0, <1>22, CreatedType DEF Start, TypeOK
  <2>. QED  BY <1>22, <2>1, DisturbedType DEF Start, TypeOK
<1>23. CASE Crash
  BY Zenon, <1>21, <1>23, ReturnType, DisturbedType DEF Crash, Stop, TypeOK
<1>24. CASE Upgrade
  <2>1. opVersion' \in 1 .. MaxVersion
    BY <1>24, BoundsAssumption DEF Upgrade, TypeOK
  <2>. QED  BY Zenon, <1>21, <1>24, <2>1, ReturnType, DisturbedType DEF Upgrade, Stop, TypeOK
<1>25. CASE CacheSync
  BY <1>25, DisturbedType DEF CacheSync, TypeOK
<1>26. CASE DeleteCR
  <2>1. cr' \in Object
    BY Zenon, <1>0, <1>26, ObjectUpdates, NoObjectType DEF DeleteCR, TypeOK
  <2>. QED  BY Zenon, <1>21, <1>26, <2>1, ReturnType, DisturbedType DEF DeleteCR, Stop, TypeOK
<1>27. CASE EditCR
  <2>1. cr' \in Object
    BY Zenon, <1>0, <1>27, ObjectUpdates DEF EditCR, TypeOK
  <2>. QED  BY <1>27, <2>1, DisturbedType DEF EditCR, TypeOK
<1>28. ASSUME NEW q \in 1 .. MaxQuota, ChangeQuota(q) PROVE TypeOK'
  <2>1. quotaChanges' \in 0 .. MaxQuotaChanges
    BY <1>28, BoundsAssumption DEF ChangeQuota, TypeOK
  <2>. QED  BY <1>28, <2>1 DEF ChangeQuota, TypeOK
<1>29. ASSUME NEW p \in Products, NamespaceGone(p) PROVE TypeOK'
  BY <1>29, ScalarTypes, DisturbedType DEF NamespaceGone, TypeOK
<1>30. CASE UNCHANGED vars
  BY <1>30 DEF vars, bounds, TypeOK
<1>. QED
  BY <1>1, <1>2, <1>3, <1>4, <1>5, <1>6, <1>7, <1>8, <1>9, <1>10, <1>11, <1>12, <1>13,
     <1>14, <1>15, <1>16, <1>17, <1>18, <1>19, <1>20, <1>22, <1>23, <1>24, <1>25, <1>26,
     <1>27, <1>28, <1>29, <1>30
  DEF Next, OperatorStep

\* Spec keeps every variable in its type: no step of a reconcile, and no
\* interleaving with the other actors, puts a value of another kind into the
\* resource, a copy of it or the reconcile's locals.
THEOREM TypeCorrect == Spec => []TypeOK
BY InitType, StepType, PTL DEF Spec

\* Finalizers of different owners or formats are different.
LEMMA Distinct ==
  \A p \in Products :
    /\ Finalizer(p) # DeletionFinalizer /\ Finalizer(p) # PreviousFinalizer("deletion")
    /\ PreviousFinalizer(p) # DeletionFinalizer
    /\ PreviousFinalizer(p) # PreviousFinalizer("deletion")
    /\ \A q \in Products : /\ Finalizer(p) # PreviousFinalizer(q)
                           /\ p # q => Finalizer(p) # Finalizer(q)
BY ProductsAssumption DEF Finalizer, PreviousFinalizer, DeletionFinalizer

(***************************************************************************)
(* Writes                                                                  *)
(***************************************************************************)
\* client.Update of a copy that has a finalizer, or is not being deleted.
LEMMA PutFields ==
  ASSUME TypeOK, NEW obj \in Object, Accepts(cr, obj), obj.fin # {} \/ ~cr.deleting,
         cr' = Put(cr, obj, NewRV, NoObject)
  PROVE  /\ cr.exists /\ cr.rv = obj.rv /\ cr' \in Object
         /\ cr'.exists /\ cr'.deleting = cr.deleting /\ cr'.st = cr.st /\ cr'.fin = obj.fin
         /\ cr' = cr \/ cr'.rv = NewRV
<1>1. cr \in Object /\ NewRV \in RVs
  BY NewRVIsFresh DEF TypeOK
<1>2. cr.exists /\ cr.rv = obj.rv
  BY DEF Accepts
<1>3. CASE obj.fin = cr.fin
  BY <1>1, <1>2, <1>3 DEF Put, Stored, Collected, Object
<1>4. CASE obj.fin # cr.fin
  <2>1. cr' = [cr EXCEPT !.fin = obj.fin, !.rv = NewRV]
    BY <1>1, <1>4 DEF Put, Stored, Collected, Object
  <2>. QED  BY Zenon, <1>1, <1>2, <2>1 DEF Object
<1>. QED  BY <1>3, <1>4

\* client.Update that takes the last finalizer of a resource under deletion.
LEMMA PutCollects ==
  ASSUME TypeOK, NEW obj \in Object, cr.deleting, obj.fin = {},
         cr' = Put(cr, obj, NewRV, NoObject)
  PROVE  cr' = NoObject
BY NewRVIsFresh, StoredFacts DEF Put, Collected, TypeOK

\* A write that is accepted came from the current copy, stores its finalizers, and leaves the
\* caller with the server's new version.
LEMMA UpdateFields ==
  ASSUME TypeOK, NEW obj \in Object, Update(obj), obj.fin # {}
  PROVE  /\ cr.exists /\ cr.rv = obj.rv
         /\ cr'.exists /\ cr'.deleting = cr.deleting /\ cr'.st = cr.st /\ cr'.fin = obj.fin
         /\ cr' = cr \/ cr'.rv = NewRV
         /\ inst'.exists /\ inst'.rv = cr'.rv /\ inst'.deleting = cr.deleting
         /\ inst'.fin = obj.fin /\ inst'.st = cr.st
<1>1. /\ cr.exists /\ cr.rv = obj.rv /\ cr' \in Object
      /\ cr'.exists /\ cr'.deleting = cr.deleting /\ cr'.st = cr.st /\ cr'.fin = obj.fin
      /\ cr' = cr \/ cr'.rv = NewRV
  BY PutFields DEF Update
<1>2. inst' = cr'
  BY <1>1 DEF Update, Put, Collected, NoObject
<1>. QED  BY <1>1, <1>2

\* client.Status().Update.
LEMMA PutStatusFields ==
  ASSUME TypeOK, NEW obj \in Object, Accepts(cr, obj), cr' = PutStatus(cr, obj, NewRV)
  PROVE  /\ cr.exists /\ cr.rv = obj.rv /\ cr' \in Object
         /\ cr'.exists /\ cr'.deleting = cr.deleting /\ cr'.st = obj.st /\ cr'.fin = cr.fin
         /\ cr' = cr \/ cr'.rv = NewRV
<1>1. cr \in Object /\ NewRV \in RVs
  BY NewRVIsFresh DEF TypeOK
<1>2. cr.exists /\ cr.rv = obj.rv
  BY DEF Accepts
<1>. QED  BY Zenon, <1>1, <1>2 DEF PutStatus, Object

\* The same of a write of the status, which stores no finalizers.
LEMMA StatusUpdateFields ==
  ASSUME TypeOK, NEW obj \in Object, StatusUpdate(obj)
  PROVE  /\ cr.exists /\ cr.rv = obj.rv
         /\ cr'.exists /\ cr'.deleting = cr.deleting /\ cr'.st = obj.st /\ cr'.fin = cr.fin
         /\ cr' = cr \/ cr'.rv = NewRV
         /\ inst'.exists /\ inst'.rv = cr'.rv /\ inst'.deleting = cr.deleting
         /\ inst'.st = obj.st /\ inst'.fin = cr.fin
<1>1. /\ cr.exists /\ cr.rv = obj.rv /\ cr' \in Object
      /\ cr'.exists /\ cr'.deleting = cr.deleting /\ cr'.st = obj.st /\ cr'.fin = cr.fin
      /\ cr' = cr \/ cr'.rv = NewRV
  BY PutStatusFields DEF StatusUpdate
<1>. QED  BY <1>1 DEF StatusUpdate

(***************************************************************************)
(* Versions, quotas and the pass over the products                         *)
(***************************************************************************)
\* A version that every product has reached.
Known(v) == v \in Nat /\ \A p \in Products : v <= applied[p]

\* The versions in the resource and its copies are known.
LEMMA KnownVersions ==
  ASSUME TypeOK, VersionFacts
  PROVE  /\ Known(0) /\ Known(cr.st.version) /\ Known(cached.st.version)
         /\ Known(inst.st.version)
         /\ opVersion \in Nat /\ \A p \in Products : applied[p] \in Nat
<1>1. /\ cr.st.version \in Versions /\ cached.st.version \in Versions
      /\ inst.st.version \in Versions
  BY DEF TypeOK, Object, Status
<1>2. opVersion \in Nat /\ \A p \in Products : applied[p] \in Nat
  BY BoundsAssumption DEF TypeOK, Versions
<1>3. /\ cr.st.version \in Nat /\ cached.st.version \in Nat
      /\ inst.st.version \in Nat
  BY <1>1, BoundsAssumption DEF Versions
<1>4. Known(0)
  BY <1>2 DEF Known
<1>5. Known(cr.st.version) /\ Known(cached.st.version) /\ Known(inst.st.version)
  BY Zenon, <1>3 DEF VersionFacts, Known
<1>. QED  BY Zenon, <1>2, <1>4, <1>5

\* Products only move forward, so a version that was reached stays reached.
LEMMA VersionsKept ==
  ASSUME TypeOK, VersionFacts, opVersion' \in Nat, opVersion <= opVersion',
         \A p \in Products : applied'[p] = applied[p] \/ applied'[p] = opVersion,
         Known(cr'.st.version), Known(cached'.st.version), Known(inst'.st.version)
  PROVE  VersionFacts'
<1>1. opVersion \in Nat /\ \A p \in Products : applied[p] \in Nat /\ applied[p] <= opVersion
  BY KnownVersions DEF VersionFacts
<1>. QED  BY <1>1 DEF VersionFacts, Known

\* A step after which all copies still have versions that every product has reached.
LEMMA VersionsStay ==
  ASSUME TypeOK, VersionFacts, opVersion' = opVersion, applied' = applied,
         Known(cr'.st.version), Known(cached'.st.version), Known(inst'.st.version)
  PROVE  VersionFacts'
BY SMTT(30), KnownVersions DEF VersionFacts, Known

\* The blank object has no version.
LEMMA NoObjectStatus == NoObject.st.version = 0 /\ NoObject.st.quota = 0 /\ ~NoObject.exists
BY DEF NoObject, NoStatus

\* After a write of the resource the caller has the server's status.
LEMMA UpdateStatus ==
  ASSUME TypeOK, NEW obj \in Object, Update(obj)
  PROVE  inst'.st = cr.st
BY NewRVIsFresh, StoredFacts DEF Update, TypeOK

\* A reconcile that ends, or does something else than the products.
LEMMA PassEnds ==
  ASSUME TypeOK, PassInv, cached' = cached, opVersion' \in Nat, opVersion <= opVersion',
         applied' = applied, Known(cr'.st.version), Return
  PROVE  PassInv'
<1>1. pc' = "idle" /\ inst'.st.version = 0 /\ ~inst'.exists
  BY NoObjectStatus DEF Return
<1>2. Known(cached.st.version) /\ Known(0)
  BY KnownVersions DEF PassInv
<1>3. VersionFacts'
  BY <1>1, <1>2, VersionsKept DEF PassInv
<1>4. PassFacts'
  BY <1>1 DEF PassFacts, Current
<1>. QED  BY <1>3, <1>4 DEF PassInv

\* A step after which no pass over the products is under way.
LEMMA PassElsewhere ==
  ASSUME TypeOK, PassInv, cached' = cached, opVersion' = opVersion, applied' = applied,
         pc' \notin {"products", "finish"},
         Known(cr'.st.version), Known(inst'.st.version),
         Current(inst)' /\ pc' # "object" => inst'.st.quota = cr'.st.quota
  PROVE  PassInv'
<1>1. Known(cached.st.version) /\ opVersion \in Nat
  BY KnownVersions DEF PassInv
<1>2. VersionFacts'
  BY <1>1, VersionsKept DEF PassInv
<1>3. PassFacts'
  BY DEF PassFacts
<1>. QED  BY <1>2, <1>3 DEF PassInv

\* Every step keeps the facts about versions, quotas and the pass.
LEMMA StepPass == CoreInv /\ PassInv /\ [Next]_vars => PassInv'
<1>. SUFFICES ASSUME CoreInv, PassInv, [Next]_vars PROVE PassInv'
  OBVIOUS
<1>. USE DEF resource, process, cluster, world3, Running
<1>a. TypeOK /\ ResourceInv /\ CopyInv /\ TypeOK' /\ VersionFacts /\ PassFacts
  BY StepType DEF CoreInv, PassInv
<1>b. cr \in Object /\ cached \in Object /\ inst \in Object
  BY <1>a DEF TypeOK
<1>c. /\ Known(0) /\ Known(cr.st.version) /\ Known(cached.st.version)
      /\ Known(inst.st.version) /\ opVersion \in Nat
  BY <1>a, KnownVersions
<1>d. ASSUME cached' = cached, opVersion' = opVersion, applied' = applied, Return,
             Known(cr'.st.version)
      PROVE  PassInv'
  BY <1>a, <1>c, <1>d, PassEnds
<1>e. ASSUME cr' = cr, cached' = cached, opVersion' = opVersion, applied' = applied,
             pc # "object", pc' \notin {"products", "finish"},
             inst'.exists = inst.exists, inst'.rv = inst.rv,
             inst'.st.version = inst.st.version, inst'.st.quota = inst.st.quota
      PROVE  PassInv'
  BY <1>a, <1>c, <1>e, PassElsewhere DEF PassFacts, Current
<1>f. ASSUME opVersion' = opVersion PROVE opVersion' \in Nat /\ opVersion <= opVersion'
  BY <1>c, <1>f
<1>1. CASE Reconcile
  <2>1. Current(inst)' => inst'.st.quota = cr'.st.quota
    BY <1>1, <1>a DEF Reconcile, Current, ResourceInv, CacheLags
  <2>2. /\ cr' = cr /\ cached' = cached /\ opVersion' = opVersion /\ applied' = applied
        /\ inst' = cached /\ pc' = "begin"
    BY <1>1 DEF Reconcile
  <2>. QED  BY <1>a, <1>c, <2>1, <2>2, PassElsewhere
<1>2. CASE CopyEmail
  <2>1. /\ cached' = cached /\ opVersion' = opVersion /\ applied' = applied
        /\ pc = "begin" /\ pc' = "begin" /\ inst.exists
    BY <1>2, <1>a DEF CopyEmail, CopyInv, RunFacts
  <2>2. CASE UNCHANGED <<cr, inst>>
    BY <1>e, <2>1, <2>2
  <2>3. CASE /\ Accepts(cr, inst)
             /\ cr' = [cr EXCEPT !.rv = NewRV] /\ inst' = [inst EXCEPT !.rv = NewRV]
    <3>1. cr'.st = cr.st /\ inst'.st = inst.st
      BY <1>b, <2>3 DEF Object
    <3>2. inst.st.quota = cr.st.quota
      BY <1>a, <2>1, <2>3 DEF PassFacts, Current, Accepts
    <3>. QED  BY <1>a, <1>c, <2>1, <3>1, <3>2, PassElsewhere
  <2>. QED  BY <1>2, <2>2, <2>3 DEF CopyEmail
<1>3. CASE EnsureDeletionFinalizer
  <2>. DEFINE obj == [inst EXCEPT !.fin = (@ \ {PreviousFinalizer("deletion")})
                                          \cup {DeletionFinalizer}]
  <2>1. /\ cached' = cached /\ opVersion' = opVersion /\ applied' = applied
        /\ pc = "begin" /\ inst.exists
    BY <1>3, <1>a DEF EnsureDeletionFinalizer, CopyInv, RunFacts
  <2>2. CASE cr' = cr /\ Return
    BY <1>c, <1>d, <2>1, <2>2
  <2>3. CASE Branch(inst) /\ UNCHANGED cr
             /\ inst' \in {inst, [inst EXCEPT !.fin = @ \cup {DeletionFinalizer}]}
    <3>1. inst'.exists = inst.exists /\ inst'.rv = inst.rv /\ inst'.st = inst.st
      BY <1>b, <2>3 DEF Object
    <3>2. pc' \notin {"products", "finish"}
      BY <2>3 DEF Branch
    <3>. QED  BY <1>e, <2>1, <2>3, <3>1, <3>2
  <2>4. CASE Branch(inst) /\ Update(obj)
    <3>1. obj \in Object
      BY Zenon, <1>b, ObjectUpdates, DeletionIsFinalizer
    <3>2. obj.exists /\ obj.rv = inst.rv /\ obj.fin # {} /\ obj.st = inst.st
      BY <1>b, <2>1 DEF Object
    <3>. HIDE DEF obj
    <3>3. /\ cr.exists /\ cr.rv = obj.rv /\ cr'.st = cr.st
          /\ inst'.st = cr.st
      BY <1>a, <2>4, <3>1, <3>2, UpdateFields
    <3>4. inst.st.quota = cr.st.quota
      BY <1>a, <2>1, <3>2, <3>3 DEF PassFacts, Current
    <3>5. pc' \notin {"products", "finish"}
      BY <2>4 DEF Branch
    <3>. QED  BY <1>a, <1>c, <2>1, <3>2, <3>3, <3>4, <3>5, PassElsewhere
  <2>. QED  BY <1>3, <2>2, <2>3, <2>4, RefusedFacts DEF EnsureDeletionFinalizer
<1>4. ASSUME NEW outcome \in {"success", "fail"}, preflightChecks(outcome) PROVE PassInv'
  <2>. DEFINE obj == [inst EXCEPT !.st.stage = "Preflight Checks", !.st.preflight = outcome]
  <2>1. obj \in Object /\ obj.st.version = inst.st.version
    <3>1. obj \in Object
      BY Zenon, <1>b, StatusUpdates DEF Stages
    <3>2. obj.st.version = inst.st.version
      BY <1>b DEF Object, Status
    <3>. QED  BY <3>1, <3>2
  <2>2. /\ cached' = cached /\ opVersion' = opVersion /\ applied' = applied /\ Return
        /\ cr' = cr \/ (Accepts(cr, obj) /\ cr' = PutStatus(cr, obj, NewRV))
    BY <1>4, RefusedFacts DEF preflightChecks
  <2>. HIDE DEF obj
  <2>3. Known(cr'.st.version)
    BY <1>a, <1>c, <2>1, <2>2, PutStatusFields
  <2>. QED  BY <1>d, <2>2, <2>3
<1>5. ASSUME EarlyError \/ UninstallOperator \/ Crash PROVE PassInv'
  BY <1>5, <1>c, <1>d DEF EarlyError, UninstallOperator, Crash, Stop
<1>6. CASE SetToVersion
  <2>. DEFINE obj == [inst EXCEPT !.st.toVersion = opVersion]
  <2>1. /\ cached' = cached /\ opVersion' = opVersion /\ applied' = applied
        /\ pc = "version" /\ inst.exists
    BY <1>6, <1>a DEF SetToVersion, CopyInv, RunFacts
  <2>2. CASE cr' = cr /\ Return
    BY <1>c, <1>d, <2>1, <2>2
  <2>3. CASE pc' = "bootstrap" /\ UNCHANGED <<cr, inst>>
    BY <1>e, <2>1, <2>3
  <2>4. CASE StatusUpdate(obj) /\ pc' = "bootstrap"
    <3>1. obj \in Object
      BY Zenon, <1>a, <1>b, ScalarTypes, StatusUpdates
    <3>2. obj.st.version = inst.st.version
      BY <1>b DEF Object, Status
    <3>. HIDE DEF obj
    <3>3. cr'.st = obj.st /\ inst'.st = obj.st
      BY <1>a, <2>4, <3>1, StatusUpdateFields
    <3>. QED  BY <1>a, <1>c, <2>1, <2>4, <3>2, <3>3, PassElsewhere
  <2>. QED  BY <1>6, <2>2, <2>3, <2>4, RefusedFacts DEF SetToVersion
<1>7. ASSUME NEW quotaRead \in BOOLEAN, NEW completed \in BOOLEAN,
             bootstrapStage(quotaRead, completed)
      PROVE  PassInv'
  <2>1. /\ cr' = cr /\ cached' = cached /\ opVersion' = opVersion /\ applied' = applied
        /\ pc = "bootstrap"
    BY <1>7 DEF bootstrapStage
  <2>2. /\ inst'.exists = inst.exists /\ inst'.rv = inst.rv
        /\ inst'.st.version = inst.st.version /\ inst'.st.quota = inst.st.quota
    BY Zenon, <1>7, <1>b DEF bootstrapStage, Object, Status
  <2>3. VersionFacts'
    BY <1>a, <1>c, <2>1, <2>2, VersionsStay
  <2>4. Current(inst)' => inst'.st.quota = cr'.st.quota
    BY <1>a, <2>1, <2>2 DEF PassFacts, Current
  <2>5. CASE ~completed
    <3>1. pc' = "finish" /\ run'.unfinished
      BY <1>7, <2>5 DEF bootstrapStage, NoRun
    <3>. QED  BY <2>3, <2>4, <3>1 DEF PassInv, PassFacts
  <2>6. CASE completed
    <3>1. pc' = "products" /\ run'.todo = Products /\ quotaRead
      BY <1>7, <2>6 DEF bootstrapStage, NoRun
    <3>2. run'.updated = QuotaChanged /\ run'.quota = param
      BY Zenon, <1>7, <3>1 DEF bootstrapStage, NoRun, QuotaChanged
    <3>3. ~run'.updated => run'.quota = inst'.st.quota
      BY <2>2, <3>2 DEF QuotaChanged
    <3>. QED  BY <2>3, <2>4, <3>1, <3>3 DEF PassInv, PassFacts
  <2>. QED  BY <2>5, <2>6
<1>8. ASSUME NEW p \in Products, FinalizerRefused(p) PROVE PassInv'
  <2>1. /\ cr' = cr /\ cached' = cached /\ opVersion' = opVersion /\ applied' = applied
        /\ pc = "products" /\ pc' = "products"
    BY <1>8, RefusedFacts DEF FinalizerRefused
  <2>2. inst'.exists = inst.exists /\ inst'.rv = inst.rv /\ inst'.st = inst.st
    BY <1>8, <1>b DEF FinalizerRefused, WithFinalizer, Object
  <2>3. run'.unfinished /\ run'.updated = run.updated /\ run'.quota = run.quota
    BY <1>8, <1>a DEF FinalizerRefused, TypeOK, Locals
  <2>4. VersionFacts'
    BY <1>a, <1>c, <2>1, <2>2, VersionsStay
  <2>5. PassFacts'
    BY <1>a, <2>1, <2>2, <2>3 DEF PassFacts, Current
  <2>. QED  BY <2>4, <2>5 DEF PassInv
<1>9. ASSUME NEW p \in Products, NEW phase \in {"completed", "in progress", "aborted"},
             ReconcileProduct(p, phase)
      PROVE  PassInv'
  <2>1. /\ cached' = cached /\ opVersion' = opVersion /\ pc = "products" /\ pc' = "products"
        /\ inst.exists /\ p \in run.todo
        /\ \/ cr' = cr /\ inst' = inst
           \/ Update(WithFinalizer(p))
    BY <1>9, <1>a DEF ReconcileProduct, CopyInv, RunFacts
  <2>2. /\ Known(cr'.st.version) /\ Known(inst'.st.version)
        /\ Current(inst)' => inst'.st.quota = cr'.st.quota
        /\ inst'.st.quota = inst.st.quota
    <3>1. CASE cr' = cr /\ inst' = inst
      BY <1>a, <1>c, <2>1, <3>1 DEF PassFacts, Current
    <3>2. CASE Update(WithFinalizer(p))
      <4>. DEFINE obj == WithFinalizer(p)
      <4>1. obj \in Object
        BY Zenon, <1>b, ObjectUpdates, DeletionIsFinalizer DEF WithFinalizer
      <4>2. obj.rv = inst.rv /\ obj.fin # {} /\ obj.st = inst.st
        BY ZenonT(40), <1>b DEF WithFinalizer, Object
      <4>3. /\ cr.exists /\ cr.rv = obj.rv /\ cr'.st = cr.st
            /\ inst'.st = cr.st
        BY <1>a, <3>2, <4>1, <4>2, UpdateFields
      <4>. HIDE DEF obj
      <4>4. inst.st.quota = cr.st.quota
        BY <1>a, <2>1, <4>2, <4>3 DEF PassFacts, Current
      <4>. QED  BY <1>c, <4>2, <4>3, <4>4
    <3>. QED  BY <2>1, <3>1, <3>2
  <2>3. /\ \A q \in Products : applied'[q] = applied[q] \/ applied'[q] = opVersion
        /\ \A q \in Products : q # p => applied'[q] = applied[q]
        /\ phase = "completed" => applied'[p] = opVersion
    BY <1>9, <1>a DEF ReconcileProduct, TypeOK
  <2>4. VersionFacts'
    <3>1. cached' = cached /\ opVersion' = opVersion
      BY <2>1
    <3>2. \A q \in Products : applied'[q] = applied[q] \/ applied'[q] = opVersion
      BY <2>3
    <3>3. /\ Known(cr'.st.version) /\ Known(cached'.st.version) /\ Known(inst'.st.version)
      BY <1>c, <2>2, <3>1
    <3>4. opVersion' \in Nat /\ opVersion <= opVersion'
      BY Zenon, <1>f, <3>1
    <3>. QED  BY <1>a, <3>2, <3>3, <3>4, VersionsKept
  <2>5. /\ phase # "completed" => run'.unfinished
        /\ phase = "completed" => run'.unfinished = run.unfinished
        /\ phase = "completed" => run'.todo = run.todo \ {p}
        /\ run'.updated = run.updated /\ run'.quota = run.quota
    BY Zenon, <1>9, <1>a DEF ReconcileProduct, TypeOK, Locals
  <2>6. phase = "completed" =>
          /\ world' = [world EXCEPT ![p] = "present"]
          /\ configured' = [configured EXCEPT ![p] = Configure(p)]
    BY <1>9 DEF ReconcileProduct
  <2>7. phase = "completed" =>
          /\ world'[p] = "present" /\ (run.updated => configured'[p] = run.quota)
          /\ \A q \in Products : q # p =>
               world'[q] = world[q] /\ configured'[q] = configured[q]
    BY <1>a, <2>6 DEF TypeOK, Configure
  <2>8. PassFacts'
    BY ZenonT(40), <1>a, <2>1, <2>2, <2>3, <2>5, <2>7 DEF PassFacts
  <2>. QED  BY <2>4, <2>8 DEF PassInv
<1>10. CASE StageAborted
  <2>1. /\ cr' = cr /\ cached' = cached /\ opVersion' = opVersion /\ applied' = applied
        /\ pc = "products" /\ pc' = "products" /\ inst' = inst
    BY <1>10 DEF StageAborted
  <2>2. run'.unfinished /\ run'.updated = run.updated /\ run'.quota = run.quota
    BY <1>10, <1>a DEF StageAborted, TypeOK, Locals
  <2>3. VersionFacts'
    BY <1>a, <1>c, <2>1, VersionsStay
  <2>4. PassFacts'
    BY <1>a, <2>1, <2>2 DEF PassFacts, Current
  <2>. QED  BY <2>3, <2>4 DEF PassInv
<1>11. CASE Finish
  <2>. DEFINE obj == [inst EXCEPT !.st = FinalStatus]
  <2>1. cached' = cached /\ opVersion' = opVersion /\ applied' = applied
    BY <1>11 DEF Finish
  <2>2. CASE cr' = cr /\ Return
    BY <1>c, <1>d, <2>1, <2>2
  <2>3. /\ FinalStatus \in Status
        /\ FinalStatus.version = IF VersionComplete THEN opVersion ELSE inst.st.version
    BY <1>a, FinalStatusFacts
  <2>4. VersionComplete => \A p \in Products : applied[p] = opVersion
    BY <1>11, <1>a DEF Finish, PassFacts, VersionComplete
  <2>5. Known(FinalStatus.version)
    BY <1>c, <2>3, <2>4 DEF Known
  <2>6. obj \in Object /\ obj.st = FinalStatus /\ obj.rv = inst.rv /\ obj.exists = inst.exists
    BY <1>b, <2>3 DEF Object
  <2>. HIDE DEF obj
  <2>7. CASE StatusUpdate(obj) /\ pc' = "object"
    <3>1. cr'.st = obj.st /\ inst'.st = obj.st
      BY <1>a, <2>6, <2>7, StatusUpdateFields
    <3>. QED  BY <1>a, <2>1, <2>5, <2>6, <2>7, <3>1, PassElsewhere
  <2>8. CASE FinalStatus = run.orig /\ inst' = obj /\ pc' = "object" /\ cr' = cr
    BY <1>a, <1>c, <2>1, <2>5, <2>6, <2>8, PassElsewhere
  <2>. QED  BY <1>11, <2>2, <2>7, <2>8, RefusedFacts DEF Finish, obj
<1>12. ASSUME UpdateObject \/ SaveFinalizers PROVE PassInv'
  <2>1. /\ cached' = cached /\ opVersion' = opVersion /\ applied' = applied /\ Return
        /\ cr' = cr \/ (Accepts(cr, inst) /\ cr' = Put(cr, inst, NewRV, NoObject))
    BY <1>12, <1>a, RefusedFacts DEF UpdateObject, SaveFinalizers
  <2>2. cr'.st = cr.st \/ cr' = NoObject
    BY <1>a, <1>b, <2>1, PutFields, PutCollects
  <2>. QED  BY <1>c, <1>d, <2>1, <2>2, NoObjectStatus
<1>13. CASE handleUninstall
  <2>1. /\ cr' = cr /\ cached' = cached /\ opVersion' = opVersion /\ applied' = applied
        /\ pc = "uninstall"
    BY <1>13 DEF handleUninstall
  <2>2. CASE Return
    BY <1>c, <1>d, <2>1, <2>2
  <2>3. CASE inst' = [inst EXCEPT !.st.stage = "deletion"] /\ pc' = "removing"
    <3>1. /\ inst'.exists = inst.exists /\ inst'.rv = inst.rv
          /\ inst'.st.version = inst.st.version /\ inst'.st.quota = inst.st.quota
      BY <1>b, <2>3 DEF Object, Status
    <3>. QED  BY <1>e, <2>1, <2>3, <3>1
  <2>. QED  BY <1>13, <2>2, <2>3 DEF handleUninstall
<1>14. ASSUME NEW p \in Products, UninstallProduct(p) PROVE PassInv'
  <2>1. /\ cr' = cr /\ cached' = cached /\ opVersion' = opVersion /\ applied' = applied
        /\ pc = "removing" /\ pc' = "removing"
    BY <1>14 DEF UninstallProduct
  <2>2. inst'.exists = inst.exists /\ inst'.rv = inst.rv /\ inst'.st = inst.st
    BY <1>14, <1>b DEF UninstallProduct, Object
  <2>. QED  BY <1>e, <2>1, <2>2
<1>15. ASSUME (\E p \in Products : SkipProduct(p)) \/ NextUninstallStage PROVE PassInv'
  BY <1>15, <1>e DEF SkipProduct, NextUninstallStage
<1>16. CASE PendingUninstalls
  <2>1. /\ cached' = cached /\ opVersion' = opVersion /\ applied' = applied
        /\ pc = "removing" /\ pc' = "save"
    BY <1>16 DEF PendingUninstalls
  <2>2. CASE UNCHANGED <<cr, inst>>
    BY <1>e, <2>1, <2>2
  <2>3. CASE StatusUpdate(inst)
    <3>1. cr'.st = inst.st /\ inst'.st = inst.st
      BY <1>a, <1>b, <2>3, StatusUpdateFields
    <3>. QED  BY <1>a, <1>c, <2>1, <3>1, PassElsewhere
  <2>. QED  BY <1>16, <2>2, <2>3, RefusedFacts DEF PendingUninstalls
<1>17. CASE TidyUp
  <2>1. /\ cr' = cr /\ cached' = cached /\ opVersion' = opVersion /\ applied' = applied
        /\ pc = "tidy" /\ pc' \in {"release", "save"}
    BY Zenon, <1>17 DEF TidyUp
  <2>2. inst'.exists = inst.exists /\ inst'.rv = inst.rv /\ inst'.st = inst.st
    BY Zenon, <1>17, <1>b DEF TidyUp, Object
  <2>. QED  BY <1>e, <2>1, <2>2
<1>18. CASE Release
  <2>1. cached' = cached /\ opVersion' = opVersion /\ applied' = applied
    BY <1>18 DEF Release
  <2>2. CASE cr' = cr /\ Return
    BY <1>c, <1>d, <2>1, <2>2
  <2>3. CASE Update(inst) /\ pc' = "goodbye"
    <3>1. Current(inst) /\ inst.fin = {} /\ inst.deleting
      BY <1>18, <1>a, <2>3
      DEF Release, Update, Accepts, Current, CopyInv, RunFacts, BranchFacts, UninstallPcs
    <3>2. cr.deleting
      BY <1>a, <3>1 DEF CopyInv, CopyLags
    <3>3. cr' = NoObject /\ inst'.st = cr.st
      BY <1>a, <1>b, <2>3, <3>1, <3>2, PutCollects, UpdateStatus DEF Update
    <3>4. ~cr'.exists /\ cr'.st.version = 0
      BY <3>3, NoObjectStatus
    <3>. QED  BY <1>a, <1>c, <2>1, <2>3, <3>3, <3>4, PassElsewhere DEF Current
  <2>. QED  BY <1>18, <2>2, <2>3, RefusedFacts DEF Release
<1>19. CASE Upgrade
  <2>1. /\ cr' = cr /\ cached' = cached /\ applied' = applied /\ Return
        /\ opVersion' = opVersion + 1
    BY <1>19 DEF Upgrade, Stop
  <2>. QED  BY <1>a, <1>c, <2>1, PassEnds
<1>20. CASE Start
  <2>1. /\ opVersion' = opVersion /\ applied' = applied /\ inst' = inst /\ cached' = cr'
        /\ pc' = pc /\ pc = "idle"
    BY <1>20, <1>a DEF Start, CopyInv, RunFacts
  <2>2. inst = NoObject
    BY <1>a, <2>1 DEF CopyInv, RunFacts
  <2>3. Known(cr'.st.version)
    BY <1>20, <1>c DEF Start, Created, NoObject, NoStatus
  <2>4. VersionFacts'
    BY <1>a, <1>c, <2>1, <2>3, VersionsStay
  <2>5. PassFacts'
    BY <2>1, <2>2, NoObjectStatus DEF PassFacts, Current
  <2>. QED  BY <2>4, <2>5 DEF PassInv
<1>21. CASE CacheSync
  <2>1. /\ cached' = cr /\ cr' = cr
        /\ UNCHANGED <<inst, pc, run, opVersion, applied, world, configured>>
    BY <1>21 DEF CacheSync
  <2>2. VersionFacts'
    BY <1>a, <1>c, <2>1, VersionsStay
  <2>3. PassFacts'
    BY <1>a, <2>1 DEF PassFacts, Current
  <2>. QED  BY <2>2, <2>3 DEF PassInv
<1>22. ASSUME DeleteCR \/ EditCR PROVE PassInv'
  <2>1. cached' = cached /\ UNCHANGED cluster /\ opVersion' = opVersion
    BY <1>22 DEF DeleteCR, EditCR
  <2>2. /\ cr' = NoObject \/ (cr'.st = cr.st /\ cr'.rv = NewRV)
        /\ Return \/ UNCHANGED process
    BY Zenon, <1>22, <1>b DEF DeleteCR, EditCR, Stop, Object
  <2>3. Known(cr'.st.version)
    BY <1>c, <2>2, NoObjectStatus
  <2>4. CASE Return
    BY <1>d, <2>1, <2>3, <2>4
  <2>5. CASE UNCHANGED process
    <3>1. ~Current(inst)'
      BY <2>2, <2>5, NoObjectStatus, NewRVIsFresh DEF Current
    <3>2. VersionFacts'
      BY <1>a, <1>c, <2>1, <2>3, <2>5, VersionsStay
    <3>3. PassFacts'
      BY SMTT(30), <1>a, <2>1, <2>5, <3>1 DEF PassFacts
    <3>. QED  BY <3>2, <3>3 DEF PassInv
  <2>. QED  BY <2>2, <2>4, <2>5
<1>23. CASE (\E q \in 1 .. MaxQuota : ChangeQuota(q)) \/ UNCHANGED vars
  <2>1. UNCHANGED <<cr, cached, inst, pc, run, opVersion, applied, world, configured>>
    BY <1>23 DEF ChangeQuota, vars
  <2>. QED  BY <1>a, <2>1 DEF PassInv, VersionFacts, PassFacts, Current
<1>24. ASSUME NEW p \in Products, NamespaceGone(p) PROVE PassInv'
  <2>1. /\ UNCHANGED <<cr, cached, inst, pc, run, opVersion, applied>>
        /\ world[p] = "terminating"
        /\ \A q \in Products : q # p => world'[q] = world[q] /\ configured'[q] = configured[q]
    BY <1>24, <1>a DEF NamespaceGone, TypeOK
  <2>2. VersionFacts'
    BY <1>a, <2>1 DEF VersionFacts
  <2>3. PassFacts'
    BY <1>a, <2>1 DEF PassFacts, Current
  <2>. QED  BY <2>2, <2>3 DEF PassInv
<1>. QED
  BY <1>1, <1>2, <1>3, <1>4, <1>5, <1>6, <1>7, <1>8, <1>9, <1>10, <1>11, <1>12, <1>13,
     <1>14, <1>15, <1>16, <1>17, <1>18, <1>19, <1>20, <1>21, <1>22, <1>23, <1>24
  DEF Next, OperatorStep

\* At first no product has reached anything, or all the release before.
LEMMA InitPass == Init => PassInv
<1>. SUFFICES ASSUME Init PROVE VersionFacts /\ PassFacts
  BY DEF PassInv
<1>1. pc = "idle" /\ inst.st.version = 0 /\ ~inst.exists /\ cached = cr
  BY NoObjectStatus DEF Init
<1>2. CASE StartFrom = "legacy"
  <2>1. cr.st.version = 1 /\ opVersion = MaxVersion /\ \A p \in Products : applied[p] = 1
    BY <1>2 DEF Init, LegacyCR, Created, NoObject, NoStatus
  <2>. QED  BY <1>1, <2>1, BoundsAssumption DEF VersionFacts, PassFacts, Current
<1>3. CASE StartFrom # "legacy"
  <2>1. cr.st.version = 0 /\ opVersion = 1 /\ \A p \in Products : applied[p] = 0
    BY <1>3 DEF Init, Created, NoObject, NoStatus
  <2>. QED  BY <1>1, <2>1 DEF VersionFacts, PassFacts, Current
<1>. QED  BY <1>2, <1>3

================================================================================
