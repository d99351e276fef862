--------------------------- MODULE InstallationProofs ---------------------------
(***************************************************************************)
(* The first layer of the invariant of Installation, and what follows from *)
(* it.  CoreInv is inductive: ResourceInv is about the server's object,    *)
(* the cache and the cluster, CopyInv about the copy the running reconcile *)
(* works on.                                                               *)
(***************************************************************************)
EXTENDS InstallationTypes

(***************************************************************************)
(* The server's object, the cache and the cluster                          *)
(***************************************************************************)
\* A write of metadata that leaves a resource under deletion a finalizer.
LEMMA ResourceAfterPut ==
  ASSUME ResourceInv, cached' = cached,
         cr.exists, cr'.exists, cr'.deleting = cr.deleting, cr'.st = cr.st,
         cr'.deleting => cr'.fin # {}, cr' = cr \/ cr'.rv = NewRV,
         cr.st.preflight = "success",
         \/ cached.deleting \/ ~cached.exists
         \/ \A p \in Products : Finalizer(p) \in cr.fin => Finalizer(p) \in cr'.fin,
         \A p \in Products : world'[p] = "present" => Guarded(p, cr'.fin)
  PROVE  ResourceInv'
<1>1. ObjectFacts'
  BY DEF ResourceInv, ObjectFacts
<1>2. CacheLags'
  BY NewRVIsFresh DEF ResourceInv, CacheLags, Current
<1>3. FinalizersAfterPreflight' /\ NoOrphans'
  BY DEF FinalizersAfterPreflight, NoOrphans, Guarded
<1>. QED  BY <1>1, <1>2, <1>3 DEF ResourceInv

\* A write of the status, or of anything the model leaves out.
LEMMA ResourceAfterStatus ==
  ASSUME ResourceInv, cached' = cached, world' = world,
         cr.exists, cr'.exists, cr'.deleting = cr.deleting, cr'.fin = cr.fin,
         cr' = cr \/ cr'.rv = NewRV,
         cr.fin # {} => cr'.st.preflight = "success"
  PROVE  ResourceInv'
<1>1. ObjectFacts'
  BY DEF ResourceInv, ObjectFacts
<1>2. CacheLags'
  BY NewRVIsFresh DEF ResourceInv, CacheLags, Current
<1>3. FinalizersAfterPreflight' /\ NoOrphans'
  BY DEF ResourceInv, FinalizersAfterPreflight, NoOrphans, Guarded
<1>. QED  BY <1>1, <1>2, <1>3 DEF ResourceInv

\* The resource goes with its last finalizer.
LEMMA ResourceAfterCollect ==
  ASSUME ResourceInv, cached' = cached, world' = world, cr' = NoObject,
         cached.exists => cached.deleting,
         \A p \in Products : world[p] # "present"
  PROVE  ResourceInv'
BY DEF ResourceInv, ObjectFacts, CacheLags, FinalizersAfterPreflight, NoOrphans, Current, NoObject

\* Products may go while the resource stays as it is.
LEMMA ResourceUnchanged ==
  ASSUME ResourceInv, cr' = cr, cached' = cached,
         \A p \in Products : world'[p] = "present" => world[p] = "present"
  PROVE  ResourceInv'
BY DEF ResourceInv, ObjectFacts, CacheLags, FinalizersAfterPreflight, NoOrphans, Current, Guarded

(***************************************************************************)
(* The copy of the running reconcile                                       *)
(***************************************************************************)
LEMMA CopyAfterReturn == ASSUME Return PROVE CopyInv'
BY DEF Return, CopyInv, RunFacts, BranchFacts, CopyLags, Current, NoObject, InstallPcs, UninstallPcs

\* A step of the reconcile that writes nothing and removes no finalizer.
LEMMA CopyMoves ==
  ASSUME CopyLags, cr' = cr, cached' = cached,
         \A p \in Products : world'[p] = "present" => world[p] = "present",
         inst'.exists = inst.exists, inst'.rv = inst.rv, inst'.deleting = inst.deleting,
         inst'.st.preflight = inst.st.preflight,
         \A p \in Products :
           /\ Finalizer(p) \in inst.fin => Finalizer(p) \in inst'.fin
           /\ Guarded(p, inst.fin) => Guarded(p, inst'.fin),
         pc # "preflight",
         pc' \in {"version", "bootstrap", "products"} =>
           /\ pc \in {"begin", "version", "bootstrap", "products"}
           /\ \A p \in Products :
                (pc' = "products" => p \in run'.todo) /\ Finalizer(p) \in inst'.fin =>
                  (pc = "products" => p \in run.todo) /\ Finalizer(p) \in inst.fin,
         pc' # "begin",
         \/ ~inst.deleting
         \/ pc' \in {"release", "goodbye"}
         \/ pc \notin {"release", "goodbye"} /\ (HasDeletion(inst.fin) => HasDeletion(inst'.fin))
  PROVE  CopyLags'
BY DEF CopyLags, Current, Guarded

\* After client.Update of an installation the copy is what the server holds.
LEMMA CopyAfterUpdate ==
  ASSUME NoOrphans', ~inst'.deleting, pc' # "begin",
         inst'.deleting = cr'.deleting, inst'.fin = cr'.fin,
         inst'.st.preflight = cr'.st.preflight
  PROVE  CopyLags'
BY DEF CopyLags, NoOrphans

\* After client.Status().Update it is as well, and finalizers not yet written are lost.
LEMMA CopyAfterStatus ==
  ASSUME CopyLags, NoOrphans, Current(inst), pc # "preflight",
         cached' = cached, world' = world, run' = run \/ pc' \notin {"products"},
         cr'.deleting = cr.deleting, cr'.fin = cr.fin, cr'.exists,
         inst'.deleting = cr.deleting, inst'.st = cr'.st,
         inst'.fin = cr.fin, pc' # "begin",
         pc' \in {"version", "bootstrap", "products"} => pc \in {"version", "bootstrap"}
  PROVE  CopyLags'
<1>1. inst'.deleting = inst.deleting
  BY DEF CopyLags
<1>2. \A p \in Products : world'[p] = "present" => Guarded(p, inst'.fin)
  BY DEF NoOrphans, Guarded
<1>. QED  BY <1>1, <1>2 DEF CopyLags

\* The running reconcile takes no step.
LEMMA RunStays ==
  ASSUME RunFacts, BranchFacts, UNCHANGED <<inst, pc, run, up, cfgMap>>
  PROVE  RunFacts' /\ BranchFacts'
BY DEF RunFacts, BranchFacts

\* The cache catches up, or products disappear.
LEMMA CopyStays ==
  ASSUME CopyLags, UNCHANGED <<inst, cr, pc, run>>, cached' \in {cached, cr},
         \A p \in Products : world'[p] = "present" => world[p] = "present"
  PROVE  CopyLags'
BY DEF CopyLags, Current, Guarded

\* Someone else changes the object, so that a write of the copy is refused.
LEMMA CopyOutdated ==
  ASSUME CopyLags, ~Current(inst)', UNCHANGED <<inst, pc, run, cached>>,
         cr'.exists => cr.exists /\ cr'.fin = cr.fin /\ (cr.deleting => cr'.deleting),
         ~cr'.exists => cr.fin = {} /\ cr'.fin = {}
  PROVE  CopyLags'
BY DEF CopyLags

(***************************************************************************)
(* Every step keeps the invariant                                          *)
(***************************************************************************)
LEMMA InitCore == Init => CoreInv
<1>. SUFFICES ASSUME Init PROVE ResourceInv /\ CopyInv
  BY InitType DEF CoreInv
<1>1. CopyInv
  BY DEF Init, CopyInv, RunFacts, BranchFacts, CopyLags, Current, NoObject, InstallPcs, UninstallPcs
<1>2. CASE StartFrom = "legacy"
  <2>1. /\ cr.exists /\ ~cr.deleting /\ cr.st.preflight = "success"
        /\ cr.fin = {PreviousFinalizer(o) : o \in Owners}
    BY <1>2 DEF Init, LegacyCR, Created, NoObject, NoStatus
  <2>2. \A p \in Products : Guarded(p, cr.fin)
    BY <2>1 DEF Guarded, Owners
  <2>3. cached = cr
    BY DEF Init
  <2>4. ObjectFacts
    BY <2>1, <2>2, <2>3 DEF ObjectFacts
  <2>5. CacheLags
    BY <2>1, <2>3 DEF CacheLags
  <2>. QED  BY <1>1, <2>1, <2>2, <2>4, <2>5 DEF ResourceInv, FinalizersAfterPreflight, NoOrphans
<1>3. CASE StartFrom # "legacy"
  <2>1. /\ cr.exists \/ cr = NoObject
        /\ ~cr.deleting /\ cr.fin = {} /\ cached = cr
        /\ \A p \in Products : world[p] = "absent"
    BY <1>3 DEF Init, Created, NoObject
  <2>2. ObjectFacts
    BY <2>1 DEF ObjectFacts
  <2>3. CacheLags
    BY <2>1 DEF CacheLags
  <2>. QED  BY <1>1, <2>1, <2>2, <2>3 DEF ResourceInv, FinalizersAfterPreflight, NoOrphans
<1>. QED  BY <1>1, <1>2, <1>3

\* Every step keeps the first layer of the invariant.
LEMMA StepCore == CoreInv /\ [Next]_vars => CoreInv'
<1>. SUFFICES ASSUME CoreInv, [Next]_vars PROVE ResourceInv' /\ CopyInv'
  BY StepType DEF CoreInv
<1>. USE DEF resource, process, cluster, world3, Running
<1>a. TypeOK /\ ResourceInv /\ CopyInv /\ TypeOK'
  BY StepType DEF CoreInv
<1>b. cr \in Object /\ cached \in Object /\ inst \in Object
  BY <1>a DEF TypeOK
<1>1. CASE Reconcile
  <2>1. ResourceInv'
    BY <1>1, <1>a, ResourceUnchanged DEF Reconcile
  <2>2. RunFacts' /\ BranchFacts'
    BY <1>1, <1>a DEF Reconcile, RunFacts, BranchFacts, CopyInv, ResourceInv, ObjectFacts,
                      InstallPcs, UninstallPcs
  <2>3. CopyLags'
    BY <1>1, <1>a DEF Reconcile, CopyLags, ResourceInv, CacheLags, NoOrphans, Current, Guarded
  <2>. QED  BY <2>1, <2>2, <2>3 DEF CopyInv
<1>2. CASE CopyEmail
  <2>1. CASE UNCHANGED <<cr, inst>>
    BY <1>2, <1>a, <2>1, ResourceUnchanged
    DEF CopyEmail, CopyInv, RunFacts, BranchFacts, CopyLags, Current, Guarded
  <2>2. CASE /\ Accepts(cr, inst)
             /\ cr' = [cr EXCEPT !.rv = NewRV] /\ inst' = [inst EXCEPT !.rv = NewRV]
    <3>1. /\ cr.exists /\ cr.rv = inst.rv /\ pc = "begin" /\ pc' = "begin"
          /\ cached' = cached /\ world' = world /\ up' = up /\ run' = run
      BY <1>2, <2>2 DEF CopyEmail, Accepts
    <3>2. /\ cr'.exists /\ cr'.rv = NewRV /\ cr'.deleting = cr.deleting
          /\ cr'.fin = cr.fin /\ cr'.st = cr.st
      BY <1>b, <2>2, <3>1 DEF Object
    <3>3. /\ inst'.exists = inst.exists /\ inst'.rv = NewRV /\ inst'.deleting = inst.deleting
          /\ inst'.fin = inst.fin /\ inst'.st = inst.st
      BY <1>b, <2>2 DEF Object
    <3>4. ResourceInv'
      BY <1>a, <3>1, <3>2, ResourceAfterStatus DEF ResourceInv, FinalizersAfterPreflight
    <3>5. inst.exists /\ Current(inst)
      BY <1>a, <3>1 DEF CopyInv, RunFacts, Current
    <3>6. RunFacts' /\ BranchFacts'
      BY <1>a, <3>1, <3>3, <3>5 DEF CopyInv, RunFacts, BranchFacts, InstallPcs, UninstallPcs
    <3>7. inst' = cr'
      BY <1>a, <2>2, <3>1, <3>5 DEF CopyInv, CopyLags
    <3>8. CopyLags'
      BY <1>a, <3>1, <3>2, <3>3, <3>5, <3>7 DEF CopyInv, CopyLags, Current, Guarded
    <3>. QED  BY <3>4, <3>6, <3>8 DEF CopyInv
  <2>. QED  BY <1>2, <2>1, <2>2 DEF CopyEmail
<1>3. CASE EnsureDeletionFinalizer
  <2>0. /\ pc = "begin" /\ inst.exists /\ up /\ cached' = cached /\ world' = world
        /\ up' = up
    BY <1>3, <1>a DEF EnsureDeletionFinalizer, CopyInv, RunFacts
  <2>. DEFINE obj == [inst EXCEPT !.fin = (@ \ {PreviousFinalizer("deletion")})
                                          \cup {DeletionFinalizer}]
  <2>1. ASSUME Branch(inst), UNCHANGED <<cr, run>>,
               \/ inst' = inst
               \/ ~inst.deleting /\ inst' = [inst EXCEPT !.fin = @ \cup {DeletionFinalizer}]
        PROVE  ResourceInv' /\ CopyInv'
    <3>1. /\ inst'.exists = inst.exists /\ inst'.rv = inst.rv /\ inst'.deleting = inst.deleting
          /\ inst'.st = inst.st
          /\ inst'.fin = inst.fin \/ inst'.fin = inst.fin \cup {DeletionFinalizer}
      BY <1>b, <2>1 DEF Object
    <3>2. pc' = IF inst.st.preflight # "success" THEN "preflight"
                ELSE IF inst.deleting THEN "uninstall" ELSE "version"
      BY <2>1 DEF Branch
    <3>3. RunFacts' /\ BranchFacts'
      BY <2>0, <2>1, <3>1, <3>2 DEF RunFacts, BranchFacts, InstallPcs, UninstallPcs
    <3>4. CopyLags'
      BY <1>a, <2>0, <2>1, <3>1, <3>2, CopyMoves, Distinct DEF CopyInv, Guarded
    <3>. QED  BY <1>a, <2>0, <2>1, <3>3, <3>4, ResourceUnchanged DEF CopyInv
  <2>2. ASSUME ~inst.deleting, PreviousFinalizer("deletion") \in inst.fin,
               Update(obj), Branch(inst)
        PROVE  ResourceInv' /\ CopyInv'
    <3>1. obj \in Object
      BY Zenon, <1>b, ObjectUpdates, DeletionIsFinalizer
    <3>2. /\ obj.exists /\ obj.rv = inst.rv /\ obj.fin # {}
          /\ obj.fin = (inst.fin \ {PreviousFinalizer("deletion")}) \cup {DeletionFinalizer}
      BY <1>b, <2>0 DEF Object
    <3>. HIDE DEF obj
    <3>3. /\ cr.exists /\ cr.rv = obj.rv
          /\ cr'.exists /\ cr'.deleting = cr.deleting /\ cr'.st = cr.st /\ cr'.fin = obj.fin
          /\ cr' = cr \/ cr'.rv = NewRV
          /\ inst'.exists /\ inst'.rv = cr'.rv /\ inst'.deleting = cr.deleting
          /\ inst'.fin = obj.fin /\ inst'.st = cr.st
      BY <1>a, <2>2, <3>1, <3>2, UpdateFields
    <3>4. inst = cr
      BY <1>a, <2>0, <3>2, <3>3 DEF CopyInv, CopyLags, Current
    <3>5. cr.st.preflight = "success" /\ inst'.st.preflight = "success"
      BY <1>a, <2>2, <3>3, <3>4 DEF ResourceInv, FinalizersAfterPreflight
    <3>6. cr'.fin # {}
      BY <3>2, <3>3
    <3>7. \A p \in Products : /\ Finalizer(p) \in cr.fin => Finalizer(p) \in cr'.fin
                              /\ Guarded(p, cr.fin) => Guarded(p, cr'.fin)
      BY <3>2, <3>3, <3>4, Distinct DEF Guarded
    <3>8. ResourceInv'
      BY <1>a, <2>0, <3>3, <3>5, <3>6, <3>7, ResourceAfterPut DEF ResourceInv, NoOrphans
    <3>9. pc' = "version"
      BY <2>2, <3>4, <3>5 DEF Branch
    <3>10. RunFacts' /\ BranchFacts'
      BY <2>0, <2>2, <3>3, <3>4, <3>5, <3>6, <3>9
      DEF RunFacts, BranchFacts, InstallPcs, UninstallPcs
    <3>11. CopyLags'
      BY <2>2, <3>3, <3>4, <3>5, <3>8, <3>9, CopyAfterUpdate DEF ResourceInv
    <3>. QED  BY <3>8, <3>10, <3>11 DEF CopyInv
  <2>3. ASSUME Refused(obj), Return PROVE ResourceInv' /\ CopyInv'
    BY <1>a, <2>0, <2>3, RefusedFacts, ResourceUnchanged, CopyAfterReturn
  <2>4. CASE (inst.deleting \/ DeletionFinalizer \in inst.fin)
             /\ Branch(inst) /\ UNCHANGED <<cr, inst, run, bounds>>
    BY <2>1, <2>4
  <2>5. CASE ~inst.deleting /\ inst' = [inst EXCEPT !.fin = @ \cup {DeletionFinalizer}]
             /\ Branch(inst) /\ UNCHANGED <<cr, run, bounds>>
    BY <2>1, <2>5
  <2>. QED  BY <1>3, <2>2, <2>3, <2>4, <2>5 DEF EnsureDeletionFinalizer
<1>4. ASSUME NEW outcome \in {"success", "fail"}, preflightChecks(outcome)
      PROVE  ResourceInv' /\ CopyInv'
  <2>. DEFINE obj == [inst EXCEPT !.st.stage = "Preflight Checks", !.st.preflight = outcome]
  <2>0. pc = "preflight" /\ cached' = cached /\ world' = world /\ Return
    BY <1>4 DEF preflightChecks
  <2>1. CopyInv'
    BY <2>0, CopyAfterReturn
  <2>2. cr' = cr \/ (Accepts(cr, obj) /\ cr' = PutStatus(cr, obj, NewRV))
    BY <1>4, RefusedFacts DEF preflightChecks
  <2>3. CASE cr' = cr
    BY <1>a, <2>0, <2>1, <2>3, ResourceUnchanged
  <2>4. CASE Accepts(cr, obj) /\ cr' = PutStatus(cr, obj, NewRV)
    <3>1. obj \in Object /\ obj.rv = inst.rv
      BY ZenonT(40), <1>b, StatusUpdates DEF Object, Stages
    <3>. HIDE DEF obj
    <3>2. /\ cr.exists /\ cr.rv = obj.rv
          /\ cr'.exists /\ cr'.deleting = cr.deleting /\ cr'.fin = cr.fin
          /\ cr' = cr \/ cr'.rv = NewRV
      BY <1>a, <2>4, <3>1, PutStatusFields
    <3>3. cr.fin = {}
      BY <1>a, <2>0, <3>1, <3>2
      DEF CopyInv, RunFacts, BranchFacts, CopyLags, Current, ResourceInv, FinalizersAfterPreflight
    <3>4. ResourceInv'
      BY <1>a, <2>0, <3>2, <3>3, ResourceAfterStatus
    <3>. QED  BY <2>1, <3>4
  <2>. QED  BY <2>2, <2>3, <2>4
<1>5. CASE EarlyError
  BY <1>5, <1>a, ResourceUnchanged, CopyAfterReturn DEF EarlyError
<1>6. CASE SetToVersion
  <2>. DEFINE obj == [inst EXCEPT !.st.toVersion = opVersion]
  <2>0. /\ pc = "version" /\ inst.exists /\ up /\ cached' = cached /\ world' = world
        /\ up' = up /\ inst.st.preflight = "success" /\ ~inst.deleting
    BY <1>6, <1>a DEF SetToVersion, CopyInv, RunFacts, BranchFacts, InstallPcs
  <2>1. CASE pc' = "bootstrap" /\ UNCHANGED <<cr, inst, run, bounds>>
    <3>1. RunFacts' /\ BranchFacts'
      BY <2>0, <2>1 DEF RunFacts, BranchFacts, InstallPcs, UninstallPcs
    <3>2. CopyLags'
      BY Zenon, <1>a, <2>0, <2>1, CopyMoves DEF CopyInv
    <3>. QED  BY <1>a, <2>0, <2>1, <3>1, <3>2, ResourceUnchanged DEF CopyInv
  <2>2. CASE StatusUpdate(obj) /\ pc' = "bootstrap" /\ UNCHANGED <<run, bounds>>
    <3>1. obj \in Object
      BY Zenon, <1>a, <1>b, ScalarTypes, StatusUpdates
    <3>2. obj.rv = inst.rv /\ obj.fin = inst.fin /\ obj.st.preflight = "success"
      BY <1>b, <2>0 DEF Object, Status
    <3>. HIDE DEF obj
    <3>3. /\ cr.exists /\ cr.rv = obj.rv
          /\ cr'.exists /\ cr'.deleting = cr.deleting /\ cr'.st = obj.st /\ cr'.fin = cr.fin
          /\ cr' = cr \/ cr'.rv = NewRV
          /\ inst'.exists /\ inst'.rv = cr'.rv /\ inst'.deleting = cr.deleting
          /\ inst'.st = obj.st /\ inst'.fin = cr.fin
      BY <1>a, <2>2, <3>1, <3>2, StatusUpdateFields
    <3>4. ResourceInv'
      BY <1>a, <2>0, <3>2, <3>3, ResourceAfterStatus
    <3>5. Current(inst)
      BY <2>0, <3>2, <3>3 DEF Current
    <3>6. CopyLags'
      BY <1>a, <2>0, <2>2, <3>3, <3>5, CopyAfterStatus DEF CopyInv, ResourceInv
    <3>7. ~inst'.deleting
      BY <1>a, <2>0, <3>3, <3>5 DEF CopyInv, CopyLags
    <3>8. RunFacts' /\ BranchFacts'
      BY <2>0, <2>2, <3>2, <3>3, <3>7 DEF RunFacts, BranchFacts, InstallPcs, UninstallPcs
    <3>. QED  BY <3>4, <3>6, <3>8 DEF CopyInv
  <2>3. CASE Refused(obj) /\ Return
    BY <1>a, <2>0, <2>3, RefusedFacts, ResourceUnchanged, CopyAfterReturn
  <2>. QED  BY <1>6, <2>1, <2>2, <2>3 DEF SetToVersion
<1>7. ASSUME NEW quotaRead \in BOOLEAN, NEW completed \in BOOLEAN,
             bootstrapStage(quotaRead, completed)
      PROVE  ResourceInv' /\ CopyInv'
  <2>1. /\ pc = "bootstrap" /\ inst.exists /\ up /\ cr' = cr /\ cached' = cached
        /\ world' = world /\ up' = up /\ pc' \in {"products", "finish"}
        /\ inst.st.preflight = "success" /\ ~inst.deleting
    BY <1>7, <1>a DEF bootstrapStage, CopyInv, RunFacts, BranchFacts, InstallPcs
  <2>2. /\ inst'.exists = inst.exists /\ inst'.rv = inst.rv /\ inst'.deleting = inst.deleting
        /\ inst'.st.preflight = inst.st.preflight /\ inst'.fin = inst.fin
    BY Zenon, <1>7, <1>b DEF bootstrapStage, Object, Status
  <2>3. RunFacts' /\ BranchFacts'
    BY <2>1, <2>2 DEF RunFacts, BranchFacts, InstallPcs, UninstallPcs
  <2>4. CopyLags'
    BY <1>a, <2>1, <2>2, CopyMoves DEF CopyInv
  <2>. QED  BY <1>a, <2>1, <2>3, <2>4, ResourceUnchanged DEF CopyInv
<1>8. ASSUME NEW p \in Products, FinalizerRefused(p) PROVE ResourceInv' /\ CopyInv'
  <2>1. /\ pc = "products" /\ inst.exists /\ up /\ cr' = cr /\ cached' = cached
        /\ world' = world /\ up' = up /\ pc' = "products"
        /\ inst.st.preflight = "success" /\ ~inst.deleting
    BY <1>8, <1>a, RefusedFacts
    DEF FinalizerRefused, CopyInv, RunFacts, BranchFacts, InstallPcs
  <2>2. /\ inst'.exists = inst.exists /\ inst'.rv = inst.rv /\ inst'.deleting = inst.deleting
        /\ inst'.st = inst.st
        /\ inst'.fin = (inst.fin \ {PreviousFinalizer(p)}) \cup {Finalizer(p)}
    BY <1>8, <1>b DEF FinalizerRefused, WithFinalizer, Object
  <2>3. run'.todo = run.todo \ {p}
    BY <1>8, <1>a DEF FinalizerRefused, TypeOK, Locals
  <2>5. RunFacts' /\ BranchFacts'
    BY <2>1, <2>2 DEF RunFacts, BranchFacts, InstallPcs, UninstallPcs
  <2>6. \A q \in Products :
          /\ Finalizer(q) \in inst.fin => Finalizer(q) \in inst'.fin
          /\ Guarded(q, inst.fin) => Guarded(q, inst'.fin)
    BY <2>2, Distinct DEF Guarded, PreviousFinalizer, Finalizer
  <2>7. \A q \in Products :
          q \in run'.todo /\ Finalizer(q) \in inst'.fin =>
            q \in run.todo /\ Finalizer(q) \in inst.fin
    BY <2>2, <2>3, Distinct
  <2>8. CopyLags'
    BY <1>a, <2>1, <2>2, <2>6, <2>7, CopyMoves DEF CopyInv
  <2>. QED  BY <1>a, <2>1, <2>5, <2>8, ResourceUnchanged DEF CopyInv
<1>9. ASSUME NEW p \in Products, NEW phase \in {"completed", "in progress", "aborted"},
             ReconcileProduct(p, phase)
      PROVE  ResourceInv' /\ CopyInv'
  <2>1. /\ pc = "products" /\ inst.exists /\ up /\ cached' = cached /\ p \in run.todo
        /\ up' = up /\ pc' = "products"
        /\ inst.st.preflight = "success" /\ ~inst.deleting
    BY <1>9, <1>a DEF ReconcileProduct, CopyInv, RunFacts, BranchFacts, InstallPcs
  <2>2. \A q \in Products : world'[q] = "present" => q = p \/ world[q] = "present"
    BY <1>9, <1>a DEF ReconcileProduct, TypeOK
  <2>3. \A q \in Products : q \in run'.todo => q \in run.todo
    BY <1>9, <1>a DEF ReconcileProduct, TypeOK, Locals
  <2>4. CASE Registered(p) /\ UNCHANGED <<cr, inst>>
    <3>1. Finalizer(p) \in inst.fin /\ Finalizer(p) \in cr.fin
      BY <1>a, <1>b, <2>1, <2>4 DEF Registered, WithFinalizer, Object, CopyInv, CopyLags
    <3>2. ResourceInv'
      BY <1>a, <2>1, <2>2, <2>4, <3>1
      DEF ResourceInv, ObjectFacts, CacheLags, FinalizersAfterPreflight, NoOrphans, Current, Guarded
    <3>3. RunFacts' /\ BranchFacts'
      BY <2>1, <2>4 DEF RunFacts, BranchFacts, InstallPcs, UninstallPcs
    <3>4. CopyLags'
      BY <1>a, <2>1, <2>2, <2>3, <2>4, <3>1 DEF CopyInv, CopyLags, Current, Guarded
    <3>. QED  BY <3>2, <3>3, <3>4 DEF CopyInv
  <2>5. CASE Update(WithFinalizer(p))
    <3>. DEFINE obj == WithFinalizer(p)
    <3>1. obj \in Object
      BY Zenon, <1>b, ObjectUpdates, DeletionIsFinalizer DEF WithFinalizer
    <3>2. /\ obj.rv = inst.rv /\ obj.fin # {}
          /\ obj.fin = (inst.fin \ {PreviousFinalizer(p)}) \cup {Finalizer(p)}
      BY ZenonT(40), <1>b DEF WithFinalizer, Object
    <3>. HIDE DEF obj
    <3>3. /\ cr.exists /\ cr.rv = obj.rv
          /\ cr'.exists /\ cr'.deleting = cr.deleting /\ cr'.st = cr.st /\ cr'.fin = obj.fin
          /\ cr' = cr \/ cr'.rv = NewRV
          /\ inst'.exists /\ inst'.rv = cr'.rv /\ inst'.deleting = cr.deleting
          /\ inst'.fin = obj.fin /\ inst'.st = cr.st
      BY <1>a, <2>5, <3>1, <3>2, UpdateFields DEF obj
    <3>4. Current(inst)
      BY <2>1, <3>2, <3>3 DEF Current
    <3>5. cr.st.preflight = "success" /\ ~cr.deleting
      BY <1>a, <2>1, <3>4 DEF CopyInv, CopyLags
    <3>6. cr'.fin # {}
      BY <3>2, <3>3
    <3>7. \A q \in Products :
            /\ Finalizer(q) \in inst.fin => Finalizer(q) \in cr'.fin
            /\ q = p \/ Guarded(q, inst.fin) => Guarded(q, cr'.fin)
      BY <3>2, <3>3, Distinct DEF Guarded, PreviousFinalizer, Finalizer
    <3>8. \A q \in Products :
            /\ Finalizer(q) \in cr.fin => Finalizer(q) \in cr'.fin
            /\ world'[q] = "present" => Guarded(q, cr'.fin)
      BY <1>a, <2>1, <2>2, <3>4, <3>7 DEF CopyInv, CopyLags
    <3>9. ResourceInv'
      BY <1>a, <2>1, <3>3, <3>5, <3>6, <3>8, ResourceAfterPut
    <3>10. RunFacts' /\ BranchFacts'
      BY <2>1, <3>3, <3>5, <3>6 DEF RunFacts, BranchFacts, InstallPcs, UninstallPcs
    <3>11. CopyLags'
      BY <2>1, <3>3, <3>5, <3>9, CopyAfterUpdate DEF ResourceInv
    <3>. QED  BY <3>9, <3>10, <3>11 DEF CopyInv
  <2>. QED  BY <1>9, <2>4, <2>5 DEF ReconcileProduct
<1>10. CASE StageAborted
  <2>1. /\ pc = "products" /\ pc' = "products" /\ cr' = cr /\ cached' = cached /\ inst' = inst
        /\ world' = world /\ up' = up
    BY <1>10 DEF StageAborted
  <2>2. run'.todo = {}
    BY <1>10, <1>a DEF StageAborted, TypeOK, Locals
  <2>3. RunFacts' /\ BranchFacts'
    BY <1>a, <2>1 DEF CopyInv, RunFacts, BranchFacts, InstallPcs, UninstallPcs
  <2>4. CopyLags'
    BY <1>a, <2>1, <2>2, CopyMoves DEF CopyInv
  <2>. QED  BY <1>a, <2>1, <2>3, <2>4, ResourceUnchanged DEF CopyInv
<1>11. CASE Finish
  <2>. DEFINE obj == [inst EXCEPT !.st = FinalStatus]
  <2>0. /\ pc \in {"finish", "products"} /\ inst.exists /\ up /\ cached' = cached
        /\ world' = world /\ up' = up
        /\ inst.st.preflight = "success" /\ ~inst.deleting
    BY <1>11, <1>a DEF Finish, CopyInv, RunFacts, BranchFacts, InstallPcs
  <2>1. \/ StatusUpdate(obj) /\ pc' = "object" /\ run' = NoRun /\ UNCHANGED bounds
        \/ inst' = obj /\ pc' = "object" /\ UNCHANGED <<cr, bounds>>
        \/ Refused(obj) /\ Return
    BY <1>11 DEF Finish
  <2>2. CASE Refused(obj) /\ Return
    BY <1>a, <2>0, <2>2, RefusedFacts, ResourceUnchanged, CopyAfterReturn
  <2>a. FinalStatus \in Status /\ FinalStatus.preflight = "success"
    BY <1>a, <2>0, FinalStatusFacts
  <2>b. /\ obj \in Object /\ obj.rv = inst.rv /\ obj.fin = inst.fin
        /\ obj.exists = inst.exists /\ obj.deleting = inst.deleting
        /\ obj.st.preflight = "success"
    BY <1>b, <2>a DEF Object
  <2>4. CASE inst' = obj /\ pc' = "object" /\ UNCHANGED <<cr, bounds>>
    <3>. HIDE DEF obj
    <3>1. RunFacts' /\ BranchFacts'
      BY <2>0, <2>b, <2>4 DEF RunFacts, BranchFacts, InstallPcs, UninstallPcs
    <3>2. CopyLags'
      BY <1>a, <2>0, <2>b, <2>4, CopyMoves DEF CopyInv
    <3>. QED  BY <1>a, <2>0, <2>4, <3>1, <3>2, ResourceUnchanged DEF CopyInv
  <2>3. CASE StatusUpdate(obj) /\ pc' = "object"
    <3>2. obj \in Object /\ obj.rv = inst.rv /\ obj.st.preflight = "success"
      BY <2>b
    <3>. HIDE DEF obj
    <3>3. /\ cr.exists /\ cr.rv = obj.rv
          /\ cr'.exists /\ cr'.deleting = cr.deleting /\ cr'.st = obj.st /\ cr'.fin = cr.fin
          /\ cr' = cr \/ cr'.rv = NewRV
          /\ inst'.exists /\ inst'.rv = cr'.rv /\ inst'.deleting = cr.deleting
          /\ inst'.st = obj.st /\ inst'.fin = cr.fin
      BY <1>a, <2>3, <3>2, StatusUpdateFields
    <3>4. ResourceInv'
      BY <1>a, <2>0, <3>2, <3>3, ResourceAfterStatus
    <3>5. Current(inst)
      BY <2>0, <3>2, <3>3 DEF Current
    <3>6. CopyLags'
      BY <1>a, <2>0, <2>3, <3>3, <3>5, CopyAfterStatus DEF CopyInv, ResourceInv
    <3>7. ~inst'.deleting
      BY <1>a, <2>0, <3>3, <3>5 DEF CopyInv, CopyLags
    <3>8. RunFacts' /\ BranchFacts'
      BY <2>0, <2>3, <3>2, <3>3, <3>7 DEF RunFacts, BranchFacts, InstallPcs, UninstallPcs
    <3>. QED  BY <3>4, <3>6, <3>8 DEF CopyInv
  <2>. QED  BY <2>1, <2>2, <2>3, <2>4
<1>12. ASSUME UpdateObject \/ SaveFinalizers PROVE ResourceInv' /\ CopyInv'
  <2>1. /\ pc \in {"object", "save"} /\ cached' = cached /\ world' = world /\ Return
        /\ inst.exists /\ inst.st.preflight = "success"
        /\ pc = "object" => ~inst.deleting
        /\ pc = "save" => inst.deleting
    BY <1>12, <1>a
    DEF UpdateObject, SaveFinalizers, CopyInv, RunFacts, BranchFacts, InstallPcs, UninstallPcs
  <2>2. CopyInv'
    BY <2>1, CopyAfterReturn
  <2>3. cr' = cr \/ (Accepts(cr, inst) /\ cr' = Put(cr, inst, NewRV, NoObject))
    BY <1>12, RefusedFacts DEF UpdateObject, SaveFinalizers
  <2>4. CASE cr' = cr
    BY <1>a, <2>1, <2>2, <2>4, ResourceUnchanged
  <2>5. CASE Accepts(cr, inst) /\ cr' = Put(cr, inst, NewRV, NoObject)
    <3>1. Current(inst)
      BY <2>1, <2>5 DEF Accepts, Current
    <3>2. CASE inst.fin = {} /\ cr.deleting
      <4>1. cr' = NoObject
        BY <1>a, <1>b, <2>5, <3>2, PutCollects
      <4>2. inst.deleting /\ \A p \in Products : world[p] # "present"
        BY <1>a, <3>1, <3>2 DEF CopyInv, CopyLags, Guarded
      <4>3. cached.exists => cached.deleting
        BY <1>a, <4>2 DEF CopyInv, CopyLags
      <4>. QED  BY <1>a, <2>1, <2>2, <4>1, <4>2, <4>3, ResourceAfterCollect
    <3>3. CASE inst.fin # {} \/ ~cr.deleting
      <4>1. /\ cr.exists /\ cr.rv = inst.rv
            /\ cr'.exists /\ cr'.deleting = cr.deleting /\ cr'.st = cr.st /\ cr'.fin = inst.fin
            /\ cr' = cr \/ cr'.rv = NewRV
        BY <1>a, <1>b, <2>5, <3>3, PutFields
      <4>2. /\ cr.st.preflight = "success"
            /\ \A p \in Products : world'[p] = "present" => Guarded(p, cr'.fin)
            /\ \/ cached.deleting \/ ~cached.exists
               \/ \A p \in Products : Finalizer(p) \in cr.fin => Finalizer(p) \in cr'.fin
        BY SMTT(30), <1>a, <2>1, <3>1, <4>1 DEF CopyInv, CopyLags
      <4>. QED  BY <1>a, <2>1, <2>2, <3>3, <4>1, <4>2, ResourceAfterPut
    <3>. QED  BY <3>2, <3>3
  <2>. QED  BY <2>3, <2>4, <2>5
<1>13. CASE handleUninstall
  <2>1. CASE Return
    BY <1>13, <1>a, <2>1, ResourceUnchanged, CopyAfterReturn DEF handleUninstall
  <2>2. CASE inst' = [inst EXCEPT !.st.stage = "deletion"] /\ pc' = "removing"
    <3>1. /\ pc = "uninstall" /\ cr' = cr /\ cached' = cached /\ world' = world /\ up' = up
      BY <1>13 DEF handleUninstall
    <3>2. /\ inst'.exists = inst.exists /\ inst'.rv = inst.rv /\ inst'.deleting = inst.deleting
          /\ inst'.st.preflight = inst.st.preflight /\ inst'.fin = inst.fin
      BY <1>b, <2>2 DEF Object, Status
    <3>3. RunFacts' /\ BranchFacts'
      BY <1>a, <2>2, <3>1, <3>2 DEF CopyInv, RunFacts, BranchFacts, InstallPcs, UninstallPcs
    <3>4. CopyLags'
      BY <1>a, <2>2, <3>1, <3>2, CopyMoves DEF CopyInv
    <3>. QED  BY <1>a, <3>1, <3>3, <3>4, ResourceUnchanged DEF CopyInv
  <2>. QED  BY <1>13, <2>1, <2>2 DEF handleUninstall
<1>14. ASSUME NEW p \in Products, UninstallProduct(p) PROVE ResourceInv' /\ CopyInv'
  <2>1. /\ pc = "removing" /\ inst.exists /\ up /\ cr' = cr /\ cached' = cached
        /\ up' = up /\ pc' = "removing"
        /\ inst.st.preflight = "success" /\ inst.deleting
    BY <1>14, <1>a DEF UninstallProduct, CopyInv, RunFacts, BranchFacts, UninstallPcs
  <2>2. \A q \in Products : world'[q] = "present" => world[q] = "present"
    BY <1>14, <1>a DEF UninstallProduct, Deleted, TypeOK
  <2>3. \/ inst' = inst
        \/ inst' = [inst EXCEPT !.fin = IF CleanedUp(p) THEN @ \ {Finalizer(p)} ELSE @]
    BY <1>14 DEF UninstallProduct
  <2>4. /\ inst'.exists = inst.exists /\ inst'.rv = inst.rv /\ inst'.deleting = inst.deleting
        /\ inst'.st = inst.st
        /\ \/ inst'.fin = inst.fin
           \/ inst'.fin = inst.fin \ {Finalizer(p)} /\ world[p] # "present"
    BY <1>b, <2>3 DEF Object, CleanedUp
  <2>5. HasDeletion(inst.fin) => HasDeletion(inst'.fin)
    BY <2>4, Distinct DEF HasDeletion
  <2>6. \A q \in Products :
          world'[q] = "present" /\ Guarded(q, inst.fin) => Guarded(q, inst'.fin)
    BY <2>2, <2>4, Distinct DEF Guarded
  <2>7. RunFacts' /\ BranchFacts'
    BY SMTT(30), <2>1, <2>4 DEF RunFacts, BranchFacts, InstallPcs, UninstallPcs
  <2>8. CopyLags'
    BY Zenon, <1>a, <2>1, <2>2, <2>4, <2>5, <2>6 DEF CopyInv, CopyLags, Current
  <2>. QED  BY <1>a, <2>1, <2>2, <2>7, <2>8, ResourceUnchanged DEF CopyInv
<1>15. ASSUME (\E p \in Products : SkipProduct(p)) \/ NextUninstallStage
       PROVE  ResourceInv' /\ CopyInv'
  <2>1. /\ pc = "removing" /\ cr' = cr /\ cached' = cached /\ inst' = inst
        /\ world' = world /\ up' = up /\ pc' \in {"removing", "tidy", "save"}
        /\ pc' = "tidy" => inst.fin = {DeletionFinalizer}
    BY <1>15 DEF SkipProduct, NextUninstallStage, OnlyDeletionLeft
  <2>2. RunFacts' /\ BranchFacts'
    BY <1>a, <2>1 DEF CopyInv, RunFacts, BranchFacts, InstallPcs, UninstallPcs
  <2>3. CopyLags'
    BY <1>a, <2>1, CopyMoves DEF CopyInv
  <2>. QED  BY <1>a, <2>1, <2>2, <2>3, ResourceUnchanged DEF CopyInv
<1>16. CASE PendingUninstalls
  <2>0. /\ pc = "removing" /\ inst.exists /\ up /\ cached' = cached /\ world' = world
        /\ up' = up /\ pc' = "save"
        /\ inst.st.preflight = "success" /\ inst.deleting
    BY <1>16, <1>a DEF PendingUninstalls, CopyInv, RunFacts, BranchFacts, UninstallPcs
  <2>1. CASE UNCHANGED <<cr, inst>>
    <3>1. RunFacts' /\ BranchFacts'
      BY <2>0, <2>1 DEF RunFacts, BranchFacts, InstallPcs, UninstallPcs
    <3>2. CopyLags'
      BY Zenon, <1>a, <2>0, <2>1, CopyMoves DEF CopyInv
    <3>. QED  BY <1>a, <2>0, <2>1, <3>1, <3>2, ResourceUnchanged DEF CopyInv
  <2>2. CASE StatusUpdate(inst)
    <3>1. /\ cr.exists /\ cr.rv = inst.rv
          /\ cr'.exists /\ cr'.deleting = cr.deleting /\ cr'.st = inst.st /\ cr'.fin = cr.fin
          /\ cr' = cr \/ cr'.rv = NewRV
          /\ inst'.exists /\ inst'.rv = cr'.rv /\ inst'.deleting = cr.deleting
          /\ inst'.st = inst.st /\ inst'.fin = cr.fin
      BY <1>a, <1>b, <2>2, StatusUpdateFields
    <3>2. ResourceInv'
      BY <1>a, <2>0, <3>1, ResourceAfterStatus
    <3>3. Current(inst)
      BY <2>0, <3>1 DEF Current
    <3>4. CopyLags'
      BY <1>a, <2>0, <3>1, <3>3, CopyAfterStatus DEF CopyInv, ResourceInv
    <3>5. inst'.deleting
      BY <1>a, <2>0, <3>1, <3>3 DEF CopyInv, CopyLags
    <3>6. RunFacts' /\ BranchFacts'
      BY <2>0, <3>1, <3>5 DEF RunFacts, BranchFacts, InstallPcs, UninstallPcs
    <3>. QED  BY <3>2, <3>4, <3>6 DEF CopyInv
  <2>. QED  BY <1>16, <2>1, <2>2, RefusedFacts DEF PendingUninstalls
<1>17. CASE TidyUp
  <2>0. /\ pc = "tidy" /\ inst.exists /\ up /\ cr' = cr /\ cached' = cached /\ world' = world
        /\ up' = up /\ inst.fin = {DeletionFinalizer}
        /\ inst.st.preflight = "success" /\ inst.deleting
    BY <1>17, <1>a DEF TidyUp, CopyInv, RunFacts, BranchFacts, UninstallPcs
  <2>1. CASE pc' = "save" /\ UNCHANGED inst
    <3>1. RunFacts' /\ BranchFacts'
      BY <2>0, <2>1 DEF RunFacts, BranchFacts, InstallPcs, UninstallPcs
    <3>2. CopyLags'
      BY Zenon, <1>a, <2>0, <2>1, CopyMoves DEF CopyInv
    <3>. QED  BY <1>a, <2>0, <3>1, <3>2, ResourceUnchanged DEF CopyInv
  <2>2. CASE /\ cfgMap' = FALSE /\ pc' = "release"
             /\ inst' = [inst EXCEPT !.fin = @ \ {DeletionFinalizer}]
    <3>1. /\ inst'.exists = inst.exists /\ inst'.rv = inst.rv /\ inst'.deleting = inst.deleting
          /\ inst'.st = inst.st /\ inst'.fin = {}
      BY Zenon, <1>b, <2>0, <2>2 DEF Object
    <3>2. RunFacts' /\ BranchFacts'
      BY <2>0, <2>2, <3>1 DEF RunFacts, BranchFacts, InstallPcs, UninstallPcs
    <3>3. \A p \in Products : ~Guarded(p, inst.fin) /\ Finalizer(p) \notin inst.fin
      BY <2>0, Distinct DEF Guarded
    <3>4. CopyLags'
      BY <1>a, <2>0, <2>2, <3>1, <3>3, CopyMoves DEF CopyInv
    <3>. QED  BY <1>a, <2>0, <3>2, <3>4, ResourceUnchanged DEF CopyInv
  <2>. QED  BY Zenon, <1>17, <2>1, <2>2 DEF TidyUp
<1>18. CASE Release
  <2>0. /\ pc = "release" /\ inst.exists /\ up /\ cached' = cached /\ world' = world
        /\ up' = up /\ inst.fin = {} /\ cfgMap' = cfgMap /\ ~cfgMap
        /\ inst.st.preflight = "success" /\ inst.deleting
    BY <1>18, <1>a DEF Release, CopyInv, RunFacts, BranchFacts, UninstallPcs
  <2>1. CASE Refused(inst) /\ Return
    BY <1>a, <2>0, <2>1, RefusedFacts, ResourceUnchanged, CopyAfterReturn
  <2>2. CASE Update(inst) /\ pc' = "goodbye"
    <3>1. Current(inst) /\ cr.exists
      BY <2>0, <2>2 DEF Update, Accepts, Current
    <3>2. /\ cr.deleting /\ cr.st.preflight = "success" /\ (cached.exists => cached.deleting)
          /\ \A p \in Products : world[p] # "present"
      BY <1>a, <2>0, <3>1 DEF CopyInv, CopyLags, Guarded
    <3>3. /\ cr' = NoObject
          /\ inst'.exists /\ inst'.deleting /\ inst'.fin = {} /\ inst'.st.preflight = "success"
      BY <1>a, <1>b, <2>0, <2>2, <3>1, <3>2, NewRVIsFresh, PutCollects, StoredFacts DEF Update
    <3>4. ~cr'.exists /\ ~cr'.deleting /\ cr'.fin = {}
      BY <3>3 DEF NoObject
    <3>5. ResourceInv'
      BY <1>a, <2>0, <3>2, <3>3, ResourceAfterCollect
    <3>6. RunFacts' /\ BranchFacts'
      BY SMTT(30), <2>0, <2>2, <3>3 DEF RunFacts, BranchFacts, InstallPcs, UninstallPcs
    <3>7. CopyLags'
      BY <2>0, <2>2, <3>2, <3>3, <3>4 DEF CopyLags, Current
    <3>. QED  BY <3>5, <3>6, <3>7 DEF CopyInv
  <2>. QED  BY <1>18, <2>1, <2>2 DEF Release
<1>19. CASE UninstallOperator
  BY <1>19, <1>a, ResourceUnchanged, CopyAfterReturn DEF UninstallOperator
<1>20. CASE Start
  <2>1. pc = "idle" /\ pc' = "idle" /\ inst = NoObject /\ UNCHANGED <<inst, run, world, cfgMap>>
    BY <1>20, <1>a DEF Start, CopyInv, RunFacts
  <2>2. CopyInv'
    BY ZenonT(40), <1>a, <2>1
    DEF CopyInv, RunFacts, BranchFacts, CopyLags, Current, NoObject, InstallPcs, UninstallPcs
  <2>3. CASE cr' = cr
    BY ZenonT(40), <1>20, <1>a, <2>1, <2>2, <2>3
    DEF Start, ResourceInv, ObjectFacts, CacheLags, FinalizersAfterPreflight, NoOrphans
  <2>4. CASE ~cr.exists /\ cr' = Created(NewRV)
    <3>1. cr'.exists /\ ~cr'.deleting /\ cr'.fin = {} /\ cr.fin = {}
      BY <1>a, <2>4 DEF Created, NoObject, ResourceInv, ObjectFacts
    <3>2. \A p \in Products : world'[p] # "present"
      BY <1>a, <2>1, <3>1 DEF ResourceInv, NoOrphans, Guarded
    <3>3. cached' = cr'
      BY <1>20 DEF Start
    <3>. QED
      BY <2>2, <3>1, <3>2, <3>3
      DEF ResourceInv, ObjectFacts, CacheLags, FinalizersAfterPreflight, NoOrphans
  <2>. QED  BY <1>20, <2>3, <2>4 DEF Start
<1>21. ASSUME Crash \/ Upgrade PROVE ResourceInv' /\ CopyInv'
  BY <1>21, <1>a, ResourceUnchanged, CopyAfterReturn DEF Crash, Upgrade, Stop
<1>22. CASE CacheSync
  <2>1. cached' = cr /\ cr' = cr /\ UNCHANGED <<inst, pc, run, up, world, cfgMap>>
    BY <1>22 DEF CacheSync
  <2>2. ResourceInv'
    <3>1. ObjectFacts'
      BY <1>a, <2>1 DEF ResourceInv, ObjectFacts
    <3>2. CacheLags'
      BY <2>1 DEF CacheLags
    <3>3. FinalizersAfterPreflight' /\ NoOrphans'
      BY <1>a, <2>1 DEF ResourceInv, FinalizersAfterPreflight, NoOrphans, Guarded
    <3>. QED  BY <3>1, <3>2, <3>3 DEF ResourceInv
  <2>3. RunFacts' /\ BranchFacts'
    BY <1>a, <2>1, RunStays DEF CopyInv
  <2>4. CopyLags'
    BY <1>a, <2>1, CopyStays DEF CopyInv
  <2>. QED  BY <2>2, <2>3, <2>4 DEF CopyInv
<1>23. CASE DeleteCR
  <2>0. cr.exists /\ ~cr.deleting /\ cached' = cached /\ world' = world /\ cfgMap' = cfgMap
    BY <1>23 DEF DeleteCR
  <2>1. CASE cr.fin # {} /\ cr' = [cr EXCEPT !.deleting = TRUE, !.rv = NewRV] /\ UNCHANGED process
    <3>1. /\ cr'.exists /\ cr'.deleting /\ cr'.rv = NewRV /\ cr'.fin = cr.fin
          /\ cr'.st = cr.st
      BY <1>b, <2>0, <2>1 DEF Object
    <3>2. ~Current(cached)' /\ ~Current(inst)'
      BY <2>0, <2>1, <3>1, NewRVIsFresh DEF Current
    <3>3. ResourceInv'
      BY <1>a, <2>0, <2>1, <3>1, <3>2
      DEF ResourceInv, ObjectFacts, CacheLags, FinalizersAfterPreflight, NoOrphans
    <3>4. RunFacts' /\ BranchFacts'
      BY <1>a, <2>0, <2>1, RunStays DEF CopyInv
    <3>5. CopyLags'
      BY <1>a, <2>0, <2>1, <3>1, <3>2, CopyOutdated DEF CopyInv
    <3>. QED  BY <3>3, <3>4, <3>5 DEF CopyInv
  <2>2. CASE /\ cr.fin = {} /\ cr' = NoObject
             /\ UNCHANGED process \/ Stop
    <3>1. ~cr'.exists /\ ~cr'.deleting /\ cr'.fin = {}
      BY <2>2 DEF NoObject
    <3>2. ~Current(cached)' /\ ~Current(inst)'
      BY <3>1 DEF Current
    <3>3. ResourceInv'
      BY Zenon, <1>a, <2>0, <2>2, <3>1, <3>2
      DEF ResourceInv, ObjectFacts, CacheLags, FinalizersAfterPreflight, NoOrphans, Guarded
    <3>4. CASE UNCHANGED process
      <4>1. RunFacts' /\ BranchFacts'
        BY <1>a, <2>0, <3>4, RunStays DEF CopyInv
      <4>2. CopyLags'
        BY <1>a, <2>0, <2>2, <3>1, <3>2, <3>4, CopyOutdated DEF CopyInv
      <4>. QED  BY <3>3, <4>1, <4>2 DEF CopyInv
    <3>5. CASE Stop
      BY <3>3, <3>5, CopyAfterReturn DEF Stop
    <3>. QED  BY <2>2, <3>4, <3>5
  <2>. QED  BY <1>23, <2>1, <2>2 DEF DeleteCR
<1>24. CASE EditCR
  <2>0. /\ cr.exists /\ cached' = cached /\ world' = world /\ cfgMap' = cfgMap
        /\ cr' = [cr EXCEPT !.rv = NewRV] /\ UNCHANGED process
    BY <1>24 DEF EditCR
  <2>1. /\ cr'.exists /\ cr'.deleting = cr.deleting /\ cr'.rv = NewRV /\ cr'.fin = cr.fin
        /\ cr'.st = cr.st
    BY <1>b, <2>0 DEF Object
  <2>2. ~Current(inst)'
    BY <2>0, <2>1, NewRVIsFresh DEF Current
  <2>3. ResourceInv'
    BY <1>a, <2>0, <2>1, ResourceAfterStatus DEF ResourceInv, FinalizersAfterPreflight
  <2>4. RunFacts' /\ BranchFacts'
    BY <1>a, <2>0, RunStays DEF CopyInv
  <2>5. CopyLags'
    BY <1>a, <2>0, <2>1, <2>2, CopyOutdated DEF CopyInv
  <2>. QED  BY <2>3, <2>4, <2>5 DEF CopyInv
<1>25. ASSUME \/ \E q \in 1 .. MaxQuota : ChangeQuota(q)
              \/ \E p \in Products : NamespaceGone(p)
              \/ UNCHANGED vars
       PROVE  ResourceInv' /\ CopyInv'
  <2>1. UNCHANGED <<cr, cached, inst, pc, run, up, cfgMap>>
    BY <1>25 DEF ChangeQuota, NamespaceGone, vars
  <2>2. \A q \in Products : world'[q] = "present" => world[q] = "present"
    BY <1>25, <1>a DEF ChangeQuota, NamespaceGone, vars, TypeOK
  <2>3. RunFacts' /\ BranchFacts'
    BY <1>a, <2>1, RunStays DEF CopyInv
  <2>4. CopyLags'
    BY <1>a, <2>1, <2>2, CopyStays DEF CopyInv
  <2>. QED  BY <1>a, <2>1, <2>2, <2>3, <2>4, ResourceUnchanged DEF CopyInv
<1>. QED
  BY <1>1, <1>2, <1>3, <1>4, <1>5, <1>6, <1>7, <1>8, <1>9, <1>10, <1>11, <1>12, <1>13,
     <1>14, <1>15, <1>16, <1>17, <1>18, <1>19, <1>20, <1>21, <1>22, <1>23, <1>24, <1>25
  DEF Next, OperatorStep

\* The first layer of the invariant holds throughout.
LEMMA CoreInvariant == Spec => []CoreInv
BY InitCore, StepCore, PTL DEF Spec

(***************************************************************************)
(* The theorems                                                            *)
(***************************************************************************)
\* A resource carries finalizers only once its preflight checks have passed, so
\* the preflight gate of Reconcile, which comes before the deletion gate, never
\* keeps a resource with finalizers from being uninstalled.
THEOREM FinalizersNeedPreflight == Spec => []FinalizersAfterPreflight
<1>1. CoreInv => FinalizersAfterPreflight
  BY DEF CoreInv, ResourceInv
<1>. QED  BY <1>1, CoreInvariant, PTL

\* A deployed product is guarded by its finalizer on the server, whatever the
\* interleaving of reconciles, crashes, upgrades, stale reads, conflicts, edits
\* and deletions.
THEOREM DeployedIsGuarded == Spec => []NoOrphans
<1>1. CoreInv => NoOrphans
  BY DEF CoreInv, ResourceInv
<1>. QED  BY <1>1, CoreInvariant, PTL

\* Only an uninstall that has no finalizer left lets go of a resource that is being
\* deleted.
LEMMA OnlyUninstallCollects ==
  ASSUME CoreInv, [Next]_vars, cr.deleting, ~cr'.exists
  PROVE  pc \in {"save", "release"} /\ Current(inst) /\ inst.fin = {}
<1>. USE DEF resource, process, cluster, world3, Running
<1>a. TypeOK /\ ResourceInv /\ CopyInv
  BY DEF CoreInv
<1>b. cr \in Object /\ inst \in Object /\ cr.exists
  <2>1. cr \in Object /\ inst \in Object
    BY Zenon, <1>a DEF TypeOK
  <2>2. cr.exists
    BY <1>a DEF ResourceInv, ObjectFacts, NoObject
  <2>. QED  BY <2>1, <2>2
<1>c. ASSUME NEW obj \in Object, obj.fin # {}, Accepts(cr, obj),
             cr' = Put(cr, obj, NewRV, NoObject)
      PROVE  FALSE
  BY Zenon, <1>a, <1>c, PutFields
<1>d. ASSUME NEW obj \in Object, obj.fin # {}, Update(obj) PROVE FALSE
  BY <1>c, <1>d DEF Update
<1>e. ASSUME NEW obj, cr' = PutStatus(cr, obj, NewRV) PROVE FALSE
  BY <1>b, <1>e DEF PutStatus, Object
<1>f. ASSUME NEW obj, StatusUpdate(obj) PROVE FALSE
  BY <1>e, <1>f DEF StatusUpdate
<1>g. cr' # cr
  BY <1>b
<1>1. ~CopyEmail
  BY <1>b, <1>g DEF CopyEmail, Object
<1>2. ~EnsureDeletionFinalizer
  <2>. DEFINE obj == [inst EXCEPT !.fin = (@ \ {PreviousFinalizer("deletion")})
                                          \cup {DeletionFinalizer}]
  <2>1. obj \in Object
    BY Zenon, <1>b, ObjectUpdates, DeletionIsFinalizer
  <2>2. obj.fin # {}
    BY <1>b DEF Object
  <2>3. EnsureDeletionFinalizer => cr' = cr \/ Update(obj)
    BY RefusedFacts DEF EnsureDeletionFinalizer
  <2>. HIDE DEF obj
  <2>. QED  BY <1>d, <1>g, <2>1, <2>2, <2>3
<1>3. ASSUME NEW outcome, preflightChecks(outcome) PROVE FALSE
  BY <1>3, <1>e, <1>g, RefusedFacts DEF preflightChecks
<1>4. ~SetToVersion
  BY <1>f, <1>g, RefusedFacts DEF SetToVersion
<1>5. ASSUME NEW p \in Products, NEW phase, ReconcileProduct(p, phase) PROVE FALSE
  <2>1. WithFinalizer(p) \in Object /\ WithFinalizer(p).fin # {}
    <3>1. WithFinalizer(p) \in Object
      BY Zenon, <1>b, ObjectUpdates, DeletionIsFinalizer DEF WithFinalizer
    <3>2. WithFinalizer(p).fin # {}
      BY <1>b DEF WithFinalizer, Object
    <3>. QED  BY <3>1, <3>2
  <2>2. cr' = cr \/ Update(WithFinalizer(p))
    BY <1>5 DEF ReconcileProduct
  <2>. QED  BY <1>d, <1>g, <2>1, <2>2
<1>6. ~Finish
  <2>1. Finish => cr' = cr \/ \E obj : StatusUpdate(obj)
    BY RefusedFacts DEF Finish
  <2>. QED  BY <1>f, <1>g, <2>1
<1>7. ASSUME UpdateObject \/ SaveFinalizers
      PROVE  pc = "save" /\ Current(inst) /\ inst.fin = {}
  <2>1. /\ pc \in {"object", "save"} /\ Accepts(cr, inst)
        /\ cr' = Put(cr, inst, NewRV, NoObject)
    BY <1>7, <1>g, RefusedFacts DEF UpdateObject, SaveFinalizers
  <2>2. inst.fin = {}
    BY <1>b, <1>c, <2>1
  <2>3. Current(inst)
    BY <1>a, <2>1 DEF Accepts, Current, CopyInv, RunFacts
  <2>4. inst.deleting
    BY <1>a, <2>3 DEF CopyInv, CopyLags
  <2>. QED  BY <1>a, <2>1, <2>2, <2>3, <2>4 DEF CopyInv, BranchFacts, InstallPcs
<1>8. ~PendingUninstalls
  BY <1>f, <1>g, RefusedFacts DEF PendingUninstalls
<1>9. ~Start /\ ~DeleteCR /\ ~EditCR
  BY <1>b, <1>g DEF Start, DeleteCR, EditCR, Object
<1>10. ASSUME Release PROVE pc = "release" /\ Current(inst) /\ inst.fin = {}
  <2>1. pc = "release" /\ Update(inst)
    BY <1>10, <1>g, RefusedFacts DEF Release
  <2>. QED  BY <1>a, <2>1 DEF CopyInv, RunFacts, Update, Accepts, Current
<1>. QED
  BY Zenon, <1>g, <1>1, <1>2, <1>3, <1>4, <1>5, <1>6, <1>7, <1>8, <1>9, <1>10, RefusedFacts
  DEF Next, OperatorStep, vars, Reconcile, EarlyError, bootstrapStage, FinalizerRefused,
      StageAborted, handleUninstall, UninstallProduct, SkipProduct, NextUninstallStage,
      TidyUp, UninstallOperator, Crash, Upgrade, CacheSync, ChangeQuota, NamespaceGone

\* When the resource goes no product is running, and the ConfigMap is gone if the
\* resource had the deletion finalizer: the write of handleUninstall that drops the
\* last finalizer is accepted only if nothing has changed since it saw the others
\* gone, and the deletion finalizer is dropped only after the ConfigMap.
THEOREM GoneMeansUninstalled == Spec => UninstallIsComplete
<1>. DEFINE Complete == /\ \A p \in Products : world[p] # "present"
                        /\ HasDeletion(cr.fin) => ~cfgMap
<1>1. ASSUME CoreInv, [Next]_vars, cr.deleting, ~cr'.exists PROVE Complete
  <2>1. pc \in {"save", "release"} /\ Current(inst) /\ inst.fin = {}
    BY <1>1, OnlyUninstallCollects
  <2>2. \A p \in Products : world[p] # "present"
    BY <1>1, <2>1 DEF CoreInv, CopyInv, CopyLags, Guarded
  <2>3. inst.deleting
    BY <1>1, <2>1 DEF CoreInv, CopyInv, CopyLags
  <2>4. CASE pc = "save"
    BY <1>1, <2>1, <2>2, <2>3, <2>4 DEF CoreInv, CopyInv, CopyLags, HasDeletion
  <2>5. CASE pc = "release"
    BY <1>1, <2>2, <2>5 DEF CoreInv, CopyInv, RunFacts
  <2>. QED  BY <2>1, <2>4, <2>5
<1>2. CoreInv /\ [Next]_vars => [cr.deleting /\ ~cr'.exists => Complete]_vars
  BY <1>1
<1>. QED  BY <1>2, CoreInvariant, PTL DEF Spec, UninstallIsComplete

================================================================================
