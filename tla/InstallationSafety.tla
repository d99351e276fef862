--------------------------- MODULE InstallationSafety ---------------------------
(***************************************************************************)
(* TeardownInv, the layer of the invariant of Installation about the order *)
(* in which the products are taken down, and the theorems that need all    *)
(* three layers: IInv is CoreInv, PassInv and TeardownInv.  The format of  *)
(* the finalizers, which needs types only, comes last.                     *)
(***************************************************************************)
EXTENDS InstallationProofs

(***************************************************************************)
(* The order of the uninstallation                                         *)
(***************************************************************************)
\* Only a product that is deployed again needs another clean up.
LEMMA CleanedUpStays ==
  ASSUME NEW p \in Products,
         world'[p] = world[p] \/ world[p] = "present" \/ world'[p] = "absent"
  PROVE  CleanedUp(p) => CleanedUp(p)'
BY DEF CleanedUp

\* A reconcile that ends.
LEMMA SettledEnds ==
  ASSUME SettledFacts, cached' = cached, Return,
         \A p \in Products : CleanedUp(p) => CleanedUp(p)',
         \A p \in Products : Finalizer(p) \in cr.fin => Finalizer(p) \in cr'.fin \/ CleanedUp(p)
  PROVE  SettledFacts' /\ StageFacts'
<1>1. ~inst'.deleting /\ pc' = "idle"
  BY DEF Return, NoObject
<1>2. Settled(cr.fin)' /\ (cached.deleting => Settled(cached.fin))'
  BY DEF SettledFacts, Settled
<1>. QED  BY <1>1, <1>2 DEF SettledFacts, StageFacts

\* A step of an installation on a copy that writes nothing.
LEMMA SettledMoves ==
  ASSUME SettledFacts, cr' = cr, cached' = cached, inst'.deleting = inst.deleting,
         \A p \in Products : CleanedUp(p) => CleanedUp(p)',
         inst.deleting => Settled(inst.fin)',
         pc' \in {"begin", "version", "bootstrap", "products"} /\ ~inst.deleting =>
           /\ pc \in {"begin", "version", "bootstrap", "products"}
           /\ \A p \in Products :
                (pc' = "products" => p \in run'.todo) /\ Finalizer(p) \in inst'.fin =>
                  (pc = "products" => p \in run.todo) /\ Finalizer(p) \in inst.fin
  PROVE  SettledFacts'
<1>1. Settled(cr.fin)' /\ (cached.deleting => Settled(cached.fin))'
  BY DEF SettledFacts, Settled
<1>2. (inst.deleting => Settled(inst.fin))'
  OBVIOUS
<1>. QED  BY <1>1, <1>2 DEF SettledFacts

\* An accepted write of an installation: nobody is deleting the resource.
LEMMA SettledWrites ==
  ASSUME SettledFacts, cached' = cached, ~cached.deleting, ~inst'.deleting,
         \A p \in Products : (Finalizer(p) \in cr.fin => Finalizer(p) \in cr'.fin)
                             /\ (CleanedUp(p) => CleanedUp(p)' \/ Finalizer(p) \in cr'.fin)
  PROVE  SettledFacts'
BY DEF SettledFacts, Settled

\* Every step keeps the facts about the uninstall.
LEMMA StepTeardown == CoreInv /\ TeardownInv /\ [Next]_vars => TeardownInv'
<1>. SUFFICES ASSUME CoreInv, [Next]_vars, SettledFacts, StageFacts
             PROVE  SettledFacts' /\ StageFacts'
  BY DEF TeardownInv
<1>. USE DEF resource, process, cluster, world3, Running
<1>a. TypeOK /\ ResourceInv /\ CopyInv /\ TypeOK'
  BY StepType DEF CoreInv
<1>b. cr \in Object /\ cached \in Object /\ inst \in Object
  BY <1>a DEF TypeOK
<1>c. ASSUME world' = world PROVE \A p \in Products : CleanedUp(p) => CleanedUp(p)'
  BY <1>c, CleanedUpStays
<1>d. ASSUME cached' = cached, world' = world, Return, cr'.fin = cr.fin
      PROVE  SettledFacts' /\ StageFacts'
  BY <1>c, <1>d, SettledEnds
<1>e. ASSUME Current(inst), ~inst.deleting PROVE ~cached.deleting /\ ~cr.deleting
  BY <1>a, <1>e DEF CopyInv, CopyLags, ResourceInv, CacheLags, Current
<1>1. CASE Reconcile
  <2>1. /\ cr' = cr /\ cached' = cached /\ world' = world /\ inst' = cached /\ pc' = "begin"
    BY <1>1 DEF Reconcile
  <2>2. Settled(cr.fin)' /\ (cached.deleting => Settled(cached.fin))'
    BY <1>c, <2>1 DEF SettledFacts, Settled
  <2>. QED  BY <2>1, <2>2 DEF SettledFacts, StageFacts
<1>2. CASE CopyEmail
  <2>1. cached' = cached /\ world' = world /\ pc' = pc /\ pc = "begin" /\ run' = run
    BY <1>2 DEF CopyEmail
  <2>2. /\ cr'.fin = cr.fin /\ inst'.fin = inst.fin /\ inst'.deleting = inst.deleting
    BY <1>2, <1>b DEF CopyEmail, Object
  <2>3. /\ Settled(cr.fin)' /\ (cached.deleting => Settled(cached.fin))'
        /\ (inst.deleting => Settled(inst.fin))'
    BY <1>c, <2>1, <2>2 DEF SettledFacts, Settled
  <2>. QED  BY <2>1, <2>2, <2>3 DEF SettledFacts, StageFacts
<1>3. CASE EnsureDeletionFinalizer
  <2>. DEFINE obj == [inst EXCEPT !.fin = (@ \ {PreviousFinalizer("deletion")})
                                          \cup {DeletionFinalizer}]
  <2>1. cached' = cached /\ world' = world /\ pc = "begin" /\ inst.exists
    BY <1>3, <1>a DEF EnsureDeletionFinalizer, CopyInv, RunFacts
  <2>2. CASE cr' = cr /\ Return
    BY <1>d, <2>1, <2>2
  <2>3. CASE Branch(inst) /\ UNCHANGED cr
             /\ inst' \in {inst, [inst EXCEPT !.fin = @ \cup {DeletionFinalizer}]}
    <3>1. /\ inst'.deleting = inst.deleting
          /\ inst'.fin = inst.fin \/ inst'.fin = inst.fin \cup {DeletionFinalizer}
      BY <1>b, <2>3 DEF Object
    <3>2. \A p \in Products : Finalizer(p) \in inst'.fin <=> Finalizer(p) \in inst.fin
      BY <3>1, Distinct
    <3>3. pc' \in {"preflight", "uninstall", "version"}
      BY <2>3 DEF Branch
    <3>4. inst.deleting => Settled(inst.fin)'
      BY <1>c, <2>1, <3>2 DEF SettledFacts, Settled
    <3>. QED  BY <1>c, <2>1, <2>3, <3>1, <3>2, <3>3, <3>4, SettledMoves DEF StageFacts
  <2>4. CASE ~inst.deleting /\ Branch(inst) /\ Update(obj)
    <3>1. obj \in Object
      BY Zenon, <1>b, ObjectUpdates, DeletionIsFinalizer
    <3>2. /\ obj.exists /\ obj.rv = inst.rv /\ obj.fin # {}
          /\ obj.fin = (inst.fin \ {PreviousFinalizer("deletion")}) \cup {DeletionFinalizer}
      BY <1>b, <2>1 DEF Object
    <3>. HIDE DEF obj
    <3>3. cr.exists /\ cr.rv = obj.rv /\ cr'.fin = obj.fin /\ inst'.deleting = cr.deleting
      BY <1>a, <2>4, <3>1, <3>2, UpdateFields
    <3>4. Current(inst) /\ inst = cr /\ ~cached.deleting
      BY <1>a, <1>e, <2>1, <2>4, <3>2, <3>3 DEF CopyInv, CopyLags, Current
    <3>5. \A p \in Products : Finalizer(p) \in cr.fin => Finalizer(p) \in cr'.fin
      BY <3>2, <3>3, <3>4, Distinct
    <3>6. pc' # "removing"
      BY <2>4 DEF Branch
    <3>. QED  BY <1>c, <2>1, <2>4, <3>3, <3>4, <3>5, <3>6, SettledWrites DEF StageFacts
  <2>. QED  BY <1>3, <2>2, <2>3, <2>4, RefusedFacts DEF EnsureDeletionFinalizer
<1>4. ASSUME NEW outcome \in {"success", "fail"}, preflightChecks(outcome)
      PROVE  SettledFacts' /\ StageFacts'
  <2>. DEFINE obj == [inst EXCEPT !.st.stage = "Preflight Checks", !.st.preflight = outcome]
  <2>1. obj \in Object
    BY Zenon, <1>b, StatusUpdates DEF Stages
  <2>2. /\ cached' = cached /\ world' = world /\ Return
        /\ cr' = cr \/ (Accepts(cr, obj) /\ cr' = PutStatus(cr, obj, NewRV))
    BY <1>4, RefusedFacts DEF preflightChecks
  <2>. HIDE DEF obj
  <2>3. cr'.fin = cr.fin
    BY <1>a, <2>1, <2>2, PutStatusFields
  <2>. QED  BY <1>d, <2>2, <2>3
<1>5. ASSUME EarlyError \/ UninstallOperator \/ Crash \/ Upgrade
      PROVE  SettledFacts' /\ StageFacts'
  BY <1>5, <1>d DEF EarlyError, UninstallOperator, Crash, Upgrade, Stop
<1>6. CASE SetToVersion
  <2>. DEFINE obj == [inst EXCEPT !.st.toVersion = opVersion]
  <2>1. /\ cached' = cached /\ world' = world /\ pc = "version" /\ inst.exists /\ ~inst.deleting
    BY <1>6, <1>a DEF SetToVersion, CopyInv, RunFacts, BranchFacts, InstallPcs
  <2>2. CASE cr' = cr /\ Return
    BY <1>d, <2>1, <2>2
  <2>3. CASE pc' = "bootstrap" /\ UNCHANGED <<cr, inst>>
    BY <1>c, <2>1, <2>3, SettledMoves DEF StageFacts
  <2>4. CASE StatusUpdate(obj) /\ pc' = "bootstrap"
    <3>1. obj \in Object
      BY Zenon, <1>a, <1>b, ScalarTypes, StatusUpdates
    <3>2. obj.rv = inst.rv
      BY <1>b DEF Object
    <3>. HIDE DEF obj
    <3>3. cr.exists /\ cr.rv = obj.rv /\ cr'.fin = cr.fin /\ inst'.deleting = cr.deleting
      BY <1>a, <2>4, <3>1, StatusUpdateFields
    <3>4. ~cached.deleting /\ ~cr.deleting
      BY <1>e, <2>1, <3>2, <3>3 DEF Current
    <3>. QED  BY <1>c, <2>1, <2>4, <3>3, <3>4, SettledWrites DEF StageFacts
  <2>. QED  BY <1>6, <2>2, <2>3, <2>4, RefusedFacts DEF SetToVersion
<1>7. ASSUME NEW quotaRead \in BOOLEAN, NEW completed \in BOOLEAN,
             bootstrapStage(quotaRead, completed)
      PROVE  SettledFacts' /\ StageFacts'
  <2>1. /\ cr' = cr /\ cached' = cached /\ world' = world /\ pc = "bootstrap"
        /\ pc' \in {"products", "finish"} /\ ~inst.deleting
    BY <1>7, <1>a DEF bootstrapStage, CopyInv, BranchFacts, InstallPcs
  <2>2. inst'.deleting = inst.deleting /\ inst'.fin = inst.fin
    BY Zenon, <1>7, <1>b DEF bootstrapStage, Object
  <2>. QED  BY <1>c, <2>1, <2>2, SettledMoves DEF StageFacts
<1>8. ASSUME NEW p \in Products, FinalizerRefused(p) PROVE SettledFacts' /\ StageFacts'
  <2>1. /\ cr' = cr /\ cached' = cached /\ world' = world /\ pc = "products" /\ pc' = "products"
        /\ ~inst.deleting
    BY <1>8, <1>a, RefusedFacts DEF FinalizerRefused, CopyInv, BranchFacts, InstallPcs
  <2>2. /\ inst'.deleting = inst.deleting
        /\ inst'.fin = (inst.fin \ {PreviousFinalizer(p)}) \cup {Finalizer(p)}
    BY <1>8, <1>b DEF FinalizerRefused, WithFinalizer, Object
  <2>3. run'.todo = run.todo \ {p}
    BY <1>8, <1>a DEF FinalizerRefused, TypeOK, Locals
  <2>4. \A q \in Products : q \in run'.todo /\ Finalizer(q) \in inst'.fin =>
                              q \in run.todo /\ Finalizer(q) \in inst.fin
    BY <2>2, <2>3, Distinct
  <2>. QED  BY <1>c, <2>1, <2>2, <2>4, SettledMoves DEF StageFacts
<1>9. ASSUME NEW p \in Products, NEW phase \in {"completed", "in progress", "aborted"},
             ReconcileProduct(p, phase)
      PROVE  SettledFacts' /\ StageFacts'
  <2>1. /\ cached' = cached /\ pc = "products" /\ pc' = "products" /\ inst.exists
        /\ p \in run.todo /\ ~inst.deleting
    BY <1>9, <1>a DEF ReconcileProduct, CopyInv, RunFacts, BranchFacts, InstallPcs
  <2>2. \A q \in Products : q = p \/ world'[q] = world[q]
    BY <1>9, <1>a DEF ReconcileProduct, TypeOK
  <2>3. \A q \in Products : q = p \/ (CleanedUp(q) => CleanedUp(q)')
    BY <2>2, CleanedUpStays
  <2>4. \A q \in Products : q \in run'.todo => q \in run.todo
    BY <1>9, <1>a DEF ReconcileProduct, TypeOK, Locals
  <2>5. CASE Registered(p) /\ UNCHANGED <<cr, inst>>
    <3>1. Finalizer(p) \in inst.fin /\ Finalizer(p) \in cr.fin
      BY <1>a, <1>b, <2>1, <2>5 DEF Registered, WithFinalizer, Object, CopyInv, CopyLags
    <3>2. cached.deleting => Finalizer(p) \in cached.fin
      BY <2>1, <3>1 DEF SettledFacts
    <3>3. Settled(cr.fin)' /\ (cached.deleting => Settled(cached.fin))'
      BY <2>1, <2>3, <2>5, <3>1, <3>2 DEF SettledFacts, Settled
    <3>. QED  BY <2>1, <2>4, <2>5, <3>3 DEF SettledFacts, StageFacts
  <2>6. CASE Update(WithFinalizer(p))
    <3>. DEFINE obj == WithFinalizer(p)
    <3>1. obj \in Object
      BY Zenon, <1>b, ObjectUpdates, DeletionIsFinalizer DEF WithFinalizer
    <3>2. /\ obj.rv = inst.rv /\ obj.fin # {}
          /\ obj.fin = (inst.fin \ {PreviousFinalizer(p)}) \cup {Finalizer(p)}
      BY ZenonT(40), <1>b DEF WithFinalizer, Object
    <3>3. cr.exists /\ cr.rv = obj.rv /\ cr'.fin = obj.fin /\ inst'.deleting = cr.deleting
      BY <1>a, <2>6, <3>1, <3>2, UpdateFields
    <3>. HIDE DEF obj
    <3>4. Current(inst) /\ ~cached.deleting /\ ~cr.deleting
      BY <1>e, <2>1, <3>2, <3>3 DEF Current
    <3>5. \A q \in Products : Finalizer(q) \in cr.fin => Finalizer(q) \in cr'.fin
      BY ZenonT(40), <1>a, <2>1, <3>2, <3>3, <3>4, Distinct DEF CopyInv, CopyLags
    <3>. QED  BY <2>1, <2>3, <3>2, <3>3, <3>4, <3>5, SettledWrites DEF StageFacts
  <2>. QED  BY <1>9, <2>5, <2>6 DEF ReconcileProduct
<1>10. CASE StageAborted
  <2>1. /\ cr' = cr /\ cached' = cached /\ world' = world /\ inst' = inst
        /\ pc = "products" /\ pc' = "products" /\ ~inst.deleting
    BY <1>10, <1>a DEF StageAborted, CopyInv, BranchFacts, InstallPcs
  <2>2. run'.todo = {}
    BY <1>10, <1>a DEF StageAborted, TypeOK, Locals
  <2>. QED  BY <1>c, <2>1, <2>2, SettledMoves DEF StageFacts
<1>11. CASE Finish
  <2>. DEFINE obj == [inst EXCEPT !.st = FinalStatus]
  <2>1. cached' = cached /\ world' = world /\ inst.exists /\ ~inst.deleting
    BY <1>11, <1>a DEF Finish, CopyInv, RunFacts, BranchFacts, InstallPcs
  <2>2. CASE cr' = cr /\ Return
    BY <1>d, <2>1, <2>2
  <2>3. CASE StatusUpdate(obj) /\ pc' = "object"
    <3>1. obj \in Object /\ obj.rv = inst.rv
      BY <1>a, <1>b, FinalStatusFacts DEF Object
    <3>. HIDE DEF obj
    <3>2. cr.exists /\ cr.rv = obj.rv /\ cr'.fin = cr.fin /\ inst'.deleting = cr.deleting
      BY <1>a, <2>3, <3>1, StatusUpdateFields
    <3>3. ~cached.deleting /\ ~cr.deleting
      BY <1>e, <2>1, <3>1, <3>2 DEF Current
    <3>. QED  BY <1>c, <2>1, <2>3, <3>2, <3>3, SettledWrites DEF StageFacts
  <2>4. CASE cr' = cr /\ inst' = obj /\ pc' = "object"
    <3>1. inst'.deleting = inst.deleting
      BY <1>b, <2>4 DEF Object
    <3>. QED  BY <1>c, <2>1, <2>4, <3>1, SettledMoves DEF StageFacts
  <2>. QED  BY <1>11, <2>2, <2>3, <2>4, RefusedFacts DEF Finish
<1>12. ASSUME UpdateObject \/ SaveFinalizers PROVE SettledFacts' /\ StageFacts'
  <2>1. /\ cached' = cached /\ world' = world /\ Return /\ inst.exists
        /\ pc \in {"object", "save"}
        /\ pc = "object" => ~inst.deleting
        /\ pc = "save" => inst.deleting
        /\ cr' = cr \/ (Accepts(cr, inst) /\ cr' = Put(cr, inst, NewRV, NoObject))
    BY <1>12, <1>a, RefusedFacts
    DEF UpdateObject, SaveFinalizers, CopyInv, RunFacts, BranchFacts, InstallPcs, UninstallPcs
  <2>3. CASE cr' = cr
    BY <1>d, <2>1, <2>3
  <2>4. CASE Accepts(cr, inst) /\ cr' = Put(cr, inst, NewRV, NoObject)
    <3>1. cr.exists /\ cr.rv = inst.rv /\ cr'.fin = inst.fin
      <4>1. CASE inst.fin = {} /\ cr.deleting
        <5>1. cr' = NoObject
          BY <1>a, <1>b, <2>4, <4>1, PutCollects
        <5>2. cr'.fin = {}
          BY <5>1 DEF NoObject
        <5>3. cr.exists /\ cr.rv = inst.rv
          BY <2>4 DEF Accepts
        <5>. QED  BY <4>1, <5>2, <5>3
      <4>2. CASE inst.fin # {} \/ ~cr.deleting
        BY <1>a, <1>b, <2>4, <4>2, PutFields
      <4>. QED  BY <4>1, <4>2
    <3>2. Current(inst)
      BY <2>1, <3>1 DEF Current
    <3>3. \A p \in Products :
            Finalizer(p) \in cr.fin => Finalizer(p) \in cr'.fin \/ CleanedUp(p)
      <4>1. CASE pc = "object"
        BY <1>a, <2>1, <3>1, <3>2, <4>1 DEF CopyInv, CopyLags
      <4>2. CASE pc = "save"
        BY <2>1, <3>1, <4>2 DEF SettledFacts, Settled
      <4>. QED  BY <2>1, <4>1, <4>2
    <3>. QED  BY <1>c, <2>1, <3>3, SettledEnds
  <2>. QED  BY <2>1, <2>3, <2>4
<1>13. CASE handleUninstall
  <2>1. cr' = cr /\ cached' = cached /\ world' = world /\ inst.deleting
    BY <1>13, <1>a DEF handleUninstall, CopyInv, BranchFacts, UninstallPcs
  <2>2. CASE Return
    BY <1>d, <2>1, <2>2
  <2>3. CASE /\ inst' = [inst EXCEPT !.st.stage = "deletion"] /\ pc' = "removing"
             /\ run' = [NoRun EXCEPT !.snap = inst.fin, !.us = 1, !.todo = UninstallStages[1]]
    <3>1. inst'.deleting = inst.deleting /\ inst'.fin = inst.fin
      BY <1>b, <2>3 DEF Object
    <3>2. /\ run'.snap = inst.fin /\ run'.us = 1 /\ run'.todo = UninstallStages[1]
      BY <2>3 DEF NoRun
    <3>3. StageFacts'
      BY <3>1, <3>2 DEF StageFacts, UninstallStages
    <3>4. inst.deleting => Settled(inst.fin)'
      BY <1>c, <2>1, <3>1 DEF SettledFacts, Settled
    <3>. QED  BY <1>c, <2>1, <2>3, <3>1, <3>3, <3>4, SettledMoves
  <2>. QED  BY <1>13, <2>2, <2>3 DEF handleUninstall
<1>14. ASSUME NEW p \in Products, UninstallProduct(p) PROVE SettledFacts' /\ StageFacts'
  <2>1. /\ cr' = cr /\ cached' = cached /\ inst.deleting /\ pc = "removing" /\ pc' = "removing"
    BY <1>14, <1>a DEF UninstallProduct, CopyInv, BranchFacts, UninstallPcs
  <2>2. \A q \in Products : world'[q] = world[q] \/ world[q] = "present"
    BY <1>14, <1>a DEF UninstallProduct, Deleted, TypeOK
  <2>3. \A q \in Products : CleanedUp(q) => CleanedUp(q)'
    BY <2>2, CleanedUpStays
  <2>4. /\ inst'.deleting = inst.deleting
        /\ inst'.fin = inst.fin \/ (inst'.fin = inst.fin \ {Finalizer(p)} /\ CleanedUp(p))
    BY <1>14, <1>b DEF UninstallProduct, Object
  <2>5. /\ run'.snap = run.snap /\ run'.us = run.us /\ run'.todo = run.todo \ {p}
        /\ ~run'.unfinished => ~run.unfinished /\ CleanedUp(p)
    BY Zenon, <1>14, <1>a DEF UninstallProduct, TypeOK, Locals
  <2>6. inst.deleting => Settled(inst.fin)'
    BY <2>3, <2>4, Distinct DEF SettledFacts, Settled
  <2>7. SettledFacts'
    BY <2>1, <2>3, <2>4, <2>6, SettledMoves
  <2>8. StageFacts'
    BY <2>1, <2>3, <2>4, <2>5 DEF StageFacts
  <2>. QED  BY <2>7, <2>8
<1>15. ASSUME NEW p \in Products, SkipProduct(p) PROVE SettledFacts' /\ StageFacts'
  <2>1. /\ cr' = cr /\ cached' = cached /\ world' = world /\ inst' = inst /\ inst.deleting
        /\ pc = "removing" /\ pc' = "removing"
    BY <1>15, <1>a DEF SkipProduct, CopyInv, BranchFacts, UninstallPcs
  <2>2. Finalizer(p) \notin inst.fin
    BY <1>15, <2>1 DEF SkipProduct, StageFacts, Matched, Finalizer
  <2>3. CleanedUp(p)
    BY <2>1, <2>2 DEF SettledFacts, Settled
  <2>4. /\ run'.snap = run.snap /\ run'.us = run.us /\ run'.todo = run.todo \ {p}
        /\ run'.unfinished = run.unfinished
    BY Zenon, <1>15, <1>a DEF SkipProduct, TypeOK, Locals
  <2>5. StageFacts'
    BY <1>c, <2>1, <2>3, <2>4 DEF StageFacts
  <2>6. inst.deleting => Settled(inst.fin)'
    BY <1>c, <2>1 DEF SettledFacts, Settled
  <2>. QED  BY <1>c, <2>1, <2>5, <2>6, SettledMoves
<1>16. CASE NextUninstallStage
  <2>1. /\ cr' = cr /\ cached' = cached /\ world' = world /\ inst' = inst /\ inst.deleting
        /\ pc = "removing" /\ pc' \in {"removing", "tidy", "save"}
        /\ run.todo = {} /\ ~run.unfinished
    BY <1>16, <1>a DEF NextUninstallStage, StageRemoved, CopyInv, BranchFacts, UninstallPcs
  <2>2. inst.deleting => Settled(inst.fin)'
    BY <1>c, <2>1 DEF SettledFacts, Settled
  <2>3. SettledFacts'
    BY <1>c, <2>1, <2>2, SettledMoves
  <2>4. \A q \in Products \ {CloudResources} : CleanedUp(q)'
    BY <1>c, <2>1 DEF StageFacts
  <2>5. CASE pc' = "removing"
    <3>1. run.us < 3 /\ run' = [run EXCEPT !.us = @ + 1, !.todo = UninstallStages[run.us + 1]]
      BY <1>16, <2>5 DEF NextUninstallStage, UninstallStages
    <3>2. /\ run'.us = run.us + 1 /\ run'.todo = UninstallStages[run.us + 1]
          /\ run'.snap = run.snap
      BY <1>a, <3>1 DEF TypeOK, Locals
    <3>3. run.us \in {1, 2}
      BY <2>1, <3>1 DEF StageFacts
    <3>4. run'.us \in 1 .. 3 /\ run'.us = run.us + 1
      BY <3>2, <3>3
    <3>. QED  BY <2>1, <2>3, <2>4, <3>2, <3>4 DEF StageFacts
  <2>6. CASE pc' # "removing"
    BY <2>3, <2>6 DEF StageFacts
  <2>. QED  BY <2>5, <2>6
<1>17. CASE PendingUninstalls
  <2>1. /\ cached' = cached /\ world' = world /\ inst.exists /\ inst.deleting /\ pc' = "save"
    BY <1>17, <1>a DEF PendingUninstalls, CopyInv, RunFacts, BranchFacts, UninstallPcs
  <2>2. CASE UNCHANGED <<cr, inst>>
    <3>1. inst.deleting => Settled(inst.fin)'
      BY <1>c, <2>1, <2>2 DEF SettledFacts, Settled
    <3>. QED  BY <1>c, <2>1, <2>2, <3>1, SettledMoves DEF StageFacts
  <2>3. CASE StatusUpdate(inst)
    <3>1. cr'.fin = cr.fin /\ inst'.fin = cr.fin
      BY <1>a, <1>b, <2>3, StatusUpdateFields
    <3>2. /\ Settled(cr.fin)' /\ (cached.deleting => Settled(cached.fin))'
          /\ Settled(inst.fin)'
      BY <1>c, <2>1, <3>1 DEF SettledFacts, Settled
    <3>. QED  BY <2>1, <3>2 DEF SettledFacts, StageFacts
  <2>. QED  BY <1>17, <2>2, <2>3, RefusedFacts DEF PendingUninstalls
<1>18. CASE TidyUp
  <2>1. /\ cr' = cr /\ cached' = cached /\ world' = world /\ inst.deleting
        /\ pc' \in {"release", "save"} /\ inst.fin = {DeletionFinalizer}
    BY Zenon, <1>18, <1>a DEF TidyUp, CopyInv, RunFacts, BranchFacts, UninstallPcs
  <2>2. inst'.deleting = inst.deleting
    BY Zenon, <1>18, <1>b DEF TidyUp, Object
  <2>3. \A p \in Products : CleanedUp(p)
    BY <2>1, Distinct DEF SettledFacts, Settled
  <2>4. inst.deleting => Settled(inst.fin)'
    BY <1>c, <2>1, <2>3 DEF Settled
  <2>. QED  BY <1>c, <2>1, <2>2, <2>4, SettledMoves DEF StageFacts
<1>19. CASE Release
  <2>1. /\ cached' = cached /\ world' = world /\ inst.deleting /\ inst.fin = {}
    BY <1>19, <1>a DEF Release, CopyInv, RunFacts, BranchFacts, UninstallPcs
  <2>2. CASE cr' = cr /\ Return
    BY <1>d, <2>1, <2>2
  <2>3. CASE Update(inst) /\ pc' = "goodbye"
    <3>1. \A p \in Products : CleanedUp(p)'
      BY <1>c, <2>1 DEF SettledFacts, Settled
    <3>. QED  BY <2>3, <3>1 DEF SettledFacts, Settled, StageFacts
  <2>. QED  BY <1>19, <2>2, <2>3, RefusedFacts DEF Release
<1>20. CASE Start
  <2>1. /\ inst' = inst /\ cached' = cr' /\ pc' = pc /\ pc = "idle" /\ world' = world
    BY <1>20, <1>a DEF Start, CopyInv, RunFacts
  <2>2. ~inst.deleting
    BY <1>a, <2>1 DEF CopyInv, RunFacts, NoObject
  <2>3. cr'.fin = cr.fin
    BY <1>20, <1>a DEF Start, Created, NoObject, ResourceInv, ObjectFacts
  <2>4. Settled(cr.fin)'
    BY <1>c, <2>1, <2>3 DEF SettledFacts, Settled
  <2>. QED  BY <2>1, <2>2, <2>4 DEF SettledFacts, StageFacts
<1>21. CASE CacheSync
  <2>1. cached' = cr /\ cr' = cr /\ UNCHANGED <<inst, pc, run, world>>
    BY <1>21 DEF CacheSync
  <2>2. /\ Settled(cr.fin)' /\ Settled(cached.fin)' /\ (inst.deleting => Settled(inst.fin))'
    BY <1>c, <2>1 DEF SettledFacts, Settled
  <2>3. StageFacts'
    BY <1>c, <2>1 DEF StageFacts
  <2>. QED  BY <1>a, <2>1, <2>2, <2>3 DEF SettledFacts, CopyInv, CopyLags
<1>22. ASSUME DeleteCR \/ EditCR PROVE SettledFacts' /\ StageFacts'
  <2>1. cached' = cached /\ world' = world /\ (Return \/ UNCHANGED process)
    BY Zenon, <1>22 DEF DeleteCR, EditCR, Stop
  <2>2. cr'.fin = cr.fin
    <3>1. \/ cr' = [cr EXCEPT !.deleting = TRUE, !.rv = NewRV]
          \/ cr' = [cr EXCEPT !.rv = NewRV]
          \/ cr.fin = {} /\ cr' = NoObject
      BY Zenon, <1>22 DEF DeleteCR, EditCR
    <3>2. NoObject.fin = {}
      BY DEF NoObject
    <3>. QED  BY Zenon, <1>b, <3>1, <3>2 DEF Object
  <2>3. CASE UNCHANGED process
    <3>1. /\ Settled(cr.fin)' /\ (cached.deleting => Settled(cached.fin))'
          /\ (inst.deleting => Settled(inst.fin))'
      BY <1>c, <2>1, <2>2, <2>3 DEF SettledFacts, Settled
    <3>2. StageFacts'
      BY <1>c, <2>1, <2>3 DEF StageFacts
    <3>. QED  BY <2>1, <2>3, <3>1, <3>2 DEF SettledFacts
  <2>. QED  BY <1>d, <2>1, <2>2, <2>3
<1>23. ASSUME \/ \E q \in 1 .. MaxQuota : ChangeQuota(q)
              \/ \E p \in Products : NamespaceGone(p)
              \/ UNCHANGED vars
       PROVE  SettledFacts' /\ StageFacts'
  <2>1. UNCHANGED <<cr, cached, inst, pc, run>>
    BY <1>23 DEF ChangeQuota, NamespaceGone, vars
  <2>2. \A q \in Products : world'[q] = world[q] \/ world'[q] = "absent"
    BY <1>23, <1>a DEF ChangeQuota, NamespaceGone, vars, TypeOK
  <2>3. \A q \in Products : CleanedUp(q) => CleanedUp(q)'
    BY <2>2, CleanedUpStays
  <2>4. inst.deleting => Settled(inst.fin)'
    BY <2>1, <2>3 DEF SettledFacts, Settled
  <2>5. StageFacts'
    BY <2>1, <2>3 DEF StageFacts
  <2>. QED  BY <2>1, <2>3, <2>4, <2>5, SettledMoves
<1>. QED
  BY <1>1, <1>2, <1>3, <1>4, <1>5, <1>6, <1>7, <1>8, <1>9, <1>10, <1>11, <1>12, <1>13,
     <1>14, <1>15, <1>16, <1>17, <1>18, <1>19, <1>20, <1>21, <1>22, <1>23
  DEF Next, OperatorStep

(***************************************************************************)
(* The invariant and the theorems that need all of it                      *)
(***************************************************************************)
\* At first there is nothing to clean up.
LEMMA InitTeardown == Init => TeardownInv
<1>. SUFFICES ASSUME Init, StartFrom # "legacy" PROVE SettledFacts /\ StageFacts
  BY DEF TeardownInv
<1>1. \A p \in Products : CleanedUp(p)
  BY DEF Init, CleanedUp
<1>2. pc = "idle"
  BY DEF Init
<1>. QED  BY <1>1, <1>2 DEF SettledFacts, StageFacts, Settled

\* The whole invariant of an installation: the server's object, the cache and the
\* copy a reconcile works on, the versions and quotas a pass may report, and the
\* order in which products are taken down.
THEOREM InstallationInvariant == Spec => []IInv
<1>1. Init => IInv
  BY InitCore, InitPass, InitTeardown DEF IInv
<1>2. IInv /\ [Next]_vars => IInv'
  BY StepCore, StepPass, StepTeardown DEF IInv
<1>. QED  BY <1>1, <1>2, PTL DEF Spec

\* A version in the status of the resource has been reached by every product: the
\* end of Reconcile reports it only after a pass in which each of them completed.
THEOREM ReportedVersionIsReached == Spec => []VersionMeansDone
<1>1. IInv => VersionMeansDone
  <2>. SUFFICES ASSUME IInv PROVE VersionMeansDone
    OBVIOUS
  <2>1. Known(cr.st.version) /\ \A p \in Products : applied[p] \in Nat
    BY KnownVersions DEF IInv, CoreInv, PassInv
  <2>. QED  BY <2>1 DEF Known, VersionMeansDone
<1>. QED  BY <1>1, InstallationInvariant, PTL

\* Only the end of a pass changes the quota in the status of the resource.
LEMMA OnlyFinishReports ==
  ASSUME IInv, [Next]_vars, cr'.exists, cr'.st.quota # cr.st.quota
  PROVE  Finish /\ StatusUpdate([inst EXCEPT !.st = FinalStatus])
<1>. USE DEF resource, process, cluster, world3, Running
<1>a. TypeOK /\ ResourceInv /\ CopyInv /\ PassFacts
  BY DEF IInv, CoreInv, PassInv
<1>b. cr \in Object /\ inst \in Object
  BY <1>a DEF TypeOK
<1>c. ASSUME NEW obj \in Object, cr' = Put(cr, obj, NewRV, NoObject) PROVE FALSE
  <2>1. NewRV \in RVs
    BY NewRVIsFresh
  <2>. QED  BY <1>b, <1>c, <2>1, PutFacts, NoObjectStatus
<1>d. ASSUME NEW obj \in Object, obj.rv = inst.rv, obj.st.quota = inst.st.quota, inst.exists,
             pc # "object", Accepts(cr, obj), cr' = PutStatus(cr, obj, NewRV)
      PROVE  FALSE
  <2>1. cr.exists /\ cr.rv = obj.rv /\ cr'.st = obj.st
    BY <1>a, <1>d, PutStatusFields
  <2>. QED  BY <1>a, <1>d, <2>1 DEF PassFacts, Current
<1>e. cr' # cr
  OBVIOUS
<1>1. ~CopyEmail /\ ~EditCR
  BY <1>b, <1>e DEF CopyEmail, EditCR, Object
<1>2. ~EnsureDeletionFinalizer
  <2>. DEFINE obj == [inst EXCEPT !.fin = (@ \ {PreviousFinalizer("deletion")})
                                          \cup {DeletionFinalizer}]
  <2>1. obj \in Object
    BY Zenon, <1>b, ObjectUpdates, DeletionIsFinalizer
  <2>2. EnsureDeletionFinalizer => cr' = cr \/ Update(obj)
    BY RefusedFacts DEF EnsureDeletionFinalizer
  <2>. HIDE DEF obj
  <2>. QED  BY <1>c, <1>e, <2>1, <2>2 DEF Update
<1>3. ASSUME NEW outcome \in {"success", "fail"}, preflightChecks(outcome) PROVE FALSE
  <2>. DEFINE obj == [inst EXCEPT !.st.stage = "Preflight Checks", !.st.preflight = outcome]
  <2>1. obj \in Object
    BY Zenon, <1>b, StatusUpdates DEF Stages
  <2>2. obj.rv = inst.rv /\ obj.st.quota = inst.st.quota
    BY <1>b DEF Object, Status
  <2>3. inst.exists /\ pc # "object" /\ Accepts(cr, obj) /\ cr' = PutStatus(cr, obj, NewRV)
    BY <1>3, <1>a, <1>e, RefusedFacts DEF preflightChecks, CopyInv, RunFacts
  <2>. HIDE DEF obj
  <2>. QED  BY <1>d, <2>1, <2>2, <2>3
<1>4. ~SetToVersion
  <2>. SUFFICES ASSUME SetToVersion PROVE FALSE
    OBVIOUS
  <2>. DEFINE obj == [inst EXCEPT !.st.toVersion = opVersion]
  <2>1. obj \in Object
    BY Zenon, <1>a, <1>b, ScalarTypes, StatusUpdates
  <2>2. obj.rv = inst.rv /\ obj.st.quota = inst.st.quota
    BY <1>b DEF Object, Status
  <2>3. inst.exists /\ pc # "object" /\ Accepts(cr, obj) /\ cr' = PutStatus(cr, obj, NewRV)
    BY <1>a, <1>e, RefusedFacts DEF SetToVersion, StatusUpdate, CopyInv, RunFacts
  <2>. HIDE DEF obj
  <2>. QED  BY <1>d, <2>1, <2>2, <2>3
<1>5. ASSUME NEW p \in Products, NEW phase, ReconcileProduct(p, phase) PROVE FALSE
  <2>1. WithFinalizer(p) \in Object
    BY Zenon, <1>b, ObjectUpdates, DeletionIsFinalizer DEF WithFinalizer
  <2>2. cr' = cr \/ Update(WithFinalizer(p))
    BY <1>5 DEF ReconcileProduct
  <2>. QED  BY <1>c, <1>e, <2>1, <2>2 DEF Update
<1>6. ~UpdateObject /\ ~SaveFinalizers /\ ~Release
  BY <1>b, <1>c, <1>e, RefusedFacts DEF UpdateObject, SaveFinalizers, Release, Update
<1>7. ~PendingUninstalls
  <2>. SUFFICES ASSUME PendingUninstalls PROVE FALSE
    OBVIOUS
  <2>1. inst.exists /\ pc # "object" /\ StatusUpdate(inst)
    BY <1>a, <1>e, RefusedFacts DEF PendingUninstalls, CopyInv, RunFacts
  <2>. QED  BY <1>b, <1>d, <2>1 DEF StatusUpdate
<1>8. ~Start
  <2>. SUFFICES ASSUME Start PROVE FALSE
    OBVIOUS
  <2>1. ~cr.exists /\ cr' = Created(NewRV)
    BY <1>e DEF Start
  <2>2. cr.st.quota = 0
    BY <1>a, <2>1, NoObjectStatus DEF ResourceInv, ObjectFacts
  <2>3. cr'.st.quota = 0
    BY <2>1 DEF Created, NoObject, NoStatus
  <2>. QED  BY <2>2, <2>3
<1>9. ~DeleteCR
  <2>1. DeleteCR => cr' = NoObject \/ cr' = [cr EXCEPT !.deleting = TRUE, !.rv = NewRV]
    BY DEF DeleteCR
  <2>2. cr' = [cr EXCEPT !.deleting = TRUE, !.rv = NewRV] => cr'.st = cr.st
    BY <1>b DEF Object
  <2>. QED  BY <2>1, <2>2, NoObjectStatus
<1>10. Finish => StatusUpdate([inst EXCEPT !.st = FinalStatus])
  BY <1>e, RefusedFacts DEF Finish
<1>. QED
  BY Zenon, <1>e, <1>1, <1>2, <1>3, <1>4, <1>5, <1>6, <1>7, <1>8, <1>9, <1>10, RefusedFacts
  DEF Next, OperatorStep, vars, Reconcile, EarlyError, bootstrapStage, FinalizerRefused,
      StageAborted, handleUninstall, UninstallProduct, SkipProduct, NextUninstallStage,
      TidyUp, UninstallOperator, Crash, Upgrade, CacheSync, ChangeQuota, NamespaceGone

\* The status of the resource names another quota only when every product has
\* been sized for it: a pass that was given one reports it at its end, if it
\* reconciled all of them, and a write on a stale copy is refused.
THEOREM ReportedQuotaIsConfigured == Spec => QuotaMeansConfigured
<1>1. ASSUME IInv, [Next]_vars, cr'.exists, cr'.st.quota # cr.st.quota
      PROVE  \A p \in Products : configured[p] = cr'.st.quota
  <2>. DEFINE obj == [inst EXCEPT !.st = FinalStatus]
  <2>a. TypeOK /\ CopyInv /\ PassFacts /\ inst \in Object
    BY <1>1 DEF IInv, CoreInv, PassInv, TypeOK
  <2>1. Finish /\ StatusUpdate(obj)
    BY <1>1, OnlyFinishReports
  <2>2. FinalStatus \in Status
    BY <2>a, FinalStatusFacts
  <2>3. obj \in Object /\ obj.st = FinalStatus /\ obj.rv = inst.rv
    BY <2>a, <2>2 DEF Object
  <2>4. FinalStatus.quota = IF QuotaComplete THEN run.quota ELSE inst.st.quota
    BY <2>a, FinalStatusFacts
  <2>. HIDE DEF obj
  <2>5. cr.exists /\ cr.rv = inst.rv /\ cr'.st = FinalStatus
    BY <2>1, <2>3, <2>a, StatusUpdateFields
  <2>6. inst.st.quota = cr.st.quota
    BY <2>1, <2>5, <2>a DEF Finish, CopyInv, RunFacts, PassFacts, Current
  <2>7. QuotaComplete /\ cr'.st.quota = run.quota /\ run.quota # inst.st.quota
    BY <1>1, <2>4, <2>5, <2>6
  <2>8. ~run.unfinished /\ pc = "products" /\ run.todo = {}
    BY <2>1, <2>7, <2>a DEF QuotaComplete, VersionComplete, Finish, PassFacts
  <2>. QED  BY <2>7, <2>8, <2>a DEF PassFacts
<1>2. IInv /\ [Next]_vars =>
        [cr'.exists /\ cr'.st.quota # cr.st.quota =>
           \A p \in Products : configured[p] = cr'.st.quota]_vars
  BY <1>1
<1>. QED  BY <1>2, InstallationInvariant, PTL DEF Spec, QuotaMeansConfigured

\* The cloud resources go last: when their clean up begins every other product is
\* cleaned up, because the uninstall stages run in order, a stage ends only when no
\* product of it is pending, and a finalizer is removed only after the clean up.  An
\* installation that a release before Operator SDK 1.7 left behind is excluded: its
\* finalizers are in the old format, and a product whose own finalizer has not been
\* rewritten yet is passed over.
THEOREM CloudResourcesGoLast == StartFrom # "legacy" /\ Spec => CloudResourcesLast
<1>1. ASSUME StartFrom # "legacy", IInv, [Next]_vars,
             world[CloudResources] = "present", world'[CloudResources] = "terminating"
      PROVE  \A p \in Products \ {CloudResources} : CleanedUp(p)
  <2>. USE DEF resource, process, cluster, world3, Running
  <2>a. TypeOK /\ StageFacts
    BY <1>1 DEF IInv, CoreInv, TeardownInv
  <2>b. world' # world
    BY <1>1
  <2>1. ASSUME NEW p \in Products, NEW phase, ReconcileProduct(p, phase) PROVE FALSE
    <3>1. world' = [world EXCEPT ![p] = "present"]
      BY Zenon, <2>1, <2>b DEF ReconcileProduct
    <3>. QED  BY <1>1, <2>a, <3>1, ProductsAssumption DEF TypeOK
  <2>2. ASSUME NEW p \in Products, NamespaceGone(p) PROVE FALSE
    BY <1>1, <2>2, <2>a, ProductsAssumption DEF NamespaceGone, TypeOK
  <2>3. ASSUME NEW p \in Products, UninstallProduct(p)
        PROVE  p = CloudResources /\ pc = "removing" /\ p \in run.todo
    BY <1>1, <2>3, <2>a, ProductsAssumption DEF UninstallProduct, Deleted, TypeOK
  <2>4. \E p \in Products : UninstallProduct(p)
    BY Zenon, <1>1, <2>b, <2>1, <2>2
    DEF Next, OperatorStep, vars, Reconcile, CopyEmail, EnsureDeletionFinalizer,
        preflightChecks, EarlyError, SetToVersion, bootstrapStage, FinalizerRefused,
        StageAborted, Finish, UpdateObject, handleUninstall, SkipProduct,
        NextUninstallStage, PendingUninstalls, SaveFinalizers, TidyUp, Release,
        UninstallOperator, Start, Crash, Upgrade, CacheSync, DeleteCR, EditCR, ChangeQuota
  <2>5. pc = "removing" /\ CloudResources \in run.todo
    BY <2>3, <2>4
  <2>6. run.us # 1
    BY <2>a, <2>5 DEF StageFacts, UninstallStages
  <2>7. run.us > 1
    BY <2>a, <2>5, <2>6 DEF StageFacts
  <2>. QED  BY <2>a, <2>5, <2>6, <2>7 DEF StageFacts
<1>2. StartFrom # "legacy" /\ IInv /\ [Next]_vars =>
        [world[CloudResources] = "present" /\ world'[CloudResources] = "terminating" =>
           \A p \in Products \ {CloudResources} :
             world[p] = "absent" \/ (world[p] = "terminating" /\ p \notin WaitsForNamespace)]_vars
  BY <1>1 DEF CleanedUp
<1>. QED
  <2>1. CASE StartFrom # "legacy"
    BY <1>2, <2>1, InstallationInvariant, PTL DEF Spec, CloudResourcesLast
  <2>2. CASE ~(StartFrom # "legacy")
    BY <2>2
  <2>. QED  BY <2>1, <2>2

(***************************************************************************)
(* One format per finalizer                                                *)
(***************************************************************************)
Single(fin) == \A o \in Owners : ~(Finalizer(o) \in fin /\ PreviousFinalizer(o) \in fin)

\* Removing a finalizer, rewriting one to the new format (UpdateFinalizer) and adding the
\* operator's own create no finalizer in both formats.
LEMMA SingleFacts ==
  /\ Single({}) /\ Single({PreviousFinalizer(o) : o \in Owners})
  /\ \A fin, f : Single(fin) => Single(fin \ {f})
  /\ \A fin, o : Single(fin) =>
       Single((fin \ {PreviousFinalizer(o)}) \cup {Finalizer(o)})
  /\ \A fin : Single(fin) /\ PreviousFinalizer("deletion") \notin fin =>
       Single(fin \cup {DeletionFinalizer})
BY DEF Single, Finalizer, PreviousFinalizer, DeletionFinalizer

\* A write leaves the caller and the server with finalizers one of them had.
LEMMA WrittenFinalizers ==
  ASSUME TypeOK, NEW obj \in Object, Single(obj.fin), Single(cr.fin),
         Update(obj) \/ StatusUpdate(obj)
  PROVE  Single(cr'.fin) /\ Single(inst'.fin)
<1>1. cr \in Object /\ NewRV \in RVs
  BY NewRVIsFresh DEF TypeOK
<1>2. Single({})
  BY SingleFacts
<1>3. CASE Update(obj)
  <2>0. cr' = Put(cr, obj, NewRV, NoObject)
    BY <1>3 DEF Update
  <2>1. cr'.fin \in {obj.fin, NoObject.fin}
    BY <1>1, <2>0, PutFacts
  <2>2. inst'.fin = obj.fin
    BY <1>1, <1>3, StoredFacts DEF Update
  <2>. QED  BY <1>2, <2>1, <2>2 DEF NoObject
<1>4. CASE StatusUpdate(obj)
  BY SMTT(30), <1>4, StatusUpdateFields
<1>. QED  BY <1>3, <1>4

\* Every step keeps one format per finalizer, on the server and in the copies.
LEMMA StepOneFormat == TypeOK /\ OneFormat /\ [Next]_vars => OneFormat'
<1>. SUFFICES ASSUME TypeOK, Single(cr.fin), Single(cached.fin), Single(inst.fin), [Next]_vars
             PROVE  Single(cr'.fin) /\ Single(cached'.fin) /\ Single(inst'.fin)
  BY DEF OneFormat, Single
<1>. USE DEF resource, process, cluster, world3, Running
<1>a. cr \in Object /\ cached \in Object /\ inst \in Object
  BY DEF TypeOK
<1>b. Single(NoObject.fin)
  BY SingleFacts DEF NoObject
<1>c. ASSUME Return PROVE Single(inst'.fin)
  BY <1>b, <1>c DEF Return
<1>d. ASSUME NEW obj \in Object, Single(obj.fin),
             cr' = Put(cr, obj, NewRV, NoObject) \/ cr' = PutStatus(cr, obj, NewRV)
      PROVE  Single(cr'.fin)
  <2>1. CASE cr' = Put(cr, obj, NewRV, NoObject)
    <3>1. NewRV \in RVs
      BY NewRVIsFresh
    <3>2. cr' = NoObject \/ cr'.fin = obj.fin
      BY <1>a, <2>1, <3>1, PutFacts
    <3>. QED  BY <1>b, <1>d, <3>2
  <2>2. CASE cr' = PutStatus(cr, obj, NewRV)
    BY <1>a, <2>2 DEF PutStatus, Object
  <2>. QED  BY <1>d, <2>1, <2>2
<1>1. CASE Reconcile
  BY <1>1 DEF Reconcile
<1>2. CASE CopyEmail
  BY <1>2, <1>a DEF CopyEmail, Object
<1>3. CASE EnsureDeletionFinalizer
  <2>. DEFINE obj == [inst EXCEPT !.fin = (@ \ {PreviousFinalizer("deletion")})
                                          \cup {DeletionFinalizer}]
              new == [inst EXCEPT !.fin = @ \cup {DeletionFinalizer}]
  <2>1. obj \in Object /\ Single(obj.fin)
    <3>1. obj \in Object
      BY Zenon, <1>a, ObjectUpdates, DeletionIsFinalizer
    <3>2. obj.fin = (inst.fin \ {PreviousFinalizer("deletion")}) \cup {Finalizer("deletion")}
      BY <1>a DEF Object, DeletionFinalizer
    <3>. QED  BY <3>1, <3>2, SingleFacts
  <2>2. PreviousFinalizer("deletion") \notin inst.fin => Single(new.fin)
    BY <1>a, SingleFacts DEF Object
  <2>3. \/ cr' = cr /\ inst' = inst
        \/ cr' = cr /\ inst' = new /\ PreviousFinalizer("deletion") \notin inst.fin
        \/ Update(obj)
        \/ cr' = cr /\ Return
    BY <1>3, RefusedFacts DEF EnsureDeletionFinalizer
  <2>4. cached' = cached
    BY <1>3 DEF EnsureDeletionFinalizer
  <2>. HIDE DEF obj, new
  <2>. QED  BY <1>c, <2>1, <2>2, <2>3, <2>4, WrittenFinalizers
<1>4. ASSUME NEW outcome \in {"success", "fail"}, preflightChecks(outcome)
      PROVE  Single(cr'.fin) /\ Single(cached'.fin) /\ Single(inst'.fin)
  <2>. DEFINE obj == [inst EXCEPT !.st.stage = "Preflight Checks", !.st.preflight = outcome]
  <2>1. obj \in Object /\ Single(obj.fin)
    BY ZenonT(40), <1>a, StatusUpdates DEF Stages, Object
  <2>2. (cr' = cr \/ cr' = PutStatus(cr, obj, NewRV)) /\ Return /\ cached' = cached
    BY <1>4, RefusedFacts DEF preflightChecks
  <2>. HIDE DEF obj
  <2>. QED  BY <1>c, <1>d, <2>1, <2>2
<1>5. CASE SetToVersion
  <2>. DEFINE obj == [inst EXCEPT !.st.toVersion = opVersion]
  <2>1. obj \in Object /\ Single(obj.fin)
    BY Zenon, <1>a, ScalarTypes, StatusUpdates DEF Object
  <2>2. /\ (cr' = cr /\ (inst' = inst \/ Return)) \/ StatusUpdate(obj)
        /\ cached' = cached
    BY <1>5, RefusedFacts DEF SetToVersion
  <2>. HIDE DEF obj
  <2>. QED  BY <1>c, <2>1, <2>2, WrittenFinalizers
<1>6. ASSUME NEW quotaRead \in BOOLEAN, NEW completed \in BOOLEAN,
             bootstrapStage(quotaRead, completed)
      PROVE  Single(cr'.fin) /\ Single(cached'.fin) /\ Single(inst'.fin)
  BY <1>6, <1>a DEF bootstrapStage, Object
<1>7. ASSUME NEW p \in Products,
             \/ FinalizerRefused(p)
             \/ \E phase \in {"completed", "in progress", "aborted"} : ReconcileProduct(p, phase)
      PROVE  Single(cr'.fin) /\ Single(cached'.fin) /\ Single(inst'.fin)
  <2>1. WithFinalizer(p) \in Object
    BY Zenon, <1>a, ObjectUpdates, DeletionIsFinalizer DEF WithFinalizer
  <2>2. WithFinalizer(p).fin = (inst.fin \ {PreviousFinalizer(p)}) \cup {Finalizer(p)}
    BY <1>a DEF WithFinalizer, Object
  <2>3. Single(WithFinalizer(p).fin)
    BY <2>2, SingleFacts
  <2>4. /\ cached' = cached
        /\ \/ cr' = cr /\ inst' = WithFinalizer(p)
           \/ cr' = cr /\ inst' = inst
           \/ Update(WithFinalizer(p))
    BY <1>7, RefusedFacts DEF FinalizerRefused, ReconcileProduct
  <2>. QED  BY <2>1, <2>3, <2>4, WrittenFinalizers
<1>8. CASE Finish
  <2>1. /\ cached' = cached
        /\ \/ cr' = cr /\ Return
           \/ cr' = cr /\ \E st : inst' = [inst EXCEPT !.st = st]
           \/ \E st : StatusUpdate([inst EXCEPT !.st = st])
    BY <1>8, RefusedFacts DEF Finish
  <2>2. ASSUME NEW st, StatusUpdate([inst EXCEPT !.st = st])
        PROVE  Single(cr'.fin) /\ Single(inst'.fin)
    BY <1>a, <2>2 DEF StatusUpdate, PutStatus, Object
  <2>3. ASSUME NEW st, inst' = [inst EXCEPT !.st = st] PROVE Single(inst'.fin)
    BY <1>a, <2>3 DEF Object
  <2>. QED  BY Zenon, <1>c, <2>1, <2>2, <2>3
<1>9. ASSUME UpdateObject \/ SaveFinalizers
      PROVE  Single(cr'.fin) /\ Single(cached'.fin) /\ Single(inst'.fin)
  <2>1. /\ cr' = cr \/ cr' = Put(cr, inst, NewRV, NoObject)
        /\ Return /\ cached' = cached
    BY Zenon, <1>9, RefusedFacts DEF UpdateObject, SaveFinalizers
  <2>. QED  BY <1>a, <1>c, <1>d, <2>1
<1>10. CASE PendingUninstalls
  <2>1. (cr' = cr /\ inst' = inst) \/ StatusUpdate(inst)
    BY <1>10, RefusedFacts DEF PendingUninstalls
  <2>2. cached' = cached
    BY <1>10 DEF PendingUninstalls
  <2>. QED  BY <1>a, <2>1, <2>2, WrittenFinalizers
<1>11. ASSUME NEW p \in Products, UninstallProduct(p)
       PROVE  Single(cr'.fin) /\ Single(cached'.fin) /\ Single(inst'.fin)
  <2>1. inst'.fin \in {inst.fin, inst.fin \ {Finalizer(p)}}
    BY SMTT(30), <1>11, <1>a DEF UninstallProduct, Object
  <2>2. Single(inst'.fin)
    BY <2>1 DEF Single
  <2>. QED  BY <1>11, <2>2 DEF UninstallProduct
<1>12. CASE TidyUp
  <2>1. inst'.fin \in {inst.fin, inst.fin \ {DeletionFinalizer}}
    BY Zenon, <1>12, <1>a DEF TidyUp, Object
  <2>2. Single(inst'.fin)
    BY <2>1 DEF Single
  <2>. QED  BY <1>12, <2>2 DEF TidyUp
<1>13. CASE Release
  <2>1. /\ (cr' = cr /\ Return) \/ Update(inst)
        /\ cached' = cached
    BY <1>13, RefusedFacts DEF Release
  <2>. QED  BY <1>a, <1>c, <2>1, WrittenFinalizers
<1>14. CASE handleUninstall
  <2>1. cr' = cr /\ cached' = cached /\ (Return \/ inst'.fin = inst.fin)
    BY <1>14, <1>a DEF handleUninstall, Object
  <2>. QED  BY <1>c, <2>1
<1>15. CASE Start
  <2>1. cr' = cr \/ cr'.fin = {}
    BY <1>15 DEF Start, Created, NoObject
  <2>2. Single(cr'.fin)
    BY Zenon, <2>1, SingleFacts
  <2>. QED  BY <1>15, <2>2 DEF Start
<1>16. CASE DeleteCR \/ EditCR
  <2>1. cached' = cached /\ (inst' = inst \/ Return)
    BY <1>16 DEF DeleteCR, EditCR, Stop
  <2>2. cr'.fin = cr.fin \/ cr' = NoObject
    BY Zenon, <1>16, <1>a DEF DeleteCR, EditCR, Object
  <2>. QED  BY <1>b, <1>c, <2>1, <2>2
<1>17. ASSUME EarlyError \/ UninstallOperator \/ Crash \/ Upgrade
       PROVE  Single(cr'.fin) /\ Single(cached'.fin) /\ Single(inst'.fin)
  BY <1>17, <1>c DEF EarlyError, UninstallOperator, Crash, Upgrade, Stop
<1>18. ASSUME \/ StageAborted \/ NextUninstallStage \/ CacheSync \/ UNCHANGED vars
              \/ \E p \in Products : SkipProduct(p) \/ NamespaceGone(p)
              \/ \E q \in 1 .. MaxQuota : ChangeQuota(q)
       PROVE  Single(cr'.fin) /\ Single(cached'.fin) /\ Single(inst'.fin)
  BY <1>18 DEF StageAborted, NextUninstallStage, CacheSync, vars, SkipProduct, NamespaceGone,
               ChangeQuota
<1>. QED
  BY ZenonT(40), <1>1, <1>2, <1>3, <1>4, <1>5, <1>6, <1>7, <1>8, <1>9, <1>10, <1>11, <1>12, <1>13,
     <1>14, <1>15, <1>16, <1>17, <1>18
  DEF Next, OperatorStep

\* No finalizer is ever held in both formats, so the lists UpdateFinalizer writes
\* have no duplicates and Remove is never given one.
THEOREM FinalizersHaveOneFormat == Spec => []OneFormat
<1>1. Init => OneFormat
  <2>. SUFFICES ASSUME Init PROVE Single(cr.fin) /\ Single(cached.fin) /\ Single(inst.fin)
    BY DEF OneFormat, Single
  <2>1. cr.fin \in {{}, {PreviousFinalizer(o) : o \in Owners}} /\ cached = cr /\ inst.fin = {}
    BY DEF Init, LegacyCR, Created, NoObject
  <2>. QED  BY Zenon, <2>1, SingleFacts
<1>. QED  BY <1>1, StepOneFormat, TypeCorrect, PTL DEF Spec

================================================================================
