----------------- MODULE LiqoUpgradeController_refinement -----------------
(***************************************************************************)
(* LiqoUpgradeController implements UpgradeLifecycle, and what follows for *)
(* the order of phases.  Each write that the server accepts is matched     *)
(* with the step of the lifecycle that it is; every other step stutters.   *)
(***************************************************************************)
EXTENDS LiqoUpgradeController_proofs

----------------------------------------------------------------------------
(***************************************************************************)
(* One write of the status.                                                *)
(***************************************************************************)

\* A write of status over the one that u carries has reached the server.
Written(u, status) ==
  /\ cr.exists /\ cr'.exists /\ cr'.uid = cr.uid
  /\ cr'.status = status
  /\ u.status.phase = cr.status.phase
  /\ u.status.previousVersion = cr.status.previousVersion
  /\ u.status.lastSuccessfulPhase = cr.status.lastSuccessfulPhase
  /\ u.status.rolledBack = cr.status.rolledBack

\* A status update changes nothing or is made from what the server has.
LEMMA UpdateWrites ==
  ASSUME Inv, NEW u \in Upgrades, NEW status \in Statuses, NEW pc, NEW phase,
         Agrees(u, cr), UpdateStatus(u, status, pc, phase)
  PROVE  cr' = cr \/ Written(u, status)
  <1>1. CASE UNCHANGED crVars
    BY <1>1 DEF crVars
  <1>2. CASE Accepts(u) /\ Save([cr EXCEPT !.status = status])
    <2> DEFINE v == [[cr EXCEPT !.status = status] EXCEPT !.rv = @ + 1]
    <2>1. cr' = v
      BY <1>2 DEF Save, Store
    <2>2. v.exists = cr.exists /\ v.uid = cr.uid /\ v.status = status
      BY DEF Inv, TypeOK, Upgrades
    <2> HIDE DEF v
    <2>3. cr.exists /\ u.uid = cr.uid /\ u.rv = cr.rv
      BY <1>2 DEF Accepts
    <2> QED BY <2>1, <2>2, <2>3 DEF Written, Agrees
  <1> QED BY <1>1, <1>2 DEF UpdateStatus

\* A step that leaves what the lifecycle speaks of.
Stutters == cr'.uid = cr.uid /\ cr'.exists = cr.exists /\ cr'.status = cr.status

\* A write of the phase alone, as far as the lifecycle sees.
LEMMA WrittenMoves ==
  ASSUME NEW u, NEW status, Written(u, status),
         status.previousVersion = u.status.previousVersion,
         status.lastSuccessfulPhase = u.status.lastSuccessfulPhase,
         status.rolledBack = u.status.rolledBack
  PROVE  Lifecycle!Move(u.status.phase, status.phase)
  BY DEF Written, Lifecycle!Move

LEMMA InitialStatusFields ==
  /\ InitialStatus.phase = ""
  /\ InitialStatus.previousVersion = NoVersion
  /\ InitialStatus.lastSuccessfulPhase = ""
  /\ InitialStatus.rolledBack = FALSE
  <1>1. InitialStatus.phase = ""
    BY DEF InitialStatus
  <1>2. InitialStatus.previousVersion = NoVersion
    BY DEF InitialStatus
  <1>3. InitialStatus.lastSuccessfulPhase = ""
    BY DEF InitialStatus
  <1>4. InitialStatus.rolledBack = FALSE
    BY DEF InitialStatus
  <1> QED BY <1>1, <1>2, <1>3, <1>4

\* A resource that is new, or gone, has nothing in its status.
LEMMA FreshStatus ==
  ASSUME cr'.status = InitialStatus
  PROVE  Lifecycle!status' = Lifecycle!Fresh
  BY InitialStatusFields DEF Lifecycle!status, Lifecycle!Fresh

\* The last version of a resource that goes is a removal.
LEMMA RemoveLife ==
  ASSUME TypeOK, cr.exists, Save(Gone(cr.uid, cr.rv))
  PROVE  Lifecycle!Next
  <1> DEFINE v == Gone(cr.uid, cr.rv)
  <1>1. cr' = [v EXCEPT !.rv = @ + 1]
    BY DEF Save, Store
  <1>2. v.uid = cr.uid /\ v.exists = FALSE /\ v.status = InitialStatus
    BY DEF Gone
  <1>3. v \in Upgrades
    BY GoneType DEF TypeOK, Upgrades
  <1> HIDE DEF v
  <1>4. cr'.uid = cr.uid /\ cr'.exists = FALSE /\ cr'.status = InitialStatus
    BY <1>1, <1>2, <1>3 DEF Upgrades
  <1>5. Lifecycle!status' = Lifecycle!Fresh
    BY <1>4, FreshStatus
  <1>6. Lifecycle!Remove
    BY <1>4, <1>5 DEF Lifecycle!Remove
  <1> QED BY <1>6 DEF Lifecycle!Next

----------------------------------------------------------------------------
(***************************************************************************)
(* The handlers.                                                           *)
(***************************************************************************)

LEMMA SaveLastSuccessfulLife ==
  ASSUME Inv, NEW p \in Stages \ {"FreezingOperations"}, Dispatches(p), NEW pc, NEW phase,
         SaveLastSuccessful(p, pc, phase)
  PROVE  Stutters \/ Lifecycle!SaveSuccess
  <1> DEFINE new == [Loaded.status EXCEPT !.lastSuccessfulPhase = p]
  <1>1. /\ Loaded \in Upgrades /\ Loaded.status \in Statuses /\ Agrees(Loaded, cr)
        /\ Loaded.status.phase = p
    BY InHandType, InHandCoherent, DispatchesSound DEF Inv
  <1>2. new \in Statuses
    BY <1>1, StatusUpdateType DEF Phases, JobPhases
  <1>3. UpdateStatus(Loaded, new, pc, phase)
    BY DEF SaveLastSuccessful
  <1>4. /\ new.phase = p /\ new.lastSuccessfulPhase = p
        /\ new.previousVersion = Loaded.status.previousVersion
        /\ new.rolledBack = Loaded.status.rolledBack
    BY <1>1 DEF Statuses
  <1> HIDE DEF new
  <1>5. cr' = cr \/ Written(Loaded, new)
    BY <1>1, <1>2, <1>3, UpdateWrites
  <1>6. p \in DOMAIN Lifecycle!Following
    BY DEF Stages, Lifecycle!Following
  <1>7. CASE Written(Loaded, new)
    <2>1. cr.status.phase = p /\ cr.exists
      BY <1>1, <1>7 DEF Written
    <2>2. /\ cr'.uid = cr.uid /\ cr'.exists = cr.exists
          /\ cr'.status.phase = cr.status.phase
          /\ cr'.status.previousVersion = cr.status.previousVersion
          /\ cr'.status.lastSuccessfulPhase = cr.status.phase
          /\ cr'.status.rolledBack = cr.status.rolledBack
      BY <1>1, <1>4, <1>7 DEF Written
    <2>3. cr.status.phase \in DOMAIN Lifecycle!Following
      BY <1>6, <2>1
    <2> QED BY <2>1, <2>2, <2>3 DEF Lifecycle!SaveSuccess
  <1> QED BY <1>5, <1>7 DEF Stutters

LEMMA StartRollbackLife ==
  ASSUME NEW u, startRollback(u)
  PROVE  Stutters
  BY DEF startRollback, StartJob, crVars, Stutters

\* The six ways to enter a phase are steps of the lifecycle.
LEMMA MayEnterLife ==
  ASSUME NEW u, NEW status, Written(u, status), NEW phase, status.phase = phase,
         MayEnter(u.status, phase), u.status.previousVersion # NoVersion,
         Lifecycle!Move(u.status.phase, phase)
  PROVE  Lifecycle!Next
  <1>1. /\ cr.status.phase = u.status.phase
        /\ cr.status.previousVersion # NoVersion
        /\ cr.status.lastSuccessfulPhase = u.status.lastSuccessfulPhase
    BY DEF Written
  <1>2. CASE u.status.phase = "Validating" /\ phase = "FreezingOperations"
    <2>1. Lifecycle!Freeze
      BY <1>1, <1>2 DEF Lifecycle!Freeze
    <2> QED BY <2>1 DEF Lifecycle!Next
  <1>3. CASE u.status.phase = "FreezingOperations" /\ phase = "UpgradingCRDs"
    <2>1. Lifecycle!UpgradeCRDs
      BY <1>3 DEF Lifecycle!UpgradeCRDs
    <2> QED BY <2>1 DEF Lifecycle!Next
  <1>4. ASSUME u.status.phase \in DOMAIN Lifecycle!Following,
               u.status.lastSuccessfulPhase = u.status.phase,
               phase = Lifecycle!Following[u.status.phase]
        PROVE  Lifecycle!Next
    <2>1. Lifecycle!Advance
      BY <1>1, <1>4 DEF Lifecycle!Advance
    <2> QED BY <2>1 DEF Lifecycle!Next
  <1>5. /\ "UpgradingCRDs" \in DOMAIN Lifecycle!Following
        /\ "UpgradingControllerManager" \in DOMAIN Lifecycle!Following
        /\ "UpgradingNetworkFabric" \in DOMAIN Lifecycle!Following
        /\ Lifecycle!Following["UpgradingCRDs"] = "UpgradingControllerManager"
        /\ Lifecycle!Following["UpgradingControllerManager"] = "UpgradingNetworkFabric"
        /\ Lifecycle!Following["UpgradingNetworkFabric"] = "Verifying"
    BY DEF Lifecycle!Following
  <1>6. CASE u.status.phase \in Changing /\ phase = "RollingBack"
    <2>1. u.status.phase \in Lifecycle!Changing
      BY <1>6 DEF Changing, Stages, Lifecycle!Changing, Lifecycle!Following
    <2>2. Lifecycle!RollBack
      BY <1>1, <1>6, <2>1 DEF Lifecycle!RollBack
    <2> QED BY <2>2 DEF Lifecycle!Next
  <1> QED BY <1>2, <1>3, <1>4, <1>5, <1>6 DEF MayEnter

\* A step of the worker is a step of the lifecycle or leaves the status.
LEMMA WorkerStepLife ==
  ASSUME Inv, WorkerStep
  PROVE  Lifecycle!Next \/ Stutters
  <1> USE InHandType, InHandCoherent DEF Inv
  <1>1. CASE AddFinalizer
    <2>1. cr' = [[cr EXCEPT !.finalizer = TRUE] EXCEPT !.rv = @ + 1]
      BY <1>1 DEF AddFinalizer, Save, Store
    <2> QED BY <2>1 DEF Stutters, TypeOK, Upgrades
  <1>2. CASE handleDeletion \/ ChecksRefuse \/ performValidation \/ HealthRefuses
    BY <1>2 DEF handleDeletion, ChecksRefuse, performValidation, HealthRefuses,
                crVars, Stutters
  <1>3. CASE RemoveFinalizer
    <2>1. CASE UNCHANGED crVars
      BY <2>1 DEF crVars, Stutters
    <2>2. CASE Accepts(worker.upgrade) /\ Save(Gone(cr.uid, cr.rv))
      BY <2>2, RemoveLife DEF Accepts
    <2> QED BY <1>3, <2>1, <2>2 DEF RemoveFinalizer, crVars
  <1>4. CASE fail
    <2> DEFINE u == worker.upgrade
    <2> DEFINE new == [u.status EXCEPT !.phase = "Failed"]
    <2>1. new \in Statuses
      BY StatusUpdateType DEF Phases, Terminal
    <2>2. /\ new.phase = "Failed"
          /\ new.previousVersion = u.status.previousVersion
          /\ new.lastSuccessfulPhase = u.status.lastSuccessfulPhase
          /\ new.rolledBack = u.status.rolledBack
      BY DEF Statuses
    <2>3. UpdateStatus(u, new, "idle", "")
      BY <1>4 DEF fail
    <2> HIDE DEF new
    <2>4. cr' = cr \/ Written(u, new)
      BY <2>1, <2>3, UpdateWrites
    <2>5. u.status.phase \in Changing \cup {"Validating"}
      BY <1>4 DEF fail, Coherent, WorkerCoherent
    <2>6. CASE Written(u, new)
      <3>1. Lifecycle!Move(u.status.phase, "Failed")
        BY <2>2, <2>6, WrittenMoves
      <3>2. u.status.phase \in Lifecycle!Changing \cup {"Validating"}
        BY <2>5 DEF Changing, Stages, Lifecycle!Changing, Lifecycle!Following
      <3>3. Lifecycle!Fail
        BY <3>1, <3>2 DEF Lifecycle!Fail
      <3> QED BY <3>3 DEF Lifecycle!Next
    <2> QED BY <2>4, <2>6 DEF Stutters
  <1>5. CASE startValidation
    <2> DEFINE new == [Loaded.status EXCEPT !.phase = "Validating", !.stage = 0]
    <2>1. new \in Statuses
      <3>1. "Validating" \in Phases
        BY DEF Phases
      <3>2. 0 \in 0..3
        OBVIOUS
      <3> QED BY <3>1, <3>2, StatusUpdateType
    <2>2. /\ new.phase = "Validating"
          /\ new.previousVersion = Loaded.status.previousVersion
          /\ new.lastSuccessfulPhase = Loaded.status.lastSuccessfulPhase
          /\ new.rolledBack = Loaded.status.rolledBack
      BY DEF Statuses
    <2>3. UpdateStatus(Loaded, new, "idle", "")
      BY <1>5 DEF startValidation
    <2> HIDE DEF new
    <2>4. cr' = cr \/ Written(Loaded, new)
      BY <2>1, <2>3, UpdateWrites
    <2>5. Loaded.status.phase = ""
      BY <1>5 DEF startValidation, Dispatches
    <2>6. CASE Written(Loaded, new)
      <3>1. Lifecycle!Move("", "Validating")
        BY <2>2, <2>5, <2>6, WrittenMoves
      <3> QED BY <3>1 DEF Lifecycle!Validate, Lifecycle!Next
    <2> QED BY <2>4, <2>6 DEF Stutters
  <1>6. CASE FinishValidation
    <2> DEFINE u == worker.upgrade
    <2> DEFINE cs == {"Compatible"}
    <2> DEFINE new == [u.status EXCEPT !.previousVersion = worker.version,
                                       !.conditions = cs]
    <2>1. cs \in SUBSET Conditions
      BY DEF Conditions
    <2>2. UpdateStatus(u, new, "start", "FreezingOperations")
      BY <1>6 DEF FinishValidation
    <2> HIDE DEF cs
    <2>3. new \in Statuses
      BY <2>1, StatusUpdateType
    <2>4. /\ new.phase = u.status.phase /\ new.previousVersion = worker.version
          /\ new.lastSuccessfulPhase = u.status.lastSuccessfulPhase
          /\ new.rolledBack = u.status.rolledBack
      BY DEF Statuses
    <2> HIDE DEF new
    <2>5. u.status.phase = "Validating" /\ worker.version \in Tags
      BY <1>6 DEF FinishValidation, Coherent, WorkerCoherent, MaybeTags
    <2>6. cr' = cr \/ Written(u, new)
      BY <2>2, <2>3, UpdateWrites
    <2>7. CASE Written(u, new)
      <3>1. Lifecycle!Accept
        BY <2>4, <2>5, <2>7 DEF Written, Lifecycle!Accept
      <3> QED BY <3>1 DEF Lifecycle!Next
    <2> QED BY <2>6, <2>7 DEF Stutters
  <1>7. CASE startFreezeOperations \/ startControllerManagerUpgrade
             \/ startNetworkFabricUpgrade
    BY <1>7 DEF startFreezeOperations, startControllerManagerUpgrade,
                startNetworkFabricUpgrade, StartJob, crVars, Stutters
  <1>8. CASE EnterPhase
    <2> DEFINE u == worker.upgrade
    <2> DEFINE cs == IF worker.phase = "RollingBack" THEN {"RollbackRequired"} ELSE {}
    <2> DEFINE new == [u.status EXCEPT !.phase = worker.phase, !.conditions = @ \cup cs]
    <2>1. cs \in SUBSET Conditions
      BY DEF Conditions
    <2>2. UpdateStatus(u, new, "idle", "")
      BY <1>8 DEF EnterPhase
    <2> HIDE DEF cs
    <2>3. new \in Statuses
      BY <2>1, StatusUpdateType
    <2>4. /\ new.phase = worker.phase
          /\ new.previousVersion = u.status.previousVersion
          /\ new.lastSuccessfulPhase = u.status.lastSuccessfulPhase
          /\ new.rolledBack = u.status.rolledBack
      BY DEF Statuses
    <2> HIDE DEF new
    <2>5. u.status.previousVersion # NoVersion /\ MayEnter(u.status, worker.phase)
      BY <1>8 DEF EnterPhase, Coherent, WorkerCoherent
    <2>6. cr' = cr \/ Written(u, new)
      BY <2>2, <2>3, UpdateWrites
    <2>7. CASE Written(u, new)
      <3>1. Lifecycle!Move(u.status.phase, worker.phase)
        BY <2>4, <2>7, WrittenMoves
      <3> QED BY <2>4, <2>5, <2>7, <3>1, MayEnterLife
    <2> QED BY <2>6, <2>7 DEF Stutters
  <1>9. CASE monitorFreezeOperations
    BY <1>9, StartRollbackLife
    DEF monitorFreezeOperations, startCRDUpgrade, StartJob, crVars, Stutters
  <1>10. CASE monitorCRDUpgrade
    BY <1>10, StartRollbackLife, SaveLastSuccessfulLife
    DEF monitorCRDUpgrade, Observes, Stages, Lifecycle!Next
  <1>11. CASE monitorControllerManagerUpgrade
    BY <1>11, StartRollbackLife, SaveLastSuccessfulLife
    DEF monitorControllerManagerUpgrade, Observes, Stages, Lifecycle!Next
  <1>12. CASE monitorNetworkFabricUpgrade
    BY <1>12, StartRollbackLife, SaveLastSuccessfulLife
    DEF monitorNetworkFabricUpgrade, Observes, Stages, Lifecycle!Next
  <1>13. CASE performVerification
    <2> DEFINE cs == {"Healthy"}
    <2> DEFINE new == [Loaded.status EXCEPT !.phase = "Completed",
                                            !.conditions = @ \cup cs]
    <2>1. CASE startRollback(Loaded)
      BY <2>1, StartRollbackLife
    <2>2. CASE UpdateStatus(Loaded, new, "idle", "")
      <3>1. cs \in SUBSET Conditions
        BY DEF Conditions
      <3> HIDE DEF cs
      <3>2. new \in Statuses
        BY <3>1, StatusUpdateType DEF Phases, Terminal
      <3>3. /\ new.phase = "Completed"
            /\ new.previousVersion = Loaded.status.previousVersion
            /\ new.lastSuccessfulPhase = Loaded.status.lastSuccessfulPhase
            /\ new.rolledBack = Loaded.status.rolledBack
        BY DEF Statuses
      <3> HIDE DEF new
      <3>4. cr' = cr \/ Written(Loaded, new)
        BY <2>2, <3>2, UpdateWrites
      <3>5. /\ Loaded.status.phase = "Verifying"
            /\ Loaded.status.lastSuccessfulPhase = "UpgradingNetworkFabric"
        <4>1. Dispatches("Verifying")
          BY <1>13 DEF performVerification
        <4>2. Loaded.status.phase = "Verifying" /\ StatusSound(Loaded.status)
          BY <4>1, DispatchesSound
        <4> QED BY <4>2 DEF StatusSound
      <3>6. CASE Written(Loaded, new)
        <4>1. Lifecycle!Move("Verifying", "Completed")
          BY <3>3, <3>5, <3>6, WrittenMoves
        <4>2. cr.status.lastSuccessfulPhase = "UpgradingNetworkFabric"
          BY <3>5, <3>6 DEF Written
        <4> QED BY <4>1, <4>2 DEF Lifecycle!Complete, Lifecycle!Next
      <3> QED BY <3>4, <3>6 DEF Stutters
    <2> QED BY <1>13, <2>1, <2>2 DEF performVerification
  <1>14. CASE monitorRollback
    <2>1. PICK outcome \in {"succeeded", "failed"} :
            /\ Observes("RollingBack", outcome)
            /\ UpdateStatus(Loaded,
                            [Loaded.status EXCEPT !.phase = "Failed",
                                                  !.rolledBack = (outcome = "succeeded")],
                            "idle", "")
      BY <1>14 DEF monitorRollback
    <2> DEFINE b == outcome = "succeeded"
    <2> DEFINE new == [Loaded.status EXCEPT !.phase = "Failed", !.rolledBack = b]
    <2>2. b \in BOOLEAN
      OBVIOUS
    <2>3. UpdateStatus(Loaded, new, "idle", "")
      BY <2>1
    <2> HIDE DEF b
    <2>4. new \in Statuses
      BY <2>2, StatusUpdateType
    <2>5. /\ new.phase = "Failed" /\ new.rolledBack = b
          /\ new.previousVersion = Loaded.status.previousVersion
          /\ new.lastSuccessfulPhase = Loaded.status.lastSuccessfulPhase
      BY DEF Statuses
    <2> HIDE DEF new
    <2>6. cr' = cr \/ Written(Loaded, new)
      BY <2>3, <2>4, UpdateWrites
    <2>7. Loaded.status.phase = "RollingBack"
      BY <2>1 DEF Observes, Dispatches
    <2>8. CASE Written(Loaded, new)
      <3>1. Lifecycle!FinishRollback
        BY <2>2, <2>5, <2>7, <2>8 DEF Written, Lifecycle!FinishRollback
      <3> QED BY <3>1 DEF Lifecycle!Next
    <2> QED BY <2>6, <2>8 DEF Stutters
  <1> QED BY <1>1, <1>2, <1>3, <1>4, <1>5, <1>6, <1>7, <1>8, <1>9, <1>10, <1>11,
             <1>12, <1>13, <1>14 DEF WorkerStep

----------------------------------------------------------------------------
(***************************************************************************)
(* Users and the cluster.                                                  *)
(***************************************************************************)

LEMMA EnvironmentStepLife ==
  ASSUME Inv, EnvironmentStep
  PROVE  Lifecycle!Next \/ Stutters
  <1> USE DEF Inv
  <1>1. CASE CreateUpgrade
    <2>1. PICK spec \in SpecChoices :
            Store([Gone(cr.uid + 1, 1) EXCEPT !.exists = TRUE, !.spec = spec])
      BY <1>1 DEF CreateUpgrade
    <2> DEFINE gone == Gone(cr.uid + 1, 1)
    <2>2. cr.uid + 1 \in Nat /\ 1 \in Nat
      BY DEF TypeOK, Upgrades
    <2>3. gone \in Upgrades
      BY <2>2, GoneType
    <2>4. gone.uid = cr.uid + 1 /\ gone.status = InitialStatus
      BY DEF Gone
    <2>5. cr' = [gone EXCEPT !.exists = TRUE, !.spec = spec]
      BY <2>1 DEF Store
    <2> HIDE DEF gone
    <2>6. cr'.uid = gone.uid /\ cr'.exists = TRUE /\ cr'.status = gone.status
      BY <2>3, <2>5 DEF Upgrades
    <2>7. Lifecycle!status' = Lifecycle!Fresh
      BY <2>4, <2>6, FreshStatus
    <2>8. Lifecycle!Create
      BY <1>1, <2>4, <2>6, <2>7 DEF CreateUpgrade, Lifecycle!Create
    <2> QED BY <2>8 DEF Lifecycle!Next
  <1>2. CASE EditUpgrade
    <2>1. PICK spec \in SpecChoices : cr' = [[cr EXCEPT !.spec = spec] EXCEPT !.rv = @ + 1]
      BY <1>2 DEF EditUpgrade, Save, Store
    <2> QED BY <2>1 DEF Stutters, TypeOK, Upgrades
  <1>3. CASE DeleteUpgrade
    <2>1. CASE Save([cr EXCEPT !.deleting = TRUE])
      <3>1. cr' = [[cr EXCEPT !.deleting = TRUE] EXCEPT !.rv = @ + 1]
        BY <2>1 DEF Save, Store
      <3> QED BY <3>1 DEF Stutters, TypeOK, Upgrades
    <2>2. CASE Save(Gone(cr.uid, cr.rv))
      BY <1>3, <2>2, RemoveLife DEF DeleteUpgrade, Live
    <2> QED BY <1>3, <2>1, <2>2 DEF DeleteUpgrade
  <1>4. CASE DeliverCR \/ SyncJobs \/ SyncBackup \/ SyncDeployment \/ Crash
             \/ CollectBackup
    BY <1>4 DEF DeliverCR, SyncJobs, SyncBackup, SyncDeployment, Crash,
                CollectBackup, crVars, Stutters
  <1>5. ASSUME NEW p \in JobPhases,
               JobApplies(p) \/ JobSucceeds(p) \/ JobFails(p) \/ JobExpires(p)
                 \/ CollectJob(p)
        PROVE  Stutters
    BY <1>5 DEF JobApplies, JobSucceeds, JobFails, JobExpires, CollectJob,
                crVars, Stutters
  <1> QED BY <1>1, <1>2, <1>3, <1>4, <1>5 DEF EnvironmentStep

----------------------------------------------------------------------------
(***************************************************************************)
(* The theorems.                                                           *)
(***************************************************************************)

LEMMA StepLife ==
  ASSUME Inv, [Next]_vars
  PROVE  Lifecycle!Next \/ Stutters
  <1>1. CASE Next
    BY <1>1, NextSplit, WorkerStepLife, EnvironmentStepLife
  <1>2. CASE UNCHANGED vars
    BY <1>2 DEF vars, Stutters
  <1> QED BY <1>1, <1>2

\* The reconciler, with its lagging caches, conflicts, lost answers, crashes,
\* edits and recreated resources, writes no status that the lifecycle does not
\* allow: no stage is skipped, or left before its success is saved.
THEOREM Refinement == Spec => ImplementsLifecycle
  <1>1. Init => Lifecycle!Init
    <2> SUFFICES ASSUME Init PROVE Lifecycle!Init
      OBVIOUS
    <2>1. cr.uid = 0 /\ cr.exists = FALSE /\ cr.status = InitialStatus
      BY DEF Init, Gone
    <2>2. Lifecycle!status = Lifecycle!Fresh
      BY <2>1, InitialStatusFields DEF Lifecycle!status, Lifecycle!Fresh
    <2> QED BY <2>1, <2>2 DEF Lifecycle!Init
  <1>2. Inv /\ [Next]_vars => [Lifecycle!Next]_(Lifecycle!life)
    BY StepLife DEF Stutters, Lifecycle!life
  <1> QED BY <1>1, <1>2, SpecInv, PTL DEF Spec, ImplementsLifecycle, Lifecycle!Spec

LEMMA RankAdvances ==
  /\ Rank("Validating") >= Rank("")
  /\ Rank("FreezingOperations") >= Rank("Validating")
  /\ Rank("UpgradingCRDs") >= Rank("FreezingOperations")
  /\ Rank("UpgradingControllerManager") >= Rank("UpgradingCRDs")
  /\ Rank("UpgradingNetworkFabric") >= Rank("UpgradingControllerManager")
  /\ Rank("Verifying") >= Rank("UpgradingNetworkFabric")
  /\ Rank("Completed") >= Rank("Verifying")
  BY DEF Rank

LEMMA RankRollsBack ==
  ASSUME NEW to \in {"RollingBack", "Failed"},
         NEW p \in Changing \cup {"Validating", "RollingBack"}
  PROVE  Rank(to) >= Rank(p)
  <1>1. /\ Rank("RollingBack") >= Rank("Validating")
       /\ Rank("RollingBack") >= Rank("FreezingOperations")
       /\ Rank("RollingBack") >= Rank("UpgradingCRDs")
       /\ Rank("RollingBack") >= Rank("UpgradingControllerManager")
       /\ Rank("RollingBack") >= Rank("UpgradingNetworkFabric")
       /\ Rank("RollingBack") >= Rank("Verifying")
       /\ Rank("RollingBack") >= Rank("RollingBack")
    BY DEF Rank
  <1>2. /\ Rank("Failed") >= Rank("Validating")
       /\ Rank("Failed") >= Rank("FreezingOperations")
       /\ Rank("Failed") >= Rank("UpgradingCRDs")
       /\ Rank("Failed") >= Rank("UpgradingControllerManager")
       /\ Rank("Failed") >= Rank("UpgradingNetworkFabric")
       /\ Rank("Failed") >= Rank("Verifying")
       /\ Rank("Failed") >= Rank("RollingBack")
    BY DEF Rank
  <1> QED BY <1>1, <1>2 DEF Changing, Stages

LEMMA RankSame ==
  ASSUME NEW p
  PROVE  Rank(p) >= Rank(p)
  <1>1. Rank(p) \in Nat
    BY DEF Rank
  <1> QED BY <1>1

\* What a step of the lifecycle does to one resource.
LEMMA LifeAdvances ==
  ASSUME TypeOK, Lifecycle!Next, cr'.uid = cr.uid, cr'.exists
  PROVE  /\ Rank(cr'.status.phase) >= Rank(cr.status.phase)
         /\ cr.status.phase \notin Terminal
         /\ VersionFrozen
  <1>1. ~Lifecycle!Create /\ ~Lifecycle!Remove
    <2>1. cr.uid \in Nat
      BY DEF TypeOK, Upgrades
    <2> QED BY <2>1 DEF Lifecycle!Create, Lifecycle!Remove
  <1>2. ASSUME NEW a, NEW b, Lifecycle!Move(a, b), Rank(b) >= Rank(a), a \notin Terminal
        PROVE  /\ Rank(cr'.status.phase) >= Rank(cr.status.phase)
               /\ cr.status.phase \notin Terminal
               /\ VersionFrozen
    BY <1>2 DEF Lifecycle!Move, VersionFrozen
  <1>3. \A phase \in {"", "Validating", "FreezingOperations", "UpgradingCRDs",
                      "UpgradingControllerManager", "UpgradingNetworkFabric",
                      "Verifying", "RollingBack"} : phase \notin Terminal
    BY DEF Terminal
  <1>4. CASE Lifecycle!Validate
    BY <1>2, <1>3, <1>4, RankAdvances DEF Lifecycle!Validate
  <1>5. CASE Lifecycle!Accept
    <2>1. cr.status.phase = "Validating" /\ cr'.status.phase = "Validating"
      BY <1>5 DEF Lifecycle!Accept
    <2> QED BY <1>3, <2>1, RankSame DEF VersionFrozen
  <1>6. CASE Lifecycle!Freeze
    BY <1>2, <1>3, <1>6, RankAdvances DEF Lifecycle!Freeze
  <1>7. CASE Lifecycle!UpgradeCRDs
    BY <1>2, <1>3, <1>7, RankAdvances DEF Lifecycle!UpgradeCRDs
  <1>8. Lifecycle!Changing = {"FreezingOperations", "UpgradingCRDs",
                              "UpgradingControllerManager", "UpgradingNetworkFabric",
                              "Verifying"}
    BY DEF Lifecycle!Changing, Lifecycle!Following
  <1>9. CASE Lifecycle!SaveSuccess
    <2>1. /\ cr.status.phase \in Lifecycle!Changing
          /\ cr'.status.phase = cr.status.phase
          /\ cr'.status.previousVersion = cr.status.previousVersion
      BY <1>9 DEF Lifecycle!SaveSuccess, Lifecycle!Changing
    <2> QED BY <1>3, <1>8, <2>1, RankSame DEF VersionFrozen
  <1>10. CASE Lifecycle!Advance
    <2>1. PICK p \in DOMAIN Lifecycle!Following :
            Lifecycle!Move(p, Lifecycle!Following[p])
      BY <1>10 DEF Lifecycle!Advance
    <2>2. \/ p = "UpgradingCRDs" /\ Lifecycle!Following[p] = "UpgradingControllerManager"
          \/ /\ p = "UpgradingControllerManager"
             /\ Lifecycle!Following[p] = "UpgradingNetworkFabric"
          \/ p = "UpgradingNetworkFabric" /\ Lifecycle!Following[p] = "Verifying"
      BY DEF Lifecycle!Following
    <2>3. Rank(Lifecycle!Following[p]) >= Rank(p)
      BY <2>2, RankAdvances
    <2>4. p \in Lifecycle!Changing
      BY <2>2, <1>8
    <2> QED BY <1>2, <1>3, <1>8, <2>1, <2>3, <2>4
  <1>11. CASE Lifecycle!Complete
    BY <1>2, <1>3, <1>11, RankAdvances DEF Lifecycle!Complete
  <1>12. CASE Lifecycle!RollBack
    <2>1. PICK p \in Lifecycle!Changing : Lifecycle!Move(p, "RollingBack")
      BY <1>12 DEF Lifecycle!RollBack
    <2>2. Rank("RollingBack") >= Rank(p)
      BY <1>8, RankRollsBack DEF Changing, Stages
    <2> QED BY <1>2, <1>3, <1>8, <2>1, <2>2
  <1>13. CASE Lifecycle!Fail
    <2>1. PICK p \in Lifecycle!Changing \cup {"Validating"} : Lifecycle!Move(p, "Failed")
      BY <1>13 DEF Lifecycle!Fail
    <2>2. Rank("Failed") >= Rank(p)
      BY <1>8, RankRollsBack DEF Changing, Stages
    <2> QED BY <1>2, <1>3, <1>8, <2>1, <2>2
  <1>14. CASE Lifecycle!FinishRollback
    <2>1. /\ cr.status.phase = "RollingBack" /\ cr'.status.phase = "Failed"
          /\ cr'.status.previousVersion = cr.status.previousVersion
      BY <1>14 DEF Lifecycle!FinishRollback
    <2> QED BY <1>3, <2>1, RankRollsBack DEF VersionFrozen
  <1> QED BY <1>1, <1>4, <1>5, <1>6, <1>7, <1>9, <1>10, <1>11, <1>12, <1>13, <1>14
          DEF Lifecycle!Next

\* Within one resource the phase never goes back, and a terminal status is
\* never written again, however old the copy a late handler decided on.
THEOREM PhaseAdvances == Spec => PhaseOnlyAdvances
  <1>1. Inv /\ [Next]_vars => [StatusAdvances]_vars
    <2> SUFFICES ASSUME Inv, Next PROVE StatusAdvances
      BY DEF StatusAdvances
    <2>1. CASE Lifecycle!Next
      BY <2>1, LifeAdvances DEF Inv, StatusAdvances
    <2>2. CASE Stutters
      BY <2>2, RankSame DEF Stutters, StatusAdvances
    <2> QED BY <2>1, <2>2, StepLife
  <1> QED BY <1>1, SpecInv, PTL DEF Spec, PhaseOnlyAdvances

\* Once the freeze is entered nothing replaces the version to roll back to.
THEOREM PreviousVersionStays == Spec => PreviousVersionFrozen
  <1>1. Inv /\ [Next]_vars => [VersionFrozen]_vars
    <2> SUFFICES ASSUME Inv, Next PROVE VersionFrozen
      BY DEF VersionFrozen
    <2>1. CASE Lifecycle!Next
      BY <2>1, LifeAdvances DEF Inv, VersionFrozen
    <2>2. CASE Stutters
      BY <2>2 DEF Stutters, VersionFrozen
    <2> QED BY <2>1, <2>2, StepLife
  <1> QED BY <1>1, SpecInv, PTL DEF Spec, PreviousVersionFrozen

=============================================================================
