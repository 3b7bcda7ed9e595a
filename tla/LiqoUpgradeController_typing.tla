-------------------- MODULE LiqoUpgradeController_typing --------------------
(***************************************************************************)
(* Every step of LiqoUpgradeController keeps the types.  A Job that sets   *)
(* the controller-manager's image sets a tag, not an empty one, only       *)
(* because Jobs name versions: LiqoUpgradeController_proofs shows that.    *)
(***************************************************************************)
EXTENDS LiqoUpgradeController, TLAPS

----------------------------------------------------------------------------
(***************************************************************************)
(* Type correctness.                                                       *)
(***************************************************************************)

\* What a resource that is gone looks like is a value of the type.
LEMMA GoneType ==
  ASSUME NEW n \in Nat, NEW r \in Nat
  PROVE  Gone(n, r) \in Upgrades
  BY DEF Gone, NoSpec, InitialStatus, Upgrades, UpgradeSpecs, Statuses, Phases,
         MaybeTags

\* The worker's values at rest and in the middle of a handler.
LEMMA AtType ==
  ASSUME NEW pc \in PCs, NEW u \in Upgrades, NEW phase \in Phases
  PROVE  At(pc, u, phase) \in Workers
  BY GoneType DEF At, Idle, Workers, PCs, Phases, MaybeTags

LEMMA IdleType == Idle \in Workers
  BY GoneType DEF Idle, Workers, PCs, Phases, MaybeTags

\* A change of one field of a resource keeps its type.
LEMMA UpgradeUpdateType ==
  ASSUME NEW u \in Upgrades
  PROVE  /\ [u EXCEPT !.rv = @ + 1] \in Upgrades
         /\ \A status \in Statuses : [u EXCEPT !.status = status] \in Upgrades
         /\ \A spec \in UpgradeSpecs : [u EXCEPT !.spec = spec] \in Upgrades
         /\ [u EXCEPT !.finalizer = TRUE] \in Upgrades
         /\ [u EXCEPT !.deleting = TRUE] \in Upgrades
  <1>1. [u EXCEPT !.rv = @ + 1] \in Upgrades
    BY DEF Upgrades
  <1>2. ASSUME NEW status \in Statuses PROVE [u EXCEPT !.status = status] \in Upgrades
    BY DEF Upgrades
  <1>3. ASSUME NEW spec \in UpgradeSpecs PROVE [u EXCEPT !.spec = spec] \in Upgrades
    BY DEF Upgrades
  <1>4. [u EXCEPT !.finalizer = TRUE] \in Upgrades
    BY DEF Upgrades
  <1>5. [u EXCEPT !.deleting = TRUE] \in Upgrades
    BY DEF Upgrades
  <1> QED BY <1>1, <1>2, <1>3, <1>4, <1>5

LEMMA StatusUpdateType ==
  ASSUME NEW status \in Statuses
  PROVE  /\ \A p \in Phases : [status EXCEPT !.phase = p] \in Statuses
         /\ \A p \in Phases, n \in 0..3 :
              [status EXCEPT !.phase = p, !.stage = n] \in Statuses
         /\ \A v \in MaybeTags, cs \in SUBSET Conditions :
              [status EXCEPT !.previousVersion = v, !.conditions = cs] \in Statuses
         /\ \A p \in Phases, cs \in SUBSET Conditions :
              [status EXCEPT !.phase = p, !.conditions = @ \cup cs] \in Statuses
         /\ \A p \in Phases : [status EXCEPT !.lastSuccessfulPhase = p] \in Statuses
         /\ \A b \in BOOLEAN :
              [status EXCEPT !.phase = "Failed", !.rolledBack = b] \in Statuses
  <1>1. ASSUME NEW p \in Phases PROVE [status EXCEPT !.phase = p] \in Statuses
    BY DEF Statuses
  <1>2. ASSUME NEW p \in Phases, NEW n \in 0..3
        PROVE  [status EXCEPT !.phase = p, !.stage = n] \in Statuses
    BY DEF Statuses
  <1>3. ASSUME NEW v \in MaybeTags, NEW cs \in SUBSET Conditions
        PROVE  [status EXCEPT !.previousVersion = v, !.conditions = cs] \in Statuses
    BY DEF Statuses
  <1>4. ASSUME NEW p \in Phases, NEW cs \in SUBSET Conditions
        PROVE  [status EXCEPT !.phase = p, !.conditions = @ \cup cs] \in Statuses
    <2>1. status.conditions \cup cs \in SUBSET Conditions
      BY DEF Statuses
    <2> QED BY <2>1 DEF Statuses
  <1>5. ASSUME NEW p \in Phases
        PROVE  [status EXCEPT !.lastSuccessfulPhase = p] \in Statuses
    BY DEF Statuses
  <1>6. ASSUME NEW b \in BOOLEAN
        PROVE  [status EXCEPT !.phase = "Failed", !.rolledBack = b] \in Statuses
    BY DEF Statuses, Phases, Terminal
  <1> QED BY <1>1, <1>2, <1>3, <1>4, <1>5, <1>6

\* The changes a handler makes in memory.
LEMMA InMemoryType ==
  ASSUME NEW u \in Upgrades
  PROVE  /\ \A p : InStage(u, p) \in Upgrades
         /\ [u EXCEPT !.status.backupReady = TRUE] \in Upgrades
  <1>1. ASSUME NEW p PROVE StageNumber(p) \in 0..3
    BY DEF StageNumber
  <1>2. ASSUME NEW n \in 0..3 PROVE [u EXCEPT !.status.stage = n] \in Upgrades
    BY DEF Upgrades, Statuses
  <1>3. [u EXCEPT !.status.backupReady = TRUE] \in Upgrades
    BY DEF Upgrades, Statuses
  <1> QED BY <1>1, <1>2, <1>3 DEF InStage

LEMMA JobType ==
  ASSUME NEW u \in Upgrades
  PROVE  /\ buildFreezeOperationsJob(u) \in Jobs
         /\ buildCRDUpgradeJob(u) \in Jobs
         /\ buildControllerManagerUpgradeJob(u) \in Jobs
         /\ buildNetworkFabricUpgradeJob(u) \in Jobs
         /\ buildRollbackJob(u) \in Jobs
  BY DEF buildFreezeOperationsJob, buildCRDUpgradeJob,
         buildControllerManagerUpgradeJob, buildNetworkFabricUpgradeJob,
         buildRollbackJob, RunningJob, Jobs, JobStates, Upgrades, UpgradeSpecs,
         Statuses, MaybeTags, Phases

\* The writes.
LEMMA StoreType ==
  ASSUME watch \in Seq(Upgrades), NEW u \in Upgrades, Store(u)
  PROVE  cr' \in Upgrades /\ watch' \in Seq(Upgrades)
  BY DEF Store

LEMMA SaveType ==
  ASSUME watch \in Seq(Upgrades), NEW u \in Upgrades, Save(u)
  PROVE  cr' \in Upgrades /\ watch' \in Seq(Upgrades)
  <1> DEFINE next == [u EXCEPT !.rv = @ + 1]
  <1>1. next \in Upgrades
    BY UpgradeUpdateType
  <1>2. Store(next)
    BY DEF Save
  <1> HIDE DEF next
  <1> QED BY <1>1, <1>2, StoreType

LEMMA ChargeType ==
  ASSUME faults \in 0..MaxFaults, NEW kind, Charge(kind)
  PROVE  faults' \in 0..MaxFaults
  BY BoundsAssumption DEF Charge

LEMMA UpdateStatusType ==
  ASSUME TypeOK, NEW u \in Upgrades, NEW status \in Statuses, NEW pc \in PCs,
         NEW phase \in Phases, UpdateStatus(u, status, pc, phase)
  PROVE  TypeOK'
  <1>1. /\ [cr EXCEPT !.status = status] \in Upgrades
        /\ UNCHANGED <<caches, cluster, edits>>
    BY UpgradeUpdateType DEF TypeOK, UpdateStatus
  <1>2. /\ cr' \in Upgrades
        /\ watch' \in Seq(Upgrades)
        /\ worker' \in Workers
        /\ faults' \in 0..MaxFaults
    BY <1>1, SaveType, AtType, IdleType, ChargeType
    DEF TypeOK, UpdateStatus, crVars
  <1> QED BY <1>1, <1>2 DEF TypeOK, caches, cluster

LEMMA StartJobType ==
  ASSUME TypeOK, NEW p \in JobPhases, NEW job \in Jobs, NEW u \in Upgrades,
         StartJob(p, job, u)
  PROVE  TypeOK'
  <1>1. jobs' \in [JobPhases -> Jobs]
    BY DEF TypeOK, StartJob, CreateJob
  <1>2. worker' \in Workers
    BY AtType DEF StartJob, PCs, Phases
  <1>3. faults' \in 0..MaxFaults
    BY ChargeType DEF TypeOK, StartJob
  <1> QED BY <1>1, <1>2, <1>3 DEF TypeOK, StartJob, crVars, caches

LEMMA StartRollbackType ==
  ASSUME TypeOK, NEW u \in Upgrades, startRollback(u)
  PROVE  TypeOK'
  <1>1. CASE StartJob("RollingBack", buildRollbackJob(u), u)
    BY <1>1, StartJobType, JobType DEF JobPhases
  <1>2. CASE /\ worker' = At("fail", u, "")
             /\ UNCHANGED <<crVars, caches, cluster, faults, edits>>
    <2>1. worker' \in Workers
      BY <1>2, AtType DEF PCs, Phases
    <2> QED BY <1>2, <2>1 DEF TypeOK, crVars, caches, cluster
  <1> QED BY <1>1, <1>2 DEF startRollback

\* The objects in hand are resources.
LEMMA InHandType ==
  ASSUME TypeOK
  PROVE  /\ Loaded \in Upgrades
         /\ worker.upgrade \in Upgrades
         /\ worker.phase \in Phases
         /\ worker.version \in MaybeTags
         /\ Loaded.status \in Statuses
         /\ worker.upgrade.status \in Statuses
  BY DEF TypeOK, Loaded, Workers, Upgrades

\* Init gives every variable a value of its type.
LEMMA InitTypeOK == Init => TypeOK
  <1> SUFFICES ASSUME Init PROVE TypeOK
    OBVIOUS
  <1>1. Gone(0, 0) \in Upgrades
    BY GoneType
  <1>2. worker \in Workers
    BY IdleType DEF Init
  <1>3. NoJob \in Jobs
    BY DEF NoJob, Jobs, JobStates, MaybeTags, Phases
  <1> QED BY <1>1, <1>2, <1>3, VersionsAssumption, BoundsAssumption DEF Init, TypeOK

\* The actions of the worker.
LEMMA WorkerStepTypeOK ==
  ASSUME TypeOK, WorkerStep
  PROVE  TypeOK'
  <1> USE InHandType
  <1>1. CASE AddFinalizer
    <2>1. [cr EXCEPT !.finalizer = TRUE] \in Upgrades
      BY UpgradeUpdateType DEF TypeOK
    <2>2. cr' \in Upgrades /\ watch' \in Seq(Upgrades)
      BY <1>1, <2>1, SaveType DEF AddFinalizer, TypeOK
    <2>3. worker' \in Workers
      <3>1. worker' = At("dispatch", cr', "") \/ worker' = worker
        BY <1>1 DEF AddFinalizer
      <3>2. At("dispatch", cr', "") \in Workers
        BY <2>2, AtType DEF PCs, Phases
      <3> QED BY <3>1, <3>2 DEF TypeOK
    <2>4. faults' \in 0..MaxFaults
      BY <1>1, ChargeType DEF AddFinalizer, TypeOK
    <2> QED BY <1>1, <2>2, <2>3, <2>4 DEF AddFinalizer, TypeOK, caches, cluster
  <1>2. CASE handleDeletion
    <2>1. jobs' \in [JobPhases -> Jobs]
      <3>1. \E gone \in SUBSET JobPhases :
              jobs' = [p \in JobPhases |-> IF p \in gone THEN NoJob ELSE jobs[p]]
        BY <1>2 DEF handleDeletion
      <3>2. NoJob \in Jobs
        BY DEF NoJob, Jobs, JobStates, MaybeTags, Phases
      <3>3. \A p \in JobPhases : jobs[p] \in Jobs
        BY DEF TypeOK
      <3> QED BY <3>1, <3>2, <3>3
    <2>2. worker' \in Workers
      BY <1>2, AtType DEF handleDeletion, TypeOK, PCs, Phases
    <2>3. faults' \in 0..MaxFaults
      BY <1>2, ChargeType DEF handleDeletion, TypeOK
    <2> QED BY <1>2, <2>1, <2>2, <2>3 DEF handleDeletion, TypeOK, crVars, caches
  <1>3. CASE RemoveFinalizer
    <2>1. Gone(cr.uid, cr.rv) \in Upgrades
      BY GoneType DEF TypeOK, Upgrades
    <2>2. cr' \in Upgrades /\ watch' \in Seq(Upgrades)
      BY <1>3, <2>1, SaveType DEF RemoveFinalizer, TypeOK, crVars
    <2>3. worker' \in Workers /\ faults' \in 0..MaxFaults
      BY <1>3, IdleType, ChargeType DEF RemoveFinalizer, TypeOK
    <2> QED BY <1>3, <2>2, <2>3 DEF RemoveFinalizer, TypeOK, caches, cluster
  <1>4. CASE fail
    <2>1. [worker.upgrade.status EXCEPT !.phase = "Failed"] \in Statuses
      BY StatusUpdateType DEF Phases, Terminal
    <2> QED BY <1>4, <2>1, UpdateStatusType DEF fail, PCs, Phases
  <1>5. CASE startValidation
    <2>1. [Loaded.status EXCEPT !.phase = "Validating", !.stage = 0] \in Statuses
      <3>1. "Validating" \in Phases
        BY DEF Phases
      <3>2. 0 \in 0..3
        OBVIOUS
      <3> QED BY <3>1, <3>2, StatusUpdateType
    <2> QED BY <1>5, <2>1, UpdateStatusType DEF startValidation, PCs, Phases
  <1>6. CASE ChecksRefuse
    <2>1. worker' \in Workers
      BY <1>6, AtType DEF ChecksRefuse, PCs, Phases
    <2> QED BY <1>6, <2>1 DEF ChecksRefuse, TypeOK, crVars, caches, cluster
  <1>7. CASE performValidation
    <2>1. detectDeployedVersion \in MaybeTags
      BY VersionsAssumption DEF detectDeployedVersion, TypeOK, MaybeTags
    <2>2. BackedUp(Loaded) \in Workers
      BY <2>1, InMemoryType DEF BackedUp, Workers, PCs, Phases
    <2>3. worker' \in Workers
      BY <1>7, <2>2, AtType DEF performValidation, backupEnvironmentConfig, PCs, Phases
    <2>4. faults' \in 0..MaxFaults
      BY <1>7, ChargeType DEF performValidation, backupEnvironmentConfig, TypeOK
    <2>5. Loaded.uid \in Nat
      BY DEF Upgrades
    <2>6. backup' \in [exists : BOOLEAN, owner : Nat]
      <3> DEFINE new == [exists |-> TRUE, owner |-> Loaded.uid]
      <3>1. backup' = backup \/ backup' = new
        BY <1>7 DEF performValidation, backupEnvironmentConfig, WriteBackup
      <3>2. new \in [exists : BOOLEAN, owner : Nat]
        BY <2>5
      <3> QED BY <3>1, <3>2 DEF TypeOK
    <2>7. \/ backupCache' = [backupCache EXCEPT !.fresh = FALSE]
          \/ backupCache' = backupCache
      BY <1>7 DEF performValidation, backupEnvironmentConfig, WriteBackup
    <2>8. backupCache' \in [exists : BOOLEAN, owner : Nat, fresh : BOOLEAN]
      BY <2>7 DEF TypeOK
    <2> QED BY <1>7, <2>3, <2>4, <2>6, <2>8 DEF performValidation, TypeOK, crVars
  <1>8. CASE HealthRefuses
    <2>1. worker' \in Workers
      BY <1>8, AtType DEF HealthRefuses, PCs, Phases
    <2> QED BY <1>8, <2>1 DEF HealthRefuses, TypeOK, crVars, caches, cluster
  <1>9. CASE FinishValidation
    <2>1. [worker.upgrade.status EXCEPT !.previousVersion = worker.version,
                                        !.conditions = {"Compatible"}] \in Statuses
      <3> DEFINE cs == {"Compatible"}
      <3>1. cs \in SUBSET Conditions
        BY DEF Conditions
      <3> HIDE DEF cs
      <3>2. [worker.upgrade.status EXCEPT !.previousVersion = worker.version,
                                          !.conditions = cs] \in Statuses
        BY <3>1, StatusUpdateType
      <3> QED BY <3>2 DEF cs
    <2> QED BY <1>9, <2>1, UpdateStatusType
            DEF FinishValidation, PCs, Phases, JobPhases, Stages
  <1>10. CASE startFreezeOperations
    BY <1>10, StartJobType, JobType, InMemoryType
    DEF startFreezeOperations, JobPhases, Stages
  <1>11. CASE startControllerManagerUpgrade
    BY <1>11, StartJobType, JobType, InMemoryType
    DEF startControllerManagerUpgrade, JobPhases, Stages
  <1>12. CASE startNetworkFabricUpgrade
    BY <1>12, StartJobType, JobType, InMemoryType
    DEF startNetworkFabricUpgrade, JobPhases, Stages
  <1>13. CASE EnterPhase
    <2> DEFINE cs == IF worker.phase = "RollingBack" THEN {"RollbackRequired"} ELSE {}
    <2>1. cs \in SUBSET Conditions
      BY DEF Conditions
    <2> DEFINE new == [worker.upgrade.status EXCEPT !.phase = worker.phase,
                                                    !.conditions = @ \cup cs]
    <2>2. UpdateStatus(worker.upgrade, new, "idle", "")
      BY <1>13 DEF EnterPhase
    <2> HIDE DEF cs
    <2>3. new \in Statuses
      BY <2>1, StatusUpdateType
    <2> HIDE DEF new
    <2> QED BY <2>2, <2>3, UpdateStatusType DEF PCs, Phases
  <1>14. CASE monitorFreezeOperations
    <2>1. CASE startCRDUpgrade(Loaded)
      BY <2>1, StartJobType, JobType, InMemoryType DEF startCRDUpgrade, JobPhases, Stages
    <2> QED BY <1>14, <2>1, StartRollbackType DEF monitorFreezeOperations
  <1>15. ASSUME NEW p \in Stages, NEW pc \in PCs, NEW phase \in Phases,
                SaveLastSuccessful(p, pc, phase)
         PROVE  TypeOK'
    <2>1. [Loaded.status EXCEPT !.lastSuccessfulPhase = p] \in Statuses
      BY StatusUpdateType DEF Phases, JobPhases
    <2> QED BY <1>15, <2>1, UpdateStatusType DEF SaveLastSuccessful
  <1>16. CASE monitorCRDUpgrade
    BY <1>15, <1>16, StartRollbackType
    DEF monitorCRDUpgrade, Stages, PCs, Phases, JobPhases
  <1>17. CASE monitorControllerManagerUpgrade
    BY <1>15, <1>17, StartRollbackType
    DEF monitorControllerManagerUpgrade, Stages, PCs, Phases, JobPhases
  <1>18. CASE monitorNetworkFabricUpgrade
    BY <1>15, <1>18, StartRollbackType
    DEF monitorNetworkFabricUpgrade, Stages, PCs, Phases, JobPhases
  <1>19. CASE performVerification
    <2> DEFINE cs == {"Healthy"}
    <2> DEFINE new == [Loaded.status EXCEPT !.phase = "Completed",
                                            !.conditions = @ \cup cs]
    <2>1. CASE startRollback(Loaded)
      BY <2>1, StartRollbackType
    <2>2. CASE UpdateStatus(Loaded, new, "idle", "")
      <3>1. cs \in SUBSET Conditions
        BY DEF Conditions
      <3> HIDE DEF cs
      <3>2. new \in Statuses
        BY <3>1, StatusUpdateType DEF Phases, Terminal
      <3> HIDE DEF new
      <3> QED BY <2>2, <3>2, UpdateStatusType DEF PCs, Phases
    <2> QED BY <1>19, <2>1, <2>2 DEF performVerification
  <1>20. CASE monitorRollback
    <2>1. PICK outcome \in {"succeeded", "failed"} :
            UpdateStatus(Loaded,
                         [Loaded.status EXCEPT !.phase = "Failed",
                                               !.rolledBack = (outcome = "succeeded")],
                         "idle", "")
      BY <1>20 DEF monitorRollback
    <2> DEFINE b == outcome = "succeeded"
    <2> DEFINE new == [Loaded.status EXCEPT !.phase = "Failed", !.rolledBack = b]
    <2>2. b \in BOOLEAN
      OBVIOUS
    <2>3. UpdateStatus(Loaded, new, "idle", "")
      BY <2>1
    <2> HIDE DEF b
    <2>4. new \in Statuses
      BY <2>2, StatusUpdateType
    <2> HIDE DEF new
    <2> QED BY <2>3, <2>4, UpdateStatusType DEF PCs, Phases
  <1> QED BY <1>1, <1>2, <1>3, <1>4, <1>5, <1>6, <1>7, <1>8, <1>9, <1>10, <1>11,
             <1>12, <1>13, <1>14, <1>16, <1>17, <1>18, <1>19, <1>20 DEF WorkerStep

\* Users, informers, the process and the Job controller.
EnvironmentStep ==
  \/ CreateUpgrade \/ EditUpgrade \/ DeleteUpgrade
  \/ DeliverCR \/ SyncJobs \/ SyncBackup \/ SyncDeployment \/ Crash
  \/ CollectBackup
  \/ \E p \in JobPhases : \/ JobApplies(p) \/ JobSucceeds(p) \/ JobFails(p)
                          \/ JobExpires(p) \/ CollectJob(p)

LEMMA SpecChoicesType == SpecChoices \subseteq UpgradeSpecs
  BY SpecAssumption DEF SpecChoices, UpgradeSpecs, MaybeTags

LEMMA LatestBackupType ==
  ASSUME TypeOK
  PROVE  LatestBackup \in [exists : BOOLEAN, owner : Nat, fresh : BOOLEAN]
  BY DEF TypeOK, LatestBackup

LEMMA EnvironmentStepTypeOK ==
  ASSUME TypeOK, JobsNameVersions, EnvironmentStep
  PROVE  TypeOK'
  <1>1. CASE CreateUpgrade
    <2>1. PICK spec \in SpecChoices :
            Store([Gone(cr.uid + 1, 1) EXCEPT !.exists = TRUE, !.spec = spec])
      BY <1>1 DEF CreateUpgrade
    <2> DEFINE gone == Gone(cr.uid + 1, 1)
    <2> DEFINE new == [gone EXCEPT !.exists = TRUE, !.spec = spec]
    <2>2. gone \in Upgrades
      <3>1. cr.uid + 1 \in Nat /\ 1 \in Nat
        BY DEF TypeOK, Upgrades
      <3> QED BY <3>1, GoneType
    <2>3. Store(new)
      BY <2>1
    <2>4. spec \in UpgradeSpecs
      BY SpecChoicesType
    <2> HIDE DEF gone
    <2>5. new \in Upgrades
      BY <2>2, <2>4 DEF Upgrades
    <2> HIDE DEF new
    <2>6. cr' \in Upgrades /\ watch' \in Seq(Upgrades)
      BY <2>3, <2>5, StoreType DEF TypeOK
    <2> QED BY <1>1, <2>6 DEF CreateUpgrade, TypeOK, caches
  <1>2. CASE EditUpgrade
    <2>1. PICK spec \in SpecChoices : Save([cr EXCEPT !.spec = spec])
      BY <1>2 DEF EditUpgrade
    <2>2. [cr EXCEPT !.spec = spec] \in Upgrades
      BY SpecChoicesType, UpgradeUpdateType DEF TypeOK
    <2>3. cr' \in Upgrades /\ watch' \in Seq(Upgrades)
      BY <2>1, <2>2, SaveType DEF TypeOK
    <2>4. edits' \in 0..MaxEdits
      BY <1>2, BoundsAssumption DEF EditUpgrade, TypeOK
    <2> QED BY <1>2, <2>3, <2>4 DEF EditUpgrade, TypeOK, caches, cluster
  <1>3. CASE DeleteUpgrade
    <2>1. [cr EXCEPT !.deleting = TRUE] \in Upgrades
      BY UpgradeUpdateType DEF TypeOK
    <2>2. Gone(cr.uid, cr.rv) \in Upgrades
      BY GoneType DEF TypeOK, Upgrades
    <2>3. Save([cr EXCEPT !.deleting = TRUE]) \/ Save(Gone(cr.uid, cr.rv))
      BY <1>3 DEF DeleteUpgrade
    <2>4. cr' \in Upgrades /\ watch' \in Seq(Upgrades)
      BY <2>1, <2>2, <2>3, SaveType DEF TypeOK
    <2> QED BY <1>3, <2>4 DEF DeleteUpgrade, TypeOK, caches, cluster
  <1>4. CASE DeliverCR
    <2>1. Head(watch) \in Upgrades /\ Tail(watch) \in Seq(Upgrades)
      BY <1>4 DEF DeliverCR, TypeOK
    <2> QED BY <1>4, <2>1 DEF DeliverCR, TypeOK, cluster
  <1>5. CASE SyncJobs
    BY <1>5 DEF SyncJobs, TypeOK, crVars, cluster
  <1>6. CASE SyncBackup
    BY <1>6, LatestBackupType DEF SyncBackup, TypeOK, crVars, cluster
  <1>7. CASE SyncDeployment
    BY <1>7 DEF SyncDeployment, TypeOK, crVars, cluster
  <1>8. CASE Crash
    <2>1. faults' \in 0..MaxFaults
      BY <1>8, ChargeType DEF Crash, TypeOK
    <2>2. watch' \in Seq(Upgrades)
      BY <1>8 DEF Crash
    <2> QED BY <1>8, <2>1, <2>2, IdleType, LatestBackupType DEF Crash, TypeOK, cluster
  <1>9. CASE CollectBackup
    <2>1. backup' \in [exists : BOOLEAN, owner : Nat]
      BY <1>9 DEF CollectBackup, WriteBackup
    <2>2. backupCache' \in [exists : BOOLEAN, owner : Nat, fresh : BOOLEAN]
      BY <1>9 DEF CollectBackup, WriteBackup, TypeOK
    <2> QED BY <1>9, <2>1, <2>2 DEF CollectBackup, TypeOK, crVars
  <1>10. ASSUME NEW p \in JobPhases, JobApplies(p)
         PROVE  TypeOK'
    <2>1. jobs[p] \in Jobs
      BY DEF TypeOK
    <2>2. [jobs[p] EXCEPT !.state = "applied"] \in Jobs
      BY <2>1 DEF Jobs, JobStates
    <2>3. jobs' \in [JobPhases -> Jobs]
      BY <1>10, <2>2 DEF JobApplies, TypeOK
    <2>4. deployed' \in Tags
      <3>1. jobs[p].version \in MaybeTags
        BY <2>1 DEF Jobs
      <3>2. jobs[p].version # NoVersion
        BY <1>10 DEF JobApplies, JobsNameVersions
      <3> QED BY <1>10, <3>1, <3>2 DEF JobApplies, MaybeTags
    <2> QED BY <1>10, <2>3, <2>4 DEF JobApplies, TypeOK, crVars, caches
  <1>11. ASSUME NEW p \in JobPhases, JobSucceeds(p)
         PROVE  TypeOK'
    <2>1. jobs[p] \in Jobs
      BY DEF TypeOK
    <2>2. [jobs[p] EXCEPT !.state = "succeeded"] \in Jobs
      BY <2>1 DEF Jobs, JobStates
    <2>3. jobs' \in [JobPhases -> Jobs]
      BY <1>11, <2>2 DEF JobSucceeds, TypeOK
    <2>4. succeeded' \subseteq JobPhases
      BY <1>11 DEF JobSucceeds, TypeOK
    <2> QED BY <1>11, <2>3, <2>4 DEF JobSucceeds, TypeOK, crVars, caches
  <1>12. ASSUME NEW p \in JobPhases, JobFails(p)
         PROVE  TypeOK'
    <2>1. jobs[p] \in Jobs
      BY DEF TypeOK
    <2>2. [jobs[p] EXCEPT !.state = "failed"] \in Jobs
      BY <2>1 DEF Jobs, JobStates
    <2>3. jobs' \in [JobPhases -> Jobs]
      BY <1>12, <2>2 DEF JobFails, TypeOK
    <2> QED BY <1>12, <2>3 DEF JobFails, TypeOK, crVars, caches
  <1>13. ASSUME NEW p \in JobPhases, JobExpires(p) \/ CollectJob(p)
         PROVE  TypeOK'
    <2>1. NoJob \in Jobs
      BY DEF NoJob, Jobs, JobStates, MaybeTags, Phases
    <2>2. jobs' \in [JobPhases -> Jobs]
      BY <1>13, <2>1 DEF JobExpires, CollectJob, TypeOK
    <2>3. faults' \in 0..MaxFaults
      BY <1>13, BoundsAssumption DEF JobExpires, CollectJob, Charge, TypeOK
    <2> QED BY <1>13, <2>2, <2>3 DEF JobExpires, CollectJob, TypeOK, crVars, caches
  <1> QED BY <1>1, <1>2, <1>3, <1>4, <1>5, <1>6, <1>7, <1>8, <1>9, <1>10, <1>11,
             <1>12, <1>13 DEF EnvironmentStep

\* Every step is one or the other.
LEMMA NextSplit == Next => WorkerStep \/ EnvironmentStep
  BY DEF Next, EnvironmentStep

LEMMA NextTypeOK ==
  ASSUME TypeOK, JobsNameVersions, [Next]_vars
  PROVE  TypeOK'
  <1>1. CASE Next
    BY <1>1, NextSplit, WorkerStepTypeOK, EnvironmentStepTypeOK
  <1>2. CASE UNCHANGED vars
    BY <1>2 DEF vars, TypeOK
  <1> QED BY <1>1, <1>2

=============================================================================
