-------------------- MODULE LiqoUpgradeController_proofs --------------------
(***************************************************************************)
(* Theorems about LiqoUpgradeController, for every value of its constants. *)
(* The inductive invariant is Coherent with TypeOK: a copy of the resource *)
(* is older than the server's or agrees with it, and what the worker is    *)
(* about to write fits the phase of the copy it holds.                     *)
(***************************************************************************)
EXTENDS LiqoUpgradeController_typing

----------------------------------------------------------------------------
(***************************************************************************)
(* Copies of the resource.                                                 *)
(***************************************************************************)

\* next is stored after server.
Later(next, server) ==
  next.uid > server.uid \/ (next.uid = server.uid /\ next.rv > server.rv)

\* A copy of what the server had stays older than all it stores from then on.
LEMMA AgreesLater ==
  ASSUME NEW u \in Upgrades, NEW server \in Upgrades, NEW next \in Upgrades,
         Agrees(u, server), Later(next, server)
  PROVE  Agrees(u, next)
  <1>1. /\ u.uid \in Nat /\ u.rv \in Nat
        /\ server.uid \in Nat /\ server.rv \in Nat
        /\ next.uid \in Nat /\ next.rv \in Nat
    BY DEF Upgrades
  <1> QED BY <1>1 DEF Agrees, Later

LEMMA AgreesSelf ==
  ASSUME NEW u \in Upgrades
  PROVE  Agrees(u, u)
  <1>1. u.uid \in Nat /\ u.rv \in Nat
    BY DEF Upgrades
  <1> QED BY <1>1 DEF Agrees

\* The copy the worker holds at rest is of no resource.
LEMMA IdleSound == Sound(Idle.upgrade) /\ Idle.upgrade \in Upgrades /\ Idle.pc = "idle"
  BY GoneType DEF Idle, Sound, Gone

LEMMA IdleCoherent == WorkerCoherent(Idle)
  BY DEF Idle, WorkerCoherent

\* The worker goes on, or rests, holding an object that fits.
LEMMA AtUpgrade ==
  ASSUME NEW pc, NEW u, NEW phase
  PROVE  \/ pc = "idle" /\ At(pc, u, phase) = Idle
         \/ /\ pc # "idle"
            /\ At(pc, u, phase).upgrade = u
            /\ At(pc, u, phase).pc = pc
            /\ At(pc, u, phase).phase = phase
  BY DEF At

\* A step that leaves the server and the informer alone.
LEMMA KeepCopies ==
  ASSUME TypeOK, CopiesCoherent, UNCHANGED <<cr, watch, cached>>,
         Agrees(worker'.upgrade, cr), Sound(worker'.upgrade)
  PROVE  CopiesCoherent'
  BY DEF CopiesCoherent

\* A step that stores a sound version of the resource.
LEMMA StoreCopies ==
  ASSUME TypeOK, CopiesCoherent, NEW next \in Upgrades, Later(next, cr),
         Sound(next), Store(next), cached' = cached,
         worker' = worker \/ worker' = Idle \/ worker'.upgrade = next
  PROVE  CopiesCoherent'
  <1>1. cr' = next /\ watch' = Append(watch, next)
    BY DEF Store
  <1>2. Agrees(next, next)
    BY AgreesSelf
  <1>3. /\ cr \in Upgrades /\ cached \in Upgrades /\ worker.upgrade \in Upgrades
        /\ watch \in Seq(Upgrades)
    BY DEF TypeOK, Workers
  <1>4. Agrees(cached, next) /\ Agrees(worker.upgrade, next) /\ Agrees(Idle.upgrade, next)
    BY <1>3, AgreesLater, IdleSound DEF CopiesCoherent
  <1>5. Sound(cached) /\ Sound(worker.upgrade) /\ Sound(Idle.upgrade)
    BY IdleSound DEF CopiesCoherent
  <1>6. Agrees(worker'.upgrade, next) /\ Sound(worker'.upgrade)
    BY <1>2, <1>4, <1>5
  <1>7. ASSUME NEW i \in 1..Len(Append(watch, next))
        PROVE  Agrees(Append(watch, next)[i], next) /\ Sound(Append(watch, next)[i])
    <2>1. CASE i \in 1..Len(watch)
      <3>1. Append(watch, next)[i] = watch[i] /\ watch[i] \in Upgrades
        BY <1>3, <2>1
      <3>2. Agrees(watch[i], cr) /\ Sound(watch[i])
        BY <2>1 DEF CopiesCoherent
      <3> QED BY <1>3, <3>1, <3>2, AgreesLater
    <2>2. CASE i = Len(watch) + 1
      <3>1. Append(watch, next)[i] = next
        BY <1>3, <2>2
      <3> QED BY <1>2, <3>1
    <2>3. i \in 1..Len(watch) \/ i = Len(watch) + 1
      BY <1>3
    <2> QED BY <2>1, <2>2, <2>3
  <1> QED BY <1>1, <1>4, <1>5, <1>6, <1>7 DEF CopiesCoherent

LEMMA SaveCopies ==
  ASSUME TypeOK, CopiesCoherent, NEW u \in Upgrades, u.uid = cr.uid, u.rv = cr.rv,
         Sound(u), Save(u), cached' = cached,
         worker' = worker \/ worker' = Idle \/ worker'.upgrade = cr'
  PROVE  /\ CopiesCoherent'
         /\ cr' \in Upgrades
         /\ cr'.uid = cr.uid /\ cr'.exists = u.exists /\ cr'.status = u.status
  <1> DEFINE next == [u EXCEPT !.rv = @ + 1]
  <1>1. next \in Upgrades
    BY UpgradeUpdateType
  <1>2. Store(next)
    BY DEF Save
  <1>3. /\ next.uid = u.uid /\ next.rv = u.rv + 1 /\ next.exists = u.exists
        /\ next.status = u.status /\ next.spec = u.spec /\ u.rv \in Nat
    BY DEF Upgrades
  <1> HIDE DEF next
  <1>4. Later(next, cr)
    BY <1>3 DEF Later
  <1>5. Sound(next)
    BY <1>3 DEF Sound
  <1>6. cr' = next
    BY <1>2 DEF Store
  <1> QED BY <1>1, <1>2, <1>3, <1>4, <1>5, <1>6, StoreCopies

----------------------------------------------------------------------------
(***************************************************************************)
(* The two writes that handlers end with.                                  *)
(***************************************************************************)

LEMMA UpdateStatusCoherent ==
  ASSUME TypeOK, Coherent, NEW u \in Upgrades, NEW status \in Statuses,
         NEW pc \in {"idle", "start", "enter"}, NEW phase \in Phases,
         UpdateStatus(u, status, pc, phase), StatusSound(status),
         pc # "idle" => status.previousVersion # NoVersion /\ MayEnter(status, phase)
  PROVE  Coherent'
  <1>1. JobsNameVersions' /\ cached' = cached
    BY DEF UpdateStatus, caches, cluster, Coherent, JobsNameVersions
  <1>2. CASE UNCHANGED crVars /\ worker' = Idle
    <2>1. CopiesCoherent'
      BY <1>1, <1>2, IdleSound, KeepCopies DEF crVars, Coherent, CopiesCoherent
    <2> QED BY <1>1, <1>2, <2>1, IdleCoherent DEF Coherent
  <1>3. CASE /\ Accepts(u)
             /\ Save([cr EXCEPT !.status = status])
             /\ worker' = At(pc, cr', phase) \/ worker' = Idle
    <2> DEFINE v == [cr EXCEPT !.status = status]
    <2>1. v \in Upgrades
      BY UpgradeUpdateType DEF TypeOK
    <2>2. /\ v.uid = cr.uid /\ v.rv = cr.rv /\ v.exists = cr.exists
          /\ v.status = status /\ v.spec = cr.spec
      BY DEF TypeOK, Upgrades
    <2>3. Save(v)
      BY <1>3
    <2> HIDE DEF v
    <2>4. Sound(v)
      BY <2>2 DEF Sound, Coherent, CopiesCoherent
    <2>5. worker' = Idle \/ worker'.upgrade = cr'
      BY <1>3, AtUpgrade
    <2>6. CopiesCoherent' /\ cr'.exists = cr.exists /\ cr'.status = status
      BY <1>1, <2>1, <2>2, <2>3, <2>4, <2>5, SaveCopies DEF Coherent
    <2>7. WorkerCoherent(worker')
      <3>1. CASE worker' = Idle
        BY <3>1, IdleCoherent
      <3>2. CASE /\ pc # "idle" /\ worker'.upgrade = cr' /\ worker'.pc = pc
                 /\ worker'.phase = phase
        BY <1>3, <2>6, <3>2 DEF WorkerCoherent, Accepts
      <3> QED BY <1>3, <3>1, <3>2, AtUpgrade
    <2> QED BY <1>1, <2>6, <2>7 DEF Coherent
  <1> QED BY <1>2, <1>3 DEF UpdateStatus

\* Every phase a handler can leave for another is one it can fail from.
LEMMA MayEnterChanging ==
  ASSUME NEW status, NEW phase, MayEnter(status, phase)
  PROVE  status.phase \in Changing \cup {"Validating"}
  BY DEF MayEnter, Changing, Stages

\* A step that moves only the worker, to an object that fits.
LEMMA MoveWorkerCoherent ==
  ASSUME TypeOK, Coherent, UNCHANGED <<cr, watch, cached>>, JobsNameVersions',
         Agrees(worker'.upgrade, cr), Sound(worker'.upgrade), WorkerCoherent(worker')
  PROVE  Coherent'
  BY KeepCopies DEF Coherent

\* A handler gives up holding u, with nothing saved.
LEMMA GiveUpCoherent ==
  ASSUME TypeOK, Coherent, UNCHANGED <<cr, watch, cached>>, JobsNameVersions',
         NEW u, Agrees(u, cr), Sound(u), u.exists,
         u.status.phase \in Changing \cup {"Validating"}, worker' = At("fail", u, "")
  PROVE  Coherent'
  <1>1. worker'.upgrade = u /\ worker'.pc = "fail"
    BY DEF At
  <1>2. WorkerCoherent(worker')
    BY <1>1 DEF WorkerCoherent
  <1> QED BY <1>1, <1>2, MoveWorkerCoherent

LEMMA StartJobCoherent ==
  ASSUME TypeOK, Coherent, NEW p \in JobPhases, NEW job \in Jobs, NEW u,
         StartJob(p, job, u), Agrees(u, cr), Sound(u), u.exists,
         u.status.previousVersion # NoVersion, MayEnter(u.status, p),
         SetsImage(p) => job.version # NoVersion
  PROVE  Coherent'
  <1>1. UNCHANGED <<cr, watch, cached>>
    BY DEF StartJob, crVars, caches
  <1>2. JobsNameVersions'
    <2>1. jobs' = jobs \/ jobs' = [jobs EXCEPT ![p] = job]
      BY DEF StartJob, CreateJob
    <2>2. \A q \in JobPhases : jobs'[q] = jobs[q] \/ (q = p /\ jobs'[q] = job)
      BY <2>1 DEF TypeOK
    <2> QED BY <2>2 DEF Coherent, JobsNameVersions
  <1>3. CASE worker' = At("enter", u, p)
    <2>1. worker'.upgrade = u /\ worker'.pc = "enter" /\ worker'.phase = p
      BY <1>3, AtUpgrade
    <2>2. WorkerCoherent(worker')
      BY <2>1 DEF WorkerCoherent
    <2> QED BY <1>1, <1>2, <2>1, <2>2, MoveWorkerCoherent
  <1>4. CASE worker' = At("fail", u, "")
    BY <1>1, <1>2, <1>4, MayEnterChanging, GiveUpCoherent
  <1>5. CASE worker' = Idle
    BY <1>1, <1>2, <1>5, IdleSound, IdleCoherent, MoveWorkerCoherent
       DEF Coherent, CopiesCoherent
  <1>6. At("idle", u, "") = Idle
    BY DEF At
  <1> QED BY <1>3, <1>4, <1>5, <1>6 DEF StartJob

LEMMA StartRollbackCoherent ==
  ASSUME TypeOK, Coherent, NEW u \in Upgrades, startRollback(u), Agrees(u, cr),
         Sound(u), u.exists, u.status.phase \in Changing
  PROVE  Coherent'
  <1>1. u.status.previousVersion # NoVersion
    BY DEF Sound, StatusSound
  <1>2. CASE StartJob("RollingBack", buildRollbackJob(u), u)
    <2>1. buildRollbackJob(u) \in Jobs
      BY JobType
    <2>2. buildRollbackJob(u).version = u.status.previousVersion
      BY DEF buildRollbackJob, RunningJob
    <2>3. MayEnter(u.status, "RollingBack")
      BY DEF MayEnter
    <2>4. "RollingBack" \in JobPhases
      BY DEF JobPhases
    <2> QED BY <1>1, <1>2, <2>1, <2>2, <2>3, <2>4, StartJobCoherent
  <1>3. CASE /\ worker' = At("fail", u, "")
             /\ UNCHANGED <<crVars, caches, cluster, faults, edits>>
    <2>1. UNCHANGED <<cr, watch, cached>> /\ JobsNameVersions'
      BY <1>3 DEF crVars, caches, cluster, Coherent, JobsNameVersions
    <2> QED BY <1>3, <2>1, GiveUpCoherent
  <1> QED BY <1>2, <1>3 DEF startRollback

----------------------------------------------------------------------------
(***************************************************************************)
(* The handlers.                                                           *)
(***************************************************************************)

LEMMA InHandCoherent ==
  ASSUME Coherent
  PROVE  /\ Agrees(Loaded, cr) /\ Sound(Loaded)
         /\ Agrees(worker.upgrade, cr) /\ Sound(worker.upgrade)
  BY DEF Coherent, CopiesCoherent, Loaded

LEMMA DispatchesSound ==
  ASSUME Coherent, NEW phase, Dispatches(phase)
  PROVE  Loaded.exists /\ Loaded.status.phase = phase /\ StatusSound(Loaded.status)
  BY InHandCoherent DEF Dispatches, Live, Sound

\* The stage number is no part of what copies agree on.
LEMMA InStageCoherent ==
  ASSUME NEW u \in Upgrades, NEW p, Agrees(u, cr), Sound(u)
  PROVE  /\ Agrees(InStage(u, p), cr) /\ Sound(InStage(u, p))
         /\ InStage(u, p).exists = u.exists
         /\ InStage(u, p).status.phase = u.status.phase
         /\ InStage(u, p).status.previousVersion = u.status.previousVersion
         /\ InStage(u, p).status.lastSuccessfulPhase = u.status.lastSuccessfulPhase
  <1> DEFINE v == InStage(u, p)
  <1>1. /\ v.exists = u.exists /\ v.uid = u.uid /\ v.rv = u.rv /\ v.spec = u.spec
        /\ v.status.phase = u.status.phase
        /\ v.status.previousVersion = u.status.previousVersion
        /\ v.status.lastSuccessfulPhase = u.status.lastSuccessfulPhase
        /\ v.status.rolledBack = u.status.rolledBack
    BY DEF InStage, Upgrades, Statuses
  <1> HIDE DEF v
  <1>2. Agrees(v, cr) /\ Sound(v)
    BY <1>1 DEF Agrees, Sound, StatusSound
  <1> QED BY <1>1, <1>2 DEF v

\* A start function that the worker calls with what it has just saved.
LEMMA StartStageCoherent ==
  ASSUME TypeOK, Coherent, NEW p \in Stages, NEW job \in Jobs, Starting(p),
         StartJob(p, job, InStage(worker.upgrade, p)),
         SetsImage(p) => job.version = worker.upgrade.spec.target
  PROVE  Coherent'
  <1> DEFINE u == InStage(worker.upgrade, p)
  <1>1. /\ worker.upgrade.exists
        /\ worker.upgrade.status.previousVersion # NoVersion
        /\ MayEnter(worker.upgrade.status, p)
    BY DEF Starting, Coherent, WorkerCoherent
  <1>2. /\ Agrees(u, cr) /\ Sound(u) /\ u.exists
        /\ u.status.previousVersion # NoVersion
        /\ u.status.phase = worker.upgrade.status.phase
        /\ u.status.lastSuccessfulPhase = worker.upgrade.status.lastSuccessfulPhase
    BY <1>1, InHandType, InHandCoherent, InStageCoherent
  <1>3. MayEnter(u.status, p)
    BY <1>1, <1>2 DEF MayEnter
  <1>4. SetsImage(p) => job.version # NoVersion
    BY <1>1, InHandCoherent DEF Sound
  <1>5. p \in JobPhases
    BY DEF JobPhases
  <1> QED BY <1>2, <1>3, <1>4, <1>5, StartJobCoherent

\* The stages whose success is saved before the next one starts.
LEMMA SaveLastSuccessfulCoherent ==
  ASSUME TypeOK, Coherent, NEW p \in Stages, Dispatches(p),
         NEW pc \in {"start", "enter"}, NEW phase \in Phases,
         SaveLastSuccessful(p, pc, phase),
         \A status : status.phase = p /\ status.lastSuccessfulPhase = p =>
           MayEnter(status, phase)
  PROVE  Coherent'
  <1> DEFINE new == [Loaded.status EXCEPT !.lastSuccessfulPhase = p]
  <1>1. new \in Statuses
    BY InHandType, StatusUpdateType DEF Phases, JobPhases
  <1>2. UpdateStatus(Loaded, new, pc, phase)
    BY DEF SaveLastSuccessful
  <1>3. /\ Loaded.exists /\ Loaded.status.phase = p
        /\ StatusSound(Loaded.status) /\ p \in Changing /\ p # "Verifying"
    BY DispatchesSound DEF Changing, Stages
  <1>4. /\ new.phase = p /\ new.lastSuccessfulPhase = p
        /\ new.previousVersion = Loaded.status.previousVersion
    BY <1>3, InHandType DEF Statuses
  <1> HIDE DEF new
  <1>5. StatusSound(new) /\ new.previousVersion # NoVersion /\ MayEnter(new, phase)
    BY <1>3, <1>4 DEF StatusSound
  <1>6. Loaded \in Upgrades /\ pc \in {"idle", "start", "enter"}
    BY InHandType
  <1> QED BY <1>1, <1>2, <1>5, <1>6, UpdateStatusCoherent

\* The rollback of a stage, or of the verification, that failed.
LEMMA RollbackFromCoherent ==
  ASSUME TypeOK, Coherent, NEW p \in Changing, Dispatches(p), startRollback(Loaded)
  PROVE  Coherent'
  BY InHandType, InHandCoherent, DispatchesSound, StartRollbackCoherent

\* A write of a status that is sound whatever it was made from.
LEMMA EndCoherent ==
  ASSUME TypeOK, Coherent, NEW u \in Upgrades, NEW status \in Statuses,
         UpdateStatus(u, status, "idle", ""), status.phase \notin Changing
  PROVE  Coherent'
  <1>1. StatusSound(status)
    BY DEF StatusSound, Changing
  <1>2. "" \in Phases /\ "idle" \in {"idle", "start", "enter"}
    BY DEF Phases
  <1> QED BY <1>1, <1>2, UpdateStatusCoherent

LEMMA WorkerStepCoherent ==
  ASSUME TypeOK, Coherent, WorkerStep
  PROVE  Coherent'
  <1> USE InHandType
  <1>1. CASE AddFinalizer
    <2> DEFINE v == [cr EXCEPT !.finalizer = TRUE]
    <2>1. v \in Upgrades
      BY UpgradeUpdateType DEF TypeOK
    <2>2. /\ v.uid = cr.uid /\ v.rv = cr.rv /\ v.exists = cr.exists
          /\ v.status = cr.status /\ v.spec = cr.spec
      BY DEF TypeOK, Upgrades
    <2>3. Save(v) /\ cached' = cached /\ UNCHANGED cluster
      BY <1>1 DEF AddFinalizer, caches
    <2> HIDE DEF v
    <2>4. Sound(v)
      BY <2>2 DEF Sound, Coherent, CopiesCoherent
    <2>5. worker' = worker \/ (worker'.upgrade = cr' /\ worker'.pc = "dispatch")
      <3>1. worker' = worker \/ worker' = At("dispatch", cr', "")
        BY <1>1 DEF AddFinalizer
      <3>2. /\ At("dispatch", cr', "").upgrade = cr'
            /\ At("dispatch", cr', "").pc = "dispatch"
        BY DEF At
      <3> QED BY <3>1, <3>2
    <2>6. CopiesCoherent'
      BY <2>1, <2>2, <2>3, <2>4, <2>5, SaveCopies DEF Coherent
    <2>7. WorkerCoherent(worker')
      BY <2>5 DEF WorkerCoherent, Coherent
    <2> QED BY <2>3, <2>6, <2>7 DEF Coherent, cluster, JobsNameVersions
  <1>2. CASE handleDeletion
    <2>1. worker'.upgrade = cached /\ worker'.pc = "finalize"
      BY <1>2 DEF handleDeletion, At
    <2>2. UNCHANGED <<cr, watch, cached>>
      BY <1>2 DEF handleDeletion, crVars, caches
    <2>3. \A p \in JobPhases : jobs'[p] = jobs[p] \/ jobs'[p] = NoJob
      BY <1>2 DEF handleDeletion
    <2>4. JobsNameVersions'
      <3>1. NoJob.state = "absent"
        BY DEF NoJob
      <3> QED BY <2>3, <3>1 DEF JobsNameVersions, Coherent
    <2>5. WorkerCoherent(worker')
      BY <2>1 DEF WorkerCoherent
    <2> QED BY <2>1, <2>2, <2>4, <2>5, MoveWorkerCoherent DEF Coherent, CopiesCoherent
  <1>3. CASE RemoveFinalizer
    <2>1. cached' = cached /\ worker' = Idle /\ JobsNameVersions'
      BY <1>3 DEF RemoveFinalizer, caches, cluster, Coherent, JobsNameVersions
    <2>2. CASE UNCHANGED crVars
      BY <2>1, <2>2, IdleSound, IdleCoherent, MoveWorkerCoherent
      DEF crVars, Coherent, CopiesCoherent
    <2>3. CASE Save(Gone(cr.uid, cr.rv))
      <3>1. Gone(cr.uid, cr.rv) \in Upgrades
        BY GoneType DEF TypeOK, Upgrades
      <3>2. /\ Gone(cr.uid, cr.rv).uid = cr.uid /\ Gone(cr.uid, cr.rv).rv = cr.rv
            /\ Sound(Gone(cr.uid, cr.rv))
        BY DEF Gone, Sound
      <3>3. CopiesCoherent'
        BY <2>1, <2>3, <3>1, <3>2, SaveCopies DEF Coherent
      <3> QED BY <2>1, <3>3, IdleCoherent DEF Coherent
    <2> QED BY <1>3, <2>2, <2>3 DEF RemoveFinalizer, crVars
  <1>4. CASE fail
    <2>1. [worker.upgrade.status EXCEPT !.phase = "Failed"] \in Statuses
      BY StatusUpdateType DEF Phases, Terminal
    <2>2. [worker.upgrade.status EXCEPT !.phase = "Failed"].phase = "Failed"
      BY DEF Statuses
    <2> QED BY <1>4, <2>1, <2>2, EndCoherent DEF fail, Changing, Stages
  <1>5. CASE startValidation
    <2> DEFINE new == [Loaded.status EXCEPT !.phase = "Validating", !.stage = 0]
    <2>1. new \in Statuses
      <3>1. "Validating" \in Phases
        BY DEF Phases
      <3>2. 0 \in 0..3
        OBVIOUS
      <3> QED BY <3>1, <3>2, StatusUpdateType
    <2>2. new.phase = "Validating"
      BY DEF Statuses
    <2>3. UpdateStatus(Loaded, new, "idle", "")
      BY <1>5 DEF startValidation
    <2> HIDE DEF new
    <2>4. new.phase \notin Changing
      BY <2>2 DEF Changing, Stages
    <2> QED BY <2>1, <2>3, <2>4, EndCoherent
  <1>6. CASE ChecksRefuse
    <2>1. Loaded.exists /\ Loaded.status.phase = "Validating"
      BY <1>6, DispatchesSound DEF ChecksRefuse
    <2>2. /\ UNCHANGED <<cr, watch, cached>> /\ JobsNameVersions'
          /\ worker' = At("fail", Loaded, "")
      BY <1>6 DEF ChecksRefuse, crVars, caches, cluster, JobsNameVersions, Coherent
    <2> QED BY <2>1, <2>2, InHandCoherent, GiveUpCoherent
  <1>7. CASE performValidation
    <2>1. Loaded.exists /\ Loaded.status.phase = "Validating"
      BY <1>7, DispatchesSound DEF performValidation
    <2>2. UNCHANGED <<cr, watch, cached>> /\ JobsNameVersions'
      BY <1>7 DEF performValidation, crVars, JobsNameVersions, Coherent
    <2>3. CASE worker' = At("fail", Loaded, "")
      BY <2>1, <2>2, <2>3, InHandCoherent, GiveUpCoherent
    <2>4. CASE worker' = BackedUp(Loaded)
      <3> DEFINE v == [Loaded EXCEPT !.status.backupReady = TRUE]
      <3>1. /\ worker'.pc = "backedUp" /\ worker'.upgrade = v
            /\ worker'.version = detectDeployedVersion
        BY <2>4 DEF BackedUp
      <3>2. /\ v.exists = Loaded.exists /\ v.uid = Loaded.uid /\ v.rv = Loaded.rv
            /\ v.spec = Loaded.spec
            /\ v.status.phase = Loaded.status.phase
            /\ v.status.previousVersion = Loaded.status.previousVersion
            /\ v.status.lastSuccessfulPhase = Loaded.status.lastSuccessfulPhase
            /\ v.status.rolledBack = Loaded.status.rolledBack
        BY DEF Upgrades, Statuses
      <3> HIDE DEF v
      <3>3. Agrees(v, cr) /\ Sound(v)
        BY <3>2, InHandCoherent DEF Agrees, Sound, StatusSound
      <3>4. detectDeployedVersion # NoVersion
        BY VersionsAssumption DEF detectDeployedVersion, TypeOK
      <3>5. WorkerCoherent(worker')
        BY <2>1, <3>1, <3>2, <3>4 DEF WorkerCoherent
      <3> QED BY <2>2, <3>1, <3>3, <3>5, MoveWorkerCoherent
    <2> QED BY <1>7, <2>3, <2>4 DEF performValidation, backupEnvironmentConfig
  <1>8. CASE HealthRefuses
    <2>1. /\ worker.upgrade.exists
          /\ worker.upgrade.status.phase \in Changing \cup {"Validating"}
      BY <1>8 DEF HealthRefuses, Coherent, WorkerCoherent
    <2>2. /\ UNCHANGED <<cr, watch, cached>> /\ JobsNameVersions'
          /\ worker' = At("fail", worker.upgrade, "")
      BY <1>8 DEF HealthRefuses, crVars, caches, cluster, JobsNameVersions, Coherent
    <2> QED BY <2>1, <2>2, InHandCoherent, GiveUpCoherent
  <1>9. CASE FinishValidation
    <2> DEFINE cs == {"Compatible"}
    <2> DEFINE new == [worker.upgrade.status EXCEPT !.previousVersion = worker.version,
                                                    !.conditions = cs]
    <2>1. cs \in SUBSET Conditions
      BY DEF Conditions
    <2>2. UpdateStatus(worker.upgrade, new, "start", "FreezingOperations")
      BY <1>9 DEF FinishValidation
    <2> HIDE DEF cs
    <2>3. new \in Statuses
      BY <2>1, StatusUpdateType
    <2>4. new.phase = worker.upgrade.status.phase /\ new.previousVersion = worker.version
      BY DEF Statuses
    <2> HIDE DEF new
    <2>5. new.phase = "Validating" /\ new.previousVersion # NoVersion
      BY <1>9, <2>4 DEF FinishValidation, Coherent, WorkerCoherent
    <2>6. StatusSound(new) /\ MayEnter(new, "FreezingOperations")
      BY <2>5 DEF StatusSound, MayEnter
    <2>7. "FreezingOperations" \in Phases /\ "start" \in {"idle", "start", "enter"}
      BY DEF Phases, JobPhases, Stages
    <2> QED BY <2>2, <2>3, <2>5, <2>6, <2>7, UpdateStatusCoherent
  <1>10. CASE startFreezeOperations
    BY <1>10, JobType, StartStageCoherent DEF startFreezeOperations, Stages, SetsImage
  <1>11. CASE startControllerManagerUpgrade
    <2>1. buildControllerManagerUpgradeJob(worker.upgrade).version
            = worker.upgrade.spec.target
      BY DEF buildControllerManagerUpgradeJob, RunningJob
    <2> QED BY <1>11, <2>1, JobType, StartStageCoherent
            DEF startControllerManagerUpgrade, Stages
  <1>12. CASE startNetworkFabricUpgrade
    BY <1>12, JobType, StartStageCoherent
    DEF startNetworkFabricUpgrade, Stages, SetsImage
  <1>13. CASE EnterPhase
    <2> DEFINE u == worker.upgrade
    <2> DEFINE cs == IF worker.phase = "RollingBack" THEN {"RollbackRequired"} ELSE {}
    <2> DEFINE new == [u.status EXCEPT !.phase = worker.phase, !.conditions = @ \cup cs]
    <2>1. cs \in SUBSET Conditions
      BY DEF Conditions
    <2>2. UpdateStatus(u, new, "idle", "")
      BY <1>13 DEF EnterPhase
    <2> HIDE DEF cs
    <2>3. new \in Statuses
      BY <2>1, StatusUpdateType
    <2>4. /\ new.phase = worker.phase
          /\ new.previousVersion = u.status.previousVersion
          /\ new.lastSuccessfulPhase = u.status.lastSuccessfulPhase
      BY DEF Statuses
    <2> HIDE DEF new
    <2>5. u.status.previousVersion # NoVersion /\ MayEnter(u.status, worker.phase)
      BY <1>13 DEF EnterPhase, Coherent, WorkerCoherent
    <2>6. worker.phase = "Verifying" =>
            u.status.lastSuccessfulPhase = "UpgradingNetworkFabric"
      BY <2>5 DEF MayEnter
    <2>7. StatusSound(new)
      BY <2>4, <2>5, <2>6 DEF StatusSound
    <2>8. "" \in Phases /\ "idle" \in {"idle", "start", "enter"}
      BY DEF Phases
    <2> QED BY <2>2, <2>3, <2>7, <2>8, UpdateStatusCoherent
  <1>14. CASE monitorFreezeOperations
    <2>1. Dispatches("FreezingOperations") /\ "FreezingOperations" \in Changing
      BY <1>14 DEF monitorFreezeOperations, Observes, Changing, Stages
    <2>2. CASE startCRDUpgrade(Loaded)
      <3> DEFINE u == InStage(Loaded, "UpgradingCRDs")
      <3>1. /\ Loaded.exists /\ Loaded.status.phase = "FreezingOperations"
            /\ Loaded.status.previousVersion # NoVersion
        BY <2>1, DispatchesSound DEF StatusSound
      <3>2. /\ Agrees(u, cr) /\ Sound(u) /\ u.exists
            /\ u.status.previousVersion # NoVersion
            /\ u.status.phase = "FreezingOperations"
        BY <3>1, InHandCoherent, InStageCoherent
      <3>3. StartJob("UpgradingCRDs", buildCRDUpgradeJob(Loaded), u)
        BY <2>2 DEF startCRDUpgrade
      <3> HIDE DEF u
      <3>4. MayEnter(u.status, "UpgradingCRDs")
        BY <3>2 DEF MayEnter
      <3>5. "UpgradingCRDs" \in JobPhases /\ ~SetsImage("UpgradingCRDs")
        BY DEF JobPhases, Stages, SetsImage
      <3> QED BY <3>2, <3>3, <3>4, <3>5, JobType, StartJobCoherent
    <2> QED BY <1>14, <2>1, <2>2, RollbackFromCoherent DEF monitorFreezeOperations
  <1>15. CASE monitorCRDUpgrade
    <2>1. /\ Dispatches("UpgradingCRDs") /\ "UpgradingCRDs" \in Changing
          /\ "UpgradingCRDs" \in Stages
      BY <1>15 DEF monitorCRDUpgrade, Observes, Changing, Stages
    <2>2. \A status :
            status.phase = "UpgradingCRDs"
              /\ status.lastSuccessfulPhase = "UpgradingCRDs" =>
                MayEnter(status, "UpgradingControllerManager")
      BY DEF MayEnter
    <2>3. "UpgradingControllerManager" \in Phases /\ "start" \in {"start", "enter"}
      BY DEF Phases, JobPhases, Stages
    <2> QED BY <1>15, <2>1, <2>2, <2>3, SaveLastSuccessfulCoherent, RollbackFromCoherent
            DEF monitorCRDUpgrade
  <1>16. CASE monitorControllerManagerUpgrade
    <2>1. /\ Dispatches("UpgradingControllerManager")
          /\ "UpgradingControllerManager" \in Changing
          /\ "UpgradingControllerManager" \in Stages
      BY <1>16 DEF monitorControllerManagerUpgrade, Observes, Changing, Stages
    <2>2. \A status :
            status.phase = "UpgradingControllerManager"
              /\ status.lastSuccessfulPhase = "UpgradingControllerManager" =>
                MayEnter(status, "UpgradingNetworkFabric")
      BY DEF MayEnter
    <2>3. "UpgradingNetworkFabric" \in Phases /\ "start" \in {"start", "enter"}
      BY DEF Phases, JobPhases, Stages
    <2> QED BY <1>16, <2>1, <2>2, <2>3, SaveLastSuccessfulCoherent, RollbackFromCoherent
            DEF monitorControllerManagerUpgrade
  <1>17. CASE monitorNetworkFabricUpgrade
    <2>1. /\ Dispatches("UpgradingNetworkFabric")
          /\ "UpgradingNetworkFabric" \in Changing
          /\ "UpgradingNetworkFabric" \in Stages
      BY <1>17 DEF monitorNetworkFabricUpgrade, Observes, Changing, Stages
    <2>2. \A status :
            status.phase = "UpgradingNetworkFabric"
              /\ status.lastSuccessfulPhase = "UpgradingNetworkFabric" =>
                MayEnter(status, "Verifying")
      BY DEF MayEnter
    <2>3. "Verifying" \in Phases /\ "enter" \in {"start", "enter"}
      BY DEF Phases
    <2> QED BY <1>17, <2>1, <2>2, <2>3, SaveLastSuccessfulCoherent, RollbackFromCoherent
            DEF monitorNetworkFabricUpgrade
  <1>18. CASE performVerification
    <2> DEFINE cs == {"Healthy"}
    <2> DEFINE new == [Loaded.status EXCEPT !.phase = "Completed",
                                            !.conditions = @ \cup cs]
    <2>1. CASE startRollback(Loaded)
      <3>1. Dispatches("Verifying") /\ "Verifying" \in Changing
        BY <1>18 DEF performVerification, Changing
      <3> QED BY <2>1, <3>1, RollbackFromCoherent
    <2>2. CASE UpdateStatus(Loaded, new, "idle", "")
      <3>1. cs \in SUBSET Conditions
        BY DEF Conditions
      <3> HIDE DEF cs
      <3>2. new \in Statuses
        BY <3>1, StatusUpdateType DEF Phases, Terminal
      <3>3. new.phase = "Completed"
        BY DEF Statuses
      <3> HIDE DEF new
      <3>4. new.phase \notin Changing
        BY <3>3 DEF Changing, Stages
      <3> QED BY <2>2, <3>2, <3>4, EndCoherent
    <2> QED BY <1>18, <2>1, <2>2 DEF performVerification
  <1>19. CASE monitorRollback
    <2>1. PICK outcome \in {"succeeded", "failed"} :
            UpdateStatus(Loaded,
                         [Loaded.status EXCEPT !.phase = "Failed",
                                               !.rolledBack = (outcome = "succeeded")],
                         "idle", "")
      BY <1>19 DEF monitorRollback
    <2> DEFINE b == outcome = "succeeded"
    <2> DEFINE new == [Loaded.status EXCEPT !.phase = "Failed", !.rolledBack = b]
    <2>2. b \in BOOLEAN
      OBVIOUS
    <2>3. UpdateStatus(Loaded, new, "idle", "")
      BY <2>1
    <2> HIDE DEF b
    <2>4. new \in Statuses
      BY <2>2, StatusUpdateType
    <2>5. new.phase = "Failed"
      BY DEF Statuses
    <2> HIDE DEF new
    <2>6. new.phase \notin Changing
      BY <2>5 DEF Changing, Stages
    <2> QED BY <2>3, <2>4, <2>6, EndCoherent
  <1> QED BY <1>1, <1>2, <1>3, <1>4, <1>5, <1>6, <1>7, <1>8, <1>9, <1>10, <1>11,
             <1>12, <1>13, <1>14, <1>15, <1>16, <1>17, <1>18, <1>19 DEF WorkerStep

\* A choice of a user names a target.
LEMMA SpecChoicesNamed ==
  ASSUME NEW spec \in SpecChoices
  PROVE  spec \in UpgradeSpecs /\ spec.target # NoVersion
  BY SpecChoicesType, SpecAssumption, VersionsAssumption DEF SpecChoices

LEMMA EnvironmentStepCoherent ==
  ASSUME TypeOK, Coherent, EnvironmentStep
  PROVE  Coherent'
  <1>1. CASE CreateUpgrade
    <2>1. PICK spec \in SpecChoices :
            Store([Gone(cr.uid + 1, 1) EXCEPT !.exists = TRUE, !.spec = spec])
      BY <1>1 DEF CreateUpgrade
    <2> DEFINE gone == Gone(cr.uid + 1, 1)
    <2> DEFINE new == [gone EXCEPT !.exists = TRUE, !.spec = spec]
    <2>2. cr.uid + 1 \in Nat /\ 1 \in Nat /\ cr.uid \in Nat
      BY DEF TypeOK, Upgrades
    <2>3. gone \in Upgrades
      BY <2>2, GoneType
    <2>4. gone.uid = cr.uid + 1 /\ gone.status.phase = ""
      BY DEF Gone, InitialStatus
    <2>5. Store(new)
      BY <2>1
    <2> HIDE DEF gone
    <2>6. new \in Upgrades
      BY <2>3, SpecChoicesNamed DEF Upgrades
    <2>7. new.uid = cr.uid + 1 /\ new.status.phase = "" /\ new.spec = spec
      BY <2>3, <2>4 DEF Upgrades
    <2> HIDE DEF new
    <2>8. Later(new, cr)
      <3>1. new.uid = cr.uid + 1
        BY <2>7
      <3>2. \A n \in Nat : n + 1 > n
        OBVIOUS
      <3>3. new.uid > cr.uid
        BY <2>2, <3>1, <3>2
      <3> QED BY <3>3 DEF Later
    <2>9. Sound(new)
      BY <2>7, SpecChoicesNamed DEF Sound, StatusSound, Changing, Stages
    <2>10. cached' = cached /\ worker' = worker /\ JobsNameVersions'
      BY <1>1 DEF CreateUpgrade, caches, Coherent, JobsNameVersions
    <2>11. CopiesCoherent'
      BY <2>5, <2>6, <2>8, <2>9, <2>10, StoreCopies DEF Coherent
    <2> QED BY <2>10, <2>11 DEF Coherent
  <1>2. CASE EditUpgrade
    <2>1. PICK spec \in SpecChoices : Save([cr EXCEPT !.spec = spec])
      BY <1>2 DEF EditUpgrade
    <2> DEFINE v == [cr EXCEPT !.spec = spec]
    <2>2. v \in Upgrades
      BY SpecChoicesNamed, UpgradeUpdateType DEF TypeOK
    <2>3. /\ v.uid = cr.uid /\ v.rv = cr.rv /\ v.exists = cr.exists
          /\ v.status = cr.status /\ v.spec = spec
      BY DEF TypeOK, Upgrades
    <2>4. Save(v)
      BY <2>1
    <2> HIDE DEF v
    <2>5. Sound(v)
      BY <2>3, SpecChoicesNamed DEF Sound, Coherent, CopiesCoherent
    <2>6. cached' = cached /\ worker' = worker /\ JobsNameVersions'
      BY <1>2 DEF EditUpgrade, caches, cluster, Coherent, JobsNameVersions
    <2>7. CopiesCoherent'
      BY <2>2, <2>3, <2>4, <2>5, <2>6, SaveCopies DEF Coherent
    <2> QED BY <2>6, <2>7 DEF Coherent
  <1>3. CASE DeleteUpgrade
    <2>1. cached' = cached /\ worker' = worker /\ JobsNameVersions'
      BY <1>3 DEF DeleteUpgrade, caches, cluster, Coherent, JobsNameVersions
    <2>2. PICK v \in Upgrades : Save(v) /\ v.uid = cr.uid /\ v.rv = cr.rv /\ Sound(v)
      <3>1. CASE Save([cr EXCEPT !.deleting = TRUE])
        <4> DEFINE w == [cr EXCEPT !.deleting = TRUE]
        <4>1. w \in Upgrades
          BY UpgradeUpdateType DEF TypeOK
        <4>2. /\ w.uid = cr.uid /\ w.rv = cr.rv /\ w.exists = cr.exists
              /\ w.status = cr.status /\ w.spec = cr.spec
          BY DEF TypeOK, Upgrades
        <4>3. Save(w)
          BY <3>1
        <4> HIDE DEF w
        <4>4. Sound(w)
          BY <4>2 DEF Sound, Coherent, CopiesCoherent
        <4> QED BY <4>1, <4>2, <4>3, <4>4
      <3>2. CASE Save(Gone(cr.uid, cr.rv))
        <4>1. Gone(cr.uid, cr.rv) \in Upgrades
          BY GoneType DEF TypeOK, Upgrades
        <4>2. /\ Gone(cr.uid, cr.rv).uid = cr.uid /\ Gone(cr.uid, cr.rv).rv = cr.rv
              /\ Sound(Gone(cr.uid, cr.rv))
          BY DEF Gone, Sound
        <4> QED BY <3>2, <4>1, <4>2
      <3> QED BY <1>3, <3>1, <3>2 DEF DeleteUpgrade
    <2>3. CopiesCoherent'
      BY <2>1, <2>2, SaveCopies DEF Coherent
    <2> QED BY <2>1, <2>3 DEF Coherent
  <1>4. CASE DeliverCR
    <2>1. /\ watch # <<>> /\ cached' = Head(watch) /\ watch' = Tail(watch)
          /\ cr' = cr /\ worker' = worker /\ jobs' = jobs
      BY <1>4 DEF DeliverCR, cluster
    <2>2. watch \in Seq(Upgrades)
      BY DEF TypeOK
    <2>3. 1 \in 1..Len(watch) /\ Head(watch) = watch[1]
      BY <2>1, <2>2
    <2>4. ASSUME NEW i \in 1..Len(Tail(watch))
          PROVE  i + 1 \in 1..Len(watch) /\ Tail(watch)[i] = watch[i + 1]
      BY <2>1, <2>2
    <2>5. Agrees(cached', cr) /\ Sound(cached')
      BY <2>1, <2>3 DEF Coherent, CopiesCoherent
    <2>6. \A i \in 1..Len(watch') : Agrees(watch'[i], cr) /\ Sound(watch'[i])
      BY <2>1, <2>4 DEF Coherent, CopiesCoherent
    <2>7. CopiesCoherent'
      BY <2>1, <2>5, <2>6 DEF Coherent, CopiesCoherent
    <2> QED BY <2>1, <2>7 DEF Coherent, JobsNameVersions
  <1>5. CASE SyncJobs \/ SyncBackup \/ SyncDeployment \/ CollectBackup
    <2>1. cr' = cr /\ watch' = watch /\ cached' = cached /\ worker' = worker /\ jobs' = jobs
      BY <1>5 DEF SyncJobs, SyncBackup, SyncDeployment, CollectBackup, crVars, cluster
    <2> QED BY <2>1 DEF Coherent, CopiesCoherent, JobsNameVersions
  <1>6. CASE Crash
    <2>1. /\ cr' = cr /\ watch' = <<>> /\ cached' = cr /\ worker' = Idle /\ jobs' = jobs
      BY <1>6 DEF Crash, cluster
    <2>2. Agrees(cr, cr)
      BY AgreesSelf DEF TypeOK
    <2>3. CopiesCoherent'
      BY <2>1, <2>2, IdleSound DEF Coherent, CopiesCoherent
    <2> QED BY <2>1, <2>3, IdleCoherent DEF Coherent, JobsNameVersions
  <1>7. ASSUME NEW p \in JobPhases,
               JobApplies(p) \/ JobSucceeds(p) \/ JobFails(p) \/ JobExpires(p) \/ CollectJob(p)
        PROVE  Coherent'
    <2>1. cr' = cr /\ watch' = watch /\ cached' = cached /\ worker' = worker
      BY <1>7 DEF JobApplies, JobSucceeds, JobFails, JobExpires, CollectJob, crVars, caches
    <2>2. jobs[p].state # "absent"
      BY <1>7 DEF JobApplies, JobSucceeds, JobFails, JobExpires, CollectJob, Finished
    <2>3. \/ \E s : jobs' = [jobs EXCEPT ![p].state = s]
          \/ jobs' = [jobs EXCEPT ![p] = NoJob]
      BY <1>7 DEF JobApplies, JobSucceeds, JobFails, JobExpires, CollectJob
    <2>4. \A q \in JobPhases : \/ jobs'[q] = jobs[q]
                               \/ q = p /\ jobs'[q].version = jobs[q].version
                               \/ jobs'[q] = NoJob
      BY <2>3 DEF TypeOK, Jobs
    <2>5. NoJob.state = "absent"
      BY DEF NoJob
    <2>6. JobsNameVersions'
      BY <2>2, <2>4, <2>5 DEF Coherent, JobsNameVersions
    <2> QED BY <2>1, <2>6 DEF Coherent, CopiesCoherent
  <1> QED BY <1>1, <1>2, <1>3, <1>4, <1>5, <1>6, <1>7 DEF EnvironmentStep

----------------------------------------------------------------------------
(***************************************************************************)
(* The invariants.                                                         *)
(***************************************************************************)

Inv == TypeOK /\ Coherent

LEMMA InitInv == Init => Inv
  <1> SUFFICES ASSUME Init PROVE Inv
    OBVIOUS
  <1>1. TypeOK
    BY InitTypeOK
  <1>2. cr = Idle.upgrade /\ cached = Idle.upgrade /\ worker = Idle /\ watch = <<>>
    BY DEF Init, Idle
  <1>3. CopiesCoherent
    BY <1>2, IdleSound, AgreesSelf DEF CopiesCoherent
  <1>4. JobsNameVersions
    BY DEF Init, JobsNameVersions, NoJob
  <1> QED BY <1>1, <1>2, <1>3, <1>4, IdleCoherent DEF Inv, Coherent

LEMMA NextInv ==
  ASSUME Inv, [Next]_vars
  PROVE  Inv'
  <1>1. TypeOK'
    BY NextTypeOK DEF Inv, Coherent
  <1>2. Coherent'
    <2>1. CASE Next
      BY <2>1, NextSplit, WorkerStepCoherent, EnvironmentStepCoherent DEF Inv
    <2>2. CASE UNCHANGED vars
      BY <2>2 DEF vars, Inv, Coherent, CopiesCoherent, JobsNameVersions
    <2> QED BY <2>1, <2>2
  <1> QED BY <1>1, <1>2 DEF Inv

LEMMA SpecInv == Spec => []Inv
  BY InitInv, NextInv, PTL DEF Spec

\* Every variable keeps its type.  That the controller-manager always has a
\* tag needs the rest of the invariant: a rollback script built from a status
\* without a previous version would set an image with an empty tag.
THEOREM TypeCorrect == Spec => []TypeOK
  BY SpecInv, PTL DEF Inv

\* Whatever was delivered late, lost or interrupted, and however many
\* resources of the name there were: a copy of the resource is older than the
\* server's or agrees with it, so a write the server accepts is made by a
\* handler of the phase it is written over; and no Job deploys an empty tag.
THEOREM CopiesStayCoherent == Spec => []Coherent
  BY SpecInv, PTL DEF Inv

=============================================================================
