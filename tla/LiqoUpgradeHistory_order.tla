----------------------- MODULE LiqoUpgradeHistory_order -----------------------
(***************************************************************************)
(* Every step of LiqoUpgradeController keeps InOrder, for any number of    *)
(* resources of the name.  The first part says, once for all invariants,   *)
(* what a step may do to the server's copy, to the informer's, to the      *)
(* worker's and to a Job.                                                  *)
(***************************************************************************)
EXTENDS LiqoUpgradeHistory, LiqoUpgradeController_refinement

----------------------------------------------------------------------------
(***************************************************************************)
(* What a step may do.                                                     *)
(***************************************************************************)

\* The server stores another version, which the informer will deliver.
Stores == watch' = Append(watch, cr') /\ cached' = cached

\* The server's copy takes the next version, and status.
Rewrites(status) ==
  /\ cr.exists /\ cr'.exists
  /\ cr'.uid = cr.uid /\ cr'.rv = cr.rv + 1
  /\ cr'.deleting = cr.deleting /\ cr'.finalizer = cr.finalizer
  /\ cr'.spec = cr.spec
  /\ cr'.status = status

CreatedMove ==
  /\ ~cr.exists /\ cr'.exists
  /\ cr'.uid = cr.uid + 1
  /\ ~cr'.deleting /\ ~cr'.finalizer
  /\ cr'.status = InitialStatus
  /\ succeeded' = {} /\ worker' = worker

RemovedMove ==
  /\ cr.exists /\ ~cr'.exists
  /\ cr'.uid = cr.uid /\ cr'.rv = cr.rv + 1
  /\ cr'.status = InitialStatus
  /\ \/ worker' = worker /\ Live(cr) /\ ~cr.finalizer
     \/ worker' = Idle /\ worker.pc = "finalize" /\ Accepts(worker.upgrade)

\* From status s to status t by a write that keeps what is not named.
Keeps(s, t) ==
  /\ t.previousVersion = s.previousVersion
  /\ t.lastSuccessfulPhase = s.lastSuccessfulPhase
  /\ t.rolledBack = s.rolledBack

ValidatingMove(s, t) ==
  /\ Early(s.phase) /\ t.phase = "Validating"
  /\ t.lastSuccessfulPhase = s.lastSuccessfulPhase /\ t.rolledBack = s.rolledBack
  /\ \/ t.previousVersion = s.previousVersion
     \/ worker.pc = "backedUp" /\ t.previousVersion = worker.version

SavingMove(s, t) ==
  /\ s.phase \in Stages /\ t.phase = s.phase
  /\ jobCache[s.phase].state = "succeeded"
  /\ t.lastSuccessfulPhase = s.phase
  /\ t.previousVersion = s.previousVersion /\ t.rolledBack = s.rolledBack
  /\ t.backupReady

EnteringMove(s, t) ==
  /\ worker.pc = "enter" /\ worker.upgrade.status.phase = s.phase
  /\ MayEnter(s, worker.phase) /\ t.phase = worker.phase
  /\ Keeps(s, t) /\ t.backupReady

CompletingMove(s, t) ==
  /\ s.phase = "Verifying" /\ t.phase = "Completed"
  /\ Keeps(s, t) /\ t.backupReady
  /\ cr.spec.target = detectDeployedVersion

FailingMove(s, t) ==
  /\ s.phase \notin Terminal /\ t.phase = "Failed"
  /\ t.previousVersion = s.previousVersion
  /\ t.lastSuccessfulPhase = s.lastSuccessfulPhase
  /\ t.rolledBack => s.rolledBack \/ jobCache["RollingBack"].state = "succeeded"

StatusMove(s, t) ==
  \/ t = s
  \/ ValidatingMove(s, t) \/ SavingMove(s, t) \/ EnteringMove(s, t)
  \/ CompletingMove(s, t) \/ FailingMove(s, t)

\* No write makes the backup ready: the copy it is made from shows that.
ReadyFromCopy(status) ==
  status.backupReady => \E u \in Copies : u.exists /\ u.status.backupReady

ChangedMove ==
  /\ cr.exists /\ cr'.exists
  /\ cr'.uid = cr.uid /\ cr'.rv = cr.rv + 1
  /\ cr.deleting => cr'.deleting
  /\ cr.finalizer => cr'.finalizer
  /\ cr'.deleting => cr'.finalizer
  /\ cr'.spec = cr.spec \/ cr'.status = cr.status
  /\ StatusMove(cr.status, cr'.status)
  /\ ReadyFromCopy(cr'.status)

\* What a step does to the server's copy; if anything, then nothing but the
\* worker and, for a new resource, the history goes with it.
ServerMove ==
  \/ cr' = cr
  \/ /\ Stores
     /\ UNCHANGED <<caches, jobs, backup, deployed>>
     /\ \/ CreatedMove
        \/ (RemovedMove \/ ChangedMove) /\ UNCHANGED succeeded

\* What a step does to the informer's copy.
InformerMove ==
  \/ watch' = watch /\ cached' = cached
  \/ Stores
  \/ /\ watch # <<>> /\ cached' = Head(watch) /\ watch' = Tail(watch)
     /\ worker' = worker
  \/ watch' = <<>> /\ cached' = cr /\ worker' = Idle

\* The object a handler holds goes on in memory.
GoesOn(u) ==
  /\ u \in {Loaded, worker.upgrade} /\ Active(u)
  /\ SameVersion(worker'.upgrade, u)
  /\ u.status.backupReady => worker'.upgrade.status.backupReady
  /\ worker'.upgrade.status.backupReady => u.status.backupReady \/ backup'.exists
  /\ cr' = cr

\* A start function creates the Job of p for u.
MayStart(u, p) ==
  \/ worker.pc = "start" /\ worker.phase = p /\ u = worker.upgrade /\ p \in Stages
  \/ /\ u = Loaded /\ u.status.phase = "FreezingOperations" /\ p = "UpgradingCRDs"
     /\ jobCache["FreezingOperations"].state = "succeeded"
  \/ /\ u = Loaded /\ p = "RollingBack"
     /\ \/ u.status.phase = "Verifying"
        \/ u.status.phase \in Stages /\ jobCache[u.status.phase].state = "failed"

FailMove == worker'.pc = "fail" /\ \E u \in {Loaded, worker.upgrade} : GoesOn(u)

BackedUpMove ==
  /\ worker'.pc = "backedUp" /\ GoesOn(Loaded)
  /\ Loaded.status.phase = "Validating"
  /\ worker'.upgrade.status.backupReady
  /\ worker'.version = detectDeployedVersion

EnterMove ==
  /\ worker'.pc = "enter"
  /\ \E u \in {Loaded, worker.upgrade} : GoesOn(u) /\ MayStart(u, worker'.phase)

\* A handler goes on with what it has just saved.
SavedMove ==
  /\ worker'.upgrade = cr' /\ ChangedMove
  /\ \/ worker'.pc = "dispatch" /\ Accepts(cached) /\ Live(cached) /\ Active(cr')
     \/ /\ worker'.pc = "start" /\ worker'.phase = "FreezingOperations"
        /\ worker.pc = "backedUp" /\ Accepts(worker.upgrade)
        /\ Active(cr') /\ cr'.status.backupReady
     \/ /\ worker'.pc \in {"start", "enter"} /\ Accepts(Loaded) /\ Active(cr')
        /\ SavingMove(cr.status, cr'.status)
        /\ MayEnter(cr'.status, worker'.phase)
        /\ worker'.phase \in Changing

FinalizeMove ==
  /\ worker'.pc = "finalize" /\ worker'.upgrade = cached
  /\ cached.exists /\ cached.deleting
  /\ UNCHANGED <<cr, watch, cached>>

\* What a step does to the worker.
WorkerMove ==
  \/ worker' = worker \/ worker' = Idle
  \/ FailMove \/ BackedUpMove \/ EnterMove \/ SavedMove \/ FinalizeMove

Begins(p) ==
  /\ jobs[p].state = "absent" /\ jobs'[p].state = "running"
  /\ \E u \in {Loaded, worker.upgrade} :
       /\ Active(u) /\ MayStart(u, p)
       /\ jobs'[p].owner = u.uid
       /\ SetsImage(p) => ~Early(u.status.phase)
       /\ p = "RollingBack" => /\ jobs'[p].version = u.status.previousVersion
                               /\ jobs'[p].last = u.status.lastSuccessfulPhase
  /\ UNCHANGED <<cr, jobCache, deployed, succeeded>>

Ends(p) ==
  /\ jobs[p].state \in {"running", "applied"}
  /\ jobs'[p].state \in {"applied", "succeeded", "failed"}
  /\ jobs'[p] = [jobs[p] EXCEPT !.state = jobs'[p].state]
  /\ jobs'[p].state = "succeeded" =>
       /\ jobs[p].owner = cr.uid => p \in succeeded'
       /\ SetsImage(p) => deployed = jobs[p].version
  /\ UNCHANGED <<cr, watch, cached, worker, jobCache>>

Goes(p) ==
  /\ jobs[p].state # "absent" /\ jobs'[p] = NoJob
  /\ \/ /\ Finished(jobs[p]) /\ worker' = worker
        /\ "expiry" \notin FaultKinds => Used(p)
     \/ ~OwnerAlive(jobs[p].owner) /\ worker' = worker
     \/ FinalizeMove
  /\ UNCHANGED <<cr, watch, cached, jobCache, deployed, succeeded>>

\* What a step does to a Job.
JobMove(p) ==
  \/ jobs'[p] = jobs[p]
  \/ jobs[p].state = "absent" /\ jobs'[p] = NoJob
  \/ Begins(p) \/ Ends(p) \/ Goes(p)

\* What a step does to the rest of the cluster and of its caches.
SucceededMove ==
  \/ succeeded' = succeeded
  \/ succeeded' = {} /\ CreatedMove
  \/ \E p \in JobPhases :
       /\ jobs[p].state \in {"running", "applied"} /\ jobs'[p].state = "succeeded"
       /\ jobs[p].owner = cr.uid /\ succeeded' = succeeded \cup {p}
       /\ SetsImage(p) => deployed = jobs[p].version
       /\ UNCHANGED <<cr, watch, cached, worker, deployed>>

DeployedMove ==
  \/ deployed' = deployed
  \/ \E p \in JobPhases :
       /\ SetsImage(p) /\ jobs[p].state = "running" /\ jobs'[p].state = "applied"
       /\ deployed' = jobs[p].version
       /\ UNCHANGED <<cr, watch, cached, worker, succeeded, deployedCache>>

CachesMove ==
  /\ \/ jobCache' = jobCache
     \/ jobCache' = jobs /\ UNCHANGED <<cr, jobs, succeeded, deployed>>
  /\ \/ deployedCache' = deployedCache
     \/ deployedCache' = deployed /\ UNCHANGED <<cr, deployed>>

ClusterMove == SucceededMove /\ DeployedMove /\ CachesMove

\* What a step does to the backup and the informer's copy of it.
BackupMove ==
  /\ \/ UNCHANGED <<backup, backupCache>>
     \/ UNCHANGED backup /\ backupCache' = LatestBackup
     \/ ~backupCache'.fresh
  /\ \/ backup' = backup
     \/ /\ backup' = [exists |-> TRUE, owner |-> Loaded.uid]
        /\ Active(Loaded) /\ UNCHANGED cr
     \/ /\ ~OwnerAlive(backup.owner) /\ backup' = [exists |-> FALSE, owner |-> 0]
        /\ UNCHANGED <<cr, watch, cached, worker>>


----------------------------------------------------------------------------
(***************************************************************************)
(* Writes of the status.                                                   *)
(***************************************************************************)

LEMMA CopiesInHand ==
  /\ Loaded \in Copies /\ worker.upgrade \in Copies
  /\ cr \in Copies /\ cached \in Copies /\ Idle.upgrade \in Copies
  BY DEF Copies, Loaded

LEMMA CopiesType ==
  ASSUME TypeOK, NEW u \in Copies
  PROVE  u \in Upgrades
  <1>1. /\ Idle.upgrade \in Upgrades /\ cr \in Upgrades /\ cached \in Upgrades
        /\ worker.upgrade \in Upgrades
    BY IdleSound, InHandType DEF TypeOK
  <1>2. \A i \in 1..Len(watch) : watch[i] \in Upgrades
    BY DEF TypeOK
  <1> QED BY <1>1, <1>2 DEF Copies

\* A copy whose update the server accepts is the version the server has.
LEMMA AcceptedSame ==
  ASSUME CopiesInOrder, NEW u \in Copies, Accepts(u)
  PROVE  SameVersion(u, cr)
  BY CopiesInHand DEF CopiesInOrder, Accepts

\* What the server stores when it takes a change of its copy.
LEMMA SaveFields ==
  ASSUME NEW u \in Upgrades, Save(u)
  PROVE  /\ cr'.exists = u.exists /\ cr'.uid = u.uid /\ cr'.rv = u.rv + 1
         /\ cr'.deleting = u.deleting /\ cr'.finalizer = u.finalizer
         /\ cr'.spec = u.spec /\ cr'.status = u.status
         /\ watch' = Append(watch, cr')
  <1> DEFINE v == [u EXCEPT !.rv = @ + 1]
  <1>1. cr' = v /\ watch' = Append(watch, v)
    BY DEF Save, Store
  <1>2. /\ v.exists = u.exists /\ v.uid = u.uid /\ v.rv = u.rv + 1
        /\ v.deleting = u.deleting /\ v.finalizer = u.finalizer
        /\ v.spec = u.spec /\ v.status = u.status
    BY DEF Upgrades
  <1> HIDE DEF v
  <1> QED BY <1>1, <1>2

LEMMA SaveStatus ==
  ASSUME TypeOK, NEW status \in Statuses, cr.exists, Save([cr EXCEPT !.status = status])
  PROVE  Rewrites(status) /\ watch' = Append(watch, cr')
  <1> DEFINE v == [cr EXCEPT !.status = status]
  <1>1. v \in Upgrades
    BY UpgradeUpdateType DEF TypeOK
  <1>2. /\ v.exists = cr.exists /\ v.uid = cr.uid /\ v.rv = cr.rv
        /\ v.deleting = cr.deleting /\ v.finalizer = cr.finalizer
        /\ v.spec = cr.spec /\ v.status = status
    BY DEF TypeOK, Upgrades
  <1>3. Save(v)
    OBVIOUS
  <1> HIDE DEF v
  <1> QED BY <1>1, <1>2, <1>3, SaveFields DEF Rewrites

\* A status update is refused, or stores the status over the version that the
\* handler holds.
LEMMA UpdateStatusCases ==
  ASSUME TypeOK, CopiesInOrder, NEW u \in Copies, NEW status \in Statuses, NEW pc,
         NEW phase, UpdateStatus(u, status, pc, phase)
  PROVE  /\ UNCHANGED <<caches, cluster, edits>>
         /\ \/ UNCHANGED <<cr, watch>> /\ worker' = Idle
            \/ /\ Accepts(u) /\ SameVersion(u, cr)
               /\ Rewrites(status) /\ Stores
               /\ worker' = Idle \/ worker' = At(pc, cr', phase)
  <1>1. UNCHANGED <<caches, cluster, edits>> /\ cached' = cached
    BY DEF UpdateStatus, caches
  <1>2. CASE UNCHANGED crVars /\ worker' = Idle
    BY <1>1, <1>2 DEF crVars
  <1>3. CASE /\ Accepts(u) /\ Save([cr EXCEPT !.status = status])
             /\ worker' = Idle \/ worker' = At(pc, cr', phase)
    <2>1. Rewrites(status) /\ Stores
      BY <1>1, <1>3, SaveStatus DEF Accepts, Stores
    <2> QED BY <1>1, <1>3, <2>1, AcceptedSame
  <1> QED BY <1>2, <1>3 DEF UpdateStatus

\* The same for what a step does to the server and to the informer.
LEMMA UpdateStatusMoves ==
  ASSUME TypeOK, InOrder, NEW u \in Copies, NEW status \in Statuses, NEW pc,
         NEW phase, UpdateStatus(u, status, pc, phase),
         SameVersion(u, cr) => StatusMove(cr.status, status),
         status.backupReady => u.status.backupReady
  PROVE  ServerMove /\ InformerMove
  <1>1. UNCHANGED <<caches, cluster>> /\ UNCHANGED <<jobs, backup, deployed, succeeded>>
    BY UpdateStatusCases DEF InOrder, cluster
  <1>2. CASE UNCHANGED <<cr, watch>> /\ worker' = Idle
    BY <1>1, <1>2 DEF ServerMove, InformerMove, caches
  <1>3. CASE SameVersion(u, cr) /\ Rewrites(status) /\ Stores
    <2>1. cr.deleting => cr.finalizer
      BY <1>3, CopiesInHand DEF InOrder, CopiesInOrder, WellFormed, Rewrites
    <2>2. ReadyFromCopy(cr'.status)
      BY <1>3 DEF Rewrites, SameVersion, ReadyFromCopy
    <2>3. ChangedMove
      BY <1>3, <2>1, <2>2 DEF Rewrites, ChangedMove
    <2> QED BY <1>1, <1>3, <2>3 DEF ServerMove, InformerMove
  <1> QED BY <1>2, <1>3, UpdateStatusCases DEF InOrder

----------------------------------------------------------------------------
(***************************************************************************)
(* The handlers.                                                           *)
(***************************************************************************)

Moves ==
  /\ ServerMove /\ InformerMove /\ WorkerMove /\ BackupMove
  /\ \A p \in JobPhases : JobMove(p)

LEMMA SameVersionSelf ==
  ASSUME NEW u
  PROVE  SameVersion(u, u)
  BY DEF SameVersion

\* A handler that dispatched holds an active copy, as does one between writes.
LEMMA DispatchesActive ==
  ASSUME NEW phase, Dispatches(phase)
  PROVE  Active(Loaded) /\ Loaded.status.phase = phase
  BY DEF Dispatches, Active

\* A write that ends a handler.
LEMMA EndMoves ==
  ASSUME TypeOK, InOrder, NEW u \in Copies, NEW status \in Statuses,
         UpdateStatus(u, status, "idle", ""),
         SameVersion(u, cr) => StatusMove(cr.status, status),
         status.backupReady => u.status.backupReady
  PROVE  Moves
  <1>1. ServerMove /\ InformerMove
    BY UpdateStatusMoves
  <1>2. UNCHANGED <<jobs, backup, backupCache>> /\ worker' = Idle
    BY UpdateStatusCases DEF InOrder, cluster, caches, At
  <1> QED BY <1>1, <1>2 DEF Moves, WorkerMove, JobMove, BackupMove

\* A write after which the handler goes on.
LEMMA SaveMoves ==
  ASSUME TypeOK, InOrder, NEW u \in Copies, NEW status \in Statuses,
         NEW pc \in {"start", "enter"}, NEW phase, UpdateStatus(u, status, pc, phase),
         SameVersion(u, cr) => StatusMove(cr.status, status),
         status.backupReady => u.status.backupReady,
         Accepts(u) /\ Rewrites(status) /\ worker' = At(pc, cr', phase) => SavedMove
  PROVE  Moves
  <1>1. ServerMove /\ InformerMove
    BY UpdateStatusMoves
  <1>2. UNCHANGED <<jobs, backup, backupCache>>
    BY UpdateStatusCases DEF InOrder, cluster, caches
  <1>3. worker' = Idle \/ SavedMove
    BY UpdateStatusCases DEF InOrder
  <1> QED BY <1>1, <1>2, <1>3 DEF Moves, WorkerMove, JobMove, BackupMove

\* A handler gives up, holding v, with nothing else changed.
LEMMA GiveUpMoves ==
  ASSUME NEW u \in {Loaded, worker.upgrade}, Active(u), NEW v, SameVersion(v, u),
         u.status.backupReady => v.status.backupReady,
         v.status.backupReady => u.status.backupReady,
         worker' = At("fail", v, ""), UNCHANGED <<cr, watch, cached, jobs>>, BackupMove
  PROVE  Moves
  <1>1. worker'.pc = "fail" /\ worker'.upgrade = v
    BY DEF At
  <1>2. FailMove
    BY <1>1 DEF FailMove, GoesOn
  <1> QED BY <1>2 DEF Moves, ServerMove, InformerMove, WorkerMove, JobMove

\* A start function creates its Job.
LEMMA StartJobMoves ==
  ASSUME TypeOK, NEW p \in JobPhases, NEW job,
         NEW u \in {Loaded, worker.upgrade}, Active(u), MayStart(u, p),
         NEW v, SameVersion(v, u), u.status.backupReady = v.status.backupReady,
         StartJob(p, job, v), job.state = "running", job.owner = u.uid,
         SetsImage(p) => ~Early(u.status.phase),
         p = "RollingBack" => /\ job.version = u.status.previousVersion
                              /\ job.last = u.status.lastSuccessfulPhase
  PROVE  Moves
  <1>1. UNCHANGED <<cr, watch, cached, jobCache, deployed, succeeded, backup, backupCache>>
    BY DEF StartJob, crVars, caches
  <1>2. jobs' = jobs \/ (jobs[p].state = "absent" /\ jobs' = [jobs EXCEPT ![p] = job])
    BY DEF StartJob, CreateJob
  <1>3. ASSUME NEW q \in JobPhases PROVE JobMove(q)
    <2>1. CASE jobs'[q] = jobs[q]
      BY <2>1 DEF JobMove
    <2>2. CASE q = p /\ jobs[p].state = "absent" /\ jobs'[p] = job
      BY <1>1, <2>2 DEF JobMove, Begins
    <2> QED BY <1>2, <2>1, <2>2 DEF TypeOK
  <1>4. WorkerMove
    <2>1. CASE worker' = At("enter", v, p)
      <3>1. worker'.pc = "enter" /\ worker'.upgrade = v /\ worker'.phase = p
        BY <2>1 DEF At
      <3> QED BY <1>1, <3>1 DEF WorkerMove, EnterMove, GoesOn
    <2>2. CASE worker' = At("fail", v, "")
      <3>1. worker'.pc = "fail" /\ worker'.upgrade = v
        BY <2>2 DEF At
      <3> QED BY <1>1, <3>1 DEF WorkerMove, FailMove, GoesOn
    <2>3. CASE worker' = Idle
      BY <2>3 DEF WorkerMove
    <2>4. At("idle", v, "") = Idle
      BY DEF At
    <2> QED BY <2>1, <2>2, <2>3, <2>4 DEF StartJob
  <1> QED BY <1>1, <1>3, <1>4 DEF Moves, ServerMove, InformerMove, BackupMove

LEMMA InStageSame ==
  ASSUME NEW u \in Upgrades, NEW p
  PROVE  /\ SameVersion(InStage(u, p), u)
         /\ InStage(u, p).status.backupReady = u.status.backupReady
  <1> DEFINE v == InStage(u, p)
  <1>1. /\ v.uid = u.uid /\ v.rv = u.rv /\ v.exists = u.exists
        /\ v.deleting = u.deleting /\ v.finalizer = u.finalizer /\ v.spec = u.spec
        /\ v.status.phase = u.status.phase
        /\ v.status.previousVersion = u.status.previousVersion
        /\ v.status.lastSuccessfulPhase = u.status.lastSuccessfulPhase
        /\ v.status.rolledBack = u.status.rolledBack
        /\ v.status.backupReady = u.status.backupReady
    BY DEF InStage, Upgrades, Statuses
  <1> HIDE DEF v
  <1>2. SameVersion(v, u)
    BY <1>1 DEF SameVersion
  <1> QED BY <1>1, <1>2 DEF v

\* What the five Jobs carry of the object they are built from.
LEMMA JobFields ==
  ASSUME NEW u
  PROVE  /\ \A job \in {buildFreezeOperationsJob(u), buildCRDUpgradeJob(u),
                        buildControllerManagerUpgradeJob(u),
                        buildNetworkFabricUpgradeJob(u), buildRollbackJob(u)} :
              job.state = "running" /\ job.owner = u.uid
         /\ buildRollbackJob(u).version = u.status.previousVersion
         /\ buildRollbackJob(u).last = u.status.lastSuccessfulPhase
  BY DEF buildFreezeOperationsJob, buildCRDUpgradeJob,
         buildControllerManagerUpgradeJob, buildNetworkFabricUpgradeJob,
         buildRollbackJob, RunningJob

LEMMA StartRollbackMoves ==
  ASSUME TypeOK, NEW phase \in Changing, Dispatches(phase), startRollback(Loaded),
         phase = "Verifying" \/ jobCache[phase].state = "failed"
  PROVE  Moves
  <1>1. Active(Loaded) /\ Loaded.status.phase = phase /\ ~Early(phase)
    BY DispatchesActive DEF Early, Changing, Stages
  <1>2. MayStart(Loaded, "RollingBack")
    BY <1>1 DEF MayStart, Changing
  <1>3. CASE StartJob("RollingBack", buildRollbackJob(Loaded), Loaded)
    <2>1. "RollingBack" \in JobPhases
      BY DEF JobPhases
    <2> QED BY <1>1, <1>2, <1>3, <2>1, SameVersionSelf, JobFields, StartJobMoves
  <1>4. CASE /\ worker' = At("fail", Loaded, "")
             /\ UNCHANGED <<crVars, caches, cluster, faults, edits>>
    BY <1>1, <1>4, SameVersionSelf, GiveUpMoves DEF crVars, caches, cluster, BackupMove
  <1> QED BY <1>3, <1>4 DEF startRollback

\* The success of a stage is saved before the next one starts.
LEMMA SaveLastSuccessfulMoves ==
  ASSUME TypeOK, InOrder, NEW p \in Stages, Observes(p, "succeeded"),
         NEW pc \in {"start", "enter"}, NEW phase \in Changing,
         SaveLastSuccessful(p, pc, phase),
         \A status : status.phase = p /\ status.lastSuccessfulPhase = p =>
           MayEnter(status, phase)
  PROVE  Moves
  <1> DEFINE new == [Loaded.status EXCEPT !.lastSuccessfulPhase = p]
  <1>1. new \in Statuses
    BY InHandType, StatusUpdateType DEF Phases, JobPhases
  <1>2. UpdateStatus(Loaded, new, pc, phase)
    BY DEF SaveLastSuccessful
  <1>3. /\ new.phase = Loaded.status.phase /\ new.lastSuccessfulPhase = p
        /\ new.previousVersion = Loaded.status.previousVersion
        /\ new.rolledBack = Loaded.status.rolledBack
        /\ new.backupReady = Loaded.status.backupReady
    BY InHandType DEF Statuses
  <1> HIDE DEF new
  <1>4. Active(Loaded) /\ Loaded.status.phase = p /\ jobCache[p].state = "succeeded"
    BY DispatchesActive DEF Observes
  <1>5. new.backupReady
    BY <1>3, <1>4, CopiesInHand DEF InOrder, CopiesInOrder, WellFormed, Changing
  <1>6. SameVersion(Loaded, cr) => SavingMove(cr.status, new)
    BY <1>3, <1>4, <1>5 DEF SameVersion, SavingMove
  <1>7. ASSUME Accepts(Loaded), Rewrites(new), worker' = At(pc, cr', phase)
        PROVE  SavedMove
    <2>1. worker'.pc = pc /\ worker'.upgrade = cr' /\ worker'.phase = phase
      BY <1>7 DEF At
    <2>2. SameVersion(Loaded, cr)
      BY <1>7, CopiesInHand, AcceptedSame DEF InOrder
    <2>3. SavingMove(cr.status, cr'.status) /\ MayEnter(cr'.status, phase)
      BY <1>3, <1>4, <1>6, <1>7, <2>2 DEF Rewrites
    <2>4. Active(cr')
      BY <1>4, <1>7, <2>2 DEF Rewrites, SameVersion, Active, Live
    <2>5. ReadyFromCopy(cr'.status)
      BY <1>3, <1>4, <1>7, CopiesInHand DEF Rewrites, ReadyFromCopy, Active, Live
    <2>6. ChangedMove
      BY <1>7, <2>3, <2>4, <2>5 DEF Rewrites, ChangedMove, StatusMove, Active, Live
    <2> QED BY <1>7, <2>1, <2>3, <2>4, <2>6 DEF SavedMove
  <1> QED BY <1>1, <1>2, <1>3, <1>6, <1>7, CopiesInHand, SaveMoves DEF StatusMove

\* A start function that the worker calls with what it has just saved.
LEMMA StartStageMoves ==
  ASSUME TypeOK, InOrder, Coherent, NEW p \in Stages, NEW job, Starting(p),
         StartJob(p, job, InStage(worker.upgrade, p)),
         job.state = "running", job.owner = worker.upgrade.uid
  PROVE  Moves
  <1>1. Active(worker.upgrade) /\ MayStart(worker.upgrade, p)
    BY DEF InOrder, WorkerInOrder, Starting, MayStart
  <1>2. MayEnter(worker.upgrade.status, p)
    BY DEF Starting, Coherent, WorkerCoherent
  <1>3. SetsImage(p) => ~Early(worker.upgrade.status.phase)
    BY <1>2 DEF Early, MayEnter, SetsImage, Stages, Changing
  <1>4. p \in JobPhases /\ p # "RollingBack"
    BY DEF JobPhases, Stages
  <1> QED BY <1>1, <1>3, <1>4, InHandType, InStageSame, StartJobMoves

LEMMA WorkerStepMoves ==
  ASSUME Inv, InOrder, WorkerStep
  PROVE  Moves
  <1> USE InHandType, CopiesInHand DEF Inv
  <1>1. CASE AddFinalizer
    <2> DEFINE v == [cr EXCEPT !.finalizer = TRUE]
    <2>1. /\ Accepts(cached) /\ Live(cached) /\ Save(v)
          /\ UNCHANGED <<caches, cluster>>
          /\ worker' = At("dispatch", cr', "") \/ worker' = worker
      BY <1>1 DEF AddFinalizer
    <2>2. v \in Upgrades
      BY UpgradeUpdateType DEF TypeOK
    <2>3. /\ v.exists = cr.exists /\ v.uid = cr.uid /\ v.rv = cr.rv
          /\ v.deleting = cr.deleting /\ v.finalizer = TRUE /\ v.status = cr.status
      BY DEF TypeOK, Upgrades
    <2> HIDE DEF v
    <2>4. /\ cr'.exists = cr.exists /\ cr'.uid = cr.uid /\ cr'.rv = cr.rv + 1
          /\ cr'.deleting = cr.deleting /\ cr'.finalizer = TRUE
          /\ cr'.status = cr.status /\ watch' = Append(watch, cr')
      BY <2>1, <2>2, <2>3, SaveFields
    <2>5. Live(cr)
      BY <2>1, AcceptedSame DEF InOrder, SameVersion, Live
    <2>6. ChangedMove /\ Stores /\ Active(cr')
      BY <2>1, <2>4, <2>5
      DEF ChangedMove, StatusMove, ReadyFromCopy, Stores, Active, Live, caches
    <2>7. worker' = worker \/ SavedMove
      <3>1. /\ At("dispatch", cr', "").pc = "dispatch"
            /\ At("dispatch", cr', "").upgrade = cr'
        BY DEF At
      <3> QED BY <2>1, <2>6, <3>1 DEF SavedMove
    <2> QED BY <2>1, <2>6, <2>7
            DEF Moves, ServerMove, InformerMove, WorkerMove, JobMove, BackupMove,
                cluster, caches
  <1>2. CASE handleDeletion
    <2>1. /\ cached.exists /\ cached.deleting
          /\ worker' = At("finalize", cached, "")
          /\ UNCHANGED <<crVars, caches, backup, deployed, succeeded>>
          /\ \A p \in JobPhases : jobs'[p] = jobs[p] \/ jobs'[p] = NoJob
      BY <1>2 DEF handleDeletion
    <2>2. FinalizeMove
      BY <2>1 DEF FinalizeMove, At, crVars, caches
    <2>3. ASSUME NEW p \in JobPhases PROVE JobMove(p)
      <3>1. CASE jobs[p].state # "absent" /\ jobs'[p] = NoJob
        BY <2>1, <2>2, <3>1 DEF JobMove, Goes, crVars, caches
      <3> QED BY <2>1, <3>1 DEF JobMove
    <2> QED BY <2>1, <2>2, <2>3
            DEF Moves, ServerMove, InformerMove, WorkerMove, BackupMove, crVars, caches
  <1>3. CASE RemoveFinalizer
    <2>1. worker' = Idle /\ UNCHANGED <<caches, cluster>> /\ worker.pc = "finalize"
      BY <1>3 DEF RemoveFinalizer
    <2>2. CASE UNCHANGED crVars
      BY <2>1, <2>2
      DEF crVars, caches, cluster, Moves, ServerMove, InformerMove, WorkerMove,
          JobMove, BackupMove
    <2>3. CASE Accepts(worker.upgrade) /\ Save(Gone(cr.uid, cr.rv))
      <3> DEFINE v == Gone(cr.uid, cr.rv)
      <3>1. v \in Upgrades
        BY GoneType DEF TypeOK, Upgrades
      <3>2. v.uid = cr.uid /\ v.rv = cr.rv /\ v.exists = FALSE /\ v.status = InitialStatus
        BY DEF Gone
      <3> HIDE DEF v
      <3>3. Save(v)
        BY <2>3 DEF v
      <3>4. RemovedMove /\ Stores
        BY <2>1, <2>3, <3>1, <3>2, <3>3, SaveFields DEF RemovedMove, Accepts, Stores, caches
      <3> QED BY <2>1, <3>4
              DEF caches, cluster, Moves, ServerMove, InformerMove, WorkerMove,
                  JobMove, BackupMove
    <2> QED BY <1>3, <2>2, <2>3 DEF RemoveFinalizer, crVars
  <1>4. CASE fail
    <2> DEFINE u == worker.upgrade
    <2> DEFINE new == [u.status EXCEPT !.phase = "Failed"]
    <2>1. new \in Statuses
      BY StatusUpdateType DEF Phases, Terminal
    <2>2. /\ new.phase = "Failed"
          /\ new.previousVersion = u.status.previousVersion
          /\ new.lastSuccessfulPhase = u.status.lastSuccessfulPhase
          /\ new.rolledBack = u.status.rolledBack
          /\ new.backupReady = u.status.backupReady
      BY DEF Statuses
    <2>3. UpdateStatus(u, new, "idle", "")
      BY <1>4 DEF fail
    <2> HIDE DEF new
    <2>4. u.status.phase \in Changing \cup {"Validating"}
      BY <1>4 DEF fail, Coherent, WorkerCoherent
    <2>5. SameVersion(u, cr) => FailingMove(cr.status, new)
      BY <2>2, <2>4 DEF SameVersion, FailingMove, Changing, Stages, Terminal
    <2> QED BY <2>1, <2>2, <2>3, <2>5, EndMoves DEF StatusMove
  <1>5. CASE startValidation
    <2> DEFINE new == [Loaded.status EXCEPT !.phase = "Validating", !.stage = 0]
    <2>1. new \in Statuses
      <3>1. "Validating" \in Phases
        BY DEF Phases
      <3>2. 0 \in 0..3
        OBVIOUS
      <3> QED BY <3>1, <3>2, StatusUpdateType
    <2>2. /\ new.phase = "Validating"
          /\ new.previousVersion = Loaded.status.previousVersion
          /\ new.lastSuccessfulPhase = Loaded.status.lastSuccessfulPhase
          /\ new.rolledBack = Loaded.status.rolledBack
          /\ new.backupReady = Loaded.status.backupReady
      BY DEF Statuses
    <2>3. UpdateStatus(Loaded, new, "idle", "") /\ Loaded.status.phase = ""
      BY <1>5 DEF startValidation, Dispatches
    <2> HIDE DEF new
    <2>4. SameVersion(Loaded, cr) => ValidatingMove(cr.status, new)
      BY <2>2, <2>3 DEF Early, SameVersion, ValidatingMove
    <2> QED BY <2>1, <2>2, <2>3, <2>4, EndMoves DEF StatusMove
  <1>6. CASE ChecksRefuse
    <2>1. Active(Loaded)
      BY <1>6, DispatchesActive DEF ChecksRefuse
    <2> QED BY <1>6, <2>1, SameVersionSelf, GiveUpMoves
            DEF ChecksRefuse, crVars, caches, cluster, BackupMove
  <1>7. CASE performValidation
    <2>1. Active(Loaded) /\ Loaded.status.phase = "Validating"
      BY <1>7, DispatchesActive DEF performValidation
    <2>2. UNCHANGED <<cr, watch, cached, jobs>>
      BY <1>7 DEF performValidation, crVars
    <2>3. /\ BackupMove
          /\ worker' = At("fail", Loaded, "") \/ (worker' = BackedUp(Loaded) /\ backup'.exists)
      <3> DEFINE written == IF backupCache.exists
                            THEN backup ELSE [exists |-> TRUE, owner |-> Loaded.uid]
      <3>1. CASE UNCHANGED <<backup, backupCache>> /\ worker' = At("fail", Loaded, "")
        BY <3>1 DEF BackupMove
      <3>2. CASE /\ IF backupCache.exists THEN backupCache.fresh ELSE ~backup.exists
                 /\ WriteBackup(written)
                 /\ worker' = At("fail", Loaded, "") \/ worker' = BackedUp(Loaded)
        <4>1. backup' = written /\ backup'.exists
          BY <3>2 DEF WriteBackup, InOrder, BackupInOrder
        <4>2. ~backupCache'.fresh
          BY <3>2 DEF WriteBackup, TypeOK
        <4> QED BY <2>1, <2>2, <3>2, <4>1, <4>2 DEF BackupMove
      <3> QED BY <1>7, <3>1, <3>2 DEF performValidation, backupEnvironmentConfig
    <2>4. CASE worker' = At("fail", Loaded, "")
      BY <2>1, <2>2, <2>3, <2>4, SameVersionSelf, GiveUpMoves
    <2>5. CASE worker' = BackedUp(Loaded) /\ backup'.exists
      <3> DEFINE v == [Loaded EXCEPT !.status.backupReady = TRUE]
      <3>1. /\ worker'.pc = "backedUp" /\ worker'.upgrade = v
            /\ worker'.version = detectDeployedVersion
        BY <2>5 DEF BackedUp
      <3>2. /\ v.uid = Loaded.uid /\ v.rv = Loaded.rv /\ v.exists = Loaded.exists
            /\ v.deleting = Loaded.deleting /\ v.finalizer = Loaded.finalizer
            /\ v.spec = Loaded.spec
            /\ v.status.phase = Loaded.status.phase
            /\ v.status.previousVersion = Loaded.status.previousVersion
            /\ v.status.lastSuccessfulPhase = Loaded.status.lastSuccessfulPhase
            /\ v.status.rolledBack = Loaded.status.rolledBack
            /\ v.status.backupReady = TRUE
        BY DEF Upgrades, Statuses
      <3> HIDE DEF v
      <3>3. BackedUpMove
        BY <2>1, <2>2, <2>5, <3>1, <3>2 DEF BackedUpMove, GoesOn, SameVersion
      <3> QED BY <2>2, <2>3, <3>3 DEF Moves, ServerMove, InformerMove, WorkerMove, JobMove
    <2> QED BY <2>3, <2>4, <2>5
  <1>8. CASE HealthRefuses
    <2>1. Active(worker.upgrade)
      BY <1>8 DEF HealthRefuses, InOrder, WorkerInOrder
    <2> QED BY <1>8, <2>1, SameVersionSelf, GiveUpMoves
            DEF HealthRefuses, crVars, caches, cluster, BackupMove
  <1>9. CASE FinishValidation
    <2> DEFINE u == worker.upgrade
    <2> DEFINE cs == {"Compatible"}
    <2> DEFINE new == [u.status EXCEPT !.previousVersion = worker.version,
                                       !.conditions = cs]
    <2>1. cs \in SUBSET Conditions
      BY DEF Conditions
    <2>2. UpdateStatus(u, new, "start", "FreezingOperations") /\ worker.pc = "backedUp"
      BY <1>9 DEF FinishValidation
    <2> HIDE DEF cs
    <2>3. new \in Statuses
      BY <2>1, StatusUpdateType
    <2>4. /\ new.phase = u.status.phase /\ new.previousVersion = worker.version
          /\ new.lastSuccessfulPhase = u.status.lastSuccessfulPhase
          /\ new.rolledBack = u.status.rolledBack
          /\ new.backupReady = u.status.backupReady
      BY DEF Statuses
    <2> HIDE DEF new
    <2>5. /\ Active(u) /\ u.status.backupReady /\ u.status.phase = "Validating"
      BY <2>2 DEF InOrder, WorkerInOrder, Coherent, WorkerCoherent
    <2>6. SameVersion(u, cr) => ValidatingMove(cr.status, new)
      BY <2>2, <2>4, <2>5 DEF Early, SameVersion, ValidatingMove
    <2>7. ASSUME Accepts(u), Rewrites(new), worker' = At("start", cr', "FreezingOperations")
          PROVE  SavedMove
      <3>1. /\ worker'.pc = "start" /\ worker'.upgrade = cr'
            /\ worker'.phase = "FreezingOperations"
        BY <2>7 DEF At
      <3>2. SameVersion(u, cr)
        BY <2>7, AcceptedSame DEF InOrder
      <3>3. Active(cr') /\ cr'.status.backupReady
        BY <2>4, <2>5, <2>7, <3>2 DEF Rewrites, SameVersion, Active, Live
      <3>4. ReadyFromCopy(cr'.status)
        BY <2>5 DEF ReadyFromCopy, Active, Live
      <3>5. ChangedMove
        BY <2>6, <2>7, <3>2, <3>3, <3>4 DEF Rewrites, ChangedMove, StatusMove, Active, Live
      <3> QED BY <2>2, <2>7, <3>1, <3>3, <3>5 DEF SavedMove
    <2> QED BY <2>2, <2>3, <2>4, <2>6, <2>7, SaveMoves DEF StatusMove
  <1>10. CASE startFreezeOperations
    BY <1>10, JobFields, StartStageMoves DEF startFreezeOperations, Stages
  <1>11. CASE startControllerManagerUpgrade
    BY <1>11, JobFields, StartStageMoves DEF startControllerManagerUpgrade, Stages
  <1>12. CASE startNetworkFabricUpgrade
    BY <1>12, JobFields, StartStageMoves DEF startNetworkFabricUpgrade, Stages
  <1>13. CASE EnterPhase
    <2> DEFINE u == worker.upgrade
    <2> DEFINE cs == IF worker.phase = "RollingBack" THEN {"RollbackRequired"} ELSE {}
    <2> DEFINE new == [u.status EXCEPT !.phase = worker.phase, !.conditions = @ \cup cs]
    <2>1. cs \in SUBSET Conditions
      BY DEF Conditions
    <2>2. UpdateStatus(u, new, "idle", "") /\ worker.pc = "enter"
      BY <1>13 DEF EnterPhase
    <2> HIDE DEF cs
    <2>3. new \in Statuses
      BY <2>1, StatusUpdateType
    <2>4. /\ new.phase = worker.phase
          /\ new.previousVersion = u.status.previousVersion
          /\ new.lastSuccessfulPhase = u.status.lastSuccessfulPhase
          /\ new.rolledBack = u.status.rolledBack
          /\ new.backupReady = u.status.backupReady
      BY DEF Statuses
    <2> HIDE DEF new
    <2>5. u.status.backupReady /\ MayEnter(u.status, worker.phase)
      BY <2>2 DEF InOrder, WorkerInOrder, Coherent, WorkerCoherent
    <2>6. SameVersion(u, cr) => EnteringMove(cr.status, new)
      BY <2>2, <2>4, <2>5 DEF SameVersion, EnteringMove, Keeps, MayEnter
    <2> QED BY <2>2, <2>3, <2>4, <2>6, EndMoves DEF StatusMove
  <1>14. CASE monitorFreezeOperations
    <2>1. CASE /\ Observes("FreezingOperations", "succeeded")
               /\ startCRDUpgrade(Loaded)
      <3> DEFINE p == "UpgradingCRDs"
      <3>1. Active(Loaded) /\ MayStart(Loaded, p)
        BY <2>1, DispatchesActive DEF Observes, MayStart
      <3>2. p \in JobPhases /\ ~SetsImage(p) /\ p # "RollingBack"
        BY DEF JobPhases, Stages, SetsImage
      <3>3. StartJob(p, buildCRDUpgradeJob(Loaded), InStage(Loaded, p))
        BY <2>1 DEF startCRDUpgrade
      <3> HIDE DEF p
      <3> QED BY <3>1, <3>2, <3>3, InStageSame, JobFields, StartJobMoves
    <2>2. CASE /\ Observes("FreezingOperations", "failed")
               /\ startRollback(Loaded)
      BY <2>2, StartRollbackMoves DEF Observes, Changing, Stages
    <2> QED BY <1>14, <2>1, <2>2 DEF monitorFreezeOperations
  <1>15. CASE monitorCRDUpgrade
    <2>1. \A status :
            status.phase = "UpgradingCRDs"
              /\ status.lastSuccessfulPhase = "UpgradingCRDs" =>
                MayEnter(status, "UpgradingControllerManager")
      BY DEF MayEnter
    <2> QED BY <1>15, <2>1, SaveLastSuccessfulMoves, StartRollbackMoves
            DEF monitorCRDUpgrade, Observes, Changing, Stages
  <1>16. CASE monitorControllerManagerUpgrade
    <2>1. \A status :
            status.phase = "UpgradingControllerManager"
              /\ status.lastSuccessfulPhase = "UpgradingControllerManager" =>
                MayEnter(status, "UpgradingNetworkFabric")
      BY DEF MayEnter
    <2> QED BY <1>16, <2>1, SaveLastSuccessfulMoves, StartRollbackMoves
            DEF monitorControllerManagerUpgrade, Observes, Changing, Stages
  <1>17. CASE monitorNetworkFabricUpgrade
    <2>1. \A status :
            status.phase = "UpgradingNetworkFabric"
              /\ status.lastSuccessfulPhase = "UpgradingNetworkFabric" =>
                MayEnter(status, "Verifying")
      BY DEF MayEnter
    <2> QED BY <1>17, <2>1, SaveLastSuccessfulMoves, StartRollbackMoves
            DEF monitorNetworkFabricUpgrade, Observes, Changing, Stages
  <1>18. CASE performVerification
    <2> DEFINE cs == {"Healthy"}
    <2> DEFINE new == [Loaded.status EXCEPT !.phase = "Completed",
                                            !.conditions = @ \cup cs]
    <2>1. Dispatches("Verifying") /\ "Verifying" \in Changing
      BY <1>18 DEF performVerification, Changing
    <2>2. CASE startRollback(Loaded)
      BY <2>1, <2>2, StartRollbackMoves
    <2>3. CASE /\ detectDeployedVersion = Loaded.spec.target
               /\ UpdateStatus(Loaded, new, "idle", "")
      <3>1. cs \in SUBSET Conditions
        BY DEF Conditions
      <3> HIDE DEF cs
      <3>2. new \in Statuses
        BY <3>1, StatusUpdateType DEF Phases, Terminal
      <3>3. /\ new.phase = "Completed"
            /\ new.previousVersion = Loaded.status.previousVersion
            /\ new.lastSuccessfulPhase = Loaded.status.lastSuccessfulPhase
            /\ new.rolledBack = Loaded.status.rolledBack
            /\ new.backupReady = Loaded.status.backupReady
        BY DEF Statuses
      <3> HIDE DEF new
      <3>4. Loaded.status.phase = "Verifying" /\ Loaded.status.backupReady
        BY <2>1, DispatchesActive DEF InOrder, CopiesInOrder, WellFormed
      <3>5. SameVersion(Loaded, cr) => CompletingMove(cr.status, new)
        BY <2>3, <3>3, <3>4 DEF SameVersion, CompletingMove, Keeps
      <3> QED BY <2>3, <3>2, <3>3, <3>5, EndMoves DEF StatusMove
    <2> QED BY <1>18, <2>2, <2>3 DEF performVerification
  <1>19. CASE monitorRollback
    <2>1. PICK outcome \in {"succeeded", "failed"} :
            /\ Observes("RollingBack", outcome)
            /\ UpdateStatus(Loaded,
                            [Loaded.status EXCEPT !.phase = "Failed",
                                                  !.rolledBack = (outcome = "succeeded")],
                            "idle", "")
      BY <1>19 DEF monitorRollback
    <2> DEFINE b == outcome = "succeeded"
    <2> DEFINE new == [Loaded.status EXCEPT !.phase = "Failed", !.rolledBack = b]
    <2>2. b \in BOOLEAN
      OBVIOUS
    <2>3. UpdateStatus(Loaded, new, "idle", "")
      BY <2>1
    <2>4. b => jobCache["RollingBack"].state = "succeeded"
      BY <2>1 DEF Observes
    <2> HIDE DEF b
    <2>5. new \in Statuses
      BY <2>2, StatusUpdateType
    <2>6. /\ new.phase = "Failed" /\ new.rolledBack = b
          /\ new.previousVersion = Loaded.status.previousVersion
          /\ new.lastSuccessfulPhase = Loaded.status.lastSuccessfulPhase
          /\ new.backupReady = Loaded.status.backupReady
      BY DEF Statuses
    <2> HIDE DEF new
    <2>7. Loaded.status.phase = "RollingBack"
      BY <2>1 DEF Observes, Dispatches
    <2>8. SameVersion(Loaded, cr) => FailingMove(cr.status, new)
      BY <2>4, <2>6, <2>7 DEF SameVersion, FailingMove, Terminal
    <2> QED BY <2>3, <2>5, <2>6, <2>8, EndMoves DEF StatusMove
  <1> QED BY <1>1, <1>2, <1>3, <1>4, <1>5, <1>6, <1>7, <1>8, <1>9, <1>10, <1>11,
             <1>12, <1>13, <1>14, <1>15, <1>16, <1>17, <1>18, <1>19 DEF WorkerStep

\* The worker itself changes nothing of what Jobs have done.
LEMMA WorkerStepCluster ==
  ASSUME WorkerStep
  PROVE  ClusterMove
  <1>1. UNCHANGED <<jobCache, deployedCache, deployed, succeeded>>
    <2>1. ASSUME NEW u, NEW status, NEW pc, NEW phase, UpdateStatus(u, status, pc, phase)
          PROVE  UNCHANGED <<jobCache, deployedCache, deployed, succeeded>>
      BY <2>1 DEF UpdateStatus, caches, cluster
    <2>2. ASSUME NEW p, NEW job, NEW u, StartJob(p, job, u)
          PROVE  UNCHANGED <<jobCache, deployedCache, deployed, succeeded>>
      BY <2>2 DEF StartJob, caches
    <2>3. ASSUME NEW u, startRollback(u)
          PROVE  UNCHANGED <<jobCache, deployedCache, deployed, succeeded>>
      BY <2>2, <2>3 DEF startRollback, caches, cluster
    <2>4. CASE AddFinalizer \/ handleDeletion \/ RemoveFinalizer \/ ChecksRefuse
                 \/ performValidation \/ HealthRefuses
      BY <2>4 DEF AddFinalizer, handleDeletion, RemoveFinalizer, ChecksRefuse,
                  performValidation, HealthRefuses, caches, cluster
    <2>5. CASE fail \/ startValidation \/ FinishValidation \/ EnterPhase
      BY <2>1, <2>5 DEF fail, startValidation, FinishValidation, EnterPhase
    <2>6. CASE startFreezeOperations \/ startControllerManagerUpgrade
                 \/ startNetworkFabricUpgrade
      BY <2>2, <2>6 DEF startFreezeOperations, startControllerManagerUpgrade,
                        startNetworkFabricUpgrade
    <2>7. CASE monitorFreezeOperations \/ monitorCRDUpgrade
                 \/ monitorControllerManagerUpgrade \/ monitorNetworkFabricUpgrade
      BY <2>1, <2>2, <2>3, <2>7
      DEF monitorFreezeOperations, monitorCRDUpgrade, monitorControllerManagerUpgrade,
          monitorNetworkFabricUpgrade, startCRDUpgrade, SaveLastSuccessful
    <2>8. CASE performVerification \/ monitorRollback
      BY <2>1, <2>3, <2>8 DEF performVerification, monitorRollback
    <2> QED BY <2>4, <2>5, <2>6, <2>7, <2>8 DEF WorkerStep
  <1> QED BY <1>1 DEF ClusterMove, SucceededMove, DeployedMove, CachesMove

\* A step that only touches the Jobs, the backup or what caches show of them.
LEMMA QuietMoves ==
  ASSUME UNCHANGED <<cr, watch, cached, worker>>, BackupMove,
         \A p \in JobPhases : JobMove(p)
  PROVE  Moves
  BY DEF Moves, ServerMove, InformerMove, WorkerMove

\* A user's write, or a lost one of the worker, that leaves the status alone.
LEMMA StoreMoves ==
  ASSUME CreatedMove \/ ((RemovedMove \/ ChangedMove) /\ UNCHANGED succeeded),
         watch' = Append(watch, cr'), UNCHANGED <<caches, worker, jobs, backup, deployed>>
  PROVE  Moves /\ ClusterMove
  <1>1. Stores
    BY DEF Stores, caches
  <1>2. BackupMove
    BY DEF BackupMove, caches
  <1>3. ClusterMove
    BY DEF ClusterMove, SucceededMove, DeployedMove, CachesMove, caches, CreatedMove
  <1> QED BY <1>1, <1>2, <1>3 DEF Moves, ServerMove, InformerMove, WorkerMove, JobMove

LEMMA EnvironmentStepMoves ==
  ASSUME Inv, InOrder, EnvironmentStep
  PROVE  Moves /\ ClusterMove
  <1> USE DEF Inv
  <1>1. CASE CreateUpgrade
    <2>1. PICK spec \in SpecChoices :
            Store([Gone(cr.uid + 1, 1) EXCEPT !.exists = TRUE, !.spec = spec])
      BY <1>1 DEF CreateUpgrade
    <2> DEFINE gone == Gone(cr.uid + 1, 1)
    <2>2. cr.uid + 1 \in Nat /\ 1 \in Nat
      BY DEF TypeOK, Upgrades
    <2>3. gone \in Upgrades
      BY <2>2, GoneType
    <2>4. /\ gone.uid = cr.uid + 1 /\ gone.deleting = FALSE /\ gone.finalizer = FALSE
          /\ gone.status = InitialStatus
      BY DEF Gone
    <2>5. cr' = [gone EXCEPT !.exists = TRUE, !.spec = spec] /\ watch' = Append(watch, cr')
      BY <2>1 DEF Store
    <2> HIDE DEF gone
    <2>6. /\ cr'.uid = gone.uid /\ cr'.exists = TRUE /\ cr'.deleting = gone.deleting
          /\ cr'.finalizer = gone.finalizer /\ cr'.status = gone.status
      BY <2>3, <2>5 DEF Upgrades
    <2>7. CreatedMove
      BY <1>1, <2>4, <2>6 DEF CreateUpgrade, CreatedMove
    <2> QED BY <1>1, <2>5, <2>7, StoreMoves DEF CreateUpgrade
  <1>2. CASE EditUpgrade
    <2>1. PICK spec \in SpecChoices : Save([cr EXCEPT !.spec = spec])
      BY <1>2 DEF EditUpgrade
    <2> DEFINE v == [cr EXCEPT !.spec = spec]
    <2>2. v \in Upgrades
      BY SpecChoicesNamed, UpgradeUpdateType DEF TypeOK
    <2>3. /\ v.uid = cr.uid /\ v.rv = cr.rv /\ v.exists = cr.exists
          /\ v.deleting = cr.deleting /\ v.finalizer = cr.finalizer
          /\ v.status = cr.status
      BY DEF TypeOK, Upgrades
    <2>4. Save(v)
      BY <2>1
    <2> HIDE DEF v
    <2>5. cr.exists /\ (cr.deleting => cr.finalizer)
      BY <1>2, CopiesInHand DEF EditUpgrade, InOrder, CopiesInOrder, WellFormed
    <2>6. ChangedMove /\ watch' = Append(watch, cr')
      BY <2>2, <2>3, <2>4, <2>5, SaveFields, CopiesInHand
      DEF ChangedMove, StatusMove, ReadyFromCopy
    <2> QED BY <1>2, <2>6, StoreMoves DEF EditUpgrade, cluster
  <1>3. CASE DeleteUpgrade
    <2>1. Live(cr) /\ UNCHANGED <<caches, worker, cluster>>
      BY <1>3 DEF DeleteUpgrade
    <2>2. CASE cr.finalizer /\ Save([cr EXCEPT !.deleting = TRUE])
      <3> DEFINE v == [cr EXCEPT !.deleting = TRUE]
      <3>1. v \in Upgrades
        BY UpgradeUpdateType DEF TypeOK
      <3>2. /\ v.uid = cr.uid /\ v.rv = cr.rv /\ v.exists = cr.exists
            /\ v.deleting = TRUE /\ v.finalizer = cr.finalizer /\ v.status = cr.status
        BY DEF TypeOK, Upgrades
      <3>3. Save(v)
        BY <2>2
      <3> HIDE DEF v
      <3>4. ChangedMove /\ watch' = Append(watch, cr')
        BY <2>1, <2>2, <3>1, <3>2, <3>3, SaveFields, CopiesInHand
        DEF ChangedMove, StatusMove, ReadyFromCopy, Live
      <3> QED BY <2>1, <3>4, StoreMoves DEF cluster
    <2>3. CASE ~cr.finalizer /\ Save(Gone(cr.uid, cr.rv))
      <3> DEFINE v == Gone(cr.uid, cr.rv)
      <3>1. v \in Upgrades
        BY GoneType DEF TypeOK, Upgrades
      <3>2. v.uid = cr.uid /\ v.rv = cr.rv /\ v.exists = FALSE /\ v.status = InitialStatus
        BY DEF Gone
      <3>3. Save(v)
        BY <2>3
      <3> HIDE DEF v
      <3>4. RemovedMove /\ watch' = Append(watch, cr')
        BY <2>1, <2>3, <3>1, <3>2, <3>3, SaveFields DEF RemovedMove, Live
      <3> QED BY <2>1, <3>4, StoreMoves DEF cluster
    <2> QED BY <1>3, <2>2, <2>3 DEF DeleteUpgrade
  <1>4. CASE DeliverCR
    <2>1. /\ watch # <<>> /\ cached' = Head(watch) /\ watch' = Tail(watch)
          /\ UNCHANGED <<cr, worker, jobs, jobCache, backup, backupCache, deployed,
                         deployedCache, succeeded>>
      BY <1>4 DEF DeliverCR, cluster
    <2> QED BY <2>1 DEF Moves, ServerMove, InformerMove, WorkerMove, JobMove, BackupMove,
                        ClusterMove, SucceededMove, DeployedMove, CachesMove
  <1>5. CASE SyncJobs \/ SyncBackup \/ SyncDeployment
    <2>1. /\ UNCHANGED <<cr, watch, cached, worker, jobs, backup, deployed, succeeded>>
          /\ backupCache' = backupCache \/ backupCache' = LatestBackup
          /\ jobCache' = jobCache \/ jobCache' = jobs
          /\ deployedCache' = deployedCache \/ deployedCache' = deployed
      BY <1>5 DEF SyncJobs, SyncBackup, SyncDeployment, crVars, cluster
    <2>2. BackupMove /\ ClusterMove /\ \A p \in JobPhases : JobMove(p)
      BY <2>1 DEF JobMove, BackupMove, ClusterMove, SucceededMove, DeployedMove, CachesMove
    <2> QED BY <2>1, <2>2, QuietMoves
  <1>6. CASE Crash
    <2>1. /\ UNCHANGED <<cr, jobs, backup, deployed, succeeded>>
          /\ worker' = Idle /\ cached' = cr /\ watch' = <<>>
          /\ jobCache' = jobs /\ backupCache' = LatestBackup /\ deployedCache' = deployed
      BY <1>6 DEF Crash, cluster
    <2> QED BY <2>1 DEF Moves, ServerMove, InformerMove, WorkerMove, JobMove, BackupMove,
                        ClusterMove, SucceededMove, DeployedMove, CachesMove
  <1>7. CASE CollectBackup
    <2>1. /\ UNCHANGED <<cr, watch, cached, worker, jobs, jobCache, deployed,
                         deployedCache, succeeded>>
          /\ ~OwnerAlive(backup.owner)
          /\ backup' = [exists |-> FALSE, owner |-> 0]
          /\ backupCache' = [backupCache EXCEPT !.fresh = FALSE]
      BY <1>7 DEF CollectBackup, WriteBackup, crVars
    <2>2. ~backupCache'.fresh
      BY <2>1 DEF TypeOK
    <2>3. BackupMove /\ ClusterMove /\ \A p \in JobPhases : JobMove(p)
      BY <2>1, <2>2
      DEF JobMove, BackupMove, ClusterMove, SucceededMove, DeployedMove, CachesMove
    <2> QED BY <2>1, <2>3, QuietMoves
  <1>8. ASSUME NEW p \in JobPhases, JobApplies(p) \/ JobSucceeds(p) \/ JobFails(p)
        PROVE  Moves /\ ClusterMove
    <2>1. /\ UNCHANGED <<cr, watch, cached, worker, jobCache, backup, backupCache,
                         deployedCache>>
          /\ jobs[p].state \in {"running", "applied"}
      BY <1>8 DEF JobApplies, JobSucceeds, JobFails, crVars, caches
    <2>2. PICK state \in {"applied", "succeeded", "failed"} :
            /\ jobs' = [jobs EXCEPT ![p].state = state]
            /\ state = "applied" => /\ SetsImage(p) /\ jobs[p].state = "running"
                                    /\ deployed' = jobs[p].version
            /\ state # "applied" => deployed' = deployed
            /\ state = "succeeded" => /\ SetsImage(p) => deployed = jobs[p].version
                                      /\ succeeded' = IF jobs[p].owner = cr.uid
                                                      THEN succeeded \cup {p}
                                                      ELSE succeeded
            /\ state # "succeeded" => succeeded' = succeeded
      <3>1. CASE JobApplies(p)
        BY <3>1 DEF JobApplies
      <3>2. CASE JobSucceeds(p)
        BY <3>2 DEF JobSucceeds
      <3>3. CASE JobFails(p)
        BY <3>3 DEF JobFails
      <3> QED BY <1>8, <3>1, <3>2, <3>3
    <2>3. /\ jobs'[p] = [jobs[p] EXCEPT !.state = state]
          /\ jobs'[p].state = state
          /\ \A q \in JobPhases \ {p} : jobs'[q] = jobs[q]
      BY <2>2 DEF TypeOK, Jobs
    <2>4. Ends(p)
      BY <2>1, <2>2, <2>3 DEF Ends
    <2>5. SucceededMove
      BY <2>1, <2>2, <2>3 DEF SucceededMove
    <2>6. DeployedMove
      BY <2>1, <2>2, <2>3 DEF DeployedMove
    <2>7. BackupMove /\ CachesMove /\ \A q \in JobPhases : JobMove(q)
      BY <2>1, <2>3, <2>4 DEF BackupMove, CachesMove, JobMove
    <2> QED BY <2>1, <2>5, <2>6, <2>7, QuietMoves DEF ClusterMove
  <1>9. ASSUME NEW p \in JobPhases, JobExpires(p) \/ CollectJob(p)
        PROVE  Moves /\ ClusterMove
    <2>1. /\ UNCHANGED <<cr, watch, cached, worker, jobCache, backup, backupCache,
                         deployed, deployedCache, succeeded>>
          /\ jobs[p].state # "absent"
          /\ jobs' = [jobs EXCEPT ![p] = NoJob]
      BY <1>9 DEF JobExpires, CollectJob, Finished, crVars, caches
    <2>2. \/ Finished(jobs[p]) /\ ("expiry" \notin FaultKinds => Used(p))
          \/ ~OwnerAlive(jobs[p].owner)
      BY <1>9 DEF JobExpires, CollectJob, Charge
    <2>3. jobs'[p] = NoJob /\ \A q \in JobPhases \ {p} : jobs'[q] = jobs[q]
      BY <2>1 DEF TypeOK
    <2>4. Goes(p)
      BY <2>1, <2>2, <2>3 DEF Goes
    <2>5. BackupMove /\ ClusterMove /\ \A q \in JobPhases : JobMove(q)
      BY <2>1, <2>3, <2>4
      DEF JobMove, BackupMove, ClusterMove, SucceededMove, DeployedMove, CachesMove
    <2> QED BY <2>1, <2>5, QuietMoves
  <1> QED BY <1>1, <1>2, <1>3, <1>4, <1>5, <1>6, <1>7, <1>8, <1>9 DEF EnvironmentStep

\* Every step moves the state as said.
LEMMA StepMoves ==
  ASSUME Inv, InOrder, [Next]_vars
  PROVE  Moves /\ ClusterMove
  <1>1. CASE Next
    BY <1>1, NextSplit, WorkerStepMoves, WorkerStepCluster, EnvironmentStepMoves
  <1>2. CASE UNCHANGED vars
    BY <1>2 DEF vars, Moves, ServerMove, InformerMove, WorkerMove, JobMove, BackupMove,
                ClusterMove, SucceededMove, DeployedMove, CachesMove
  <1> QED BY <1>1, <1>2

----------------------------------------------------------------------------
(***************************************************************************)
(* Copies stay in order.                                                   *)
(***************************************************************************)

LEMMA RankType == \A p : Rank(p) \in 0..8
  BY DEF Rank

LEMMA RankValues ==
  /\ Rank("Validating") = 1
  /\ Rank("FreezingOperations") = 2 /\ Rank("UpgradingCRDs") = 3
  /\ Rank("UpgradingControllerManager") = 4 /\ Rank("UpgradingNetworkFabric") = 5
  /\ Rank("Verifying") = 6 /\ Rank("RollingBack") = 7
  /\ Rank("Completed") = 8 /\ Rank("Failed") = 8
  BY DEF Rank

LaterPhase(phase) == phase \in Changing \cup {"RollingBack"} \cup Terminal

\* Only the first two phases come before the freeze.
LEMMA RankEarly ==
  ASSUME NEW p \in Phases
  PROVE  /\ Early(p) => Rank(p) <= 1
         /\ ~Early(p) => Rank(p) > 1 /\ LaterPhase(p)
  <1>1. CASE p = ""
    <2>1. Rank("") = 0
      BY DEF Rank
    <2>2. Rank(p) = 0
      BY <1>1, <2>1, Zenon
    <2>3. Early(p)
      BY <1>1 DEF Early
    <2> QED BY <2>2, <2>3
  <1>2. CASE p = "Validating"
    <2>1. Early(p)
      BY <1>2 DEF Early
    <2> QED BY <1>2, <2>1, RankValues
  <1>3. CASE LaterPhase(p)
    <2>1. Rank(p) > 1
      BY <1>3, RankValues DEF LaterPhase, Changing, Stages, Terminal
    <2>2. ~Early(p)
      BY <1>3 DEF LaterPhase, Early, Changing, Stages, Terminal
    <2> QED BY <1>3, <2>1, <2>2
  <1> QED BY <1>1, <1>2, <1>3 DEF Phases, JobPhases, LaterPhase, Changing, Terminal

LEMMA SameVersionFacts ==
  ASSUME NEW u, NEW v, SameVersion(u, v)
  PROVE  /\ SameVersion(v, u)
         /\ Active(u) = Active(v)
         /\ \A w : SameVersion(v, w) => SameVersion(u, w)
         /\ \A w : Becomes(v, w) => Becomes(u, w)
         /\ \A w : Becomes(w, v) => Becomes(w, u)
  BY DEF SameVersion, Becomes, Active, Live

LEMMA NotAfterTrans ==
  ASSUME NEW u \in Upgrades, NEW v \in Upgrades, NEW w \in Upgrades
  PROVE  /\ NotAfter(u, u)
         /\ NotAfter(u, v) /\ NotAfter(v, w) => NotAfter(u, w)
  BY DEF NotAfter, Upgrades

LEMMA BecomesTrans ==
  ASSUME NEW u \in Upgrades, NEW v \in Upgrades, NEW w \in Upgrades,
         v.exists \/ ~w.exists, Becomes(u, v), Becomes(v, w)
  PROVE  Becomes(u, w)
  <1>1. /\ Rank(u.status.phase) \in Nat /\ Rank(v.status.phase) \in Nat
        /\ Rank(w.status.phase) \in Nat
    BY RankType
  <1>2. \A x \in Upgrades : x.status.phase \in Phases
    BY DEF Upgrades, Statuses
  <1>3. CASE w.exists
    <2>1. /\ v.exists /\ u.exists
          /\ Rank(u.status.phase) <= Rank(v.status.phase)
          /\ Rank(v.status.phase) <= Rank(w.status.phase)
      BY <1>3 DEF Becomes
    <2>2. Rank(u.status.phase) <= Rank(w.status.phase)
      BY <1>1, <2>1
    <2>3. ~Early(u.status.phase) => ~Early(v.status.phase)
      <3>1. Rank(u.status.phase) > 1 => Rank(v.status.phase) > 1
        BY <1>1, <2>1
      <3>2. u.status.phase \in Phases /\ v.status.phase \in Phases
        BY <1>2
      <3> QED BY <1>1, <3>1, <3>2, RankEarly
    <2> QED BY <1>3, <2>1, <2>2, <2>3 DEF Becomes
  <1> QED BY <1>3 DEF Becomes

LEMMA BecomesSelf ==
  ASSUME NEW u
  PROVE  Becomes(u, u)
  BY RankType DEF Becomes

\* Every copy is the server's or was before it.
LEMMA CopiesNotAfter ==
  ASSUME Inv, NEW u \in Copies
  PROVE  NotAfter(u, cr)
  <1>1. CASE u = cr
    BY <1>1, NotAfterTrans DEF Inv, TypeOK
  <1>2. CASE u # cr
    <2>1. Agrees(u, cr)
      BY <1>2 DEF Inv, Coherent, CopiesCoherent, Copies
    <2> QED BY <2>1 DEF Agrees, NotAfter
  <1> QED BY <1>1, <1>2

\* A copy after the step is a copy before it, or what the server has stored.
LEMMA CopiesStep ==
  ASSUME TypeOK, Moves, NEW u \in Copies'
  PROVE  \E v \in Copies \cup {cr'} :
           /\ SameVersion(u, v)
           /\ v.status.backupReady => u.status.backupReady
           /\ u.status.backupReady => v.status.backupReady \/ backup'.exists
  <1>1. CASE u \in Copies \cup {cr'}
    BY <1>1, SameVersionSelf
  <1>2. CASE u = worker'.upgrade
    <2>1. worker'.upgrade \in Copies \cup {cr'} \/
            \E v \in {Loaded, worker.upgrade} : GoesOn(v)
      BY CopiesInHand
      DEF Moves, WorkerMove, FailMove, BackedUpMove, EnterMove, SavedMove, FinalizeMove
    <2> QED BY <1>1, <1>2, <2>1, CopiesInHand DEF GoesOn
  <1>3. CASE u = cached'
    <2>1. watch # <<>> => Head(watch) = watch[1] /\ 1 \in 1..Len(watch)
      BY DEF TypeOK
    <2>2. cached' \in {cached, cr} \/ (watch # <<>> /\ cached' = Head(watch))
      BY DEF Moves, InformerMove, Stores
    <2>3. watch # <<>> => watch[1] \in Copies
      BY <2>1 DEF Copies
    <2> QED BY <1>1, <1>3, <2>1, <2>2, <2>3, CopiesInHand
  <1>4. ASSUME NEW i \in 1..Len(watch'), u = watch'[i]
        PROVE  u \in Copies \cup {cr'}
    <2>1. CASE watch' = watch
      BY <1>4, <2>1 DEF Copies
    <2>2. CASE watch' = Append(watch, cr')
      <3>1. watch'[i] = cr' \/ (i \in 1..Len(watch) /\ watch'[i] = watch[i])
        BY <1>4, <2>2 DEF TypeOK
      <3> QED BY <1>4, <3>1 DEF Copies
    <2>3. CASE watch # <<>> /\ watch' = Tail(watch)
      <3>1. i + 1 \in 1..Len(watch) /\ watch'[i] = watch[i + 1]
        BY <1>4, <2>3 DEF TypeOK
      <3> QED BY <1>4, <3>1 DEF Copies
    <2>4. CASE watch' = <<>>
      BY <1>4, <2>4
    <2> QED BY <2>1, <2>2, <2>3, <2>4 DEF Moves, InformerMove, Stores
  <1>5. CASE u \in {Idle.upgrade, cr'}
    BY <1>1, <1>5, CopiesInHand
  <1>6. Copies' = {Idle.upgrade, cr', cached', worker'.upgrade}
                    \cup {watch'[i] : i \in 1..Len(watch')}
    BY DEF Copies, Idle
  <1> QED BY <1>1, <1>2, <1>3, <1>4, <1>5, <1>6

\* The server's copy moves forward within one resource.
LEMMA ServerAdvances ==
  ASSUME Inv, [Next]_vars, cr'.uid = cr.uid, cr'.exists
  PROVE  /\ Rank(cr.status.phase) <= Rank(cr'.status.phase)
         /\ ~Early(cr.status.phase) =>
              cr.status.previousVersion = cr'.status.previousVersion
  <1>1. Rank(cr.status.phase) \in Nat /\ Rank(cr'.status.phase) \in Nat
    BY RankType
  <1>2. CASE Lifecycle!Next
    <2>1. Rank(cr'.status.phase) >= Rank(cr.status.phase) /\ VersionFrozen
      BY <1>2, LifeAdvances DEF Inv
    <2> QED BY <1>1, <2>1 DEF VersionFrozen, Early
  <1>3. CASE Stutters
    BY <1>1, <1>3 DEF Stutters
  <1> QED BY <1>2, <1>3, StepLife

\* What the server stores comes after every copy there is.
LEMMA ServerNext ==
  ASSUME Inv, InOrder, Inv', [Next]_vars, Moves, NEW u \in Copies
  PROVE  /\ NotAfter(u, cr')
         /\ cr' = cr \/ u.uid < cr'.uid \/ (u.uid = cr'.uid /\ u.rv < cr'.rv)
         /\ u.uid = cr'.uid => Becomes(u, cr')
  <1>1. u \in Upgrades /\ cr \in Upgrades /\ cr' \in Upgrades
    BY CopiesType DEF Inv, TypeOK
  <1>2. NotAfter(u, cr)
    BY CopiesNotAfter
  <1>3. u.uid = cr.uid => Becomes(u, cr)
    BY <1>1, <1>2, CopiesInHand DEF InOrder, CopiesInOrder, NotAfter, Upgrades
  <1>4. CASE cr' = cr
    BY <1>2, <1>3, <1>4
  <1>5. CASE CreatedMove
    BY <1>1, <1>2, <1>5 DEF CreatedMove, NotAfter, Upgrades
  <1>6. CASE RemovedMove
    BY <1>1, <1>2, <1>6 DEF RemovedMove, NotAfter, Becomes, Upgrades
  <1>7. CASE ChangedMove
    <2>1. cr.exists /\ cr'.exists /\ cr'.uid = cr.uid /\ cr'.rv = cr.rv + 1
      BY <1>7 DEF ChangedMove
    <2>2. Becomes(cr, cr')
      BY <1>7, <2>1, ServerAdvances DEF Becomes, ChangedMove
    <2>3. u.uid = cr.uid => Becomes(u, cr')
      BY <1>1, <1>3, <2>1, <2>2, BecomesTrans
    <2>4. u.uid < cr'.uid \/ (u.uid = cr'.uid /\ u.rv < cr'.rv)
      BY <1>1, <1>2, <2>1 DEF NotAfter, Upgrades
    <2>5. NotAfter(u, cr')
      BY <1>1, <2>4 DEF NotAfter, Upgrades
    <2> QED BY <2>1, <2>3, <2>4, <2>5
  <1> QED BY <1>4, <1>5, <1>6, <1>7 DEF Moves, ServerMove

\* The informer does not go back.
LEMMA InformerForward ==
  ASSUME Inv, InOrder, Inv', [Next]_vars, Moves
  PROVE  NotAfter(cached, cached')
  <1>1. cached \in Upgrades
    BY DEF Inv, TypeOK
  <1>2. NotAfter(cached, cached) /\ NotAfter(cached, cr)
    BY <1>1, NotAfterTrans, CopiesNotAfter, CopiesInHand
  <1>3. watch # <<>> => Head(watch) = watch[1] /\ 1 \in 1..Len(watch)
    BY DEF Inv, TypeOK
  <1>4. watch # <<>> => NotAfter(cached, Head(watch))
    BY <1>3 DEF InOrder, CopiesInOrder
  <1> QED BY <1>2, <1>4 DEF Moves, InformerMove, Stores

----------------------------------------------------------------------------
(***************************************************************************)
(* Every step keeps InOrder.                                               *)
(***************************************************************************)

Ordered(u, v) ==
  /\ u.uid = v.uid /\ u.rv <= v.rv => Becomes(u, v)
  /\ u.uid = v.uid /\ u.rv = v.rv => SameVersion(u, v)

LEMMA WellFormedNext ==
  ASSUME Inv, InOrder, Moves
  PROVE  WellFormed(cr')
  <1>1. WellFormed(cr)
    BY CopiesInHand DEF InOrder, CopiesInOrder
  <1>2. /\ InitialStatus.lastSuccessfulPhase \in Saved
        /\ InitialStatus.phase \notin Changing \cup {"RollingBack", "Completed"}
    BY DEF InitialStatus, Saved, Changing, Stages
  <1>3. CASE cr' = cr
    BY <1>1, <1>3
  <1>4. CASE CreatedMove
    <2>1. cr.uid \in Nat /\ cr'.uid = cr.uid + 1
      BY <1>4 DEF CreatedMove, Inv, TypeOK, Upgrades
    <2>2. cr'.uid # 0
      BY <2>1
    <2> QED BY <1>2, <1>4, <2>2 DEF CreatedMove, WellFormed
  <1>5. CASE RemovedMove
    BY <1>2, <1>5 DEF RemovedMove, WellFormed
  <1>6. CASE ChangedMove
    <2>1. cr'.uid # 0 /\ (cr'.deleting => cr'.finalizer)
      BY <1>1, <1>6 DEF ChangedMove, WellFormed
    <2> DEFINE s == cr.status
    <2> DEFINE t == cr'.status
    <2>2. /\ t.lastSuccessfulPhase \in Saved
          /\ t.phase \in Changing \cup {"RollingBack", "Completed"} => t.backupReady
      <3>1. /\ s.lastSuccessfulPhase \in Saved
            /\ s.phase \in Changing \cup {"RollingBack", "Completed"} => s.backupReady
        BY <1>1 DEF WellFormed
      <3>2. CASE ValidatingMove(s, t)
        BY <3>1, <3>2 DEF ValidatingMove, Changing, Stages
      <3>3. CASE SavingMove(s, t)
        BY <3>1, <3>3 DEF SavingMove, Saved
      <3>4. CASE EnteringMove(s, t) \/ CompletingMove(s, t)
        BY <3>1, <3>4 DEF EnteringMove, CompletingMove, Keeps
      <3>5. CASE FailingMove(s, t)
        BY <3>1, <3>5 DEF FailingMove, Changing, Stages
      <3> QED BY <1>6, <3>1, <3>2, <3>3, <3>4, <3>5 DEF ChangedMove, StatusMove
    <2> QED BY <2>1, <2>2 DEF WellFormed
  <1> QED BY <1>3, <1>4, <1>5, <1>6 DEF Moves, ServerMove

LEMMA CopiesInOrderNext ==
  ASSUME Inv, InOrder, Inv', [Next]_vars, Moves
  PROVE  CopiesInOrder'
  <1>1. ASSUME NEW u \in Copies' PROVE WellFormed(u)
    <2>1. PICK x \in Copies \cup {cr'} :
            SameVersion(u, x) /\ (x.status.backupReady => u.status.backupReady)
      BY CopiesStep DEF Inv
    <2>2. WellFormed(x)
      BY WellFormedNext DEF InOrder, CopiesInOrder
    <2> QED BY <2>1, <2>2 DEF SameVersion, WellFormed
  <1>2. ASSUME NEW x \in Copies \cup {cr'}, NEW y \in Copies \cup {cr'}
        PROVE  Ordered(x, y)
    <2>1. ASSUME NEW u \in Copies, NEW v \in Copies PROVE Ordered(u, v)
      BY DEF InOrder, CopiesInOrder, Ordered
    <2>2. CASE x \in Copies /\ y = cr' /\ cr' # cr
      <3>1. x \in Upgrades /\ y \in Upgrades
        BY <2>2, CopiesType DEF Inv, TypeOK
      <3>2. x.uid = y.uid => Becomes(x, y) /\ x.rv < y.rv
        BY <2>2, <3>1, ServerNext DEF Upgrades
      <3> QED BY <3>1, <3>2 DEF Ordered, Upgrades
    <2>3. CASE x = cr' /\ y \in Copies /\ cr' # cr
      <3>1. x \in Upgrades /\ y \in Upgrades
        BY <2>3, CopiesType DEF Inv, TypeOK
      <3>2. x.uid = y.uid => y.rv < x.rv
        BY <2>3, <3>1, ServerNext DEF Upgrades
      <3> QED BY <3>1, <3>2 DEF Ordered, Upgrades
    <2>4. CASE x = cr' /\ y = cr'
      BY <2>4, BecomesSelf, SameVersionSelf DEF Ordered
    <2> QED BY <2>1, <2>2, <2>3, <2>4, CopiesInHand
  <1>3. ASSUME NEW u \in Copies', NEW v \in Copies' PROVE Ordered(u, v)
    <2>1. PICK x \in Copies \cup {cr'} : SameVersion(u, x)
      BY CopiesStep DEF Inv
    <2>2. PICK y \in Copies \cup {cr'} : SameVersion(v, y)
      BY CopiesStep DEF Inv
    <2>3. u.uid = x.uid /\ u.rv = x.rv /\ v.uid = y.uid /\ v.rv = y.rv
      BY <2>1, <2>2 DEF SameVersion
    <2>4. Becomes(x, y) => Becomes(u, v)
      BY <2>1, <2>2, SameVersionFacts
    <2>5. SameVersion(x, y) => SameVersion(u, v)
      BY <2>1, <2>2, SameVersionFacts
    <2> QED BY <1>2, <2>3, <2>4, <2>5 DEF Ordered
  <1>4. /\ \A i \in 1..Len(watch') : NotAfter(cached', watch'[i])
        /\ \A i, j \in 1..Len(watch') : i <= j => NotAfter(watch'[i], watch'[j])
    <2>1. /\ watch \in Seq(Upgrades) /\ cr' \in Upgrades
          /\ \A i \in 1..Len(watch) : NotAfter(cached, watch[i])
          /\ \A i, j \in 1..Len(watch) : i <= j => NotAfter(watch[i], watch[j])
      BY DEF InOrder, CopiesInOrder, Inv, TypeOK
    <2>2. CASE watch' = watch /\ cached' = cached
      BY <2>1, <2>2
    <2>3. CASE Stores
      <3>1. NotAfter(cached, cr') /\ NotAfter(cr', cr')
        BY ServerNext, NotAfterTrans, CopiesInHand DEF Inv, TypeOK
      <3>2. \A i \in 1..Len(watch) : NotAfter(watch[i], cr')
        BY ServerNext DEF Copies
      <3>3. /\ Len(watch') = Len(watch) + 1 /\ Len(watch) \in Nat
            /\ watch'[Len(watch) + 1] = cr'
            /\ \A i \in 1..Len(watch) : watch'[i] = watch[i]
        BY <2>1, <2>3 DEF Stores
      <3>4. \A i \in 1..Len(watch') : i \in 1..Len(watch) \/ i = Len(watch) + 1
        BY <3>3
      <3>5. ASSUME NEW i \in 1..Len(watch') PROVE NotAfter(cached', watch'[i])
        BY <2>1, <2>3, <3>1, <3>3, <3>4 DEF Stores
      <3>6. ASSUME NEW i \in 1..Len(watch'), NEW j \in 1..Len(watch'), i <= j
            PROVE  NotAfter(watch'[i], watch'[j])
        <4>1. CASE j \in 1..Len(watch)
          <5>1. i \in 1..Len(watch)
            BY <3>3, <3>6, <4>1
          <5> QED BY <2>1, <3>3, <3>6, <4>1, <5>1
        <4>2. CASE j = Len(watch) + 1
          BY <3>1, <3>2, <3>3, <3>4, <4>2
        <4> QED BY <3>4, <4>1, <4>2
      <3> QED BY <3>5, <3>6
    <2>4. CASE watch # <<>> /\ cached' = Head(watch) /\ watch' = Tail(watch)
      <3>1. /\ Len(watch) \in Nat \ {0} /\ Len(watch') = Len(watch) - 1
            /\ cached' = watch[1]
            /\ \A i \in 1..Len(watch') : watch'[i] = watch[i + 1]
        BY <2>1, <2>4
      <3>2. \A i \in 1..Len(watch') : i + 1 \in 1..Len(watch)
        BY <3>1
      <3>3. 1 \in 1..Len(watch) /\ \A i \in 1..Len(watch') : 1 <= i + 1
        BY <3>1
      <3>4. ASSUME NEW i \in 1..Len(watch') PROVE NotAfter(cached', watch'[i])
        BY <2>1, <3>1, <3>2, <3>3
      <3>5. ASSUME NEW i \in 1..Len(watch'), NEW j \in 1..Len(watch'), i <= j
            PROVE  NotAfter(watch'[i], watch'[j])
        <4>1. i + 1 <= j + 1
          BY <3>1, <3>5
        <4> QED BY <2>1, <3>1, <3>2, <4>1
      <3> QED BY <3>4, <3>5
    <2>5. CASE watch' = <<>>
      BY <2>5
    <2> QED BY <2>2, <2>3, <2>4, <2>5 DEF Moves, InformerMove
  <1> QED BY <1>1, <1>3, <1>4 DEF CopiesInOrder, Ordered

LEMMA WorkerInOrderNext ==
  ASSUME Inv, InOrder, Inv', [Next]_vars, Moves
  PROVE  WorkerInOrder'
  <1>1. /\ cached \in Upgrades /\ cached' \in Upgrades /\ cr \in Upgrades
        /\ worker.upgrade \in Upgrades /\ Loaded \in Upgrades
    BY InHandType DEF Inv, TypeOK
  <1>2. NotAfter(cached, cached')
    BY InformerForward
  <1>3. cached.uid <= cached'.uid
    BY <1>1, <1>2 DEF NotAfter, Upgrades
  <1>4. worker.upgrade.uid <= cached.uid /\ Loaded.uid <= cached.uid
    BY <1>1 DEF InOrder, WorkerInOrder, Loaded, Upgrades
  <1>5. CASE worker' = worker
    <2>1. worker'.upgrade.uid <= cached'.uid
      BY <1>1, <1>3, <1>4, <1>5 DEF Upgrades
    <2>2. NotAfter(worker.upgrade, cached) => NotAfter(worker.upgrade, cached')
      BY <1>1, <1>2, NotAfterTrans
    <2> QED BY <1>5, <2>1, <2>2 DEF InOrder, WorkerInOrder
  <1>6. CASE worker' = Idle
    <2>1. Idle.pc = "idle" /\ Idle.upgrade.uid = 0
      BY DEF Idle, Gone
    <2> QED BY <1>1, <1>6, <2>1 DEF WorkerInOrder, Upgrades
  <1>7. ASSUME NEW u \in {Loaded, worker.upgrade}, GoesOn(u),
               worker'.pc \notin {"idle", "finalize"},
               worker'.pc \in {"start", "enter", "backedUp"} =>
                 worker'.upgrade.status.backupReady
        PROVE  WorkerInOrder'
    <2>1. worker'.upgrade.uid = u.uid /\ Active(worker'.upgrade)
      BY <1>7, SameVersionFacts DEF GoesOn, SameVersion
    <2>2. worker'.upgrade.uid <= cached'.uid
      BY <1>1, <1>3, <1>4, <2>1 DEF Upgrades
    <2> QED BY <1>7, <2>1, <2>2 DEF WorkerInOrder
  <1>8. CASE FailMove
    BY <1>7, <1>8 DEF FailMove
  <1>9. CASE BackedUpMove
    BY <1>7, <1>9 DEF BackedUpMove
  <1>10. CASE EnterMove
    <2>1. PICK u \in {Loaded, worker.upgrade} : GoesOn(u) /\ MayStart(u, worker'.phase)
      BY <1>10 DEF EnterMove
    <2>2. WellFormed(u)
      BY CopiesInHand DEF InOrder, CopiesInOrder
    <2>3. u.status.backupReady
      BY <2>1, <2>2 DEF MayStart, WellFormed, InOrder, WorkerInOrder, Changing, Stages
    <2> QED BY <1>7, <1>10, <2>1, <2>3 DEF EnterMove, GoesOn
  <1>11. CASE SavedMove
    <2>1. /\ worker'.upgrade = cr' /\ cr'.uid = cr.uid /\ Active(cr')
          /\ worker'.pc \in {"dispatch", "start", "enter"}
          /\ worker'.pc # "dispatch" => cr'.status.backupReady
          /\ \E u \in {cached, worker.upgrade, Loaded} : u.uid = cr.uid
      BY <1>11 DEF SavedMove, ChangedMove, Accepts, SavingMove
    <2>2. worker'.upgrade.uid <= cached'.uid
      BY <1>1, <1>3, <1>4, <2>1 DEF Upgrades
    <2> QED BY <2>1, <2>2 DEF WorkerInOrder
  <1>12. CASE FinalizeMove
    <2>1. /\ worker'.pc = "finalize" /\ worker'.upgrade = cached /\ cached' = cached
          /\ cached.exists /\ cached.deleting
      BY <1>12 DEF FinalizeMove
    <2>2. NotAfter(cached, cached) /\ cached.uid <= cached.uid
      BY <1>1, NotAfterTrans DEF Upgrades
    <2> QED BY <2>1, <2>2 DEF WorkerInOrder
  <1> QED BY <1>5, <1>6, <1>8, <1>9, <1>10, <1>11, <1>12 DEF Moves, WorkerMove

\* When the last finalizer goes, whatever copy is left shows the deletion.
LEMMA GoneForAllNext ==
  ASSUME Inv, InOrder, Inv', [Next]_vars, Moves
  PROVE  GoneForAll'
  <1> SUFFICES ASSUME ~cr'.exists, NEW u \in Copies', u.uid = cr'.uid
               PROVE  ~Active(u)
    BY DEF GoneForAll
  <1>1. PICK x \in Copies \cup {cr'} : SameVersion(u, x)
    BY CopiesStep DEF Inv
  <1>2. Active(u) = Active(x) /\ x.uid = u.uid
    BY <1>1, SameVersionFacts DEF SameVersion
  <1>3. CASE x = cr'
    BY <1>2, <1>3 DEF Active, Live
  <1>4. CASE x \in Copies /\ cr' = cr
    BY <1>2, <1>4 DEF InOrder, GoneForAll
  <1>5. CASE x \in Copies /\ RemovedMove
    <2>1. /\ x \in Upgrades /\ cr \in Upgrades /\ cached \in Upgrades
          /\ worker.upgrade \in Upgrades
      BY <1>5, CopiesType, InHandType DEF Inv, TypeOK
    <2>2. x.uid = cr.uid /\ cr.exists /\ NotAfter(x, cr)
      BY <1>2, <1>5, CopiesNotAfter DEF RemovedMove
    <2>3. Ordered(x, cr)
      BY <1>5, CopiesInHand DEF InOrder, CopiesInOrder, Ordered
    <2>4. x.rv <= cr.rv /\ Becomes(x, cr)
      BY <2>1, <2>2, <2>3 DEF NotAfter, Ordered, Upgrades
    <2>5. CASE Live(cr) /\ ~cr.finalizer
      BY <1>2, <2>2, <2>4, <2>5 DEF Becomes, Active
    <2>6. CASE worker' = Idle /\ worker.pc = "finalize" /\ Accepts(worker.upgrade)
      <3>1. /\ worker.upgrade.deleting /\ NotAfter(worker.upgrade, cached)
            /\ worker.upgrade.uid = cr.uid /\ worker.upgrade.rv = cr.rv
        BY <2>6 DEF InOrder, WorkerInOrder, Accepts
      <3>2. NotAfter(cached, cr)
        BY CopiesNotAfter, CopiesInHand
      <3>3. cached.uid = cr.uid /\ cached.rv = cr.rv
        BY <2>1, <3>1, <3>2 DEF NotAfter, Upgrades
      <3>4. cr.deleting
        BY <2>6, <3>1, AcceptedSame, CopiesInHand DEF InOrder, SameVersion
      <3>5. CASE NotAfter(cached, x)
        <4>1. x.rv = cr.rv
          BY <2>1, <2>2, <2>4, <3>3, <3>5 DEF NotAfter, Upgrades
        <4>2. SameVersion(x, cr)
          BY <2>1, <2>2, <2>3, <4>1 DEF Ordered, Upgrades
        <4> QED BY <1>2, <3>4, <4>2 DEF SameVersion, Active, Live
      <3>6. CASE x = worker.upgrade
        BY <1>2, <3>1, <3>6 DEF Active, Live
      <3>7. CASE x = Idle.upgrade
        BY <1>2, <3>7 DEF Idle, Gone, Active, Live
      <3>8. CASE x = cr
        BY <1>2, <3>4, <3>8 DEF Active, Live
      <3>9. CASE x = cached
        BY <2>1, <3>5, <3>9, NotAfterTrans
      <3>10. ASSUME NEW i \in 1..Len(watch), x = watch[i] PROVE ~Active(u)
        BY <3>5, <3>10 DEF InOrder, CopiesInOrder
      <3> QED BY <1>5, <3>6, <3>7, <3>8, <3>9, <3>10 DEF Copies
    <2> QED BY <1>5, <2>5, <2>6 DEF RemovedMove
  <1> QED BY <1>3, <1>4, <1>5 DEF Moves, ServerMove, CreatedMove, ChangedMove

LEMMA ImageJobsInOrderNext ==
  ASSUME Inv, InOrder, Inv', [Next]_vars, Moves
  PROVE  ImageJobsInOrder'
  <1> SUFFICES ASSUME NEW p \in JobPhases
               PROVE  /\ jobs'[p].owner <= cr'.uid
                      /\ SetsImage(p) /\ jobs'[p].state # "absent"
                           /\ cr'.exists /\ cr'.uid = jobs'[p].owner =>
                             /\ ~Early(cr'.status.phase)
                             /\ p = "RollingBack" =>
                                  jobs'[p].version = cr'.status.previousVersion
    BY DEF ImageJobsInOrder, OwnerAlive, SetsImage
  <1>1. /\ cr.uid \in Nat /\ cr'.uid \in Nat /\ jobs[p].owner \in Nat
        /\ jobs'[p].owner \in Nat
    BY DEF Inv, TypeOK, Upgrades, Jobs
  <1>2. /\ jobs[p].owner <= cr.uid
        /\ SetsImage(p) /\ jobs[p].state # "absent" /\ cr.exists
             /\ cr.uid = jobs[p].owner =>
               /\ ~Early(cr.status.phase)
               /\ p = "RollingBack" => jobs[p].version = cr.status.previousVersion
    BY DEF InOrder, ImageJobsInOrder, OwnerAlive
  <1>3. NotAfter(cr, cr') /\ cr.uid <= cr'.uid
    BY <1>1, ServerNext, CopiesInHand DEF NotAfter
  <1>4. NoJob.owner = 0 /\ NoJob.state = "absent"
    BY DEF NoJob
  <1>5. CASE jobs'[p] = NoJob
    BY <1>1, <1>4, <1>5
  <1>6. CASE jobs'[p] = jobs[p]
    <2>1. jobs'[p].owner <= cr'.uid
      BY <1>1, <1>2, <1>3, <1>6
    <2>2. CASE cr' = cr
      BY <1>2, <1>6, <2>2
    <2>3. CASE CreatedMove
      <3>1. cr'.uid # jobs'[p].owner
        BY <1>1, <1>2, <1>6, <2>3 DEF CreatedMove
      <3> QED BY <2>1, <3>1
    <2>4. CASE RemovedMove
      BY <2>1, <2>4 DEF RemovedMove
    <2>5. CASE ChangedMove
      <3>1. cr.exists /\ cr'.exists /\ cr'.uid = cr.uid
        BY <2>5 DEF ChangedMove
      <3>2. ~Early(cr.status.phase) =>
              cr.status.previousVersion = cr'.status.previousVersion
        BY <3>1, ServerAdvances
      <3>3. ~Early(cr.status.phase) => ~Early(cr'.status.phase)
        <4>1. Rank(cr.status.phase) <= Rank(cr'.status.phase)
          BY <3>1, ServerAdvances
        <4>2. cr.status.phase \in Phases /\ cr'.status.phase \in Phases
          BY DEF Inv, TypeOK, Upgrades, Statuses
        <4> QED BY <4>1, <4>2, RankType, RankEarly
      <3> QED BY <1>2, <1>6, <2>1, <3>1, <3>2, <3>3
    <2> QED BY <2>2, <2>3, <2>4, <2>5 DEF Moves, ServerMove
  <1>7. CASE Begins(p)
    <2>1. PICK u \in {Loaded, worker.upgrade} :
            /\ Active(u)
            /\ jobs'[p].owner = u.uid
            /\ SetsImage(p) => ~Early(u.status.phase)
            /\ p = "RollingBack" => jobs'[p].version = u.status.previousVersion
      BY <1>7 DEF Begins
    <2>2. cr' = cr
      BY <1>7 DEF Begins
    <2>3. NotAfter(u, cr) /\ (u.uid = cr'.uid => Becomes(u, cr'))
      BY ServerNext, CopiesNotAfter, CopiesInHand
    <2>4. u \in Upgrades
      BY CopiesType, CopiesInHand DEF Inv
    <2>5. jobs'[p].owner <= cr'.uid
      BY <1>1, <2>1, <2>2, <2>3, <2>4 DEF NotAfter, Upgrades
    <2>6. ASSUME SetsImage(p), cr.exists, cr.uid = u.uid
          PROVE  /\ ~Early(cr.status.phase)
                 /\ u.status.previousVersion = cr.status.previousVersion
      <3>1. /\ Rank(u.status.phase) <= Rank(cr.status.phase)
            /\ u.status.previousVersion = cr.status.previousVersion
        BY <2>1, <2>2, <2>3, <2>6 DEF Becomes
      <3>2. cr.status.phase \in Phases /\ u.status.phase \in Phases
        BY <2>4 DEF Inv, TypeOK, Upgrades, Statuses
      <3> QED BY <2>1, <2>6, <3>1, <3>2, RankType, RankEarly
    <2> QED BY <2>1, <2>2, <2>5, <2>6
  <1>8. CASE Ends(p)
    <2>1. /\ jobs[p].state # "absent" /\ cr' = cr
          /\ jobs'[p].owner = jobs[p].owner /\ jobs'[p].version = jobs[p].version
      BY <1>8 DEF Ends, Inv, TypeOK, Jobs
    <2> QED BY <1>2, <2>1
  <1> QED BY <1>5, <1>6, <1>7, <1>8 DEF Moves, JobMove, Goes

LEMMA NextInOrder ==
  ASSUME Inv, InOrder, [Next]_vars
  PROVE  InOrder'
  <1>1. Inv'
    BY NextInv
  <1>2. Moves
    BY StepMoves
  <1>3. BackupInOrder'
    BY <1>2 DEF Moves, BackupMove, InOrder, BackupInOrder, LatestBackup
  <1> QED BY <1>1, <1>2, <1>3, CopiesInOrderNext, WorkerInOrderNext, GoneForAllNext,
             ImageJobsInOrderNext DEF InOrder

LEMMA InitInOrder == Init => InOrder
  <1> SUFFICES ASSUME Init PROVE InOrder
    OBVIOUS
  <1> DEFINE gone == Gone(0, 0)
  <1>1. cr = gone /\ cached = gone /\ worker = Idle /\ Idle.upgrade = gone
        /\ Idle.pc = "idle" /\ watch = <<>>
    BY DEF Init, Idle
  <1>2. /\ gone.uid = 0 /\ gone.exists = FALSE
        /\ gone.status.lastSuccessfulPhase \in Saved
        /\ gone.status.phase \notin Changing \cup {"RollingBack", "Completed"}
    BY DEF Gone, InitialStatus, Saved, Changing, Stages
  <1> HIDE DEF gone
  <1>3. Copies = {gone}
    BY <1>1 DEF Copies
  <1>4. CopiesInOrder
    BY <1>1, <1>2, <1>3, BecomesSelf, SameVersionSelf DEF CopiesInOrder, WellFormed
  <1>5. WorkerInOrder
    BY <1>1, <1>2 DEF WorkerInOrder
  <1>6. GoneForAll
    BY <1>2, <1>3 DEF GoneForAll, Active, Live
  <1>7. ImageJobsInOrder
    <2>1. \A p \in JobPhases : jobs[p].state = "absent" /\ jobs[p].owner = 0
      BY DEF Init, NoJob
    <2> QED BY <1>1, <1>2, <2>1 DEF ImageJobsInOrder
  <1>8. BackupInOrder
    BY DEF BackupInOrder, Init
  <1> QED BY <1>4, <1>5, <1>6, <1>7, <1>8 DEF InOrder

LEMMA SpecInOrder == Spec => [](Inv /\ InOrder)
  <1>1. Init => Inv /\ InOrder
    BY InitInv, InitInOrder
  <1>2. Inv /\ InOrder /\ [Next]_vars => (Inv /\ InOrder)'
    BY NextInv, NextInOrder
  <1> QED BY <1>1, <1>2, PTL DEF Spec

----------------------------------------------------------------------------
(***************************************************************************)
(* The theorems.                                                           *)
(***************************************************************************)

\* Of every resource of the name, however often it was deleted and created
\* again: copies become one another in the order in which the server stored
\* them, a handler between two writes holds an active copy, a resource goes
\* only when no handler can act on a copy of it any more, and a Job that sets
\* the image belongs to an upgrade that has entered the freeze.
THEOREM CopiesStayInOrder == Spec => []InOrder
  BY SpecInOrder, PTL

\* The target that an upgrade has when it becomes Completed is the one that
\* verification compared, of whichever resource of the name: an edit of the
\* target that verification has not seen makes its write a conflict.
THEOREM CompletionComparesTarget == Spec => CompletionChecksCurrentTarget
  <1>1. Inv /\ InOrder /\ [Next]_vars => [CompletionChecks]_vars
    <2> SUFFICES ASSUME Inv, InOrder, [Next]_vars,
                        cr.status.phase # "Completed", cr'.status.phase = "Completed"
                 PROVE  cr'.spec.target = detectDeployedVersion
      BY DEF CompletionChecks
    <2>1. Moves
      BY StepMoves
    <2>2. InitialStatus.phase # "Completed"
      BY DEF InitialStatus
    <2>3. ChangedMove
      BY <2>1, <2>2 DEF Moves, ServerMove, CreatedMove, RemovedMove
    <2> DEFINE s == cr.status
    <2> DEFINE t == cr'.status
    <2>4. ~MayEnter(s, "Completed")
      BY DEF MayEnter
    <2>5. CompletingMove(s, t)
      BY <2>3, <2>4
      DEF ChangedMove, StatusMove, ValidatingMove, SavingMove, EnteringMove, FailingMove
    <2>6. cr'.spec = cr.spec
      BY <2>3 DEF ChangedMove
    <2> QED BY <2>5, <2>6 DEF CompletingMove
  <1> QED BY <1>1, SpecInOrder, PTL DEF Spec, CompletionChecksCurrentTarget

=============================================================================
