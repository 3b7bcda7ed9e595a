----------------------- MODULE LiqoUpgradeController -----------------------
(***************************************************************************)
(* The reconciler of one LiqoUpgrade name: the API server's copy of the    *)
(* resource and every later resource of the same name, the informer caches *)
(* the reconciler reads, its single worker, the five Jobs and the backup   *)
(* ConfigMap it creates under fixed names, and the liqo-controller-manager *)
(* Deployment those Jobs change.                                           *)
(*                                                                         *)
(* One action ends at one write to the API server; a crash, a conflict or  *)
(* another actor can come between any two writes of a handler.  A handler  *)
(* reads only informer caches, which may lag behind the server for any     *)
(* time, so a read belongs to the action of the write that follows it: a   *)
(* cache that is not refreshed in between returns the same answer.         *)
(*                                                                         *)
(* A definition whose comment begins with "Faulty" is no part of the       *)
(* model: it is what a bug would make of the definition after it, and a    *)
(* property is worth stating only if such a bug breaks it.                 *)
(*                                                                         *)
(* Left out: message, lastUpdated, totalStages, strategy and dryRun, which *)
(* no handler reads; backupName, which a handler replaces by the same name *)
(* when it is empty; the phase "Pending", which nothing writes and         *)
(* Reconcile treats as "".                                                 *)
(***************************************************************************)
EXTENDS Naturals, Sequences, FiniteSets

CONSTANTS
  Tags,              \* image tags and version strings
  NoVersion,         \* the empty version string
  InstalledTag,      \* the tag Liqo was installed with
  VPrefixed,         \* VPrefixed[t]: t, with a leading "v" added if it has none
  Compatible,        \* pairs <<detected version, target>> validation may accept
  Targets, AutoRollbacks, Namespaces,   \* the spec fields a user may write
  FaultKinds, MaxFaults,  \* how many API faults and crashes, and of which kinds
                          \* ("deletion": errors while handling a deletion;
                          \* "expiry": a Job's result expires unread)
  MaxEdits,          \* bound on edits of the spec
  MaxIncarnations,   \* bound on creations of the resource
  MaxDeletions,      \* a user deletes only the first MaxDeletions of them
  FailingJobs,       \* the phases whose Job may fail
  UsedJobsExpire     \* whether Jobs expire once their result has been used

ASSUME VersionsAssumption ==
  /\ NoVersion \notin Tags
  /\ InstalledTag \in Tags
  /\ VPrefixed \in [Tags -> Tags]
  /\ \A t \in Tags : VPrefixed[VPrefixed[t]] = VPrefixed[t]

ASSUME SpecAssumption ==
  /\ Targets \subseteq Tags
  /\ AutoRollbacks \subseteq BOOLEAN
  /\ Namespaces \subseteq {"own", "omitted", "foreign"}

ASSUME BoundsAssumption ==
  /\ FaultKinds \subseteq {"crash", "error", "lost", "deletion", "expiry"}
  /\ MaxFaults \in Nat
  /\ MaxEdits \in Nat
  /\ MaxIncarnations \in Nat
  /\ MaxDeletions \in Nat
  /\ FailingJobs \subseteq {"FreezingOperations", "UpgradingCRDs",
                          "UpgradingControllerManager",
                          "UpgradingNetworkFabric", "RollingBack"}
  /\ UsedJobsExpire \in BOOLEAN

----------------------------------------------------------------------------
(***************************************************************************)
(* Phases, Jobs and resources.                                             *)
(***************************************************************************)

Stages == {"FreezingOperations", "UpgradingCRDs",
           "UpgradingControllerManager", "UpgradingNetworkFabric"}

\* A Job is known by the phase that waits for it.
JobPhases == Stages \cup {"RollingBack"}

Terminal == {"Completed", "Failed"}

Phases == {"", "Validating", "Verifying"} \cup JobPhases \cup Terminal

\* The order in which Reconcile's switch moves an upgrade forward.
Rank(phase) ==
  CASE phase = ""                           -> 0
    [] phase = "Validating"                 -> 1
    [] phase = "FreezingOperations"         -> 2
    [] phase = "UpgradingCRDs"              -> 3
    [] phase = "UpgradingControllerManager" -> 4
    [] phase = "UpgradingNetworkFabric"     -> 5
    [] phase = "Verifying"                  -> 6
    [] phase = "RollingBack"                -> 7
    [] OTHER                                -> 8

\* Faulty: the network fabric's stage is numbered one too high.
StageNumberOffByOne(p) ==
  CASE p = "FreezingOperations"         -> 0
    [] p = "UpgradingCRDs"              -> 1
    [] p = "UpgradingControllerManager" -> 2
    [] OTHER                            -> 4

\* The currentStage that the start function of a stage records.
StageNumber(p) ==
  CASE p = "FreezingOperations"         -> 0
    [] p = "UpgradingCRDs"              -> 1
    [] p = "UpgradingControllerManager" -> 2
    [] OTHER                            -> 3

MaybeTags == Tags \cup {NoVersion}

Conditions == {"Compatible", "Healthy", "RollbackRequired"}

\* namespace: "own" names the resource's own namespace; "omitted" is left
\* empty by a resource that lives in "liqo"; "foreign" is a namespace, named
\* or defaulted, other than the one the resource lives in.
UpgradeSpecs == [target       : MaybeTags,
                 autoRollback : BOOLEAN,
                 namespace    : {"own", "omitted", "foreign"}]

Statuses == [phase               : Phases,
             stage               : 0..3,
             previousVersion     : MaybeTags,
             lastSuccessfulPhase : Phases,
             backupReady         : BOOLEAN,
             rolledBack          : BOOLEAN,
             conditions          : SUBSET Conditions]

\* rv is the resource version, counted from each creation: the server never
\* gives two versions of the name the same pair of uid and rv.
Upgrades == [exists    : BOOLEAN,
             uid       : Nat,
             rv        : Nat,
             deleting  : BOOLEAN,
             finalizer : BOOLEAN,
             spec      : UpgradeSpecs,
             status    : Statuses]

NoSpec == [target |-> NoVersion, autoRollback |-> TRUE, namespace |-> "own"]

InitialStatus == [phase |-> "", stage |-> 0, previousVersion |-> NoVersion,
                  lastSuccessfulPhase |-> "", backupReady |-> FALSE,
                  rolledBack |-> FALSE, conditions |-> {}]

\* What the server and the caches know of the name when no resource has it.
Gone(uid, rv) == [exists |-> FALSE, uid |-> uid, rv |-> rv, deleting |-> FALSE,
                  finalizer |-> FALSE, spec |-> NoSpec, status |-> InitialStatus]

Live(u) == u.exists /\ ~u.deleting

JobStates == {"absent", "running", "applied", "succeeded", "failed"}

\* applied: the script has set the controller-manager's image and is waiting
\* for the rollout.  last is LAST_PHASE of the rollback script.
Jobs == [state   : JobStates,
         owner   : Nat,
         version : MaybeTags,
         last    : Phases]

NoJob == [state |-> "absent", owner |-> 0, version |-> NoVersion, last |-> ""]

Finished(job) == job.state \in {"succeeded", "failed"}

VARIABLES
  cr,            \* the resource in the API server
  watch,         \* versions of it that the informer has not delivered yet
  cached,        \* the informer's copy, which Reconcile reads
  worker,        \* the single reconcile worker
  jobs,          \* the Jobs in the API server, by phase
  jobCache,      \* the informer's copy of each
  backup,        \* the environment-backup ConfigMap: exists, owner
  backupCache,   \* the informer's copy; fresh when it is the latest version
  deployed,      \* the tag of the controller-manager Deployment
  deployedCache, \* the informer's copy of it
  succeeded,     \* history: the phases whose Job, owned by cr, has succeeded
  faults, edits  \* bounds

crVars    == <<cr, watch>>
caches    == <<cached, jobCache, backupCache, deployedCache>>
cluster   == <<jobs, backup, deployed, succeeded>>
vars == <<cr, watch, cached, worker, jobs, jobCache, backup, backupCache,
          deployed, deployedCache, succeeded, faults, edits>>

PCs == {"idle", "dispatch", "backedUp", "start", "enter", "fail", "finalize"}

Workers == [pc : PCs, upgrade : Upgrades, phase : Phases, version : MaybeTags]

Idle == [pc |-> "idle", upgrade |-> Gone(0, 0), phase |-> "", version |-> NoVersion]

\* The worker at pc, holding the in-memory object u; phase is the phase to
\* start or to enter next.
At(pc, u, phase) ==
  IF pc = "idle" THEN Idle
  ELSE [pc |-> pc, upgrade |-> u, phase |-> phase, version |-> NoVersion]

TypeOK ==
  /\ cr \in Upgrades
  /\ watch \in Seq(Upgrades)
  /\ cached \in Upgrades
  /\ worker \in Workers
  /\ jobs \in [JobPhases -> Jobs]
  /\ jobCache \in [JobPhases -> Jobs]
  /\ backup \in [exists : BOOLEAN, owner : Nat]
  /\ backupCache \in [exists : BOOLEAN, owner : Nat, fresh : BOOLEAN]
  /\ deployed \in Tags
  /\ deployedCache \in Tags
  /\ succeeded \subseteq JobPhases
  /\ faults \in 0..MaxFaults
  /\ edits \in 0..MaxEdits

Init ==
  /\ cr = Gone(0, 0)
  /\ watch = <<>>
  /\ cached = Gone(0, 0)
  /\ worker = Idle
  /\ jobs = [p \in JobPhases |-> NoJob]
  /\ jobCache = [p \in JobPhases |-> NoJob]
  /\ backup = [exists |-> FALSE, owner |-> 0]
  /\ backupCache = [exists |-> FALSE, owner |-> 0, fresh |-> TRUE]
  /\ deployed = InstalledTag
  /\ deployedCache = InstalledTag
  /\ succeeded = {}
  /\ faults = 0
  /\ edits = 0

----------------------------------------------------------------------------
(***************************************************************************)
(* Writes to the API server.                                               *)
(***************************************************************************)

Charge(kind) ==
  /\ kind \in FaultKinds
  /\ faults < MaxFaults
  /\ faults' = faults + 1

\* Faulty: the update is sent without a resource version, the last one wins.
AcceptsAnyVersion(u) == cr.exists /\ u.uid = cr.uid

\* The server takes an update only from a writer that has the latest version.
Accepts(u) == cr.exists /\ u.uid = cr.uid /\ u.rv = cr.rv

\* The server stores u and notifies watchers.
Store(u) ==
  /\ cr' = u
  /\ watch' = Append(watch, u)

\* A change of the stored resource takes the next resource version.
Save(u) == Store([u EXCEPT !.rv = @ + 1])

\* r.Status().Update: on success the worker goes on, at pc, with the object
\* the server returned; on a conflict, a missing object or an error the
\* handler returns the error.  "lost": the server stored it, the answer was
\* an error.
UpdateStatus(u, status, pc, phase) ==
  /\ \/ /\ Accepts(u)
        /\ Save([cr EXCEPT !.status = status])
        /\ worker' = At(pc, cr', phase)
        /\ UNCHANGED faults
     \/ /\ ~Accepts(u)
        /\ worker' = Idle
        /\ UNCHANGED <<crVars, faults>>
     \/ /\ Charge("error")
        /\ worker' = Idle
        /\ UNCHANGED crVars
     \/ /\ Accepts(u)
        /\ Charge("lost")
        /\ Save([cr EXCEPT !.status = status])
        /\ worker' = Idle
  /\ UNCHANGED <<caches, cluster, edits>>

\* r.Create of a Job whose name is taken leaves the Job that has it.
CreateJob(p, job) ==
  jobs' = IF jobs[p].state = "absent" THEN [jobs EXCEPT ![p] = job] ELSE jobs

\* Every start function gives the Job an owner and creates it.  An owner in
\* another namespace is refused: a stage returns the error, a rollback marks
\* the upgrade failed.  Of Create, AlreadyExists counts as success, and any
\* other error marks the upgrade failed.
StartJob(p, job, u) ==
  /\ \/ /\ u.spec.namespace = "foreign"
        /\ worker' = At(IF p = "RollingBack" THEN "fail" ELSE "idle", u, "")
        /\ UNCHANGED <<jobs, faults>>
     \/ /\ u.spec.namespace # "foreign"
        /\ CreateJob(p, job)
        /\ worker' = At("enter", u, p)
        /\ UNCHANGED faults
     \/ /\ u.spec.namespace # "foreign"
        /\ Charge("error")
        /\ worker' = At("fail", u, "")
        /\ UNCHANGED jobs
     \/ /\ u.spec.namespace # "foreign"
        /\ Charge("lost")
        /\ CreateJob(p, job)
        /\ worker' = At("fail", u, "")
  /\ UNCHANGED <<crVars, caches, backup, deployed, succeeded, edits>>

----------------------------------------------------------------------------
(***************************************************************************)
(* Reconcile: what the worker holds when its switch reaches a phase.  The  *)
(* worker may run at any time: every phase that is not terminal requeues.  *)
(***************************************************************************)

Loaded == IF worker.pc = "dispatch" THEN worker.upgrade ELSE cached

Dispatches(phase) ==
  /\ worker.pc \in {"idle", "dispatch"}
  /\ Live(Loaded)
  /\ Loaded.finalizer
  /\ Loaded.status.phase = phase

AddFinalizer ==
  /\ worker.pc = "idle"
  /\ Live(cached)
  /\ ~cached.finalizer
  /\ \/ /\ Accepts(cached)
        /\ Save([cr EXCEPT !.finalizer = TRUE])
        /\ worker' = At("dispatch", cr', "")
        /\ UNCHANGED faults
     \/ /\ Accepts(cached)
        /\ Charge("lost")
        /\ Save([cr EXCEPT !.finalizer = TRUE])
        /\ UNCHANGED worker
  /\ UNCHANGED <<caches, cluster, edits>>

fail ==
  /\ worker.pc = "fail"
  /\ UpdateStatus(worker.upgrade,
                  [worker.upgrade.status EXCEPT !.phase = "Failed"], "idle", "")

\* Deletes the Jobs its cache shows in spec.namespace; a failed delete is
\* only logged.  With the namespace omitted or foreign it finds none.
handleDeletion ==
  /\ worker.pc = "idle"
  /\ cached.exists /\ cached.deleting /\ cached.finalizer
  /\ LET found == {p \in JobPhases : /\ cached.spec.namespace = "own"
                                     /\ jobCache[p].state # "absent"}
     IN \E missed \in SUBSET found :
          /\ IF missed = {} THEN UNCHANGED faults ELSE Charge("deletion")
          /\ jobs' = [p \in JobPhases |-> IF p \in found \ missed THEN NoJob
                                                                  ELSE jobs[p]]
  /\ worker' = At("finalize", cached, "")
  /\ UNCHANGED <<crVars, caches, backup, deployed, succeeded, edits>>

\* Faulty: the finalizer is removed from the copy in memory only.
RemoveFinalizerInMemory ==
  /\ worker.pc = "finalize"
  /\ worker' = Idle
  /\ UNCHANGED <<crVars, caches, cluster, faults, edits>>

RemoveFinalizer ==
  /\ worker.pc = "finalize"
  /\ \/ /\ Accepts(worker.upgrade)
        /\ Save(Gone(cr.uid, cr.rv))
        /\ UNCHANGED faults
     \/ /\ ~Accepts(worker.upgrade)
        /\ UNCHANGED <<crVars, faults>>
     \/ /\ Charge("deletion")
        /\ UNCHANGED crVars
  /\ worker' = Idle
  /\ UNCHANGED <<caches, cluster, edits>>

----------------------------------------------------------------------------
(***************************************************************************)
(* Validation.                                                             *)
(***************************************************************************)

startValidation ==
  /\ Dispatches("")
  /\ UpdateStatus(Loaded, [Loaded.status EXCEPT !.phase = "Validating", !.stage = 0],
                  "idle", "")

detectDeployedVersion == VPrefixed[deployedCache]

\* Steps 1 to 5.  A refusal is always possible: a read can fail, or a remote
\* cluster can lower the minimum version below what the matrix accepts.
ChecksRefuse ==
  /\ Dispatches("Validating")
  /\ worker' = At("fail", Loaded, "")
  /\ UNCHANGED <<crVars, caches, cluster, faults, edits>>

\* The worker after step 6, holding the local version found in step 2.
BackedUp(u) ==
  [pc |-> "backedUp", upgrade |-> [u EXCEPT !.status.backupReady = TRUE],
   phase |-> "", version |-> detectDeployedVersion]

WriteBackup(record) ==
  /\ backup' = record
  /\ backupCache' = [backupCache EXCEPT !.fresh = FALSE]

\* Faulty: the error of Create or Update is only logged.
backupEnvironmentConfigLogsError(u) ==
  /\ WriteBackup(backup)
  /\ worker' = BackedUp(u)
  /\ UNCHANGED faults

\* Step 6: create the ConfigMap when the cache has none, otherwise update it
\* under the cached version, which leaves its owner as it was.  Create on a
\* taken name, Update with a version that is not the latest, and an owner in
\* another namespace are errors, and an error fails the upgrade.
backupEnvironmentConfig(u) ==
  LET written == IF backupCache.exists THEN backup
                                       ELSE [exists |-> TRUE, owner |-> u.uid]
      possible == /\ u.spec.namespace # "foreign"
                  /\ IF backupCache.exists THEN backupCache.fresh
                                           ELSE ~backup.exists
  IN \/ /\ possible
        /\ WriteBackup(written)
        /\ worker' = BackedUp(u)
        /\ UNCHANGED faults
     \/ /\ ~possible
        /\ worker' = At("fail", u, "")
        /\ UNCHANGED <<backup, backupCache, faults>>
     \/ /\ Charge("error")
        /\ worker' = At("fail", u, "")
        /\ UNCHANGED <<backup, backupCache>>
     \/ /\ possible
        /\ Charge("lost")
        /\ WriteBackup(written)
        /\ worker' = At("fail", u, "")

performValidation ==
  /\ Dispatches("Validating")
  /\ <<detectDeployedVersion, Loaded.spec.target>> \in Compatible
  /\ backupEnvironmentConfig(Loaded)
  /\ UNCHANGED <<crVars, cached, jobs, jobCache, deployed, deployedCache,
                 succeeded, edits>>

\* Step 7 finds the controller-manager not ready.
HealthRefuses ==
  /\ worker.pc = "backedUp"
  /\ worker' = At("fail", worker.upgrade, "")
  /\ UNCHANGED <<crVars, caches, cluster, faults, edits>>

\* Faulty: the previous version is left out of the status updates.
FinishValidationUnsaved ==
  /\ worker.pc = "backedUp"
  /\ UpdateStatus(worker.upgrade,
                  [worker.upgrade.status EXCEPT !.conditions = {"Compatible"}],
                  "start", "FreezingOperations")

\* Step 8 saves the previous version, and the freeze is started.
FinishValidation ==
  /\ worker.pc = "backedUp"
  /\ UpdateStatus(worker.upgrade,
                  [worker.upgrade.status EXCEPT !.previousVersion = worker.version,
                                                !.conditions = {"Compatible"}],
                  "start", "FreezingOperations")

----------------------------------------------------------------------------
(***************************************************************************)
(* The stages: build and create the Job, then enter the phase.             *)
(***************************************************************************)

RunningJob(u, version, last) ==
  [state |-> "running", owner |-> u.uid, version |-> version, last |-> last]

buildFreezeOperationsJob(u) == RunningJob(u, NoVersion, "")

buildCRDUpgradeJob(u) == RunningJob(u, u.spec.target, "")

buildControllerManagerUpgradeJob(u) == RunningJob(u, u.spec.target, "")

buildNetworkFabricUpgradeJob(u) == RunningJob(u, u.spec.target, "")

\* What a start function does to the object in memory; a later write of it,
\* also one by fail, saves the stage number.
InStage(u, p) == [u EXCEPT !.status.stage = StageNumber(p)]

\* The worker has saved what precedes stage p and calls its start function.
Starting(p) == worker.pc = "start" /\ worker.phase = p

startFreezeOperations ==
  /\ Starting("FreezingOperations")
  /\ StartJob("FreezingOperations", buildFreezeOperationsJob(worker.upgrade),
              InStage(worker.upgrade, "FreezingOperations"))

startCRDUpgrade(u) ==
  StartJob("UpgradingCRDs", buildCRDUpgradeJob(u), InStage(u, "UpgradingCRDs"))

startControllerManagerUpgrade ==
  /\ Starting("UpgradingControllerManager")
  /\ StartJob("UpgradingControllerManager",
              buildControllerManagerUpgradeJob(worker.upgrade),
              InStage(worker.upgrade, "UpgradingControllerManager"))

startNetworkFabricUpgrade ==
  /\ Starting("UpgradingNetworkFabric")
  /\ StartJob("UpgradingNetworkFabric",
              buildNetworkFabricUpgradeJob(worker.upgrade),
              InStage(worker.upgrade, "UpgradingNetworkFabric"))

\* Faulty: the rollback Job is built, like the others, for the target.
buildRollbackJobToTarget(u) ==
  RunningJob(u, u.spec.target, u.status.lastSuccessfulPhase)

buildRollbackJob(u) ==
  RunningJob(u, u.status.previousVersion, u.status.lastSuccessfulPhase)

startRollback(u) ==
  \/ /\ u.spec.autoRollback
     /\ StartJob("RollingBack", buildRollbackJob(u), u)
  \/ /\ ~u.spec.autoRollback
     /\ worker' = At("fail", u, "")
     /\ UNCHANGED <<crVars, caches, cluster, faults, edits>>

\* The status write that ends a start function.
EnterPhase ==
  /\ worker.pc = "enter"
  /\ UpdateStatus(worker.upgrade,
                  [worker.upgrade.status EXCEPT
                     !.phase = worker.phase,
                     !.conditions = @ \cup IF worker.phase = "RollingBack"
                                           THEN {"RollbackRequired"} ELSE {}],
                  "idle", "")

----------------------------------------------------------------------------
(***************************************************************************)
(* Monitoring.  A Job is looked up in spec.namespace as it stands: with    *)
(* the namespace omitted, or edited since the Job was created, it is not   *)
(* found and the monitor waits.                                            *)
(***************************************************************************)

\* Faulty: that the Job exists is taken for its result.
ObservesAny(p, state) ==
  /\ Dispatches(p)
  /\ Loaded.spec.namespace = "own"
  /\ jobCache[p].state # "absent"

Observes(p, state) ==
  /\ Dispatches(p)
  /\ Loaded.spec.namespace = "own"
  /\ jobCache[p].state = state

\* Faulty: the status write between two stages forgets the stage.
SaveNothing(p, pc, phase) == UpdateStatus(Loaded, Loaded.status, pc, phase)

\* Faulty: the previous version is detected again after each stage.
SaveLastSuccessfulRedetects(p, pc, phase) ==
  UpdateStatus(Loaded, [Loaded.status EXCEPT
                          !.lastSuccessfulPhase = p,
                          !.previousVersion = detectDeployedVersion], pc, phase)

SaveLastSuccessful(p, pc, phase) ==
  UpdateStatus(Loaded, [Loaded.status EXCEPT !.lastSuccessfulPhase = p], pc, phase)

monitorFreezeOperations ==
  \/ /\ Observes("FreezingOperations", "succeeded")
     /\ startCRDUpgrade(Loaded)
  \/ /\ Observes("FreezingOperations", "failed")
     /\ startRollback(Loaded)

monitorCRDUpgrade ==
  \/ /\ Observes("UpgradingCRDs", "succeeded")
     /\ SaveLastSuccessful("UpgradingCRDs", "start", "UpgradingControllerManager")
  \/ /\ Observes("UpgradingCRDs", "failed")
     /\ startRollback(Loaded)

\* Faulty: the stage about to start is saved instead of the one that ended.
monitorControllerManagerUpgradeAhead ==
  \/ /\ Observes("UpgradingControllerManager", "succeeded")
     /\ SaveLastSuccessful("UpgradingNetworkFabric", "start",
                           "UpgradingNetworkFabric")
  \/ /\ Observes("UpgradingControllerManager", "failed")
     /\ startRollback(Loaded)

monitorControllerManagerUpgrade ==
  \/ /\ Observes("UpgradingControllerManager", "succeeded")
     /\ SaveLastSuccessful("UpgradingControllerManager", "start",
                           "UpgradingNetworkFabric")
  \/ /\ Observes("UpgradingControllerManager", "failed")
     /\ startRollback(Loaded)

\* Faulty: success and failure of the Job are swapped.
monitorNetworkFabricUpgradeSwapped ==
  \/ /\ Observes("UpgradingNetworkFabric", "failed")
     /\ SaveLastSuccessful("UpgradingNetworkFabric", "enter", "Verifying")
  \/ /\ Observes("UpgradingNetworkFabric", "succeeded")
     /\ startRollback(Loaded)

\* Verification is entered without a Job: startVerification only writes.
monitorNetworkFabricUpgrade ==
  \/ /\ Observes("UpgradingNetworkFabric", "succeeded")
     /\ SaveLastSuccessful("UpgradingNetworkFabric", "enter", "Verifying")
  \/ /\ Observes("UpgradingNetworkFabric", "failed")
     /\ startRollback(Loaded)

\* Faulty: verification checks the health of the Deployment, not its version.
performVerificationOfHealth ==
  /\ Dispatches("Verifying")
  /\ \/ UpdateStatus(Loaded,
                     [Loaded.status EXCEPT
                        !.phase = "Completed",
                        !.conditions = @ \cup {"Healthy"}], "idle", "")
     \/ startRollback(Loaded)

\* The second disjunct: not ready, no version, or another version.  In a
\* foreign namespace there is no controller-manager to be found.
performVerification ==
  /\ Dispatches("Verifying")
  /\ \/ /\ Loaded.spec.namespace # "foreign"
        /\ detectDeployedVersion = Loaded.spec.target
        /\ UpdateStatus(Loaded,
                        [Loaded.status EXCEPT
                           !.phase = "Completed",
                           !.conditions = @ \cup {"Healthy"}], "idle", "")
     \/ startRollback(Loaded)

\* Faulty: a rollback Job that failed is waited for.
monitorRollbackWaits ==
  /\ Observes("RollingBack", "succeeded")
  /\ UpdateStatus(Loaded,
                  [Loaded.status EXCEPT !.phase = "Failed", !.rolledBack = TRUE],
                  "idle", "")

monitorRollback ==
  \E outcome \in {"succeeded", "failed"} :
    /\ Observes("RollingBack", outcome)
    /\ UpdateStatus(Loaded,
                    [Loaded.status EXCEPT !.phase = "Failed",
                                          !.rolledBack = (outcome = "succeeded")],
                    "idle", "")

WorkerStep ==
  \/ AddFinalizer \/ handleDeletion \/ RemoveFinalizer \/ fail
  \/ startValidation \/ ChecksRefuse \/ performValidation
  \/ HealthRefuses \/ FinishValidation
  \/ startFreezeOperations \/ startControllerManagerUpgrade
  \/ startNetworkFabricUpgrade \/ EnterPhase
  \/ monitorFreezeOperations \/ monitorCRDUpgrade
  \/ monitorControllerManagerUpgrade \/ monitorNetworkFabricUpgrade
  \/ performVerification \/ monitorRollback

----------------------------------------------------------------------------
(***************************************************************************)
(* Users.                                                                  *)
(***************************************************************************)

SpecChoices == [target : Targets, autoRollback : AutoRollbacks,
                namespace : Namespaces]

CreateUpgrade ==
  /\ ~cr.exists
  /\ cr.uid < MaxIncarnations
  /\ \E spec \in SpecChoices :
       Store([Gone(cr.uid + 1, 1) EXCEPT !.exists = TRUE, !.spec = spec])
  /\ succeeded' = {}
  /\ UNCHANGED <<caches, worker, jobs, backup, deployed, faults, edits>>

\* No field of the spec is immutable, and none is ever compared with what it
\* was when the upgrade was accepted.
EditUpgrade ==
  /\ cr.exists
  /\ edits < MaxEdits
  /\ \E spec \in SpecChoices \ {cr.spec} :
       Save([cr EXCEPT !.spec = spec])
  /\ edits' = edits + 1
  /\ UNCHANGED <<caches, worker, cluster, faults>>

DeleteUpgrade ==
  /\ Live(cr)
  /\ cr.uid <= MaxDeletions
  /\ Save(IF cr.finalizer THEN [cr EXCEPT !.deleting = TRUE]
                          ELSE Gone(cr.uid, cr.rv))
  /\ UNCHANGED <<caches, worker, cluster, faults, edits>>

(***************************************************************************)
(* Informers, the process, and the Job controller with its pods.           *)
(***************************************************************************)

DeliverCR ==
  /\ watch # <<>>
  /\ cached' = Head(watch)
  /\ watch' = Tail(watch)
  /\ UNCHANGED <<cr, worker, jobCache, backupCache, deployedCache, cluster,
                 faults, edits>>

\* One informer carries all Jobs, in the order of their changes, so its copy
\* is what all of them were at one earlier moment.
SyncJobs ==
  /\ jobCache # jobs
  /\ jobCache' = jobs
  /\ UNCHANGED <<crVars, worker, cached, backupCache, deployedCache, cluster,
                 faults, edits>>

LatestBackup == [exists |-> backup.exists, owner |-> backup.owner, fresh |-> TRUE]

SyncBackup ==
  /\ ~backupCache.fresh
  /\ backupCache' = LatestBackup
  /\ UNCHANGED <<crVars, worker, cached, jobCache, deployedCache, cluster,
                 faults, edits>>

SyncDeployment ==
  /\ deployedCache # deployed
  /\ deployedCache' = deployed
  /\ UNCHANGED <<crVars, worker, cached, jobCache, backupCache, cluster,
                 faults, edits>>

\* The manager restarts: its memory is lost and its caches are listed anew.
Crash ==
  /\ Charge("crash")
  /\ worker' = Idle
  /\ cached' = cr
  /\ watch' = <<>>
  /\ jobCache' = jobs
  /\ backupCache' = LatestBackup
  /\ deployedCache' = deployed
  /\ UNCHANGED <<cr, cluster, edits>>

\* The controller-manager script and the rollback script set the image of
\* the controller-manager and check it at the end; the other scripts leave it.
SetsImage(p) == p \in {"UpgradingControllerManager", "RollingBack"}

JobApplies(p) ==
  /\ SetsImage(p)
  /\ jobs[p].state = "running"
  /\ deployed' = jobs[p].version
  /\ jobs' = [jobs EXCEPT ![p].state = "applied"]
  /\ UNCHANGED <<crVars, caches, worker, backup, succeeded, faults, edits>>

JobSucceeds(p) ==
  /\ IF SetsImage(p) THEN jobs[p].state = "applied" /\ deployed = jobs[p].version
                     ELSE jobs[p].state = "running"
  /\ jobs' = [jobs EXCEPT ![p].state = "succeeded"]
  /\ succeeded' = IF jobs[p].owner = cr.uid THEN succeeded \cup {p} ELSE succeeded
  /\ UNCHANGED <<crVars, caches, worker, backup, deployed, faults, edits>>

JobFails(p) ==
  /\ \/ p \in FailingJobs /\ jobs[p].state \in {"running", "applied"}
     \/ jobs[p].state = "applied" /\ deployed # jobs[p].version
  /\ jobs' = [jobs EXCEPT ![p].state = "failed"]
  /\ UNCHANGED <<crVars, caches, worker, backup, deployed, succeeded, faults, edits>>

\* u is later than the phase in which job p of the same resource is awaited.
PastPhase(u, p) ==
  \/ ~u.exists
  \/ u.uid # jobs[p].owner
  \/ Rank(u.status.phase) > Rank(p)

\* Faulty: a TTL of 0 seconds.
JobExpiresAtOnce(p) ==
  /\ Finished(jobs[p])
  /\ jobs' = [jobs EXCEPT ![p] = NoJob]
  /\ UNCHANGED <<crVars, caches, worker, backup, deployed, succeeded, faults, edits>>

\* The controller has no more use for the result of job p.
Used(p) == PastPhase(cached, p) /\ PastPhase(worker.upgrade, p)

\* TTLSecondsAfterFinished: five minutes after it finished the Job is deleted,
\* whether or not the controller has read its result.
JobExpires(p) ==
  /\ Finished(jobs[p])
  /\ \/ Used(p) /\ UsedJobsExpire /\ UNCHANGED faults
     \/ ~Used(p) /\ Charge("expiry")
  /\ jobs' = [jobs EXCEPT ![p] = NoJob]
  /\ UNCHANGED <<crVars, caches, worker, backup, deployed, succeeded, edits>>

OwnerAlive(owner) == cr.exists /\ cr.uid = owner

\* The garbage collector deletes what a resource that is gone owned.
CollectJob(p) ==
  /\ jobs[p].state # "absent"
  /\ ~OwnerAlive(jobs[p].owner)
  /\ jobs' = [jobs EXCEPT ![p] = NoJob]
  /\ UNCHANGED <<crVars, caches, worker, backup, deployed, succeeded, faults, edits>>

CollectBackup ==
  /\ backup.exists
  /\ ~OwnerAlive(backup.owner)
  /\ WriteBackup([exists |-> FALSE, owner |-> 0])
  /\ UNCHANGED <<crVars, cached, jobCache, deployedCache, worker, jobs, deployed,
                 succeeded, faults, edits>>

----------------------------------------------------------------------------

Next ==
  \/ WorkerStep
  \/ CreateUpgrade \/ EditUpgrade \/ DeleteUpgrade
  \/ DeliverCR \/ SyncJobs \/ SyncBackup \/ SyncDeployment \/ Crash
  \/ CollectBackup
  \/ \E p \in JobPhases : \/ JobApplies(p) \/ JobSucceeds(p) \/ JobFails(p)
                          \/ JobExpires(p) \/ CollectJob(p)

Spec == Init /\ [][Next]_vars

\* The worker is requeued until its upgrade is terminal, and informers
\* deliver.  Nothing makes a Job end: it has no deadline, its pod may never
\* start and its curl has no timeout.
Fairness ==
  /\ WF_vars(WorkerStep)
  /\ WF_vars(DeliverCR)
  /\ WF_vars(SyncBackup)
  /\ WF_vars(SyncDeployment)
  /\ WF_vars(SyncJobs)

FairSpec == Spec /\ Fairness

----------------------------------------------------------------------------
(***************************************************************************)
(* Safety.  Several properties speak of the first resource of the name     *)
(* only: a later one finds the Jobs, the backup and the caches of the      *)
(* earlier ones, and for it they fail.                                     *)
(***************************************************************************)

FirstIncarnation == cr.uid <= 1

StagesBefore(p) == {q \in Stages : Rank(q) < Rank(p)}

\* Two Jobs never change the cluster at the same time: a stage is over before
\* the next stage or the rollback starts, however stale the monitor's caches
\* and wherever the process crashes between creating a Job and saving it.
OneJobAtATime ==
  FirstIncarnation =>
    \A p, q \in JobPhases :
      {jobs[p].state, jobs[q].state} \subseteq {"running", "applied"} => p = q

\* A stage's Job exists only after every earlier stage's Job of the same
\* upgrade has succeeded: no start function runs ahead on a stale read.
StagesInOrder ==
  FirstIncarnation =>
    \A p \in Stages : jobs[p].state # "absent" =>
      StagesBefore(p) \subseteq succeeded

\* Completed means that every stage's Job did succeed for this upgrade.
CompletedMeansAllStagesRan ==
  FirstIncarnation /\ cr.status.phase = "Completed" => Stages \subseteq succeeded

\* lastSuccessfulPhase, from which the rollback script decides whether to
\* roll the network fabric back, names a stage that did succeed.
LastSuccessfulPhaseIsHonest ==
  cr.status.lastSuccessfulPhase # "" =>
    /\ cr.status.lastSuccessfulPhase \in Stages
    /\ FirstIncarnation => cr.status.lastSuccessfulPhase \in succeeded

\* The version that validation saved, and the rollback restores, is the one
\* that was installed: a validation that is repeated late, from a stale copy,
\* cannot replace it by the version the upgrade has meanwhile deployed.
PreviousVersionIsInstalled ==
  FirstIncarnation =>
    cr.status.previousVersion \in {NoVersion, VPrefixed[InstalledTag]}

\* A rollback Job restores the version its own upgrade saved, never the empty
\* one, and knows the last stage that succeeded: the copy it is built from
\* is not older than validation's last write.
RollbackKnowsVersion ==
  LET job == jobs["RollingBack"]
  IN job.state # "absent" /\ OwnerAlive(job.owner) =>
       /\ job.version = cr.status.previousVersion
       /\ job.version # NoVersion
       /\ FirstIncarnation => job.last = cr.status.lastSuccessfulPhase

\* An upgrade reported as rolled back left the previous version deployed.
RolledBackMeansRestored ==
  FirstIncarnation /\ cr.status.rolledBack =>
    /\ cr.status.phase = "Failed"
    /\ deployed = cr.status.previousVersion

\* No stage starts without the backup that its script looks for, whatever the
\* cache made validation believe of it and at whatever write it was interrupted.
StagesHaveBackup ==
  /\ FirstIncarnation /\ cr.exists
  /\ cr.status.phase \in Stages \cup {"Verifying", "RollingBack", "Completed"}
  => cr.status.backupReady /\ backup.exists /\ backup.owner = cr.uid

----------------------------------------------------------------------------
(***************************************************************************)
(* Action properties.                                                      *)
(***************************************************************************)

\* Within one resource the phase never goes back, and once it is terminal no
\* write changes the status again: the stale writers all lose.
StatusAdvances ==
  cr'.uid = cr.uid /\ cr'.exists =>
    /\ Rank(cr'.status.phase) >= Rank(cr.status.phase)
    /\ cr.status.phase \in Terminal => cr'.status = cr.status

PhaseOnlyAdvances == [][StatusAdvances]_vars

\* The previous version is saved once: once the freeze Job may exist, no
\* write of the same resource changes it.
VersionFrozen ==
  cr'.uid = cr.uid /\ cr'.exists /\ cr.status.phase \notin {"", "Validating"} =>
    cr'.status.previousVersion = cr.status.previousVersion

PreviousVersionFrozen == [][VersionFrozen]_vars

\* A stage's Job is never created again after it has succeeded.
JobNotRepeated ==
  \A p \in Stages :
    FirstIncarnation /\ jobs[p].state = "absent" /\ jobs'[p].state = "running" =>
      p \notin succeeded

NoStageRepeats == [][JobNotRepeated]_vars

\* The target that verification compared is the target in the resource at the
\* moment the upgrade becomes Completed, however late an edit of it arrives.
CompletionChecks ==
  cr.status.phase # "Completed" /\ cr'.status.phase = "Completed" =>
    cr'.spec.target = detectDeployedVersion

CompletionChecksCurrentTarget == [][CompletionChecks]_vars

----------------------------------------------------------------------------
(***************************************************************************)
(* The status an outsider reads implements UpgradeLifecycle.               *)
(***************************************************************************)

Lifecycle == INSTANCE UpgradeLifecycle WITH
  uid                 <- cr.uid,
  alive               <- cr.exists,
  phase               <- cr.status.phase,
  previousVersion     <- cr.status.previousVersion,
  lastSuccessfulPhase <- cr.status.lastSuccessfulPhase,
  rolledBack          <- cr.status.rolledBack

\* Every write that reaches the server is a step of the lifecycle, whatever
\* the reconciler knew when it decided on it: no stage is skipped, left
\* before its success is saved, or entered from a stale phase.
ImplementsLifecycle == Lifecycle!Spec

----------------------------------------------------------------------------
(***************************************************************************)
(* Why the stale writers lose, and why what a handler writes fits the      *)
(* phase it is written over: the facts the proofs carry through each step. *)
(***************************************************************************)

Changing == Stages \cup {"Verifying"}

\* u was the resource at an earlier moment, or is what the server has now.
Agrees(u, server) ==
  /\ u.uid < server.uid \/ (u.uid = server.uid /\ u.rv <= server.rv)
  /\ u.uid = server.uid /\ u.rv = server.rv =>
       /\ u.exists = server.exists
       /\ u.status.phase = server.status.phase
       /\ u.status.previousVersion = server.status.previousVersion
       /\ u.status.lastSuccessfulPhase = server.status.lastSuccessfulPhase
       /\ u.status.rolledBack = server.status.rolledBack

StatusSound(status) ==
  /\ status.phase \in Changing => status.previousVersion # NoVersion
  /\ status.phase = "Verifying" =>
       status.lastSuccessfulPhase = "UpgradingNetworkFabric"

Sound(u) == u.exists => StatusSound(u.status) /\ u.spec.target # NoVersion

\* The phase that a start function may enter from status.
MayEnter(status, phase) ==
  \/ status.phase = "Validating" /\ phase = "FreezingOperations"
  \/ status.phase = "FreezingOperations" /\ phase = "UpgradingCRDs"
  \/ /\ status.lastSuccessfulPhase = status.phase
     /\ \/ status.phase = "UpgradingCRDs" /\ phase = "UpgradingControllerManager"
        \/ /\ status.phase = "UpgradingControllerManager"
           /\ phase = "UpgradingNetworkFabric"
        \/ status.phase = "UpgradingNetworkFabric" /\ phase = "Verifying"
  \/ status.phase \in Changing /\ phase = "RollingBack"

CopiesCoherent ==
  /\ Sound(cr)
  /\ Agrees(Idle.upgrade, cr)
  /\ Agrees(cached, cr) /\ Sound(cached)
  /\ Agrees(worker.upgrade, cr) /\ Sound(worker.upgrade)
  /\ \A i \in 1..Len(watch) : Agrees(watch[i], cr) /\ Sound(watch[i])

\* What is true of the object u that the worker w holds between two writes.
WorkerCoherent(w) ==
  /\ w.pc \in {"start", "enter", "fail", "backedUp"} => w.upgrade.exists
  /\ w.pc \in {"start", "enter"} =>
       /\ w.upgrade.status.previousVersion # NoVersion
       /\ MayEnter(w.upgrade.status, w.phase)
  /\ w.pc = "fail" => w.upgrade.status.phase \in Changing \cup {"Validating"}
  /\ w.pc = "backedUp" =>
       w.upgrade.status.phase = "Validating" /\ w.version # NoVersion

JobsNameVersions ==
  \A p \in JobPhases :
    SetsImage(p) /\ jobs[p].state # "absent" => jobs[p].version # NoVersion

\* A write the server accepts is made from what the server has, by a worker
\* in a handler of that very phase, and no Job sets an empty image tag: true
\* of every resource of the name, whatever was deleted before it.
Coherent == CopiesCoherent /\ WorkerCoherent(worker) /\ JobsNameVersions

----------------------------------------------------------------------------
(***************************************************************************)
(* Liveness, under FairSpec.                                               *)
(***************************************************************************)

Settled == ~Live(cr) \/ cr.status.phase \in Terminal

\* What a phase waits for is not there: its Job has not ended, or its result
\* has expired unread.
AwaitsResult ==
  /\ cr.status.phase \in JobPhases
  /\ ~Finished(jobs[cr.status.phase])

\* An upgrade that is not deleted rests in Completed, in Failed, or with a
\* Job that has no result to read, and nowhere else: every result that is
\* there is acted on, whatever conflict or crash the handler meets.
UpgradeSettles == []<>(Settled \/ AwaitsResult)

\* A deleted resource goes away: the finalizer is removed whatever the Job
\* deletions answer and however often the update conflicts.
DeletionCompletes == cr.deleting ~> ~cr.deleting

----------------------------------------------------------------------------
(***************************************************************************)
(* What the documents say and the code does not keep.                      *)
(***************************************************************************)

\* "Completed: Upgrade finished successfully": the cluster runs the target.
CompletedRunsTarget ==
  FirstIncarnation /\ cr.status.phase = "Completed" =>
    deployed = cr.spec.target

\* "Automatic rollback": with autoRollback on, an upgrade does not rest in
\* Failed on a version it has itself deployed, unless a rollback Job failed.
FailedWasRolledBack ==
  /\ FirstIncarnation
  /\ cr.status.phase = "Failed"
  /\ cr.spec.autoRollback
  /\ "RollbackRequired" \notin cr.status.conditions
  => deployed = InstalledTag

=============================================================================
