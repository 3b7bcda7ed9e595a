# Verification of the Liqo upgrade controller

TLA+ models of the controller in `src/internal/controller`, checked with TLC on
small instances, and theorems about them proved with TLAPS for every value of
the constants. `PROJECT.json` lists the runs, the mutants that show what each
property is sensitive to, the source lines behind each definition, the hazards
and the findings.

1. [The system](#1-the-system)
2. [The modules](#2-the-modules)
3. [The model and the code](#3-the-model-and-the-code)
4. [What the runs check](#4-what-the-runs-check)
5. [What is proved](#5-what-is-proved)
6. [Where code and documents disagree](#6-where-code-and-documents-disagree)
7. [What is not modelled](#7-what-is-not-modelled)
8. [Plan](#8-plan)

## 1. The system

The controller upgrades a Liqo installation. A user creates a `LiqoUpgrade`
with a target version; the reconciler moves the resource's `status.phase`
forward, one phase per reconcile, and has a Kubernetes Job do the work of each
stage:

    "" -> Validating -> FreezingOperations -> UpgradingCRDs
       -> UpgradingControllerManager -> UpgradingNetworkFabric
       -> Verifying -> Completed
    any stage or Verifying -> RollingBack -> Failed
    Validating, or a stage that cannot start or roll back -> Failed

| Component | Source | State | Operations | Correct when |
|---|---|---|---|---|
| Reconciler, phase machine | `liqoupgrade_controller.go`, `helpers.go` | the resource's status, finalizer, resource version; a requeue | `Reconcile`, `updateStatus`, `fail`, `handleDeletion` | phases advance in order and end; a deleted resource goes |
| Validation and backup | `validation.go` | previousVersion, backupReady, the backup ConfigMap | `startValidation`, `performValidation` and its helpers | only an accepted target starts; previousVersion is what was installed; the backup exists |
| Stage handlers | `freeze_operations.go`, `crd_upgrade.go`, `controller_manager_upgrade.go`, `network_fabric_upgrade.go` | lastSuccessfulPhase, one Job each under a fixed name | `start*`, `monitor*`, `build*Job` | stages run one at a time, in order, once |
| Verification and rollback | `verification.go`, `rollback.go` | phase, rolledBack, the rollback Job | `performVerification`, `startRollback`, `monitorRollback` | Completed means the target runs; a rollback restores what was there |
| Job scripts | the `build*Job` functions | CRDs, Deployments, DaemonSet, gateway templates, gateways | bash run by a pod, one kubectl call after another | a script changes what it says and reports whether it did; nothing new runs on old CRDs |
| Manager process | `cmd/main.go` | caches, work queue, leader lease | start, stop | a restart loses nothing that matters |
| API type | `api/v1alpha1/liqoupgrade_types.go` | the fields above | | |

**How they interact.** Only through the API server. The reconciler reads the
resource, the Jobs, the ConfigMap and the controller-manager Deployment from
informer caches, which lag behind the server by any amount of time, and writes
with optimistic concurrency: an update that was not made from the latest
version of the object is a conflict. A Job is created under a name derived from
the resource's name, and "already exists" counts as success. The Job
controller, the scripts' pods, the garbage collector (owner references), the
Job TTL and users change the same objects meanwhile.

**What is hard.**

- *Stale reads.* Every decision of a handler is made on a copy that may be
  several writes old. A late handler of an earlier phase must not undo what a
  later one did.
- *Two writes per step.* A handler creates a Job and then saves the phase that
  waits for it, or saves one success and then starts the next stage. A crash,
  a conflict, an error or a lost answer can fall in between.
- *Results that go away.* A finished Job is deleted after five minutes, and a
  deleted resource's Jobs and backup are garbage-collected, while a resource of
  the same name may be created again and take them for its own.
- *Fields read twice.* `spec.targetVersion`, `spec.namespace` and
  `spec.autoRollback` are read anew in each phase and may be edited in between.
- *Several upgrades.* Nothing keeps two `LiqoUpgrade`s of different names apart:
  each has Jobs of its own, and all change the same images.
- *Scripts that stop half-way.* A script may end at any command, and some of
  its commands are allowed to fail ("||", "if kubectl get") without ending it.
- *An operator of its own.* Gateways are recreated by Liqo's operator, at its
  own pace, from the templates as they are at that moment.

## 2. The modules

| Module | What it is |
|---|---|
| `UpgradeLifecycle` | the abstract specification: which steps the status of one name takes, as its reader sees them, without caches, Jobs, conflicts or crashes |
| `LiqoUpgradeController` | the reconciler, its caches, the API server's writes, the five Jobs, the backup, the controller-manager's image, and users; the properties |
| `MCLiqoUpgradeController` | version strings for TLC; each `.cfg` gives the other constants. It extends `LiqoUpgradeHistory`, so that TLC checks the invariants that the proofs use |
| `JobContract` | the abstract specification of the Jobs: what the reconciler's model assumes of them |
| `UpgradeJobs` | the scripts command by command, over everything in the cluster that carries a Liqo version; the gateway operator; the properties |
| `MCUpgradeJobs` | two CRD files, a gateway of each kind |
| `LiqoVersions` | steps 1 to 5 of validation: the deployed version, the versions of the remote clusters, the loops that find the lowest, the matrix; the properties |
| `MCLiqoVersions` | versions that differ in length, spelling and numbers, up to two remote clusters, a part of the matrix |
| `ConcurrentUpgrades` | several upgrades of different names over one controller-manager and fabric: it composes `UpgradeLifecycle` with Jobs and a cluster they share; the properties |
| `MCConcurrentUpgrades` | a matrix for two upgrades |
| `UpgradeJobs_proofs` | theorems `JobsTyped`, `StagesOnlyBuildUp`, `CRDsComeFirst`, `ScriptsKeepContract`, `FaultsAreAccountedFor`, `EachMissCostsTwoFaults`, `RollbackMissesCostFaults`, `GatewaysFollowTemplates` |
| `LiqoVersions_proofs` | theorems `TypeCorrect`, `LoopsKeepInvariant`, `LowestIsFound`, `LowestDecides` |
| `ConcurrentUpgrades_proofs` | theorems `TypeCorrect`, `StaysCoherent`, `CompletionIsHonest`, `RollbackIsHonest`, `EachRefines` |
| `LiqoUpgradeController_typing` | lemmas: every step keeps the types |
| `LiqoUpgradeController_proofs` | the inductive invariant; theorems `TypeCorrect`, `CopiesStayCoherent` |
| `LiqoUpgradeController_refinement` | theorems `Refinement`, `PhaseAdvances`, `PreviousVersionStays` |
| `LiqoUpgradeHistory` | no code of its own: the invariants `InOrder`, `History` and `JobsFinal`, stated over `LiqoUpgradeController`, from which its safety properties follow |
| `LiqoUpgradeHistory_order` | theorems `CopiesStayInOrder`, `CompletionComparesTarget` |
| `LiqoUpgradeHistory_proofs` | theorems `HistoryIsKept`, `StagesRunInOrder`, `CompletedRanAllStages`, `LastSuccessfulPhaseSucceeded`, `PreviousVersionWasInstalled`, `BackupIsThere`, `JobsStayFinal`, `AllIsRemembered`, `JobsTakeTurns`, `RollbackRestoresSaved`, `RolledBackIsRestored`, `StagesRunOnce` |

`LiqoUpgradeController_typing`, `_proofs` and `_refinement` extend one another in that
order; `LiqoUpgradeHistory_order` builds on the second of them, and
`LiqoUpgradeHistory_proofs` on that.

`LiqoUpgradeController` and `UpgradeJobs` divide the system between them.
The first has all of the reconciler and reduces a script to its effect on the
controller-manager, which is all the reconciler ever looks at; the second has all of the
scripts and reduces the reconciler to what it does with a result. `JobContract`
is where they meet: its steps are the first one's `JobApplies`,
`JobSucceeds` and `JobFails`, and the second implements it.

`UpgradeLifecycle` is where the first meets `ConcurrentUpgrades`. One name's
status, with its caches and conflicts, implements it (`ImplementsLifecycle`), so
the module of several names starts from the lifecycle's writes and adds the Jobs, whose
creation is a step apart from them, and what the names share; there too each name is shown to implement it (`EachKeepsLifecycle`).
`LiqoVersions` is what `LiqoUpgradeController` has as the constant `Compatible` and the
choice to refuse.

## 3. The model and the code

### The reconciler: state

| Variable | In the code |
|---|---|
| `cr` | the `LiqoUpgrade` of one name in the API server: existence, uid, resource version, deletion timestamp, finalizer, the spec fields a handler reads, the status fields a handler reads or a property is about |
| `watch`, `cached` | watch events not delivered yet, and the informer's copy that `r.Get` returns |
| `worker` | the one reconcile worker (`MaxConcurrentReconciles` is 1): `pc` is where in a handler it is, `upgrade` the object in memory, `phase` what it is about to start or enter, `version` the local variable of `performValidation` |
| `jobs`, `jobCache` | the five Jobs, known by the phase that waits for them, and the informer's copies. `version` and `last` are what the builder rendered into the script |
| `backup`, `backupCache` | the environment-backup ConfigMap and its owner, and the cached copy, `fresh` when it has the latest version |
| `deployed`, `deployedCache` | the image tag of `liqo-controller-manager` |
| `succeeded` | history for the properties: the Jobs of the present resource that have succeeded |
| `faults`, `edits` | bounds only |

### The reconciler: steps

One action ends at one write to the API server. What a handler reads before
that write is part of the action, because a cache that is not refreshed in
between gives the same answer. So each handler of the code is one action, or
two or three that `worker.pc` links, and anything may happen between them:

- `Reconcile`'s finalizer update is `AddFinalizer`; the switch continues with
  the object in memory (`pc = "dispatch"`, read through `Loaded`).
- `performValidation` is `ChecksRefuse` (steps 1-5 refuse), `performValidation`
  (they pass and the backup is written, or fails), `HealthRefuses` (step 7),
  `FinishValidation` (step 8 saves previousVersion), then
  `startFreezeOperations` and `EnterPhase`.
- A `start*` function is the creation of the Job (`StartJob`) and the status
  write of the new phase (`EnterPhase`). Any error of Create but AlreadyExists
  leads to `fail`, whether or not the Job is there. A namespace that is not the
  resource's own is refused before that, by `SetControllerReference`: a stage's start
  then returns the error, a rollback's fails the upgrade.
- A `monitor*` function reads the Job, then saves lastSuccessfulPhase
  (`SaveLastSuccessful`; the freeze saves none) and calls the next start
  function, or calls `startRollback`.
- `handleDeletion` deletes the Jobs it finds; `RemoveFinalizer` is the update
  that follows.

`UpdateStatus` is `updateStatus`: accepted, in conflict, failed, or stored with
the answer lost. After every outcome but the first the handler returns an
error and the next reconcile starts from the cache.

`CreateUpgrade`, `EditUpgrade`, `DeleteUpgrade` are users; `DeliverCR`,
`SyncJobs`, `SyncBackup`, `SyncDeployment` are informers; `Crash` is a restart
of the manager, with caches listed anew; `JobApplies`, `JobSucceeds`,
`JobFails` are the Job controller and the scripts, as far as the
controller-manager's image is concerned; `JobExpires` is the TTL, of a Job whose result every
copy is past (`Used`, if `UsedJobsExpire`), or of any other as a fault of the kind `"expiry"`;
`CollectJob`, `CollectBackup` are the garbage collector.

Abstractions worth knowing:

- A namespace is `"own"`, `"omitted"` (empty in a resource living in `liqo`) or
  `"foreign"`, and an edit may change it like the other fields of the spec. Jobs and backup are created in a namespace that defaults to
  `liqo`, but looked up and deleted in `spec.namespace` as it stands.
- `Compatible` is the relation the matrix defines, by detected version and
  target. Validation may refuse any target (remote clusters can lower the
  minimum version) but passes only pairs in the relation.
- Resource versions count from the creation of each resource; a version is the
  pair of uid and rv.
- Deletion of a Job stops its script at once. In a cluster its pod has a grace
  period.
- The Jobs share one informer, so their cached copies are all of one moment.

### The scripts: `UpgradeJobs`

| Variable | In the code or the cluster |
|---|---|
| `phase`, `lastSuccessfulPhase`, `rolledBack` | the status |
| `job` | the latest Job: stage, `LAST_PHASE` as rendered, state, the next command, what the present loop has dealt with, and whether the CRD script's `FAILED_COUNT` is above 0 |
| `crd` | the version of each CRD |
| `image` | the tag of the controller-manager, ipam, proxy, fabric and of the two gateway templates |
| `wg`, `gateway` | the tag in each `WgGatewayClient` or `WgGatewayServer`, and in its deployment |
| `asked` | gateways annotated for re-creation that the operator has not yet seen |
| `faults` | a bound only |

The operators `CRDScript`, `ControllerManagerScript`, `NetworkFabricScript` and
`RollbackScript` list each script's commands in order; each command is an
action (`ApplyCRD`, `SetTemplate`, `CheckComponent`, ...), a loop over files or
tenant namespaces takes one step for each write in it, and the operator and
the properties see every state in between. The freeze script changes nothing
and is left out.

A script ends in one of two ways. Where a command's failure, a timed-out wait or a
failed check ends it (`set -e`, `exit 1`), or the pod is lost, that is
`JobFails`, possible at any command: `backoffLimit` is 0. Where the code tolerates
a failure it is a *fault* and the script goes on: a CRD file not applied
(counted), an object taken for absent because `kubectl get` failed
(`PassOver`, `Check`), a patch that is only a warning, a gateway or a list of
tenant namespaces not read (`NamespacesNotListed`). `MaxFaults` bounds faults
and nothing else.

`Check` models the scripts' test that an image reference *contains* the target
version, through the constant relation `Contains`; the controller-manager's tag
is compared exactly. `Render` and `Deploy` are Liqo's operator, which is not in
this repository: it renders a gateway that is missing or was asked for, from
the template as it is then, and has the deployment follow. The waits on it end
with a warning at worst, so they are no step.

Of the reconciler there are `StageSucceeded`, `StageFailed`,
`performVerification` and `monitorRollback`. Where Create of the next Job answers an
error the upgrade fails, though the Job may be there all the same and its script runs to its end; it also
fails where `autoRollback` is off.

### The decision: `LiqoVersions`

| Variable | In the code |
|---|---|
| `image`, `remotes`, `matrix`, `target` | the controller-manager's image as its ":"-separated fields, `status.remoteVersion` of the ForeignClusters in the order listed, the matrix as pairs, the target; they never change |
| `local`, `versions`, `minimum` | `localVersion`, `allVersions`, `minVersion` |
| `next`, `part` | the indices of the loop of `findMinimumVersion` and of the one of `compareVersions` |
| `pc` | where in `performValidation` it is |

A version is the record of its leading `v` and of its parts between dots, so that two
spellings of one version are two values, as they are for the matrix, which
is keyed by strings. `Number` is what `Sscanf("%d")` makes of a part: 0 where it reads
none, the digits in front of a suffix (`1-rc` reads as 1). The loops are
actions, one per iteration (`PartsEqual`, `LowerFound`, `NotLower`), not a
recursive operator: what they compute is then an invariant, which can be
proved for lists and versions of any length. `Lower` is the order they are
checked against, stated over the parts and not over the loop's bound.

### Several upgrades: `ConcurrentUpgrades`

| Variable | In the code or the cluster |
|---|---|
| `life` | by name: the resource is not there yet, is live, is marked for deletion, or is gone |
| `upgrade` | by name: the resource's spec and status |
| `seen` | by name: the phases that the copy in a handler's hands may show, the present one and those before |
| `jobs` | by name and phase: the Jobs, with the version and `LAST_PHASE` each was rendered with, and where its script is |
| `deployed`, `fabric` | the version of the controller-manager, and of ipam, proxy and fabric |
| `cache` | `deployed` in the informer's cache, which all validations and verifications read |
| `foreign` | history, by name: the images that another upgrade's script has set since this one's validation, and its own has not set after that |

The handlers are the status writes of the lifecycle, and apart from them the creation of
each phase's Job. `CreateJob` is a Create whose status write may never follow: the controller
crashes, the write conflicts, or the answer was an error (`StartFails`). The Jobs of
the CRD stage and of a rollback are created before their handler writes anything, so also
from a stale copy, also after Failed or Completed was written; the other Jobs follow a write that
was accepted, so the phase is still the one of the copy. `EnterPhase` is the write that follows a Create.
`Starts` says what brings a handler to a Create: for a stage after the CRDs, that the
success before it was saved.

`Delete` marks a resource; until `handleDeletion` a handler may still run on an older copy. `handleDeletion`
deletes the Jobs but may leave any that run: not in the cache, not deleted, or deleted in the background
with the pod still there. `RemoveFinalizer` is a write of its own, and what is left runs on until
`CollectJob`. Left or not, a Job that has ended does nothing more, so the model lets it go.

Scripts set an image, check it, and in a rollback go on to the fabric when
`LAST_PHASE` says so, one step at a time and interleaved with those of other
names: a script whose check finds what another upgrade has set fails. There is one worker, so the handlers
of two names never really overlap; the model lets it turn to another name after every write, which only
adds behaviours.

### Fairness

`FairSpec` of `LiqoUpgradeController` assumes weak fairness of the worker (each phase that is not terminal
returns `RequeueAfter`, an error is retried with backoff, and `Owns(Job)`
triggers as well) and of each informer. A step of the worker is fair as a whole: it is one goroutine.
Nothing is assumed of the Jobs. The builders set no `activeDeadlineSeconds`
(`crd_upgrade.go:168-184` and so in each), a pod may wait for a node or an image for ever, and
`curl` has no timeout (`crd_upgrade.go:109,126`), so no Job need end; `UpgradeSettles` therefore
counts a phase whose Job has no result as a rest. Users, faults, expiry and garbage collection are never forced.

In `UpgradeJobs` only the operator's two steps for each gateway are weakly fair: it is assumed
to act on every gateway in the end. No script is assumed to go on. `ConcurrentUpgrades` has no
fairness and no liveness property.

## 4. What the runs check

Four version strings (`v1.0.0` installed; `v1.0.1`, `1.0.1`, `v2.0.0`) are
enough to tell apart the installed version, the target, the target spelt without its `v`,
and a target the matrix refuses. The other bounds are in each `.cfg`.

| Run | Bounds that matter | Shows |
|---|---|---|
| `faults` | 2 faults (crash, error, lost answer), two of the stages may fail, expiry after use; 0.6M states | all safety and action properties of one upgrade: `OneJobAtATime`, `StagesInOrder`, `CompletedMeansAllStagesRan`, `LastSuccessfulPhaseIsHonest`, `PreviousVersionIsInstalled`, `RollbackKnowsVersion`, `RolledBackMeansRestored`, `StagesHaveBackup`, `PhaseOnlyAdvances`, `PreviousVersionFrozen`, `NoStageRepeats`; the invariants `Coherent` and `Remembered`, and the refinement `ImplementsLifecycle` |
| `edits` | 2 edits of target, autoRollback and namespace, any Job may fail, no faults; 2.0M | a rollback restores the installed version, Jobs stay alone and Completed is decided on the current target |
| `recreate` | 2 resources, the first deleted at any point; 0.3M | the copies of both stay in order (`InOrder`), and the refinement holds over the leftovers of the first |
| `settles` | 1 crash, failed call of a deletion or result that expires unread, namespace own or foreign, a failing stage and rollback; 0.4M | `UpgradeSettles`: an upgrade rests only when it is Completed or Failed, or in a phase whose Job has no result; `DeletionCompletes`: a deleted one goes away |
| `scripts` | 2 tolerated faults, a failure at any command; 80k | `NewCodeNeedsNewCRDs`: nothing of the target runs before every CRD is new; `MissedTwice`: a component escapes the network stage only through two faults; `RollbackMissesOnlyFaulted`; `RecreatedFromNewTemplate`; the invariant `FaultsAccountFor`; `KeepsContract`; `GatewaysConverge`: after Completed every gateway is back and on the target, if at most one fault happened |
| `versions` | three clusters, eight versions and "not reported"; 33k | `MinimumIsLowest`: no cluster has a lower version than the one found; `LowestMayUpgrade`: what is accepted is in the matrix for the lowest version, whatever the order of the list; the invariant `LoopInvariant` |
| `upgrades` | 2 names, three versions, autoRollback on or off, the network stage may fail at any command, 1 deletion; 0.9M, the names are symmetric | `EachKeepsLifecycle`: no upgrade, late Job or left-over Job makes another skip or repeat a stage; `CompletedHolds`, `RolledBackHolds`: each image is what the status claims, unless another upgrade's script has set it since; the invariant `Coherent` |

Two faults suffice to interrupt a handler and then its repetition. One edit
can arrive before and one after a stage has read the spec. Two resources are
enough for one to find what another left.

In `UpgradeJobs`, two faults are what it takes to miss a component, since one
command sets it and another checks it. Two CRD files tell "some" from "all",
and two gateways, one of each kind, let the operator render one while the script is
at the other. Everything is installed; what is absent is
passed over without a fault, and the theorems below hold for any set of installed components.

In `versions`, the parts tell apart numbers of one and two digits, a suffix and
a word; the versions differ in each part, in length and in the leading `v`; two remote
clusters can be listed in either order. In `upgrades`, two names are the
fewest that meet, three versions tell the installed one from two targets, and the
matrix lets the second upgrade go on from where the first has got to. One deletion is enough for
the Jobs of a resource that is gone to run beside another upgrade. That the network stage alone
fails by itself is no loss: the other scripts fail when they find another's image, and
any start may fail.

A fault of the kind `"deletion"` is a call of `handleDeletion` that fails: a Job not
found or not deleted, or a finalizer update that is refused.

`faults` has no fault `"expiry"`: there a Job goes only when every copy is past it, which is what an expiry
of five minutes means for a controller that is running. `settles` has one unread expiry; section 5
and section 6 say what it does.
Several properties speak of the first resource of a name only
(`FirstIncarnation`): a second one takes a Job the first left behind for its own
(AlreadyExists counts as success) and for it they fail. The README of the repository
asks users to wait for the Jobs to go before they try again.

Deadlock is not checked: an upgrade that has ended, with caches up to date, has
nothing left to do.

Each property of these runs is broken by at least one plausible bug: the
definitions marked "Faulty" in the modules are such bugs, and
`PROJECT.json` pairs them with the properties.

## 5. What is proved

For any tags, matrix, number of resources, edits and faults, and for queues of watch
events of any length; for the scripts, any set of CRDs, gateways and installed
components and any number of faults; for the decision, any number of clusters and
versions of any length; and for any number of concurrent upgrades:

| Theorem | States |
|---|---|
| `TypeCorrect` | `Spec => []TypeOK` |
| `CopiesStayCoherent` | `Spec => []Coherent` |
| `Refinement` | `Spec => ImplementsLifecycle`: the reconciler implements `UpgradeLifecycle` |
| `PhaseAdvances` | `Spec => PhaseOnlyAdvances` |
| `PreviousVersionStays` | `Spec => PreviousVersionFrozen` |
| `CopiesStayInOrder` | `Spec => []InOrder` |
| `CompletionComparesTarget` | `Spec => CompletionChecksCurrentTarget` |
| `HistoryIsKept` | `Spec => []History` |
| `StagesRunInOrder` | `Spec => []StagesInOrder` |
| `CompletedRanAllStages` | `Spec => []CompletedMeansAllStagesRan` |
| `LastSuccessfulPhaseSucceeded` | `Spec => []LastSuccessfulPhaseIsHonest` |
| `PreviousVersionWasInstalled` | `Spec => []PreviousVersionIsInstalled` |
| `BackupIsThere` | `Spec => []StagesHaveBackup` |
| `JobsStayFinal` | `Spec => []JobsFinal` |
| `AllIsRemembered` | `Spec => []Remembered`, the three invariants together |
| `JobsTakeTurns` | `Spec => []OneJobAtATime`, if `"expiry" \notin FaultKinds` |
| `RollbackRestoresSaved` | `Spec => []RollbackKnowsVersion`, if `"expiry" \notin FaultKinds` |
| `RolledBackIsRestored` | `Spec => []RolledBackMeansRestored`, if `"expiry" \notin FaultKinds` |
| `StagesRunOnce` | `Spec => NoStageRepeats`, if `"expiry" \notin FaultKinds` |
| `StagesOnlyBuildUp` | `Spec => []StagesBuildUp`, of `UpgradeJobs` |
| `CRDsComeFirst` | `Spec => []NewCodeNeedsNewCRDs`, of `UpgradeJobs` |
| `JobsTyped` | `Spec => []TypeOK`, of `UpgradeJobs` |
| `FaultsAreAccountedFor` | `Spec => []FaultsAccountFor`, of `UpgradeJobs` |
| `EachMissCostsTwoFaults` | `Spec => []MissedTwice`, if `ChecksTellVersions` |
| `RollbackMissesCostFaults` | `Spec => []RollbackMissesOnlyFaulted` |
| `GatewaysFollowTemplates` | `Spec => RecreatedFromNewTemplate`, if `ChecksTellVersions` |
| `ScriptsKeepContract` | `Spec => KeepsContract`: `UpgradeJobs` implements `JobContract` |
| `TypeCorrect` | `Spec => []TypeInvariant`, of `LiqoVersions` |
| `LoopsKeepInvariant` | `Spec => []LoopInvariant`, of `LiqoVersions` |
| `LowestIsFound` | `Spec => []MinimumIsLowest`, of `LiqoVersions` |
| `LowestDecides` | `Spec => []LowestMayUpgrade`, of `LiqoVersions` |
| `TypeCorrect` | `Spec => []TypeOK`, of `ConcurrentUpgrades` |
| `StaysCoherent` | `Spec => []Coherent`, of `ConcurrentUpgrades` |
| `EachRefines` | `Spec => EachKeepsLifecycle`: every name implements `UpgradeLifecycle` |
| `CompletionIsHonest` | `Spec => []CompletedHolds` |
| `RollbackIsHonest` | `Spec => []RolledBackHolds` |

**The argument.** `TypeOK` alone is not inductive: the rollback script would
set an image with an empty tag if it were built from a status without a
previousVersion, and the refinement needs to know that a write that wins fits
the phase it is written over. The inductive invariant is `TypeOK /\ Coherent`:

- `CopiesCoherent`: each copy of the resource, queued, cached or in the
  worker's hands, is older than the server's or agrees with it. This is why
  stale writers lose: `Accepts` compares versions, and equal versions mean equal
  statuses. It also says that a copy in a stage's phase has a previousVersion,
  and one in Verifying has the last stage's success saved.
- `WorkerCoherent`: between two writes of a handler the object in hand is in
  the phase the second write is meant to leave.
- `JobsNameVersions`: a Job that sets an image names a version.

`Init` implies it (`InitInv`), each worker action and each environment action keeps it
(`WorkerStepCoherent`, `EnvironmentStepCoherent`, with one case per action),
and `StepLife` matches each action with a step of the lifecycle or a stutter.
`PhaseAdvances` and `PreviousVersionStays` follow from that and from what a lifecycle step can do
(`LifeAdvances`). `Coherent` is also checked by TLC in `faults`.

The safety properties of one upgrade take more, since none of them is
inductive, and `Coherent` tells only what the copies are, not what has happened.
Three invariants build on one another; `Remembered` is all three.

- `InOrder` holds for every resource of the name, through deletions and recreations.
  `Coherent` compares each copy with the server's; `InOrder` compares any two
  copies: the informer never goes back, what an older copy shows can still become what
  a newer one shows, and no copy is left to act on once the resource is
  gone (`GoneForAll`). Without it one could not say that a late handler of a deleted
  resource starts nothing. `CompletionChecksCurrentTarget` follows: equal versions mean equal specs.
- `History`, for the first resource: what a copy's phase, a Job or the backup is
  evidence of did happen. `StagesEarned` is the core: a Job of a
  stage exists, and a copy is in its phase, only if the stages before have succeeded
  (`Earned`), and nothing exists before the resource has its finalizer.
  `VersionsEarned` says that the image is the installed one as long as the server's copy is
  before the freeze, which is why a repeated validation still detects it; `BackupEarned`
  that a copy with `backupReady` has a backup. Five properties are read off it.
- `JobsFinal`, for the first resource and as long as no result expires unread: a stage that
  has succeeded or failed stays so, because its Job is still there or every copy that could
  start it again is beyond it (`Over`, `NoMore`); a rollback's Job exists only for a
  failed stage or a failed verification (`RollbackReason`), and has what the status says;
  and once it has succeeded the image stays. `OneJobAtATime` needs all of it: a Job that
  runs is the first one not over, and there is only one such.

The proofs do not go action by action through all of it: `Moves` says what one
step may do to the copies, to one Job, to the backup and to the image, is shown of every action once, and
each part is then shown to survive `Moves`.

For the scripts the first invariant is `StagesBuildUp`.
`NewCodeNeedsNewCRDs` alone is not inductive, because a later stage sets the
target without looking at the CRDs: one must know that its Job exists only if
they are all new. `CRDsSoFar` says so, and says what each position of the CRD script
implies (at its check, every file was applied or `FAILED_COUNT` is not 0);
`JobOfPhase` ties the Job to the phase, and `ImageApplied` says that past its
first command a Job that sets the controller-manager has set it. That last
part is also what the step to `JobContract!Succeed` needs. Each action has
its case, in lemmas for the commands, the reconciler and the operator.

The properties that count faults take `FaultsAccountFor`. Faults are one number for all
commands, so it says what each has paid for: `LeftBy("set")` are the parts that the present
script's "set" commands have left on another version, `LeftBy("check")` those that its checks
have let pass, and together they are at most `faults` (`FaultsCounted`). A command adds at most one
part to one of the sets, and only for a fault (`PassesBy`, `LeftGrows`); a command within a loop
adds none (`Stays`). When the network script is over, the parts that are not on
the target are in both sets (`PastAtEnd`), hence the factor two of `MissedTwice`.
`TemplatesFirst` gives the order that `RecreatedFromNewTemplate` is about: while an
annotation or a missing gateway can make the operator render one, both templates have been set and
checked. `EndedJob` and `ImagesKnown` say in which states a phase or `rolledBack` finds the Job and the images.

For the decision the inductive invariant is `TypeInvariant /\ LoopInvariant`: the minimum
is a version of the list, none before `next` is lower, and the two versions under
comparison agree before `part`. When a lower version is found the earlier ones
are compared with it through the old minimum, which takes that `Lower` is
transitive (`LowerIsTransitive`); `FirstDifference` and `NotLowerAt` say that the first
different part decides, and `RangeOfParts` that the loop visits every part of
both. `LowestDecides` adds that under unambiguous spelling only one version can be lowest.

For several upgrades it is `TypeOK /\ Coherent`, which has three parts for a name that a handler
may still act on. `StatusFits`: the phases a copy may show are none beyond the status (`Rank`), and from the
freeze on there is a version to roll back to. `JobsFit` ties the Jobs to that: a Job may be there before its
phase is written, but only if the stage before it has succeeded and was waited for, and a rollback's only if a
stage failed or verification was reached; what it was rendered with is what the status says to
the end, which is why it does not matter from which copy it was created. `ImagesFit` says what the cluster runs
for every place the scripts of the name can be in, for the images that are not `foreign`. A step of another
name touches only the images, and makes those it sets foreign (`OtherFits`, `StepOfOne`); one
of the name itself changes one Job or the status (`JobStep`, `StatusStep`). For a name that is gone there is left
only that its Jobs name versions. The two properties are read off it (`EndsHold`), and
`EachRefines` needs it for the version and the saved success behind a rollback and a completion.

**Assumptions.** `VersionsAssumption` (the empty version is no tag; adding a
`v` twice is adding it once), `SpecAssumption`, `BoundsAssumption`; in
`UpgradeJobs`, `VersionsAssumption` (the two versions are tags, a missing
object has none, a reference contains its own tag) and `ClusterAssumption`; in `LiqoVersions`
and `ConcurrentUpgrades`, `VersionsAssumption` (every part reads as an integer, "no
version" is none).
They are types of the constants, and TLC evaluates them in every run. Two theorems of
the scripts and four of the reconciler assume more, and say so:

- `ChecksTellVersions`: a reference to the previous version does not contain the target
  version. The scripts look for the target anywhere in the image reference
  (`network_fabric_upgrade.go:188-193,478-512`), so with `v1.0.1-rc1` installed and the target
  `v1.0.1` a component left behind passes its check, and one fault is enough to miss it.
  `FaultsAccountFor`, `NewCodeNeedsNewCRDs` and `RollbackMissesOnlyFaulted` do not need it.
- `"expiry" \notin FaultKinds`: no Job expires before the controller has read its result, which
  takes a controller that runs and is not more than five minutes behind. With
  `"expiry"` among the faults of `faults` TLC finds each of the four violated
  (`OneJobAtATime`, `RollbackKnowsVersion`, `RolledBackMeansRestored`, `NoStageRepeats`): a
  crash between the creation of a Job and the write of its phase, and a Job that ends
  and expires before the handler is repeated, let the stage run a second time. The
  five properties that follow from `History` hold all the same.

**Model-checked only.** Liveness: `UpgradeSettles`, `DeletionCompletes`
and `GatewaysConverge`. It takes fairness and ENABLED, which are outside what TLAPS
proves. Every other property of the passing runs is stated by a theorem. The properties that the runs of
section 6 check are false, so there is nothing to prove.

## 6. Where code and documents disagree

Each is a run with a counterexample; `PROJECT.json` quotes the lines.

| Run | What happens |
|---|---|
| `no_namespace` | with `spec.namespace` omitted the monitors look for the Job in no namespace and never find it |
| `late_rollback` | a second verification on a stale copy starts a rollback Job for a Completed upgrade |
| `no_rollback` | the network stage's Job cannot be created, which fails the upgrade without a rollback |
| `partial_fabric` | a network stage that fails half-way is rolled back without the fabric it has changed, and no rollback takes the gateway templates back |
| `downgrade` | the matrix is asked about the lowest version of all clusters, so a local cluster ahead of a remote one accepts a target below its own version |

More disagreements, without a run of their own:

- `README.md:602-605` says "Jobs have execution timeouts (5-10 minutes depending on stage)" and "Prevents hanging
  operations". No builder sets `activeDeadlineSeconds` (`crd_upgrade.go:168-184` and so in each); the
  timeouts of `kubectl rollout status` and `kubectl wait` bound those commands, not the Job: a pod that never
  starts or a `curl` that hangs keeps the upgrade in its phase without end. So does the TTL the same
  lines name: the monitors wait for a Job that is not found (`crd_upgrade.go:63-66`, and so
  in each), and Jobs delete themselves five minutes after they end, read or not. These are the rests that
  `UpgradeSettles` allows as `AwaitsResult`; without that disjunct TLC finds the Job that never ends in the
  configuration of `settles`, and with a disjunct for Jobs that still run only, the one that expires.
- `spec.namespace` may be edited while a Job runs. The monitor then looks for the Job in the new namespace
  and waits for ever (`freeze_operations.go:63`), and a rollback is refused because a resource cannot own a Job of another
  namespace (`rollback.go:49-51`); `README.md:240-245` promises Completed and `README.md:12` a rollback. The run `edits` has such edits,
  and its safety properties hold.
- When the backup ConfigMap exists only its Data is replaced
  (`validation.go:289-294`). A recreated upgrade's backup still belongs to the
  deleted one and is garbage-collected under it; `README.md:570-573` says it is
  "Restored during rollback or verified after upgrade". The rollback script only copies it to
  `/tmp` of its pod (`rollback.go:127-137`).
- The rollback sets the controller-manager whichever stage failed
  (`rollback.go:139-146`), also after a failed CRD stage, for which `README.md:347-349` says
  "No component rollback".
- `README.md:149` calls the matrix ConfigMap optional, but validation fails without it
  (`validation.go:92-95`); `README.md:417-418` looks for it as `liqo-version-matrix`,
  where the code reads `liqo-version-compatibility` (`liqoupgrade_controller.go:47`).

Some behaviours of the models are no disagreement but worth knowing. Upgrades
of different names may run at once: one can be Completed on a version the other has
already replaced, or roll back to a version that was deployed only in passing, and the Jobs of a deleted one
may go on setting images. `CompletedHolds` and `RolledBackHolds` say what a status is still worth: an image is
what it claims as long as no other upgrade's script has set it since. A
validation may also read a cache that is behind (`validation.go:115`), and a rollback then restores what
was read. What a rollback patches into gateways the operator renders again from templates that no rollback
touches (`rollback.go:205-250`). With
two spellings of one version among the clusters, the order in which they are listed
decides which of them the matrix is asked about (`Unambiguous`). An image without a tag from a
registry with a port, or one named by its digest, passes as a version
(`validation.go:165-171`): if a remote cluster has a lower one the upgrade is accepted, and
that tag is what a rollback sets. A target
edited after validation is deployed without a compatibility check: the scripts
are built from the spec as it is when their stage starts. And a component that
two failed reads hide from the network script, where it is set and where it is checked, stays
behind in a stage that succeeds; `MissedTwice` says it takes both.

## 7. What is not modelled

- Of the scripts: environment variables, which they only print; the backups they
  write under `/tmp` of a pod that goes away; the wording of what they print.
- Reconciler and scripts in one state space: caches and conflicts do not meet
  the single commands of a script, only the contract (planned).
- The YAML of the matrix: it is its set of pairs, or it does not parse.
- Of several upgrades over one cluster: the commands inside a script beyond setting and checking an
  image, CRDs and gateways, edits, expiry, refused owners, and recreation under the same name. A live upgrade's Jobs stay in
  place there; what an expiry does to one name is in `LiqoUpgradeController`.
- Several manager replicas: leader election makes the others idle, except for
  a lease that is lost while a handler runs.
- `cmd/main.go`, generated code and manifests, RBAC, tests.
- `strategy` and `dryRun` of the spec, which no handler reads; messages and
  time stamps of the status.
- API-server caches that go back in time after a restart: `Crash` lists the
  latest versions.

## 8. Plan

In order of importance:

1. `UpgradeLifecycle`, `LiqoUpgradeController`: done, with the runs above and
   the refinement proved.
2. `JobContract`, `UpgradeJobs`: done, with the contract proved.
3. `LiqoVersions`: done, with its invariants proved.
4. `ConcurrentUpgrades`: done, with every property of its run proved.
5. `UpgradeSystem`: the reconciler's model with the scripts in place of its three Job
   actions, for one stage at a time.
6. Proofs of the safety properties of one upgrade and of those that count faults: done.
7. Proofs left: that the Job actions of `LiqoUpgradeController` take the steps of `JobContract`,
   the other half of what `ScriptsKeepContract` proves; which parts of `History` survive a second resource of the same name, whose
   Jobs may be the first one's; `RolledBackMeansRestored` and `OneJobAtATime` where a result may
   expire, from what a Job's owner still shows.
