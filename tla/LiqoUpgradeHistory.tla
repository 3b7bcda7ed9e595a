------------------------- MODULE LiqoUpgradeHistory -------------------------
(***************************************************************************)
(* What the copies of one LiqoUpgrade, its Jobs and its backup still know  *)
(* of each other however late they are read: the invariant from which      *)
(* LiqoUpgradeHistory_order, _proofs prove the safety properties of        *)
(* LiqoUpgradeController.  It models no code of its own.                   *)
(*                                                                         *)
(* Three parts: the order in which the server stored the copies, for every *)
(* resource of the name; what must have happened for a phase, a Job or a   *)
(* backup to exist, for the first resource; and what is over for good once *)
(* a Job has ended, for the first resource and as long as no Job expires   *)
(* before its result was read.                                             *)
(***************************************************************************)
EXTENDS LiqoUpgradeController

----------------------------------------------------------------------------
(***************************************************************************)
(* The copies of the resource, in the order in which they were stored.     *)
(***************************************************************************)

\* Idle.upgrade stands for the time before the first resource.
Copies == {Idle.upgrade, cr, cached, worker.upgrade}
            \cup {watch[i] : i \in 1..Len(watch)}

\* Reconcile goes beyond the finalizer for such a copy only.
Active(u) == Live(u) /\ u.finalizer

\* Nothing has been started for an upgrade in such a phase.
Early(phase) == phase \in {"", "Validating"}

\* What lastSuccessfulPhase may say.
Saved == Stages \cup {""}

NotAfter(u, v) == u.uid < v.uid \/ (u.uid = v.uid /\ u.rv <= v.rv)

\* Equal in all that no handler changes in memory.
SameVersion(u, v) ==
  /\ u.uid = v.uid /\ u.rv = v.rv
  /\ u.exists = v.exists /\ u.deleting = v.deleting /\ u.finalizer = v.finalizer
  /\ u.spec = v.spec
  /\ u.status.phase = v.status.phase
  /\ u.status.previousVersion = v.status.previousVersion
  /\ u.status.lastSuccessfulPhase = v.status.lastSuccessfulPhase
  /\ u.status.rolledBack = v.status.rolledBack

\* v may be what became of the resource that u shows: it comes into being
\* once, is deleted once, and moves forward.
Becomes(u, v) ==
  v.exists =>
    /\ u.exists
    /\ u.deleting => v.deleting
    /\ u.finalizer => v.finalizer
    /\ Rank(u.status.phase) <= Rank(v.status.phase)
    /\ ~Early(u.status.phase) =>
         u.status.previousVersion = v.status.previousVersion

WellFormed(u) ==
  /\ u.exists => u.uid # 0
  /\ u.exists /\ u.deleting => u.finalizer
  /\ u.status.lastSuccessfulPhase \in Saved
  /\ u.status.phase \in Changing \cup {"RollingBack", "Completed"} =>
       u.status.backupReady

\* The informer delivers in order and never goes back, and the worker's copy
\* of a resource that goes is not newer than the informer's.
CopiesInOrder ==
  /\ \A u \in Copies : WellFormed(u)
  /\ \A u, v \in Copies :
       /\ u.uid = v.uid /\ u.rv <= v.rv => Becomes(u, v)
       /\ u.uid = v.uid /\ u.rv = v.rv => SameVersion(u, v)
  /\ \A i \in 1..Len(watch) : NotAfter(cached, watch[i])
  /\ \A i, j \in 1..Len(watch) : i <= j => NotAfter(watch[i], watch[j])

\* A handler between two writes holds a copy that was active.
WorkerInOrder ==
  /\ worker.upgrade.uid <= cached.uid
  /\ worker.pc \notin {"idle", "finalize"} => Active(worker.upgrade)
  /\ worker.pc \in {"start", "enter", "backedUp"} => worker.upgrade.status.backupReady
  /\ worker.pc = "finalize" => /\ worker.upgrade.exists /\ worker.upgrade.deleting
                               /\ NotAfter(worker.upgrade, cached)

\* A resource goes only when no copy of it is left that a handler acts on.
GoneForAll ==
  ~cr.exists => \A u \in Copies : u.uid = cr.uid => ~Active(u)

\* A Job that sets the image is from the middle of its owner's upgrade, and
\* the rollback's sets the version that its owner still has.
ImageJobsInOrder ==
  \A p \in JobPhases :
    /\ jobs[p].owner <= cr.uid
    /\ SetsImage(p) /\ jobs[p].state # "absent" /\ OwnerAlive(jobs[p].owner) =>
         /\ ~Early(cr.status.phase)
         /\ p = "RollingBack" => jobs[p].version = cr.status.previousVersion

BackupInOrder == backupCache.fresh => backupCache.exists = backup.exists

InOrder ==
  CopiesInOrder /\ WorkerInOrder /\ GoneForAll /\ ImageJobsInOrder /\ BackupInOrder

----------------------------------------------------------------------------
(***************************************************************************)
(* What must have happened.                                                *)
(***************************************************************************)

\* By the time of phase p every stage before it has succeeded.
Earned(p) == StagesBefore(p) \subseteq succeeded

JobsEarned(js) ==
  \A p \in JobPhases :
    /\ js[p].state = "succeeded" => p \in succeeded
    /\ p \in Stages /\ js[p].state # "absent" => Earned(p)

CopyEarned(u) ==
  /\ u.status.phase \in Changing \cup {"Completed"} => Earned(u.status.phase)
  /\ u.status.lastSuccessfulPhase \in Stages =>
       u.status.lastSuccessfulPhase \in succeeded

\* What a copy shows of its stage that has not succeeded is still so: the
\* server's lastSuccessfulPhase has not moved on.
LastKept(u) ==
  u.exists /\ cr.exists /\ u.status.phase \in (Stages \ succeeded) \cup {"Verifying"} =>
    u.status.lastSuccessfulPhase = cr.status.lastSuccessfulPhase

NothingBegun ==
  /\ \A p \in JobPhases : jobs[p].state = "absent" /\ jobCache[p].state = "absent"
  /\ succeeded = {}

StagesEarned ==
  /\ JobsEarned(jobs) /\ JobsEarned(jobCache)
  /\ \A p \in JobPhases : jobs[p].state # "absent" => jobs[p].owner = cr.uid
  /\ \A u \in Copies : CopyEarned(u) /\ LastKept(u)
  /\ worker.pc \in {"start", "enter"} /\ worker.phase \in Changing => Earned(worker.phase)
  /\ cr.uid = 0 \/ (cr.exists /\ ~cr.finalizer) => NothingBegun
  /\ ~NothingBegun => cached.uid = cr.uid

\* Until the freeze is entered the cluster runs what was installed.
VersionsEarned ==
  /\ cr.status.previousVersion \in {NoVersion, VPrefixed[InstalledTag]}
  /\ cr.uid = 0 \/ (cr.exists /\ Early(cr.status.phase)) =>
         /\ deployed = InstalledTag
         /\ deployedCache = InstalledTag
         /\ worker.pc = "backedUp" => worker.version = VPrefixed[InstalledTag]

BackupEarned ==
  /\ backup.exists => backup.owner = cr.uid /\ cr.uid # 0
  /\ \A u \in Copies : cr.exists /\ u.exists /\ u.status.backupReady => backup.exists

History == FirstIncarnation => StagesEarned /\ VersionsEarned /\ BackupEarned

----------------------------------------------------------------------------
(***************************************************************************)
(* What is over.                                                           *)
(***************************************************************************)

\* No handler will start p again: every copy it could act on is beyond.
NoMore(p) == \A u \in Copies : Active(u) => Rank(u.status.phase) >= Rank(p)

Over(p, state) ==
  jobs[p].state = state \/ (jobs[p].state = "absent" /\ NoMore(p))

\* The Job of stage p has failed and p will never succeed.
FailedFor(p) == p \notin succeeded /\ Over(p, "failed")

\* Why there is a rollback: a stage has failed, or all have succeeded and the
\* verification has not; and the resource is not before that.
RollbackReason ==
  \/ \E p \in Stages : /\ FailedFor(p) /\ Earned(p)
                       /\ cr.exists => Rank(cr.status.phase) >= Rank(p)
  \/ /\ Stages \subseteq succeeded
     /\ cr.exists => Rank(cr.status.phase) >= Rank("Verifying")

RollbackJob == jobs["RollingBack"]

Finality ==
  /\ \A p \in Stages :
       /\ p \in succeeded => Over(p, "succeeded")
       /\ "failed" \in {jobs[p].state, jobCache[p].state} => FailedFor(p)
  /\ RollbackJob.state # "absent" \/ "RollingBack" \in succeeded => RollbackReason
  /\ RollbackJob.state # "absent" /\ cr.exists =>
       RollbackJob.last = cr.status.lastSuccessfulPhase
  /\ "RollingBack" \in succeeded /\ cr.exists => deployed = cr.status.previousVersion
  /\ cr.status.rolledBack =>
       cr.exists /\ cr.status.phase = "Failed" /\ "RollingBack" \in succeeded

\* With "expiry" in FaultKinds a result may expire unread, and the stage runs again.
JobsFinal == FirstIncarnation /\ "expiry" \notin FaultKinds => Finality

\* All of it: what every step of the worker, of the caches and of the cluster
\* keeps, in whatever order they come.
Remembered == InOrder /\ History /\ JobsFinal

=============================================================================
