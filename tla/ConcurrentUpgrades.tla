------------------------- MODULE ConcurrentUpgrades -------------------------
(***************************************************************************)
(* Several LiqoUpgrades of different names over one cluster.  Nothing in   *)
(* the code keeps them apart: each has a status and Jobs of its own, and   *)
(* all set the images of the same controller-manager and network fabric,   *)
(* which every validation and verification reads from one informer cache.  *)
(*                                                                         *)
(* An upgrade is here what LiqoUpgradeController implements: the status    *)
(* writes of UpgradeLifecycle and, apart from them, the creation of each   *)
(* phase's Job, also by a handler whose copy shows a phase the status has  *)
(* left.  The worker may turn to another name after each write: what one   *)
(* handler writes in between, a handler of another name does not read.     *)
(* The tolerated faults inside the scripts are left to UpgradeJobs;        *)
(* spelling, edits of the spec, expiry of Jobs and resources that take     *)
(* over a name to LiqoUpgradeController.                                   *)
(*                                                                         *)
(* A definition whose comment begins with "Faulty" is a plausible bug in   *)
(* the definition after it, and no part of the model.                      *)
(***************************************************************************)
EXTENDS Naturals, FiniteSets

CONSTANTS
  Names,             \* of the LiqoUpgrades, each used once
  Versions, NoVersion,
  InstalledVersion,  \* what Liqo was installed with
  Compatible,        \* pairs <<detected version, target>> validation may accept
  Targets, AutoRollbacks,
  FailingJobs,       \* the phases whose Job may fail at any command
  MaxDeletions       \* bound: so many upgrades are deleted

Stages == {"FreezingOperations", "UpgradingCRDs",
           "UpgradingControllerManager", "UpgradingNetworkFabric"}

JobPhases == Stages \cup {"RollingBack"}

ASSUME VersionsAssumption ==
  /\ NoVersion \notin Versions
  /\ InstalledVersion \in Versions
  /\ Targets \subseteq Versions
  /\ AutoRollbacks \subseteq BOOLEAN
  /\ FailingJobs \subseteq JobPhases
  /\ MaxDeletions \in Nat

----------------------------------------------------------------------------

Phases == {"", "Validating", "Verifying", "Completed", "Failed"} \cup JobPhases

\* The stages whose success is saved.
Saved == Stages \ {"FreezingOperations"}

Upgrades == [target              : Versions \cup {NoVersion},
             autoRollback        : BOOLEAN,
             phase               : Phases,
             previousVersion     : Versions \cup {NoVersion},
             lastSuccessfulPhase : {""} \cup Saved,
             rolledBack          : BOOLEAN]

Unborn == [target |-> NoVersion, autoRollback |-> TRUE,
           phase |-> "", previousVersion |-> NoVersion,
           lastSuccessfulPhase |-> "", rolledBack |-> FALSE]

\* Where a script is: it has set an image, has found it set, and, in a
\* rollback, has gone on to the fabric.
Running == {"running", "applied", "checked", "restored"}

\* A Job, with what its script was rendered with.
Jobs == [version : Versions \cup {NoVersion},
         last    : {""} \cup Saved,
         state   : {"absent", "succeeded", "failed"} \cup Running]

NoJob == [version |-> NoVersion, last |-> "", state |-> "absent"]

Images == {"deployed", "fabric"}

VARIABLES
  life,      \* by name: whether the resource exists
  upgrade,   \* by name: its spec and status
  seen,      \* by name: the phases that a handler's copy may show
  jobs,      \* by name and phase
  deployed,  \* the version of the controller-manager
  fabric,    \* the version of ipam, proxy and fabric
  cache,     \* deployed, in the informer's cache
  foreign    \* history, by name: the images that since its validation another
             \* upgrade's script has set, and its own not after that

vars == <<life, upgrade, seen, jobs, deployed, fabric, cache, foreign>>

resources == <<life, upgrade, seen>>
images    == <<deployed, fabric, foreign>>

TypeOK ==
  /\ life \in [Names -> {"unborn", "live", "deleting", "gone"}]
  /\ upgrade \in [Names -> Upgrades]
  /\ seen \in [Names -> SUBSET Phases]
  /\ jobs \in [Names -> [JobPhases -> Jobs]]
  /\ deployed \in Versions
  /\ fabric \in Versions
  /\ cache \in Versions
  /\ foreign \in [Names -> SUBSET Images]

Init ==
  /\ life = [n \in Names |-> "unborn"]
  /\ upgrade = [n \in Names |-> Unborn]
  /\ seen = [n \in Names |-> {}]
  /\ jobs = [n \in Names |-> [p \in JobPhases |-> NoJob]]
  /\ deployed = InstalledVersion
  /\ fabric = InstalledVersion
  /\ cache = InstalledVersion
  /\ foreign = [n \in Names |-> {}]

----------------------------------------------------------------------------
(***************************************************************************)
(* Users.                                                                  *)
(***************************************************************************)

Create(n) ==
  /\ life[n] = "unborn"
  /\ life' = [life EXCEPT ![n] = "live"]
  /\ \E target \in Targets, autoRollback \in AutoRollbacks :
       upgrade' = [upgrade EXCEPT ![n] = [Unborn EXCEPT
                                            !.target = target,
                                            !.autoRollback = autoRollback]]
  /\ seen' = [seen EXCEPT ![n] = {""}]
  /\ UNCHANGED <<jobs, images, cache>>

\* The resource is marked; until it is handled, a handler may still run on a
\* copy from before.
Delete(n) ==
  /\ life[n] = "live"
  /\ Cardinality({m \in Names : life[m] \in {"deleting", "gone"}}) < MaxDeletions
  /\ life' = [life EXCEPT ![n] = "deleting"]
  /\ UNCHANGED <<upgrade, seen, jobs, images, cache>>

----------------------------------------------------------------------------
(***************************************************************************)
(* The status.  A write from a stale copy is refused, so each is made in   *)
(* the phase that the resource is in; a marked resource takes none, since  *)
(* a handler that knows the mark makes none.                               *)
(***************************************************************************)

In(n, phase) == life[n] = "live" /\ upgrade[n].phase = phase

UpdateStatus(n, status) ==
  /\ upgrade' = [upgrade EXCEPT ![n] = status]
  /\ seen' = [seen EXCEPT ![n] = @ \cup {status.phase}]
  /\ UNCHANGED <<life, jobs, deployed, fabric, cache>>

Enter(n, phase) ==
  UpdateStatus(n, [upgrade[n] EXCEPT !.phase = phase]) /\ UNCHANGED foreign

startValidation(n) == In(n, "") /\ Enter(n, "Validating")

\* A check of validation refuses, or the backup fails.
ValidationFails(n) == In(n, "Validating") /\ Enter(n, "Failed")

\* Validation looks at nothing but the cache and the matrix: not at other
\* upgrades, and not at whether the cache has the deployed version.
performValidation(n) ==
  /\ In(n, "Validating")
  /\ <<cache, upgrade[n].target>> \in Compatible
  /\ UpdateStatus(n, [upgrade[n] EXCEPT !.previousVersion = cache])
  /\ foreign' = [foreign EXCEPT ![n] = {}]

\* Faulty: that the Job exists is taken for its result.
JobOfAny(n, p, state) == jobs[n][p].state # "absent"

JobOf(n, p, state) == jobs[n][p].state = state

\* A rollback is called for: the Job of a stage has failed, or verification
\* finds the components not healthy or another version.
CallsForRollback(n, q) ==
  \/ q = "Verifying"
  \/ q \in Stages /\ JobOf(n, q, "failed")

\* Faulty: the next stage is started whether or not the success was saved.
StartsUnsaved(n, q, p) ==
  \/ /\ q = "Validating" /\ p = "FreezingOperations"
     /\ upgrade[n].previousVersion # NoVersion
  \/ /\ <<q, p>> \in {<<"FreezingOperations", "UpgradingCRDs">>,
                      <<"UpgradingCRDs", "UpgradingControllerManager">>,
                      <<"UpgradingControllerManager", "UpgradingNetworkFabric">>}
     /\ JobOf(n, q, "succeeded")
  \/ /\ p = "RollingBack"
     /\ upgrade[n].autoRollback
     /\ CallsForRollback(n, q)

\* The handler of phase q gets to where it creates the Job of p.
Starts(n, q, p) ==
  \/ /\ q = "Validating" /\ p = "FreezingOperations"
     /\ upgrade[n].previousVersion # NoVersion
  \/ /\ q = "FreezingOperations" /\ p = "UpgradingCRDs"
     /\ JobOf(n, q, "succeeded")
  \/ /\ <<q, p>> \in {<<"UpgradingCRDs", "UpgradingControllerManager">>,
                      <<"UpgradingControllerManager", "UpgradingNetworkFabric">>}
     /\ upgrade[n].lastSuccessfulPhase = q
  \/ /\ p = "RollingBack"
     /\ upgrade[n].autoRollback
     /\ CallsForRollback(n, q)

VersionFor(u, p) == IF p = "RollingBack" THEN u.previousVersion ELSE u.target

NewJob(u, p) ==
  [version |-> VersionFor(u, p),
   last    |-> u.lastSuccessfulPhase,
   state   |-> "running"]

\* A Job is created, and the status not yet written: the answer may be lost,
\* the controller may crash, the write may be refused.  The Jobs of the CRDs
\* and of a rollback are created before the handler writes anything, so also
\* from a stale copy; the others follow a status write that was accepted.
\* A Job that is there already is left as it is.
CreateJob(n, p) ==
  /\ \E q \in seen[n] : /\ Starts(n, q, p)
                        /\ q = upgrade[n].phase \/ p \in {"UpgradingCRDs", "RollingBack"}
  /\ jobs[n][p].state = "absent"
  /\ jobs' = [jobs EXCEPT ![n][p] = NewJob(upgrade[n], p)]
  /\ UNCHANGED <<resources, images, cache>>

\* The write after it.
EnterPhase(n, p) ==
  /\ In(n, upgrade[n].phase)
  /\ Starts(n, upgrade[n].phase, p)
  /\ jobs[n][p].state # "absent"
  /\ Enter(n, p)

\* Create answered an error, whether or not the Job is there.
StartFails(n, p) ==
  /\ In(n, upgrade[n].phase)
  /\ Starts(n, upgrade[n].phase, p)
  /\ Enter(n, "Failed")

RollbackDisabled(n) ==
  /\ In(n, upgrade[n].phase)
  /\ CallsForRollback(n, upgrade[n].phase)
  /\ ~upgrade[n].autoRollback
  /\ Enter(n, "Failed")

\* Faulty: the success of the freeze is saved too.
SaveLastSuccessfulOfAll(n) ==
  \E p \in Stages :
    /\ In(n, p)
    /\ JobOf(n, p, "succeeded")
    /\ UpdateStatus(n, [upgrade[n] EXCEPT !.lastSuccessfulPhase = p])
    /\ UNCHANGED foreign

\* What a monitor does when the Job of its stage has succeeded.
SaveLastSuccessful(n) ==
  \E p \in Saved :
    /\ In(n, p)
    /\ JobOf(n, p, "succeeded")
    /\ UpdateStatus(n, [upgrade[n] EXCEPT !.lastSuccessfulPhase = p])
    /\ UNCHANGED foreign

\* Verification follows the last stage, and needs no Job.
startVerification(n) ==
  /\ In(n, "UpgradingNetworkFabric")
  /\ upgrade[n].lastSuccessfulPhase = "UpgradingNetworkFabric"
  /\ Enter(n, "Verifying")

CompleteVerification(n) ==
  /\ In(n, "Verifying")
  /\ cache = upgrade[n].target
  /\ Enter(n, "Completed")

monitorRollback(n) ==
  /\ In(n, "RollingBack")
  /\ \E outcome \in {"succeeded", "failed"} :
       /\ JobOf(n, "RollingBack", outcome)
       /\ UpdateStatus(n, [upgrade[n] EXCEPT !.phase = "Failed",
                                             !.rolledBack = (outcome = "succeeded")])
  /\ UNCHANGED foreign

Reconcile(n) ==
  \/ startValidation(n) \/ ValidationFails(n) \/ performValidation(n)
  \/ \E p \in JobPhases : EnterPhase(n, p) \/ StartFails(n, p)
  \/ RollbackDisabled(n) \/ SaveLastSuccessful(n)
  \/ startVerification(n) \/ CompleteVerification(n) \/ monitorRollback(n)

----------------------------------------------------------------------------
(***************************************************************************)
(* Deletion.                                                               *)
(***************************************************************************)

\* A running Job may be left: it is not found in the cache, it cannot be
\* deleted, which is only logged, or its pod outlives it, since it is deleted
\* in the background.  A Job that has ended does nothing more, left or not.
handleDeletion(n) ==
  /\ life[n] = "deleting"
  /\ seen' = [seen EXCEPT ![n] = {}]
  /\ \E left \in SUBSET {p \in JobPhases : jobs[n][p].state \in Running} :
       jobs' = [jobs EXCEPT ![n] = [p \in JobPhases |-> IF p \in left THEN jobs[n][p]
                                                                      ELSE NoJob]]
  /\ UNCHANGED <<life, upgrade, images, cache>>

RemoveFinalizer(n) ==
  /\ life[n] = "deleting"
  /\ seen[n] = {}
  /\ life' = [life EXCEPT ![n] = "gone"]
  /\ upgrade' = [upgrade EXCEPT ![n] = Unborn]
  /\ foreign' = [foreign EXCEPT ![n] = {}]
  /\ UNCHANGED <<seen, jobs, deployed, fabric, cache>>

\* What is left of the Jobs of a resource that is gone is collected some time.
CollectJob(n, p) ==
  /\ life[n] = "gone"
  /\ jobs[n][p].state # "absent"
  /\ jobs' = [jobs EXCEPT ![n][p] = NoJob]
  /\ UNCHANGED <<resources, images, cache>>

----------------------------------------------------------------------------
(***************************************************************************)
(* The scripts, each over the same cluster, and the informer.              *)
(***************************************************************************)

\* The script of p goes from one place to the next.
Goes(n, p, from, to) ==
  /\ jobs[n][p].state = from
  /\ jobs' = [jobs EXCEPT ![n][p].state = to]
  /\ UNCHANGED <<resources, cache>>

\* The image is the one of n now, and foreign to every other upgrade that has
\* been validated.
Sets(n, image) ==
  foreign' = [m \in Names |->
                IF m = n THEN foreign[m] \ {image}
                ELSE IF upgrade[m].previousVersion # NoVersion
                     THEN foreign[m] \cup {image} ELSE foreign[m]]

\* The rollback sets the controller-manager whichever stage failed.
SetControllerManager(n, p) ==
  /\ p \in {"UpgradingControllerManager", "RollingBack"}
  /\ Goes(n, p, "running", "applied")
  /\ deployed' = jobs[n][p].version
  /\ Sets(n, "deployed")
  /\ UNCHANGED fabric

SetFabric(n, p) ==
  /\ p = "UpgradingNetworkFabric"
  /\ Goes(n, p, "running", "applied")
  /\ fabric' = jobs[n][p].version
  /\ Sets(n, "fabric")
  /\ UNCHANGED deployed

\* What the script of p has set, as it is now.
SetByScript(p) == IF p = "UpgradingNetworkFabric" THEN fabric ELSE deployed

Check(n, p) ==
  /\ Goes(n, p, "applied", "checked")
  /\ SetByScript(p) = jobs[n][p].version
  /\ UNCHANGED images

\* The fabric is rolled back if the stage that upgrades it had succeeded.
RestoreFabric(n, p) ==
  /\ p = "RollingBack"
  /\ Goes(n, p, "checked", "restored")
  /\ jobs[n][p].last = "UpgradingNetworkFabric"
  /\ fabric' = jobs[n][p].version
  /\ Sets(n, "fabric")
  /\ UNCHANGED deployed

\* Faulty: the rollback is over when the controller-manager is back.
AtEndAfterControllerManager(p, last) ==
  IF p \in {"FreezingOperations", "UpgradingCRDs"} THEN "running" ELSE "checked"

\* Where a script is when it has nothing more to set or to check.
AtEnd(p, last) ==
  CASE p \in {"FreezingOperations", "UpgradingCRDs"} -> "running"
    [] p = "RollingBack" /\ last = "UpgradingNetworkFabric" -> "restored"
    [] OTHER -> "checked"

ScriptSucceeds(n, p) ==
  /\ Goes(n, p, AtEnd(p, jobs[n][p].last), "succeeded")
  /\ UNCHANGED images

\* A command fails or the pod is lost, or the check finds another version.
ScriptFails(n, p) ==
  /\ \/ p \in FailingJobs /\ jobs[n][p].state \in Running
     \/ jobs[n][p].state = "applied" /\ SetByScript(p) # jobs[n][p].version
  /\ Goes(n, p, jobs[n][p].state, "failed")
  /\ UNCHANGED images

RunScript(n, p) ==
  \/ SetControllerManager(n, p) \/ SetFabric(n, p) \/ Check(n, p)
  \/ RestoreFabric(n, p) \/ ScriptSucceeds(n, p) \/ ScriptFails(n, p)

SyncDeployment ==
  /\ cache # deployed
  /\ cache' = deployed
  /\ UNCHANGED <<resources, jobs, images>>

Next ==
  \/ SyncDeployment
  \/ \E n \in Names :
       \/ Create(n) \/ Delete(n) \/ Reconcile(n)
       \/ handleDeletion(n) \/ RemoveFinalizer(n)
       \/ \E p \in JobPhases : CreateJob(n, p) \/ CollectJob(n, p) \/ RunScript(n, p)

Spec == Init /\ [][Next]_vars

----------------------------------------------------------------------------
(***************************************************************************)
(* What an upgrade may rely on, whatever other upgrades do.                *)
(***************************************************************************)

Lifecycle(n) == INSTANCE UpgradeLifecycle WITH
  Tags                <- Versions,
  uid                 <- IF life[n] = "unborn" THEN 0 ELSE 1,
  alive               <- life[n] \in {"live", "deleting"},
  phase               <- upgrade[n].phase,
  previousVersion     <- upgrade[n].previousVersion,
  lastSuccessfulPhase <- upgrade[n].lastSuccessfulPhase,
  rolledBack          <- upgrade[n].rolledBack

\* The status of every name takes the steps of UpgradeLifecycle: what another
\* upgrade does to the cluster, and a Job created from a stale copy, can make
\* it fail, never skip or repeat a stage.
EachKeepsLifecycle ==
  /\ \A n \in Names : Lifecycle(n)!Init
  /\ [][\A n \in Names : [Lifecycle(n)!Next]_(Lifecycle(n)!life)]_vars

(***************************************************************************)
(* What the status says of the cluster, up to what others have set since.  *)
(***************************************************************************)

\* As long as no rollback Job of a completed upgrade is created late, each
\* image is on its target unless another upgrade's script, maybe one whose
\* resource is gone, has set that image since.
CompletedHolds ==
  \A n \in Names :
    /\ In(n, "Completed")
    /\ JobOf(n, "RollingBack", "absent")
    => /\ deployed = upgrade[n].target \/ "deployed" \in foreign[n]
       /\ fabric = upgrade[n].target \/ "fabric" \in foreign[n]

\* An upgrade reported as rolled back has put back the controller-manager of
\* its validation, and the fabric if it had upgraded that, unless another
\* upgrade's script has set the image since.
RolledBackHolds ==
  \A n \in Names :
    /\ life[n] = "live"
    /\ upgrade[n].rolledBack
    => /\ deployed = upgrade[n].previousVersion \/ "deployed" \in foreign[n]
       /\ \/ upgrade[n].lastSuccessfulPhase # "UpgradingNetworkFabric"
          \/ fabric = upgrade[n].previousVersion
          \/ "fabric" \in foreign[n]

(***************************************************************************)
(* Why: what the status, the Jobs and the cluster say of each other, as    *)
(* long as a handler may still act on the upgrade.                         *)
(***************************************************************************)

\* How far an upgrade in a phase has come.
Rank == [p \in Phases |->
  CASE p = "Validating"                 -> 1
    [] p = "FreezingOperations"         -> 2
    [] p = "UpgradingCRDs"              -> 3
    [] p = "UpgradingControllerManager" -> 4
    [] p = "UpgradingNetworkFabric"     -> 5
    [] p = "Verifying"                  -> 6
    [] p = "RollingBack"                -> 7
    [] p \in {"Completed", "Failed"}    -> 8
    [] OTHER                            -> 0]

\* A status u, which a handler may have read in the phases of s.
StatusFits(u, s) ==
  /\ u.phase \in s
  /\ \A q \in s : Rank[q] <= Rank[u.phase]
  /\ u.target # NoVersion
  /\ s \ {"", "Validating", "Failed"} # {} => u.previousVersion # NoVersion
  /\ u.phase \in {"Verifying", "Completed"} \/ "Verifying" \in s =>
       u.lastSuccessfulPhase = "UpgradingNetworkFabric"

\* Its Jobs js: a stage is started after the one before has succeeded and is
\* waited for in its phase; it is saved after its own success; a rollback is
\* started for a failure, with what the status says to the end.
JobsFit(u, s, js) ==
  /\ \A p \in JobPhases :
       js[p].state # "absent" => js[p].version = VersionFor(u, p)
  /\ \A p \in JobPhases \cap s : js[p].state # "absent"
  /\ \A p, q \in Stages :
       Rank[q] < Rank[p] /\ js[p].state # "absent" =>
         js[q].state = "succeeded" /\ q \in s
  /\ js["FreezingOperations"].state # "absent" => u.previousVersion # NoVersion
  /\ u.lastSuccessfulPhase # "" => js[u.lastSuccessfulPhase].state = "succeeded"
  /\ js["RollingBack"].state # "absent" =>
       /\ js["RollingBack"].last = u.lastSuccessfulPhase
       /\ \/ "Verifying" \in s
          \/ \E q \in Stages \cap s : js[q].state = "failed"
  /\ u.rolledBack => u.phase = "Failed" /\ js["RollingBack"].state = "succeeded"

\* What its scripts have set is what the cluster runs: cm is the version of
\* the controller-manager, nf that of the fabric, and f are the images that
\* others have set.
ImagesFit(u, js, f, cm, nf) ==
  LET back == js["RollingBack"].state
      done == {"applied", "checked", "succeeded"}
  IN /\ "deployed" \notin f =>
          /\ /\ js["UpgradingControllerManager"].state \in done
             /\ back = "absent"
             => cm = u.target
          /\ back \in done \cup {"restored"} => cm = u.previousVersion
     /\ "fabric" \notin f =>
          /\ /\ js["UpgradingNetworkFabric"].state \in done
             /\ back = "absent"
             => nf = u.target
          /\ \/ back = "restored"
             \/ back = "succeeded" /\ u.lastSuccessfulPhase = "UpgradingNetworkFabric"
             => nf = u.previousVersion

Fits(n) ==
  /\ StatusFits(upgrade[n], seen[n])
  /\ JobsFit(upgrade[n], seen[n], jobs[n])
  /\ ImagesFit(upgrade[n], jobs[n], foreign[n], deployed, fabric)

\* Status, Jobs and cluster fit together for every name, in every order of the
\* names' steps and with every Job created from a stale copy.
Coherent ==
  \A n \in Names :
    /\ life[n] = "live" => seen[n] # {}
    /\ seen[n] # {} => life[n] \in {"live", "deleting"} /\ Fits(n)
    /\ life[n] \in {"unborn", "gone"} => upgrade[n] = Unborn
    /\ life[n] = "unborn" => \A p \in JobPhases : jobs[n][p] = NoJob
    /\ \A p \in JobPhases :
         jobs[n][p].state # "absent" => jobs[n][p].version # NoVersion

=============================================================================
