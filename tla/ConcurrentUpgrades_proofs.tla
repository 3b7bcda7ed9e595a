---------------------- MODULE ConcurrentUpgrades_proofs ----------------------
(***************************************************************************)
(* For any number of upgrades, versions and targets: status, Jobs and      *)
(* cluster fit together, each status keeps the lifecycle, and what the end *)
(* of an upgrade says of the cluster holds until another one changes it.   *)
(***************************************************************************)
EXTENDS ConcurrentUpgrades, TLAPS

----------------------------------------------------------------------------
(***************************************************************************)
(* Types.                                                                  *)
(***************************************************************************)

LEMMA ConstantsTyped ==
  /\ Unborn \in Upgrades
  /\ NoJob \in Jobs
  /\ \A t \in Targets, r \in AutoRollbacks :
       [Unborn EXCEPT !.target = t, !.autoRollback = r] \in Upgrades
  BY VersionsAssumption DEF Unborn, NoJob, Upgrades, Jobs, Phases, Running

LEMMA InitTypes == Init => TypeOK
<1>0. NoJob \in Jobs
  BY ConstantsTyped
<1>a. [p \in JobPhases |-> NoJob] \in [JobPhases -> Jobs]
  BY <1>0
<1>1. Init => jobs \in [Names -> [JobPhases -> Jobs]]
  BY <1>a DEF Init
<1> QED
  BY <1>1, ConstantsTyped, VersionsAssumption DEF Init, TypeOK

LEMMA PhaseTyped ==
  ASSUME NEW u \in Upgrades, NEW p \in Phases
  PROVE  [u EXCEPT !.phase = p] \in Upgrades
  BY DEF Upgrades

LEMMA JobPhaseIsPhase ==
  /\ JobPhases \subseteq Phases
  /\ {"", "Validating", "Verifying", "Completed", "Failed"} \subseteq Phases
  BY DEF Phases

LEMMA StatusTyped ==
  ASSUME TypeOK, NEW n \in Names, NEW u \in Upgrades, UpdateStatus(n, u)
  PROVE  /\ upgrade' \in [Names -> Upgrades]
         /\ seen' \in [Names -> SUBSET Phases]
         /\ UNCHANGED <<life, jobs, deployed, fabric, cache>>
         /\ upgrade'[n] = u /\ seen'[n] = seen[n] \cup {u.phase}
         /\ \A m \in Names \ {n} : upgrade'[m] = upgrade[m] /\ seen'[m] = seen[m]
<1>1. u.phase \in Phases
  BY DEF Upgrades
<1> QED
  BY <1>1 DEF TypeOK, UpdateStatus

LEMMA EnterTyped ==
  ASSUME TypeOK, NEW n \in Names, NEW p \in Phases, Enter(n, p)
  PROVE  TypeOK'
<1>1. [upgrade[n] EXCEPT !.phase = p] \in Upgrades
  BY PhaseTyped DEF TypeOK
<1> QED
  BY <1>1, StatusTyped DEF Enter, TypeOK

LEMMA NewJobTyped ==
  ASSUME NEW u \in Upgrades, NEW p \in JobPhases
  PROVE  NewJob(u, p) \in Jobs
  BY DEF NewJob, VersionFor, Jobs, Upgrades, Running

\* A new record for one Job keeps the Jobs typed.
LEMMA JobTyped ==
  ASSUME TypeOK, NEW n \in Names, NEW p \in JobPhases, NEW j \in Jobs,
         jobs' = [jobs EXCEPT ![n][p] = j]
  PROVE  /\ jobs' \in [Names -> [JobPhases -> Jobs]]
         /\ jobs'[n] = [jobs[n] EXCEPT ![p] = j]
         /\ \A m \in Names \ {n} : jobs'[m] = jobs[m]
  BY DEF TypeOK

LEMMA GoesTyped ==
  ASSUME TypeOK, NEW n \in Names, NEW p \in JobPhases, NEW from,
         NEW to \in {"succeeded", "failed"} \cup Running, Goes(n, p, from, to)
  PROVE  /\ jobs' \in [Names -> [JobPhases -> Jobs]]
         /\ jobs'[n] = [jobs[n] EXCEPT ![p] = [jobs[n][p] EXCEPT !.state = to]]
         /\ \A m \in Names \ {n} : jobs'[m] = jobs[m]
<1>0. jobs[n][p] \in Jobs
  BY DEF TypeOK
<1>1. [jobs[n][p] EXCEPT !.state = to] \in Jobs
  BY <1>0 DEF Jobs
<1>2. jobs' = [jobs EXCEPT ![n][p] = [jobs[n][p] EXCEPT !.state = to]]
  BY DEF Goes
<1> QED
  BY <1>1, <1>2, JobTyped

LEMMA SetsTyped ==
  ASSUME TypeOK, NEW n \in Names, NEW image \in Images, Sets(n, image)
  PROVE  /\ foreign' \in [Names -> SUBSET Images]
         /\ foreign'[n] = foreign[n] \ {image}
         /\ \A m \in Names \ {n} :
              foreign'[m] = IF upgrade[m].previousVersion # NoVersion
                            THEN foreign[m] \cup {image} ELSE foreign[m]
  BY DEF TypeOK, Sets

LEMMA ReconcileTyped ==
  ASSUME TypeOK, NEW n \in Names, Reconcile(n)
  PROVE  TypeOK'
<1>0. upgrade[n] \in Upgrades
  BY DEF TypeOK
<1>1. CASE startValidation(n)
  BY <1>1, EnterTyped, JobPhaseIsPhase DEF startValidation
<1>2. CASE ValidationFails(n)
  BY <1>2, EnterTyped, JobPhaseIsPhase DEF ValidationFails
<1>3. CASE performValidation(n)
  <2>1. [upgrade[n] EXCEPT !.previousVersion = cache] \in Upgrades
    BY <1>0 DEF TypeOK, Upgrades
  <2>2. foreign' \in [Names -> SUBSET Images]
    BY <1>3 DEF performValidation, TypeOK
  <2> QED
    BY <1>3, <2>1, <2>2, StatusTyped DEF performValidation, TypeOK
<1>4. ASSUME NEW p \in JobPhases, EnterPhase(n, p) \/ StartFails(n, p)
      PROVE  TypeOK'
  BY <1>4, EnterTyped, JobPhaseIsPhase DEF EnterPhase, StartFails
<1>5. CASE RollbackDisabled(n)
  BY <1>5, EnterTyped, JobPhaseIsPhase DEF RollbackDisabled
<1>6. CASE SaveLastSuccessful(n)
  <2>1. PICK p \in Saved :
          /\ UpdateStatus(n, [upgrade[n] EXCEPT !.lastSuccessfulPhase = p])
          /\ UNCHANGED foreign
    BY <1>6 DEF SaveLastSuccessful
  <2>2. [upgrade[n] EXCEPT !.lastSuccessfulPhase = p] \in Upgrades
    BY <1>0 DEF Upgrades
  <2> QED
    BY <2>1, <2>2, StatusTyped DEF TypeOK
<1>7. CASE startVerification(n)
  BY <1>7, EnterTyped, JobPhaseIsPhase DEF startVerification
<1>8. CASE CompleteVerification(n)
  BY <1>8, EnterTyped, JobPhaseIsPhase DEF CompleteVerification
<1>9. CASE monitorRollback(n)
  <2>1. PICK back \in BOOLEAN :
          /\ UpdateStatus(n, [upgrade[n] EXCEPT !.phase = "Failed", !.rolledBack = back])
          /\ UNCHANGED foreign
    BY <1>9 DEF monitorRollback
  <2>2. [upgrade[n] EXCEPT !.phase = "Failed", !.rolledBack = back] \in Upgrades
    BY <1>0 DEF Upgrades, Phases
  <2> QED
    BY <2>1, <2>2, StatusTyped DEF TypeOK
<1> QED
  BY <1>1, <1>2, <1>3, <1>4, <1>5, <1>6, <1>7, <1>8, <1>9 DEF Reconcile

LEMMA DeletionTyped ==
  ASSUME TypeOK, NEW n \in Names, handleDeletion(n) \/ RemoveFinalizer(n)
  PROVE  TypeOK'
<1> USE DEF resources, images
<1>1. CASE handleDeletion(n)
  <2>1. PICK left \in SUBSET JobPhases :
          jobs' = [jobs EXCEPT ![n] =
                     [p \in JobPhases |-> IF p \in left THEN jobs[n][p] ELSE NoJob]]
    BY <1>1 DEF handleDeletion
  <2>2. [p \in JobPhases |-> IF p \in left THEN jobs[n][p] ELSE NoJob]
          \in [JobPhases -> Jobs]
    BY ConstantsTyped DEF TypeOK
  <2>3. jobs' \in [Names -> [JobPhases -> Jobs]]
    BY <2>1, <2>2 DEF TypeOK
  <2> QED
    BY <1>1, <2>3 DEF handleDeletion, TypeOK
<1>2. CASE RemoveFinalizer(n)
  BY <1>2, ConstantsTyped DEF RemoveFinalizer, TypeOK
<1> QED
  BY <1>1, <1>2

\* Only a Job renders a version into a script, and it has one.
LEMMA RunScriptTyped ==
  ASSUME TypeOK, NEW n \in Names, NEW p \in JobPhases, RunScript(n, p),
         jobs[n][p].state # "absent" => jobs[n][p].version # NoVersion
  PROVE  TypeOK'
<1> USE DEF resources, images
<1>j. jobs[n][p] \in Jobs
  BY DEF TypeOK
<1>0. jobs[n][p].state \in Running => jobs[n][p].version \in Versions
  BY <1>j DEF Jobs, Running
<1>1. CASE SetControllerManager(n, p)
  <2>1. foreign' \in [Names -> SUBSET Images]
    BY <1>1, SetsTyped DEF SetControllerManager, Images
  <2>2. deployed' \in Versions
    BY <1>0, <1>1 DEF SetControllerManager, Goes, Running
  <2> QED
    BY <1>1, <2>1, <2>2, GoesTyped DEF SetControllerManager, TypeOK, Running, Goes
<1>2. CASE SetFabric(n, p)
  <2>1. foreign' \in [Names -> SUBSET Images]
    BY <1>2, SetsTyped DEF SetFabric, Images
  <2>2. fabric' \in Versions
    BY <1>0, <1>2 DEF SetFabric, Goes, Running
  <2> QED
    BY <1>2, <2>1, <2>2, GoesTyped DEF SetFabric, TypeOK, Running, Goes
<1>3. CASE Check(n, p)
  BY <1>3, GoesTyped DEF Check, TypeOK, Running, Goes
<1>4. CASE RestoreFabric(n, p)
  <2>1. foreign' \in [Names -> SUBSET Images]
    BY <1>4, SetsTyped DEF RestoreFabric, Images
  <2>2. fabric' \in Versions
    BY <1>0, <1>4 DEF RestoreFabric, Goes, Running
  <2> QED
    BY <1>4, <2>1, <2>2, GoesTyped DEF RestoreFabric, TypeOK, Running, Goes
<1>5. CASE ScriptSucceeds(n, p)
  BY <1>5, GoesTyped DEF ScriptSucceeds, TypeOK, Goes
<1>6. CASE ScriptFails(n, p)
  BY <1>6, GoesTyped DEF ScriptFails, TypeOK, Goes
<1> QED
  BY <1>1, <1>2, <1>3, <1>4, <1>5, <1>6 DEF RunScript

LEMMA StepTyped ==
  ASSUME TypeOK, Coherent, [Next]_vars
  PROVE  TypeOK'
<1> USE DEF resources, images
<1>1. CASE SyncDeployment
  BY <1>1 DEF SyncDeployment, TypeOK
<1>2. ASSUME NEW n \in Names, Create(n)
      PROVE  TypeOK'
  <2>1. PICK u \in Upgrades : upgrade' = [upgrade EXCEPT ![n] = u]
    BY <1>2, ConstantsTyped DEF Create
  <2>2. life' \in [Names -> {"unborn", "live", "deleting", "gone"}]
        /\ upgrade' \in [Names -> Upgrades] /\ seen' \in [Names -> SUBSET Phases]
    BY <1>2, <2>1, JobPhaseIsPhase DEF Create, TypeOK
  <2> QED
    BY <1>2, <2>2 DEF Create, TypeOK
<1>3. ASSUME NEW n \in Names, Delete(n)
      PROVE  TypeOK'
  BY <1>3 DEF Delete, TypeOK
<1>4. ASSUME NEW n \in Names, NEW p \in JobPhases, CreateJob(n, p)
      PROVE  TypeOK'
  <2>1. jobs' \in [Names -> [JobPhases -> Jobs]]
    BY <1>4, NewJobTyped, JobTyped DEF CreateJob, TypeOK
  <2> QED
    BY <1>4, <2>1 DEF CreateJob, TypeOK
<1>5. ASSUME NEW n \in Names, NEW p \in JobPhases, CollectJob(n, p)
      PROVE  TypeOK'
  <2>1. jobs' \in [Names -> [JobPhases -> Jobs]]
    BY <1>5, ConstantsTyped, JobTyped DEF CollectJob
  <2> QED
    BY <1>5, <2>1 DEF CollectJob, TypeOK
<1>6. ASSUME NEW n \in Names, NEW p \in JobPhases, RunScript(n, p)
      PROVE  TypeOK'
  BY <1>6, RunScriptTyped DEF Coherent
<1>7. CASE UNCHANGED vars
  BY <1>7 DEF vars, TypeOK
<1> QED
  BY <1>1, <1>2, <1>3, <1>4, <1>5, <1>6, <1>7, ReconcileTyped, DeletionTyped DEF Next

----------------------------------------------------------------------------
(***************************************************************************)
(* What the fit of a status u, read in the phases of s, and its Jobs js    *)
(* says of them.                                                           *)
(***************************************************************************)

LEMMA RankTyped ==
  ASSUME NEW p \in Phases
  PROVE  Rank[p] \in Nat /\ Rank[p] <= 8
  BY DEF Rank

LEMMA Ranks ==
  /\ Rank["Validating"] = 1
  /\ Rank["FreezingOperations"] = 2 /\ Rank["UpgradingCRDs"] = 3
  /\ Rank["UpgradingControllerManager"] = 4 /\ Rank["UpgradingNetworkFabric"] = 5
  /\ Rank["Verifying"] = 6 /\ Rank["RollingBack"] = 7
  /\ Rank["Completed"] = 8 /\ Rank["Failed"] = 8
  BY DEF Rank, Phases, JobPhases, Stages

LEMMA RankOfNew ==
  ASSUME NEW p \in Phases,
         p \notin JobPhases \cup {"Verifying", "Completed", "Failed"}
  PROVE  Rank[p] <= Rank["Validating"]
<1>1. Rank[p] \in {0, 1}
  BY DEF Rank, JobPhases, Stages
<1> QED
  BY <1>1, Ranks

LEMMA RankGrows ==
  ASSUME NEW s \in SUBSET Phases, NEW r \in Phases, NEW p \in Phases,
         \A q \in s : Rank[q] <= Rank[r], Rank[r] <= Rank[p]
  PROVE  \A q \in s \cup {p} : Rank[q] <= Rank[p]
<1>1. Rank[r] \in Nat /\ Rank[p] \in Nat
  BY RankTyped
<1>2. ASSUME NEW q \in s
      PROVE  Rank[q] <= Rank[p]
  <2>1. Rank[q] \in Nat
    BY RankTyped
  <2> QED
    BY <1>1, <2>1
<1> QED
  BY <1>1, <1>2

\* What a Job was rendered with.
LEMMA JobVersions ==
  ASSUME NEW u, NEW s, NEW js, JobsFit(u, s, js), NEW p \in JobPhases,
         js[p].state # "absent"
  PROVE  js[p].version = VersionFor(u, p)
  BY DEF JobsFit

\* A rollback is created for a stage that failed or for verification.
LEMMA RollbackCause ==
  ASSUME NEW u \in Upgrades, NEW s \in SUBSET Phases, NEW js \in [JobPhases -> Jobs],
         JobsFit(u, s, js), js["RollingBack"].state # "absent"
  PROVE  \/ "Verifying" \in s
         \/ \E q \in Stages \cap s : js[q].state = "failed"
  BY DEF JobsFit

\* After the last stage's success all stages have succeeded.
LEMMA SavedAll ==
  ASSUME NEW u \in Upgrades, NEW s \in SUBSET Phases, NEW js \in [JobPhases -> Jobs],
         JobsFit(u, s, js), u.lastSuccessfulPhase = "UpgradingNetworkFabric"
  PROVE  \A q \in Stages : js[q].state = "succeeded"
<1>1. js["UpgradingNetworkFabric"].state = "succeeded"
  BY DEF JobsFit
<1>2. \A q \in Stages \ {"UpgradingNetworkFabric"} :
        Rank[q] < Rank["UpgradingNetworkFabric"]
  BY Ranks DEF Stages
<1> QED
  BY <1>1, <1>2 DEF JobsFit, Stages

\* Two stages are never unfinished at once: the later one waits.
LEMMA LaterAbsent ==
  ASSUME NEW u \in Upgrades, NEW s \in SUBSET Phases, NEW js \in [JobPhases -> Jobs],
         JobsFit(u, s, js), NEW p \in Stages, NEW q \in Stages,
         Rank[q] < Rank[p], js[q].state # "succeeded"
  PROVE  js[p].state = "absent"
  BY DEF JobsFit

LEMMA RanksDiffer ==
  ASSUME NEW p \in Stages, NEW q \in Stages, p # q
  PROVE  Rank[p] < Rank[q] \/ Rank[q] < Rank[p]
  BY Ranks DEF Stages

\* While the Job of a stage runs, or is still missing, there is no rollback.
LEMMA StageRunsAlone ==
  ASSUME NEW u \in Upgrades, NEW s \in SUBSET Phases, NEW js \in [JobPhases -> Jobs],
         StatusFits(u, s), JobsFit(u, s, js),
         NEW p \in Stages, js[p].state \in Running
  PROVE  js["RollingBack"].state = "absent"
<1> SUFFICES ASSUME js["RollingBack"].state # "absent"
             PROVE  FALSE
  OBVIOUS
<1>1. js[p].state \notin {"absent", "succeeded", "failed"}
  BY DEF Running
<1>2. CASE "Verifying" \in s
  <2>1. u.lastSuccessfulPhase = "UpgradingNetworkFabric"
    BY <1>2 DEF StatusFits
  <2> QED
    BY <1>1, <2>1, SavedAll
<1>3. ASSUME NEW q \in Stages \cap s, js[q].state = "failed"
      PROVE  FALSE
  <2>1. p # q
    BY <1>1, <1>3
  <2>2. js[p].state # "succeeded" /\ js[q].state # "succeeded"
        /\ js[p].state # "absent" /\ js[q].state # "absent"
    BY <1>1, <1>3
  <2> QED
    BY <2>1, <2>2, RanksDiffer, LaterAbsent
<1> QED
  BY <1>2, <1>3, RollbackCause

\* While the status is before or in a stage that has not failed, too.
LEMMA NoRollbackYet ==
  ASSUME NEW u \in Upgrades, NEW s \in SUBSET Phases, NEW js \in [JobPhases -> Jobs],
         StatusFits(u, s), JobsFit(u, s, js),
         \/ u.phase = "Validating"
         \/ u.phase \in Stages /\ js[u.phase].state = "succeeded"
  PROVE  js["RollingBack"].state = "absent"
<1> SUFFICES ASSUME js["RollingBack"].state # "absent"
             PROVE  FALSE
  OBVIOUS
<1>1. Rank[u.phase] \in {1, 2, 3, 4, 5}
  BY Ranks DEF Stages
<1>2. "Verifying" \notin s
  <2>1. "Verifying" \in s => Rank["Verifying"] <= Rank[u.phase]
    BY DEF StatusFits
  <2> QED
    BY <1>1, <2>1, Ranks
<1>3. ASSUME NEW q \in Stages \cap s, js[q].state = "failed"
      PROVE  FALSE
  <2>1. Rank[q] <= Rank[u.phase]
    BY DEF StatusFits
  <2>2. CASE u.phase = "Validating"
    BY <2>1, <2>2, Ranks DEF Stages
  <2>3. CASE u.phase \in Stages /\ js[u.phase].state = "succeeded"
    <3>1. u.phase # q
      BY <1>3, <2>3
    <3>2. Rank[q] < Rank[u.phase]
      <4>1. Rank[q] \in Nat /\ Rank[u.phase] \in Nat
        BY <2>3, RankTyped DEF Phases, JobPhases
      <4> QED
        BY <2>1, <2>3, <3>1, <4>1, RanksDiffer
    <3> QED
      BY <1>3, <2>3, <3>2, LaterAbsent
  <2> QED
    BY <2>2, <2>3
<1> QED
  BY <1>2, <1>3, RollbackCause

----------------------------------------------------------------------------
(***************************************************************************)
(* What each write does to the fit.                                        *)
(***************************************************************************)

\* The status goes on to a phase, or fails.
LEMMA EnterFits ==
  ASSUME NEW u \in Upgrades, NEW s \in SUBSET Phases, NEW js \in [JobPhases -> Jobs],
         StatusFits(u, s), JobsFit(u, s, js),
         NEW p \in Phases, Rank[u.phase] <= Rank[p], u.phase # "Failed",
         p \in JobPhases => js[p].state # "absent",
         p \notin {"", "Validating", "Failed"} => u.previousVersion # NoVersion,
         p \in {"Verifying", "Completed"} =>
           u.lastSuccessfulPhase = "UpgradingNetworkFabric"
  PROVE  /\ StatusFits([u EXCEPT !.phase = p], s \cup {p})
         /\ JobsFit([u EXCEPT !.phase = p], s \cup {p}, js)
<1> DEFINE v == [u EXCEPT !.phase = p]
           t == s \cup {p}
<1>1. /\ v.phase = p /\ v.target = u.target /\ v.previousVersion = u.previousVersion
      /\ v.lastSuccessfulPhase = u.lastSuccessfulPhase /\ v.rolledBack = u.rolledBack
  BY DEF Upgrades
<1>3. \A q \in t : Rank[q] <= Rank[p]
  <2>1. u.phase \in Phases
    BY DEF Upgrades
  <2>2. \A q \in s : Rank[q] <= Rank[u.phase]
    BY DEF StatusFits
  <2> QED
    BY <2>1, <2>2, RankGrows, Zenon
<1>4. ~u.rolledBack
  BY DEF JobsFit, Upgrades
<1> HIDE DEF v
<1>5. StatusFits(v, t)
  <2>1. t \ {"", "Validating", "Failed"} # {} => u.previousVersion # NoVersion
    BY DEF StatusFits
  <2>2. v.phase \in {"Verifying", "Completed"} \/ "Verifying" \in t =>
          v.lastSuccessfulPhase = "UpgradingNetworkFabric"
    BY <1>1 DEF StatusFits
  <2> QED
    BY <1>1, <1>3, <2>1, <2>2 DEF StatusFits
<1>6. JobsFit(v, t, js)
  BY <1>1, <1>4 DEF JobsFit, VersionFor
<1> QED
  BY <1>5, <1>6 DEF v

\* Validation has passed, maybe once more.
LEMMA AcceptFits ==
  ASSUME NEW u \in Upgrades, NEW s \in SUBSET Phases, NEW js \in [JobPhases -> Jobs],
         StatusFits(u, s), JobsFit(u, s, js),
         NEW v \in Versions, NEW cm, NEW nf, u.phase = "Validating"
  PROVE  /\ StatusFits([u EXCEPT !.previousVersion = v], s \cup {"Validating"})
         /\ JobsFit([u EXCEPT !.previousVersion = v], s \cup {"Validating"}, js)
         /\ ImagesFit([u EXCEPT !.previousVersion = v], js, {}, cm, nf)
<1> DEFINE w == [u EXCEPT !.previousVersion = v]
<1>1. /\ w.phase = u.phase /\ w.target = u.target /\ w.previousVersion = v
      /\ w.lastSuccessfulPhase = u.lastSuccessfulPhase /\ w.rolledBack = u.rolledBack
  BY DEF Upgrades
<1>2. v # NoVersion
  BY VersionsAssumption
<1>3. js["RollingBack"].state = "absent"
  BY NoRollbackYet
<1>4. s \cup {"Validating"} = s
  BY DEF StatusFits
<1>5. \A p \in Stages \ {"FreezingOperations"} : js[p].state = "absent"
  <2>1. "FreezingOperations" \notin s
    <3>1. "FreezingOperations" \in s => Rank["FreezingOperations"] <= Rank[u.phase]
      BY DEF StatusFits
    <3> QED
      BY <3>1, Ranks
  <2>2. \A p \in Stages \ {"FreezingOperations"} : Rank["FreezingOperations"] < Rank[p]
    BY Ranks DEF Stages
  <2> QED
    BY <2>1, <2>2 DEF JobsFit, Stages
<1> HIDE DEF w
<1>6. StatusFits(w, s)
  BY <1>1, <1>2 DEF StatusFits
<1>7. JobsFit(w, s, js)
  BY <1>1, <1>2, <1>3 DEF JobsFit, VersionFor
<1>8. ImagesFit(w, js, {}, cm, nf)
  BY <1>3, <1>5 DEF ImagesFit, Stages
<1> QED
  BY <1>4, <1>6, <1>7, <1>8 DEF w

\* The success of the present stage is saved.
LEMMA SaveFits ==
  ASSUME NEW u \in Upgrades, NEW s \in SUBSET Phases, NEW js \in [JobPhases -> Jobs],
         NEW f, NEW cm, NEW nf,
         StatusFits(u, s), JobsFit(u, s, js), ImagesFit(u, js, f, cm, nf),
         NEW p \in Saved, u.phase = p, js[p].state = "succeeded"
  PROVE  /\ StatusFits([u EXCEPT !.lastSuccessfulPhase = p], s \cup {p})
         /\ JobsFit([u EXCEPT !.lastSuccessfulPhase = p], s \cup {p}, js)
         /\ ImagesFit([u EXCEPT !.lastSuccessfulPhase = p], js, f, cm, nf)
<1> DEFINE w == [u EXCEPT !.lastSuccessfulPhase = p]
<1>1. /\ w.phase = u.phase /\ w.target = u.target
      /\ w.previousVersion = u.previousVersion
      /\ w.lastSuccessfulPhase = p /\ w.rolledBack = u.rolledBack
  BY DEF Upgrades
<1>2. js["RollingBack"].state = "absent"
  BY NoRollbackYet DEF Saved
<1>3. s \cup {p} = s
  BY DEF StatusFits
<1>4. "Verifying" \notin s
  <2>1. "Verifying" \in s => Rank["Verifying"] <= Rank[p]
    BY DEF StatusFits
  <2> QED
    BY <2>1, Ranks DEF Saved, Stages
<1>5. p # "Verifying" /\ p # "Completed" /\ p # ""
  BY DEF Saved, Stages
<1> HIDE DEF w
<1>6. StatusFits(w, s)
  BY <1>1, <1>4, <1>5 DEF StatusFits
<1>7. JobsFit(w, s, js)
  BY <1>1, <1>2, <1>5 DEF JobsFit, VersionFor
<1>8. ImagesFit(w, js, f, cm, nf)
  BY <1>1, <1>2 DEF ImagesFit
<1> QED
  BY <1>3, <1>6, <1>7, <1>8 DEF w

\* A rollback that has ended is reported.
LEMMA ReportFits ==
  ASSUME NEW u \in Upgrades, NEW s \in SUBSET Phases, NEW js \in [JobPhases -> Jobs],
         StatusFits(u, s), JobsFit(u, s, js), u.phase = "RollingBack",
         NEW back \in BOOLEAN, back => js["RollingBack"].state = "succeeded"
  PROVE  LET w == [u EXCEPT !.phase = "Failed", !.rolledBack = back]
         IN StatusFits(w, s \cup {"Failed"}) /\ JobsFit(w, s \cup {"Failed"}, js)
<1> DEFINE w == [u EXCEPT !.phase = "Failed", !.rolledBack = back]
           t == s \cup {"Failed"}
<1>1. /\ w.phase = "Failed" /\ w.target = u.target
      /\ w.previousVersion = u.previousVersion
      /\ w.lastSuccessfulPhase = u.lastSuccessfulPhase /\ w.rolledBack = back
  BY DEF Upgrades
<1>2. \A q \in t : Rank[q] <= Rank["Failed"]
  BY Ranks, RankTyped, JobPhaseIsPhase
<1> HIDE DEF w
<1>3. t \ {"", "Validating", "Failed"} = s \ {"", "Validating", "Failed"}
  OBVIOUS
<1>4. StatusFits(w, t)
  BY <1>1, <1>2, <1>3 DEF StatusFits
<1>5. JobsFit(w, t, js)
  <2>1. JobPhases \cap t = JobPhases \cap s /\ Stages \cap t = Stages \cap s
        /\ ("Verifying" \in t <=> "Verifying" \in s) /\ s \subseteq t
    BY DEF JobPhases, Stages
  <2> QED
    BY <1>1, <2>1 DEF JobsFit, VersionFor
<1> QED
  BY <1>4, <1>5 DEF w

\* The Job of p is created for the handler of q.
LEMMA CreateFits ==
  ASSUME NEW u \in Upgrades, NEW s \in SUBSET Phases, NEW js \in [JobPhases -> Jobs],
         NEW f, NEW cm, NEW nf,
         StatusFits(u, s), JobsFit(u, s, js), ImagesFit(u, js, f, cm, nf),
         NEW p \in JobPhases, NEW q \in s, js[p].state = "absent",
         \/ p = "FreezingOperations" /\ u.previousVersion # NoVersion
         \/ /\ p = "UpgradingCRDs" /\ q = "FreezingOperations"
            /\ js[q].state = "succeeded"
         \/ /\ p = "UpgradingControllerManager" /\ q = "UpgradingCRDs"
            /\ u.lastSuccessfulPhase = q
         \/ /\ p = "UpgradingNetworkFabric" /\ q = "UpgradingControllerManager"
            /\ u.lastSuccessfulPhase = q
         \/ /\ p = "RollingBack"
            /\ q = "Verifying" \/ (q \in Stages /\ js[q].state = "failed")
  PROVE  LET new == [js EXCEPT ![p] = NewJob(u, p)]
         IN /\ JobsFit(u, s, new)
            /\ ImagesFit(u, new, f, cm, nf)
            /\ new[p].version # NoVersion
<1> DEFINE new == [js EXCEPT ![p] = NewJob(u, p)]
<1>1. /\ new[p].state = "running" /\ new[p].last = u.lastSuccessfulPhase
      /\ new[p].version = VersionFor(u, p)
  BY DEF NewJob
<1>2. \A r \in JobPhases \ {p} : new[r] = js[r]
  OBVIOUS
<1> HIDE DEF new
<1>3. CASE p = "RollingBack"
  <2>1. q \in Stages \cup {"Verifying"} /\ q \notin {"", "Validating", "Failed"}
    BY <1>3 DEF Stages
  <2>2. u.previousVersion # NoVersion
    BY <2>1 DEF StatusFits
  <2>3. \A r \in Stages : new[r] = js[r]
    BY <1>2, <1>3 DEF JobPhases, Stages
  <2>4. ~u.rolledBack
    BY <1>3 DEF JobsFit, Upgrades
  <2>5. u.lastSuccessfulPhase # "" => new[u.lastSuccessfulPhase].state = "succeeded"
    BY <2>3 DEF JobsFit, Upgrades, Saved
  <2>6. JobsFit(u, s, new)
    <3>1. \A r \in JobPhases :
            new[r].state # "absent" => new[r].version = VersionFor(u, r)
      BY <1>1, <1>2, JobVersions
    <3>2. \A r \in JobPhases \cap s : new[r].state # "absent"
      BY <1>1, <1>2 DEF JobsFit
    <3>3. \A r, o \in Stages :
            Rank[o] < Rank[r] /\ new[r].state # "absent" =>
              new[o].state = "succeeded" /\ o \in s
      BY <2>3, Zenon DEF JobsFit
    <3>4. "Verifying" \in s \/ \E r \in Stages \cap s : new[r].state = "failed"
      BY <1>3, <2>3
    <3> QED
      BY <1>1, <1>3, <2>2, <2>4, <2>5, <3>1, <3>2, <3>3, <3>4 DEF JobsFit
  <2>7. ImagesFit(u, new, f, cm, nf)
    BY <1>1, <1>3, <2>3 DEF ImagesFit, Stages
  <2> QED
    BY <1>1, <1>3, <2>2, <2>6, <2>7 DEF new, VersionFor
<1>4. CASE p \in Stages
  <2>1. p # "RollingBack"
    BY <1>4 DEF Stages
  <2>2. \A r \in Stages : Rank[p] < Rank[r] => js[r].state = "absent"
    BY <1>4, LaterAbsent
  <2>3. \A r \in Stages : Rank[r] < Rank[p] => js[r].state = "succeeded" /\ r \in s
    <3>1. CASE p = "FreezingOperations"
      BY <3>1, Ranks DEF Stages
    <3>2. CASE p = "UpgradingCRDs"
      <4>1. q = "FreezingOperations" /\ js[q].state = "succeeded"
        BY <2>1, <3>2
      <4>2. \A r \in Stages : Rank[r] < Rank[p] => r = "FreezingOperations"
        BY <3>2, Ranks DEF Stages
      <4> QED
        BY <4>1, <4>2
    <3>3. CASE p \in {"UpgradingControllerManager", "UpgradingNetworkFabric"}
      <4>1. /\ u.lastSuccessfulPhase = q
            /\ q = IF p = "UpgradingNetworkFabric" THEN "UpgradingControllerManager"
                                                   ELSE "UpgradingCRDs"
        BY <2>1, <3>3
      <4>2. js[q].state = "succeeded" /\ q \in Stages
        BY <4>1 DEF JobsFit, Stages
      <4>3. \A r \in Stages : Rank[r] < Rank[p] => r = q \/ Rank[r] < Rank[q]
        BY <3>3, <4>1, Ranks DEF Stages
      <4>4. \A r \in Stages : Rank[r] < Rank[q] => js[r].state = "succeeded" /\ r \in s
        BY <4>2 DEF JobsFit
      <4> QED
        BY <4>2, <4>3, <4>4
    <3> QED
      BY <1>4, <3>1, <3>2, <3>3 DEF Stages
  <2>4. u.lastSuccessfulPhase # "" => new[u.lastSuccessfulPhase].state = "succeeded"
    <3>1. u.lastSuccessfulPhase # "" =>
            u.lastSuccessfulPhase \in JobPhases \ {p}
      BY DEF JobsFit, Upgrades, Saved, JobPhases
    <3> QED
      BY <1>2, <3>1 DEF JobsFit
  <2>5. new["RollingBack"] = js["RollingBack"]
    BY <1>2, <2>1 DEF JobPhases
  <2>6. ~(Rank[p] < Rank[p])
    BY <1>4, Ranks DEF Stages
  <2>7. p = "FreezingOperations" \/ u.previousVersion # NoVersion
    <3>1. p # "FreezingOperations" => q \in Stages
      BY <2>1 DEF Stages
    <3>2. q \in Stages => q \notin {"", "Validating", "Failed"}
      BY DEF Stages
    <3> QED
      BY <3>1, <3>2 DEF StatusFits
  <2>8. JobsFit(u, s, new)
    <3>1. \A r \in JobPhases :
            new[r].state # "absent" => new[r].version = VersionFor(u, r)
      BY <1>1, <1>2, JobVersions
    <3>2. \A r \in JobPhases \cap s : new[r].state # "absent"
      BY <1>1, <1>2 DEF JobsFit
    <3>3. ASSUME NEW r \in Stages, NEW o \in Stages,
                 Rank[o] < Rank[r], new[r].state # "absent"
          PROVE  new[o].state = "succeeded" /\ o \in s
      <4>1. CASE r = p
        <5>1. o # p /\ js[o].state = "succeeded" /\ o \in s
          BY <2>3, <2>6, <3>3, <4>1
        <5> QED
          BY <1>2, <5>1 DEF JobPhases
      <4>2. CASE r # p
        <5>1. js[r].state # "absent"
          BY <1>2, <3>3, <4>2 DEF JobPhases
        <5>2. js[o].state = "succeeded" /\ o \in s
          BY <3>3, <5>1 DEF JobsFit
        <5>3. o # p
          BY <5>2
        <5> QED
          BY <1>2, <5>2, <5>3 DEF JobPhases
      <4> QED
        BY <4>1, <4>2
    <3>4. new["FreezingOperations"].state # "absent" => u.previousVersion # NoVersion
      <4>1. CASE p = "FreezingOperations"
        BY <2>1, <4>1
      <4> QED
        BY <2>7, <4>1
    <3>5. new["RollingBack"].state # "absent" =>
            /\ new["RollingBack"].last = u.lastSuccessfulPhase
            /\ \/ "Verifying" \in s
               \/ \E r \in Stages \cap s : new[r].state = "failed"
      <4>1. \A r \in Stages : js[r].state = "failed" => new[r].state = "failed"
        BY <1>2 DEF JobPhases
      <4> QED
        BY <2>5, <4>1 DEF JobsFit
    <3>6. u.rolledBack => u.phase = "Failed" /\ new["RollingBack"].state = "succeeded"
      BY <2>5 DEF JobsFit
    <3> QED
      BY <2>4, <3>1, <3>2, <3>3, <3>4, <3>5, <3>6 DEF JobsFit
  <2>9. ImagesFit(u, new, f, cm, nf)
    <3>1. \A r \in JobPhases : r = p \/ new[r] = js[r]
      BY <1>2
    <3> QED
      BY <1>1, <2>5, <3>1 DEF ImagesFit, JobPhases, Stages
  <2>10. new[p].version # NoVersion
    BY <1>1, <2>1 DEF StatusFits, VersionFor
  <2> QED
    BY <2>8, <2>9, <2>10 DEF new
<1> QED
  BY <1>3, <1>4 DEF JobPhases

\* The script of p goes on, or ends.
LEMMA ScriptFits ==
  ASSUME NEW u \in Upgrades, NEW s \in SUBSET Phases, NEW js \in [JobPhases -> Jobs],
         StatusFits(u, s), JobsFit(u, s, js), NEW p \in JobPhases,
         js[p].state \in Running, NEW to \in {"succeeded", "failed"} \cup Running
  PROVE  JobsFit(u, s, [js EXCEPT ![p] = [js[p] EXCEPT !.state = to]])
<1> DEFINE new == [js EXCEPT ![p] = [js[p] EXCEPT !.state = to]]
<1>1. js[p] \in Jobs /\ js[p].state \notin {"absent", "succeeded", "failed"}
  BY DEF Running
<1>2. new[p].state = to /\ new[p].version = js[p].version /\ new[p].last = js[p].last
  BY <1>1 DEF Jobs
<1>3. \A r \in JobPhases \ {p} : new[r] = js[r]
  OBVIOUS
<1>4. to # "absent"
  BY DEF Running
<1> HIDE DEF new
<1>5. \A r \in JobPhases :
        /\ new[r].version = js[r].version /\ new[r].last = js[r].last
        /\ new[r].state = "absent" <=> js[r].state = "absent"
        /\ js[r].state = "succeeded" => new[r].state = "succeeded"
        /\ js[r].state = "failed" => new[r].state = "failed"
  BY <1>1, <1>2, <1>3, <1>4
<1>6. Stages \subseteq JobPhases /\ "RollingBack" \in JobPhases
  BY DEF JobPhases
<1>7. u.lastSuccessfulPhase # "" => u.lastSuccessfulPhase \in JobPhases
  BY DEF Upgrades, Saved, JobPhases
<1>8. \A o, r \in Stages :
        Rank[o] < Rank[r] /\ new[r].state # "absent" =>
          new[o].state = "succeeded" /\ o \in s
  BY <1>5, <1>6, Zenon DEF JobsFit
<1>9. new["RollingBack"].state # "absent" =>
        /\ new["RollingBack"].last = u.lastSuccessfulPhase
        /\ \/ "Verifying" \in s
           \/ \E q \in Stages \cap s : new[q].state = "failed"
  BY <1>5, <1>6 DEF JobsFit
<1>10. "FreezingOperations" \in JobPhases
  BY DEF JobPhases, Stages
<1>11. \A r \in JobPhases :
         new[r].state # "absent" => new[r].version = VersionFor(u, r)
  BY <1>5, JobVersions
<1>13. \A r \in JobPhases \cap s : new[r].state # "absent"
  BY <1>5 DEF JobsFit
<1>12. /\ new["FreezingOperations"].state # "absent" => u.previousVersion # NoVersion
       /\ u.lastSuccessfulPhase # "" => new[u.lastSuccessfulPhase].state = "succeeded"
       /\ u.rolledBack => u.phase = "Failed" /\ new["RollingBack"].state = "succeeded"
  BY <1>5, <1>6, <1>7, <1>10 DEF JobsFit
<1> QED
  BY <1>8, <1>9, <1>11, <1>12, <1>13 DEF JobsFit, new

----------------------------------------------------------------------------
(***************************************************************************)
(* What the scripts do to the images, the upgrade's own and another's.     *)
(***************************************************************************)

\* An upgrade that has not been validated has set nothing.
LEMMA NothingSet ==
  ASSUME NEW u \in Upgrades, NEW s \in SUBSET Phases, NEW js \in [JobPhases -> Jobs],
         StatusFits(u, s), JobsFit(u, s, js), u.previousVersion = NoVersion
  PROVE  \A p \in JobPhases : js[p].state = "absent"
<1>1. s \subseteq {"", "Validating", "Failed"}
  BY DEF StatusFits
<1>2. s \cap (Stages \cup {"Verifying"}) = {}
  BY <1>1 DEF Stages
<1>3. js["RollingBack"].state = "absent"
  BY <1>2 DEF JobsFit
<1>4. js["FreezingOperations"].state = "absent"
  BY DEF JobsFit
<1>5. ASSUME NEW p \in Stages
      PROVE  js[p].state = "absent"
  <2>1. p = "FreezingOperations" \/ Rank["FreezingOperations"] < Rank[p]
    BY Ranks DEF Stages
  <2>2. "FreezingOperations" \in Stages
    BY DEF Stages
  <2> QED
    BY <1>4, <2>1, <2>2, LaterAbsent
<1> QED
  BY <1>3, <1>5 DEF JobPhases

\* Another upgrade's script has set an image or none.
LEMMA OtherFits ==
  ASSUME NEW u \in Upgrades, NEW s \in SUBSET Phases, NEW js \in [JobPhases -> Jobs],
         NEW f, NEW g, NEW cm, NEW nf, NEW cm2, NEW nf2,
         StatusFits(u, s), JobsFit(u, s, js), ImagesFit(u, js, f, cm, nf),
         f \subseteq g,
         cm2 = cm \/ "deployed" \in g \/ u.previousVersion = NoVersion,
         nf2 = nf \/ "fabric" \in g \/ u.previousVersion = NoVersion
  PROVE  ImagesFit(u, js, g, cm2, nf2)
<1>1. CASE u.previousVersion = NoVersion
  <2>1. /\ js["RollingBack"].state = "absent"
        /\ js["UpgradingControllerManager"].state = "absent"
        /\ js["UpgradingNetworkFabric"].state = "absent"
    BY <1>1, NothingSet DEF JobPhases, Stages
  <2> QED
    BY <2>1 DEF ImagesFit
<1>2. CASE u.previousVersion # NoVersion
  BY <1>2 DEF ImagesFit
<1> QED
  BY <1>1, <1>2

\* How the Job of p differs after a step of its script.
LEMMA StateFields ==
  ASSUME NEW js \in [JobPhases -> Jobs], NEW p \in JobPhases, NEW to
  PROVE  LET new == [js EXCEPT ![p] = [js[p] EXCEPT !.state = to]]
         IN /\ new[p].state = to
            /\ \A r \in JobPhases \ {p} : new[r] = js[r]
  BY DEF Jobs

LEMMA SetControllerManagerFits ==
  ASSUME NEW u \in Upgrades, NEW s \in SUBSET Phases, NEW js \in [JobPhases -> Jobs],
         NEW f, NEW cm, NEW nf,
         StatusFits(u, s), JobsFit(u, s, js), ImagesFit(u, js, f, cm, nf),
         NEW p \in {"UpgradingControllerManager", "RollingBack"},
         js[p].state = "running"
  PROVE  ImagesFit(u, [js EXCEPT ![p] = [js[p] EXCEPT !.state = "applied"]],
                   f \ {"deployed"}, js[p].version, nf)
<1> DEFINE new == [js EXCEPT ![p] = [js[p] EXCEPT !.state = "applied"]]
<1>1. p \in JobPhases /\ JobPhases = {"FreezingOperations", "UpgradingCRDs",
        "UpgradingControllerManager", "UpgradingNetworkFabric", "RollingBack"}
  BY DEF JobPhases, Stages
<1>2. new[p].state = "applied" /\ \A r \in JobPhases \ {p} : new[r] = js[r]
  BY <1>1, StateFields
<1>3. js[p].version = VersionFor(u, p)
  BY <1>1, JobVersions
<1>4. CASE p = "UpgradingControllerManager"
  <2>1. js["RollingBack"].state = "absent"
    BY <1>4, StageRunsAlone DEF Stages, Running
  <2>2. js["UpgradingNetworkFabric"].state = "absent"
    <3>1. Rank["UpgradingControllerManager"] < Rank["UpgradingNetworkFabric"]
      BY Ranks
    <3> QED
      BY <1>4, <3>1, LaterAbsent DEF Stages
  <2>3. js[p].version = u.target
    BY <1>3, <1>4 DEF VersionFor
  <2>4. /\ new["RollingBack"].state = "absent"
        /\ new["UpgradingNetworkFabric"].state = "absent"
    BY <1>1, <1>2, <1>4, <2>1, <2>2
  <2> HIDE DEF new
  <2>5. ImagesFit(u, new, f \ {"deployed"}, js[p].version, nf)
    BY <2>3, <2>4 DEF ImagesFit
  <2> QED
    BY <2>5 DEF new
<1>5. CASE p = "RollingBack"
  <2>1. js[p].version = u.previousVersion
    BY <1>3, <1>5 DEF VersionFor
  <2>2. new["RollingBack"].state = "applied"
    BY <1>2, <1>5
  <2> HIDE DEF new
  <2>3. ImagesFit(u, new, f \ {"deployed"}, js[p].version, nf)
    BY <2>1, <2>2 DEF ImagesFit
  <2> QED
    BY <2>3 DEF new
<1> QED
  BY <1>4, <1>5

LEMMA SetFabricFits ==
  ASSUME NEW u \in Upgrades, NEW s \in SUBSET Phases, NEW js \in [JobPhases -> Jobs],
         NEW f, NEW cm, NEW nf, NEW p,
         StatusFits(u, s), JobsFit(u, s, js), ImagesFit(u, js, f, cm, nf),
         p = "UpgradingNetworkFabric", js[p].state = "running"
  PROVE  ImagesFit(u, [js EXCEPT ![p] = [js[p] EXCEPT !.state = "applied"]],
                   f \ {"fabric"}, cm, js[p].version)
<1> DEFINE new == [js EXCEPT ![p] = [js[p] EXCEPT !.state = "applied"]]
<1>1. p \in JobPhases /\ p \in Stages
  BY DEF JobPhases, Stages
<1>2. new[p].state = "applied" /\ \A r \in JobPhases \ {p} : new[r] = js[r]
  BY <1>1, StateFields
<1>3. js[p].version = u.target
  BY <1>1, JobVersions DEF VersionFor
<1>4. js["RollingBack"].state = "absent"
  BY <1>1, StageRunsAlone DEF Running
<1>5. /\ new["RollingBack"].state = "absent"
      /\ new["UpgradingControllerManager"] = js["UpgradingControllerManager"]
  BY <1>2, <1>4 DEF JobPhases, Stages
<1> HIDE DEF new
<1>6. ImagesFit(u, new, f \ {"fabric"}, cm, js[p].version)
  BY <1>3, <1>4, <1>5 DEF ImagesFit
<1> QED
  BY <1>6 DEF new

LEMMA RestoreFabricFits ==
  ASSUME NEW u \in Upgrades, NEW s \in SUBSET Phases, NEW js \in [JobPhases -> Jobs],
         NEW f, NEW cm, NEW nf, NEW p,
         StatusFits(u, s), JobsFit(u, s, js), ImagesFit(u, js, f, cm, nf),
         p = "RollingBack", js[p].state = "checked"
  PROVE  ImagesFit(u, [js EXCEPT ![p] = [js[p] EXCEPT !.state = "restored"]],
                   f \ {"fabric"}, cm, js[p].version)
<1> DEFINE new == [js EXCEPT ![p] = [js[p] EXCEPT !.state = "restored"]]
<1>1. p \in JobPhases
  BY DEF JobPhases
<1>2. new["RollingBack"].state = "restored"
  BY <1>1, StateFields
<1>3. js[p].version = u.previousVersion
  BY <1>1, JobVersions DEF VersionFor
<1> HIDE DEF new
<1>4. ImagesFit(u, new, f \ {"fabric"}, cm, js[p].version)
  BY <1>2, <1>3 DEF ImagesFit
<1> QED
  BY <1>4 DEF new

\* A script that checks, succeeds or fails sets nothing.
LEMMA GoOnFits ==
  ASSUME NEW u \in Upgrades, NEW s \in SUBSET Phases, NEW js \in [JobPhases -> Jobs],
         NEW f, NEW cm, NEW nf, NEW p \in JobPhases, NEW to,
         StatusFits(u, s), JobsFit(u, s, js), ImagesFit(u, js, f, cm, nf),
         \/ js[p].state = "applied" /\ to = "checked"
         \/ js[p].state = AtEnd(p, js[p].last) /\ to = "succeeded"
         \/ js[p].state # "absent" /\ to = "failed"
  PROVE  ImagesFit(u, [js EXCEPT ![p] = [js[p] EXCEPT !.state = to]], f, cm, nf)
<1> DEFINE new == [js EXCEPT ![p] = [js[p] EXCEPT !.state = to]]
           done == {"applied", "checked", "succeeded"}
<1>1. new[p].state = to /\ \A r \in JobPhases \ {p} : new[r] = js[r]
  BY StateFields
<1>2. js["RollingBack"].state # "absent" =>
        js["RollingBack"].last = u.lastSuccessfulPhase
  BY DEF JobsFit
<1>3. to # "absent" /\ js[p].state # "absent" /\ to \notin {"applied", "restored"}
  BY DEF AtEnd
<1> HIDE DEF new
<1>4. CASE p = "RollingBack"
  <2>1. \A r \in Stages : new[r] = js[r]
    BY <1>1, <1>4 DEF JobPhases, Stages
  <2>2. to \in done => js[p].state \in done \cup {"restored"}
    BY <1>4 DEF AtEnd
  <2>3. to = "succeeded" /\ u.lastSuccessfulPhase = "UpgradingNetworkFabric" =>
          js[p].state = "restored"
    BY <1>2, <1>3, <1>4 DEF AtEnd
  <2> QED
    BY <1>1, <1>3, <1>4, <2>1, <2>2, <2>3 DEF ImagesFit, Stages, new
<1>5. CASE p # "RollingBack"
  <2>1. new["RollingBack"] = js["RollingBack"]
    BY <1>1, <1>5 DEF JobPhases
  <2>2. ASSUME NEW r \in {"UpgradingControllerManager", "UpgradingNetworkFabric"},
               new[r].state \in done
        PROVE  js[r].state \in done
    <3>1. CASE r = p
      BY <1>1, <2>2, <3>1 DEF AtEnd
    <3>2. CASE r # p
      BY <1>1, <2>2, <3>2 DEF JobPhases, Stages
    <3> QED
      BY <3>1, <3>2
  <2> QED
    BY <2>1, <2>2 DEF ImagesFit, new
<1> QED
  BY <1>4, <1>5

----------------------------------------------------------------------------
(***************************************************************************)
(* A step of one name, seen by all.                                        *)
(***************************************************************************)

\* What Coherent says of a name, apart from the state it is read in.
NameFits(l, u, s, js, f, cm, nf) ==
  /\ l = "live" => s # {}
  /\ s # {} => /\ l \in {"live", "deleting"}
               /\ StatusFits(u, s) /\ JobsFit(u, s, js) /\ ImagesFit(u, js, f, cm, nf)
  /\ l \in {"unborn", "gone"} => u = Unborn
  /\ l = "unborn" => \A p \in JobPhases : js[p] = NoJob
  /\ \A p \in JobPhases : js[p].state # "absent" => js[p].version # NoVersion

LEMMA CoherentNow ==
  Coherent <=> \A n \in Names : NameFits(life[n], upgrade[n], seen[n], jobs[n],
                                         foreign[n], deployed, fabric)
  BY DEF Coherent, NameFits, Fits

LEMMA CoherentNext ==
  Coherent' <=> \A n \in Names : NameFits(life'[n], upgrade'[n], seen'[n], jobs'[n],
                                          foreign'[n], deployed', fabric')
<1>1. ASSUME NEW n \in Names
      PROVE  /\ StatusFits(upgrade[n], seen[n])' = StatusFits(upgrade'[n], seen'[n])
             /\ JobsFit(upgrade[n], seen[n], jobs[n])' =
                  JobsFit(upgrade'[n], seen'[n], jobs'[n])
             /\ ImagesFit(upgrade[n], jobs[n], foreign[n], deployed, fabric)' =
                  ImagesFit(upgrade'[n], jobs'[n], foreign'[n], deployed', fabric')
  BY DEF StatusFits, JobsFit, ImagesFit, VersionFor
<1> QED
  BY <1>1 DEF Coherent, NameFits, Fits

\* Another's images are what they were, or foreign to it now.
KeepsImages(m) ==
  /\ foreign[m] \subseteq foreign'[m]
  /\ \/ deployed' = deployed
     \/ "deployed" \in foreign'[m]
     \/ upgrade[m].previousVersion = NoVersion
  /\ \/ fabric' = fabric
     \/ "fabric" \in foreign'[m]
     \/ upgrade[m].previousVersion = NoVersion

LEMMA StepOfOne ==
  ASSUME TypeOK, Coherent, NEW n \in Names,
         \A m \in Names \ {n} :
           /\ life'[m] = life[m] /\ upgrade'[m] = upgrade[m]
           /\ seen'[m] = seen[m] /\ jobs'[m] = jobs[m]
           /\ KeepsImages(m),
         NameFits(life'[n], upgrade'[n], seen'[n], jobs'[n], foreign'[n],
                  deployed', fabric')
  PROVE  Coherent'
<1>1. ASSUME NEW m \in Names \ {n}
      PROVE  NameFits(life'[m], upgrade'[m], seen'[m], jobs'[m], foreign'[m],
                      deployed', fabric')
  <2>1. NameFits(life[m], upgrade[m], seen[m], jobs[m], foreign[m], deployed, fabric)
    BY CoherentNow
  <2>2. upgrade[m] \in Upgrades /\ seen[m] \in SUBSET Phases
        /\ jobs[m] \in [JobPhases -> Jobs]
    BY DEF TypeOK
  <2>3. ASSUME seen[m] # {}
        PROVE  ImagesFit(upgrade[m], jobs[m], foreign'[m], deployed', fabric')
    BY <2>1, <2>2, <2>3, OtherFits DEF NameFits, KeepsImages
  <2> QED
    BY <2>1, <2>3 DEF NameFits
<1> QED
  BY <1>1, CoherentNext

\* A write of the status of a live upgrade.
LEMMA StatusStep ==
  ASSUME TypeOK, Coherent, NEW n \in Names, life[n] = "live",
         NEW u \in Upgrades, UpdateStatus(n, u),
         \A m \in Names \ {n} : foreign'[m] = foreign[m],
         StatusFits(u, seen[n] \cup {u.phase}),
         JobsFit(u, seen[n] \cup {u.phase}, jobs[n]),
         ImagesFit(u, jobs[n], foreign'[n], deployed, fabric)
  PROVE  Coherent'
<1>1. /\ upgrade'[n] = u /\ seen'[n] = seen[n] \cup {u.phase}
      /\ UNCHANGED <<life, jobs, deployed, fabric>>
      /\ \A m \in Names \ {n} : upgrade'[m] = upgrade[m] /\ seen'[m] = seen[m]
  BY StatusTyped
<1>2. NameFits(life[n], upgrade[n], seen[n], jobs[n], foreign[n], deployed, fabric)
  BY CoherentNow
<1>3. NameFits(life'[n], upgrade'[n], seen'[n], jobs'[n], foreign'[n], deployed', fabric')
  BY <1>1, <1>2 DEF NameFits
<1> QED
  BY <1>1, <1>3, StepOfOne DEF KeepsImages

\* What holds of a live upgrade.
LEMMA LiveFits ==
  ASSUME TypeOK, Coherent, NEW n \in Names, life[n] = "live" \/ seen[n] # {}
  PROVE  /\ upgrade[n] \in Upgrades /\ seen[n] \in SUBSET Phases
         /\ jobs[n] \in [JobPhases -> Jobs] /\ foreign[n] \in SUBSET Images
         /\ StatusFits(upgrade[n], seen[n])
         /\ JobsFit(upgrade[n], seen[n], jobs[n])
         /\ ImagesFit(upgrade[n], jobs[n], foreign[n], deployed, fabric)
  BY DEF TypeOK, Coherent, Fits

LEMMA EnterStep ==
  ASSUME TypeOK, Coherent, NEW n \in Names, life[n] = "live",
         NEW p \in Phases, Enter(n, p),
         Rank[upgrade[n].phase] <= Rank[p], upgrade[n].phase # "Failed",
         p \in JobPhases => jobs[n][p].state # "absent",
         p \notin {"", "Validating", "Failed"} => upgrade[n].previousVersion # NoVersion,
         p \in {"Verifying", "Completed"} =>
           upgrade[n].lastSuccessfulPhase = "UpgradingNetworkFabric"
  PROVE  Coherent'
<1> DEFINE u == upgrade[n]
           v == [u EXCEPT !.phase = p]
<1>1. /\ u \in Upgrades /\ seen[n] \in SUBSET Phases /\ jobs[n] \in [JobPhases -> Jobs]
      /\ StatusFits(u, seen[n]) /\ JobsFit(u, seen[n], jobs[n])
      /\ ImagesFit(u, jobs[n], foreign[n], deployed, fabric)
  BY LiveFits
<1>2. /\ v \in Upgrades /\ v.phase = p /\ v.target = u.target
      /\ v.previousVersion = u.previousVersion
      /\ v.lastSuccessfulPhase = u.lastSuccessfulPhase
  BY <1>1 DEF Upgrades
<1>3. StatusFits(v, seen[n] \cup {p}) /\ JobsFit(v, seen[n] \cup {p}, jobs[n])
  BY <1>1, EnterFits
<1>4. ImagesFit(v, jobs[n], foreign[n], deployed, fabric)
  BY <1>1, <1>2 DEF ImagesFit
<1>5. UpdateStatus(n, v) /\ UNCHANGED foreign
  BY DEF Enter
<1> HIDE DEF u, v
<1> QED
  BY <1>2, <1>3, <1>4, <1>5, StatusStep

\* A change of one Job and maybe of the images.
LEMMA JobStep ==
  ASSUME TypeOK, Coherent, NEW n \in Names, NEW p \in JobPhases, NEW j \in Jobs,
         UNCHANGED resources, jobs' = [jobs EXCEPT ![n][p] = j],
         \A m \in Names \ {n} : KeepsImages(m),
         life[n] # "unborn",
         j.state # "absent" => j.version # NoVersion,
         seen[n] # {} =>
           /\ JobsFit(upgrade[n], seen[n], [jobs[n] EXCEPT ![p] = j])
           /\ ImagesFit(upgrade[n], [jobs[n] EXCEPT ![p] = j], foreign'[n],
                        deployed', fabric')
  PROVE  Coherent'
<1>1. /\ jobs'[n] = [jobs[n] EXCEPT ![p] = j]
      /\ \A m \in Names \ {n} : jobs'[m] = jobs[m]
  BY JobTyped
<1>2. NameFits(life[n], upgrade[n], seen[n], jobs[n], foreign[n], deployed, fabric)
  BY CoherentNow
<1>3. jobs[n] \in [JobPhases -> Jobs]
  BY DEF TypeOK
<1>4. \A r \in JobPhases : jobs'[n][r].state # "absent" => jobs'[n][r].version # NoVersion
  BY <1>1, <1>2, <1>3 DEF NameFits
<1>5. UNCHANGED <<life, upgrade, seen>>
  BY DEF resources
<1>6. NameFits(life'[n], upgrade'[n], seen'[n], jobs'[n], foreign'[n], deployed', fabric')
  BY <1>1, <1>2, <1>4, <1>5 DEF NameFits
<1> QED
  BY <1>1, <1>5, <1>6, StepOfOne

----------------------------------------------------------------------------
(***************************************************************************)
(* Each action keeps the fit.                                              *)
(***************************************************************************)

\* What the handler of a live upgrade's phase has to go by.
LEMMA StartsFrom ==
  ASSUME NEW n \in Names, NEW q, NEW p, Starts(n, q, p)
  PROVE  \/ /\ q = "Validating" /\ p = "FreezingOperations"
            /\ upgrade[n].previousVersion # NoVersion
         \/ /\ p = "UpgradingCRDs" /\ q = "FreezingOperations"
            /\ jobs[n][q].state = "succeeded"
         \/ /\ p = "UpgradingControllerManager" /\ q = "UpgradingCRDs"
            /\ upgrade[n].lastSuccessfulPhase = q
         \/ /\ p = "UpgradingNetworkFabric" /\ q = "UpgradingControllerManager"
            /\ upgrade[n].lastSuccessfulPhase = q
         \/ /\ p = "RollingBack"
            /\ q = "Verifying" \/ (q \in Stages /\ jobs[n][q].state = "failed")
<1>1. <<q, p>> \in {<<"UpgradingCRDs", "UpgradingControllerManager">>,
                     <<"UpgradingControllerManager", "UpgradingNetworkFabric">>} =>
        \/ p = "UpgradingControllerManager" /\ q = "UpgradingCRDs"
        \/ p = "UpgradingNetworkFabric" /\ q = "UpgradingControllerManager"
  OBVIOUS
<1>2. \/ q = "Validating" /\ p = "FreezingOperations"
         /\ upgrade[n].previousVersion # NoVersion
      \/ /\ q = "FreezingOperations" /\ p = "UpgradingCRDs"
         /\ JobOf(n, q, "succeeded")
      \/ /\ <<q, p>> \in {<<"UpgradingCRDs", "UpgradingControllerManager">>,
                          <<"UpgradingControllerManager", "UpgradingNetworkFabric">>}
         /\ upgrade[n].lastSuccessfulPhase = q
      \/ p = "RollingBack" /\ CallsForRollback(n, q)
  BY DEF Starts
<1> QED
  BY <1>1, <1>2 DEF CallsForRollback, JobOf

LEMMA StartsUp ==
  ASSUME NEW n \in Names, NEW q, NEW p, Starts(n, q, p)
  PROVE  /\ q \in Phases /\ q \notin {"Failed", "Completed", "RollingBack", ""}
         /\ q # "Validating" \/ upgrade[n].previousVersion # NoVersion
         /\ Rank[q] <= Rank[p] /\ Rank[q] <= Rank["Failed"]
<1>1. \/ q = "Validating" /\ p = "FreezingOperations"
      \/ p = "UpgradingCRDs" /\ q = "FreezingOperations"
      \/ p = "UpgradingControllerManager" /\ q = "UpgradingCRDs"
      \/ p = "UpgradingNetworkFabric" /\ q = "UpgradingControllerManager"
      \/ p = "RollingBack" /\ q \in Stages \cup {"Verifying"}
  BY StartsFrom
<1>2. q # "Validating" \/ upgrade[n].previousVersion # NoVersion
  <2>1. q = "Validating" => p = "FreezingOperations" /\ q \notin Stages
    BY <1>1 DEF Stages
  <2> QED
    BY <2>1, StartsFrom
<1>3. q \in Phases /\ q \notin {"Failed", "Completed", "RollingBack", ""}
  BY <1>1 DEF Phases, JobPhases, Stages
<1>4. Rank[q] <= Rank[p] /\ Rank[q] <= Rank["Failed"]
  BY <1>1, Ranks DEF Stages
<1> QED
  BY <1>2, <1>3, <1>4

LEMMA EnterPhaseStep ==
  ASSUME TypeOK, Coherent, NEW n \in Names, NEW p \in JobPhases,
         EnterPhase(n, p) \/ StartFails(n, p)
  PROVE  Coherent'
<1> DEFINE q == upgrade[n].phase
<1>1. life[n] = "live" /\ Starts(n, q, p)
  BY DEF EnterPhase, StartFails, In
<1>2. StatusFits(upgrade[n], seen[n])
  BY <1>1, LiveFits
<1>3. upgrade[n].previousVersion # NoVersion
  <2>1. q \in seen[n] /\ q \notin {"", "Failed"}
        /\ (q # "Validating" \/ upgrade[n].previousVersion # NoVersion)
    BY <1>1, <1>2, StartsUp DEF StatusFits
  <2> QED
    BY <1>2, <2>1 DEF StatusFits
<1>4. CASE EnterPhase(n, p)
  <2>1. Enter(n, p) /\ jobs[n][p].state # "absent" /\ p \in Phases
        /\ p \notin {"Verifying", "Completed"}
    BY <1>4, JobPhaseIsPhase DEF EnterPhase, JobPhases, Stages
  <2> QED
    BY <1>1, <1>3, <2>1, StartsUp, EnterStep
<1>5. CASE StartFails(n, p)
  <2>1. Enter(n, "Failed") /\ "Failed" \in Phases /\ "Failed" \notin JobPhases
    BY <1>5, JobPhaseIsPhase DEF StartFails, JobPhases, Stages
  <2> QED
    BY <1>1, <2>1, StartsUp, EnterStep
<1> QED
  BY <1>4, <1>5

LEMMA ReconcileStep ==
  ASSUME TypeOK, Coherent, NEW n \in Names, Reconcile(n)
  PROVE  Coherent'
<1> DEFINE u == upgrade[n]
<1>0. "Failed" \notin JobPhases /\ "Failed" \notin {"Verifying", "Completed"}
      /\ "Validating" \notin JobPhases /\ "Verifying" \notin JobPhases
      /\ "Completed" \notin JobPhases
  BY DEF JobPhases, Stages
<1>f. life[n] = "live" =>
        /\ u \in Upgrades /\ seen[n] \in SUBSET Phases /\ jobs[n] \in [JobPhases -> Jobs]
        /\ StatusFits(u, seen[n]) /\ JobsFit(u, seen[n], jobs[n])
        /\ ImagesFit(u, jobs[n], foreign[n], deployed, fabric)
  BY LiveFits
<1>1. CASE startValidation(n)
  <2>1. life[n] = "live" /\ u.phase = "" /\ Enter(n, "Validating")
    BY <1>1 DEF startValidation, In
  <2>2. Rank[u.phase] <= Rank["Validating"]
    <3>1. u.phase \in Phases /\ u.phase \notin JobPhases \cup
            {"Verifying", "Completed", "Failed"}
      BY <2>1, JobPhaseIsPhase DEF JobPhases, Stages
    <3> QED
      BY <3>1, RankOfNew, Zenon
  <2> QED
    BY <1>0, <2>1, <2>2, JobPhaseIsPhase, EnterStep
<1>2. CASE ValidationFails(n)
  <2>1. life[n] = "live" /\ u.phase = "Validating" /\ Enter(n, "Failed")
    BY <1>2 DEF ValidationFails, In
  <2>2. Rank[u.phase] <= Rank["Failed"]
    BY <2>1, Ranks
  <2> QED
    BY <1>0, <2>1, <2>2, JobPhaseIsPhase, EnterStep
<1>3. CASE performValidation(n)
  <2> DEFINE v == [u EXCEPT !.previousVersion = cache]
  <2>1. /\ life[n] = "live" /\ u.phase = "Validating" /\ UpdateStatus(n, v)
        /\ foreign' = [foreign EXCEPT ![n] = {}]
    BY <1>3 DEF performValidation, In
  <2>2. cache \in Versions
    BY DEF TypeOK
  <2>3. v \in Upgrades /\ v.phase = "Validating"
    BY <1>f, <2>1, <2>2 DEF Upgrades
  <2>4. /\ StatusFits(v, seen[n] \cup {"Validating"})
        /\ JobsFit(v, seen[n] \cup {"Validating"}, jobs[n])
        /\ ImagesFit(v, jobs[n], {}, deployed, fabric)
    BY <1>f, <2>1, <2>2, AcceptFits
  <2>5. foreign'[n] = {} /\ \A m \in Names \ {n} : foreign'[m] = foreign[m]
    BY <2>1 DEF TypeOK
  <2> HIDE DEF v, u
  <2> QED
    BY <2>1, <2>3, <2>4, <2>5, StatusStep
<1>4. ASSUME NEW p \in JobPhases, EnterPhase(n, p) \/ StartFails(n, p)
      PROVE  Coherent'
  BY <1>4, EnterPhaseStep
<1>5. CASE RollbackDisabled(n)
  <2>1. life[n] = "live" /\ Enter(n, "Failed") /\ u.phase \in Stages \cup {"Verifying"}
    BY <1>5 DEF RollbackDisabled, In, CallsForRollback
  <2>2. Rank[u.phase] <= Rank["Failed"] /\ u.phase # "Failed"
    BY <2>1, Ranks DEF Stages
  <2> QED
    BY <1>0, <2>1, <2>2, JobPhaseIsPhase, EnterStep
<1>6. CASE SaveLastSuccessful(n)
  <2>1. PICK p \in Saved :
          /\ life[n] = "live" /\ u.phase = p /\ jobs[n][p].state = "succeeded"
          /\ UpdateStatus(n, [u EXCEPT !.lastSuccessfulPhase = p])
          /\ UNCHANGED foreign
    BY <1>6 DEF SaveLastSuccessful, In, JobOf
  <2> DEFINE v == [u EXCEPT !.lastSuccessfulPhase = p]
  <2>2. v \in Upgrades /\ v.phase = p
    BY <1>f, <2>1 DEF Upgrades
  <2>3. /\ StatusFits(v, seen[n] \cup {p}) /\ JobsFit(v, seen[n] \cup {p}, jobs[n])
        /\ ImagesFit(v, jobs[n], foreign[n], deployed, fabric)
    BY <1>f, <2>1, SaveFits
  <2> HIDE DEF v, u
  <2> QED
    BY <2>1, <2>2, <2>3, StatusStep DEF v
<1>7. CASE startVerification(n)
  <2>1. /\ life[n] = "live" /\ u.phase = "UpgradingNetworkFabric"
        /\ u.lastSuccessfulPhase = "UpgradingNetworkFabric" /\ Enter(n, "Verifying")
    BY <1>7 DEF startVerification, In
  <2>2. Rank[u.phase] <= Rank["Verifying"]
    BY <2>1, Ranks
  <2>3. u.previousVersion # NoVersion
    BY <1>f, <2>1 DEF StatusFits
  <2> QED
    BY <1>0, <2>1, <2>2, <2>3, JobPhaseIsPhase, EnterStep
<1>8. CASE CompleteVerification(n)
  <2>1. life[n] = "live" /\ u.phase = "Verifying" /\ Enter(n, "Completed")
    BY <1>8 DEF CompleteVerification, In
  <2>2. Rank[u.phase] <= Rank["Completed"]
    BY <2>1, Ranks
  <2>3. u.previousVersion # NoVersion /\ u.lastSuccessfulPhase = "UpgradingNetworkFabric"
    BY <1>f, <2>1 DEF StatusFits
  <2> QED
    BY <1>0, <2>1, <2>2, <2>3, JobPhaseIsPhase, EnterStep
<1>9. CASE monitorRollback(n)
  <2>1. PICK outcome \in {"succeeded", "failed"} :
          /\ life[n] = "live" /\ u.phase = "RollingBack"
          /\ jobs[n]["RollingBack"].state = outcome
          /\ UpdateStatus(n, [u EXCEPT !.phase = "Failed",
                                       !.rolledBack = (outcome = "succeeded")])
          /\ UNCHANGED foreign
    BY <1>9 DEF monitorRollback, In, JobOf
  <2> DEFINE back == (outcome = "succeeded")
             v == [u EXCEPT !.phase = "Failed", !.rolledBack = back]
  <2>2. back \in BOOLEAN /\ (back => jobs[n]["RollingBack"].state = "succeeded")
    BY <2>1
  <2>3. StatusFits(v, seen[n] \cup {"Failed"}) /\ JobsFit(v, seen[n] \cup {"Failed"}, jobs[n])
    <3> HIDE DEF back
    <3> QED
      BY <1>f, <2>1, <2>2, ReportFits
  <2>4. /\ v \in Upgrades /\ v.phase = "Failed" /\ v.target = u.target
        /\ v.previousVersion = u.previousVersion
        /\ v.lastSuccessfulPhase = u.lastSuccessfulPhase
    BY <1>f, <2>1, <2>2, JobPhaseIsPhase DEF Upgrades
  <2>5. ImagesFit(v, jobs[n], foreign[n], deployed, fabric)
    BY <1>f, <2>1, <2>4 DEF ImagesFit
  <2>6. UpdateStatus(n, v) /\ UNCHANGED foreign
    BY <2>1
  <2> HIDE DEF v, u
  <2> QED
    BY <2>1, <2>3, <2>4, <2>5, <2>6, StatusStep
<1> QED
  BY <1>1, <1>2, <1>3, <1>4, <1>5, <1>6, <1>7, <1>8, <1>9 DEF Reconcile

LEMMA CreateJobStep ==
  ASSUME TypeOK, Coherent, NEW n \in Names, NEW p \in JobPhases, CreateJob(n, p)
  PROVE  Coherent'
<1>1. PICK q \in seen[n] : Starts(n, q, p)
  BY DEF CreateJob
<1>2. /\ jobs[n][p].state = "absent" /\ UNCHANGED <<resources, images, cache>>
      /\ jobs' = [jobs EXCEPT ![n][p] = NewJob(upgrade[n], p)]
  BY DEF CreateJob
<1>3. /\ upgrade[n] \in Upgrades /\ seen[n] \in SUBSET Phases
      /\ jobs[n] \in [JobPhases -> Jobs]
      /\ StatusFits(upgrade[n], seen[n]) /\ JobsFit(upgrade[n], seen[n], jobs[n])
      /\ ImagesFit(upgrade[n], jobs[n], foreign[n], deployed, fabric)
  BY <1>1, LiveFits
<1> DEFINE new == [jobs[n] EXCEPT ![p] = NewJob(upgrade[n], p)]
<1>4. /\ JobsFit(upgrade[n], seen[n], new)
      /\ ImagesFit(upgrade[n], new, foreign[n], deployed, fabric)
      /\ new[p].version # NoVersion
  <2>1. \/ p = "FreezingOperations" /\ upgrade[n].previousVersion # NoVersion
        \/ /\ p = "UpgradingCRDs" /\ q = "FreezingOperations"
           /\ jobs[n][q].state = "succeeded"
        \/ /\ p = "UpgradingControllerManager" /\ q = "UpgradingCRDs"
           /\ upgrade[n].lastSuccessfulPhase = q
        \/ /\ p = "UpgradingNetworkFabric" /\ q = "UpgradingControllerManager"
           /\ upgrade[n].lastSuccessfulPhase = q
        \/ /\ p = "RollingBack"
           /\ q = "Verifying" \/ (q \in Stages /\ jobs[n][q].state = "failed")
    BY <1>1, StartsFrom
  <2> QED
    BY <1>2, <1>3, <2>1, CreateFits
<1>5. NewJob(upgrade[n], p) \in Jobs /\ NewJob(upgrade[n], p).version # NoVersion
  BY <1>3, <1>4, NewJobTyped
<1>6. life[n] # "unborn" /\ \A m \in Names \ {n} : KeepsImages(m)
  BY <1>1, <1>2 DEF Coherent, images, KeepsImages
<1>7. UNCHANGED <<foreign, deployed, fabric>>
  BY <1>2 DEF images
<1> QED
  BY <1>2, <1>4, <1>5, <1>6, <1>7, JobStep

\* A step of a script, whatever it sets.
LEMMA GoesStep ==
  ASSUME TypeOK, Coherent, NEW n \in Names, NEW p \in JobPhases,
         jobs[n][p].state \in Running, NEW to \in {"succeeded", "failed"} \cup Running,
         Goes(n, p, jobs[n][p].state, to),
         \A m \in Names \ {n} : KeepsImages(m),
         seen[n] # {} =>
           ImagesFit(upgrade[n], [jobs[n] EXCEPT ![p] = [jobs[n][p] EXCEPT !.state = to]],
                     foreign'[n], deployed', fabric')
  PROVE  Coherent'
<1> DEFINE j == [jobs[n][p] EXCEPT !.state = to]
<1>1. jobs[n] \in [JobPhases -> Jobs] /\ jobs[n][p] \in Jobs
  BY DEF TypeOK
<1>2. j \in Jobs /\ j.version = jobs[n][p].version
  BY <1>1 DEF Jobs
<1>3. jobs[n][p].state # "absent"
  BY DEF Running
<1>4. jobs[n][p].version # NoVersion
  BY <1>3 DEF Coherent
<1>5. life[n] # "unborn"
  <2>1. NoJob.state = "absent"
    BY DEF NoJob
  <2>2. life[n] = "unborn" => jobs[n][p] = NoJob
    BY DEF Coherent
  <2> QED
    BY <1>3, <2>1, <2>2
<1>6. UNCHANGED resources /\ jobs' = [jobs EXCEPT ![n][p] = j]
  BY DEF Goes
<1>7. seen[n] # {} => JobsFit(upgrade[n], seen[n], [jobs[n] EXCEPT ![p] = j])
  BY LiveFits, ScriptFits
<1> HIDE DEF j
<1>8. seen[n] # {} =>
        ImagesFit(upgrade[n], [jobs[n] EXCEPT ![p] = j], foreign'[n], deployed', fabric')
  BY DEF j
<1> QED
  BY <1>2, <1>4, <1>5, <1>6, <1>7, <1>8, JobStep

LEMMA SetsKeep ==
  ASSUME TypeOK, NEW n \in Names, NEW image \in Images, Sets(n, image),
         deployed' = deployed \/ image = "deployed",
         fabric' = fabric \/ image = "fabric"
  PROVE  \A m \in Names \ {n} : KeepsImages(m)
<1> SUFFICES ASSUME NEW m \in Names \ {n}
             PROVE  KeepsImages(m)
  OBVIOUS
<1>1. foreign'[m] = IF upgrade[m].previousVersion # NoVersion
                    THEN foreign[m] \cup {image} ELSE foreign[m]
  BY SetsTyped
<1>2. foreign[m] \subseteq foreign'[m]
  BY <1>1
<1>3. image \in foreign'[m] \/ upgrade[m].previousVersion = NoVersion
  BY <1>1
<1> QED
  BY <1>2, <1>3 DEF KeepsImages

LEMMA RunScriptStep ==
  ASSUME TypeOK, Coherent, NEW n \in Names, NEW p \in JobPhases, RunScript(n, p)
  PROVE  Coherent'
<1> DEFINE now == jobs[n][p].state
<1>f. seen[n] # {} =>
        /\ upgrade[n] \in Upgrades /\ seen[n] \in SUBSET Phases
        /\ jobs[n] \in [JobPhases -> Jobs] /\ StatusFits(upgrade[n], seen[n])
        /\ JobsFit(upgrade[n], seen[n], jobs[n])
        /\ ImagesFit(upgrade[n], jobs[n], foreign[n], deployed, fabric)
  BY LiveFits
<1>1. CASE SetControllerManager(n, p)
  <2>1. /\ p \in {"UpgradingControllerManager", "RollingBack"} /\ now = "running"
        /\ Goes(n, p, now, "applied") /\ Sets(n, "deployed")
        /\ deployed' = jobs[n][p].version /\ fabric' = fabric
    BY <1>1 DEF SetControllerManager, Goes
  <2>2. foreign'[n] = foreign[n] \ {"deployed"} /\ \A m \in Names \ {n} : KeepsImages(m)
    BY <2>1, SetsTyped, SetsKeep DEF Images
  <2>3. seen[n] # {} =>
          ImagesFit(upgrade[n],
                    [jobs[n] EXCEPT ![p] = [jobs[n][p] EXCEPT !.state = "applied"]],
                    foreign'[n], deployed', fabric')
    <3>1. seen[n] # {} =>
            ImagesFit(upgrade[n],
                      [jobs[n] EXCEPT ![p] = [jobs[n][p] EXCEPT !.state = "applied"]],
                      foreign[n] \ {"deployed"}, jobs[n][p].version, fabric)
      BY <1>f, <2>1, SetControllerManagerFits
    <3> QED
      BY <2>1, <2>2, <3>1
  <2> QED
    BY <2>1, <2>2, <2>3, GoesStep DEF Running
<1>2. CASE SetFabric(n, p)
  <2>1. /\ p = "UpgradingNetworkFabric" /\ now = "running"
        /\ Goes(n, p, now, "applied") /\ Sets(n, "fabric")
        /\ fabric' = jobs[n][p].version /\ deployed' = deployed
    BY <1>2 DEF SetFabric, Goes
  <2>2. foreign'[n] = foreign[n] \ {"fabric"} /\ \A m \in Names \ {n} : KeepsImages(m)
    BY <2>1, SetsTyped, SetsKeep DEF Images
  <2>3. seen[n] # {} =>
          ImagesFit(upgrade[n],
                    [jobs[n] EXCEPT ![p] = [jobs[n][p] EXCEPT !.state = "applied"]],
                    foreign'[n], deployed', fabric')
    <3>1. seen[n] # {} =>
            ImagesFit(upgrade[n],
                      [jobs[n] EXCEPT ![p] = [jobs[n][p] EXCEPT !.state = "applied"]],
                      foreign[n] \ {"fabric"}, deployed, jobs[n][p].version)
      BY <1>f, <2>1, SetFabricFits
    <3> QED
      BY <2>1, <2>2, <3>1
  <2> QED
    BY <2>1, <2>2, <2>3, GoesStep DEF Running
<1>3. CASE RestoreFabric(n, p)
  <2>1. /\ p = "RollingBack" /\ now = "checked"
        /\ Goes(n, p, now, "restored") /\ Sets(n, "fabric")
        /\ fabric' = jobs[n][p].version /\ deployed' = deployed
    BY <1>3 DEF RestoreFabric, Goes
  <2>2. foreign'[n] = foreign[n] \ {"fabric"} /\ \A m \in Names \ {n} : KeepsImages(m)
    BY <2>1, SetsTyped, SetsKeep DEF Images
  <2>3. seen[n] # {} =>
          ImagesFit(upgrade[n],
                    [jobs[n] EXCEPT ![p] = [jobs[n][p] EXCEPT !.state = "restored"]],
                    foreign'[n], deployed', fabric')
    <3>1. seen[n] # {} =>
            ImagesFit(upgrade[n],
                      [jobs[n] EXCEPT ![p] = [jobs[n][p] EXCEPT !.state = "restored"]],
                      foreign[n] \ {"fabric"}, deployed, jobs[n][p].version)
      BY <1>f, <2>1, RestoreFabricFits
    <3> QED
      BY <2>1, <2>2, <3>1
  <2> QED
    BY <2>1, <2>2, <2>3, GoesStep DEF Running
<1>4. ASSUME NEW to \in {"checked", "succeeded", "failed"},
             now \in Running, Goes(n, p, now, to), UNCHANGED images,
             \/ now = "applied" /\ to = "checked"
             \/ now = AtEnd(p, jobs[n][p].last) /\ to = "succeeded"
             \/ to = "failed"
      PROVE  Coherent'
  <2>1. /\ UNCHANGED <<deployed, fabric, foreign>>
        /\ \A m \in Names \ {n} : KeepsImages(m)
    BY <1>4 DEF images, KeepsImages
  <2>2. now # "absent"
    BY <1>4 DEF Running
  <2>3. seen[n] # {} =>
          ImagesFit(upgrade[n],
                    [jobs[n] EXCEPT ![p] = [jobs[n][p] EXCEPT !.state = to]],
                    foreign'[n], deployed', fabric')
    BY <1>f, <1>4, <2>1, <2>2, GoOnFits
  <2>4. to \in {"succeeded", "failed"} \cup Running
    BY <1>4 DEF Running
  <2> QED
    BY <1>4, <2>1, <2>3, <2>4, GoesStep
<1>5. CASE Check(n, p)
  <2>1. now = "applied" /\ Goes(n, p, now, "checked") /\ UNCHANGED images
    BY <1>5 DEF Check, Goes
  <2> QED
    BY <1>4, <2>1 DEF Running
<1>6. CASE ScriptSucceeds(n, p)
  <2>1. /\ now = AtEnd(p, jobs[n][p].last) /\ Goes(n, p, now, "succeeded")
        /\ UNCHANGED images
    BY <1>6 DEF ScriptSucceeds, Goes
  <2>2. AtEnd(p, jobs[n][p].last) \in Running
    BY DEF AtEnd, Running
  <2> QED
    BY <1>4, <2>1, <2>2
<1>7. CASE ScriptFails(n, p)
  <2>1. now \in Running /\ Goes(n, p, now, "failed") /\ UNCHANGED images
    BY <1>7 DEF ScriptFails, Running
  <2> QED
    BY <1>4, <2>1
<1> QED
  BY <1>1, <1>2, <1>3, <1>5, <1>6, <1>7 DEF RunScript

LEMMA CreateStep ==
  ASSUME TypeOK, Coherent, NEW n \in Names, Create(n)
  PROVE  Coherent'
<1>1. /\ life[n] = "unborn" /\ life' = [life EXCEPT ![n] = "live"]
      /\ seen' = [seen EXCEPT ![n] = {""}]
      /\ UNCHANGED <<jobs, deployed, fabric, foreign>>
  BY DEF Create, images
<1>2. PICK target \in Targets, autoRollback \in AutoRollbacks :
        upgrade' = [upgrade EXCEPT ![n] = [Unborn EXCEPT
                                             !.target = target,
                                             !.autoRollback = autoRollback]]
  BY DEF Create
<1> DEFINE u == [Unborn EXCEPT !.target = target, !.autoRollback = autoRollback]
<1>3. /\ u.phase = "" /\ u.target = target /\ u.lastSuccessfulPhase = ""
      /\ u.previousVersion = NoVersion /\ ~u.rolledBack
  BY DEF Unborn
<1>4. /\ upgrade'[n] = u /\ life'[n] = "live" /\ seen'[n] = {""}
      /\ \A m \in Names \ {n} : /\ upgrade'[m] = upgrade[m] /\ life'[m] = life[m]
                                /\ seen'[m] = seen[m] /\ jobs'[m] = jobs[m]
  BY <1>1, <1>2 DEF TypeOK
<1>5. NoJob.state = "absent"
  BY DEF NoJob
<1>6. \A p \in JobPhases : jobs[n][p].state = "absent"
  BY <1>1, <1>5 DEF Coherent
<1>7. {"RollingBack"} \cup Stages \subseteq JobPhases
  BY DEF JobPhases
<1>8. StatusFits(u, {""})
  <2>1. target # NoVersion
    BY VersionsAssumption
  <2>2. Rank[""] <= Rank[""]
    <3>1. "" \in Phases
      BY JobPhaseIsPhase
    <3>2. \A q \in Phases : Rank[q] <= Rank[q]
      BY RankTyped
    <3> QED
      BY <3>1, <3>2, Zenon
  <2> HIDE DEF u
  <2> QED
    BY <1>3, <2>1, <2>2 DEF StatusFits
<1>9. JobsFit(u, {""}, jobs[n]) /\ ImagesFit(u, jobs[n], foreign[n], deployed, fabric)
  <2>1. /\ jobs[n]["RollingBack"].state = "absent"
        /\ jobs[n]["FreezingOperations"].state = "absent"
        /\ jobs[n]["UpgradingControllerManager"].state = "absent"
        /\ jobs[n]["UpgradingNetworkFabric"].state = "absent"
    BY <1>6 DEF JobPhases, Stages
  <2>2. JobPhases \cap {""} = {}
    BY DEF JobPhases, Stages
  <2> HIDE DEF u
  <2>3. JobsFit(u, {""}, jobs[n])
    BY <1>3, <1>6, <1>7, <2>1, <2>2 DEF JobsFit
  <2> QED
    BY <2>1, <2>3 DEF ImagesFit
<1>10. NameFits(life'[n], upgrade'[n], seen'[n], jobs'[n], foreign'[n], deployed', fabric')
  <2> HIDE DEF u
  <2> QED
    BY <1>1, <1>4, <1>6, <1>8, <1>9 DEF NameFits
<1> QED
  BY <1>1, <1>4, <1>10, StepOfOne DEF KeepsImages

LEMMA DeletionStep ==
  ASSUME TypeOK, Coherent, NEW n \in Names,
         Delete(n) \/ handleDeletion(n) \/ RemoveFinalizer(n)
  PROVE  Coherent'
<1>0. NameFits(life[n], upgrade[n], seen[n], jobs[n], foreign[n], deployed, fabric)
  BY CoherentNow
<1>1. CASE Delete(n)
  <2>1. /\ life[n] = "live" /\ life'[n] = "deleting"
        /\ \A m \in Names \ {n} : life'[m] = life[m]
        /\ UNCHANGED <<upgrade, seen, jobs, deployed, fabric, foreign>>
    BY <1>1 DEF Delete, images, TypeOK
  <2>2. NameFits(life'[n], upgrade'[n], seen'[n], jobs'[n], foreign'[n],
                 deployed', fabric')
    BY <1>0, <2>1 DEF NameFits
  <2> QED
    BY <2>1, <2>2, StepOfOne DEF KeepsImages
<1>2. CASE handleDeletion(n)
  <2>1. PICK left \in SUBSET JobPhases :
          jobs' = [jobs EXCEPT ![n] =
                     [p \in JobPhases |-> IF p \in left THEN jobs[n][p] ELSE NoJob]]
    BY <1>2 DEF handleDeletion
  <2>2. /\ life[n] = "deleting" /\ seen'[n] = {}
        /\ \A m \in Names \ {n} : seen'[m] = seen[m] /\ jobs'[m] = jobs[m]
        /\ UNCHANGED <<life, upgrade, deployed, fabric, foreign>>
    BY <1>2, <2>1 DEF handleDeletion, images, TypeOK
  <2>3. jobs'[n] = [p \in JobPhases |-> IF p \in left THEN jobs[n][p] ELSE NoJob]
    BY <2>1 DEF TypeOK
  <2>4. \A p \in JobPhases : jobs'[n][p].state # "absent" =>
          jobs'[n][p].version # NoVersion
    <3>1. NoJob.state = "absent"
      BY DEF NoJob
    <3>2. \A p \in JobPhases : jobs[n][p].state # "absent" => jobs[n][p].version # NoVersion
      BY <1>0 DEF NameFits
    <3> QED
      BY <2>3, <3>1, <3>2
  <2>5. NameFits(life'[n], upgrade'[n], seen'[n], jobs'[n], foreign'[n],
                 deployed', fabric')
    BY <2>2, <2>4 DEF NameFits
  <2> QED
    BY <2>2, <2>5, StepOfOne DEF KeepsImages
<1>3. CASE RemoveFinalizer(n)
  <2>1. /\ life'[n] = "gone" /\ upgrade'[n] = Unborn /\ seen[n] = {}
        /\ \A m \in Names \ {n} : /\ life'[m] = life[m] /\ upgrade'[m] = upgrade[m]
                                  /\ foreign'[m] = foreign[m]
        /\ UNCHANGED <<seen, jobs, deployed, fabric>>
    BY <1>3 DEF RemoveFinalizer, TypeOK
  <2>2. NameFits(life'[n], upgrade'[n], seen'[n], jobs'[n], foreign'[n],
                 deployed', fabric')
    BY <1>0, <2>1 DEF NameFits
  <2> QED
    BY <2>1, <2>2, StepOfOne DEF KeepsImages
<1> QED
  BY <1>1, <1>2, <1>3

LEMMA CollectJobStep ==
  ASSUME TypeOK, Coherent, NEW n \in Names, NEW p \in JobPhases, CollectJob(n, p)
  PROVE  Coherent'
<1>1. /\ life[n] = "gone" /\ jobs' = [jobs EXCEPT ![n][p] = NoJob]
      /\ UNCHANGED <<resources, deployed, fabric, foreign>>
  BY DEF CollectJob, images
<1>2. NoJob \in Jobs /\ NoJob.state = "absent"
  BY ConstantsTyped DEF NoJob
<1>3. seen[n] = {}
  BY <1>1 DEF Coherent
<1>4. \A m \in Names \ {n} : KeepsImages(m)
  BY <1>1 DEF KeepsImages
<1> QED
  BY <1>1, <1>2, <1>3, <1>4, JobStep

LEMMA SameStep ==
  ASSUME Coherent, UNCHANGED <<life, upgrade, seen, jobs, deployed, fabric, foreign>>
  PROVE  Coherent'
  BY CoherentNow, CoherentNext

----------------------------------------------------------------------------
(***************************************************************************)
(* The invariants.                                                         *)
(***************************************************************************)

Inv == TypeOK /\ Coherent

LEMMA InitInv == Init => Inv
<1> SUFFICES ASSUME Init
             PROVE  Inv
  OBVIOUS
<1>1. NoJob.state = "absent"
  BY DEF NoJob
<1>2. ASSUME NEW n \in Names
      PROVE  NameFits(life[n], upgrade[n], seen[n], jobs[n], foreign[n], deployed, fabric)
  <2>1. /\ life[n] = "unborn" /\ upgrade[n] = Unborn /\ seen[n] = {}
        /\ \A p \in JobPhases : jobs[n][p] = NoJob
    BY DEF Init
  <2> QED
    BY <1>1, <2>1 DEF NameFits
<1> QED
  BY <1>2, InitTypes, CoherentNow DEF Inv

LEMMA StepInv == Inv /\ [Next]_vars => Inv'
<1> SUFFICES ASSUME TypeOK, Coherent, [Next]_vars
             PROVE  Inv'
  BY DEF Inv
<1>1. TypeOK'
  BY StepTyped
<1>2. CASE SyncDeployment \/ UNCHANGED vars
  <2>1. UNCHANGED <<life, upgrade, seen, jobs, deployed, fabric, foreign>>
    BY <1>2 DEF SyncDeployment, vars, resources, images
  <2> QED
    BY <1>1, <2>1, SameStep DEF Inv
<1>3. ASSUME NEW n \in Names,
             \/ Create(n) \/ Delete(n) \/ Reconcile(n)
             \/ handleDeletion(n) \/ RemoveFinalizer(n)
      PROVE  Coherent'
  BY <1>3, CreateStep, DeletionStep, ReconcileStep
<1>4. ASSUME NEW n \in Names, NEW p \in JobPhases,
             CreateJob(n, p) \/ CollectJob(n, p) \/ RunScript(n, p)
      PROVE  Coherent'
  BY <1>4, CreateJobStep, CollectJobStep, RunScriptStep
<1> QED
  BY <1>1, <1>2, <1>3, <1>4 DEF Next, Inv

LEMMA SpecInv == Spec => []Inv
  BY InitInv, StepInv, PTL DEF Spec

\* The variables keep their types, whatever the upgrades do to each other.
THEOREM TypeCorrect == Spec => []TypeOK
<1>1. Inv => TypeOK
  BY DEF Inv
<1> QED
  BY <1>1, SpecInv, PTL

\* Status, Jobs and cluster always fit together, with a Job created before its
\* status write, from a stale copy or left behind by a removal.
THEOREM StaysCoherent == Spec => []Coherent
<1>1. Inv => Coherent
  BY DEF Inv
<1> QED
  BY <1>1, SpecInv, PTL

LEMMA EndsHold == Inv => CompletedHolds /\ RolledBackHolds
<1> SUFFICES ASSUME TypeOK, Coherent
             PROVE  CompletedHolds /\ RolledBackHolds
  BY DEF Inv
<1>1. ASSUME NEW n \in Names, In(n, "Completed"), JobOf(n, "RollingBack", "absent")
      PROVE  /\ deployed = upgrade[n].target \/ "deployed" \in foreign[n]
             /\ fabric = upgrade[n].target \/ "fabric" \in foreign[n]
  <2>1. /\ upgrade[n] \in Upgrades /\ seen[n] \in SUBSET Phases
        /\ jobs[n] \in [JobPhases -> Jobs]
        /\ StatusFits(upgrade[n], seen[n]) /\ JobsFit(upgrade[n], seen[n], jobs[n])
        /\ ImagesFit(upgrade[n], jobs[n], foreign[n], deployed, fabric)
    BY <1>1, LiveFits DEF In
  <2>2. upgrade[n].lastSuccessfulPhase = "UpgradingNetworkFabric"
    BY <1>1, <2>1 DEF In, StatusFits
  <2>3. /\ jobs[n]["UpgradingControllerManager"].state = "succeeded"
        /\ jobs[n]["UpgradingNetworkFabric"].state = "succeeded"
    BY <2>1, <2>2, SavedAll DEF Stages
  <2> QED
    BY <1>1, <2>1, <2>3 DEF JobOf, ImagesFit
<1>2. ASSUME NEW n \in Names, life[n] = "live", upgrade[n].rolledBack
      PROVE  /\ deployed = upgrade[n].previousVersion \/ "deployed" \in foreign[n]
             /\ \/ upgrade[n].lastSuccessfulPhase # "UpgradingNetworkFabric"
                \/ fabric = upgrade[n].previousVersion
                \/ "fabric" \in foreign[n]
  <2>1. /\ JobsFit(upgrade[n], seen[n], jobs[n])
        /\ ImagesFit(upgrade[n], jobs[n], foreign[n], deployed, fabric)
    BY <1>2, LiveFits
  <2>2. jobs[n]["RollingBack"].state = "succeeded"
    BY <1>2, <2>1 DEF JobsFit
  <2> QED
    BY <2>1, <2>2 DEF ImagesFit
<1> QED
  BY <1>1, <1>2 DEF CompletedHolds, RolledBackHolds

\* A completed upgrade's images are on its target until another upgrade's
\* script, or a rollback Job of its own created late, changes them.
THEOREM CompletionIsHonest == Spec => []CompletedHolds
<1>1. Inv => CompletedHolds
  BY EndsHold
<1> QED
  BY <1>1, SpecInv, PTL

\* An upgrade reported as rolled back has restored what it had upgraded, until
\* another upgrade's script changes it.
THEOREM RollbackIsHonest == Spec => []RolledBackHolds
<1>1. Inv => RolledBackHolds
  BY EndsHold
<1> QED
  BY <1>1, SpecInv, PTL

----------------------------------------------------------------------------
(***************************************************************************)
(* Each status keeps the lifecycle.                                        *)
(***************************************************************************)

LEMMA UnbornStatus ==
  /\ Unborn.phase = "" /\ Unborn.previousVersion = NoVersion
  /\ Unborn.lastSuccessfulPhase = "" /\ Unborn.rolledBack = FALSE
  BY DEF Unborn

LEMMA LifecycleInit == Init => \A n \in Names : Lifecycle(n)!Init
<1> SUFFICES ASSUME Init, NEW n \in Names
             PROVE  Lifecycle(n)!Init
  OBVIOUS
<1>1. upgrade[n] = Unborn /\ life[n] = "unborn"
  BY DEF Init
<1>2. life[n] \notin {"live", "deleting"}
  BY <1>1
<1>3. (life[n] \in {"live", "deleting"}) = FALSE
  BY <1>2
<1> QED
  BY <1>1, <1>3, UnbornStatus DEF Lifecycle!Init, Lifecycle!status, Lifecycle!Fresh

\* A step of another name, and a deletion that is only asked for.
LEMMA LifecycleStutter ==
  ASSUME NEW n \in Names, upgrade'[n] = upgrade[n],
         \/ life'[n] = life[n]
         \/ life[n] = "live" /\ life'[n] = "deleting"
  PROVE  UNCHANGED Lifecycle(n)!life
  BY DEF Lifecycle!life

\* Another phase, and nothing else.
LEMMA LifecycleMoves ==
  ASSUME NEW n \in Names, NEW p, TypeOK, life[n] = "live", Enter(n, p)
  PROVE  Lifecycle(n)!Move(upgrade[n].phase, p)
<1> DEFINE u == upgrade[n]
           v == [u EXCEPT !.phase = p]
<1>1. u \in Upgrades /\ upgrade'[n] = v /\ life'[n] = "live"
  BY DEF TypeOK, Enter, UpdateStatus
<1>2. /\ v.phase = p
      /\ v.previousVersion = u.previousVersion
      /\ v.lastSuccessfulPhase = u.lastSuccessfulPhase
      /\ v.rolledBack = u.rolledBack
  BY <1>1 DEF Upgrades
<1> HIDE DEF u, v
<1> QED
  BY <1>1, <1>2 DEF Lifecycle!Move, u

\* Of whatever is begun, the start may fail.
LEMMA LifecycleFails ==
  ASSUME TypeOK, NEW n \in Names, life[n] = "live",
         upgrade[n].phase \in Stages \cup {"Validating", "Verifying"},
         Enter(n, "Failed")
  PROVE  Lifecycle(n)!Next
<1>1. Lifecycle(n)!Move(upgrade[n].phase, "Failed")
  BY LifecycleMoves
<1>2. upgrade[n].phase \in Lifecycle(n)!Changing \cup {"Validating"}
  BY DEF Stages, Lifecycle!Changing, Lifecycle!Following
<1>3. Lifecycle(n)!Fail
  BY <1>1, <1>2 DEF Lifecycle!Fail
<1> QED
  BY <1>3 DEF Lifecycle!Next

LEMMA LifecycleEnters ==
  ASSUME TypeOK, Coherent, NEW n \in Names, NEW p \in JobPhases, EnterPhase(n, p)
  PROVE  Lifecycle(n)!Next
<1> DEFINE q == upgrade[n].phase
<1>1. life[n] = "live" /\ Starts(n, q, p) /\ Enter(n, p)
  BY DEF EnterPhase, In
<1>2. Lifecycle(n)!Move(q, p)
  BY <1>1, LifecycleMoves
<1>3. CASE q = "Validating" /\ p = "FreezingOperations"
           /\ upgrade[n].previousVersion # NoVersion
  BY <1>2, <1>3 DEF Lifecycle!Freeze, Lifecycle!Next
<1>4. CASE p = "UpgradingCRDs" /\ q = "FreezingOperations"
  BY <1>2, <1>4 DEF Lifecycle!UpgradeCRDs, Lifecycle!Next
<1>5. CASE \/ /\ p = "UpgradingControllerManager" /\ q = "UpgradingCRDs"
              /\ upgrade[n].lastSuccessfulPhase = q
           \/ /\ p = "UpgradingNetworkFabric" /\ q = "UpgradingControllerManager"
              /\ upgrade[n].lastSuccessfulPhase = q
  <2>1. /\ q \in DOMAIN Lifecycle(n)!Following
        /\ p = Lifecycle(n)!Following[q]
    BY <1>5 DEF Lifecycle!Following
  <2>2. Lifecycle(n)!Advance
    BY <1>2, <1>5, <2>1 DEF Lifecycle!Advance
  <2> QED
    BY <2>2 DEF Lifecycle!Next
<1>6. CASE p = "RollingBack" /\ q \in Stages \cup {"Verifying"}
  <2>1. q \in Lifecycle(n)!Changing
    BY <1>6 DEF Stages, Lifecycle!Changing, Lifecycle!Following
  <2>2. upgrade[n].previousVersion # NoVersion
    <3>1. StatusFits(upgrade[n], seen[n])
      BY <1>1, LiveFits
    <3>2. q \notin {"", "Validating", "Failed"}
      BY <1>6 DEF Stages
    <3> QED
      BY <3>1, <3>2 DEF StatusFits
  <2>3. Lifecycle(n)!RollBack
    BY <1>2, <1>6, <2>1, <2>2 DEF Lifecycle!RollBack
  <2> QED
    BY <2>3 DEF Lifecycle!Next
<1> QED
  BY <1>1, <1>3, <1>4, <1>5, <1>6, StartsFrom

LEMMA ReconcileLife ==
  ASSUME TypeOK, Coherent, NEW n \in Names, Reconcile(n)
  PROVE  Lifecycle(n)!Next
<1> DEFINE u == upgrade[n]
<1>0. u \in Upgrades
  BY DEF TypeOK
<1>1. CASE startValidation(n)
  <2>1. life[n] = "live" /\ u.phase = "" /\ Enter(n, "Validating")
    BY <1>1 DEF startValidation, In
  <2>2. Lifecycle(n)!Validate
    BY <2>1, LifecycleMoves DEF Lifecycle!Validate
  <2> QED
    BY <2>2 DEF Lifecycle!Next
<1>2. CASE ValidationFails(n)
  BY <1>2, LifecycleFails DEF ValidationFails, In
<1>3. CASE performValidation(n)
  <2> DEFINE v == [u EXCEPT !.previousVersion = cache]
  <2>1. /\ life[n] = "live" /\ life'[n] = "live" /\ u.phase = "Validating"
        /\ upgrade'[n] = v /\ cache \in Versions
    BY <1>3 DEF performValidation, In, UpdateStatus, TypeOK
  <2>2. /\ v.phase = u.phase /\ v.previousVersion = cache
        /\ v.lastSuccessfulPhase = u.lastSuccessfulPhase
        /\ v.rolledBack = u.rolledBack
    BY <1>0 DEF Upgrades
  <2>3. Lifecycle(n)!Accept
    <3> HIDE DEF v
    <3> QED
      BY <2>1, <2>2 DEF Lifecycle!Accept
  <2> QED
    BY <2>3 DEF Lifecycle!Next
<1>4. ASSUME NEW p \in JobPhases, EnterPhase(n, p)
      PROVE  Lifecycle(n)!Next
  BY <1>4, LifecycleEnters
<1>5. ASSUME NEW p \in JobPhases, StartFails(n, p)
      PROVE  Lifecycle(n)!Next
  <2>1. life[n] = "live" /\ Enter(n, "Failed") /\ Starts(n, u.phase, p)
    BY <1>5 DEF StartFails, In
  <2>2. u.phase \in Stages \cup {"Validating", "Verifying"}
    BY <2>1, StartsUp DEF Phases, JobPhases
  <2> QED
    BY <2>1, <2>2, LifecycleFails
<1>6. CASE RollbackDisabled(n)
  BY <1>6, LifecycleFails DEF RollbackDisabled, In, CallsForRollback
<1>7. CASE SaveLastSuccessful(n)
  <2>1. PICK p \in Saved :
          /\ life[n] = "live" /\ life'[n] = "live" /\ u.phase = p
          /\ upgrade'[n] = [u EXCEPT !.lastSuccessfulPhase = p]
    BY <1>7 DEF SaveLastSuccessful, In, UpdateStatus, TypeOK
  <2> DEFINE v == [u EXCEPT !.lastSuccessfulPhase = p]
  <2>2. /\ v.phase = u.phase /\ v.lastSuccessfulPhase = p
        /\ v.previousVersion = u.previousVersion
        /\ v.rolledBack = u.rolledBack
    BY <1>0 DEF Upgrades
  <2>3. p \in DOMAIN Lifecycle(n)!Following
    BY DEF Saved, Stages, Lifecycle!Following
  <2>4. Lifecycle(n)!SaveSuccess
    BY <2>1, <2>2, <2>3 DEF Lifecycle!SaveSuccess
  <2> QED
    BY <2>4 DEF Lifecycle!Next
<1>8. CASE startVerification(n)
  <2>1. /\ life[n] = "live" /\ u.phase = "UpgradingNetworkFabric"
        /\ u.lastSuccessfulPhase = "UpgradingNetworkFabric" /\ Enter(n, "Verifying")
    BY <1>8 DEF startVerification, In
  <2>2. /\ "UpgradingNetworkFabric" \in DOMAIN Lifecycle(n)!Following
        /\ Lifecycle(n)!Following["UpgradingNetworkFabric"] = "Verifying"
    BY DEF Lifecycle!Following
  <2>3. Lifecycle(n)!Advance
    BY <2>1, <2>2, LifecycleMoves DEF Lifecycle!Advance
  <2> QED
    BY <2>3 DEF Lifecycle!Next
<1>9. CASE CompleteVerification(n)
  <2>1. life[n] = "live" /\ u.phase = "Verifying" /\ Enter(n, "Completed")
    BY <1>9 DEF CompleteVerification, In
  <2>2. u.lastSuccessfulPhase = "UpgradingNetworkFabric"
    BY <2>1, LiveFits DEF StatusFits
  <2>3. Lifecycle(n)!Complete
    BY <2>1, <2>2, LifecycleMoves DEF Lifecycle!Complete
  <2> QED
    BY <2>3 DEF Lifecycle!Next
<1>10. CASE monitorRollback(n)
  <2>1. PICK rolledBack \in BOOLEAN :
          /\ life[n] = "live" /\ life'[n] = "live" /\ u.phase = "RollingBack"
          /\ upgrade'[n] = [u EXCEPT !.phase = "Failed", !.rolledBack = rolledBack]
    BY <1>10 DEF monitorRollback, In, UpdateStatus, TypeOK
  <2> DEFINE v == [u EXCEPT !.phase = "Failed", !.rolledBack = rolledBack]
  <2>2. /\ v.phase = "Failed" /\ v.rolledBack = rolledBack
        /\ v.previousVersion = u.previousVersion
        /\ v.lastSuccessfulPhase = u.lastSuccessfulPhase
    BY <1>0 DEF Upgrades
  <2>3. Lifecycle(n)!FinishRollback
    BY <2>1, <2>2 DEF Lifecycle!FinishRollback
  <2> QED
    BY <2>3 DEF Lifecycle!Next
<1> QED
  BY <1>1, <1>2, <1>3, <1>4, <1>5, <1>6, <1>7, <1>8, <1>9, <1>10 DEF Reconcile

\* Who writes the status of a resource, or takes it away.
LEMMA StatusWriters ==
  ASSUME [Next]_vars
  PROVE  \/ UNCHANGED <<life, upgrade>>
         \/ \E n \in Names : Create(n) \/ Delete(n) \/ RemoveFinalizer(n) \/ Reconcile(n)
  BY DEF Next, vars, resources, SyncDeployment, handleDeletion, CreateJob, CollectJob,
         RunScript, SetControllerManager, SetFabric, Check, RestoreFabric,
         ScriptSucceeds, ScriptFails, Goes

LEMMA OwnWrites ==
  ASSUME TypeOK, NEW n \in Names, NEW m \in Names \ {n},
         Create(m) \/ Delete(m) \/ RemoveFinalizer(m) \/ Reconcile(m)
  PROVE  upgrade'[n] = upgrade[n] /\ life'[n] = life[n]
<1>1. ASSUME NEW status, UpdateStatus(m, status)
      PROVE  upgrade'[n] = upgrade[n] /\ life'[n] = life[n]
  BY <1>1 DEF UpdateStatus, TypeOK
<1>2. CASE Reconcile(m)
  <2>1. ASSUME NEW p, Enter(m, p)
        PROVE  upgrade'[n] = upgrade[n] /\ life'[n] = life[n]
    BY <1>1, <2>1 DEF Enter
  <2> QED
    BY <1>1, <1>2, <2>1
       DEF Reconcile, startValidation, ValidationFails, performValidation, EnterPhase,
           StartFails, RollbackDisabled, SaveLastSuccessful, startVerification,
           CompleteVerification, monitorRollback
<1> QED
  BY <1>2 DEF Create, Delete, RemoveFinalizer, TypeOK

LEMMA StepLife ==
  ASSUME Inv, [Next]_vars, NEW n \in Names
  PROVE  [Lifecycle(n)!Next]_(Lifecycle(n)!life)
<1>0. TypeOK /\ Coherent
  BY DEF Inv
<1>1. CASE UNCHANGED <<life, upgrade>>
  BY <1>1, LifecycleStutter
<1>2. CASE Create(n)
  <2>1. PICK target \in Targets, autoRollback \in AutoRollbacks :
          upgrade'[n] = [Unborn EXCEPT !.target = target,
                                       !.autoRollback = autoRollback]
    BY <1>0, <1>2 DEF Create, TypeOK
  <2>2. /\ upgrade'[n].phase = "" /\ upgrade'[n].previousVersion = NoVersion
        /\ upgrade'[n].lastSuccessfulPhase = "" /\ upgrade'[n].rolledBack = FALSE
    BY <2>1 DEF Unborn
  <2>3. life[n] = "unborn" /\ life'[n] = "live"
    BY <1>0, <1>2 DEF Create, TypeOK
  <2>4. life[n] \notin {"live", "deleting"} /\ (life'[n] \in {"live", "deleting"}) = TRUE
    BY <2>3
  <2>5. (IF life'[n] = "unborn" THEN 0 ELSE 1) = (IF life[n] = "unborn" THEN 0 ELSE 1) + 1
    BY <2>3
  <2>6. Lifecycle(n)!Create
    BY <2>2, <2>4, <2>5, Zenon DEF Lifecycle!Create, Lifecycle!status, Lifecycle!Fresh
  <2> QED
    BY <2>6 DEF Lifecycle!Next
<1>3. CASE Delete(n)
  BY <1>0, <1>3, LifecycleStutter DEF Delete, TypeOK
<1>4. CASE RemoveFinalizer(n)
  <2>1. /\ upgrade'[n] = Unborn /\ life[n] = "deleting" /\ life'[n] = "gone"
    BY <1>0, <1>4 DEF RemoveFinalizer, TypeOK
  <2>2. life[n] \in {"live", "deleting"} /\ (life'[n] \in {"live", "deleting"}) = FALSE
    BY <2>1
  <2>3. Lifecycle(n)!Remove
    BY <2>1, <2>2, UnbornStatus DEF Lifecycle!Remove, Lifecycle!status, Lifecycle!Fresh
  <2> QED
    BY <2>3 DEF Lifecycle!Next
<1>5. CASE Reconcile(n)
  BY <1>0, <1>5, ReconcileLife
<1>6. ASSUME NEW m \in Names \ {n},
             Create(m) \/ Delete(m) \/ RemoveFinalizer(m) \/ Reconcile(m)
      PROVE  UNCHANGED Lifecycle(n)!life
  BY <1>0, <1>6, OwnWrites, LifecycleStutter
<1> QED
  BY <1>1, <1>2, <1>3, <1>4, <1>5, <1>6, StatusWriters

\* Each status takes the steps of the lifecycle, whatever other upgrades do,
\* and whichever Jobs are created late or left over.
THEOREM EachRefines == Spec => EachKeepsLifecycle
<1>1. Inv /\ [Next]_vars => [\A n \in Names : [Lifecycle(n)!Next]_(Lifecycle(n)!life)]_vars
  BY StepLife
<1> QED
  BY <1>1, LifecycleInit, SpecInv, PTL DEF Spec, EachKeepsLifecycle

=============================================================================
