----------------------- MODULE LiqoUpgradeHistory_proofs -----------------------
(***************************************************************************)
(* What must have happened for a phase, a Job or a backup of the first     *)
(* resource to exist (History), what is over for good once a Job of it has *)
(* ended (JobsFinal), and the safety properties that follow from them.     *)
(***************************************************************************)
EXTENDS LiqoUpgradeHistory_order

----------------------------------------------------------------------------
(***************************************************************************)
(* The first resource of the name.                                         *)
(***************************************************************************)

\* A step within the first resource, or before it.
FirstStep ==
  /\ Inv /\ InOrder /\ FirstIncarnation /\ StagesEarned
  /\ Inv' /\ InOrder' /\ [Next]_vars
  /\ Moves /\ ClusterMove
  /\ cr'.uid = cr.uid

LEMMA StagesBeforeValues ==
  /\ StagesBefore("FreezingOperations") = {}
  /\ StagesBefore("UpgradingCRDs") = {"FreezingOperations"}
  /\ StagesBefore("UpgradingControllerManager") = {"FreezingOperations", "UpgradingCRDs"}
  /\ StagesBefore("UpgradingNetworkFabric") = Stages \ {"UpgradingNetworkFabric"}
  /\ StagesBefore("Verifying") = Stages
  /\ StagesBefore("Completed") = Stages
  BY RankValues DEF StagesBefore, Stages

\* A copy that exists is of the one resource there has been.
LEMMA FirstCopy ==
  ASSUME Inv, InOrder, FirstIncarnation, NEW u \in Copies, u.exists
  PROVE  u.uid = cr.uid /\ cr.uid = 1 /\ Becomes(u, cr)
  <1>1. u \in Upgrades /\ cr \in Upgrades
    BY CopiesType DEF Inv, TypeOK
  <1>2. u.uid # 0
    BY DEF InOrder, CopiesInOrder, WellFormed
  <1>3. NotAfter(u, cr)
    BY CopiesNotAfter
  <1>4. u.uid = cr.uid /\ cr.uid = 1 /\ u.rv <= cr.rv
    BY <1>1, <1>2, <1>3 DEF NotAfter, FirstIncarnation, Upgrades
  <1> QED BY <1>4, CopiesInHand DEF InOrder, CopiesInOrder

LEMMA FirstGrows ==
  ASSUME FirstStep
  PROVE  FirstIncarnation' /\ succeeded \subseteq succeeded' /\ ~CreatedMove
  <1>1. ~CreatedMove
    <2>1. cr.uid \in Nat
      BY DEF FirstStep, Inv, TypeOK, Upgrades
    <2> QED BY <2>1 DEF FirstStep, CreatedMove
  <1>2. succeeded \subseteq succeeded'
    BY <1>1 DEF FirstStep, ClusterMove, SucceededMove
  <1> QED BY <1>1, <1>2 DEF FirstStep, FirstIncarnation

\* What a start function may begin was earned.
LEMMA MayStartEarned ==
  ASSUME FirstStep, NEW u \in {Loaded, worker.upgrade}, NEW p \in Stages, MayStart(u, p)
  PROVE  Earned(p)
  <1>1. CASE worker.pc = "start" /\ worker.phase = p
    BY <1>1 DEF FirstStep, StagesEarned, Changing
  <1>2. CASE p = "UpgradingCRDs" /\ jobCache["FreezingOperations"].state = "succeeded"
    <2>1. "FreezingOperations" \in succeeded
      BY <1>2 DEF FirstStep, StagesEarned, JobsEarned, JobPhases, Stages
    <2> QED BY <1>2, <2>1, StagesBeforeValues DEF Earned
  <1>3. p # "RollingBack"
    BY DEF Stages
  <1> QED BY <1>1, <1>2, <1>3 DEF MayStart

LEMMA JobsEarnedNext ==
  ASSUME FirstStep
  PROVE  /\ JobsEarned(jobs)' /\ JobsEarned(jobCache)'
         /\ \A p \in JobPhases : jobs'[p].state # "absent" => jobs'[p].owner = cr'.uid
  <1>1. succeeded \subseteq succeeded' /\ cr'.uid = cr.uid
    BY FirstGrows DEF FirstStep
  <1>2. JobsEarned(jobs) /\ JobsEarned(jobCache)
    BY DEF FirstStep, StagesEarned
  <1>3. NoJob.state = "absent"
    BY DEF NoJob
  <1>4. ASSUME NEW p \in JobPhases
        PROVE  /\ jobs'[p].state = "succeeded" => p \in succeeded'
               /\ p \in Stages /\ jobs'[p].state # "absent" =>
                    StagesBefore(p) \subseteq succeeded'
               /\ jobs'[p].state # "absent" => jobs'[p].owner = cr'.uid
    <2>1. /\ jobs[p].state = "succeeded" => p \in succeeded
          /\ p \in Stages /\ jobs[p].state # "absent" => StagesBefore(p) \subseteq succeeded
          /\ jobs[p].state # "absent" => jobs[p].owner = cr.uid
      BY <1>2 DEF JobsEarned, Earned, FirstStep, StagesEarned
    <2>2. CASE jobs'[p] = jobs[p] \/ jobs'[p] = NoJob
      BY <1>1, <1>3, <2>1, <2>2
    <2>3. CASE Begins(p)
      <3>1. PICK u \in {Loaded, worker.upgrade} :
              Active(u) /\ MayStart(u, p) /\ jobs'[p].owner = u.uid
        BY <2>3 DEF Begins
      <3>2. u.uid = cr.uid
        BY <3>1, FirstCopy, CopiesInHand DEF FirstStep, Active, Live
      <3>3. p \in Stages => Earned(p)
        BY <3>1, MayStartEarned
      <3> QED BY <1>1, <2>3, <3>1, <3>2, <3>3 DEF Begins, Earned
    <2>4. CASE Ends(p)
      <3>1. jobs[p].state # "absent" /\ jobs'[p].owner = jobs[p].owner
        BY <2>4 DEF Ends, FirstStep, Inv, TypeOK, Jobs
      <3>2. jobs'[p].state = "succeeded" => p \in succeeded'
        BY <2>1, <2>4, <3>1 DEF Ends
      <3> QED BY <1>1, <2>1, <3>1, <3>2
    <2> QED BY <2>2, <2>3, <2>4 DEF FirstStep, Moves, JobMove, Goes
  <1>5. CASE jobCache' = jobCache
    <2>1. JobsEarned(jobCache)'
      BY <1>1, <1>2, <1>5 DEF JobsEarned, Earned, StagesBefore
    <2> QED BY <1>4, <2>1 DEF JobsEarned, Earned, StagesBefore
  <1>6. CASE jobCache' = jobs /\ jobs' = jobs
    <2>1. JobsEarned(jobs)'
      BY <1>4 DEF JobsEarned, Earned, StagesBefore
    <2> QED BY <1>4, <1>6, <2>1 DEF JobsEarned, Earned
  <1> QED BY <1>5, <1>6 DEF FirstStep, ClusterMove, CachesMove

\* What a write of the status may say of the stages.
LEMMA StatusEarned ==
  ASSUME FirstStep, ChangedMove
  PROVE  /\ cr'.status.phase \in Changing \cup {"Completed"} => Earned(cr'.status.phase)
         /\ cr'.status.lastSuccessfulPhase \in Stages =>
              cr'.status.lastSuccessfulPhase \in succeeded
  <1> DEFINE s == cr.status
  <1> DEFINE t == cr'.status
  <1>1. CopyEarned(cr)
    BY CopiesInHand DEF FirstStep, StagesEarned
  <1>2. CASE t = s
    BY <1>1, <1>2 DEF CopyEarned
  <1>3. CASE ValidatingMove(s, t)
    BY <1>1, <1>3 DEF CopyEarned, ValidatingMove, Changing, Stages
  <1>4. CASE SavingMove(s, t)
    <2>1. s.phase \in succeeded
      BY <1>4 DEF SavingMove, FirstStep, StagesEarned, JobsEarned, JobPhases
    <2> QED BY <1>1, <1>4, <2>1 DEF CopyEarned, SavingMove
  <1>5. CASE EnteringMove(s, t)
    <2>1. t.phase \in Changing => Earned(t.phase)
      BY <1>5 DEF EnteringMove, FirstStep, StagesEarned
    <2>2. t.phase # "Completed"
      BY <1>5 DEF EnteringMove, MayEnter
    <2> QED BY <1>1, <1>5, <2>1, <2>2 DEF CopyEarned, EnteringMove, Keeps
  <1>6. CASE CompletingMove(s, t)
    <2>1. Earned("Verifying")
      BY <1>1, <1>6 DEF CopyEarned, CompletingMove, Changing
    <2>2. Earned("Completed")
      BY <2>1, StagesBeforeValues DEF Earned
    <2> QED BY <1>1, <1>6, <2>2 DEF CopyEarned, CompletingMove, Keeps, Changing, Stages
  <1>7. CASE FailingMove(s, t)
    BY <1>1, <1>7 DEF CopyEarned, FailingMove, Changing, Stages
  <1> QED BY <1>2, <1>3, <1>4, <1>5, <1>6, <1>7 DEF ChangedMove, StatusMove

LEMMA InitialEarned ==
  /\ InitialStatus.phase \notin Changing \cup {"Completed", "Verifying"}
  /\ InitialStatus.phase \notin Stages
  /\ InitialStatus.lastSuccessfulPhase \notin Stages
  /\ InitialStatus.rolledBack = FALSE
  /\ InitialStatus.backupReady = FALSE
  /\ Early(InitialStatus.phase)
  /\ InitialStatus.previousVersion = NoVersion
  BY DEF InitialStatus, Changing, Stages, Early

LEMMA CopyEarnedNext ==
  ASSUME FirstStep, NEW u \in Copies'
  PROVE  CopyEarned(u)'
  <1> DEFINE Good(x) == /\ x.status.phase \in Changing \cup {"Completed"} =>
                             StagesBefore(x.status.phase) \subseteq succeeded'
                        /\ x.status.lastSuccessfulPhase \in Stages =>
                             x.status.lastSuccessfulPhase \in succeeded'
  <1>1. succeeded \subseteq succeeded'
    BY FirstGrows
  <1>2. PICK x \in Copies \cup {cr'} : SameVersion(u, x)
    BY CopiesStep DEF FirstStep, Inv
  <1>3. ASSUME NEW v \in Copies PROVE Good(v)
    BY <1>1 DEF FirstStep, StagesEarned, CopyEarned, Earned
  <1>4. Good(cr')
    <2>1. CASE cr' = cr
      BY <1>3, <2>1, CopiesInHand
    <2>2. CASE RemovedMove
      BY <2>2, InitialEarned DEF RemovedMove
    <2>3. CASE ChangedMove
      BY <1>1, <2>3, StatusEarned DEF Earned
    <2> QED BY <2>1, <2>2, <2>3, FirstGrows DEF FirstStep, Moves, ServerMove
  <1>5. Good(u)
    BY <1>2, <1>3, <1>4 DEF SameVersion
  <1> QED BY <1>5 DEF CopyEarned, Earned, StagesBefore

\* A stage that is saved has succeeded, so no copy is still in it, or beyond
\* it without having been told.
LEMMA LastKeptNext ==
  ASSUME FirstStep, NEW u \in Copies'
  PROVE  LastKept(u)'
  <1> SUFFICES ASSUME u.exists, cr'.exists,
                      u.status.phase \in (Stages \ succeeded') \cup {"Verifying"}
               PROVE  u.status.lastSuccessfulPhase = cr'.status.lastSuccessfulPhase
    BY DEF LastKept
  <1>1. PICK x \in Copies \cup {cr'} : SameVersion(u, x)
    BY CopiesStep DEF FirstStep, Inv
  <1>2. /\ x.exists
        /\ x.status.phase \in (Stages \ succeeded) \cup {"Verifying"}
        /\ x.status.lastSuccessfulPhase = u.status.lastSuccessfulPhase
    BY <1>1, FirstGrows DEF SameVersion
  <1>3. CASE x = cr'
    BY <1>2, <1>3
  <1>4. CASE x \in Copies /\ cr.exists
              /\ cr'.status.lastSuccessfulPhase = cr.status.lastSuccessfulPhase
    BY <1>2, <1>4 DEF FirstStep, StagesEarned, LastKept
  <1>5. CASE x \in Copies /\ cr.exists /\ SavingMove(cr.status, cr'.status)
    <2>1. Becomes(x, cr)
      BY <1>2, <1>5, FirstCopy DEF FirstStep
    <2>2. Rank(x.status.phase) <= Rank(cr.status.phase)
      BY <1>5, <2>1 DEF Becomes
    <2>3. cr.status.phase \in Stages /\ cr.status.phase \in succeeded
      BY <1>5 DEF SavingMove, FirstStep, StagesEarned, JobsEarned, JobPhases
    <2>4. Earned(cr.status.phase)
      BY <2>3, CopiesInHand DEF FirstStep, StagesEarned, CopyEarned, Changing
    <2>5. x.status.phase # "Verifying"
      BY <2>2, <2>3, RankValues DEF Stages
    <2>6. x.status.phase \in Stages \ succeeded
      BY <1>2, <2>5
    <2>7. x.status.phase # cr.status.phase
      BY <2>3, <2>6
    <2>8. Rank(x.status.phase) # Rank(cr.status.phase)
      BY <2>3, <2>6, <2>7, RankValues DEF Stages
    <2>9. Rank(x.status.phase) < Rank(cr.status.phase)
      BY <2>2, <2>8, RankType
    <2> QED BY <2>4, <2>6, <2>9 DEF Earned, StagesBefore
  <1>6. CASE x \in Copies /\ ChangedMove
    BY <1>4, <1>5, <1>6
    DEF ChangedMove, StatusMove, ValidatingMove, EnteringMove, CompletingMove, FailingMove,
        Keeps
  <1>7. CASE x \in Copies /\ cr' = cr
    BY <1>4, <1>7
  <1> QED BY <1>3, <1>6, <1>7, FirstGrows DEF FirstStep, Moves, ServerMove, RemovedMove

\* The next stage is started or entered when the one before has succeeded.
LEMMA WorkerEarnedNext ==
  ASSUME FirstStep, worker'.pc \in {"start", "enter"}, worker'.phase \in Changing
  PROVE  Earned(worker.phase)'
  <1>1. succeeded \subseteq succeeded'
    BY FirstGrows
  <1>2. SUFFICES StagesBefore(worker'.phase) \subseteq succeeded
    BY <1>1 DEF Earned, StagesBefore
  <1>3. CASE worker' = worker
    BY <1>3 DEF FirstStep, StagesEarned, Earned
  <1>4. CASE EnterMove
    <2>1. PICK u \in {Loaded, worker.upgrade} : MayStart(u, worker'.phase)
      BY <1>4 DEF EnterMove
    <2>2. CASE worker'.phase \in Stages
      BY <2>1, <2>2, MayStartEarned DEF Earned
    <2>3. worker'.phase # "Verifying"
      BY <2>1 DEF MayStart, Stages
    <2> QED BY <2>2, <2>3 DEF Changing
  <1>5. CASE SavedMove /\ SavingMove(cr.status, cr'.status)
             /\ MayEnter(cr'.status, worker'.phase)
    <2>1. cr.status.phase \in Stages /\ cr.status.phase \in succeeded
          /\ cr'.status.phase = cr.status.phase
      BY <1>5 DEF SavingMove, FirstStep, StagesEarned, JobsEarned, JobPhases
    <2>2. Earned(cr.status.phase)
      BY <2>1, CopiesInHand DEF FirstStep, StagesEarned, CopyEarned, Changing
    <2> QED BY <1>5, <2>1, <2>2, StagesBeforeValues DEF MayEnter, Earned, Changing, Stages
  <1>6. CASE worker'.phase = "FreezingOperations"
    BY <1>6, StagesBeforeValues
  <1>7. Idle.pc = "idle"
    BY DEF Idle
  <1> QED BY <1>3, <1>4, <1>5, <1>6, <1>7
          DEF FirstStep, Moves, WorkerMove, FailMove, BackedUpMove, SavedMove, FinalizeMove

\* The first Job is begun for a copy that has the finalizer.
LEMMA FirstBegin ==
  ASSUME FirstStep, NothingBegun, ~NothingBegun'
  PROVE  \E u \in {Loaded, worker.upgrade} : Active(u)
  <1>1. \A p \in JobPhases : jobs[p].state = "absent" /\ jobCache[p].state = "absent"
    BY DEF NothingBegun
  <1>2. succeeded' = {}
    BY <1>1, FirstGrows DEF FirstStep, ClusterMove, SucceededMove, NothingBegun
  <1>3. \A p \in JobPhases : jobCache'[p].state = "absent"
    BY <1>1 DEF FirstStep, ClusterMove, CachesMove
  <1>4. PICK p \in JobPhases : jobs'[p].state # "absent"
    BY <1>2, <1>3 DEF NothingBegun
  <1>5. Begins(p)
    <2>1. JobMove(p) /\ jobs[p].state = "absent"
      BY <1>1 DEF FirstStep, Moves
    <2>2. NoJob.state = "absent"
      BY DEF NoJob
    <2> QED BY <1>4, <2>1, <2>2 DEF JobMove, Ends, Goes
  <1> QED BY <1>5 DEF Begins

LEMMA CachedUid ==
  ASSUME Inv
  PROVE  cached.uid <= cr.uid /\ cached.uid \in Nat /\ cr.uid \in Nat
  <1>1. cached.uid \in Nat /\ cr.uid \in Nat
    BY DEF Inv, TypeOK, Upgrades
  <1> QED BY <1>1, CopiesNotAfter, CopiesInHand DEF NotAfter

LEMMA BegunNext ==
  ASSUME FirstStep
  PROVE  /\ cr'.uid = 0 \/ (cr'.exists /\ ~cr'.finalizer) => NothingBegun'
         /\ ~NothingBegun' => cached'.uid = cr'.uid
  <1>1. ASSUME cr'.uid = 0 \/ (cr'.exists /\ ~cr'.finalizer), ~NothingBegun'
        PROVE  FALSE
    <2>1. cr.uid = 0 \/ (cr.exists /\ ~cr.finalizer)
      BY <1>1, FirstGrows DEF FirstStep, Moves, ServerMove, RemovedMove, ChangedMove
    <2>2. NothingBegun
      BY <2>1 DEF FirstStep, StagesEarned
    <2>3. PICK u \in {Loaded, worker.upgrade} : Active(u)
      BY <1>1, <2>2, FirstBegin
    <2>4. cr.uid = 1 /\ Becomes(u, cr)
      BY <2>3, FirstCopy, CopiesInHand DEF FirstStep, Active, Live
    <2> QED BY <2>1, <2>3, <2>4 DEF Becomes, Active
  <1>2. ASSUME ~NothingBegun' PROVE cached'.uid = cr'.uid
    <2>1. cached.uid \in Nat /\ cached'.uid \in Nat /\ cr.uid \in Nat
          /\ cached.uid <= cr.uid /\ cached'.uid <= cr'.uid /\ cr'.uid = cr.uid
      <3>1. cached.uid \in Nat /\ cr.uid \in Nat /\ cached.uid <= cr.uid
        BY CachedUid DEF FirstStep
      <3>2. cached'.uid \in Nat /\ cr'.uid \in Nat
        BY DEF FirstStep, Inv, TypeOK, Upgrades
      <3>3. cached'.uid < cr'.uid \/ cached'.uid = cr'.uid
        BY DEF FirstStep, Inv, Coherent, CopiesCoherent, Agrees
      <3> QED BY <3>1, <3>2, <3>3 DEF FirstStep
    <2>2. cached.uid <= cached'.uid
      BY <2>1, InformerForward DEF FirstStep, NotAfter
    <2>3. CASE ~NothingBegun
      BY <2>1, <2>2, <2>3 DEF FirstStep, StagesEarned
    <2>4. CASE NothingBegun
      <3>1. PICK u \in {Loaded, worker.upgrade} : Active(u)
        BY <1>2, <2>4, FirstBegin
      <3>2. u.uid = cr.uid
        BY <3>1, FirstCopy, CopiesInHand DEF FirstStep, Active, Live
      <3>3. u.uid <= cached.uid
        BY <2>1 DEF FirstStep, InOrder, WorkerInOrder, Loaded
      <3> QED BY <2>1, <2>2, <3>2, <3>3
    <2> QED BY <2>3, <2>4
  <1> QED BY <1>1, <1>2

LEMMA StagesEarnedNext ==
  ASSUME FirstStep
  PROVE  StagesEarned'
  BY JobsEarnedNext, CopyEarnedNext, LastKeptNext, WorkerEarnedNext, BegunNext
  DEF StagesEarned

LEMMA VersionsEarnedNext ==
  ASSUME FirstStep, VersionsEarned
  PROVE  VersionsEarned'
  <1>1. cr'.status.previousVersion \in {NoVersion, VPrefixed[InstalledTag]}
    <2> DEFINE s == cr.status
    <2> DEFINE t == cr'.status
    <2>1. s.previousVersion \in {NoVersion, VPrefixed[InstalledTag]}
      BY DEF VersionsEarned
    <2>2. CASE RemovedMove
      BY <2>2, InitialEarned DEF RemovedMove
    <2>3. CASE ChangedMove /\ ValidatingMove(s, t)
      BY <2>1, <2>3 DEF ChangedMove, ValidatingMove, VersionsEarned
    <2>4. CASE t.previousVersion = s.previousVersion
      BY <2>1, <2>4
    <2>5. CASE ChangedMove
      BY <2>3, <2>4, <2>5
      DEF ChangedMove, StatusMove, SavingMove, EnteringMove, CompletingMove, FailingMove,
          Keeps
    <2> QED BY <2>2, <2>4, <2>5, FirstGrows DEF FirstStep, Moves, ServerMove
  <1>2. ASSUME cr'.uid = 0 \/ (cr'.exists /\ Early(cr'.status.phase))
        PROVE  /\ deployed' = InstalledTag
               /\ deployedCache' = InstalledTag
               /\ worker'.pc = "backedUp" => worker'.version = VPrefixed[InstalledTag]
    <2>1. cr.uid = 0 \/ (cr.exists /\ Early(cr.status.phase))
      <3>1. CASE cr' = cr
        BY <1>2, <3>1
      <3>2. CASE RemovedMove
        BY <1>2, <3>2 DEF RemovedMove
      <3>3. CASE ChangedMove /\ cr'.exists /\ Early(cr'.status.phase)
        <4>1. Rank(cr.status.phase) <= Rank(cr'.status.phase)
          BY <3>3, ServerAdvances DEF FirstStep
        <4>2. cr.status.phase \in Phases /\ cr'.status.phase \in Phases
          BY DEF FirstStep, Inv, TypeOK, Upgrades, Statuses
        <4>3. Early(cr.status.phase)
          BY <3>3, <4>1, <4>2, RankType, RankEarly
        <4> QED BY <3>3, <4>3 DEF ChangedMove
      <3> QED BY <1>2, <3>1, <3>2, <3>3, FirstGrows
              DEF FirstStep, Moves, ServerMove, ChangedMove
    <2>2. /\ deployed = InstalledTag
          /\ deployedCache = InstalledTag
          /\ worker.pc = "backedUp" => worker.version = VPrefixed[InstalledTag]
      BY <2>1 DEF VersionsEarned
    <2>3. \A p \in JobPhases : SetsImage(p) => jobs[p].state # "running"
      <3> SUFFICES ASSUME NEW p \in JobPhases, SetsImage(p), jobs[p].state = "running"
                   PROVE  FALSE
        OBVIOUS
      <3>1. ~NothingBegun /\ jobs[p].owner = cr.uid
        BY DEF NothingBegun, FirstStep, StagesEarned
      <3>2. cr.exists /\ Early(cr.status.phase)
        BY <2>1, <3>1 DEF FirstStep, StagesEarned
      <3> QED BY <3>1, <3>2 DEF FirstStep, InOrder, ImageJobsInOrder, OwnerAlive
    <2>4. deployed' = deployed
      BY <2>3 DEF FirstStep, ClusterMove, DeployedMove
    <2>5. deployedCache' = InstalledTag
      BY <2>2 DEF FirstStep, ClusterMove, CachesMove
    <2>6. ASSUME worker'.pc = "backedUp" PROVE worker'.version = VPrefixed[InstalledTag]
      <3>1. WorkerMove /\ Idle.pc = "idle"
        BY DEF FirstStep, Moves, Idle
      <3>2. worker' = worker \/ BackedUpMove
        BY <2>6, <3>1 DEF WorkerMove, FailMove, EnterMove, SavedMove, FinalizeMove
      <3> QED BY <2>2, <2>6, <3>2 DEF BackedUpMove, detectDeployedVersion
    <2> QED BY <2>2, <2>4, <2>5, <2>6
  <1> QED BY <1>1, <1>2 DEF VersionsEarned

LEMMA BackupEarnedNext ==
  ASSUME FirstStep, BackupEarned
  PROVE  BackupEarned'
  <1>1. cr'.uid = cr.uid
    BY DEF FirstStep
  <1>2. backup'.exists => backup'.owner = cr'.uid /\ cr'.uid # 0
    <2>1. CASE backup' = backup
      BY <1>1, <2>1 DEF BackupEarned
    <2>2. CASE backup' = [exists |-> TRUE, owner |-> Loaded.uid] /\ Active(Loaded)
      <3>1. Loaded.uid = cr.uid /\ cr.uid = 1
        BY <2>2, FirstCopy, CopiesInHand DEF FirstStep, Active, Live
      <3> QED BY <1>1, <2>2, <3>1
    <2>3. CASE backup' = [exists |-> FALSE, owner |-> 0]
      BY <2>3
    <2> QED BY <2>1, <2>2, <2>3 DEF FirstStep, Moves, BackupMove
  <1>3. cr.exists /\ backup.exists => backup'.exists
    BY DEF BackupEarned, FirstStep, Moves, BackupMove, OwnerAlive
  <1>4. ASSUME NEW u \in Copies', cr'.exists, u.exists, u.status.backupReady
        PROVE  backup'.exists
    <2>1. PICK x \in Copies \cup {cr'} :
            /\ SameVersion(u, x)
            /\ u.status.backupReady => x.status.backupReady \/ backup'.exists
      BY CopiesStep DEF FirstStep, Inv
    <2>2. cr.exists
      BY <1>4, FirstGrows DEF FirstStep, Moves, ServerMove, RemovedMove, ChangedMove
    <2>3. CASE x.status.backupReady /\ x \in Copies
      BY <1>3, <1>4, <2>1, <2>2, <2>3 DEF SameVersion, BackupEarned
    <2>4. CASE x.status.backupReady /\ x = cr' /\ ChangedMove
      BY <1>3, <2>2, <2>4 DEF ChangedMove, ReadyFromCopy, BackupEarned
    <2>5. CASE x = cr' /\ RemovedMove
      BY <1>4, <2>5 DEF RemovedMove
    <2> QED BY <1>4, <2>1, <2>3, <2>4, <2>5, FirstGrows, CopiesInHand
            DEF FirstStep, Moves, ServerMove
  <1> QED BY <1>2, <1>4 DEF BackupEarned

\* The creation of the first resource.
LEMMA FirstCreation ==
  ASSUME Inv, InOrder, FirstIncarnation, StagesEarned, VersionsEarned, BackupEarned,
         Moves, CreatedMove, Stores, UNCHANGED <<caches, jobs, backup, deployed>>,
         cr.uid = 0
  PROVE  StagesEarned' /\ VersionsEarned' /\ BackupEarned'
  <1>1. /\ NothingBegun /\ succeeded = {} /\ succeeded' = {}
        /\ jobs' = jobs /\ jobCache' = jobCache /\ worker' = worker
        /\ backup' = backup /\ deployed' = deployed /\ deployedCache' = deployedCache
    BY DEF StagesEarned, NothingBegun, CreatedMove, caches
  <1>2. NothingBegun' /\ JobsEarned(jobs)' /\ JobsEarned(jobCache)'
    BY <1>1 DEF NothingBegun, JobsEarned
  <1>3. \A u \in Copies : ~u.exists
    BY FirstCopy
  <1>4. ASSUME NEW u \in Copies'
        PROVE  /\ CopyEarned(u)' /\ LastKept(u)'
               /\ u.exists /\ u.status.backupReady => backup'.exists
    <2>1. PICK x \in Copies \cup {cr'} :
            /\ SameVersion(u, x)
            /\ u.status.backupReady => x.status.backupReady \/ backup'.exists
      BY CopiesStep DEF Inv
    <2>2. CASE x = cr'
      <3>1. CopyEarned(u)'
        BY <2>1, <2>2, InitialEarned DEF CreatedMove, SameVersion, CopyEarned
      <3> QED BY <2>1, <2>2, <3>1, InitialEarned DEF CreatedMove, SameVersion, LastKept
    <2>3. CASE x \in Copies
      <3>1. ~u.exists
        BY <1>3, <2>1, <2>3 DEF SameVersion
      <3>2. CopyEarned(u)'
        BY <1>1, <2>1, <2>3 DEF StagesEarned, CopyEarned, SameVersion, Earned, StagesBefore
      <3> QED BY <3>1, <3>2 DEF LastKept
    <2> QED BY <2>1, <2>2, <2>3
  <1>5. worker'.pc \in {"start", "enter"} /\ worker'.phase \in Changing =>
          Earned(worker.phase)'
    BY <1>1 DEF StagesEarned, Earned, StagesBefore
  <1>6. StagesEarned'
    BY <1>1, <1>2, <1>4, <1>5 DEF StagesEarned, NothingBegun
  <1>7. VersionsEarned'
    BY <1>1, InitialEarned DEF VersionsEarned, CreatedMove
  <1>8. BackupEarned'
    BY <1>1, <1>4 DEF BackupEarned
  <1> QED BY <1>6, <1>7, <1>8

LEMMA NextHistory ==
  ASSUME Inv, InOrder, History, [Next]_vars
  PROVE  History'
  <1> SUFFICES ASSUME FirstIncarnation'
               PROVE  StagesEarned' /\ VersionsEarned' /\ BackupEarned'
    BY DEF History
  <1>1. Inv' /\ InOrder' /\ Moves /\ ClusterMove
    BY NextInv, NextInOrder, StepMoves
  <1>2. /\ cr.uid \in Nat /\ cr'.uid \in Nat
        /\ cr'.uid = cr.uid
             \/ /\ CreatedMove /\ Stores /\ cr'.uid = cr.uid + 1
                /\ UNCHANGED <<caches, jobs, backup, deployed>>
    BY <1>1
    DEF Inv, TypeOK, Upgrades, Moves, ServerMove, CreatedMove, RemovedMove, ChangedMove
  <1>3. FirstIncarnation /\ (cr'.uid # cr.uid => cr.uid = 0)
    BY <1>2 DEF FirstIncarnation
  <1>4. StagesEarned /\ VersionsEarned /\ BackupEarned
    BY <1>3 DEF History
  <1>5. CASE cr'.uid = cr.uid
    <2>1. FirstStep
      BY <1>1, <1>3, <1>4, <1>5 DEF FirstStep
    <2> QED BY <1>4, <2>1, StagesEarnedNext, VersionsEarnedNext, BackupEarnedNext
  <1>6. CASE cr'.uid # cr.uid
    BY <1>1, <1>2, <1>3, <1>4, <1>6, FirstCreation
  <1> QED BY <1>5, <1>6

LEMMA InitHistory == Init => History
  <1> SUFFICES ASSUME Init PROVE StagesEarned /\ VersionsEarned /\ BackupEarned
    BY DEF History
  <1> DEFINE gone == Gone(0, 0)
  <1>1. /\ cr = gone /\ cached = gone /\ worker = Idle /\ Idle.upgrade = gone
        /\ Idle.pc = "idle" /\ watch = <<>>
    BY DEF Init, Idle
  <1>2. gone.uid = 0 /\ gone.exists = FALSE /\ gone.status = InitialStatus
    BY DEF Gone
  <1> HIDE DEF gone
  <1>3. Copies = {gone}
    BY <1>1 DEF Copies
  <1>4. \A p \in JobPhases : jobs[p].state = "absent" /\ jobCache[p].state = "absent"
    BY DEF Init, NoJob
  <1>5. NothingBegun
    BY <1>4 DEF NothingBegun, Init
  <1>6. StagesEarned
    BY <1>1, <1>2, <1>3, <1>4, <1>5, InitialEarned
    DEF StagesEarned, JobsEarned, CopyEarned, LastKept
  <1>7. VersionsEarned
    BY <1>1, <1>2, InitialEarned DEF VersionsEarned, Init
  <1>8. BackupEarned
    BY <1>2, <1>3 DEF BackupEarned, Init
  <1> QED BY <1>6, <1>7, <1>8

LEMMA SpecHistory == Spec => [](Inv /\ InOrder /\ History)
  <1>1. Init => Inv /\ InOrder /\ History
    BY InitInv, InitInOrder, InitHistory
  <1>2. Inv /\ InOrder /\ History /\ [Next]_vars => (Inv /\ InOrder /\ History)'
    BY NextInv, NextInOrder, NextHistory
  <1> QED BY <1>1, <1>2, PTL DEF Spec

----------------------------------------------------------------------------
(***************************************************************************)
(* What follows from History.                                              *)
(***************************************************************************)

\* For the first resource: what every copy, Job and the backup show of it did
\* happen, and of its deployed version nothing has changed before the freeze.
THEOREM HistoryIsKept == Spec => []History
  BY SpecHistory, PTL

\* However late a monitor reads the phase and the Jobs, and wherever the
\* process dies between creating a Job and entering its phase, a stage's Job
\* exists only after the Jobs of all stages before it have succeeded.
THEOREM StagesRunInOrder == Spec => []StagesInOrder
  <1>1. History => StagesInOrder
    BY DEF History, StagesEarned, JobsEarned, Earned, StagesInOrder, JobPhases
  <1> QED BY <1>1, SpecHistory, PTL

\* An upgrade becomes Completed only when all four stages' Jobs succeeded.
THEOREM CompletedRanAllStages == Spec => []CompletedMeansAllStagesRan
  <1>1. History => CompletedMeansAllStagesRan
    BY CopiesInHand, StagesBeforeValues
    DEF History, StagesEarned, CopyEarned, Earned, CompletedMeansAllStagesRan
  <1> QED BY <1>1, SpecHistory, PTL

\* What the rollback script is told as the last successful phase is a stage,
\* of every resource of the name, and one that did succeed, of the first.
THEOREM LastSuccessfulPhaseSucceeded == Spec => []LastSuccessfulPhaseIsHonest
  <1>1. InOrder /\ History => LastSuccessfulPhaseIsHonest
    <2> SUFFICES ASSUME InOrder, History, cr.status.lastSuccessfulPhase # ""
                 PROVE  /\ cr.status.lastSuccessfulPhase \in Stages
                        /\ FirstIncarnation => cr.status.lastSuccessfulPhase \in succeeded
      BY Zenon DEF LastSuccessfulPhaseIsHonest
    <2>1. cr.status.lastSuccessfulPhase \in Saved
      BY CopiesInHand DEF InOrder, CopiesInOrder, WellFormed
    <2>2. cr.status.lastSuccessfulPhase \in Stages
      BY <2>1, Zenon DEF Saved
    <2>3. FirstIncarnation => CopyEarned(cr)
      BY CopiesInHand DEF History, StagesEarned
    <2>4. FirstIncarnation => cr.status.lastSuccessfulPhase \in succeeded
      BY <2>2, <2>3, Zenon DEF CopyEarned
    <2> QED BY <2>2, <2>4
  <1> QED BY <1>1, SpecHistory, PTL

\* The version that a rollback restores is the one found before the first
\* stage, however late a validation is repeated from a stale copy.
THEOREM PreviousVersionWasInstalled == Spec => []PreviousVersionIsInstalled
  <1>1. History => PreviousVersionIsInstalled
    BY DEF History, VersionsEarned, PreviousVersionIsInstalled
  <1> QED BY <1>1, SpecHistory, PTL

\* From the freeze on the resource has its backup, which its scripts read.
THEOREM BackupIsThere == Spec => []StagesHaveBackup
  <1>1. InOrder /\ History => StagesHaveBackup
    BY CopiesInHand
    DEF InOrder, CopiesInOrder, WellFormed, History, BackupEarned, StagesHaveBackup,
        Changing
  <1> QED BY <1>1, SpecHistory, PTL

----------------------------------------------------------------------------
(***************************************************************************)
(* What is over stays over.                                                *)
(***************************************************************************)

\* A step of the first resource after the first Job of it was created.
FinalStep ==
  FirstStep /\ Finality /\ ~NothingBegun /\ "expiry" \notin FaultKinds

LEMMA BegunFacts ==
  ASSUME FirstStep, ~NothingBegun
  PROVE  /\ cached.uid = cr.uid /\ (cr.exists => cr.finalizer)
         /\ cr'.exists => cr.exists /\ Rank(cr.status.phase) <= Rank(cr'.status.phase)
  <1>1. cr'.exists => cr.exists
    BY FirstGrows DEF FirstStep, Moves, ServerMove, RemovedMove, ChangedMove
  <1> QED BY <1>1, ServerAdvances DEF FirstStep, StagesEarned

LEMMA RankInjective ==
  ASSUME NEW p \in Stages, NEW q \in Stages, p # q
  PROVE  p \in StagesBefore(q) \/ q \in StagesBefore(p)
  BY RankValues DEF Stages, StagesBefore

\* A copy that is active after a step was active before, and moves forward.
LEMMA NoMoreNext ==
  ASSUME FirstStep, ~NothingBegun, NEW p \in Stages, NoMore(p)
  PROVE  NoMore(p)'
  <1> SUFFICES ASSUME NEW u \in Copies', Active(u)
               PROVE  Rank(u.status.phase) >= Rank(p)
    BY DEF NoMore
  <1>1. PICK x \in Copies \cup {cr'} : SameVersion(u, x)
    BY CopiesStep DEF FirstStep, Inv
  <1>2. Active(x) /\ x.status.phase = u.status.phase
    BY <1>1, SameVersionFacts DEF SameVersion
  <1>3. CASE x \in Copies
    BY <1>2, <1>3 DEF NoMore
  <1>4. CASE x = cr' /\ ChangedMove
    <2>1. Active(cr)
      BY <1>2, <1>4, BegunFacts DEF ChangedMove, Active, Live
    <2>2. Rank(cr.status.phase) >= Rank(p)
      BY <2>1, CopiesInHand DEF NoMore
    <2>3. Rank(cr.status.phase) <= Rank(cr'.status.phase)
      BY <1>4, BegunFacts DEF ChangedMove
    <2> QED BY <1>2, <1>4, <2>2, <2>3, RankType
  <1>5. ~(x = cr' /\ RemovedMove)
    BY <1>2 DEF RemovedMove, Active, Live
  <1> QED BY <1>3, <1>4, <1>5, FirstGrows, CopiesInHand DEF FirstStep, Moves, ServerMove

\* A start function begins a stage from an earlier phase.
LEMMA StartsBefore ==
  ASSUME Inv, NEW u \in {Loaded, worker.upgrade}, NEW p \in Stages, MayStart(u, p)
  PROVE  Rank(u.status.phase) < Rank(p)
  <1>1. CASE worker.pc = "start" /\ worker.phase = p /\ u = worker.upgrade
    <2>1. MayEnter(u.status, p)
      BY <1>1 DEF Inv, Coherent, WorkerCoherent
    <2>2. p # "Verifying" /\ p # "RollingBack"
      BY DEF Stages
    <2> QED BY <2>1, <2>2, RankValues DEF MayEnter
  <1>2. CASE u.status.phase = "FreezingOperations" /\ p = "UpgradingCRDs"
    BY <1>2, RankValues
  <1>3. p # "RollingBack"
    BY DEF Stages
  <1> QED BY <1>1, <1>2, <1>3 DEF MayStart

\* What the informer has yet to deliver, and what the server has, show at
\* least what the informer's copy shows.
LEMMA InformerBecomes ==
  ASSUME FirstStep, ~NothingBegun, NEW u, u.exists,
         u \in {Idle.upgrade, cr, cached} \cup {watch[i] : i \in 1..Len(watch)}
  PROVE  u.uid = cr.uid /\ cached.uid = cr.uid /\ Becomes(cached, u)
  <1>1. u \in Copies
    BY DEF Copies
  <1>2. u.uid = cr.uid
    BY <1>1, FirstCopy DEF FirstStep
  <1>3. cached.uid = cr.uid /\ cr.uid \in Nat
    BY BegunFacts DEF FirstStep, Inv, TypeOK, Upgrades
  <1>4. NotAfter(cached, u)
    <2>1. u # Idle.upgrade
      BY DEF Idle, Gone
    <2>2. NotAfter(cached, cr)
      BY CopiesNotAfter, CopiesInHand DEF FirstStep
    <2>3. NotAfter(cached, cached)
      BY NotAfterTrans DEF FirstStep, Inv, TypeOK
    <2>4. \A i \in 1..Len(watch) : NotAfter(cached, watch[i])
      BY DEF FirstStep, InOrder, CopiesInOrder
    <2> QED BY <2>1, <2>2, <2>3, <2>4
  <1>5. cached.rv <= u.rv
    BY <1>2, <1>3, <1>4 DEF NotAfter
  <1> QED BY <1>1, <1>2, <1>3, <1>5, CopiesInHand DEF FirstStep, InOrder, CopiesInOrder

\* The Job of a stage goes when every copy is beyond the stage, or none is
\* left that a handler acts on.
LEMMA GoesNoMore ==
  ASSUME FirstStep, ~NothingBegun, "expiry" \notin FaultKinds, NEW p \in Stages, Goes(p)
  PROVE  NoMore(p)'
  <1> SUFFICES ASSUME NEW u \in Copies', Active(u)
               PROVE  Rank(u.status.phase) >= Rank(p)
    BY DEF NoMore
  <1> DEFINE Informed == {Idle.upgrade, cr, cached} \cup {watch[i] : i \in 1..Len(watch)}
  <1>1. jobs[p].state # "absent" /\ jobs[p].owner = cr.uid
    BY DEF Goes, FirstStep, StagesEarned, JobPhases
  <1>2. u.exists /\ ~u.deleting /\ u \in Informed \cup {worker'.upgrade}
    BY DEF Goes, Copies, Idle, Active, Live
  <1>3. u \in Informed =>
          u.uid = cr.uid /\ cached.uid = cr.uid /\ cached.exists /\ ~cached.deleting
            /\ Rank(cached.status.phase) <= Rank(u.status.phase)
    BY <1>2, InformerBecomes DEF Becomes
  <1>4. ~FinalizeMove
    BY <1>2, <1>3 DEF FinalizeMove
  <1>5. worker' = worker
    BY <1>4 DEF Goes
  <1>6. u \in Copies /\ u.uid = cr.uid
    BY <1>2, <1>5, FirstCopy DEF FirstStep, Copies
  <1>7. CASE ~OwnerAlive(jobs[p].owner)
    BY <1>1, <1>6, <1>7 DEF OwnerAlive, FirstStep, InOrder, GoneForAll
  <1>8. CASE Used(p)
    <2>1. CASE u \in Informed
      <3>1. Rank(cached.status.phase) > Rank(p)
        BY <1>1, <1>3, <1>8, <2>1 DEF Used, PastPhase
      <3> QED BY <1>3, <2>1, <3>1, RankType
    <2>2. CASE u = worker.upgrade
      BY <1>1, <1>2, <1>6, <1>8, <2>2, RankType DEF Used, PastPhase
    <2> QED BY <1>2, <1>5, <2>1, <2>2
  <1> QED BY <1>4, <1>7, <1>8 DEF Goes

LEMMA OverNext ==
  ASSUME FinalStep, NEW p \in Stages, NEW state \in {"succeeded", "failed"},
         Over(p, state)
  PROVE  Over(p, state)'
  <1>1. p \in JobPhases /\ FirstStep
    BY DEF JobPhases, FinalStep
  <1>2. NoJob.state = "absent"
    BY DEF NoJob
  <1>3. NoMore(p) => NoMore(p)'
    BY NoMoreNext DEF FinalStep
  <1>4. CASE jobs'[p] = jobs[p]
    BY <1>3, <1>4 DEF Over
  <1>5. CASE jobs[p].state = "absent" /\ jobs'[p] = NoJob
    BY <1>2, <1>3, <1>5 DEF Over
  <1>6. ~Begins(p)
    <2> SUFFICES ASSUME Begins(p) PROVE FALSE
      OBVIOUS
    <2>1. PICK u \in {Loaded, worker.upgrade} : Active(u) /\ MayStart(u, p)
      BY DEF Begins
    <2>2. NoMore(p)
      BY DEF Begins, Over
    <2>3. Rank(u.status.phase) >= Rank(p)
      BY <2>1, <2>2, CopiesInHand DEF NoMore
    <2>4. Rank(u.status.phase) < Rank(p)
      BY <1>1, <2>1, StartsBefore DEF FirstStep
    <2> QED BY <2>3, <2>4, RankType
  <1>7. ~Ends(p)
    BY DEF Ends, Over
  <1>8. CASE Goes(p)
    BY <1>2, <1>8, GoesNoMore DEF FinalStep, Over, Goes
  <1> QED BY <1>1, <1>4, <1>5, <1>6, <1>7, <1>8 DEF FirstStep, Moves, JobMove

\* The stages' Jobs: a success is never undone, and a failure never turned
\* into a success.
LEMMA StagesOverNext ==
  ASSUME FinalStep, NEW p \in Stages
  PROVE  /\ (p \in succeeded => Over(p, "succeeded"))'
         /\ FailedFor(p) => FailedFor(p)'
         /\ ("failed" \in {jobs[p].state, jobCache[p].state} => FailedFor(p))'
  <1>1. p \in JobPhases /\ FirstStep
    BY DEF JobPhases, FinalStep
  <1>2. /\ p \in succeeded => Over(p, "succeeded")
        /\ "failed" \in {jobs[p].state, jobCache[p].state} => FailedFor(p)
    BY DEF FinalStep, Finality
  <1>3. p \in succeeded' =>
          \/ p \in succeeded
          \/ jobs[p].state \in {"running", "applied"} /\ jobs'[p].state = "succeeded"
    BY <1>1 DEF FirstStep, ClusterMove, SucceededMove
  <1>4. (p \in succeeded => Over(p, "succeeded"))'
    <2>1. CASE p \in succeeded
      BY <1>2, <2>1, OverNext
    <2>2. CASE jobs'[p].state = "succeeded"
      BY <2>2 DEF Over
    <2> QED BY <1>3, <2>1, <2>2
  <1>5. ASSUME FailedFor(p) PROVE FailedFor(p)'
    <2>1. Over(p, "failed") /\ p \notin succeeded
      BY <1>5 DEF FailedFor
    <2>2. jobs[p].state \notin {"running", "applied"}
      BY <2>1 DEF Over
    <2> QED BY <1>3, <2>1, <2>2, OverNext DEF FailedFor
  <1>6. ASSUME jobs'[p].state = "failed" PROVE FailedFor(p)'
    <2>1. CASE jobs[p].state = "failed"
      BY <1>2, <1>5, <2>1
    <2>2. CASE jobs[p].state # "failed"
      <3>1. Ends(p)
        <4>1. NoJob.state = "absent"
          BY DEF NoJob
        <4> QED BY <1>1, <1>6, <2>2, <4>1
                DEF FirstStep, Moves, JobMove, Begins, Goes
      <3>2. p \notin succeeded
        BY <1>2, <3>1 DEF Ends, Over
      <3> QED BY <1>3, <1>6, <3>2 DEF FailedFor, Over
    <2> QED BY <2>1, <2>2
  <1>7. ASSUME jobCache'[p].state = "failed" PROVE FailedFor(p)'
    BY <1>1, <1>2, <1>5, <1>7 DEF FirstStep, ClusterMove, CachesMove
  <1> QED BY <1>4, <1>5, <1>6, <1>7

----------------------------------------------------------------------------
(***************************************************************************)
(* The rollback.                                                           *)
(***************************************************************************)

LEMMA ReasonNext ==
  ASSUME FinalStep, RollbackReason
  PROVE  RollbackReason'
  <1>1. succeeded \subseteq succeeded'
    BY FirstGrows DEF FinalStep
  <1>2. cr'.exists => cr.exists /\ Rank(cr.status.phase) <= Rank(cr'.status.phase)
    BY BegunFacts DEF FinalStep
  <1>3. ASSUME NEW p \in Stages, FailedFor(p), Earned(p),
               cr.exists => Rank(cr.status.phase) >= Rank(p)
        PROVE  RollbackReason'
    <2>1. FailedFor(p)'
      BY <1>3, StagesOverNext
    <2>2. Earned(p)'
      BY <1>1, <1>3 DEF Earned, StagesBefore
    <2>3. cr'.exists => Rank(cr'.status.phase) >= Rank(p)
      BY <1>2, <1>3, RankType
    <2> QED BY <1>3, <2>1, <2>2, <2>3 DEF RollbackReason
  <1>4. ASSUME Stages \subseteq succeeded,
               cr.exists => Rank(cr.status.phase) >= Rank("Verifying")
        PROVE  RollbackReason'
    <2>1. cr'.exists => Rank(cr'.status.phase) >= Rank("Verifying")
      BY <1>2, <1>4, RankType
    <2> QED BY <1>1, <1>4, <2>1 DEF RollbackReason
  <1> QED BY <1>3, <1>4 DEF RollbackReason

\* A start of the rollback has seen a failed Job, or the verification.
LEMMA BeginsReason ==
  ASSUME FinalStep, NEW u \in {Loaded, worker.upgrade}, Active(u),
         MayStart(u, "RollingBack")
  PROVE  /\ RollbackReason
         /\ cr.exists => u.status.lastSuccessfulPhase = cr.status.lastSuccessfulPhase
  <1>1. FirstStep /\ u \in Copies /\ u.exists
    BY CopiesInHand DEF FinalStep, Active, Live
  <1>2. cr.exists => Rank(cr.status.phase) >= Rank(u.status.phase)
    BY <1>1, FirstCopy, RankType DEF FirstStep, Becomes
  <1>3. CopyEarned(u) /\ LastKept(u)
    BY <1>1 DEF FirstStep, StagesEarned
  <1>4. CASE u.status.phase = "Verifying"
    <2>1. Stages \subseteq succeeded
      BY <1>3, <1>4, StagesBeforeValues DEF CopyEarned, Changing, Earned
    <2> QED BY <1>1, <1>2, <1>3, <1>4, <2>1 DEF RollbackReason, LastKept
  <1>5. CASE u.status.phase \in Stages /\ jobCache[u.status.phase].state = "failed"
    <2>1. FailedFor(u.status.phase)
      BY <1>5 DEF FinalStep, Finality
    <2>2. Earned(u.status.phase)
      BY <1>3, <1>5 DEF CopyEarned, Changing
    <2>3. u.status.phase \notin succeeded
      BY <2>1 DEF FailedFor
    <2> QED BY <1>1, <1>2, <1>3, <1>5, <2>1, <2>2, <2>3 DEF RollbackReason, LastKept
  <1>6. "RollingBack" \notin Stages
    BY DEF Stages
  <1> QED BY <1>4, <1>5, <1>6 DEF MayStart

\* Once there is a reason for the rollback no stage's Job changes the cluster.
LEMMA ReasonNoStage ==
  ASSUME StagesEarned, Finality, RollbackReason, NEW p \in Stages
  PROVE  jobs[p].state \notin {"running", "applied"}
  <1> SUFFICES ASSUME jobs[p].state \in {"running", "applied"} PROVE FALSE
    OBVIOUS
  <1>1. p \notin succeeded /\ Earned(p)
    BY DEF Finality, Over, StagesEarned, JobsEarned, JobPhases
  <1>2. ASSUME NEW q \in Stages, FailedFor(q), Earned(q) PROVE FALSE
    <2>1. q # p
      BY <1>2 DEF FailedFor, Over
    <2> QED BY <1>1, <1>2, <2>1, RankInjective DEF FailedFor, Earned
  <1> QED BY <1>1, <1>2 DEF RollbackReason

\* Nor is a stage saved any more.
LEMMA ReasonNoSave ==
  ASSUME FinalStep, RollbackReason, cr'.exists
  PROVE  cr'.status.lastSuccessfulPhase = cr.status.lastSuccessfulPhase
  <1> DEFINE s == cr.status
  <1> DEFINE t == cr'.status
  <1>1. ~SavingMove(s, t)
    <2> SUFFICES ASSUME SavingMove(s, t) PROVE FALSE
      OBVIOUS
    <2>1. s.phase \in Stages /\ s.phase \in succeeded
      BY DEF SavingMove, FinalStep, FirstStep, StagesEarned, JobsEarned, JobPhases
    <2>2. Earned(s.phase)
      BY <2>1, CopiesInHand DEF FinalStep, FirstStep, StagesEarned, CopyEarned, Changing
    <2>3. cr.exists
      BY BegunFacts DEF FinalStep
    <2>4. ASSUME NEW p \in Stages, FailedFor(p), Rank(s.phase) >= Rank(p) PROVE FALSE
      <3>1. p # s.phase /\ p \notin succeeded
        BY <2>1, <2>4 DEF FailedFor
      <3>2. s.phase \notin StagesBefore(p)
        BY <2>4, RankType DEF StagesBefore
      <3>3. p \in StagesBefore(s.phase)
        BY <2>1, <3>1, <3>2, RankInjective
      <3> QED BY <2>2, <3>1, <3>3 DEF Earned
    <2>5. Rank(s.phase) < Rank("Verifying")
      BY <2>1, RankValues DEF Stages
    <2> QED BY <2>3, <2>4, <2>5, RankType DEF RollbackReason
  <1>2. CASE cr' = cr
    BY <1>2
  <1>3. CASE ChangedMove
    BY <1>1, <1>3
    DEF ChangedMove, StatusMove, ValidatingMove, EnteringMove, CompletingMove, FailingMove,
        Keeps
  <1> QED BY <1>2, <1>3, FirstGrows
          DEF FinalStep, FirstStep, Moves, ServerMove, RemovedMove

\* The rollback's Job is there for a reason, and knows the last stage.
LEMMA RollbackJobNext ==
  ASSUME FinalStep
  PROVE  /\ (RollbackJob.state # "absent" \/ "RollingBack" \in succeeded
               => RollbackReason)'
         /\ (RollbackJob.state # "absent" /\ cr.exists =>
               RollbackJob.last = cr.status.lastSuccessfulPhase)'
  <1> DEFINE r == "RollingBack"
  <1>1. r \in JobPhases /\ FirstStep
    BY DEF JobPhases, FinalStep
  <1>2. /\ RollbackJob.state # "absent" \/ r \in succeeded => RollbackReason
        /\ RollbackJob.state # "absent" /\ cr.exists =>
             RollbackJob.last = cr.status.lastSuccessfulPhase
    BY DEF FinalStep, Finality
  <1>3. CASE Begins(r)
    <2>1. PICK u \in {Loaded, worker.upgrade} :
            /\ Active(u) /\ MayStart(u, r)
            /\ jobs'[r].last = u.status.lastSuccessfulPhase
      BY <1>3 DEF Begins
    <2>2. RollbackReason
          /\ (cr.exists => u.status.lastSuccessfulPhase = cr.status.lastSuccessfulPhase)
      BY <2>1, BeginsReason
    <2> QED BY <1>3, <2>1, <2>2, ReasonNext DEF Begins, RollbackJob
  <1>4. CASE ~Begins(r)
    <2>1. jobs'[r].state # "absent" =>
            jobs[r].state # "absent" /\ jobs'[r].last = jobs[r].last
      <3>1. NoJob.state = "absent"
        BY DEF NoJob
      <3>2. Ends(r) => jobs[r].state # "absent" /\ jobs'[r].last = jobs[r].last
        BY <1>1 DEF Ends, FirstStep, Inv, TypeOK, Jobs
      <3> QED BY <1>1, <1>4, <3>1, <3>2 DEF FirstStep, Moves, JobMove, Goes
    <2>2. r \in succeeded' => r \in succeeded \/ jobs[r].state # "absent"
      BY <1>1 DEF FirstStep, ClusterMove, SucceededMove
    <2>3. RollbackJob'.state # "absent" \/ r \in succeeded' => RollbackReason
      BY <1>2, <2>1, <2>2 DEF RollbackJob
    <2>4. cr'.exists => cr.exists
      BY BegunFacts DEF FinalStep
    <2> QED BY <1>2, <2>1, <2>3, <2>4, ReasonNext, ReasonNoSave DEF RollbackJob
  <1> QED BY <1>3, <1>4

\* After the rollback's Job has succeeded no Job deploys another version.
LEMMA RestoredNext ==
  ASSUME FinalStep, "RollingBack" \in succeeded', cr'.exists
  PROVE  deployed' = cr'.status.previousVersion
  <1> DEFINE r == "RollingBack"
  <1>1. r \in JobPhases /\ SetsImage(r) /\ FirstStep
    BY DEF JobPhases, SetsImage, FinalStep
  <1>2. cr.exists
    BY BegunFacts DEF FinalStep
  <1>3. jobs[r].state # "absent" => jobs[r].version = cr.status.previousVersion
    BY <1>1, <1>2
    DEF FirstStep, StagesEarned, InOrder, ImageJobsInOrder, OwnerAlive
  <1>4. CASE r \in succeeded
    <2>1. RollbackReason /\ deployed = cr.status.previousVersion
      BY <1>2, <1>4 DEF FinalStep, Finality
    <2>2. ~Early(cr.status.phase)
      <3>1. Rank(cr.status.phase) > 1
        BY <1>2, <2>1, RankValues, RankType DEF RollbackReason, Stages
      <3>2. cr.status.phase \in Phases
        BY <1>1 DEF FirstStep, Inv, TypeOK, Upgrades, Statuses
      <3> QED BY <3>1, <3>2, RankEarly, RankType
    <2>3. cr'.status.previousVersion = cr.status.previousVersion
      BY <1>1, <2>2, ServerAdvances DEF FirstStep
    <2>4. CASE deployed' = deployed
      BY <2>1, <2>3, <2>4
    <2>5. ASSUME NEW p \in JobPhases, SetsImage(p), jobs[p].state = "running",
                 deployed' = jobs[p].version
          PROVE  p = r
      BY <2>1, <2>5, ReasonNoStage DEF FinalStep, FirstStep, JobPhases
    <2> QED BY <1>1, <1>3, <2>3, <2>4, <2>5 DEF FirstStep, ClusterMove, DeployedMove
  <1>5. CASE r \notin succeeded
    <2>1. /\ jobs[r].state \in {"running", "applied"} /\ deployed = jobs[r].version
          /\ cr' = cr /\ deployed' = deployed
      BY <1>1, <1>5 DEF FirstStep, ClusterMove, SucceededMove
    <2> QED BY <1>3, <2>1
  <1> QED BY <1>4, <1>5

\* An upgrade is rolled back by the one who has read the Job's success.
LEMMA RolledBackNext ==
  ASSUME FirstStep, Finality, cr'.status.rolledBack
  PROVE  cr'.exists /\ cr'.status.phase = "Failed" /\ "RollingBack" \in succeeded'
  <1> DEFINE s == cr.status
  <1> DEFINE t == cr'.status
  <1>1. succeeded \subseteq succeeded'
    BY FirstGrows
  <1>2. s.rolledBack => cr.exists /\ s.phase = "Failed" /\ "RollingBack" \in succeeded
    BY DEF Finality
  <1>3. CASE cr' = cr
    BY <1>1, <1>2, <1>3
  <1>4. ~RemovedMove
    BY InitialEarned DEF RemovedMove
  <1>5. CASE ChangedMove
    <2>1. CASE t = s
      BY <1>1, <1>2, <1>5, <2>1 DEF ChangedMove
    <2>2. ~(ValidatingMove(s, t) \/ SavingMove(s, t) \/ EnteringMove(s, t)
              \/ CompletingMove(s, t))
      <3>1. ~Early("Failed") /\ "Failed" \notin Stages \cup Changing
        BY DEF Early, Stages, Changing
      <3>2. ~EnteringMove(s, t)
        BY <1>2, <3>1 DEF EnteringMove, Keeps, MayEnter
      <3>3. ~ValidatingMove(s, t) /\ ~SavingMove(s, t) /\ ~CompletingMove(s, t)
        BY <1>2, <3>1 DEF ValidatingMove, SavingMove, CompletingMove, Keeps
      <3> QED BY <3>2, <3>3
    <2>3. CASE FailingMove(s, t)
      <3>1. jobCache["RollingBack"].state = "succeeded"
        BY <1>2, <2>3 DEF FailingMove, Terminal
      <3>2. "RollingBack" \in succeeded
        BY <3>1 DEF FirstStep, StagesEarned, JobsEarned, JobPhases
      <3> QED BY <1>1, <1>5, <2>3, <3>2 DEF ChangedMove, FailingMove
    <2> QED BY <1>5, <2>1, <2>2, <2>3 DEF ChangedMove, StatusMove
  <1> QED BY <1>3, <1>4, <1>5, FirstGrows DEF FirstStep, Moves, ServerMove

\* The step that begins the first Job, and those before it.
LEMMA FirstJobNext ==
  ASSUME FirstStep, NothingBegun
  PROVE  /\ succeeded' = {} /\ jobs'["RollingBack"].state = "absent"
         /\ \A p \in JobPhases :
              jobs'[p].state # "failed" /\ jobCache'[p].state # "failed"
  <1>1. \A p \in JobPhases : jobs[p].state = "absent" /\ jobCache[p].state = "absent"
    BY DEF NothingBegun
  <1>2. succeeded = {} /\ succeeded' = {}
    BY <1>1, FirstGrows DEF FirstStep, ClusterMove, SucceededMove, NothingBegun
  <1>3. \A p \in JobPhases : jobCache'[p].state # "failed"
    BY <1>1 DEF FirstStep, ClusterMove, CachesMove
  <1>4. ASSUME NEW p \in JobPhases PROVE jobs'[p].state = "absent" \/ Begins(p)
    <2>1. JobMove(p) /\ NoJob.state = "absent"
      BY DEF FirstStep, Moves, NoJob
    <2> QED BY <1>1, <2>1 DEF JobMove, Ends, Goes
  <1>5. ~Begins("RollingBack")
    <2> SUFFICES ASSUME NEW u \in {Loaded, worker.upgrade}, MayStart(u, "RollingBack")
                 PROVE  FALSE
      BY DEF Begins
    <2>1. u.status.phase = "Verifying"
      BY <1>1 DEF MayStart, JobPhases, Stages
    <2>2. Stages \subseteq succeeded
      BY <2>1, CopiesInHand, StagesBeforeValues
      DEF FirstStep, StagesEarned, CopyEarned, Earned, Changing
    <2> QED BY <1>2, <2>2 DEF Stages
  <1>6. "RollingBack" \in JobPhases
    BY DEF JobPhases
  <1> QED BY <1>2, <1>3, <1>4, <1>5, <1>6 DEF Begins

LEMMA FinalityNext ==
  ASSUME FirstStep, Finality, "expiry" \notin FaultKinds
  PROVE  Finality'
  <1>1. (cr.status.rolledBack =>
           cr.exists /\ cr.status.phase = "Failed" /\ "RollingBack" \in succeeded)'
    BY RolledBackNext
  <1>2. CASE NothingBegun
    <2>1. Stages \subseteq JobPhases
      BY DEF JobPhases
    <2> QED BY <1>1, <1>2, <2>1, FirstJobNext DEF Finality, RollbackJob
  <1>3. CASE ~NothingBegun
    <2>1. FinalStep
      BY <1>3 DEF FinalStep
    <2>2. \A p \in Stages :
            /\ (p \in succeeded => Over(p, "succeeded"))'
            /\ ("failed" \in {jobs[p].state, jobCache[p].state} => FailedFor(p))'
      BY <2>1, StagesOverNext
    <2>3. ("RollingBack" \in succeeded /\ cr.exists =>
             deployed = cr.status.previousVersion)'
      BY <2>1, RestoredNext
    <2> QED BY <1>1, <2>1, <2>2, <2>3, RollbackJobNext DEF Finality
  <1> QED BY <1>2, <1>3

LEMMA NextJobsFinal ==
  ASSUME Inv, InOrder, History, JobsFinal, [Next]_vars
  PROVE  JobsFinal'
  <1> SUFFICES ASSUME FirstIncarnation', "expiry" \notin FaultKinds
               PROVE  Finality'
    BY DEF JobsFinal
  <1>1. Inv' /\ InOrder' /\ Moves /\ ClusterMove
    BY NextInv, NextInOrder, StepMoves
  <1>2. /\ cr.uid \in Nat /\ cr'.uid \in Nat
        /\ cr'.uid = cr.uid
             \/ /\ CreatedMove /\ cr'.uid = cr.uid + 1
                /\ UNCHANGED <<caches, jobs, backup, deployed>>
    BY <1>1
    DEF Inv, TypeOK, Upgrades, Moves, ServerMove, CreatedMove, RemovedMove, ChangedMove
  <1>3. FirstIncarnation /\ (cr'.uid # cr.uid => cr.uid = 0)
    BY <1>2 DEF FirstIncarnation
  <1>4. StagesEarned /\ Finality
    BY <1>3 DEF History, JobsFinal
  <1>5. CASE cr'.uid = cr.uid
    <2>1. FirstStep
      BY <1>1, <1>3, <1>4, <1>5 DEF FirstStep
    <2> QED BY <1>4, <2>1, FinalityNext
  <1>6. CASE cr'.uid # cr.uid
    <2>1. /\ NothingBegun /\ succeeded' = {} /\ jobs' = jobs /\ jobCache' = jobCache
          /\ cr'.status = InitialStatus
      BY <1>2, <1>3, <1>4, <1>6 DEF StagesEarned, CreatedMove, caches
    <2>2. \A p \in JobPhases : jobs'[p].state = "absent" /\ jobCache'[p].state = "absent"
      BY <2>1 DEF NothingBegun
    <2>3. Stages \subseteq JobPhases /\ "RollingBack" \in JobPhases
      BY DEF JobPhases
    <2> QED BY <2>1, <2>2, <2>3, InitialEarned DEF Finality, RollbackJob
  <1> QED BY <1>5, <1>6

LEMMA InitJobsFinal == Init => JobsFinal
  <1> SUFFICES ASSUME Init PROVE Finality
    BY DEF JobsFinal
  <1>1. \A p \in JobPhases : jobs[p].state = "absent" /\ jobCache[p].state = "absent"
    BY DEF Init, NoJob
  <1>2. Stages \subseteq JobPhases /\ "RollingBack" \in JobPhases /\ succeeded = {}
    BY DEF JobPhases, Init
  <1>3. cr.status = InitialStatus
    BY DEF Init, Gone
  <1> QED BY <1>1, <1>2, <1>3, InitialEarned DEF Finality, RollbackJob

LEMMA SpecJobsFinal == Spec => [](Inv /\ InOrder /\ History /\ JobsFinal)
  <1>1. Init => Inv /\ InOrder /\ History /\ JobsFinal
    BY InitInv, InitInOrder, InitHistory, InitJobsFinal
  <1>2. Inv /\ InOrder /\ History /\ JobsFinal /\ [Next]_vars
          => (Inv /\ InOrder /\ History /\ JobsFinal)'
    BY NextInv, NextInOrder, NextHistory, NextJobsFinal
  <1> QED BY <1>1, <1>2, PTL DEF Spec

----------------------------------------------------------------------------
(***************************************************************************)
(* What follows from JobsFinal.  Each of these theorems assumes that a Job *)
(* expires only when the controller is past its phase; if a result may     *)
(* expire unread, TLC finds each of the properties violated.               *)
(***************************************************************************)

\* For the first resource, and as long as no result expires unread: a stage
\* that has succeeded is not started again, one that has failed never
\* succeeds, and there is a rollback for such a reason only.
THEOREM JobsStayFinal == Spec => []JobsFinal
  BY SpecJobsFinal, PTL

\* Through stale reads, conflicts, crashes and lost answers, and for any bounds,
\* every step keeps what the copies, Jobs and backup know of each other.
THEOREM AllIsRemembered == Spec => []Remembered
  <1>1. InOrder /\ History /\ JobsFinal => Remembered
    BY DEF Remembered
  <1> QED BY <1>1, SpecInOrder, SpecHistory, SpecJobsFinal, PTL

\* Two Jobs never change the cluster at the same time, however stale the
\* monitor's caches and wherever the process crashes between creating a Job
\* and saving the phase that waits for it.
THEOREM JobsTakeTurns ==
  ASSUME "expiry" \notin FaultKinds
  PROVE  Spec => []OneJobAtATime
  <1>1. History /\ JobsFinal => OneJobAtATime
    <2> SUFFICES ASSUME History, JobsFinal, FirstIncarnation,
                        NEW p \in JobPhases, NEW q \in JobPhases,
                        {jobs[p].state, jobs[q].state} \subseteq {"running", "applied"}
                 PROVE  p = q
      BY DEF OneJobAtATime
    <2>1. StagesEarned /\ Finality
      BY DEF History, JobsFinal
    <2>2. CASE p \in Stages /\ q \in Stages
      <3>1. \A s \in {p, q} : s \notin succeeded /\ Earned(s)
        BY <2>1, <2>2 DEF StagesEarned, JobsEarned, Finality, Over, JobPhases
      <3> QED BY <2>2, <3>1, RankInjective DEF Earned
    <2>3. CASE "RollingBack" \in {p, q}
      <3>1. RollbackReason
        BY <2>1, <2>3 DEF Finality, RollbackJob
      <3> QED BY <2>1, <3>1, <2>3, ReasonNoStage DEF JobPhases
    <2> QED BY <2>2, <2>3 DEF JobPhases
  <1> QED BY <1>1, SpecJobsFinal, PTL

\* A rollback's Job restores the version that its upgrade saved, never an
\* empty one, of every resource of the name, and knows the last stage that
\* succeeded, of the first.
THEOREM RollbackRestoresSaved ==
  ASSUME "expiry" \notin FaultKinds
  PROVE  Spec => []RollbackKnowsVersion
  <1>1. Inv /\ InOrder /\ History /\ JobsFinal => RollbackKnowsVersion
    <2> SUFFICES ASSUME Inv, InOrder, JobsFinal,
                        RollbackJob.state # "absent", OwnerAlive(RollbackJob.owner)
                 PROVE  /\ RollbackJob.version = cr.status.previousVersion
                        /\ RollbackJob.version # NoVersion
                        /\ FirstIncarnation =>
                             RollbackJob.last = cr.status.lastSuccessfulPhase
      BY DEF RollbackKnowsVersion, RollbackJob
    <2>1. "RollingBack" \in JobPhases /\ SetsImage("RollingBack")
      BY DEF JobPhases, SetsImage
    <2>2. RollbackJob.version = cr.status.previousVersion
      BY <2>1 DEF InOrder, ImageJobsInOrder, RollbackJob
    <2>3. RollbackJob.version # NoVersion
      BY <2>1 DEF Inv, Coherent, JobsNameVersions, RollbackJob
    <2>4. FirstIncarnation => RollbackJob.last = cr.status.lastSuccessfulPhase
      BY DEF JobsFinal, Finality, OwnerAlive
    <2> QED BY <2>2, <2>3, <2>4
  <1> QED BY <1>1, SpecJobsFinal, PTL

\* An upgrade that is reported as rolled back has left the cluster at the
\* version it found: no Job that was still there sets the image again.
THEOREM RolledBackIsRestored ==
  ASSUME "expiry" \notin FaultKinds
  PROVE  Spec => []RolledBackMeansRestored
  <1>1. JobsFinal => RolledBackMeansRestored
    BY DEF JobsFinal, Finality, RolledBackMeansRestored
  <1> QED BY <1>1, SpecJobsFinal, PTL

\* A stage whose Job has succeeded is never started again, whatever crash
\* made the start function run a second time.
THEOREM StagesRunOnce ==
  ASSUME "expiry" \notin FaultKinds
  PROVE  Spec => NoStageRepeats
  <1>1. Inv /\ InOrder /\ JobsFinal /\ [Next]_vars => [JobNotRepeated]_vars
    <2> SUFFICES ASSUME Inv, InOrder, JobsFinal, [Next]_vars, FirstIncarnation,
                        NEW p \in Stages, jobs[p].state = "absent",
                        jobs'[p].state = "running", p \in succeeded
                 PROVE  FALSE
      BY DEF JobNotRepeated
    <2>1. JobMove(p) /\ NoJob.state = "absent"
      BY StepMoves DEF Moves, JobPhases, NoJob
    <2>2. PICK u \in {Loaded, worker.upgrade} : Active(u) /\ MayStart(u, p)
      BY <2>1 DEF JobMove, Begins, Ends, Goes
    <2>3. NoMore(p)
      BY DEF JobsFinal, Finality, Over
    <2>4. Rank(u.status.phase) >= Rank(p)
      BY <2>2, <2>3, CopiesInHand DEF NoMore
    <2>5. Rank(u.status.phase) < Rank(p)
      BY <2>2, StartsBefore
    <2> QED BY <2>4, <2>5, RankType
  <1> QED BY <1>1, SpecJobsFinal, PTL DEF Spec, NoStageRepeats

=============================================================================
