------------------------- MODULE UpgradeJobs_proofs -------------------------
(***************************************************************************)
(* UpgradeJobs for every cluster and any number of faults: the variables   *)
(* keep their types, the target never runs before its CRDs, the scripts    *)
(* keep their contract, and what they leave behind is paid for by faults.  *)
(***************************************************************************)
EXTENDS UpgradeJobs, FiniteSetTheorems, TLAPS

----------------------------------------------------------------------------
(***************************************************************************)
(* Which script, and which place in it, a command belongs to.              *)
(***************************************************************************)

LEMMA CRDCommands ==
  /\ Len(CRDScript) = 2
  /\ CRDScript[1] = <<"apply", "crds">>
  /\ CRDScript[2] = <<"check", "crds">>
BY DEF CRDScript

LEMMA ControllerManagerCommands ==
  /\ Len(ControllerManagerScript) = 2
  /\ ControllerManagerScript[1] = <<"set", "controller-manager">>
  /\ ControllerManagerScript[2] = <<"check", "controller-manager">>
BY DEF ControllerManagerScript

LEMMA NetworkFabricCommands ==
  /\ Len(NetworkFabricScript) = 12
  /\ NetworkFabricScript[1] = <<"set", "client">>
  /\ NetworkFabricScript[2] = <<"set", "server">>
  /\ NetworkFabricScript[3] = <<"check", "client">>
  /\ NetworkFabricScript[4] = <<"check", "server">>
  /\ NetworkFabricScript[5] = <<"set", "ipam">>
  /\ NetworkFabricScript[6] = <<"set", "proxy">>
  /\ NetworkFabricScript[7] = <<"set", "fabric">>
  /\ NetworkFabricScript[8] = <<"recreate", "gateways">>
  /\ NetworkFabricScript[9] = <<"check", "ipam">>
  /\ NetworkFabricScript[10] = <<"check", "proxy">>
  /\ NetworkFabricScript[11] = <<"check", "fabric">>
  /\ NetworkFabricScript[12] = <<"check", "gateways">>
BY DEF NetworkFabricScript

LEMMA RollbackCommands ==
  ASSUME NEW last
  PROVE  /\ Len(RollbackScript(last)) \in {2, 6}
         /\ RollbackScript(last)[1] = <<"set", "controller-manager">>
         /\ RollbackScript(last)[2] = <<"check", "controller-manager">>
         /\ Len(RollbackScript(last)) = 6 =>
              /\ RollbackScript(last)[3] = <<"restore", "gateways">>
              /\ RollbackScript(last)[4] = <<"set", "ipam">>
              /\ RollbackScript(last)[5] = <<"set", "proxy">>
              /\ RollbackScript(last)[6] = <<"set", "fabric">>
BY DEF RollbackScript

LEMMA CommandPlaces ==
  ASSUME job \in Jobs
  PROVE  /\ Len(JobScript) \in 2..12
         /\ Runs(<<"apply", "crds">>) => job.stage = "UpgradingCRDs" /\ job.at = 1
         /\ Runs(<<"check", "crds">>) => job.stage = "UpgradingCRDs" /\ job.at = 2
         /\ \A c : Runs(<<"set", c>>) => job.stage # "UpgradingCRDs"
         /\ \A c : /\ Runs(<<"set", c>>)
                   /\ job.stage \in {"UpgradingControllerManager", "RollingBack"}
                   => (c = "controller-manager") = (job.at = 1)
         /\ \A c : Runs(<<"check", c>>) => job.stage = "UpgradingCRDs" \/ job.at > 1
         /\ \A c \in {"client", "server", "ipam", "proxy", "fabric", "gateways"} :
              Runs(<<"check", c>>) => job.stage = "UpgradingNetworkFabric"
         /\ Runs(<<"set", "controller-manager">>) =>
              job.stage \in {"UpgradingControllerManager", "RollingBack"}
         /\ Runs(<<"check", "controller-manager">>) =>
              /\ job.stage \in {"UpgradingControllerManager", "RollingBack"}
              /\ job.at = 2
         /\ Runs(<<"recreate", "gateways">>) => job.stage = "UpgradingNetworkFabric"
         /\ Runs(<<"restore", "gateways">>) => job.stage = "RollingBack" /\ job.at > 2
         /\ job.stage = "UpgradingCRDs" => Len(JobScript) = 2
<1>0. job.at \in 1..13 /\ job.stage \in Stages \cup {"RollingBack"}
  BY DEF Jobs
<1>1. CASE job.stage = "UpgradingCRDs"
  <2>1. JobScript = CRDScript
    BY <1>1 DEF JobScript, Script
  <2>2. job.at <= 2 => job.at = 1 \/ job.at = 2
    BY <1>0
  <2> QED
    BY <1>1, <2>1, <2>2, CRDCommands DEF Runs
<1>2. CASE job.stage = "UpgradingControllerManager"
  <2>1. JobScript = ControllerManagerScript
    BY <1>2 DEF JobScript, Script
  <2>2. job.at <= 2 => job.at = 1 \/ job.at = 2
    BY <1>0
  <2> QED
    BY <1>2, <2>1, <2>2, ControllerManagerCommands DEF Runs
<1>3. CASE job.stage = "UpgradingNetworkFabric"
  <2>1. JobScript = NetworkFabricScript
    BY <1>3 DEF JobScript, Script
  <2>2. job.at <= 12 => job.at \in {1, 2, 3, 4, 5, 6, 7, 8, 9, 10, 11, 12}
    BY <1>0
  <2> QED
    BY <1>3, <2>1, <2>2, NetworkFabricCommands DEF Runs
<1>4. CASE job.stage = "RollingBack"
  <2>1. JobScript = RollbackScript(job.last)
    BY <1>4 DEF JobScript, Script
  <2>2. job.at <= 6 => job.at \in {1, 2, 3, 4, 5, 6}
    BY <1>0
  <2>3. CASE Len(JobScript) = 2
    <3>1. job.at <= 2 => job.at = 1 \/ job.at = 2
      BY <1>0
    <3>2. /\ JobScript[1] = <<"set", "controller-manager">>
          /\ JobScript[2] = <<"check", "controller-manager">>
      BY <2>1, RollbackCommands
    <3> QED
      BY <1>4, <2>3, <3>1, <3>2 DEF Runs
  <2>4. CASE Len(JobScript) = 6
    BY <1>4, <2>1, <2>2, <2>4, RollbackCommands DEF Runs
  <2> QED
    BY <2>1, <2>3, <2>4, RollbackCommands
<1> QED
  BY <1>0, <1>1, <1>2, <1>3, <1>4 DEF Stages

----------------------------------------------------------------------------
(***************************************************************************)
(* How a command updates the Job.                                          *)
(***************************************************************************)

LEMMA GoOnJob ==
  ASSUME job \in Jobs, job.at <= Len(JobScript), GoOn
  PROVE  /\ job' \in Jobs
         /\ job'.at = job.at + 1
         /\ job'.stage = job.stage
         /\ job'.last = job.last
         /\ job'.state = job.state
         /\ job'.failed = job.failed
<1>1. job.at \in 1..13 /\ Len(JobScript) \in 2..12
  BY CommandPlaces DEF Jobs
<1>2. job.at + 1 \in 1..13
  <2> DEFINE n == Len(JobScript)
             i == job.at
  <2>1. i \in 1..13 /\ n \in 2..12 /\ i <= n
    BY <1>1
  <2> HIDE DEF n, i
  <2>2. i + 1 \in 1..13
    BY <2>1
  <2> QED
    BY <2>2 DEF i
<1>3. job' = [job EXCEPT !.at = job.at + 1, !.done = {}]
  BY DEF GoOn
<1> QED
  BY <1>2, <1>3 DEF Jobs

LEMMA DidJob ==
  ASSUME job \in Jobs,
         NEW item \in CRDs \cup Gateways \cup (Halves \X Gateways),
         Did(item)
  PROVE  /\ job' \in Jobs
         /\ job'.done = job.done \cup {item}
         /\ job'.at = job.at
         /\ job'.stage = job.stage
         /\ job'.last = job.last
         /\ job'.state = job.state
         /\ job'.failed = job.failed
<1>1. job.done \cup {item} \in SUBSET (CRDs \cup Gateways \cup (Halves \X Gateways))
  BY DEF Jobs
<1>2. job' = [job EXCEPT !.done = job.done \cup {item}]
  BY DEF Did
<1> QED
  BY <1>1, <1>2 DEF Jobs

LEMMA FirstCommand == 1 \in 1..13
OBVIOUS

LEMMA Positive == \A i \in 1..13 : i # 1 => i > 1
OBVIOUS

LEMMA AtFirst == \A i \in 1..13 : i = 1 => i <= 3 /\ ~(i > 1) /\ ~(i > 2)
OBVIOUS

LEMMA AtTyped == ASSUME job \in Jobs PROVE job.at \in 1..13
BY DEF Jobs

LEMMA NewJobTyped ==
  ASSUME NEW stage \in Stages \cup {"RollingBack"}, NEW last \in Stages \cup {""}
  PROVE  /\ NewJob(stage, last) \in Jobs
         /\ NewJob(stage, last).stage = stage
         /\ NewJob(stage, last).state = "running"
         /\ NewJob(stage, last).at = 1
         /\ NewJob(stage, last).done = {}
<1>1. {} \in SUBSET (CRDs \cup Gateways \cup (Halves \X Gateways))
  OBVIOUS
<1>2. 1 \in 1..13
  BY FirstCommand
<1>3. FALSE \in BOOLEAN
  OBVIOUS
<1> QED
  BY <1>1, <1>2, <1>3 DEF NewJob, Jobs

\* An action that leaves the CRDs and every image as they are, and goes on
\* past its command, keeps the invariant if the CRD script may go on.
LEMMA QuietCommand ==
  ASSUME StagesBuildUp, job.at <= Len(JobScript), GoOn,
         UNCHANGED <<status, crd, image, gateways>>, faults' \in Nat,
         job.stage = "UpgradingCRDs" =>
           \/ job.at = 1 /\ (~job.failed => CRDs \subseteq job.done)
           \/ job.at = 2 /\ ~job.failed,
         job.stage \in {"UpgradingControllerManager", "RollingBack"} => job.at > 1
  PROVE  StagesBuildUp'
<1> USE DEF StagesBuildUp
<1>1. /\ job \in Jobs /\ job.at \in 1..13
      /\ UNCHANGED <<phase, lastSuccessfulPhase, rolledBack, crd, image, wg, gateway, asked>>
  BY DEF TypeOK, Jobs, status, gateways
<1>2. TypeOK'
  BY <1>1, GoOnJob DEF TypeOK
<1>3. JobOfPhase'
  BY <1>1, GoOnJob DEF JobOfPhase
<1>4. CRDsSoFar'
  <2>1. CASE job.stage = "UpgradingCRDs"
    <3>1. job.state = "succeeded" => job'.at > 2
      BY <1>1, <2>1, GoOnJob DEF CRDsSoFar
    <3>2. ~job.failed => AllCRDsNew'
      BY <1>1, <2>1 DEF CRDsSoFar, AllCRDsNew
    <3> QED
      BY <1>1, <2>1, <3>1, <3>2, GoOnJob DEF CRDsSoFar
  <2>2. CASE job.stage # "UpgradingCRDs"
    BY <1>1, <2>2, GoOnJob DEF CRDsSoFar, AllCRDsNew
  <2> QED
    BY <2>1, <2>2
<1>5. ImageApplied'
  BY <1>1, GoOnJob DEF ImageApplied, Version
<1>6. NewCodeNeedsNewCRDs'
  BY <1>1 DEF NewCodeNeedsNewCRDs, AllCRDsNew
<1> QED
  BY <1>2, <1>3, <1>4, <1>5, <1>6

\* An action that leaves the Job, the CRDs and every image as they are, and
\* gives gateways only what exists already.
LEMMA InitEstablishes == Init => StagesBuildUp
<1> SUFFICES ASSUME Init PROVE StagesBuildUp
  OBVIOUS
<1> USE DEF Init
<1>1. /\ job \in Jobs /\ job.stage = "UpgradingCRDs" /\ job.at = 1
      /\ job.done = {} /\ job.state = "running"
  <2>1. "UpgradingCRDs" \in Stages \cup {"RollingBack"} /\ "" \in Stages \cup {""}
    BY DEF Stages
  <2>2. /\ NewJob("UpgradingCRDs", "") \in Jobs
        /\ NewJob("UpgradingCRDs", "").stage = "UpgradingCRDs"
        /\ NewJob("UpgradingCRDs", "").state = "running"
        /\ NewJob("UpgradingCRDs", "").at = 1
        /\ NewJob("UpgradingCRDs", "").done = {}
    BY ONLY <2>1, NewJobTyped
  <2>3. job = NewJob("UpgradingCRDs", "")
    OBVIOUS
  <2> QED
    BY ONLY <2>2, <2>3
<1>2. TypeOK
  BY <1>1, VersionsAssumption DEF TypeOK, Stages, MaybeTags
<1>3. JobOfPhase
  BY <1>1 DEF JobOfPhase
<1>4. CRDsSoFar
  <2>1. job.at <= 3 /\ ~(job.at > 1) /\ ~(job.at > 2)
    <3>1. job.at = 1 /\ job.at \in 1..13
      BY <1>1, AtTyped
    <3> QED
      BY <3>1, AtFirst
  <2>2. job.state # "succeeded"
    BY <1>1
  <2>3. \A f \in job.done \cap CRDs : crd[f] = Target
    BY <1>1
  <2> QED
    BY <1>1, <2>1, <2>2, <2>3 DEF CRDsSoFar
<1>5. ImageApplied
  BY <1>1 DEF ImageApplied
<1>6. NewCodeNeedsNewCRDs
  BY DEF NewCodeNeedsNewCRDs
<1> QED
  BY <1>2, <1>3, <1>4, <1>5, <1>6 DEF StagesBuildUp

----------------------------------------------------------------------------
(***************************************************************************)
(* The commands that only go on.                                           *)
(***************************************************************************)

LEMMA RunsInRange ==
  ASSUME NEW command, Runs(command)
  PROVE  job.at <= Len(JobScript) /\ job.state = "running"
BY DEF Runs

LEMMA FaultTyped == ASSUME faults \in Nat, Fault PROVE faults' \in Nat
BY DEF Fault

LEMMA QuietCommands ==
  ASSUME StagesBuildUp,
         \/ LoopEnds \/ NamespacesNotListed \/ CheckCRDs \/ CheckControllerManager
         \/ \E t \in {"client", "server"} : PassOver(t) \/ CheckTemplate(t)
         \/ \E c \in {"ipam", "proxy", "fabric"} : PassOver(c) \/ CheckComponent(c)
  PROVE  /\ job.at <= Len(JobScript) /\ GoOn /\ faults' \in Nat
         /\ UNCHANGED <<status, crd, image, gateways>>
         /\ job.stage = "UpgradingCRDs" =>
              \/ job.at = 1 /\ (~job.failed => CRDs \subseteq job.done)
              \/ job.at = 2 /\ ~job.failed
         /\ job.stage \in {"UpgradingControllerManager", "RollingBack"} => job.at > 1
<1> DEFINE Quiet ==
         /\ job.at <= Len(JobScript) /\ GoOn /\ faults' \in Nat
         /\ UNCHANGED <<status, crd, image, gateways>>
         /\ job.stage = "UpgradingCRDs" =>
              \/ job.at = 1 /\ (~job.failed => CRDs \subseteq job.done)
              \/ job.at = 2 /\ ~job.failed
         /\ job.stage \in {"UpgradingControllerManager", "RollingBack"} => job.at > 1
<1> SUFFICES Quiet
  OBVIOUS
<1>1. job \in Jobs /\ faults \in Nat
  BY DEF StagesBuildUp, TypeOK
<1>2. CASE LoopEnds
  <2>1. PICK command \in Loops : Runs(command) /\ job.done = LoopItems(command)
    BY <1>2 DEF LoopEnds
  <2>2. /\ job.stage = "UpgradingCRDs" => job.at = 1 /\ CRDs \subseteq job.done
        /\ job.stage \in {"UpgradingControllerManager", "RollingBack"} => job.at > 1
    <3>1. CASE command = <<"apply", "crds">>
      <4>1. job.done = CRDs
        BY <2>1, <3>1 DEF LoopItems
      <4>2. job.stage = "UpgradingCRDs" /\ job.at = 1
        BY <1>1, <2>1, <3>1, CommandPlaces
      <4> QED
        BY <4>1, <4>2
    <3>2. CASE command = <<"check", "gateways">>
      <4>1. job.stage = "UpgradingNetworkFabric"
        BY <1>1, <2>1, <3>2, CommandPlaces
      <4> QED
        BY <4>1
    <3>3. CASE command = <<"recreate", "gateways">>
      <4>1. job.stage = "UpgradingNetworkFabric"
        BY <1>1, <2>1, <3>3, CommandPlaces
      <4> QED
        BY <4>1
    <3>4. CASE command = <<"restore", "gateways">>
      <4>1. job.stage = "RollingBack" /\ job.at > 2
        BY <1>1, <2>1, <3>4, CommandPlaces
      <4>2. job.at > 1
        BY <1>1, <4>1, AtTyped
      <4> QED
        BY <4>1, <4>2
    <3> QED
      BY <2>1, <3>1, <3>2, <3>3, <3>4 DEF Loops
  <2> QED
    BY <1>1, <1>2, <2>1, <2>2, RunsInRange DEF LoopEnds
<1>3. CASE NamespacesNotListed
  <2>1. PICK command \in Loops \ {<<"apply", "crds">>} : Runs(command)
    BY <1>3 DEF NamespacesNotListed
  <2>2. job.stage # "UpgradingCRDs"
        /\ (job.stage \in {"UpgradingControllerManager", "RollingBack"} => job.at > 1)
    <3>1. CASE command = <<"check", "gateways">>
      <4>1. job.stage = "UpgradingNetworkFabric"
        BY <1>1, <2>1, <3>1, CommandPlaces
      <4> QED
        BY <4>1
    <3>2. CASE command = <<"recreate", "gateways">>
      <4>1. job.stage = "UpgradingNetworkFabric"
        BY <1>1, <2>1, <3>2, CommandPlaces
      <4> QED
        BY <4>1
    <3>3. CASE command = <<"restore", "gateways">>
      <4>1. job.stage = "RollingBack" /\ job.at > 2
        BY <1>1, <2>1, <3>3, CommandPlaces
      <4>2. job.at > 1
        BY <1>1, <4>1, AtTyped
      <4> QED
        BY <4>1, <4>2
    <3> QED
      BY <2>1, <3>1, <3>2, <3>3 DEF Loops
  <2> QED
    BY <1>1, <1>3, <2>1, <2>2, RunsInRange, FaultTyped
    DEF NamespacesNotListed
<1>4. CASE CheckCRDs
  BY <1>1, <1>4, RunsInRange, CommandPlaces DEF CheckCRDs
<1>5. CASE CheckControllerManager
  BY <1>1, <1>5, RunsInRange, CommandPlaces DEF CheckControllerManager
<1>6. ASSUME NEW c \in {"client", "server", "ipam", "proxy", "fabric"}, PassOver(c)
      PROVE  Quiet
  <2>1. Runs(<<"set", c>>) /\ c # "controller-manager"
    BY <1>6 DEF PassOver
  <2>2. job.stage # "UpgradingCRDs"
        /\ (job.stage \in {"UpgradingControllerManager", "RollingBack"} => job.at # 1)
    BY <1>1, <2>1, CommandPlaces
  <2>3. job.at # 1 => job.at > 1
    BY <1>1, AtTyped, Positive
  <2>4. faults' \in Nat
    BY <1>1, <1>6, FaultTyped DEF PassOver
  <2> QED
    BY <1>6, <2>1, <2>2, <2>3, <2>4, RunsInRange DEF PassOver
<1>7. ASSUME NEW c \in {"client", "server", "ipam", "proxy", "fabric"}, Check(c)
      PROVE  Quiet
  <2>1. Runs(<<"check", c>>)
    BY <1>7 DEF Check
  <2>2. job.stage = "UpgradingNetworkFabric"
    BY <1>1, <2>1, CommandPlaces
  <2>3. faults' \in Nat
    BY <1>1, <1>7, FaultTyped DEF Check
  <2> QED
    BY <1>7, <2>1, <2>2, <2>3, RunsInRange DEF Check
<1> QED
  BY <1>2, <1>3, <1>4, <1>5, <1>6, <1>7 DEF CheckTemplate, CheckComponent

LEMMA QuietCommandsKeep ==
  ASSUME StagesBuildUp,
         \/ LoopEnds \/ NamespacesNotListed \/ CheckCRDs \/ CheckControllerManager
         \/ \E t \in {"client", "server"} : PassOver(t) \/ CheckTemplate(t)
         \/ \E c \in {"ipam", "proxy", "fabric"} : PassOver(c) \/ CheckComponent(c)
  PROVE  StagesBuildUp'
BY QuietCommands, QuietCommand

----------------------------------------------------------------------------
(***************************************************************************)
(* The commands that write.                                                *)
(***************************************************************************)

LEMMA ApplyCRDKeeps ==
  ASSUME StagesBuildUp, NEW f \in CRDs, ApplyCRD(f)
  PROVE  StagesBuildUp'
<1>1. /\ job \in Jobs /\ faults \in Nat /\ crd \in [CRDs -> Tags]
      /\ Runs(<<"apply", "crds">>)
      /\ job.stage = "UpgradingCRDs" /\ job.at = 1 /\ job.state = "running"
      /\ UNCHANGED <<phase, lastSuccessfulPhase, rolledBack, image, wg, gateway, asked>>
  BY CommandPlaces, RunsInRange
  DEF StagesBuildUp, TypeOK, ApplyCRD, status, gateways
<1>2. CASE Did(f) /\ crd' = [crd EXCEPT ![f] = Target] /\ UNCHANGED faults
  <2>1. /\ job' \in Jobs /\ job'.done = job.done \cup {f} /\ job'.at = 1
        /\ job'.stage = "UpgradingCRDs" /\ job'.state = "running"
        /\ job'.failed = job.failed
    BY <1>1, <1>2, DidJob
  <2>2. crd' \in [CRDs -> Tags] /\ crd'[f] = Target
        /\ \A h \in CRDs : crd[h] = Target => crd'[h] = Target
    BY <1>1, <1>2, VersionsAssumption
  <2>3. CRDsSoFar'
    BY <1>1, <2>1, <2>2 DEF StagesBuildUp, CRDsSoFar
  <2>4. TypeOK'
    BY <1>1, <1>2, <2>1, <2>2 DEF StagesBuildUp, TypeOK
  <2> QED
    BY <1>1, <2>1, <2>2, <2>3, <2>4
    DEF StagesBuildUp, JobOfPhase, ImageApplied, NewCodeNeedsNewCRDs, AllCRDsNew
<1>3. CASE /\ Fault /\ UNCHANGED crd
           /\ job' = [job EXCEPT !.done = @ \cup {f}, !.failed = TRUE]
  <2>1. /\ job' \in Jobs /\ job'.at = 1 /\ job'.stage = "UpgradingCRDs"
        /\ job'.state = "running" /\ job'.failed
    <3>1. job.done \cup {f} \in SUBSET (CRDs \cup Gateways \cup (Halves \X Gateways))
      BY <1>1 DEF Jobs
    <3> QED
      BY <1>1, <1>3, <3>1 DEF Jobs
  <2>2. TypeOK'
    BY <1>1, <1>3, <2>1, FaultTyped DEF StagesBuildUp, TypeOK
  <2> QED
    BY <1>1, <1>3, <2>1, <2>2
    DEF StagesBuildUp, JobOfPhase, CRDsSoFar, ImageApplied, NewCodeNeedsNewCRDs,
        AllCRDsNew
<1> QED
  BY <1>2, <1>3 DEF ApplyCRD

LEMMA SetKeeps ==
  ASSUME StagesBuildUp, NEW c \in Present, Set(c)
  PROVE  StagesBuildUp'
<1>1. /\ job \in Jobs /\ image \in [Present -> Tags]
      /\ Runs(<<"set", c>>) /\ job.at <= Len(JobScript)
      /\ job.stage # "UpgradingCRDs"
      /\ UNCHANGED <<phase, lastSuccessfulPhase, rolledBack, crd, wg, gateway, asked, faults>>
      /\ image' = [image EXCEPT ![c] = Version(job.stage)]
  BY CommandPlaces, RunsInRange DEF StagesBuildUp, TypeOK, Set, status, gateways
<1>2. /\ job' \in Jobs /\ job'.at = job.at + 1 /\ job'.stage = job.stage
      /\ job'.state = job.state
  BY <1>1, GoOnJob DEF Set
<1>3. image' \in [Present -> Tags]
  BY <1>1, VersionsAssumption DEF Version
<1>4. TypeOK'
  BY <1>1, <1>2, <1>3 DEF StagesBuildUp, TypeOK
<1>5. JobOfPhase' /\ CRDsSoFar'
  BY <1>1, <1>2 DEF StagesBuildUp, JobOfPhase, CRDsSoFar, AllCRDsNew
<1>6. ImageApplied'
  <2> SUFFICES ASSUME job.stage \in {"UpgradingControllerManager", "RollingBack"}
               PROVE  image'["controller-manager"] = Version(job.stage)
    BY <1>2 DEF ImageApplied
  <2>1. CASE c = "controller-manager"
    BY <1>1, <2>1
  <2>2. CASE c # "controller-manager"
    <3>1. job.at > 1
      <4>1. job.at # 1
        BY <1>1, <2>2, CommandPlaces
      <4> QED
        BY <1>1, <4>1, AtTyped, Positive
    <3> QED
      BY <1>1, <2>2, <3>1 DEF StagesBuildUp, ImageApplied, Present
  <2> QED
    BY <2>1, <2>2
<1>7. NewCodeNeedsNewCRDs'
  <2>1. job.stage = "RollingBack" => Version(job.stage) = Previous
    BY DEF Version
  <2>2. job.stage # "RollingBack" => AllCRDsNew
    BY <1>1 DEF StagesBuildUp, CRDsSoFar, Jobs, Stages
  <2>3. CASE AllCRDsNew
    BY <1>1, <2>3 DEF NewCodeNeedsNewCRDs, AllCRDsNew
  <2>4. CASE ~AllCRDsNew
    BY <1>1, <2>1, <2>2, <2>4 DEF StagesBuildUp, NewCodeNeedsNewCRDs
  <2> QED
    BY <2>3, <2>4
<1> QED
  BY <1>4, <1>5, <1>6, <1>7 DEF StagesBuildUp

\* The loops over gateways, outside the CRD script, change no image; what a
\* rollback writes into them is the previous version.
LEMMA GatewayCommandsKeep ==
  ASSUME StagesBuildUp, NEW g \in Gateways,
         \/ AnnotateGateway(g) \/ DeleteGateway(g) \/ CheckGateway(g)
         \/ RestoreWgGateway(g) \/ RestoreGateway(g)
  PROVE  StagesBuildUp'
<1>1. /\ job \in Jobs /\ faults \in Nat
      /\ wg \in [Gateways -> MaybeTags] /\ gateway \in [Gateways -> MaybeTags]
      /\ asked \subseteq Gateways
  BY DEF StagesBuildUp, TypeOK
<1>2. job.stage # "UpgradingCRDs"
  BY <1>1, CommandPlaces
  DEF AnnotateGateway, DeleteGateway, CheckGateway, RestoreWgGateway, RestoreGateway
<1>3. \E item \in CRDs \cup Gateways \cup (Halves \X Gateways) : Did(item)
  <2>1. /\ <<"first", g>> \in Halves \X Gateways
        /\ <<"second", g>> \in Halves \X Gateways
    BY DEF Halves
  <2> QED
    BY <2>1
    DEF AnnotateGateway, DeleteGateway, CheckGateway, RestoreWgGateway, RestoreGateway
<1>4. /\ job' \in Jobs /\ job'.at = job.at /\ job'.stage = job.stage
      /\ job'.state = job.state
  BY <1>1, <1>3, DidJob
<1>5. UNCHANGED <<phase, lastSuccessfulPhase, rolledBack, crd, image>>
  BY DEF AnnotateGateway, DeleteGateway, CheckGateway, RestoreWgGateway,
         RestoreGateway, status, gateways
<1>6. /\ faults' \in Nat /\ asked' \subseteq Gateways
      /\ wg' \in [Gateways -> MaybeTags] /\ gateway' \in [Gateways -> MaybeTags]
      /\ \A h \in Gateways : /\ wg'[h] \in {wg[h], Missing, Previous}
                             /\ gateway'[h] \in {gateway[h], Missing, Previous}
  <2> USE <1>1, FaultTyped, VersionsAssumption DEF MaybeTags
  <2>1. CASE AnnotateGateway(g)
    BY <2>1 DEF AnnotateGateway
  <2>2. CASE DeleteGateway(g)
    BY <2>2 DEF DeleteGateway
  <2>3. CASE CheckGateway(g)
    BY <2>3 DEF CheckGateway, gateways
  <2>4. CASE RestoreWgGateway(g)
    BY <2>4 DEF RestoreWgGateway
  <2>5. CASE RestoreGateway(g)
    BY <2>5 DEF RestoreGateway
  <2> QED
    BY <2>1, <2>2, <2>3, <2>4, <2>5
<1>7. TypeOK'
  BY <1>4, <1>5, <1>6 DEF StagesBuildUp, TypeOK
<1>8. JobOfPhase' /\ CRDsSoFar' /\ ImageApplied'
  BY <1>2, <1>4, <1>5
  DEF StagesBuildUp, JobOfPhase, CRDsSoFar, ImageApplied, AllCRDsNew, Version
<1>9. NewCodeNeedsNewCRDs'
  <2>1. Target # Missing
    BY VersionsAssumption
  <2> QED
    BY <1>5, <1>6, <2>1 DEF StagesBuildUp, NewCodeNeedsNewCRDs, AllCRDsNew
<1> QED
  BY <1>7, <1>8, <1>9 DEF StagesBuildUp

----------------------------------------------------------------------------
(***************************************************************************)
(* The end of a Job, the operator and the reconciler.                      *)
(***************************************************************************)

LEMMA JobEndsKeep ==
  ASSUME StagesBuildUp, JobSucceeds \/ JobFails
  PROVE  StagesBuildUp'
<1>1. job \in Jobs /\ job.at \in 1..13
  BY AtTyped DEF StagesBuildUp, TypeOK
<1>2. UNCHANGED <<phase, lastSuccessfulPhase, rolledBack, crd, image, wg, gateway,
                  asked, faults>>
  BY DEF JobSucceeds, JobFails, status, gateways
<1>3. /\ job' \in Jobs /\ job'.at = job.at /\ job'.stage = job.stage
      /\ job'.done = job.done /\ job'.failed = job.failed
  BY <1>1 DEF JobSucceeds, JobFails, Jobs
<1>4. job.stage = "UpgradingCRDs" /\ job'.state = "succeeded" => job.at > 2
  <2> SUFFICES ASSUME job.stage = "UpgradingCRDs", job'.state = "succeeded"
               PROVE  job.at > 2
    OBVIOUS
  <2>1. JobSucceeds
    BY <1>1 DEF JobFails, Jobs
  <2> QED
    BY <1>1, <2>1, CommandPlaces DEF JobSucceeds
<1>5. TypeOK'
  BY <1>2, <1>3 DEF StagesBuildUp, TypeOK
<1>6. CRDsSoFar'
  BY <1>2, <1>3, <1>4 DEF StagesBuildUp, CRDsSoFar, AllCRDsNew
<1> QED
  BY <1>2, <1>3, <1>5, <1>6
  DEF StagesBuildUp, JobOfPhase, ImageApplied, NewCodeNeedsNewCRDs, AllCRDsNew, Version,
      JobSucceeds, JobFails

LEMMA OperatorKeeps ==
  ASSUME StagesBuildUp, NEW g \in Gateways, OperatorStep(g)
  PROVE  StagesBuildUp'
<1>1. /\ wg \in [Gateways -> MaybeTags] /\ gateway \in [Gateways -> MaybeTags]
      /\ image \in [Present -> Tags] /\ asked \subseteq Gateways
  BY DEF StagesBuildUp, TypeOK
<1>2. UNCHANGED <<phase, lastSuccessfulPhase, rolledBack, job, crd, image, faults>>
  BY DEF OperatorStep, Render, Deploy, status
<1>3. Kind[g] \in Present
  BY ClusterAssumption DEF Present
<1>4. /\ wg' \in [Gateways -> MaybeTags] /\ gateway' \in [Gateways -> MaybeTags]
      /\ asked' \subseteq Gateways
      /\ \A h \in Gateways : /\ wg'[h] \in {wg[h], image[Kind[g]]}
                             /\ gateway'[h] \in {gateway[h], wg[h]}
  <2>1. CASE Render(g)
    BY <1>1, <1>3, <2>1 DEF Render, MaybeTags
  <2>2. CASE Deploy(g)
    BY <1>1, <2>2 DEF Deploy
  <2> QED
    BY <2>1, <2>2 DEF OperatorStep
<1>5. TypeOK'
  BY <1>2, <1>4 DEF StagesBuildUp, TypeOK
<1>6. NewCodeNeedsNewCRDs'
  BY <1>2, <1>3, <1>4 DEF StagesBuildUp, NewCodeNeedsNewCRDs, AllCRDsNew
<1> QED
  BY <1>2, <1>5, <1>6
  DEF StagesBuildUp, JobOfPhase, CRDsSoFar, ImageApplied, AllCRDsNew

\* A new Job may be built for a stage once all CRDs are new, and for a
\* rollback at any time.
LEMMA NewJobKeeps ==
  ASSUME StagesBuildUp,
         NEW stage \in {"UpgradingControllerManager", "UpgradingNetworkFabric",
                        "RollingBack"},
         NEW last \in Stages \cup {""},
         stage = "RollingBack" \/ AllCRDsNew,
         job' = NewJob(stage, last), phase' \in {stage, "Failed"},
         lastSuccessfulPhase' \in Stages \cup {""},
         UNCHANGED <<rolledBack, crd, image, gateways, faults>>
  PROVE  StagesBuildUp'
<1>1. /\ stage \in Stages \cup {"RollingBack"}
      /\ stage # "UpgradingCRDs" /\ stage # "Verifying"
  BY DEF Stages
<1>2. job' \in Jobs /\ job'.stage = stage /\ job'.at = 1
  BY <1>1, NewJobTyped
<1>3. ~(job'.at > 1)
  <2>1. job'.at = 1 /\ job'.at \in 1..13
    BY <1>2, FirstCommand
  <2> QED
    BY <2>1, AtFirst
<1>4. UNCHANGED <<crd, image, wg, gateway, asked, faults, rolledBack>>
  BY DEF gateways
<1>5. TypeOK'
  BY <1>1, <1>2, <1>4 DEF StagesBuildUp, TypeOK
<1>6. JobOfPhase' /\ ImageApplied'
  BY <1>1, <1>2, <1>3 DEF JobOfPhase, ImageApplied, Stages
<1>7. CRDsSoFar' /\ NewCodeNeedsNewCRDs'
  BY <1>1, <1>2, <1>4 DEF StagesBuildUp, CRDsSoFar, NewCodeNeedsNewCRDs, AllCRDsNew
<1> QED
  BY <1>5, <1>6, <1>7 DEF StagesBuildUp

\* A phase without a Job of its own.
LEMMA SameJobKeeps ==
  ASSUME StagesBuildUp,
         phase' \in {"Verifying", "Completed", "Failed"},
         phase' = "Verifying" =>
           job.stage = "UpgradingNetworkFabric" /\ job.state = "succeeded",
         lastSuccessfulPhase' \in Stages \cup {""}, rolledBack' \in BOOLEAN,
         UNCHANGED <<job, crd, image, gateways, faults>>
  PROVE  StagesBuildUp'
<1>1. UNCHANGED <<job, crd, image, wg, gateway, asked, faults>>
  BY DEF gateways
<1>2. TypeOK'
  BY <1>1 DEF StagesBuildUp, TypeOK
<1>3. JobOfPhase'
  BY <1>1 DEF JobOfPhase, Stages
<1>4. CRDsSoFar' /\ ImageApplied' /\ NewCodeNeedsNewCRDs'
  BY <1>1
  DEF StagesBuildUp, CRDsSoFar, ImageApplied, NewCodeNeedsNewCRDs, AllCRDsNew
<1> QED
  BY <1>2, <1>3, <1>4 DEF StagesBuildUp

LEMMA StartRollbackKeeps ==
  ASSUME StagesBuildUp, startRollback
  PROVE  StagesBuildUp'
<1>1. lastSuccessfulPhase \in Stages \cup {""} /\ rolledBack \in BOOLEAN
  BY DEF StagesBuildUp, TypeOK
<1> QED
  BY <1>1, NewJobKeeps, SameJobKeeps DEF startRollback

LEMMA StageSucceededKeeps ==
  ASSUME StagesBuildUp, StageSucceeded
  PROVE  StagesBuildUp'
<1>1. /\ phase \in Stages /\ job.stage = phase /\ job.state = "succeeded"
      /\ lastSuccessfulPhase' = phase /\ rolledBack \in BOOLEAN
      /\ UNCHANGED <<rolledBack, crd, image, gateways, faults>>
  BY DEF StageSucceeded, StagesBuildUp, TypeOK, JobOfPhase
<1>2. phase \in Stages \cup {""} /\ rolledBack' \in BOOLEAN
  BY <1>1
<1>3. AllCRDsNew
  <2>1. CASE phase = "UpgradingCRDs"
    <3>1. job.at > 2 /\ ~job.failed
      BY <1>1, <2>1 DEF StagesBuildUp, CRDsSoFar
    <3>2. job.at > 1
      <4>1. job.at \in 1..13 /\ job.at > 2
        BY <3>1, AtTyped DEF StagesBuildUp, TypeOK
      <4> QED
        BY <4>1
    <3> QED
      BY <1>1, <2>1, <3>1, <3>2 DEF StagesBuildUp, CRDsSoFar
  <2>2. CASE phase # "UpgradingCRDs"
    BY <1>1, <2>2 DEF StagesBuildUp, CRDsSoFar, Stages
  <2> QED
    BY <2>1, <2>2
<1>4. CASE phase = "UpgradingNetworkFabric"
  <2>1. phase' = "Verifying" /\ UNCHANGED job
    BY <1>4 DEF StageSucceeded, Following, Stages
  <2> QED
    BY <1>1, <1>2, <1>4, <2>1, SameJobKeeps
<1>5. CASE phase # "UpgradingNetworkFabric"
  <2>1. Following[phase] \in {"UpgradingControllerManager", "UpgradingNetworkFabric"}
    BY <1>1, <1>5 DEF Following, Stages
  <2>2. CASE phase' = Following[phase]
    <3>0. phase' \in Stages /\ phase' # "Failed"
      BY <2>1, <2>2 DEF Stages
    <3>1. job' = NewJob(phase', phase)
      BY <3>0 DEF StageSucceeded
    <3> QED
      BY <1>1, <1>2, <1>3, <2>1, <2>2, <3>1, NewJobKeeps
  <2>3. CASE phase' = "Failed" /\ UNCHANGED job
    BY <1>1, <1>2, <2>3, SameJobKeeps
  <2>4. CASE phase' = "Failed" /\ job' = NewJob(Following[phase], phase)
    BY <1>1, <1>2, <1>3, <2>1, <2>4, NewJobKeeps
  <2> QED
    BY <2>2, <2>3, <2>4 DEF StageSucceeded
<1> QED
  BY <1>4, <1>5

LEMMA ReconcilerKeeps ==
  ASSUME StagesBuildUp, ReconcilerStep
  PROVE  StagesBuildUp'
<1>1. lastSuccessfulPhase \in Stages \cup {""} /\ rolledBack \in BOOLEAN
  BY DEF StagesBuildUp, TypeOK
<1>2. CASE performVerification
  BY <1>1, <1>2, StartRollbackKeeps, SameJobKeeps DEF performVerification
<1>3. CASE monitorRollback
  BY <1>1, <1>3, SameJobKeeps DEF monitorRollback
<1> QED
  BY <1>2, <1>3, StageSucceededKeeps, StartRollbackKeeps
  DEF ReconcilerStep, StageFailed

----------------------------------------------------------------------------

LEMMA ScriptStepKeeps ==
  ASSUME StagesBuildUp, ScriptStep
  PROVE  StagesBuildUp'
<1>1. CASE \E f \in CRDs : ApplyCRD(f)
  BY <1>1, ApplyCRDKeeps
<1>2. CASE SetControllerManager
  BY <1>2, SetKeeps DEF SetControllerManager, Present
<1>3. ASSUME NEW t \in {"client", "server"}, SetTemplate(t)
      PROVE  StagesBuildUp'
  BY <1>3, SetKeeps, QuietCommandsKeep DEF SetTemplate, Present
<1>4. ASSUME NEW c \in {"ipam", "proxy", "fabric"}, SetComponent(c)
      PROVE  StagesBuildUp'
  BY <1>4, SetKeeps, QuietCommandsKeep DEF SetComponent, Present
<1> QED
  BY <1>1, <1>2, <1>3, <1>4, QuietCommandsKeep, GatewayCommandsKeep, JobEndsKeep
  DEF ScriptStep

LEMMA StutterKeeps == ASSUME StagesBuildUp, UNCHANGED vars PROVE StagesBuildUp'
<1>1. UNCHANGED <<phase, lastSuccessfulPhase, rolledBack, job, crd, image, wg, gateway,
                  asked, faults>>
  BY DEF vars, status, gateways
<1>2. TypeOK'
  BY <1>1 DEF StagesBuildUp, TypeOK
<1>3. JobOfPhase' /\ CRDsSoFar'
  BY <1>1 DEF StagesBuildUp, JobOfPhase, CRDsSoFar, AllCRDsNew
<1>4. ImageApplied' /\ NewCodeNeedsNewCRDs'
  BY <1>1 DEF StagesBuildUp, ImageApplied, NewCodeNeedsNewCRDs, AllCRDsNew, Version
<1> QED
  BY <1>2, <1>3, <1>4 DEF StagesBuildUp

\* Every reachable state is well typed, each stage starts on what the stages
\* before it left complete, whatever commands fail, and however often.
THEOREM StagesOnlyBuildUp == Spec => []StagesBuildUp
<1>1. StagesBuildUp /\ [Next]_vars => StagesBuildUp'
  BY ScriptStepKeeps, ReconcilerKeeps, OperatorKeeps, StutterKeeps DEF Next
<1> QED
  BY InitEstablishes, <1>1, PTL DEF Spec

\* In no cluster and after no faults does a component or gateway run the
\* target version while a CRD is still old.
THEOREM CRDsComeFirst == Spec => []NewCodeNeedsNewCRDs
<1>1. StagesBuildUp => NewCodeNeedsNewCRDs
  BY DEF StagesBuildUp
<1> QED
  BY <1>1, StagesOnlyBuildUp, PTL

\* The variables keep their types, through every command of every script.
THEOREM JobsTyped == Spec => []TypeOK
<1>1. StagesBuildUp => TypeOK
  BY DEF StagesBuildUp
<1> QED
  BY <1>1, StagesOnlyBuildUp, PTL

----------------------------------------------------------------------------
(***************************************************************************)
(* The scripts implement what LiqoUpgradeController assumes of its Jobs.   *)
(***************************************************************************)

\* The contract's state of the Job.
ContractState ==
  IF /\ job.state = "running"
     /\ job.at > 1
     /\ job.stage \in {"UpgradingControllerManager", "RollingBack"}
  THEN "applied" ELSE job.state

LEMMA ContractInit == Init => Contract!Init
<1> SUFFICES ASSUME Init PROVE Contract!Init
  OBVIOUS
<1>1. job.stage = "UpgradingCRDs" /\ job.state = "running"
  BY DEF Init, NewJob
<1>2. image["controller-manager"] = Previous
  BY DEF Init, Present
<1> QED
  BY <1>1, <1>2, VersionsAssumption DEF Contract!Init, Version, Stages

\* A step that keeps stage and state, moves past no first command and leaves
\* the controller-manager's image is not seen.
LEMMA ContractStutter ==
  ASSUME UNCHANGED <<job.stage, job.state, image["controller-manager"]>>,
         job.stage \in {"UpgradingControllerManager", "RollingBack"} =>
           (job.at > 1) = (job'.at > 1)
  PROVE  UNCHANGED Contract!contract
<1>1. ContractState' = ContractState
  BY DEF ContractState
<1>2. Version(job.stage)' = Version(job.stage)
  BY DEF Version
<1> QED
  BY <1>1, <1>2 DEF Contract!contract, ContractState

LEMMA ContractSet ==
  ASSUME StagesBuildUp, NEW c \in Present, Set(c)
  PROVE  [Contract!Next]_(Contract!contract)
<1>1. /\ job \in Jobs /\ image \in [Present -> Tags]
      /\ Runs(<<"set", c>>) /\ job.at <= Len(JobScript) /\ job.state = "running"
      /\ image' = [image EXCEPT ![c] = Version(job.stage)]
      /\ "controller-manager" \in Present
  BY RunsInRange DEF StagesBuildUp, TypeOK, Set, Present
<1>2. job'.at = job.at + 1 /\ job'.stage = job.stage /\ job'.state = job.state
  BY <1>1, GoOnJob DEF Set
<1>3. CASE c = "controller-manager"
  <2>1. job.stage \in {"UpgradingControllerManager", "RollingBack"} /\ job.at = 1
    BY <1>1, <1>3, CommandPlaces
  <2>2. ~(job.at > 1) /\ job'.at > 1
    <3>1. job.at = 1 /\ job.at \in 1..13 /\ job'.at = job.at + 1
      BY <1>1, <1>2, <2>1, AtTyped
    <3> QED
      BY <3>1
  <2>3. image'["controller-manager"] = Version(job.stage)
    BY <1>1, <1>3
  <2>4. Version(job.stage)' = Version(job.stage)
    BY <1>2 DEF Version
  <2> QED
    BY <1>1, <1>2, <2>1, <2>2, <2>3, <2>4
    DEF Contract!Next, Contract!Apply, Contract!SetsImage
<1>4. CASE c # "controller-manager"
  <2>1. job.stage \in {"UpgradingControllerManager", "RollingBack"} =>
          job.at > 1 /\ job'.at > 1
    <3> SUFFICES ASSUME job.stage \in {"UpgradingControllerManager", "RollingBack"}
                 PROVE  job.at > 1 /\ job'.at > 1
      OBVIOUS
    <3>1. job.at # 1
      BY <1>1, <1>4, CommandPlaces
    <3>2. job.at > 1 /\ job.at \in 1..13 /\ job'.at = job.at + 1
      BY <1>1, <1>2, <3>1, AtTyped, Positive
    <3> QED
      BY <3>2
  <2>2. image'["controller-manager"] = image["controller-manager"]
    BY <1>1, <1>4
  <2> QED
    BY <1>2, <2>1, <2>2, ContractStutter
<1> QED
  BY <1>3, <1>4

\* Going on past any other command of these scripts happens after the first.
LEMMA ContractGoOn ==
  ASSUME StagesBuildUp, job.at <= Len(JobScript), GoOn, UNCHANGED image,
         job.stage \in {"UpgradingControllerManager", "RollingBack"} => job.at > 1
  PROVE  UNCHANGED Contract!contract
<1>1. job \in Jobs
  BY DEF StagesBuildUp, TypeOK
<1>2. job'.at = job.at + 1 /\ job'.stage = job.stage /\ job'.state = job.state
  BY <1>1, GoOnJob
<1>3. job.at > 1 => job'.at > 1
  <2>1. job.at \in 1..13 /\ job'.at = job.at + 1
    BY <1>1, <1>2, AtTyped
  <2> QED
    BY <2>1
<1> QED
  BY <1>2, <1>3, ContractStutter

LEMMA ContractDid ==
  ASSUME StagesBuildUp,
         NEW item \in CRDs \cup Gateways \cup (Halves \X Gateways),
         Did(item), UNCHANGED image
  PROVE  UNCHANGED Contract!contract
BY DidJob, ContractStutter DEF StagesBuildUp, TypeOK

LEMMA ContractScriptStep ==
  ASSUME StagesBuildUp, ScriptStep
  PROVE  [Contract!Next]_(Contract!contract)
<1>1. job \in Jobs /\ job.at \in 1..13
  BY AtTyped DEF StagesBuildUp, TypeOK
<1>2. CASE \E f \in CRDs : ApplyCRD(f)
  <2>1. PICK f \in CRDs : ApplyCRD(f)
    BY <1>2
  <2>2. UNCHANGED image /\ job.stage = "UpgradingCRDs"
    BY <1>1, <2>1, CommandPlaces DEF ApplyCRD
  <2>3. job'.stage = job.stage /\ job'.state = job.state
    BY <1>1, <2>1 DEF ApplyCRD, Did, Jobs
  <2> QED
    BY <2>2, <2>3, ContractStutter
<1>3. CASE SetControllerManager
  BY <1>3, ContractSet DEF SetControllerManager, Present
<1>4. CASE \/ LoopEnds \/ NamespacesNotListed \/ CheckCRDs \/ CheckControllerManager
           \/ \E t \in {"client", "server"} : PassOver(t) \/ CheckTemplate(t)
           \/ \E c \in {"ipam", "proxy", "fabric"} : PassOver(c) \/ CheckComponent(c)
  BY <1>4, QuietCommands, ContractGoOn
<1>5. ASSUME NEW t \in {"client", "server"}, SetTemplate(t)
      PROVE  [Contract!Next]_(Contract!contract)
  BY <1>4, <1>5, ContractSet DEF SetTemplate, Present
<1>6. ASSUME NEW c \in {"ipam", "proxy", "fabric"}, SetComponent(c)
      PROVE  [Contract!Next]_(Contract!contract)
  BY <1>4, <1>6, ContractSet DEF SetComponent, Present
<1>7. ASSUME NEW g \in Gateways,
             \/ AnnotateGateway(g) \/ DeleteGateway(g) \/ CheckGateway(g)
             \/ RestoreWgGateway(g) \/ RestoreGateway(g)
      PROVE  UNCHANGED Contract!contract
  <2>1. /\ <<"first", g>> \in Halves \X Gateways
        /\ <<"second", g>> \in Halves \X Gateways
    BY DEF Halves
  <2>2. \E item \in CRDs \cup Gateways \cup (Halves \X Gateways) : Did(item)
    BY <1>7, <2>1
    DEF AnnotateGateway, DeleteGateway, CheckGateway, RestoreWgGateway, RestoreGateway
  <2>3. UNCHANGED image
    BY <1>7
    DEF AnnotateGateway, DeleteGateway, CheckGateway, RestoreWgGateway, RestoreGateway
  <2> QED
    BY <2>2, <2>3, ContractDid
<1>8. CASE JobSucceeds
  <2>1. /\ job.state = "running" /\ job'.state = "succeeded" /\ job'.stage = job.stage
        /\ job.at > Len(JobScript) /\ UNCHANGED image
    BY <1>1, <1>8 DEF JobSucceeds, Jobs
  <2>2. job.at > 1
    <3>1. job.at > Len(JobScript) /\ Len(JobScript) \in 2..12
      BY <1>1, <2>1, CommandPlaces
    <3> DEFINE n == Len(JobScript)
    <3> HIDE DEF n
    <3>2. n \in 2..12 /\ job.at > n
      BY <3>1 DEF n
    <3> QED
      BY <1>1, <3>2
  <2>3. job.stage \in {"UpgradingControllerManager", "RollingBack"} =>
          image["controller-manager"] = Version(job.stage)
    BY <2>2 DEF StagesBuildUp, ImageApplied
  <2>4. Version(job.stage)' = Version(job.stage)
    BY <2>1 DEF Version
  <2> QED
    BY <2>1, <2>2, <2>3, <2>4 DEF Contract!Next, Contract!Succeed, Contract!SetsImage
<1>9. CASE JobFails
  <2>1. /\ job.state = "running" /\ job'.state = "failed" /\ job'.stage = job.stage
        /\ UNCHANGED image
    BY <1>1, <1>9 DEF JobFails, Jobs
  <2>2. Version(job.stage)' = Version(job.stage)
    BY <2>1 DEF Version
  <2> QED
    BY <2>1, <2>2 DEF Contract!Next, Contract!Fail
<1> QED
  BY <1>2, <1>3, <1>4, <1>5, <1>6, <1>7, <1>8, <1>9 DEF ScriptStep

LEMMA ContractNewJob ==
  ASSUME NEW stage \in Stages \cup {"RollingBack"}, NEW last,
         job.state \in {"succeeded", "failed"}, stage # job.stage,
         job' = NewJob(stage, last), UNCHANGED image
  PROVE  [Contract!Next]_(Contract!contract)
<1>1. job'.stage = stage /\ job'.state = "running" /\ job'.at = 1
  BY DEF NewJob
<1>2. ~(job'.at > 1)
  <2>1. job'.at = 1 /\ job'.at \in 1..13
    BY <1>1, FirstCommand
  <2> QED
    BY <2>1, AtFirst
<1>3. Version(job.stage)' \in Tags
  BY VersionsAssumption DEF Version
<1> QED
  BY <1>1, <1>2, <1>3 DEF Contract!Next, Contract!Start

LEMMA ContractReconcilerStep ==
  ASSUME StagesBuildUp, ReconcilerStep
  PROVE  [Contract!Next]_(Contract!contract)
<1>1. UNCHANGED image
  BY DEF ReconcilerStep, StageSucceeded, StageFailed, performVerification,
         monitorRollback, startRollback
<1>2. CASE UNCHANGED job
  BY <1>1, <1>2, ContractStutter
<1>3. CASE StageSucceeded /\ job' # job
  <2>1. phase \in Stages /\ job.stage = phase /\ job.state = "succeeded"
    BY <1>3 DEF StageSucceeded, StagesBuildUp, JobOfPhase
  <2>2. Following[phase] \in Stages /\ job' = NewJob(Following[phase], phase)
    BY <1>3, <2>1 DEF StageSucceeded
  <2>3. Following[phase] # phase
    BY <2>1 DEF Following, Stages
  <2> QED
    BY <1>1, <2>1, <2>2, <2>3, ContractNewJob
<1>4. CASE startRollback /\ (StageFailed \/ performVerification) /\ job' # job
  <2>1. job' = NewJob("RollingBack", lastSuccessfulPhase)
    BY <1>4 DEF startRollback
  <2>2. job.state \in {"succeeded", "failed"} /\ job.stage \in Stages
    BY <1>4 DEF StageFailed, performVerification, StagesBuildUp, JobOfPhase, Stages
  <2> QED
    BY <1>1, <2>1, <2>2, ContractNewJob DEF Stages
<1> QED
  BY <1>2, <1>3, <1>4
  DEF ReconcilerStep, StageFailed, performVerification, monitorRollback

LEMMA ContractOperatorStep ==
  ASSUME NEW g \in Gateways, OperatorStep(g)
  PROVE  UNCHANGED Contract!contract
BY ContractStutter DEF OperatorStep, Render, Deploy

\* What the reconciler's model assumes of the Jobs, that only two of them
\* change the controller-manager, each to the version it was given, and succeed
\* only with that version in place, is what the scripts do, command by command.
THEOREM ScriptsKeepContract == Spec => KeepsContract
<1>1. StagesBuildUp /\ [Next]_vars => [Contract!Next]_(Contract!contract)
  <2> SUFFICES ASSUME StagesBuildUp, [Next]_vars
               PROVE  [Contract!Next]_(Contract!contract)
    OBVIOUS
  <2>1. CASE UNCHANGED vars
    BY <2>1, ContractStutter DEF vars
  <2> QED
    BY <2>1, ContractScriptStep, ContractReconcilerStep, ContractOperatorStep DEF Next
<1> QED
  BY ContractInit, <1>1, StagesOnlyBuildUp, PTL DEF Spec, KeepsContract, Contract!Spec

----------------------------------------------------------------------------
(***************************************************************************)
(* What the scripts leave behind, counted by the faults.                   *)
(***************************************************************************)

\* What a command does that is over; it may leave its object as it is only
\* for a fault.
PassesBy(command) ==
  /\ Runs(command) /\ GoOn
  /\ UNCHANGED <<status, wg, asked>>
  /\ faults' \in Nat /\ faults' >= faults
  /\ \/ image' = image
     \/ \E c \in Present : /\ command = <<"set", c>>
                           /\ image' = [image EXCEPT ![c] = Version(job.stage)]
  /\ \A c \in FabricParts :
       \/ command = <<"set", c>>
       \/ command = <<"check", c>> /\ job.stage = "UpgradingNetworkFabric"
            /\ ChecksTellVersions
       => image'[c] = Version(job.stage) \/ faults' = faults + 1

\* What a command does within a loop, or the end of the Job.
Stays ==
  /\ job.state = "running"
  /\ job'.stage = job.stage /\ job'.last = job.last /\ job'.at = job.at
  /\ job'.state = "succeeded" => job.at > Len(JobScript)
  /\ UNCHANGED <<status, image>>
  /\ faults' \in Nat /\ faults' >= faults
  /\ \/ Runs(<<"recreate", "gateways">>)
     \/ /\ asked' = asked
        /\ \A g \in Gateways : wg'[g] = Missing => wg[g] = Missing

LEMMA FaultSteps ==
  ASSUME faults \in Nat
  PROVE  /\ Fault => faults' \in Nat /\ faults' >= faults /\ faults' = faults + 1
         /\ UNCHANGED faults => faults' \in Nat /\ faults' >= faults
BY DEF Fault

LEMMA PartsPresent ==
  /\ FabricParts \subseteq {"client", "server", "ipam", "proxy", "fabric"}
  /\ FabricParts \subseteq Present
  /\ "controller-manager" \in Present \ FabricParts
  /\ \A t \in {"client", "server"} : t \in Present => t \in Templates
  /\ \A c \in {"ipam", "proxy", "fabric"} : c \in Present => c \in Installed
BY ClusterAssumption DEF FabricParts, Present

LEMMA SetPassesBy ==
  ASSUME StagesBuildUp, NEW c \in Present, Set(c)
  PROVE  PassesBy(<<"set", c>>)
<1>1. faults \in Nat /\ image \in [Present -> Tags]
  BY DEF StagesBuildUp, TypeOK
<1>2. image' = [image EXCEPT ![c] = Version(job.stage)]
  BY DEF Set
<1>3. \A d \in FabricParts :
        <<"set", c>> \in {<<"set", d>>, <<"check", d>>} => image'[d] = Version(job.stage)
  BY <1>1, <1>2
<1> QED
  BY <1>1, <1>2, <1>3, FaultSteps DEF Set, PassesBy, gateways

LEMMA PassOverPassesBy ==
  ASSUME StagesBuildUp, NEW c \in {"client", "server", "ipam", "proxy", "fabric"},
         PassOver(c)
  PROVE  PassesBy(<<"set", c>>)
<1>1. faults \in Nat
  BY DEF StagesBuildUp, TypeOK
<1>2. c \in Present => faults' = faults + 1
  BY <1>1, FaultSteps DEF PassOver
<1>3. \A d \in FabricParts :
        <<"set", c>> \in {<<"set", d>>, <<"check", d>>} => faults' = faults + 1
  BY <1>2, PartsPresent
<1> QED
  BY <1>1, <1>3, FaultSteps DEF PassOver, PassesBy, gateways

LEMMA CheckPassesBy ==
  ASSUME StagesBuildUp, ImagesKnown,
         NEW c \in {"client", "server", "ipam", "proxy", "fabric"}, Check(c)
  PROVE  PassesBy(<<"check", c>>)
<1>1. faults \in Nat
  BY DEF StagesBuildUp, TypeOK
<1>2. ASSUME ChecksTellVersions, job.stage = "UpgradingNetworkFabric", c \in FabricParts
      PROVE  image'[c] = Version(job.stage) \/ faults' = faults + 1
  <2>1. c \in Present /\ image[c] \in {Previous, Target} /\ image' = image
    BY <1>2, PartsPresent DEF ImagesKnown, Check
  <2>2. Version(job.stage) = Target
    BY <1>2 DEF Version
  <2>3. CASE <<image[c], Target>> \in Contains
    BY <1>2, <2>1, <2>2, <2>3 DEF ChecksTellVersions
  <2> QED
    BY <1>1, <2>1, <2>3, FaultSteps DEF Check
<1>3. \A d \in FabricParts : <<"check", c>> = <<"check", d>> => d = c
  OBVIOUS
<1>4. \A d : <<"check", c>> # <<"set", d>>
  OBVIOUS
<1> QED
  BY <1>1, <1>2, <1>3, <1>4, FaultSteps DEF Check, PassesBy, gateways

LEMMA OtherPassesBy ==
  ASSUME StagesBuildUp, LoopEnds \/ NamespacesNotListed \/ CheckCRDs \/ CheckControllerManager
  PROVE  \E command : PassesBy(command)
<1>1. faults \in Nat
  BY DEF StagesBuildUp, TypeOK
<1> DEFINE Plain == Loops \cup {<<"check", "crds">>, <<"check", "controller-manager">>}
<1>2. PICK command \in Plain : Runs(command)
  BY DEF LoopEnds, NamespacesNotListed, CheckCRDs, CheckControllerManager
<1>3. \A c \in FabricParts : command # <<"set", c>> /\ command # <<"check", c>>
  BY PartsPresent DEF Loops
<1> QED
  BY <1>1, <1>2, <1>3, FaultSteps
  DEF LoopEnds, NamespacesNotListed, CheckCRDs, CheckControllerManager, PassesBy, gateways

LEMMA GatewayCommandsStay ==
  ASSUME StagesBuildUp, NEW g \in Gateways,
         \/ AnnotateGateway(g) \/ DeleteGateway(g) \/ CheckGateway(g)
         \/ RestoreWgGateway(g) \/ RestoreGateway(g)
  PROVE  Stays
<1>1. job \in Jobs /\ faults \in Nat /\ wg \in [Gateways -> MaybeTags]
  BY DEF StagesBuildUp, TypeOK
<1>2. \E item \in CRDs \cup Gateways \cup (Halves \X Gateways) : Did(item)
  <2>1. /\ <<"first", g>> \in Halves \X Gateways
        /\ <<"second", g>> \in Halves \X Gateways
    BY DEF Halves
  <2> QED
    BY <2>1
    DEF AnnotateGateway, DeleteGateway, CheckGateway, RestoreWgGateway, RestoreGateway
<1>3. /\ job'.stage = job.stage /\ job'.last = job.last /\ job'.at = job.at
      /\ job'.state = "running" /\ job.state = "running"
  BY <1>1, <1>2, DidJob
  DEF AnnotateGateway, DeleteGateway, CheckGateway, RestoreWgGateway, RestoreGateway, Runs
<1>4. UNCHANGED <<status, image>>
  BY DEF AnnotateGateway, DeleteGateway, CheckGateway, RestoreWgGateway, RestoreGateway
<1>5. faults' \in Nat /\ faults' >= faults
  BY <1>1, FaultSteps
  DEF AnnotateGateway, DeleteGateway, CheckGateway, RestoreWgGateway, RestoreGateway
<1>6. \/ Runs(<<"recreate", "gateways">>)
      \/ /\ asked' = asked
         /\ \A h \in Gateways : wg'[h] = Missing => wg[h] = Missing
  <2>1. Previous # Missing
    BY VersionsAssumption
  <2>2. CASE RestoreWgGateway(g)
    BY <1>1, <2>1, <2>2 DEF RestoreWgGateway
  <2> QED
    BY <2>2 DEF AnnotateGateway, DeleteGateway, CheckGateway, RestoreGateway, gateways
<1> QED
  BY <1>3, <1>4, <1>5, <1>6 DEF Stays

\* Every command of a script is one of the two.
LEMMA ScriptMoves ==
  ASSUME StagesBuildUp, ImagesKnown, ScriptStep
  PROVE  Stays \/ \E command : PassesBy(command)
<1>1. job \in Jobs /\ faults \in Nat
  BY DEF StagesBuildUp, TypeOK
<1>2. ASSUME NEW f \in CRDs, ApplyCRD(f) PROVE Stays
  <2>1. /\ job'.stage = job.stage /\ job'.last = job.last /\ job'.at = job.at
        /\ job'.state = "running" /\ job.state = "running"
    BY <1>1, <1>2 DEF ApplyCRD, Did, Jobs, Runs
  <2> QED
    BY <1>1, <1>2, <2>1, FaultSteps DEF ApplyCRD, Stays, gateways
<1>3. CASE JobSucceeds \/ JobFails
  <2>1. /\ job'.stage = job.stage /\ job'.last = job.last /\ job'.at = job.at
        /\ job.state = "running"
        /\ job'.state = "succeeded" => job.at > Len(JobScript)
    BY <1>1, <1>3 DEF JobSucceeds, JobFails, Jobs
  <2> QED
    BY <1>1, <1>3, <2>1, FaultSteps DEF JobSucceeds, JobFails, Stays, gateways
<1>4. CASE SetControllerManager
  BY <1>4, SetPassesBy, PartsPresent DEF SetControllerManager
<1>5. ASSUME NEW t \in {"client", "server"}, SetTemplate(t) \/ CheckTemplate(t)
      PROVE  \E command : PassesBy(command)
  BY <1>5, SetPassesBy, PassOverPassesBy, CheckPassesBy
  DEF SetTemplate, CheckTemplate, Present
<1>6. ASSUME NEW c \in {"ipam", "proxy", "fabric"}, SetComponent(c) \/ CheckComponent(c)
      PROVE  \E command : PassesBy(command)
  BY <1>6, SetPassesBy, PassOverPassesBy, CheckPassesBy
  DEF SetComponent, CheckComponent, Present
<1> QED
  BY <1>2, <1>3, <1>4, <1>5, <1>6, GatewayCommandsStay, OtherPassesBy DEF ScriptStep

\* The commands behind a Job after a step.
LEMMA PastPassesBy ==
  ASSUME job \in Jobs, NEW command, Runs(command), GoOn
  PROVE  \A x : Past(x)' <=> Past(x) \/ x = command
<1>1. /\ job'.at = job.at + 1 /\ job'.stage = job.stage /\ job'.last = job.last
      /\ job.at \in 1..13 /\ job.at <= Len(JobScript) /\ JobScript[job.at] = command
  BY GoOnJob, AtTyped DEF Runs
<1>2. JobScript' = JobScript
  BY <1>1 DEF JobScript
<1>3. Len(JobScript) \in Nat
  BY CommandPlaces
<1> DEFINE n == Len(JobScript)
           at == job.at
           s == JobScript
<1>4. at \in 1..13 /\ at <= n /\ n \in Nat /\ s[at] = command
  BY <1>1, <1>3
<1> HIDE DEF n, at, s
<1>5. \A x : (\E i \in 1..n : i < at + 1 /\ s[i] = x)
               <=> (\E i \in 1..n : i < at /\ s[i] = x) \/ x = command
  BY <1>4
<1> QED
  BY <1>1, <1>2, <1>5 DEF Past, n, at, s

LEMMA PastStays ==
  ASSUME job'.stage = job.stage, job'.last = job.last, job'.at = job.at
  PROVE  /\ \A x : Past(x)' <=> Past(x)
         /\ JobScript' = JobScript
<1>1. JobScript' = JobScript
  BY DEF JobScript
<1> QED
  BY <1>1 DEF Past

LEMMA PastTemplates ==
  ASSUME job \in Jobs, Runs(<<"recreate", "gateways">>), NEW t \in {"client", "server"}
  PROVE  /\ job.stage = "UpgradingNetworkFabric"
         /\ Past(<<"set", t>>) /\ Past(<<"check", t>>)
<1>1. job.stage = "UpgradingNetworkFabric"
  BY CommandPlaces
<1>2. JobScript = NetworkFabricScript
  BY <1>1 DEF JobScript, Script, Stages
<1>3. job.at \in 1..12 /\ NetworkFabricScript[job.at] = <<"recreate", "gateways">>
  BY <1>2, NetworkFabricCommands, AtTyped DEF Runs
<1>4. job.at > 4
  BY <1>3, NetworkFabricCommands
<1> QED
  BY <1>1, <1>2, <1>3, <1>4, NetworkFabricCommands DEF Past

LEMMA PastAtEnd ==
  ASSUME job \in Jobs, job.at > Len(JobScript), NEW c \in FabricParts
  PROVE  /\ job.stage = "UpgradingNetworkFabric" =>
              Past(<<"set", c>>) /\ Past(<<"check", c>>)
         /\ job.stage = "RollingBack" /\ job.last = "UpgradingNetworkFabric"
              /\ c \in {"ipam", "proxy", "fabric"} => Past(<<"set", c>>)
         /\ job.at > 1
<1>1. job.at \in 1..13 /\ Len(JobScript) \in 2..12
  BY AtTyped, CommandPlaces
<1>2. \A i \in 1..Len(JobScript) : i < job.at
  <2> DEFINE n == Len(JobScript)
  <2>1. n \in 2..12 /\ job.at > n
    BY <1>1
  <2> HIDE DEF n
  <2>2. \A i \in 1..n : i < job.at
    BY <1>1, <2>1
  <2> QED
    BY <2>2 DEF n
<1>3. job.at > 1
  <2> DEFINE n == Len(JobScript)
             at == job.at
  <2>1. n \in 2..12 /\ at > n /\ at \in 1..13
    BY <1>1
  <2> HIDE DEF n, at
  <2>2. at > 1
    BY <2>1
  <2> QED
    BY <2>2 DEF at
<1>4. \A i \in 1..Len(JobScript) : Past(JobScript[i])
  BY <1>2 DEF Past
<1>5. CASE job.stage = "UpgradingNetworkFabric"
  <2>1. JobScript = NetworkFabricScript
    BY <1>5 DEF JobScript, Script, Stages
  <2>2. \A i \in 1..12 : Past(NetworkFabricScript[i])
    BY <1>4, <2>1, NetworkFabricCommands
  <2>3. /\ \A i \in {1, 2, 5, 6, 7} : Past(NetworkFabricScript[i])
        /\ \A i \in {3, 4, 9, 10, 11} : Past(NetworkFabricScript[i])
    BY <2>2
  <2>4. /\ Past(<<"set", "client">>) /\ Past(<<"check", "client">>)
        /\ Past(<<"set", "server">>) /\ Past(<<"check", "server">>)
    BY <2>3, NetworkFabricCommands
  <2>5. /\ Past(<<"set", "ipam">>) /\ Past(<<"check", "ipam">>)
        /\ Past(<<"set", "proxy">>) /\ Past(<<"check", "proxy">>)
        /\ Past(<<"set", "fabric">>) /\ Past(<<"check", "fabric">>)
    BY <2>3, NetworkFabricCommands
  <2>6. c \in {"client", "server", "ipam", "proxy", "fabric"}
    BY PartsPresent
  <2>7. Past(<<"set", c>>) /\ Past(<<"check", c>>)
    BY <2>4, <2>5, <2>6
  <2> QED
    BY <1>3, <1>5, <2>7
<1>6. CASE job.stage = "RollingBack" /\ job.last = "UpgradingNetworkFabric"
  <2>1. JobScript = RollbackScript("UpgradingNetworkFabric")
    BY <1>6 DEF JobScript, Script
  <2>2. /\ Len(JobScript) = 6
        /\ JobScript[4] = <<"set", "ipam">> /\ JobScript[5] = <<"set", "proxy">>
        /\ JobScript[6] = <<"set", "fabric">>
    BY <2>1 DEF RollbackScript
  <2> QED
    BY <1>3, <1>4, <1>6, <2>2
<1> QED
  BY <1>3, <1>5, <1>6

LEMMA LeftFinite ==
  ASSUME NEW verb
  PROVE  /\ IsFiniteSet(LeftBy(verb)) /\ Cardinality(LeftBy(verb)) \in Nat
         /\ IsFiniteSet(LeftBy(verb)') /\ Cardinality(LeftBy(verb)') \in Nat
<1> DEFINE parts == {"client", "server", "ipam", "proxy", "fabric"}
<1>1. IsFiniteSet(parts)
  <2>1. IsFiniteSet({} \cup {"client"} \cup {"server"} \cup {"ipam"} \cup {"proxy"}
                       \cup {"fabric"})
    BY FS_EmptySet, FS_AddElement
  <2>2. parts = {} \cup {"client"} \cup {"server"} \cup {"ipam"} \cup {"proxy"}
                  \cup {"fabric"}
    OBVIOUS
  <2> QED
    BY <2>1, <2>2
<1>2. LeftBy(verb) \subseteq parts /\ LeftBy(verb)' \subseteq parts
  BY PartsPresent DEF LeftBy, FabricParts
<1> HIDE DEF parts
<1>3. \A S \in SUBSET parts : IsFiniteSet(S) /\ Cardinality(S) \in Nat
  BY <1>1, FS_Subset, FS_CardinalityType
<1> QED
  BY <1>2, <1>3

\* A set of the parts grows by at most what a fault pays for.
LEMMA LeftGrows ==
  ASSUME NEW verb, NEW c, faults \in Nat, faults' \in Nat, faults' >= faults,
         \/ LeftBy(verb)' \subseteq LeftBy(verb)
         \/ LeftBy(verb)' \subseteq LeftBy(verb) \cup {c} /\ faults' = faults + 1
  PROVE  Cardinality(LeftBy(verb)') + faults <= Cardinality(LeftBy(verb)) + faults'
<1>1. /\ IsFiniteSet(LeftBy(verb)) /\ Cardinality(LeftBy(verb)) \in Nat
      /\ Cardinality(LeftBy(verb)') \in Nat
  BY LeftFinite
<1>2. CASE LeftBy(verb)' \subseteq LeftBy(verb)
  <2>1. Cardinality(LeftBy(verb)') <= Cardinality(LeftBy(verb))
    BY <1>1, <1>2, FS_Subset
  <2> QED
    BY <1>1, <2>1
<1>3. CASE LeftBy(verb)' \subseteq LeftBy(verb) \cup {c} /\ faults' = faults + 1
  <2>1. /\ IsFiniteSet(LeftBy(verb) \cup {c})
        /\ Cardinality(LeftBy(verb) \cup {c}) <= Cardinality(LeftBy(verb)) + 1
        /\ Cardinality(LeftBy(verb) \cup {c}) \in Nat
    BY <1>1, FS_AddElement
  <2>2. Cardinality(LeftBy(verb)') <= Cardinality(LeftBy(verb) \cup {c})
    BY <1>3, <2>1, FS_Subset
  <2> QED
    BY <1>1, <1>3, <2>1, <2>2
<1> QED
  BY <1>2, <1>3

\* What a command leaves, if it may leave anything.
LEMMA LeftPassesBy ==
  ASSUME job \in Jobs, image \in [Present -> Tags], NEW command, PassesBy(command),
         NEW verb
  PROVE  \/ LeftBy(verb)' \subseteq LeftBy(verb)
         \/ \E c \in FabricParts :
              /\ command = <<verb, c>> /\ image'[c] # Version(job.stage)
              /\ LeftBy(verb)' \subseteq LeftBy(verb) \cup {c}
<1>1. \A x : Past(x)' <=> Past(x) \/ x = command
  BY PastPassesBy DEF PassesBy
<1>2. job'.stage = job.stage
  BY GoOnJob DEF PassesBy, Runs
<1>3. Version(job.stage)' = Version(job.stage)
  BY <1>2 DEF Version
<1>4. \A c \in FabricParts : image'[c] # Version(job.stage) => image[c] # Version(job.stage)
  BY PartsPresent DEF PassesBy
<1>5. \A c \in LeftBy(verb)' :
        /\ c \in FabricParts /\ image'[c] # Version(job.stage)
        /\ c \in LeftBy(verb) \/ command = <<verb, c>>
  <2> SUFFICES ASSUME NEW c \in FabricParts, Past(<<verb, c>>)',
                      image'[c] # Version(job.stage)'
               PROVE  /\ image'[c] # Version(job.stage)
                      /\ c \in LeftBy(verb) \/ command = <<verb, c>>
    BY DEF LeftBy, FabricParts
  <2> QED
    BY <1>1, <1>3, <1>4 DEF LeftBy
<1>6. \A c, d : <<verb, c>> = <<verb, d>> => c = d
  OBVIOUS
<1> QED
  BY <1>5, <1>6

LEMMA FaultsCountedPassesBy ==
  ASSUME StagesBuildUp, FaultsCounted, NEW command, PassesBy(command)
  PROVE  FaultsCounted'
<1>1. /\ job \in Jobs /\ image \in [Present -> Tags]
      /\ faults \in Nat /\ faults' \in Nat /\ faults' >= faults
  BY DEF StagesBuildUp, TypeOK, PassesBy
<1>2. job'.stage = job.stage
  BY <1>1, GoOnJob DEF PassesBy, Runs
<1>3. Cardinality(LeftBy("set")') + faults <= Cardinality(LeftBy("set")) + faults'
  <2>1. \A c \in FabricParts : command = <<"set", c>> /\ image'[c] # Version(job.stage) =>
          faults' = faults + 1
    BY DEF PassesBy
  <2>2. \E c : \/ LeftBy("set")' \subseteq LeftBy("set")
               \/ LeftBy("set")' \subseteq LeftBy("set") \cup {c} /\ faults' = faults + 1
    BY <1>1, <2>1, LeftPassesBy
  <2> QED
    BY <1>1, <2>2, LeftGrows
<1>4. ASSUME ChecksTellVersions, job.stage = "UpgradingNetworkFabric"
      PROVE  Cardinality(LeftBy("check")') + faults <= Cardinality(LeftBy("check")) + faults'
  <2>1. \A c \in FabricParts : command = <<"check", c>> /\ image'[c] # Version(job.stage) =>
          faults' = faults + 1
    BY <1>4 DEF PassesBy
  <2>2. \E c : \/ LeftBy("check")' \subseteq LeftBy("check")
               \/ LeftBy("check")' \subseteq LeftBy("check") \cup {c} /\ faults' = faults + 1
    BY <1>1, <2>1, LeftPassesBy
  <2> QED
    BY <1>1, <2>2, LeftGrows
<1>5. ASSUME ChecksTellVersions, job.stage = "UpgradingNetworkFabric"
      PROVE  Cardinality(LeftBy("set")') + Cardinality(LeftBy("check")') <= faults'
  \* A command that leaves one to "set" leaves nothing more to "check".
  <2>1. \/ LeftBy("set")' \subseteq LeftBy("set")
        \/ LeftBy("check")' \subseteq LeftBy("check")
    <3>1. \A c, d : <<"set", c>> # <<"check", d>>
      OBVIOUS
    <3> QED
      BY <1>1, <3>1, LeftPassesBy
  <2>2. \/ Cardinality(LeftBy("set")') <= Cardinality(LeftBy("set"))
        \/ Cardinality(LeftBy("check")') <= Cardinality(LeftBy("check"))
    BY <2>1, LeftFinite, FS_Subset
  <2>3. /\ Cardinality(LeftBy("set")) \in Nat /\ Cardinality(LeftBy("set")') \in Nat
        /\ Cardinality(LeftBy("check")) \in Nat /\ Cardinality(LeftBy("check")') \in Nat
    BY LeftFinite
  <2>4. Cardinality(LeftBy("set")) + Cardinality(LeftBy("check")) <= faults
    BY <1>5 DEF FaultsCounted
  <2>5. Cardinality(LeftBy("check")') + faults <= Cardinality(LeftBy("check")) + faults'
    BY <1>4, <1>5
  <2> QED
    BY <1>1, <1>3, <2>2, <2>3, <2>4, <2>5
<1>6. ASSUME job.stage = "RollingBack"
      PROVE  Cardinality(LeftBy("set")') <= faults'
  <2>1. Cardinality(LeftBy("set")) <= faults
    BY <1>6 DEF FaultsCounted
  <2>2. Cardinality(LeftBy("set")) \in Nat /\ Cardinality(LeftBy("set")') \in Nat
    BY LeftFinite
  <2> QED
    BY <1>1, <1>3, <2>1, <2>2
<1> QED
  BY <1>2, <1>5, <1>6 DEF FaultsCounted, ChecksTellVersions

LEMMA PassesByAccounts ==
  ASSUME FaultsAccountFor, NEW command, PassesBy(command)
  PROVE  EndedJob' /\ ImagesKnown' /\ FaultsCounted' /\ TemplatesFirst'
<1>1. /\ job \in Jobs /\ image \in [Present -> Tags] /\ job.state = "running"
      /\ UNCHANGED <<phase, lastSuccessfulPhase, rolledBack, wg, asked>>
  BY DEF FaultsAccountFor, StagesBuildUp, TypeOK, PassesBy, Runs, status
<1>2. job'.stage = job.stage /\ job'.last = job.last /\ job'.state = "running"
  BY <1>1, GoOnJob DEF PassesBy, Runs
<1>3. EndedJob'
  BY <1>1, <1>2 DEF FaultsAccountFor, EndedJob
<1>4. ImagesKnown'
  <2>1. /\ Version(job.stage) \in {Previous, Target}
        /\ job.stage = "UpgradingNetworkFabric" => Version(job.stage) = Target
    BY DEF Version
  <2>2. "controller-manager" \in Present
    BY PartsPresent
  <2> QED
    BY <1>1, <1>2, <2>1, <2>2 DEF PassesBy, FaultsAccountFor, ImagesKnown
<1>5. FaultsCounted'
  BY FaultsCountedPassesBy DEF FaultsAccountFor
<1>6. TemplatesFirst'
  <2>1. \A x : Past(x) => Past(x)'
    BY <1>1, PastPassesBy DEF PassesBy
  <2> QED
    BY <1>1, <1>2, <2>1 DEF FaultsAccountFor, TemplatesFirst
<1> QED
  BY <1>3, <1>4, <1>5, <1>6

\* The parts left behind are the same while the Job stands and the images do.
LEMMA LeftStays ==
  ASSUME job'.stage = job.stage, job'.last = job.last, job'.at = job.at,
         image' = image
  PROVE  \A verb : LeftBy(verb)' = LeftBy(verb)
<1>1. \A x : Past(x)' <=> Past(x)
  BY PastStays
<1>2. Version(job.stage)' = Version(job.stage)
  BY DEF Version
<1> QED
  BY <1>1, <1>2 DEF LeftBy, FabricParts

LEMMA FaultsCountedStays ==
  ASSUME FaultsCounted, faults \in Nat, faults' \in Nat, faults' >= faults,
         job'.stage = job.stage, job'.last = job.last, job'.at = job.at,
         image' = image
  PROVE  FaultsCounted'
<1>1. LeftBy("set")' = LeftBy("set") /\ LeftBy("check")' = LeftBy("check")
  BY LeftStays
<1>2. Cardinality(LeftBy("set")) \in Nat /\ Cardinality(LeftBy("check")) \in Nat
  BY LeftFinite
<1>3. \A n \in Nat : n <= faults => n <= faults'
  OBVIOUS
<1>4. /\ Cardinality(LeftBy("set"))' = Cardinality(LeftBy("set"))
      /\ Cardinality(LeftBy("check"))' = Cardinality(LeftBy("check"))
  BY <1>1
<1>5. Cardinality(LeftBy("set")) + Cardinality(LeftBy("check")) \in Nat
  BY <1>2
<1> QED
  BY <1>2, <1>3, <1>4, <1>5 DEF FaultsCounted, ChecksTellVersions

LEMMA StaysAccounts ==
  ASSUME FaultsAccountFor, Stays
  PROVE  EndedJob' /\ ImagesKnown' /\ FaultsCounted' /\ TemplatesFirst'
<1>1. /\ job \in Jobs /\ faults \in Nat
      /\ job'.stage = job.stage /\ job'.last = job.last /\ job'.at = job.at
      /\ UNCHANGED <<phase, lastSuccessfulPhase, rolledBack, image>>
  BY DEF FaultsAccountFor, StagesBuildUp, TypeOK, Stays, status
<1>2. EndedJob'
  <2>1. JobScript' = JobScript
    BY <1>1, PastStays
  <2>2. job'.state = "succeeded" => job'.at > Len(JobScript)'
    BY <1>1, <2>1 DEF Stays
  <2> QED
    BY <1>1, <2>2 DEF FaultsAccountFor, EndedJob, Stays
<1>3. ImagesKnown'
  BY <1>1 DEF FaultsAccountFor, ImagesKnown
<1>4. FaultsCounted'
  BY <1>1, FaultsCountedStays DEF FaultsAccountFor, Stays
<1>5. TemplatesFirst'
  <2>1. \A x : Past(x)' <=> Past(x)
    BY <1>1, PastStays
  <2>2. CASE Runs(<<"recreate", "gateways">>)
    BY <1>1, <2>1, <2>2, PastTemplates DEF TemplatesFirst
  <2>3. CASE asked' = asked /\ \A g \in Gateways : wg'[g] = Missing => wg[g] = Missing
    BY <1>1, <2>1, <2>3 DEF FaultsAccountFor, TemplatesFirst
  <2> QED
    BY <2>2, <2>3 DEF Stays
<1> QED
  BY <1>2, <1>3, <1>4, <1>5

LEMMA OperatorAccounts ==
  ASSUME FaultsAccountFor, NEW g \in Gateways, OperatorStep(g)
  PROVE  EndedJob' /\ ImagesKnown' /\ FaultsCounted' /\ TemplatesFirst'
<1>1. /\ job \in Jobs /\ faults \in Nat /\ image \in [Present -> Tags]
      /\ wg \in [Gateways -> MaybeTags]
      /\ UNCHANGED <<phase, lastSuccessfulPhase, rolledBack, job, image, faults>>
  BY DEF FaultsAccountFor, StagesBuildUp, TypeOK, OperatorStep, Render, Deploy, status
<1>2. \A x : Past(x)' <=> Past(x)
  BY <1>1, PastStays
<1>3. JobScript' = JobScript
  BY <1>1, PastStays
<1>4. FaultsCounted'
  <2>1. faults' \in Nat /\ faults' >= faults
    BY <1>1
  <2> QED
    BY <1>1, <2>1, FaultsCountedStays DEF FaultsAccountFor
<1>5. /\ asked' \subseteq asked
      /\ \A h \in Gateways : wg'[h] = Missing => wg[h] = Missing
  <2>1. Kind[g] \in Present /\ Missing \notin Tags
    BY ClusterAssumption, VersionsAssumption DEF Present
  <2>2. image[Kind[g]] # Missing
    BY <1>1, <2>1
  <2> QED
    BY <1>1, <2>2 DEF OperatorStep, Render, Deploy
<1> QED
  BY <1>1, <1>2, <1>3, <1>4, <1>5
  DEF FaultsAccountFor, EndedJob, ImagesKnown, TemplatesFirst

\* What lastSuccessfulPhase may be.
Lasts == Stages \cup {""}

\* A new Job has nothing behind it.
LEMMA NewJobLeavesNothing ==
  ASSUME NEW stage \in Stages \cup {"RollingBack"}, NEW last \in Lasts,
         job' = NewJob(stage, last)
  PROVE  /\ job'.stage = stage /\ job'.last = last /\ job'.state = "running"
         /\ \A x : ~Past(x)'
         /\ Cardinality(LeftBy("set")') = 0
         /\ Cardinality(LeftBy("check")') = 0
<1>1. job'.stage = stage /\ job'.last = last /\ job'.state = "running" /\ job'.at = 1
  BY DEF NewJob
<1>2. \A x : ~Past(x)'
  <2>1. Len(Script(stage, last)) \in Nat
    BY CRDCommands, ControllerManagerCommands, NetworkFabricCommands, RollbackCommands
    DEF Script, Stages
  <2>2. \A n \in Nat : \A i \in 1..n : ~(i < 1)
    OBVIOUS
  <2>3. JobScript' = Script(stage, last)
    BY <1>1 DEF JobScript
  <2> QED
    BY <1>1, <2>1, <2>2, <2>3 DEF Past
<1>3. LeftBy("set")' = {} /\ LeftBy("check")' = {}
  BY <1>2 DEF LeftBy
<1> QED
  BY <1>1, <1>2, <1>3, FS_EmptySet

LEMMA NewJobAccounts ==
  ASSUME FaultsAccountFor,
         NEW stage \in {"UpgradingControllerManager", "UpgradingNetworkFabric",
                        "RollingBack"},
         NEW last \in Lasts,
         stage = "UpgradingControllerManager" => job.stage = "UpgradingCRDs",
         stage = "UpgradingNetworkFabric" =>
           job.stage = "UpgradingControllerManager" /\ job.state = "succeeded",
         phase # "Failed", phase' \in {stage, "Failed"},
         job' = NewJob(stage, last),
         UNCHANGED <<rolledBack, image, gateways, faults>>
  PROVE  EndedJob' /\ ImagesKnown' /\ FaultsCounted' /\ TemplatesFirst'
<1>1. /\ job \in Jobs /\ faults \in Nat
      /\ UNCHANGED <<rolledBack, image, wg, asked, faults>>
      /\ ~rolledBack
  BY DEF FaultsAccountFor, StagesBuildUp, TypeOK, EndedJob, gateways
<1>2. /\ job'.stage = stage /\ job'.last = last /\ job'.state = "running"
      /\ Cardinality(LeftBy("set")') = 0 /\ Cardinality(LeftBy("check")') = 0
  BY NewJobLeavesNothing DEF Stages
<1>3. EndedJob'
  BY <1>1, <1>2 DEF FaultsAccountFor, EndedJob
<1>4. ImagesKnown'
  <2>1. stage = "UpgradingNetworkFabric" => image["controller-manager"] = Target
    <3> SUFFICES ASSUME stage = "UpgradingNetworkFabric"
                 PROVE  image["controller-manager"] = Target
      OBVIOUS
    <3>1. job.at > Len(JobScript)
      BY DEF FaultsAccountFor, EndedJob
    <3>2. job.at > 1
      <4> DEFINE n == Len(JobScript)
                 at == job.at
      <4>1. n \in 2..12 /\ at > n /\ at \in 1..13
        BY <1>1, <3>1, AtTyped, CommandPlaces
      <4> HIDE DEF n, at
      <4>2. at > 1
        BY <4>1
      <4> QED
        BY <4>2 DEF at
    <3> QED
      BY <3>2 DEF FaultsAccountFor, StagesBuildUp, ImageApplied, Version
  <2> QED
    BY <1>1, <1>2, <2>1 DEF FaultsAccountFor, ImagesKnown
<1>5. FaultsCounted'
  <2>1. 0 <= faults /\ 0 + 0 <= faults
    BY <1>1
  <2> QED
    BY <1>1, <1>2, <2>1 DEF FaultsCounted
<1>6. TemplatesFirst'
  BY <1>1, <1>2 DEF FaultsAccountFor, TemplatesFirst
<1> QED
  BY <1>3, <1>4, <1>5, <1>6

LEMMA SameJobAccounts ==
  ASSUME FaultsAccountFor,
         phase' = "Completed" =>
           job.stage = "UpgradingNetworkFabric" /\ job.state = "succeeded",
         rolledBack' =>
           phase' = "Failed" /\ job.stage = "RollingBack" /\ job.state = "succeeded",
         UNCHANGED <<job, image, gateways, faults>>
  PROVE  EndedJob' /\ ImagesKnown' /\ FaultsCounted' /\ TemplatesFirst'
<1>0. /\ job \in Jobs /\ faults \in Nat
      /\ UNCHANGED <<job, image, wg, asked, faults>>
  BY DEF FaultsAccountFor, StagesBuildUp, TypeOK, gateways
<1>1. /\ job \in Jobs /\ faults \in Nat /\ faults' \in Nat /\ faults' >= faults
      /\ UNCHANGED <<job, image, wg, asked, faults>>
  BY <1>0
<1>2. (\A x : Past(x)' <=> Past(x)) /\ JobScript' = JobScript
  BY <1>1, PastStays
<1>3. FaultsCounted'
  BY <1>1, FaultsCountedStays DEF FaultsAccountFor
<1> QED
  BY <1>1, <1>2, <1>3 DEF FaultsAccountFor, EndedJob, ImagesKnown, TemplatesFirst

LEMMA StartRollbackAccounts ==
  ASSUME FaultsAccountFor, startRollback, phase # "Failed"
  PROVE  EndedJob' /\ ImagesKnown' /\ FaultsCounted' /\ TemplatesFirst'
<1>1. lastSuccessfulPhase \in Lasts /\ ~rolledBack
  BY DEF FaultsAccountFor, StagesBuildUp, TypeOK, EndedJob, Lasts
<1>2. UNCHANGED <<rolledBack, image, gateways, faults>>
  BY DEF startRollback
<1>3. CASE phase' = "RollingBack" /\ job' = NewJob("RollingBack", lastSuccessfulPhase)
  BY <1>1, <1>2, <1>3, NewJobAccounts
<1>4. CASE phase' = "Failed" /\ UNCHANGED job
  BY <1>1, <1>2, <1>4, SameJobAccounts
<1>5. CASE phase' = "Failed" /\ job' = NewJob("RollingBack", lastSuccessfulPhase)
  BY <1>1, <1>2, <1>5, NewJobAccounts
<1> QED
  BY <1>3, <1>4, <1>5 DEF startRollback

LEMMA ReconcilerAccounts ==
  ASSUME FaultsAccountFor, ReconcilerStep
  PROVE  EndedJob' /\ ImagesKnown' /\ FaultsCounted' /\ TemplatesFirst'
<1>1. StagesBuildUp /\ (rolledBack => phase = "Failed")
  BY DEF FaultsAccountFor, EndedJob
<1>2. CASE StageSucceeded
  <2>1. /\ phase \in Stages /\ job.stage = phase /\ job.state = "succeeded" /\ ~rolledBack
        /\ UNCHANGED <<rolledBack, image, gateways, faults>>
    BY <1>1, <1>2 DEF StageSucceeded, StagesBuildUp, JobOfPhase, Stages
  <2>2. CASE phase' = "Failed" /\ UNCHANGED job
    BY <2>1, <2>2, SameJobAccounts
  <2>3. CASE \/ /\ phase' = Following[phase]
                /\ job' = IF phase' \in Stages THEN NewJob(phase', phase) ELSE job
             \/ /\ Following[phase] \in Stages /\ phase' = "Failed"
                /\ job' = NewJob(Following[phase], phase)
    <3>1. CASE phase = "UpgradingNetworkFabric"
      <4>1. phase' = "Verifying" /\ UNCHANGED job
        BY <2>3, <3>1 DEF Following, Stages
      <4> QED
        BY <2>1, <4>1, SameJobAccounts
    <3>2. CASE phase = "UpgradingControllerManager"
      <4>1. /\ phase' \in {"UpgradingNetworkFabric", "Failed"}
            /\ job' = NewJob("UpgradingNetworkFabric", phase)
        BY <2>3, <3>2 DEF Following, Stages
      <4>2. phase \in Lasts /\ phase # "Failed"
        BY <2>1, <3>2 DEF Lasts
      <4> QED
        BY <2>1, <3>2, <4>1, <4>2, NewJobAccounts
    <3>3. CASE phase = "UpgradingCRDs"
      <4>1. /\ phase' \in {"UpgradingControllerManager", "Failed"}
            /\ job' = NewJob("UpgradingControllerManager", phase)
        BY <2>3, <3>3 DEF Following, Stages
      <4>2. phase \in Lasts /\ phase # "Failed"
        BY <2>1, <3>3 DEF Lasts
      <4> QED
        BY <2>1, <3>3, <4>1, <4>2, NewJobAccounts
    <3> QED
      BY <2>1, <3>1, <3>2, <3>3 DEF Stages
  <2> QED
    BY <1>2, <2>2, <2>3 DEF StageSucceeded
<1>3. CASE StageFailed
  BY <1>3, StartRollbackAccounts DEF StageFailed, Stages
<1>4. CASE performVerification
  <2>1. phase # "Failed" /\ ~rolledBack
    BY <1>1, <1>4 DEF performVerification
  <2>2. CASE startRollback
    BY <2>1, <2>2, StartRollbackAccounts
  <2>3. CASE ~startRollback
    <3>1. job.stage = "UpgradingNetworkFabric" /\ job.state = "succeeded"
      BY <1>1, <1>4 DEF performVerification, StagesBuildUp, JobOfPhase
    <3>2. ~rolledBack' /\ UNCHANGED <<job, image, gateways, faults>>
      BY <1>4, <2>1, <2>3 DEF performVerification
    <3> QED
      BY <3>1, <3>2, SameJobAccounts
  <2> QED
    BY <2>2, <2>3
<1>5. CASE monitorRollback
  <2>1. job.stage = "RollingBack"
    BY <1>1, <1>5 DEF monitorRollback, StagesBuildUp, JobOfPhase
  <2>2. /\ phase' = "Failed" /\ (rolledBack' => job.state = "succeeded")
        /\ UNCHANGED <<job, image, gateways, faults>>
    BY <1>5 DEF monitorRollback
  <2> QED
    BY <2>1, <2>2, SameJobAccounts
<1> QED
  BY <1>2, <1>3, <1>4, <1>5 DEF ReconcilerStep

LEMMA InitAccounts == Init => FaultsAccountFor
<1> SUFFICES ASSUME Init PROVE FaultsAccountFor
  OBVIOUS
<1>1. StagesBuildUp /\ job \in Jobs
  BY InitEstablishes DEF StagesBuildUp, TypeOK
<1>2. /\ job.stage = "UpgradingCRDs" /\ job.state = "running"
      /\ phase = "UpgradingCRDs" /\ rolledBack = FALSE /\ asked = {}
      /\ \A c \in Present : image[c] = Previous
      /\ \A g \in Gateways : wg[g] = Previous
  BY DEF Init, NewJob
<1>3. Previous # Missing
  BY VersionsAssumption
<1>4. EndedJob /\ ImagesKnown /\ FaultsCounted /\ TemplatesFirst
  BY <1>2, <1>3 DEF EndedJob, ImagesKnown, FaultsCounted, TemplatesFirst
<1> QED
  BY <1>1, <1>4 DEF FaultsAccountFor

LEMMA StutterAccounts ==
  ASSUME FaultsAccountFor, UNCHANGED vars
  PROVE  EndedJob' /\ ImagesKnown' /\ FaultsCounted' /\ TemplatesFirst'
<1>1. UNCHANGED <<phase, rolledBack, job, image, gateways, faults>>
  BY DEF vars, status
<1> QED
  BY <1>1, SameJobAccounts DEF FaultsAccountFor, EndedJob

LEMMA StepAccounts ==
  ASSUME FaultsAccountFor, [Next]_vars
  PROVE  FaultsAccountFor'
<1>1. StagesBuildUp /\ ImagesKnown
  BY DEF FaultsAccountFor
<1>2. StagesBuildUp'
  BY <1>1, ScriptStepKeeps, ReconcilerKeeps, OperatorKeeps, StutterKeeps DEF Next
<1>3. EndedJob' /\ ImagesKnown' /\ FaultsCounted' /\ TemplatesFirst'
  BY <1>1, ScriptMoves, PassesByAccounts, StaysAccounts, ReconcilerAccounts,
     OperatorAccounts, StutterAccounts DEF Next
<1> QED
  BY <1>2, <1>3 DEF FaultsAccountFor

\* However many commands fail, what the scripts leave on another version than
\* the one they set is accounted for, part by part, by the faults.
THEOREM FaultsAreAccountedFor == Spec => []FaultsAccountFor
<1>1. FaultsAccountFor /\ [Next]_vars => FaultsAccountFor'
  BY StepAccounts
<1> QED
  BY InitAccounts, <1>1, PTL DEF Spec

\* A part the network script has behind it, and that is not on the target, was
\* left by both of its commands.
LEMMA LeftOfNetwork ==
  ASSUME job.stage = "UpgradingNetworkFabric", NEW c \in FabricParts,
         Past(<<"set", c>>), Past(<<"check", c>>)
  PROVE  image[c] # Target => c \in LeftBy("set") /\ c \in LeftBy("check")
BY DEF LeftBy, Version

LEMMA CountedTwice ==
  ASSUME FaultsAccountFor, ChecksTellVersions, phase \in {"Verifying", "Completed"}
  PROVE  MissedTwice
<1>1. /\ job \in Jobs /\ faults \in Nat
      /\ job.stage = "UpgradingNetworkFabric" /\ job.state = "succeeded"
      /\ job.at > Len(JobScript)
  BY DEF FaultsAccountFor, StagesBuildUp, TypeOK, JobOfPhase, EndedJob
<1> DEFINE missed == {c \in FabricParts : image[c] # Target}
<1>2. missed = LeftBy("set") /\ missed = LeftBy("check")
  <2>1. Version(job.stage) = Target
    BY <1>1 DEF Version
  <2>2. \A c \in FabricParts : Past(<<"set", c>>) /\ Past(<<"check", c>>)
    BY <1>1, PastAtEnd
  <2> QED
    BY <2>1, <2>2 DEF LeftBy
<1>3. 2 * Cardinality(missed) <= faults
  <2>1. Cardinality(LeftBy("set")) + Cardinality(LeftBy("check")) <= faults
    BY <1>1 DEF FaultsAccountFor, FaultsCounted
  <2>2. Cardinality(missed) \in Nat
    BY <1>2, LeftFinite
  <2>3. Cardinality(missed) + Cardinality(missed) <= faults
    BY <1>2, <2>1
  <2> HIDE DEF missed
  <2> QED
    BY <1>1, <2>2, <2>3
<1>4. image["controller-manager"] = Target
  BY <1>1 DEF FaultsAccountFor, ImagesKnown
<1> QED
  BY <1>3, <1>4 DEF MissedTwice

\* In every cluster, and after any number of faults, a component or template
\* that the network stage left on another version than the target was missed by
\* the command that sets it and by the one that checks it: two faults apiece.
\* If a reference to the previous version contained the target, the check would
\* take it for the target's, and one fault would be enough.
THEOREM EachMissCostsTwoFaults ==
  ASSUME ChecksTellVersions
  PROVE  Spec => []MissedTwice
<1>1. FaultsAccountFor => MissedTwice
  <2>1. phase \notin {"Verifying", "Completed"} => MissedTwice
    BY DEF MissedTwice
  <2> QED
    BY <2>1, CountedTwice
<1> QED
  BY <1>1, FaultsAreAccountedFor, PTL

\* However many commands fail, a rollback that ends well has restored the
\* controller-manager, and each component it has left on the target has cost a
\* fault.
THEOREM RollbackMissesCostFaults == Spec => []RollbackMissesOnlyFaulted
<1>1. FaultsAccountFor => RollbackMissesOnlyFaulted
  <2> SUFFICES ASSUME FaultsAccountFor, rolledBack
               PROVE  /\ image["controller-manager"] = Previous
                      /\ job.last = "UpgradingNetworkFabric" =>
                           Cardinality({c \in Installed : image[c] # Previous}) <= faults
    BY DEF RollbackMissesOnlyFaulted
  <2>1. /\ job \in Jobs /\ faults \in Nat
        /\ job.stage = "RollingBack" /\ job.state = "succeeded"
        /\ job.at > Len(JobScript)
    BY DEF FaultsAccountFor, StagesBuildUp, TypeOK, EndedJob
  <2>2. image["controller-manager"] = Previous
    <3>1. job.at > 1
      <4> DEFINE n == Len(JobScript)
                 at == job.at
      <4>1. n \in 2..12 /\ at > n /\ at \in 1..13
        BY <2>1, AtTyped, CommandPlaces
      <4> HIDE DEF n, at
      <4>2. at > 1
        BY <4>1
      <4> QED
        BY <4>2 DEF at
    <3> QED
      BY <2>1, <3>1 DEF FaultsAccountFor, StagesBuildUp, ImageApplied, Version
  <2>3. ASSUME job.last = "UpgradingNetworkFabric"
        PROVE  Cardinality({c \in Installed : image[c] # Previous}) <= faults
    <3> DEFINE left == {c \in Installed : image[c] # Previous}
    <3>1. left \subseteq LeftBy("set")
      <4>1. Version(job.stage) = Previous
        BY <2>1 DEF Version
      <4>2. \A c \in Installed : c \in FabricParts /\ Past(<<"set", c>>)
        BY <2>1, <2>3, PastAtEnd, ClusterAssumption DEF FabricParts
      <4> QED
        BY <4>1, <4>2 DEF LeftBy
    <3>2. Cardinality(LeftBy("set")) <= faults
      BY <2>1 DEF FaultsAccountFor, FaultsCounted
    <3> HIDE DEF left
    <3>3. /\ Cardinality(left) \in Nat /\ Cardinality(LeftBy("set")) \in Nat
          /\ Cardinality(left) <= Cardinality(LeftBy("set"))
      BY <3>1, LeftFinite, FS_Subset, FS_CardinalityType
    <3>4. Cardinality(left) <= faults
      BY <2>1, <3>2, <3>3
    <3> QED
      BY <3>4 DEF left
  <2> QED
    BY <2>2, <2>3
<1> QED
  BY <1>1, FaultsAreAccountedFor, PTL

\* The only step by which a gateway resource gets another version while the
\* network script's Job is the latest is that the operator renders it.
LEMMA OnlyRendered ==
  ASSUME FaultsAccountFor, [Next]_vars, NEW g \in Gateways,
         job.stage = "UpgradingNetworkFabric", wg[g] # wg'[g], wg'[g] # Missing
  PROVE  Render(g)
<1>1. /\ job \in Jobs /\ job.stage = "UpgradingNetworkFabric"
      /\ wg \in [Gateways -> MaybeTags]
  BY DEF FaultsAccountFor, StagesBuildUp, TypeOK, JobOfPhase, Stages
<1>2. ASSUME NEW h \in Gateways,
             \/ AnnotateGateway(h) \/ DeleteGateway(h) \/ CheckGateway(h)
             \/ RestoreWgGateway(h) \/ RestoreGateway(h)
      PROVE  FALSE
  <2>1. ~RestoreWgGateway(h)
    BY <1>1, CommandPlaces DEF RestoreWgGateway
  <2>2. CASE DeleteGateway(h)
    BY <1>1, <2>2 DEF DeleteGateway
  <2> QED
    BY <1>2, <2>1, <2>2
    DEF AnnotateGateway, CheckGateway, RestoreGateway, gateways
<1>3. ~ScriptStep
  <2>1. ASSUME NEW c, Set(c) \/ PassOver(c) \/ Check(c)
        PROVE  wg' = wg
    BY <2>1 DEF Set, PassOver, Check, gateways
  <2>2. ASSUME \/ \E f \in CRDs : ApplyCRD(f)
               \/ CheckCRDs \/ CheckControllerManager \/ LoopEnds \/ NamespacesNotListed
               \/ JobSucceeds \/ JobFails
        PROVE  wg' = wg
    BY <2>2 DEF ApplyCRD, CheckCRDs, CheckControllerManager, LoopEnds,
               NamespacesNotListed, JobSucceeds, JobFails, gateways
  <2> QED
    BY <1>2, <2>1, <2>2
    DEF ScriptStep, SetControllerManager, SetTemplate, CheckTemplate, SetComponent,
        CheckComponent
<1>4. ~ReconcilerStep
  BY DEF ReconcilerStep, StageSucceeded, StageFailed, startRollback, performVerification,
         monitorRollback, gateways
<1>5. ~UNCHANGED vars
  BY DEF vars, gateways
<1>6. \A h \in Gateways : OperatorStep(h) => Render(g)
  BY <1>1 DEF OperatorStep, Render, Deploy
<1> QED
  BY <1>3, <1>4, <1>5, <1>6 DEF Next

LEMMA RenderedFromOld ==
  ASSUME FaultsAccountFor, ChecksTellVersions, NEW g \in Gateways, Render(g),
         job.stage = "UpgradingNetworkFabric", wg'[g] # Target
  PROVE  faults >= 2
<1>1. /\ job.stage = "UpgradingNetworkFabric" /\ faults \in Nat
      /\ wg \in [Gateways -> MaybeTags]
  BY DEF FaultsAccountFor, StagesBuildUp, TypeOK, JobOfPhase, Stages
<1>2. /\ Kind[g] \in FabricParts /\ Kind[g] \in {"client", "server"}
      /\ wg'[g] = image[Kind[g]]
  BY <1>1, ClusterAssumption DEF FabricParts, Render
<1>3. Past(<<"set", Kind[g]>>) /\ Past(<<"check", Kind[g]>>)
  BY <1>1, <1>2 DEF FaultsAccountFor, TemplatesFirst, Render
<1>4. Kind[g] \in LeftBy("set") /\ Kind[g] \in LeftBy("check")
  BY <1>1, <1>2, <1>3, LeftOfNetwork
<1>5. /\ Cardinality(LeftBy("set")) \in Nat /\ Cardinality(LeftBy("set")) # 0
      /\ Cardinality(LeftBy("check")) \in Nat /\ Cardinality(LeftBy("check")) # 0
  BY <1>4, LeftFinite, FS_EmptySet
<1>6. Cardinality(LeftBy("set")) + Cardinality(LeftBy("check")) <= faults
  BY <1>1 DEF FaultsAccountFor, FaultsCounted
<1> QED
  BY <1>1, <1>5, <1>6

\* From the start of the network script on, no gateway is rendered from a template
\* of the old version unless a patch and the check of it have both failed.
THEOREM GatewaysFollowTemplates ==
  ASSUME ChecksTellVersions
  PROVE  Spec => RecreatedFromNewTemplate
<1>1. FaultsAccountFor /\ [Next]_vars =>
        [\A g \in Gateways :
           /\ job.stage = "UpgradingNetworkFabric"
           /\ wg[g] # wg'[g]
           /\ wg'[g] \notin {Missing, Target}
           => faults >= 2]_vars
  BY OnlyRendered, RenderedFromOld
<1> QED
  BY <1>1, FaultsAreAccountedFor, PTL DEF Spec, RecreatedFromNewTemplate

=============================================================================
