---------------------------- MODULE UpgradeJobs ----------------------------
(***************************************************************************)
(* What the Jobs of one upgrade do to the cluster: the scripts that the    *)
(* build*Job functions render, command by command, over everything that    *)
(* carries a Liqo version; the reconciler that starts one after another;   *)
(* and the operator in the controller-manager that renders gateways.       *)
(*                                                                         *)
(* A command changes or reads one object of the API server.  A script runs *)
(* under "set -e": a command that fails, a wait that times out, a check    *)
(* that does not hold or a lost pod end it, and with a backoffLimit of 0   *)
(* the Job is failed.  JobFails is all of these, possible at any command.  *)
(* What a script tolerates with "||" or "if kubectl get" is a transient    *)
(* fault, and MaxFaults bounds them.                                       *)
(*                                                                         *)
(* The reconciler is reduced to what it does with a Job's result: its      *)
(* caches, conflicts and crashes are LiqoUpgradeController's.  The freeze  *)
(* script changes nothing and is left out.  So are environment variables,  *)
(* which the scripts only print, and the backups under /tmp.               *)
(***************************************************************************)
EXTENDS Naturals, Sequences, FiniteSets

CONSTANTS
  Tags,        \* version strings
  Previous,    \* the version of every object at the start
  Target,
  Contains,    \* pairs <<i, t>>: the image reference with tag i contains t
  CRDs,        \* the CRD files of the target version
  Templates,   \* which of the two gateway templates exist
  Installed,   \* which of the three network components exist
  Gateways,    \* a tenant namespace each, with one GatewayClient or -Server
  Kind,        \* Kind[g]: the template of gateway g
  Missing,     \* the version of an object that does not exist
  MaxFaults

ASSUME VersionsAssumption ==
  /\ {Previous, Target} \subseteq Tags
  /\ Missing \notin Tags
  /\ \A t \in Tags : <<t, t>> \in Contains

ASSUME ClusterAssumption ==
  /\ Templates \subseteq {"client", "server"}
  /\ Installed \subseteq {"ipam", "proxy", "fabric"}
  /\ Kind \in [Gateways -> Templates]
  /\ MaxFaults \in Nat

VARIABLES
  phase, lastSuccessfulPhase, rolledBack,   \* the status of the LiqoUpgrade
  job,      \* the latest Job
  crd,      \* the version of each CRD
  image,    \* the tag of each deployment, daemonset and template
  wg,       \* the tag in each WgGatewayClient or WgGatewayServer
  gateway,  \* the tag of each gateway's deployment
  asked,    \* gateways with a force-recreate annotation not yet acted on
  faults    \* bound only: transient faults so far

status == <<phase, lastSuccessfulPhase, rolledBack>>
gateways == <<wg, gateway, asked>>
vars == <<status, job, crd, image, gateways, faults>>

Stages == {"UpgradingCRDs", "UpgradingControllerManager",
           "UpgradingNetworkFabric"}

Present == {"controller-manager"} \cup Templates \cup Installed

----------------------------------------------------------------------------
(***************************************************************************)
(* The scripts.                                                            *)
(***************************************************************************)

CRDScript == << <<"apply", "crds">>, <<"check", "crds">> >>

ControllerManagerScript ==
  << <<"set", "controller-manager">>, <<"check", "controller-manager">> >>

NetworkFabricScript ==
  << <<"set", "client">>, <<"set", "server">>,
     <<"check", "client">>, <<"check", "server">>,
     <<"set", "ipam">>, <<"set", "proxy">>, <<"set", "fabric">>,
     <<"recreate", "gateways">>,
     <<"check", "ipam">>, <<"check", "proxy">>, <<"check", "fabric">>,
     <<"check", "gateways">> >>

\* Faulty: the rollback forgets liqo-proxy.
RollbackScriptShort(last) ==
  IF last = "UpgradingNetworkFabric"
  THEN << <<"set", "controller-manager">>, <<"check", "controller-manager">>,
          <<"restore", "gateways">>, <<"set", "ipam">>, <<"set", "fabric">> >>
  ELSE << <<"set", "controller-manager">>, <<"check", "controller-manager">> >>

\* Only the success of the network stage has the fabric rolled back.
RollbackScript(last) ==
  IF last = "UpgradingNetworkFabric"
  THEN << <<"set", "controller-manager">>, <<"check", "controller-manager">>,
          <<"restore", "gateways">>,
          <<"set", "ipam">>, <<"set", "proxy">>, <<"set", "fabric">> >>
  ELSE << <<"set", "controller-manager">>, <<"check", "controller-manager">> >>

Script(stage, last) ==
  CASE stage = "UpgradingCRDs"              -> CRDScript
    [] stage = "UpgradingControllerManager" -> ControllerManagerScript
    [] stage = "UpgradingNetworkFabric"     -> NetworkFabricScript
    [] OTHER                                -> RollbackScript(last)

\* TARGET_VERSION or PREVIOUS_VERSION of the script.
Version(stage) == IF stage = "RollingBack" THEN Previous ELSE Target

\* The loops' bodies: one write for a CRD file, two for a gateway, one check.
Halves == {"first", "second"}

LoopItems(command) ==
  CASE command = <<"apply", "crds">>     -> CRDs
    [] command = <<"check", "gateways">> -> Gateways
    [] OTHER                             -> Halves \X Gateways

Loops == {<<"apply", "crds">>, <<"check", "gateways">>,
          <<"recreate", "gateways">>, <<"restore", "gateways">>}

\* at: the next command; done: what its loop has dealt with; failed: FAILED_COUNT
\* is not 0; last: LAST_PHASE as rendered when the Job was built.
NewJob(stage, last) ==
  [stage |-> stage, last |-> last, state |-> "running", at |-> 1,
   done |-> {}, failed |-> FALSE]

JobScript == Script(job.stage, job.last)

Runs(command) ==
  /\ job.state = "running"
  /\ job.at <= Len(JobScript)
  /\ JobScript[job.at] = command

GoOn == job' = [job EXCEPT !.at = @ + 1, !.done = {}]

Did(item) == job' = [job EXCEPT !.done = @ \cup {item}]

Fault == faults < MaxFaults /\ faults' = faults + 1

LoopEnds ==
  /\ \E command \in Loops : Runs(command) /\ job.done = LoopItems(command)
  /\ GoOn
  /\ UNCHANGED <<status, crd, image, gateways, faults>>

\* The tenant namespaces could not be listed ("|| true"): nothing is in them.
NamespacesNotListed ==
  /\ \E command \in Loops \ {<<"apply", "crds">>} : Runs(command)
  /\ job.done = {}
  /\ Fault
  /\ GoOn
  /\ UNCHANGED <<status, crd, image, gateways>>

JobSucceeds ==
  /\ job.state = "running"
  /\ job.at > Len(JobScript)
  /\ job' = [job EXCEPT !.state = "succeeded"]
  /\ UNCHANGED <<status, crd, image, gateways, faults>>

JobFails ==
  /\ job.state = "running"
  /\ job' = [job EXCEPT !.state = "failed"]
  /\ UNCHANGED <<status, crd, image, gateways, faults>>

----------------------------------------------------------------------------
(***************************************************************************)
(* Commands.                                                               *)
(***************************************************************************)

\* A file that could not be fetched or applied is counted and the loop goes on.
ApplyCRD(f) ==
  /\ Runs(<<"apply", "crds">>)
  /\ f \notin job.done
  /\ \/ /\ crd' = [crd EXCEPT ![f] = Target]
        /\ Did(f)
        /\ UNCHANGED faults
     \/ /\ Fault
        /\ job' = [job EXCEPT !.done = @ \cup {f}, !.failed = TRUE]
        /\ UNCHANGED crd
  /\ UNCHANGED <<status, image, gateways>>

\* Faulty: the count of failures is printed and not looked at.
CheckCRDsPrintsOnly ==
  /\ Runs(<<"check", "crds">>)
  /\ GoOn
  /\ UNCHANGED <<status, crd, image, gateways, faults>>

CheckCRDs ==
  /\ Runs(<<"check", "crds">>)
  /\ ~job.failed
  /\ GoOn
  /\ UNCHANGED <<status, crd, image, gateways, faults>>

Set(c) ==
  /\ Runs(<<"set", c>>)
  /\ GoOn
  /\ image' = [image EXCEPT ![c] = Version(job.stage)]
  /\ UNCHANGED <<status, crd, gateways, faults>>

\* "if kubectl get c" does not hold: there is no c, or the call failed.
PassOver(c) ==
  /\ Runs(<<"set", c>>)
  /\ GoOn
  /\ c \in Present => Fault
  /\ c \notin Present => UNCHANGED faults
  /\ UNCHANGED <<status, crd, image, gateways>>

\* Faulty: the image is set to the target by a rollback too.
SetControllerManagerToTarget ==
  /\ Runs(<<"set", "controller-manager">>)
  /\ GoOn
  /\ image' = [image EXCEPT !["controller-manager"] = Target]
  /\ UNCHANGED <<status, crd, gateways, faults>>

SetControllerManager == Set("controller-manager")

\* A patch that fails is a warning.
SetTemplate(t) ==
  \/ t \in Templates /\ Set(t)
  \/ PassOver(t)

SetComponent(c) ==
  \/ c \in Installed /\ Set(c)
  \/ PassOver(c)

\* The version of the controller-manager is compared exactly.
CheckControllerManager ==
  /\ Runs(<<"check", "controller-manager">>)
  /\ image["controller-manager"] = Version(job.stage)
  /\ GoOn
  /\ UNCHANGED <<status, crd, image, gateways, faults>>

\* The others' reference must contain the target; what cannot be read passes.
Check(c) ==
  /\ Runs(<<"check", c>>)
  /\ GoOn
  /\ \/ /\ c \in Present => <<image[c], Target>> \in Contains
        /\ UNCHANGED faults
     \/ c \in Present /\ Fault
  /\ UNCHANGED <<status, crd, image, gateways>>

\* Faulty: the templates' versions are printed and not compared.
CheckTemplatePrintsOnly(t) ==
  /\ Runs(<<"check", t>>)
  /\ GoOn
  /\ UNCHANGED <<status, crd, image, gateways, faults>>

CheckTemplate(t) == Check(t)

\* Faulty: no final check of ipam, proxy and fabric.
CheckComponentPrintsOnly(c) ==
  /\ Runs(<<"check", c>>)
  /\ GoOn
  /\ UNCHANGED <<status, crd, image, gateways, faults>>

CheckComponent(c) == Check(c)

\* A loop over the tenant namespaces deals with one after the other.
Begins(g) ==
  /\ <<"first", g>> \notin job.done
  /\ \A h \in Gateways : <<"first", h>> \in job.done => <<"second", h>> \in job.done

Continues(g) == <<"first", g>> \in job.done /\ <<"second", g>> \notin job.done

\* The list of GatewayClients and GatewayServers is empty when it fails.
AnnotateGateway(g) ==
  /\ Runs(<<"recreate", "gateways">>)
  /\ Begins(g)
  /\ Did(<<"first", g>>)
  /\ \/ asked' = asked \cup {g} /\ UNCHANGED faults
     \/ Fault /\ UNCHANGED asked
  /\ UNCHANGED <<status, crd, image, wg, gateway>>

\* The waits that follow end with a warning at worst.
DeleteGateway(g) ==
  /\ Runs(<<"recreate", "gateways">>)
  /\ Continues(g)
  /\ Did(<<"second", g>>)
  /\ \/ wg' = [wg EXCEPT ![g] = Missing] /\ UNCHANGED faults
     \/ Fault /\ UNCHANGED wg
  /\ UNCHANGED <<status, crd, image, gateway, asked>>

\* Faulty: a gateway with an old image is reported and passes.
CheckGatewayPrintsOnly(g) ==
  /\ Runs(<<"check", "gateways">>)
  /\ g \notin job.done
  /\ Did(g)
  /\ UNCHANGED <<status, crd, image, gateways, faults>>

\* A deployment that is not there, or not listed, passes.
CheckGateway(g) ==
  /\ Runs(<<"check", "gateways">>)
  /\ g \notin job.done
  /\ Did(g)
  /\ \/ /\ gateway[g] # Missing => <<gateway[g], Target>> \in Contains
        /\ UNCHANGED faults
     \/ gateway[g] # Missing /\ Fault
  /\ UNCHANGED <<status, crd, image, gateways>>

\* Neither a listing nor a patch that fails stops the rollback.
RestoreWgGateway(g) ==
  /\ Runs(<<"restore", "gateways">>)
  /\ Begins(g)
  /\ Did(<<"first", g>>)
  /\ \/ /\ wg' = IF wg[g] = Missing THEN wg ELSE [wg EXCEPT ![g] = Previous]
        /\ UNCHANGED faults
     \/ wg[g] # Missing /\ Fault /\ UNCHANGED wg
  /\ UNCHANGED <<status, crd, image, gateway, asked>>

RestoreGateway(g) ==
  /\ Runs(<<"restore", "gateways">>)
  /\ Continues(g)
  /\ Did(<<"second", g>>)
  /\ \/ /\ gateway' = IF gateway[g] = Missing THEN gateway
                      ELSE [gateway EXCEPT ![g] = Previous]
        /\ UNCHANGED faults
     \/ gateway[g] # Missing /\ Fault /\ UNCHANGED gateway
  /\ UNCHANGED <<status, crd, image, wg, asked>>

----------------------------------------------------------------------------
(***************************************************************************)
(* Liqo's gateway operator, as the network script relies on it: it renders *)
(* a WgGateway resource that is missing, or whose owner was annotated,     *)
(* from the template as it is now, and has the deployment follow.          *)
(***************************************************************************)

Render(g) ==
  /\ g \in asked \/ wg[g] = Missing
  /\ wg' = [wg EXCEPT ![g] = image[Kind[g]]]
  /\ asked' = asked \ {g}
  /\ UNCHANGED <<status, job, crd, image, gateway, faults>>

Deploy(g) ==
  /\ gateway[g] # wg[g]
  /\ gateway' = [gateway EXCEPT ![g] = wg[g]]
  /\ UNCHANGED <<status, job, crd, image, wg, asked, faults>>

----------------------------------------------------------------------------
(***************************************************************************)
(* The reconciler.                                                         *)
(***************************************************************************)

Following == [UpgradingCRDs              |-> "UpgradingControllerManager",
              UpgradingControllerManager |-> "UpgradingNetworkFabric",
              UpgradingNetworkFabric     |-> "Verifying"]

\* Faulty: the phase that follows is saved as the successful one.
StageSucceededSavesNext ==
  /\ phase \in Stages
  /\ job.state = "succeeded"
  /\ lastSuccessfulPhase' = Following[phase]
  /\ phase' = Following[phase]
  /\ job' = IF phase' \in Stages THEN NewJob(phase', phase) ELSE job
  /\ UNCHANGED <<rolledBack, crd, image, gateways, faults>>

\* The monitor of a stage saves the success and has the next phase started.
\* Where Create answers an error the upgrade fails, though the Job may be there.
StageSucceeded ==
  /\ phase \in Stages
  /\ job.state = "succeeded"
  /\ lastSuccessfulPhase' = phase
  /\ \/ /\ phase' = Following[phase]
        /\ job' = IF phase' \in Stages THEN NewJob(phase', phase) ELSE job
     \/ /\ Following[phase] \in Stages
        /\ phase' = "Failed"
        /\ job' \in {job, NewJob(Following[phase], phase)}
  /\ UNCHANGED <<rolledBack, crd, image, gateways, faults>>

\* Without autoRollback, or where Create answers an error, the upgrade fails.
startRollback ==
  /\ LET next == NewJob("RollingBack", lastSuccessfulPhase)
     IN \/ phase' = "RollingBack" /\ job' = next
        \/ phase' = "Failed" /\ job' \in {job, next}
  /\ UNCHANGED <<lastSuccessfulPhase, rolledBack, crd, image, gateways, faults>>

StageFailed ==
  /\ phase \in Stages
  /\ job.state = "failed"
  /\ startRollback

\* Looks at the controller-manager only.  A health check may fail.
performVerification ==
  /\ phase = "Verifying"
  /\ \/ startRollback
     \/ /\ image["controller-manager"] = Target
        /\ phase' = "Completed"
        /\ UNCHANGED <<lastSuccessfulPhase, rolledBack, job, crd, image,
                       gateways, faults>>

monitorRollback ==
  /\ phase = "RollingBack"
  /\ job.state \in {"succeeded", "failed"}
  /\ phase' = "Failed"
  /\ rolledBack' = (job.state = "succeeded")
  /\ UNCHANGED <<lastSuccessfulPhase, job, crd, image, gateways, faults>>

----------------------------------------------------------------------------

Init ==
  /\ phase = "UpgradingCRDs"
  /\ lastSuccessfulPhase = ""
  /\ rolledBack = FALSE
  /\ job = NewJob("UpgradingCRDs", "")
  /\ crd = [f \in CRDs |-> Previous]
  /\ image = [c \in Present |-> Previous]
  /\ wg = [g \in Gateways |-> Previous]
  /\ gateway = [g \in Gateways |-> Previous]
  /\ asked = {}
  /\ faults = 0

ScriptStep ==
  \/ \E f \in CRDs : ApplyCRD(f)
  \/ CheckCRDs
  \/ SetControllerManager
  \/ CheckControllerManager
  \/ \E t \in {"client", "server"} : SetTemplate(t) \/ CheckTemplate(t)
  \/ \E c \in {"ipam", "proxy", "fabric"} : SetComponent(c) \/ CheckComponent(c)
  \/ \E g \in Gateways : \/ AnnotateGateway(g) \/ DeleteGateway(g) \/ CheckGateway(g)
                         \/ RestoreWgGateway(g) \/ RestoreGateway(g)
  \/ LoopEnds
  \/ NamespacesNotListed
  \/ JobSucceeds
  \/ JobFails

ReconcilerStep ==
  \/ StageSucceeded \/ StageFailed \/ performVerification \/ monitorRollback

OperatorStep(g) == Render(g) \/ Deploy(g)

Next == ScriptStep \/ ReconcilerStep \/ \E g \in Gateways : OperatorStep(g)

Spec == Init /\ [][Next]_vars

\* The operator acts on every gateway in the end.  Nothing makes a script end:
\* its Job has no deadline.
FairSpec ==
  /\ Spec
  /\ \A g \in Gateways : WF_vars(Render(g)) /\ WF_vars(Deploy(g))

----------------------------------------------------------------------------
(***************************************************************************)
(* Properties.                                                             *)
(***************************************************************************)

MaybeTags == Tags \cup {Missing}

Jobs == [stage  : Stages \cup {"RollingBack"},
         last   : Stages \cup {""},
         state  : {"running", "succeeded", "failed"},
         at     : 1..13,
         done   : SUBSET (CRDs \cup Gateways \cup (Halves \X Gateways)),
         failed : BOOLEAN]

\* The types of the variables.
TypeOK ==
  /\ phase \in Stages \cup {"Verifying", "RollingBack", "Completed", "Failed"}
  /\ lastSuccessfulPhase \in Stages \cup {""}
  /\ rolledBack \in BOOLEAN
  /\ job \in Jobs
  /\ crd \in [CRDs -> Tags]
  /\ image \in [Present -> Tags]
  /\ wg \in [Gateways -> MaybeTags]
  /\ gateway \in [Gateways -> MaybeTags]
  /\ asked \subseteq Gateways
  /\ faults \in Nat

AllCRDsNew == \A f \in CRDs : crd[f] = Target

FabricParts == Templates \cup Installed

\* Nothing runs the target version before every CRD has it, at any time and
\* through failures and rollbacks, gateways included, which the operator
\* renders whenever it likes.  It takes the order of the stages and the CRD
\* script's count of failures.
NewCodeNeedsNewCRDs ==
  Previous # Target =>
    \/ AllCRDsNew
    \/ /\ \A c \in Present : image[c] # Target
       /\ \A g \in Gateways : wg[g] # Target /\ gateway[g] # Target

JobOfPhase ==
  /\ phase \in Stages \cup {"RollingBack"} => job.stage = phase
  /\ phase = "Verifying" =>
       job.stage = "UpgradingNetworkFabric" /\ job.state = "succeeded"

\* How far the CRD script is tells how many CRDs are new.
CRDsSoFar ==
  /\ job.stage = "UpgradingCRDs" =>
       /\ job.at <= 3
       /\ job.at = 1 /\ ~job.failed => \A f \in job.done \cap CRDs : crd[f] = Target
       /\ job.at > 1 /\ ~job.failed => AllCRDsNew
       /\ job.at > 2 => ~job.failed
       /\ job.state = "succeeded" => job.at > 2
  /\ job.stage \in {"UpgradingControllerManager", "UpgradingNetworkFabric"} =>
       AllCRDsNew

\* Past the first command the controller-manager has what the script sets.
ImageApplied ==
  /\ job.stage \in {"UpgradingControllerManager", "RollingBack"}
  /\ job.at > 1
  => image["controller-manager"] = Version(job.stage)

\* What every step keeps, and NewCodeNeedsNewCRDs needs: no stage starts before
\* the stage ahead of it is complete, whatever fails.
StagesBuildUp ==
  TypeOK /\ JobOfPhase /\ CRDsSoFar /\ ImageApplied /\ NewCodeNeedsNewCRDs

\* The Job has the command behind it.
Past(command) == \E i \in 1..Len(JobScript) : i < job.at /\ JobScript[i] = command

\* What a "set" or a "check" has left on another version than its script's.
LeftBy(verb) ==
  {c \in FabricParts : Past(<<verb, c>>) /\ image[c] # Version(job.stage)}

\* A reference to the previous version does not pass for one to the target.
ChecksTellVersions == <<Previous, Target>> \in Contains => Previous = Target

EndedJob ==
  /\ job.state = "succeeded" => job.at > Len(JobScript)
  /\ phase = "Completed" =>
       job.stage = "UpgradingNetworkFabric" /\ job.state = "succeeded"
  /\ rolledBack =>
       phase = "Failed" /\ job.stage = "RollingBack" /\ job.state = "succeeded"

ImagesKnown ==
  /\ \A c \in Present : image[c] \in {Previous, Target}
  /\ job.stage = "UpgradingNetworkFabric" => image["controller-manager"] = Target

\* Each of them has cost a fault, and one that a check let pass another.
FaultsCounted ==
  /\ job.stage = "RollingBack" => Cardinality(LeftBy("set")) <= faults
  /\ job.stage = "UpgradingNetworkFabric" /\ ChecksTellVersions =>
       Cardinality(LeftBy("set")) + Cardinality(LeftBy("check")) <= faults

\* No gateway is asked for or taken away before both templates were dealt with.
TemplatesFirst ==
  asked # {} \/ (\E g \in Gateways : wg[g] = Missing) =>
    /\ job.stage \in {"UpgradingNetworkFabric", "RollingBack"}
    /\ job.stage = "UpgradingNetworkFabric" =>
         \A t \in {"client", "server"} : Past(<<"set", t>>) /\ Past(<<"check", t>>)

\* What is left behind by the scripts is accounted for by the faults: kept by
\* every step, and what the next three properties follow from.
FaultsAccountFor ==
  StagesBuildUp /\ EndedJob /\ ImagesKnown /\ FaultsCounted /\ TemplatesFirst

\* When the network stage counts as done, a component or template that is not
\* on the target was missed by two commands, the one that sets it and the one
\* that checks it: "if kubectl get" and "|| echo" let each pass once.
MissedTwice ==
  phase \in {"Verifying", "Completed"} =>
    LET missed == {c \in FabricParts : image[c] # Target}
    IN  /\ 2 * Cardinality(missed) <= faults
        /\ image["controller-manager"] = Target

\* After a rollback that covers the fabric, what is left on the target was
\* passed over; nothing checks the components after a rollback.
RollbackMissesOnlyFaulted ==
  rolledBack =>
    /\ image["controller-manager"] = Previous
    /\ job.last = "UpgradingNetworkFabric" =>
         Cardinality({c \in Installed : image[c] # Previous}) <= faults

\* "MUST happen before gateway instance recreation": from the start of the
\* network script on, also where the upgrade has failed meanwhile, none is
\* rendered from a template of the old version, unless a failed patch was
\* followed by a failed read.
RecreatedFromNewTemplate ==
  [][\A g \in Gateways :
       /\ job.stage = "UpgradingNetworkFabric"
       /\ wg[g] # wg'[g]
       /\ wg'[g] \notin {Missing, Target}
       => faults >= 2]_vars

\* After Completed every gateway comes back and stays on the target, though
\* the script may have ended while its deployment was gone: a deployment that
\* is not there passes the final check.  With at most one fault.
GatewaysConverge ==
  (phase = "Completed" /\ faults <= 1)
    ~> [](\A g \in Gateways : gateway[g] = Target)

\* The scripts keep what LiqoUpgradeController assumes of its Jobs.
Contract ==
  INSTANCE JobContract WITH
    Stages   <- Stages \cup {"RollingBack"},
    job      <- job.stage,
    version  <- Version(job.stage),
    state    <- IF /\ job.state = "running"
                   /\ job.at > 1
                   /\ job.stage \in {"UpgradingControllerManager", "RollingBack"}
                THEN "applied" ELSE job.state,
    deployed <- image["controller-manager"]

\* Every step of a script is one that the reconciler's model lets its Job take.
KeepsContract == Contract!Spec

\* What README.md promises when the network stage fails: the rollback takes
\* back what that stage changed, "Gateway templates" and components alike.
FailedFabricIsRolledBack ==
  (rolledBack /\ lastSuccessfulPhase = "UpgradingControllerManager") =>
    \A c \in FabricParts : image[c] = Previous

=============================================================================
