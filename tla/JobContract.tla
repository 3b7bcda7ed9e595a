---------------------------- MODULE JobContract ----------------------------
(***************************************************************************)
(* What the reconciler's model assumes of the Jobs, one at a time: which   *)
(* of them change the image of the controller-manager, to what, and what a *)
(* success says.  LiqoUpgradeController has these steps as JobApplies,     *)
(* JobSucceeds and JobFails; UpgradeJobs has the scripts that take them.   *)
(***************************************************************************)
CONSTANTS Tags, Stages

VARIABLES
  job,        \* the phase that waits for the present Job
  version,    \* the version its script was given
  state,      \* "running", "applied", "succeeded" or "failed"
  deployed    \* the image tag of the controller-manager

contract == <<job, version, state, deployed>>

SetsImage == job \in {"UpgradingControllerManager", "RollingBack"}

Init ==
  /\ job \in Stages
  /\ version \in Tags
  /\ state = "running"
  /\ deployed \in Tags

\* The reconciler creates the next Job when the last one has a result.
Start ==
  /\ state \in {"succeeded", "failed"}
  /\ job' \in Stages \ {job}
  /\ version' \in Tags
  /\ state' = "running"
  /\ UNCHANGED deployed

Apply ==
  /\ SetsImage
  /\ state = "running"
  /\ state' = "applied"
  /\ deployed' = version
  /\ UNCHANGED <<job, version>>

Succeed ==
  /\ IF SetsImage THEN state = "applied" /\ deployed = version
                  ELSE state = "running"
  /\ state' = "succeeded"
  /\ UNCHANGED <<job, version, deployed>>

Fail ==
  /\ state \in {"running", "applied"}
  /\ state' = "failed"
  /\ UNCHANGED <<job, version, deployed>>

Next == Start \/ Apply \/ Succeed \/ Fail

Spec == Init /\ [][Next]_contract

=============================================================================
