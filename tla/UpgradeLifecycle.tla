-------------------------- MODULE UpgradeLifecycle --------------------------
(***************************************************************************)
(* What one name promises to whoever reads its LiqoUpgrade: which steps    *)
(* its status takes, with no caches, no Jobs, no conflicts and no crashes. *)
(* LiqoUpgradeController implements it.                                    *)
(***************************************************************************)
EXTENDS Naturals

CONSTANTS Tags, NoVersion

VARIABLES
  uid,                  \* which resource of the name this is
  alive,                \* it exists
  phase,
  previousVersion,      \* what a rollback goes back to
  lastSuccessfulPhase,  \* the last saved stage
  rolledBack

life == <<uid, alive, phase, previousVersion, lastSuccessfulPhase, rolledBack>>

Fresh == <<"", NoVersion, "", FALSE>>

status == <<phase, previousVersion, lastSuccessfulPhase, rolledBack>>

Init == uid = 0 /\ alive = FALSE /\ status = Fresh

Create ==
  /\ ~alive
  /\ uid' = uid + 1
  /\ alive' = TRUE
  /\ status' = Fresh

Remove ==
  /\ alive
  /\ alive' = FALSE
  /\ status' = Fresh
  /\ UNCHANGED uid

\* A change of phase, and of nothing else, of a resource that exists.
Move(from, to) ==
  /\ alive
  /\ phase = from
  /\ phase' = to
  /\ UNCHANGED <<uid, alive, previousVersion, lastSuccessfulPhase, rolledBack>>

Validate == Move("", "Validating")

\* Validation passed; until the freeze is entered it may pass again.
Accept ==
  /\ alive
  /\ phase = "Validating"
  /\ previousVersion' \in Tags
  /\ UNCHANGED <<uid, alive, phase, lastSuccessfulPhase, rolledBack>>

Freeze ==
  /\ previousVersion # NoVersion
  /\ Move("Validating", "FreezingOperations")

UpgradeCRDs == Move("FreezingOperations", "UpgradingCRDs")

\* The stages whose success is saved, and the phase that may follow.
Following == [UpgradingCRDs              |-> "UpgradingControllerManager",
              UpgradingControllerManager |-> "UpgradingNetworkFabric",
              UpgradingNetworkFabric     |-> "Verifying"]

SaveSuccess ==
  /\ alive
  /\ phase \in DOMAIN Following
  /\ lastSuccessfulPhase' = phase
  /\ UNCHANGED <<uid, alive, phase, previousVersion, rolledBack>>

\* A stage is left only after its success was saved.
Advance ==
  \E p \in DOMAIN Following : lastSuccessfulPhase = p /\ Move(p, Following[p])

Complete ==
  /\ lastSuccessfulPhase = "UpgradingNetworkFabric"
  /\ Move("Verifying", "Completed")

Changing == {"FreezingOperations", "Verifying"} \cup DOMAIN Following

\* A rollback always knows the version to go back to.
RollBack ==
  /\ previousVersion # NoVersion
  /\ \E p \in Changing : Move(p, "RollingBack")

Fail == \E p \in Changing \cup {"Validating"} : Move(p, "Failed")

\* The end of a rollback says whether it worked.
FinishRollback ==
  /\ alive
  /\ phase = "RollingBack"
  /\ phase' = "Failed"
  /\ rolledBack' \in BOOLEAN
  /\ UNCHANGED <<uid, alive, previousVersion, lastSuccessfulPhase>>

Next ==
  \/ Create \/ Remove \/ Validate \/ Accept \/ Freeze \/ UpgradeCRDs
  \/ SaveSuccess \/ Advance \/ Complete \/ RollBack \/ Fail \/ FinishRollback

Spec == Init /\ [][Next]_life

=============================================================================
