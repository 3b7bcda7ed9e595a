---------------------- MODULE MCLiqoUpgradeController ----------------------
(***************************************************************************)
(* Small instances of LiqoUpgradeController.  Liqo v1.0.0 is installed;    *)
(* the matrix accepts v1.0.1, with or without its "v", but not v2.0.0.     *)
(***************************************************************************)
EXTENDS LiqoUpgradeHistory

MCTags == {"v1.0.0", "v1.0.1", "1.0.1", "v2.0.0"}

MCVPrefixed == [t \in MCTags |-> IF t = "1.0.1" THEN "v1.0.1" ELSE t]

MCCompatible == {<<"v1.0.0", "v1.0.1">>, <<"v1.0.0", "1.0.1">>}

=============================================================================
