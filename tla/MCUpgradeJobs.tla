--------------------------- MODULE MCUpgradeJobs ---------------------------
(***************************************************************************)
(* Small instances of UpgradeJobs: two CRD files, and a tenant namespace   *)
(* for each kind of gateway.                                               *)
(***************************************************************************)
EXTENDS UpgradeJobs

MCTags == {"v1.0.0", "v1.0.1"}

MCContains == {<<t, t>> : t \in MCTags}

MCKind == [g \in Gateways |-> IF g = "gw-a" THEN "client" ELSE "server"]

=============================================================================
