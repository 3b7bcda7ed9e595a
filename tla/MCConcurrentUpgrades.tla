------------------------ MODULE MCConcurrentUpgrades ------------------------
(***************************************************************************)
(* Two upgrades, each to either of two versions.  The matrix lets both go  *)
(* to the first at once, and one of them go on from where the other, not   *)
(* yet done or about to be rolled back, has got to.                        *)
(***************************************************************************)
EXTENDS ConcurrentUpgrades, TLC

CONSTANTS a, b

MCCompatible == {<<"v1.0.0", "v1.0.1">>, <<"v1.0.1", "v1.0.2">>}

\* No action and no property tells one name from another.
SameNames == Permutations(Names)

=============================================================================
