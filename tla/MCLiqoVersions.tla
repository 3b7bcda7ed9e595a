--------------------------- MODULE MCLiqoVersions ---------------------------
(***************************************************************************)
(* Small instances of LiqoVersions: versions that differ in each part, in  *)
(* length, in spelling and in what is read as a number ("10" is more than  *)
(* "2"; "1-rc" reads as 1 and "latest" as 0), up to two ForeignClusters,   *)
(* and part of the matrix of compatibility-configmap.yaml.                 *)
(***************************************************************************)
EXTENDS LiqoVersions

MCParts == {"0", "1", "2", "10", "1-rc", "latest"}

MCNumber ==
  [p \in MCParts |-> CASE p = "1" -> 1 [] p = "2" -> 2 [] p = "10" -> 10
                       [] p = "1-rc" -> 1 [] OTHER -> 0]

V(parts) == [v |-> TRUE, parts |-> parts]

v100 == V(<<"1", "0", "0">>)
v101 == V(<<"1", "0", "1">>)
v102 == V(<<"1", "0", "2">>)
v110 == V(<<"1", "10", "0">>)
v10  == V(<<"1", "0">>)
v101rc == V(<<"1", "0", "1-rc", "1">>)
v101plain == [v |-> FALSE, parts |-> <<"1", "0", "1">>]
latest == [v |-> FALSE, parts |-> <<"latest">>]

MCImages == {<<latest>>, <<latest, v101plain>>, <<latest, v102>>,
             <<latest, v110>>, <<latest, latest, latest>>}

RemoteVersions == {v100, v101, v102, v110, v10, v101rc, v101plain, latest}

MCRemotes == {<<>>} \cup {<<v>> : v \in RemoteVersions}
                    \cup {<<v, w>> : v, w \in RemoteVersions \cup {NoVersion}}

MCMatrices == {{}, {<<v100, v101>>, <<v100, v102>>, <<v101, v102>>, <<v102, v110>>}}

MCTargets == {v101, v102, v110}

=============================================================================
