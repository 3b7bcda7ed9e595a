---------------------------- MODULE LiqoVersions ----------------------------
(***************************************************************************)
(* How validation decides whether an upgrade may start: steps 1 to 5 of    *)
(* performValidation, from the image of the controller-manager and the     *)
(* ForeignClusters to the entry of the compatibility matrix.  It is what   *)
(* LiqoUpgradeController has as the choice between ChecksRefuse and a pair *)
(* in Compatible.  The two loops, over the versions and over the parts of  *)
(* two of them, are actions, one iteration each, so that what they compute *)
(* can be proved for lists and versions of any length.                     *)
(*                                                                         *)
(* A version string is the record of its leading "v" and of the parts its  *)
(* dots separate; two are the same string when the records are equal.      *)
(*                                                                         *)
(* A definition whose comment begins with "Faulty" is a plausible bug in   *)
(* the definition after it, and no part of the model.                      *)
(***************************************************************************)
EXTENDS Integers, Sequences

CONSTANTS
  Parts,      \* what may stand between two dots
  Number,     \* Number[p]: what Sscanf("%d") reads from p, 0 where it fails
  NoVersion,  \* a ForeignCluster that does not say its version
  Images,     \* images of the controller-manager, as their ":"-separated fields
  Remotes,    \* the versions the ForeignClusters say, in the order listed
  Matrices,   \* contents of the ConfigMap: sets of pairs <<source, target>>
  Targets     \* values of spec.targetVersion

Versions == [v : BOOLEAN, parts : Seq(Parts)]

ASSUME VersionsAssumption ==
  /\ Number \in [Parts -> Int]
  /\ NoVersion \notin Versions
  /\ Images \subseteq Seq(Versions)
  /\ Remotes \subseteq Seq(Versions \cup {NoVersion})
  /\ Matrices \subseteq SUBSET (Versions \X Versions)
  /\ Targets \subseteq Versions

VARIABLES
  image, remotes, matrix, target,  \* what the cluster and the user say
  local,                           \* localVersion
  versions,                        \* allVersions
  minimum,                         \* minVersion
  next,                            \* the version the outer loop is at
  part,                            \* the part the inner loop is at
  pc

inputs == <<image, remotes, matrix, target>>
vars == <<inputs, local, versions, minimum, next, part, pc>>

PCs == {"detect", "list", "find", "accepted", "refused"}

TypeInvariant ==
  /\ image \in Images
  /\ remotes \in Remotes
  /\ matrix \in Matrices
  /\ target \in Targets
  /\ local \in Versions \cup {NoVersion}
  /\ minimum \in Versions \cup {NoVersion}
  /\ versions \in Seq(Versions)
  /\ next \in Nat \ {0}
  /\ part \in Nat \ {0}
  /\ pc \in PCs
  /\ pc \in {"list", "find", "accepted"} => local \in Versions

Init ==
  /\ image \in Images
  /\ remotes \in Remotes
  /\ matrix \in Matrices
  /\ target \in Targets
  /\ local = NoVersion
  /\ versions = <<>>
  /\ minimum = NoVersion
  /\ next = 1
  /\ part = 1
  /\ pc = "detect"

----------------------------------------------------------------------------

\* The Deployment, the list or the ConfigMap cannot be read, the Deployment
\* has no container, or the ConfigMap is not there or does not parse.
ReadFails ==
  /\ pc \in {"detect", "list", "find"}
  /\ pc' = "refused"
  /\ UNCHANGED <<inputs, local, versions, minimum, next, part>>

\* The last field of the image, with a "v" if it has none.  An image without
\* ":" is an error; one without a tag, of a registry with a port, is not.
detectDeployedVersion ==
  /\ pc = "detect"
  /\ Len(image) >= 2
  /\ local' = [image[Len(image)] EXCEPT !.v = TRUE]
  /\ pc' = "list"
  /\ UNCHANGED <<inputs, versions, minimum, next, part>>

InvalidImage ==
  /\ pc = "detect"
  /\ Len(image) < 2
  /\ pc' = "refused"
  /\ UNCHANGED <<inputs, local, versions, minimum, next, part>>

\* Faulty: a cluster that does not say its version is left as it is.
getRemoteVersionsAsTheyAre ==
  /\ pc = "list"
  /\ versions' = <<local>> \o remotes
  /\ minimum' = local
  /\ next' = 2
  /\ part' = 1
  /\ pc' = "find"
  /\ UNCHANGED <<inputs, local>>

\* A cluster that does not say its version counts as one with the local
\* version; a "v" is not added to the others.  The local one comes first.
getRemoteClusterVersions ==
  /\ pc = "list"
  /\ versions' = <<local>> \o [i \in 1..Len(remotes) |->
                                 IF remotes[i] = NoVersion THEN local
                                                           ELSE remotes[i]]
  /\ minimum' = local
  /\ next' = 2
  /\ part' = 1
  /\ pc' = "find"
  /\ UNCHANGED <<inputs, local>>

----------------------------------------------------------------------------
(***************************************************************************)
(* findMinimumVersion and compareVersions.                                 *)
(***************************************************************************)

\* A version that has fewer parts reads as if its missing ones were 0.
PartOf(version, i) ==
  IF i <= Len(version.parts) THEN Number[version.parts[i]] ELSE 0

\* Faulty: parts that only one of the two versions has are not compared.
ShorterLength(v, w) ==
  IF Len(v.parts) < Len(w.parts) THEN Len(v.parts) ELSE Len(w.parts)

maxLen(v, w) == IF Len(w.parts) > Len(v.parts) THEN Len(w.parts) ELSE Len(v.parts)

\* The inner loop is at a part of versions[next] and the minimum.
Comparing ==
  /\ pc = "find"
  /\ next <= Len(versions)
  /\ part <= maxLen(versions[next], minimum)

\* Faulty: the next comparison begins at the part where the last one ended.
NextVersionSamePart ==
  /\ next' = next + 1
  /\ UNCHANGED <<inputs, local, versions, part, pc>>

NextVersion ==
  /\ next' = next + 1
  /\ part' = 1
  /\ UNCHANGED <<inputs, local, versions, pc>>

PartsEqual ==
  /\ Comparing
  /\ PartOf(versions[next], part) = PartOf(minimum, part)
  /\ part' = part + 1
  /\ UNCHANGED <<inputs, local, versions, minimum, next, pc>>

LowerFound ==
  /\ Comparing
  /\ PartOf(versions[next], part) < PartOf(minimum, part)
  /\ minimum' = versions[next]
  /\ NextVersion

NotLower ==
  /\ pc = "find"
  /\ next <= Len(versions)
  /\ \/ part > maxLen(versions[next], minimum)
     \/ PartOf(versions[next], part) > PartOf(minimum, part)
  /\ UNCHANGED minimum
  /\ NextVersion

\* Faulty: the entry of the local version decides.
LocalIsCompatible ==
  /\ pc = "find"
  /\ next > Len(versions)
  /\ pc' = IF <<local, target>> \in matrix THEN "accepted" ELSE "refused"
  /\ UNCHANGED <<inputs, local, versions, minimum, next, part>>

\* The entry is found under the minimum as it is spelt.
isCompatible ==
  /\ pc = "find"
  /\ next > Len(versions)
  /\ pc' = IF <<minimum, target>> \in matrix THEN "accepted" ELSE "refused"
  /\ UNCHANGED <<inputs, local, versions, minimum, next, part>>

Next ==
  \/ ReadFails \/ detectDeployedVersion \/ InvalidImage
  \/ getRemoteClusterVersions
  \/ PartsEqual \/ LowerFound \/ NotLower
  \/ isCompatible

Spec == Init /\ [][Next]_vars

----------------------------------------------------------------------------
(***************************************************************************)
(* What the decision should be.                                            *)
(***************************************************************************)

\* The order that versions have: by their first parts that differ as numbers.
Lower(v, w) ==
  \E i \in DOMAIN v.parts \cup DOMAIN w.parts :
    /\ PartOf(v, i) < PartOf(w, i)
    /\ \A j \in 1..(i - 1) : PartOf(v, j) = PartOf(w, j)

Listed == {versions[i] : i \in 1..Len(versions)}

\* When the loops end the minimum is a version of some cluster and none has a
\* lower one, whatever the lengths of the versions and their order in the list.
MinimumIsLowest ==
  pc = "find" /\ next > Len(versions) =>
    /\ minimum \in Listed
    /\ \A v \in Listed : ~Lower(v, minimum)

\* No two clusters spell the same version in two ways ("1.0.0" and "v1.0.0").
Unambiguous ==
  \A v, w \in Listed : ~Lower(v, w) /\ ~Lower(w, v) => v = w

\* An accepted upgrade is in the matrix for the lowest version of any cluster,
\* so the order in which the API server lists ForeignClusters does not matter
\* to it; that takes unambiguous spelling, since the matrix is keyed by it.
LowestMayUpgrade ==
  pc = "accepted" /\ Unambiguous =>
    \A v \in Listed : (\A w \in Listed : ~Lower(w, v)) => <<v, target>> \in matrix

\* Inside the loops: the minimum is the lowest so far, and the two versions
\* under comparison agree up to the part the inner loop is at.
LoopInvariant ==
  pc \in {"find", "accepted"} =>
    /\ next \in 2..(Len(versions) + 1)
    /\ \E i \in 1..(next - 1) : minimum = versions[i]
    /\ \A i \in 1..(next - 1) : ~Lower(versions[i], minimum)
    /\ next <= Len(versions) =>
         \A k \in 1..(part - 1) : PartOf(versions[next], k) = PartOf(minimum, k)
    /\ pc = "accepted" => next > Len(versions) /\ <<minimum, target>> \in matrix

(***************************************************************************)
(* What the ConfigMap says and the code does not keep.                     *)
(***************************************************************************)

\* "Only FORWARD upgrades are supported": an accepted target is not lower
\* than the version the local cluster runs.
OnlyForward == pc = "accepted" => ~Lower(target, local)

=============================================================================
