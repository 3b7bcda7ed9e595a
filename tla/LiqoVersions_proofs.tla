------------------------- MODULE LiqoVersions_proofs -------------------------
(***************************************************************************)
(* For lists and versions of any length, and whatever the parts read as:   *)
(* the loops of validation find the lowest version, and what is accepted   *)
(* is in the matrix for it.                                                *)
(***************************************************************************)
EXTENDS LiqoVersions, TLAPS

\* A part of a version is a number, whatever it is made of.
LEMMA PartIsNumber ==
  ASSUME NEW v \in Versions, NEW i \in Nat \ {0}
  PROVE  PartOf(v, i) \in Int
  BY VersionsAssumption DEF PartOf, Versions

\* The length of the longer of two versions.
LEMMA MaxLenIsNat ==
  ASSUME NEW v \in Versions, NEW w \in Versions
  PROVE  /\ maxLen(v, w) \in Nat
         /\ Len(v.parts) <= maxLen(v, w) /\ Len(w.parts) <= maxLen(v, w)
  BY DEF maxLen, Versions

\* Past the longer of two versions both read 0.
LEMMA PaddedWithZero ==
  ASSUME NEW v \in Versions, NEW w \in Versions,
         NEW i \in Nat \ {0}, i > maxLen(v, w)
  PROVE  PartOf(v, i) = 0 /\ PartOf(w, i) = 0
<1> Len(v.parts) \in Nat /\ Len(w.parts) \in Nat
  BY DEF Versions
<1> QED
  BY MaxLenIsNat DEF PartOf

\* The inner loop's range is that of the parts of either version.
LEMMA RangeOfParts ==
  ASSUME NEW v \in Versions, NEW w \in Versions
  PROVE  1..maxLen(v, w) = DOMAIN v.parts \cup DOMAIN w.parts
<1>1. /\ DOMAIN v.parts = 1..Len(v.parts) /\ Len(v.parts) \in Nat
      /\ DOMAIN w.parts = 1..Len(w.parts) /\ Len(w.parts) \in Nat
  BY DEF Versions
<1> QED
  BY <1>1 DEF maxLen

\* v is lower as soon as it has the first lower part, at whatever position.
LEMMA FirstDifference ==
  ASSUME NEW v \in Versions, NEW w \in Versions, NEW i \in Nat \ {0},
         PartOf(v, i) < PartOf(w, i),
         \A j \in 1..(i - 1) : PartOf(v, j) = PartOf(w, j)
  PROVE  Lower(v, w)
<1>1. i <= maxLen(v, w)
  BY PaddedWithZero, MaxLenIsNat
<1>2. i \in 1..maxLen(v, w)
  BY <1>1, MaxLenIsNat
<1> QED
  BY <1>2, RangeOfParts DEF Lower

\* A version that has the first higher part is not lower.
LEMMA NotLowerAt ==
  ASSUME NEW v \in Versions, NEW w \in Versions, NEW i \in Nat \ {0},
         PartOf(v, i) > PartOf(w, i),
         \A j \in 1..(i - 1) : PartOf(v, j) = PartOf(w, j)
  PROVE  ~Lower(v, w)
<1> SUFFICES ASSUME NEW k \in 1..maxLen(v, w),
                    PartOf(v, k) < PartOf(w, k),
                    \A j \in 1..(k - 1) : PartOf(v, j) = PartOf(w, j)
             PROVE  FALSE
  BY RangeOfParts DEF Lower
<1>1. k \in Nat \ {0}
  BY MaxLenIsNat
<1>2. PartOf(v, k) \in Int /\ PartOf(w, k) \in Int
      /\ PartOf(v, i) \in Int /\ PartOf(w, i) \in Int
  BY <1>1, PartIsNumber
<1>3. CASE k < i
  BY <1>1, <1>2, <1>3
<1>4. CASE k = i
  BY <1>2, <1>4
<1>5. CASE i < k
  BY <1>1, <1>2, <1>5
<1> QED
  BY <1>1, <1>3, <1>4, <1>5

\* Versions whose parts are all the same numbers are not lower than another.
LEMMA NotLowerIfEqual ==
  ASSUME NEW v \in Versions, NEW w \in Versions,
         \A j \in 1..maxLen(v, w) : PartOf(v, j) = PartOf(w, j)
  PROVE  ~Lower(v, w)
<1> SUFFICES ASSUME NEW k \in 1..maxLen(v, w), PartOf(v, k) < PartOf(w, k)
             PROVE  FALSE
  BY RangeOfParts DEF Lower
<1>1. k \in Nat \ {0}
  BY MaxLenIsNat
<1> QED
  BY <1>1, PartIsNumber

LEMMA LowerIsIrreflexive ==
  ASSUME NEW v \in Versions
  PROVE  ~Lower(v, v)
  BY NotLowerIfEqual

\* The order of versions is transitive, so the minimum of a list does not
\* depend on which versions were compared with which.
LEMMA LowerIsTransitive ==
  ASSUME NEW u \in Versions, NEW v \in Versions, NEW w \in Versions,
         Lower(u, v), Lower(v, w)
  PROVE  Lower(u, w)
<1>1. PICK a \in 1..maxLen(u, v) :
        PartOf(u, a) < PartOf(v, a)
        /\ \A j \in 1..(a - 1) : PartOf(u, j) = PartOf(v, j)
  BY RangeOfParts DEF Lower
<1>2. PICK b \in 1..maxLen(v, w) :
        PartOf(v, b) < PartOf(w, b)
        /\ \A j \in 1..(b - 1) : PartOf(v, j) = PartOf(w, j)
  BY RangeOfParts DEF Lower
<1>3. a \in Nat \ {0} /\ b \in Nat \ {0}
  BY MaxLenIsNat
<1>4. \A i \in Nat \ {0} : PartOf(u, i) \in Int /\ PartOf(v, i) \in Int
                           /\ PartOf(w, i) \in Int
  BY PartIsNumber
<1>5. CASE a <= b
  <2>1. PartOf(u, a) < PartOf(w, a)
    <3>1. CASE a = b
      BY <1>1, <1>2, <1>3, <1>4, <3>1
    <3>2. CASE a < b
      <4>1. PartOf(v, a) = PartOf(w, a)
        BY <1>2, <1>3, <3>2
      <4> QED
        BY <1>1, <1>3, <1>4, <4>1
    <3> QED
      BY <1>3, <1>5, <3>1, <3>2
  <2>2. \A j \in 1..(a - 1) : PartOf(u, j) = PartOf(w, j)
    BY <1>1, <1>2, <1>3, <1>5
  <2> QED
    BY <1>3, <2>1, <2>2, FirstDifference
<1>6. CASE b < a
  <2>1. PartOf(u, b) = PartOf(v, b)
    BY <1>1, <1>3, <1>6
  <2>2. PartOf(u, b) < PartOf(w, b)
    BY <1>2, <1>3, <1>4, <2>1
  <2>3. \A j \in 1..(b - 1) : PartOf(u, j) = PartOf(w, j)
    BY <1>1, <1>2, <1>3, <1>6
  <2> QED
    BY <1>3, <2>2, <2>3, FirstDifference
<1> QED
  BY <1>3, <1>5, <1>6

-----------------------------------------------------------------------------

\* Every step keeps the types.
LEMMA TypesKept == TypeInvariant /\ [Next]_vars => TypeInvariant'
<1> SUFFICES ASSUME TypeInvariant, [Next]_vars PROVE TypeInvariant'
  OBVIOUS
<1> USE DEF TypeInvariant, inputs, PCs
<1>1. CASE ReadFails
  BY <1>1 DEF ReadFails
<1>2. CASE detectDeployedVersion
  <2>1. image \in Seq(Versions) /\ Len(image) \in 1..Len(image)
    BY <1>2, VersionsAssumption DEF detectDeployedVersion
  <2>2. image[Len(image)] \in Versions
    BY <2>1
  <2>3. local' \in Versions
    BY <1>2, <2>2 DEF detectDeployedVersion, Versions
  <2> QED
    BY <1>2, <2>3 DEF detectDeployedVersion
<1>3. CASE InvalidImage
  BY <1>3 DEF InvalidImage
<1>4. CASE getRemoteClusterVersions
  <2>1. remotes \in Seq(Versions \cup {NoVersion}) /\ local \in Versions
    BY <1>4, VersionsAssumption DEF getRemoteClusterVersions
  <2> DEFINE said == [i \in 1..Len(remotes) |->
                        IF remotes[i] = NoVersion THEN local ELSE remotes[i]]
  <2>2. said \in Seq(Versions)
    <3>1. Len(remotes) \in Nat
      BY <2>1
    <3>2. said \in [1..Len(remotes) -> Versions]
      BY <2>1
    <3> QED
      BY <3>1, <3>2
  <2>3. <<local>> \o said \in Seq(Versions)
    BY <2>1, <2>2
  <2>4. versions' = <<local>> \o said
    BY <1>4 DEF getRemoteClusterVersions
  <2> QED
    BY <1>4, <2>1, <2>3, <2>4 DEF getRemoteClusterVersions
<1>5. CASE PartsEqual
  BY <1>5 DEF PartsEqual
<1>6. CASE LowerFound
  <2>1. next \in 1..Len(versions)
    BY <1>6 DEF LowerFound, Comparing
  <2>2. versions[next] \in Versions
    BY <2>1
  <2> QED
    BY <1>6, <2>2 DEF LowerFound, Comparing, NextVersion
<1>7. CASE NotLower
  BY <1>7 DEF NotLower, NextVersion
<1>8. CASE isCompatible
  BY <1>8 DEF isCompatible
<1>9. CASE UNCHANGED vars
  BY <1>9 DEF vars
<1> QED
  BY <1>1, <1>2, <1>3, <1>4, <1>5, <1>6, <1>7, <1>8, <1>9 DEF Next

LEMMA InitTypes == Init => TypeInvariant
  BY DEF Init, TypeInvariant, PCs

\* Every variable keeps its type, and a version was detected before the
\* clusters' versions are listed.
THEOREM TypeCorrect == Spec => []TypeInvariant
  BY InitTypes, TypesKept, PTL DEF Spec

-----------------------------------------------------------------------------

\* When a lower version is found, it is lower than all that came before it.
LEMMA LowerFoundKeeps ==
  ASSUME TypeInvariant, LoopInvariant, LowerFound
  PROVE  LoopInvariant'
<1> USE DEF TypeInvariant
<1>1. /\ pc = "find" /\ pc' = "find" /\ versions' = versions
      /\ next \in 2..Len(versions) /\ next' = next + 1 /\ part' = 1
      /\ minimum' = versions[next]
  BY DEF LowerFound, Comparing, NextVersion, LoopInvariant
<1>2. Len(versions) \in Nat /\ next \in Nat
  BY <1>1
<1>3. \A i \in 1..Len(versions) : versions[i] \in Versions
  OBVIOUS
<1>4. PICK k \in 1..(next - 1) : minimum = versions[k]
  BY <1>1 DEF LoopInvariant
<1>5. minimum \in Versions /\ versions[next] \in Versions
  BY <1>1, <1>2, <1>3, <1>4
<1>6. Lower(versions[next], minimum)
  BY <1>1, <1>5, FirstDifference DEF LowerFound, LoopInvariant
<1>7. \A i \in 1..next : ~Lower(versions[i], versions[next])
  <2> SUFFICES ASSUME NEW i \in 1..next, Lower(versions[i], versions[next])
               PROVE  FALSE
    OBVIOUS
  <2>1. versions[i] \in Versions
    BY <1>1, <1>2, <1>3
  <2>2. CASE i = next
    <3> QED
      BY <1>5, <2>2, LowerIsIrreflexive
  <2>3. CASE i < next
    <3>1. Lower(versions[i], minimum)
      BY <1>5, <1>6, <2>1, LowerIsTransitive
    <3>2. i \in 1..(next - 1)
      BY <1>2, <2>3
    <3> QED
      BY <1>1, <3>1, <3>2 DEF LoopInvariant
  <2> QED
    BY <1>2, <2>2, <2>3
<1> QED
  BY <1>1, <1>2, <1>7 DEF LoopInvariant

\* A version that is not lower leaves the minimum what it was.
LEMMA NotLowerKeeps ==
  ASSUME TypeInvariant, LoopInvariant, NotLower
  PROVE  LoopInvariant'
<1> USE DEF TypeInvariant
<1>1. /\ pc = "find" /\ pc' = "find" /\ versions' = versions
      /\ next \in 2..Len(versions) /\ next' = next + 1 /\ part' = 1
      /\ minimum' = minimum
  BY DEF NotLower, NextVersion, LoopInvariant
<1>2. Len(versions) \in Nat /\ next \in Nat
  BY <1>1
<1>3. PICK k \in 1..(next - 1) : minimum = versions[k]
  BY <1>1 DEF LoopInvariant
<1>4. minimum \in Versions /\ versions[next] \in Versions
  BY <1>1, <1>2, <1>3
<1>5. ~Lower(versions[next], minimum)
  <2>1. CASE part > maxLen(versions[next], minimum)
    <3>1. 1..maxLen(versions[next], minimum) \subseteq 1..(part - 1)
      BY <1>4, <2>1, MaxLenIsNat
    <3>2. \A j \in 1..(part - 1) : PartOf(versions[next], j) = PartOf(minimum, j)
      BY <1>1 DEF LoopInvariant
    <3>3. \A j \in 1..maxLen(versions[next], minimum) :
            PartOf(versions[next], j) = PartOf(minimum, j)
      BY <3>1, <3>2
    <3> QED
      BY ONLY <1>4, <3>3, NotLowerIfEqual
  <2>2. CASE PartOf(versions[next], part) > PartOf(minimum, part)
    BY <1>1, <1>4, <2>2, NotLowerAt DEF LoopInvariant
  <2> QED
    BY <2>1, <2>2 DEF NotLower
<1>6. \A i \in 1..next : ~Lower(versions[i], minimum)
  BY <1>1, <1>2, <1>5 DEF LoopInvariant
<1> QED
  BY <1>1, <1>2, <1>3, <1>6 DEF LoopInvariant

\* Before the loops the local version is the minimum of itself.
LEMMA ListingStartsLoop ==
  ASSUME TypeInvariant, getRemoteClusterVersions
  PROVE  LoopInvariant'
<1>1. TypeInvariant'
  BY TypesKept DEF Next
<1> DEFINE said == [i \in 1..Len(remotes) |->
                      IF remotes[i] = NoVersion THEN local ELSE remotes[i]]
<1>2. versions' = <<local>> \o said
  BY DEF getRemoteClusterVersions
<1>3. local \in Versions /\ remotes \in Seq(Versions \cup {NoVersion})
  BY VersionsAssumption DEF TypeInvariant, getRemoteClusterVersions
<1>4. Len(remotes) \in Nat /\ said \in Seq(Versions)
  <2>1. Len(remotes) \in Nat
    BY <1>3
  <2>2. said \in [1..Len(remotes) -> Versions]
    BY <1>3
  <2> QED
    BY <2>1, <2>2
<1> HIDE DEF said
<1>5. versions'[1] = local /\ Len(versions') >= 1
  BY <1>2, <1>3, <1>4
<1>6. pc' = "find" /\ next' = 2 /\ part' = 1 /\ minimum' = local
  BY DEF getRemoteClusterVersions
<1>7. Len(versions') \in Nat
  BY <1>1 DEF TypeInvariant
<1> QED
  BY <1>3, <1>5, <1>6, <1>7, LowerIsIrreflexive DEF LoopInvariant

LEMMA LoopInvariantKept ==
  ASSUME TypeInvariant, LoopInvariant, [Next]_vars
  PROVE  LoopInvariant'
<1>1. CASE ReadFails
  BY <1>1 DEF ReadFails, LoopInvariant
<1>2. CASE detectDeployedVersion
  BY <1>2 DEF detectDeployedVersion, LoopInvariant
<1>3. CASE InvalidImage
  BY <1>3 DEF InvalidImage, LoopInvariant
<1>4. CASE getRemoteClusterVersions
  BY <1>4, ListingStartsLoop
<1>5. CASE PartsEqual
  BY <1>5 DEF PartsEqual, Comparing, LoopInvariant, TypeInvariant, inputs
<1>6. CASE LowerFound
  BY <1>6, LowerFoundKeeps
<1>7. CASE NotLower
  BY <1>7, NotLowerKeeps
<1>8. CASE isCompatible
  BY <1>8 DEF isCompatible, LoopInvariant, TypeInvariant, inputs
<1>9. CASE UNCHANGED vars
  BY <1>9 DEF vars, inputs, LoopInvariant
<1> QED
  BY <1>1, <1>2, <1>3, <1>4, <1>5, <1>6, <1>7, <1>8, <1>9 DEF Next

\* The invariant of the two loops.
THEOREM LoopsKeepInvariant == Spec => []LoopInvariant
<1>1. Init => LoopInvariant
  BY DEF Init, LoopInvariant
<1> QED
  BY <1>1, TypeCorrect, LoopInvariantKept, PTL DEF Spec

\* When the loops end, the minimum is the version of some cluster and no
\* cluster has a lower one.
THEOREM LowestIsFound == Spec => []MinimumIsLowest
<1>1. TypeInvariant /\ LoopInvariant => MinimumIsLowest
  BY DEF TypeInvariant, LoopInvariant, MinimumIsLowest, Listed
<1> QED
  BY <1>1, TypeCorrect, LoopsKeepInvariant, PTL

\* An accepted upgrade is in the matrix for the lowest version of any
\* cluster, in whatever order they are listed.
THEOREM LowestDecides == Spec => []LowestMayUpgrade
<1>1. ASSUME TypeInvariant, LoopInvariant PROVE LowestMayUpgrade
  <2> SUFFICES ASSUME pc = "accepted", Unambiguous, NEW v \in Listed,
                      \A w \in Listed : ~Lower(w, v)
               PROVE  <<v, target>> \in matrix
    BY DEF LowestMayUpgrade
  <2>1. minimum \in Listed /\ ~Lower(v, minimum) /\ <<minimum, target>> \in matrix
    BY <1>1 DEF TypeInvariant, LoopInvariant, Listed
  <2>2. v = minimum
    BY <2>1 DEF Unambiguous
  <2> QED
    BY <2>1, <2>2
<1> QED
  BY <1>1, TypeCorrect, LoopsKeepInvariant, PTL

=============================================================================
