---------------------------- MODULE VSWhereProofs ----------------------------
(***************************************************************************)
(* TLAPS proofs about the sort of _get_vswhere_msvc_dict (vc.py 614-628). *)
(*                                                                         *)
(* VSWhere writes Python's sorted(..., key=cmp_to_key(order)) in closed    *)
(* form: SortedInstances puts s[i] at the place given by the number of     *)
(* elements that must come before it (those the comparator puts first, and *)
(* the equal ones listed before it).  That is a stable sort only when      *)
(* msvc_instances_default_order is a consistent comparator and the places *)
(* are a permutation of the positions.  The theorem below proves both, for *)
(* every list of instances: the result lists every instance once, in the  *)
(* comparator's order, equal instances in the order vswhere listed them.   *)
(***************************************************************************)
EXTENDS VSWhere, FiniteSetTheorems, TLAPS

\* The fields msvc_instances_default_order compares have their Python types.
Comparable(a) == a.numeric \in Int /\ a.release \in BOOLEAN /\ a.rank \in Int

\* s[j] comes before s[i] in sorted(s): it sorts first, or it is equal and
\* listed first (Python's sort is stable).
Before(s, j, i) ==
    \/ InstanceOrder(s[j], s[i]) < 0
    \/ InstanceOrder(s[j], s[i]) = 0 /\ j < i

\* The elements of s that come before s[i].
Ahead(s, i) == {j \in DOMAIN s : Before(s, j, i)}

\* The position SortedInstances gives s[i].
Place(s, i) == Cardinality(Ahead(s, i)) + 1

-----------------------------------------------------------------------------
(* msvc_instances_default_order is a consistent comparator.                *)

\* msvc_instances_default_order (vc.py 614-626) returns -1, 0 or 1, and
\* swapping its arguments negates the answer.
LEMMA OrderAntisymmetric ==
    ASSUME NEW a, NEW b, Comparable(a), Comparable(b)
    PROVE  /\ InstanceOrder(a, b) \in {-1, 0, 1}
           /\ InstanceOrder(b, a) = -InstanceOrder(a, b)
BY DEF InstanceOrder, Comparable

\* msvc_instances_default_order is transitive: a sorting no later than b
\* and b no later than c puts a no later than c, equal only if all three are.
LEMMA OrderTransitive ==
    ASSUME NEW a, NEW b, NEW c, Comparable(a), Comparable(b), Comparable(c),
           InstanceOrder(a, b) <= 0, InstanceOrder(b, c) <= 0
    PROVE  /\ InstanceOrder(a, c) <= 0
           /\ InstanceOrder(a, c) = 0 =>
                 InstanceOrder(a, b) = 0 /\ InstanceOrder(b, c) = 0
BY DEF InstanceOrder, Comparable

\* An instance built by _get_vswhere_msvc_dict has comparable fields: the
\* version of a known vs_major, the release flag, a _VSWHERE_COMPONENTID_RANKING
\* entry.
LEMMA MsvcInstanceComparable ==
    ASSUME NEW r, r.component \in ComponentCandidates, r.pre \in BOOLEAN
    PROVE  Comparable(MsvcInstance(r))
<1>1. \A a, b : Rel(a, b)[1] = a /\ Rel(a, b)[2] = b
  BY Zenon DEF Rel, Ver
<1>2. VSMajorToVcVersion(r.major) \in {Rel(14, 3), Rel(14, 2), Rel(14, 1)}
  BY Zenon DEF VSMajorToVcVersion
<1>3. VerNum(VSMajorToVcVersion(r.major)) \in Int
  BY <1>1, <1>2 DEF VerNum
<1>4. QED
  BY <1>3 DEF MsvcInstance, Comparable, ComponentCandidates, ComponentRanking

-----------------------------------------------------------------------------
(* The order sorted() puts a list of instances in.                         *)

\* A list of n comparable instances.
SortableSeq(s, n) == DOMAIN s = 1..n /\ \A i \in 1..n : Comparable(s[i])

\* "Comes before in sorted()" is a strict total order on the positions of s.
LEMMA BeforeIsStrictTotalOrder ==
    ASSUME NEW n \in Nat, NEW s, SortableSeq(s, n)
    PROVE  /\ \A i \in 1..n : ~Before(s, i, i)
           /\ \A i, j \in 1..n : i # j => Before(s, j, i) \/ Before(s, i, j)
           /\ \A i, j, k \in 1..n :
                 Before(s, i, j) /\ Before(s, j, k) => Before(s, i, k)
<1>1. \A i \in 1..n : ~Before(s, i, i)
  BY OrderAntisymmetric DEF SortableSeq, Before
<1>2. \A i, j \in 1..n : i # j => Before(s, j, i) \/ Before(s, i, j)
  BY OrderAntisymmetric DEF SortableSeq, Before
<1>3. ASSUME NEW i \in 1..n, NEW j \in 1..n, NEW k \in 1..n,
             Before(s, i, j), Before(s, j, k)
      PROVE  Before(s, i, k)
  <2>1. InstanceOrder(s[i], s[j]) <= 0 /\ InstanceOrder(s[j], s[k]) <= 0
    BY <1>3, OrderAntisymmetric DEF SortableSeq, Before
  <2>2. /\ InstanceOrder(s[i], s[k]) <= 0
        /\ InstanceOrder(s[i], s[k]) = 0 =>
              InstanceOrder(s[i], s[j]) = 0 /\ InstanceOrder(s[j], s[k]) = 0
    BY <2>1, OrderTransitive DEF SortableSeq
  <2>3. QED
    BY <1>3, <2>2, OrderAntisymmetric DEF SortableSeq, Before
<1>4. QED
  BY <1>1, <1>2, <1>3

\* The elements ahead of s[i] are a finite set of positions without i.
LEMMA AheadBounds ==
    ASSUME NEW n \in Nat, NEW s, SortableSeq(s, n), NEW i \in 1..n
    PROVE  /\ Ahead(s, i) \subseteq 1..n
           /\ i \notin Ahead(s, i)
           /\ IsFiniteSet(Ahead(s, i))
<1>1. Ahead(s, i) \subseteq 1..n
  BY DEF SortableSeq, Ahead
<1>2. i \notin Ahead(s, i)
  BY BeforeIsStrictTotalOrder DEF Ahead
<1>3. IsFiniteSet(Ahead(s, i))
  BY <1>1, FS_Interval, FS_Subset
<1>4. QED
  BY <1>1, <1>2, <1>3

\* SortedInstances gives every element a place in 1..n.
LEMMA PlaceRange ==
    ASSUME NEW n \in Nat, NEW s, SortableSeq(s, n), NEW i \in 1..n
    PROVE  Place(s, i) \in 1..n
<1>1. /\ IsFiniteSet(1..n) /\ Cardinality(1..n) = n
  BY FS_Interval
<1>2. Cardinality(Ahead(s, i)) \in Nat /\ Cardinality(Ahead(s, i)) <= n
  BY <1>1, AheadBounds, FS_Subset, FS_CardinalityType
<1>3. Cardinality(Ahead(s, i)) # n
  BY <1>1, AheadBounds, FS_Subset
<1>4. QED
  BY <1>2, <1>3 DEF Place

\* An element placed before another gets the smaller place.
LEMMA PlaceMonotone ==
    ASSUME NEW n \in Nat, NEW s, SortableSeq(s, n),
           NEW i \in 1..n, NEW j \in 1..n, Before(s, j, i)
    PROVE  Place(s, j) < Place(s, i)
<1>1. Ahead(s, j) \subseteq Ahead(s, i)
  BY BeforeIsStrictTotalOrder DEF Ahead, SortableSeq
<1>2. j \in Ahead(s, i) /\ j \notin Ahead(s, j)
  BY AheadBounds DEF Ahead, SortableSeq
<1>3. /\ Cardinality(Ahead(s, j)) <= Cardinality(Ahead(s, i))
      /\ Cardinality(Ahead(s, j)) # Cardinality(Ahead(s, i))
  BY <1>1, <1>2, AheadBounds, FS_Subset
<1>5. QED
  BY <1>3, AheadBounds, FS_CardinalityType DEF Place

\* Distinct elements get distinct places, so the places are a permutation.
LEMMA PlaceBijection ==
    ASSUME NEW n \in Nat, NEW s, SortableSeq(s, n)
    PROVE  [i \in 1..n |-> Place(s, i)] \in Bijection(1..n, 1..n)
<1> DEFINE P == [i \in 1..n |-> Place(s, i)]
<1>1. P \in [1..n -> 1..n]
  BY PlaceRange
<1>2. ASSUME NEW i \in 1..n, NEW j \in 1..n, i # j
      PROVE  Place(s, i) # Place(s, j)
  <2>1. Before(s, j, i) \/ Before(s, i, j)
    BY <1>2, BeforeIsStrictTotalOrder
  <2>2. CASE Before(s, j, i)
    BY <2>2, PlaceMonotone, PlaceRange
  <2>3. CASE Before(s, i, j)
    BY <2>3, PlaceMonotone, PlaceRange
  <2>4. QED
    BY <2>1, <2>2, <2>3
<1>3. P \in Injection(1..n, 1..n)
  BY <1>1, <1>2 DEF Injection, IsInjective
<1>4. P \in Surjection(1..n, 1..n)
  BY <1>3, FS_Interval, FS_Injection
<1>5. QED
  BY <1>3, <1>4 DEF Bijection

-----------------------------------------------------------------------------
\* sorted(s, key=cmp_to_key(msvc_instances_default_order)) in
\* _get_vswhere_msvc_dict (vc.py 627) is a stable sort: SortedInstances(s)
\* is s permuted by a bijection p of its positions such that, for every two
\* places k1 < k2, the instance at k1 sorts first by version, release and
\* component rank, or compares equal and came first in vswhere's list.
THEOREM SortedIsStableSort ==
    ASSUME NEW n \in Nat, NEW s, SortableSeq(s, n)
    PROVE  \E p \in Bijection(1..n, 1..n) :
              /\ DOMAIN SortedInstances(s) = 1..n
              /\ \A k \in 1..n : SortedInstances(s)[k] = s[p[k]]
              /\ \A k1, k2 \in 1..n : k1 < k2 => Before(s, p[k1], p[k2])
<1> DEFINE p == [k \in 1..n |-> CHOOSE i \in 1..n : Place(s, i) = k]
<1>1. \A k \in 1..n : p[k] \in 1..n /\ Place(s, p[k]) = k
  <2>0. [i \in 1..n |-> Place(s, i)] \in Surjection(1..n, 1..n)
    BY PlaceBijection DEF Bijection
  <2>1. \A k \in 1..n : \E i \in 1..n : Place(s, i) = k
    BY <2>0 DEF Surjection
  <2>2. QED
    BY <2>1
<1>2. \A i \in 1..n : p[Place(s, i)] = i
  <2>0. [i \in 1..n |-> Place(s, i)] \in Injection(1..n, 1..n)
    BY PlaceBijection DEF Bijection
  <2>1. \A i, j \in 1..n : Place(s, i) = Place(s, j) => i = j
    BY <2>0 DEF Injection, IsInjective
  <2>2. QED
    BY <1>1, <2>1, PlaceRange
<1>3. p \in Bijection(1..n, 1..n)
  <2>1. p \in [1..n -> 1..n]
    BY <1>1
  <2>2. p \in Injection(1..n, 1..n)
    BY <1>1, <2>1 DEF Injection, IsInjective
  <2>3. p \in Surjection(1..n, 1..n)
    BY <1>2, <2>1, PlaceRange DEF Surjection
  <2>4. QED
    BY <2>2, <2>3 DEF Bijection
<1>4. SortedInstances(s) = [k \in 1..n |-> s[p[k]]]
  BY DEF SortedInstances, SortableSeq, Place, Ahead, Before
<1>5. ASSUME NEW k1 \in 1..n, NEW k2 \in 1..n, k1 < k2
      PROVE  Before(s, p[k1], p[k2])
  <2>1. p[k1] # p[k2]
    BY <1>1, <1>5
  <2>2. ~Before(s, p[k2], p[k1])
    BY <1>1, <1>5, PlaceMonotone
  <2>3. QED
    BY <1>1, <2>1, <2>2, BeforeIsStrictTotalOrder
<1>6. QED
  BY <1>3, <1>4, <1>5

\* The head of the sorted list, the instance find_vc_pdir_vswhere takes for
\* a version (vc.py 645), is a best one: no instance of the list sorts
\* strictly before it, and every one that compares equal to it came later
\* in vswhere's output.
THEOREM SortedHeadIsBest ==
    ASSUME NEW n \in Nat \ {0}, NEW s, SortableSeq(s, n)
    PROVE  \E h \in 1..n :
              /\ SortedInstances(s)[1] = s[h]
              /\ \A i \in 1..n \ {h} : Before(s, h, i)
<1>1. PICK p \in Bijection(1..n, 1..n) :
          /\ \A k \in 1..n : SortedInstances(s)[k] = s[p[k]]
          /\ \A k1, k2 \in 1..n : k1 < k2 => Before(s, p[k1], p[k2])
  BY SortedIsStableSort
<1>2. p \in [1..n -> 1..n] /\ \A i \in 1..n : \E k \in 1..n : p[k] = i
  BY <1>1 DEF Bijection, Surjection, Injection
<1>3. ASSUME NEW i \in 1..n \ {p[1]} PROVE Before(s, p[1], i)
  <2>1. PICK k \in 1..n : p[k] = i
    BY <1>2
  <2>2. 1 < k
    BY <2>1
  <2>3. QED
    BY <1>1, <2>1, <2>2
<1>4. 1 \in 1..n /\ p[1] \in 1..n
  BY <1>2
<1>5. SortedInstances(s)[1] = s[p[1]]
  BY <1>1, <1>4
<1>6. QED
  BY <1>3, <1>4, <1>5, Zenon

-----------------------------------------------------------------------------
(* The lists a loop builds by appending the elements it keeps (SubSeqAt). *)

\* The place SubSeqAt gives position i of I.
Cnt(I, i) == Cardinality({j \in I : j <= i})

\* Kept positions get places in 1..Cardinality(I), in increasing order.
LEMMA CntOrder ==
    ASSUME NEW I \in SUBSET Nat, IsFiniteSet(I)
    PROVE  /\ Cardinality(I) \in Nat
           /\ \A i \in I : Cnt(I, i) \in 1..Cardinality(I)
           /\ \A i, i2 \in I : i < i2 => Cnt(I, i) < Cnt(I, i2)
<1>1. IsFiniteSet(I) /\ Cardinality(I) \in Nat
  BY FS_CardinalityType
<1>2. ASSUME NEW i \in I PROVE Cnt(I, i) \in 1..Cardinality(I)
  <2>1. IsFiniteSet({j \in I : j <= i})
        /\ Cardinality({j \in I : j <= i}) <= Cardinality(I)
    BY <1>1, FS_Subset
  <2>0. i \in {j \in I : j <= i}
    <3>1. i \in Nat
      OBVIOUS
    <3>2. QED
      BY <3>1
  <2>2. Cardinality({j \in I : j <= i}) \in Nat
        /\ Cardinality({j \in I : j <= i}) # 0
    BY <2>0, <2>1, FS_EmptySet, FS_CardinalityType
  <2>3. QED
    BY <1>1, <2>1, <2>2 DEF Cnt
<1>3. ASSUME NEW i \in I, NEW i2 \in I, i < i2 PROVE Cnt(I, i) < Cnt(I, i2)
  <2>0. i \in Int /\ i2 \in Int
    OBVIOUS
  <2>1. /\ {j \in I : j <= i} \subseteq {j \in I : j <= i2}
        /\ i2 \in {j \in I : j <= i2} /\ i2 \notin {j \in I : j <= i}
    <3>1. \A j \in I : j <= i => j <= i2
      BY <1>3, <2>0
    <3>2. ~(i2 <= i)
      BY <1>3, <2>0
    <3>3. i2 <= i2
      BY <2>0
    <3>4. QED
      BY <1>3, <3>1, <3>2, <3>3
  <2>2. IsFiniteSet({j \in I : j <= i2})
    BY <1>1, FS_Subset
  <2>3. /\ Cardinality({j \in I : j <= i}) <= Cardinality({j \in I : j <= i2})
        /\ Cardinality({j \in I : j <= i}) # Cardinality({j \in I : j <= i2})
        /\ Cardinality({j \in I : j <= i}) \in Nat
    BY <2>1, <2>2, FS_Subset, FS_CardinalityType
  <2>4. QED
    BY <2>3, <2>2, FS_CardinalityType DEF Cnt
<1>4. QED
  BY <1>1, <1>2, <1>3

\* The position of I that SubSeqAt puts at place k.
SubSeqIndex(I) == [k \in 1..Cardinality(I) |-> CHOOSE i \in I : Cnt(I, i) = k]

\* SubSeqAt(s, I) lists s at the positions of I, each once, in order: it is
\* s composed with an increasing map of 1..Cardinality(I) onto I.
LEMMA SubSeqAtSpec ==
    ASSUME NEW I \in SUBSET Nat, IsFiniteSet(I), NEW s
    PROVE  /\ SubSeqIndex(I) \in [1..Cardinality(I) -> I]
           /\ SubSeqAt(s, I) = [k \in 1..Cardinality(I) |-> s[SubSeqIndex(I)[k]]]
           /\ \A k1, k2 \in 1..Cardinality(I) :
                 k1 < k2 <=> SubSeqIndex(I)[k1] < SubSeqIndex(I)[k2]
           /\ \A i \in I : \E k \in 1..Cardinality(I) : SubSeqIndex(I)[k] = i
<1> DEFINE C == Cardinality(I)
<1> DEFINE pos == SubSeqIndex(I)
<1>1. IsFiniteSet(I) /\ C \in Nat
  BY FS_CardinalityType
<1>2. \A i, i2 \in I : Cnt(I, i) = Cnt(I, i2) => i = i2
  <2>1. SUFFICES ASSUME NEW i \in I, NEW i2 \in I, Cnt(I, i) = Cnt(I, i2)
                 PROVE  i = i2
    OBVIOUS
  <2>2. i \in Int /\ i2 \in Int
    OBVIOUS
  <2>3. ~(i < i2) /\ ~(i2 < i)
    <3>1. i < i2 => Cnt(I, i) < Cnt(I, i2)
      BY CntOrder
    <3>2. i2 < i => Cnt(I, i2) < Cnt(I, i)
      BY CntOrder
    <3>3. Cnt(I, i) \in 1..C /\ Cnt(I, i2) \in 1..C /\ C \in Nat
      BY CntOrder
    <3>4. QED
      BY <2>1, <3>1, <3>2, <3>3
  <2>4. QED
    BY <2>2, <2>3
<1>3. [i \in I |-> Cnt(I, i)] \in Injection(I, 1..C)
  BY <1>2, CntOrder DEF Injection, IsInjective
<1>4. [i \in I |-> Cnt(I, i)] \in Surjection(I, 1..C)
  BY <1>1, <1>3, FS_Interval, FS_Injection
<1>5. \A k \in 1..C : pos[k] \in I /\ Cnt(I, pos[k]) = k
  <2>1. \A k \in 1..C : \E i \in I : Cnt(I, i) = k
    BY <1>4 DEF Surjection
  <2>2. QED
    BY <2>1 DEF SubSeqIndex
<1>6. pos \in [1..C -> I]
  BY <1>5 DEF SubSeqIndex
<1>7. \A k1, k2 \in 1..C : k1 < k2 <=> pos[k1] < pos[k2]
  <2>1. SUFFICES ASSUME NEW k1 \in 1..C, NEW k2 \in 1..C
                 PROVE  k1 < k2 <=> pos[k1] < pos[k2]
    OBVIOUS
  <2>2. pos[k1] < pos[k2] => k1 < k2
    <3>1. pos[k1] \in I /\ pos[k2] \in I
      BY <1>5
    <3>2. pos[k1] < pos[k2] => Cnt(I, pos[k1]) < Cnt(I, pos[k2])
      BY <3>1, CntOrder
    <3>3. QED
      BY <3>2, <1>5
  <2>3. k1 < k2 => pos[k1] < pos[k2]
    <3>1. pos[k1] \in Nat /\ pos[k2] \in Nat
      BY <1>5
    <3>2. pos[k2] < pos[k1] => k2 < k1
      <4>1. pos[k2] < pos[k1] => Cnt(I, pos[k2]) < Cnt(I, pos[k1])
        BY <3>1, <1>5, CntOrder
      <4>2. QED
        BY <4>1, <1>5
    <3>3. pos[k2] = pos[k1] => k2 = k1
      BY <1>5
    <3>4. QED
      BY <3>1, <3>2, <3>3, <1>1
  <2>4. QED
    BY <2>2, <2>3
<1>8. \A i \in I : \E k \in 1..C : pos[k] = i
  BY <1>2, <1>5, CntOrder
<1>9. SubSeqAt(s, I) = [k \in 1..C |-> s[pos[k]]]
  BY DEF SubSeqAt, Cnt, SubSeqIndex
<1>10. QED
  BY <1>6, <1>7, <1>8, <1>9

-----------------------------------------------------------------------------
(* _get_vswhere_msvc_dict, step by step.                                   *)

\* The dict key of an MSVC_INSTANCE: (vc_version_scons, vc_release).
KeyOf(m) == <<m.scons, m.release>>

\* The positions of js the loop keeps, the list it appends them to, their
\* MSVC_INSTANCE records, and that list sorted.
KeepSet(js) == {i \in DOMAIN js : Verdict(js[i]) = "keep"}
Kept(js) == SubSeqAt(js, KeepSet(js))
InstOf(js) == [i \in DOMAIN Kept(js) |-> MsvcInstance(Kept(js)[i])]
SortedOf(js) == SortedInstances(InstOf(js))

\* An instance the loop keeps has a candidate component and a known major.
LEMMA KeepFields ==
    ASSUME NEW r, Verdict(r) = "keep"
    PROVE  r.component \in ComponentCandidates /\ r.major \in VSMajors
BY DEF Verdict

\* Two kept instances with the same key have the same numeric version and
\* release, so msvc_instances_default_order compares their component ranks.
LEMMA SameKeyCompare ==
    ASSUME NEW r1, NEW r2, Verdict(r1) = "keep", Verdict(r2) = "keep",
           KeyOf(MsvcInstance(r1)) = KeyOf(MsvcInstance(r2))
    PROVE  /\ InstanceOrder(MsvcInstance(r1), MsvcInstance(r2)) <= 0 =>
                 ComponentRanking[r2.component] <= ComponentRanking[r1.component]
           /\ InstanceOrder(MsvcInstance(r1), MsvcInstance(r2)) < 0 =>
                 ComponentRanking[r2.component] < ComponentRanking[r1.component]
<1>1. \A a, b : /\ Rel(a, b)[1] = a /\ Rel(a, b)[2] = b
                /\ Exp(a, b)[1] = a /\ Exp(a, b)[2] = b
  BY Zenon DEF Rel, Exp, Ver
<1>2. \A r : VSMajorToVcVersion(r.major) \in {Rel(14, 3), Rel(14, 2), Rel(14, 1)}
  BY Zenon DEF VSMajorToVcVersion
<1>3. \A r : /\ MsvcInstance(r).numeric = 10 * MsvcInstance(r).scons[1]
                                           + MsvcInstance(r).scons[2]
             /\ MsvcInstance(r).rank = ComponentRanking[r.component]
  BY <1>1, <1>2 DEF MsvcInstance, VerNum
<1>4. /\ MsvcInstance(r1).numeric = MsvcInstance(r2).numeric
      /\ MsvcInstance(r1).release = MsvcInstance(r2).release
  BY <1>3 DEF KeyOf
<1>5. ComponentRanking[r1.component] \in Int /\ ComponentRanking[r2.component] \in Int
  BY KeepFields DEF ComponentCandidates, ComponentRanking
<1>6. /\ MsvcInstance(r1).rank = ComponentRanking[r1.component]
      /\ MsvcInstance(r2).rank = ComponentRanking[r2.component]
  BY <1>3
<1>7. InstanceOrder(MsvcInstance(r1), MsvcInstance(r2)) =
        IF ComponentRanking[r1.component] # ComponentRanking[r2.component]
        THEN IF ComponentRanking[r1.component] < ComponentRanking[r2.component]
             THEN 1 ELSE -1
        ELSE 0
  BY <1>4, <1>6 DEF InstanceOrder
<1>8. QED
  BY <1>5, <1>7

\* The kept positions of a JSON list are a finite set of naturals.
LEMMA KeepSetFinite ==
    ASSUME NEW js \in Seq(Instances)
    PROVE  /\ KeepSet(js) \in SUBSET Nat /\ IsFiniteSet(KeepSet(js))
           /\ Cardinality(KeepSet(js)) \in Nat
<1>1. KeepSet(js) \in SUBSET (1..Len(js)) /\ Len(js) \in Nat
  BY DEF KeepSet
<1>2. IsFiniteSet(1..Len(js))
  BY <1>1, FS_Interval
<1>3. IsFiniteSet(KeepSet(js))
  BY <1>1, <1>2, FS_Subset
<1>4. QED
  BY <1>1, <1>3, FS_CardinalityType

\* The sorted list holds the MSVC_INSTANCE of every kept position of js
\* once (through g), best first, and among instances that compare equal,
\* in the order vswhere listed them.
LEMMA SortedIndex ==
    ASSUME NEW js \in Seq(Instances)
    PROVE  \E g \in [1..Cardinality(KeepSet(js)) -> KeepSet(js)] :
              /\ DOMAIN SortedOf(js) = 1..Cardinality(KeepSet(js))
              /\ \A k \in 1..Cardinality(KeepSet(js)) :
                    SortedOf(js)[k] = MsvcInstance(js[g[k]])
              /\ \A i \in KeepSet(js) :
                    \E k \in 1..Cardinality(KeepSet(js)) : g[k] = i
              /\ \A k1, k2 \in 1..Cardinality(KeepSet(js)) : k1 < k2 =>
                    \/ InstanceOrder(SortedOf(js)[k1], SortedOf(js)[k2]) < 0
                    \/ /\ InstanceOrder(SortedOf(js)[k1], SortedOf(js)[k2]) = 0
                       /\ g[k1] < g[k2]
<1> DEFINE K == KeepSet(js)
<1> DEFINE m == Cardinality(K)
<1> DEFINE q == SubSeqIndex(K)
<1>1. KeepSet(js) \in SUBSET Nat /\ IsFiniteSet(KeepSet(js))
  BY KeepSetFinite
<1>2. m \in Nat
  BY KeepSetFinite
<1>3. /\ q \in [1..m -> K]
      /\ SubSeqAt(js, K) = [k \in 1..m |-> js[q[k]]]
      /\ \A k1, k2 \in 1..m : k1 < k2 <=> q[k1] < q[k2]
      /\ \A i \in K : \E k \in 1..m : q[k] = i
  <2>2. /\ SubSeqIndex(KeepSet(js)) \in [1..Cardinality(KeepSet(js)) -> KeepSet(js)]
        /\ SubSeqAt(js, KeepSet(js)) =
              [k \in 1..Cardinality(KeepSet(js)) |-> js[SubSeqIndex(KeepSet(js))[k]]]
        /\ \A k1, k2 \in 1..Cardinality(KeepSet(js)) :
              k1 < k2 <=> SubSeqIndex(KeepSet(js))[k1] < SubSeqIndex(KeepSet(js))[k2]
        /\ \A i \in KeepSet(js) :
              \E k \in 1..Cardinality(KeepSet(js)) : SubSeqIndex(KeepSet(js))[k] = i
    BY <1>1, SubSeqAtSpec
  <2>3. QED
    BY <2>2 DEF K, m, q
<1>4. InstOf(js) = [k \in 1..m |-> MsvcInstance(js[q[k]])]
  BY <1>3 DEF InstOf, Kept
<1>5. SortableSeq(InstOf(js), m)
  <2>1. ASSUME NEW k \in 1..m PROVE Comparable(MsvcInstance(js[q[k]]))
    <3>1. js[q[k]] \in Instances /\ Verdict(js[q[k]]) = "keep"
      BY <1>1, <1>3 DEF KeepSet
    <3>2. js[q[k]].component \in ComponentCandidates /\ js[q[k]].pre \in BOOLEAN
      BY <3>1, KeepFields, VSWhereAssumption
    <3>3. QED
      BY <3>2, MsvcInstanceComparable
  <2>2. QED
    BY <1>4, <2>1 DEF SortableSeq
<1>6. PICK p \in Bijection(1..m, 1..m) :
          /\ DOMAIN SortedOf(js) = 1..m
          /\ \A k \in 1..m : SortedOf(js)[k] = InstOf(js)[p[k]]
          /\ \A k1, k2 \in 1..m : k1 < k2 => Before(InstOf(js), p[k1], p[k2])
  BY <1>2, <1>5, SortedIsStableSort DEF SortedOf
<1>7. p \in [1..m -> 1..m] /\ \A k \in 1..m : \E k2 \in 1..m : p[k2] = k
  BY <1>6 DEF Bijection, Surjection, Injection
<1>8. \A k \in 1..m : SortedOf(js)[k] = MsvcInstance(js[q[p[k]]])
  BY <1>4, <1>6, <1>7
<1>9. \A i \in K : \E k \in 1..m : q[p[k]] = i
  BY <1>3, <1>7
<1>10. ASSUME NEW k1 \in 1..m, NEW k2 \in 1..m, k1 < k2
       PROVE  \/ InstanceOrder(SortedOf(js)[k1], SortedOf(js)[k2]) < 0
              \/ /\ InstanceOrder(SortedOf(js)[k1], SortedOf(js)[k2]) = 0
                 /\ q[p[k1]] < q[p[k2]]
  <2>1. Before(InstOf(js), p[k1], p[k2])
    BY <1>6, <1>10
  <2>2. p[k1] < p[k2] => q[p[k1]] < q[p[k2]]
    BY <1>3, <1>7
  <2>3. QED
    BY <2>1, <2>2, <1>4, <1>7, <1>8 DEF Before
<1>11. [k \in 1..m |-> q[p[k]]] \in [1..m -> K]
  BY <1>3, <1>7
<1>12. QED
  BY <1>6, <1>8, <1>9, <1>10, <1>11

\* find_vc_pdir_vswhere's answer from the dict built for js: the path of
\* the first instance of the key, or None (vc.py 677-684).
AnswerPath(js, v, rel) ==
    LET d == BuildVswhereDict(js).dict
    IN  IF <<v, rel>> \in DOMAIN d THEN d[<<v, rel>>][1].path ELSE None

\* The positions of the sorted list that hold the key <<v, rel>>.
KeyPos(js, v, rel) ==
    {k \in DOMAIN SortedOf(js) : KeyOf(SortedOf(js)[k]) = <<v, rel>>}

\* The dict _get_vswhere_msvc_dict builds when no instance raises.
LEMMA DictShape ==
    ASSUME NEW js \in VswOrders, js # None, BuildVswhereDict(js).err = None
    PROVE  /\ DOMAIN BuildVswhereDict(js).dict =
                 {KeyOf(SortedOf(js)[k]) : k \in DOMAIN SortedOf(js)}
           /\ \A v, rel : <<v, rel>> \in DOMAIN BuildVswhereDict(js).dict =>
                 BuildVswhereDict(js).dict[<<v, rel>>] =
                    SubSeqAt(SortedOf(js), KeyPos(js, v, rel))
<1>1. ~\E i \in DOMAIN js : Verdict(js[i]) = "KeyError"
  BY VSWhereAssumption DEF BuildVswhereDict
<1>2. QED
  BY <1>1 DEF BuildVswhereDict, SortedOf, InstOf, Kept, KeepSet, KeyOf, KeyPos

\* For any list vswhere may print, in any order: when the dict is built
\* without KeyError, find_vc_pdir_vswhere answers with the preferred
\* installation of the version and release, and None only when there is
\* none (the sort, the setdefault lists, msvc_instance_list[0]).
LEMMA DictAnswerIsBest ==
    ASSUME NEW js \in VswOrders, BuildVswhereDict(js).err = None, NEW v, NEW rel
    PROVE  IF Eligible(js, v, rel) = {}
           THEN AnswerPath(js, v, rel) = None
           ELSE \E r \in Eligible(js, v, rel) :
                   r.name = AnswerPath(js, v, rel) /\ Preferred(js, v, rel, r)
<1>1. CASE js = None
  <2>1. Eligible(js, v, rel) = {}
    BY <1>1 DEF Eligible
  <2>2. DOMAIN BuildVswhereDict(js).dict = {}
    BY <1>1 DEF BuildVswhereDict
  <2>3. QED
    BY <2>1, <2>2 DEF AnswerPath
<1>2. CASE js # None
  <2> DEFINE S == SortedOf(js)
  <2> DEFINE m == Cardinality(KeepSet(js))
  <2> DEFINE J == KeyPos(js, v, rel)
  <2>1. /\ js \in Seq(Instances)
        /\ \A i, j \in DOMAIN js : js[i] = js[j] => i = j
    BY <1>2, VSWhereAssumption
  <2>2. m \in Nat
    BY <2>1, KeepSetFinite
  <2>3. PICK g \in [1..m -> KeepSet(js)] :
            /\ DOMAIN S = 1..m
            /\ \A k \in 1..m : S[k] = MsvcInstance(js[g[k]])
            /\ \A i \in KeepSet(js) : \E k \in 1..m : g[k] = i
            /\ \A k1, k2 \in 1..m : k1 < k2 =>
                  \/ InstanceOrder(S[k1], S[k2]) < 0
                  \/ InstanceOrder(S[k1], S[k2]) = 0 /\ g[k1] < g[k2]
    BY <2>1, SortedIndex
  <2>4. \A k \in 1..m : g[k] \in DOMAIN js /\ Verdict(js[g[k]]) = "keep"
    BY <2>3 DEF KeepSet
  <2>4a. \A k \in 1..m : Comparable(MsvcInstance(js[g[k]]))
    <3>1. SUFFICES ASSUME NEW k \in 1..m PROVE Comparable(MsvcInstance(js[g[k]]))
      OBVIOUS
    <3>2. js[g[k]] \in Instances
      BY <2>1, <2>4
    <3>3. js[g[k]].pre \in BOOLEAN
      BY <3>2, VSWhereAssumption
    <3>4. js[g[k]].component \in ComponentCandidates
      BY <2>4, KeepFields
    <3>5. QED
      BY <3>3, <3>4, MsvcInstanceComparable
  <2>5. J = {k \in 1..m : KeyOf(MsvcInstance(js[g[k]])) = <<v, rel>>}
    BY <2>3 DEF KeyPos
  \* The eligible instances are those at the positions of J.
  <2>6. ASSUME NEW r
        PROVE  r \in Eligible(js, v, rel) <=> \E k \in J : r = js[g[k]]
    <3>1. ASSUME r \in Eligible(js, v, rel) PROVE \E k \in J : r = js[g[k]]
      <4>1. PICK i \in DOMAIN js :
                /\ r = js[i] /\ Verdict(js[i]) = "keep"
                /\ MsvcInstance(js[i]).scons = v
                /\ MsvcInstance(js[i]).release = rel
        BY <1>2, <3>1 DEF Eligible
      <4>2. PICK k \in 1..m : g[k] = i
        BY <2>3, <4>1 DEF KeepSet
      <4>3. k \in J
        BY <2>5, <4>1, <4>2 DEF KeyOf
      <4>4. QED
        BY <4>1, <4>2, <4>3
    <3>2. ASSUME NEW k \in J, r = js[g[k]] PROVE r \in Eligible(js, v, rel)
      <4>1. k \in 1..m /\ KeyOf(MsvcInstance(js[g[k]])) = <<v, rel>>
        BY <2>5
      <4>2. /\ MsvcInstance(js[g[k]]).scons = v
            /\ MsvcInstance(js[g[k]]).release = rel
        BY <4>1 DEF KeyOf
      <4>3. QED
        BY <1>2, <2>4, <3>2, <4>1, <4>2 DEF Eligible
    <3>3. QED
      BY <3>1, <3>2
  <2>7. <<v, rel>> \in DOMAIN BuildVswhereDict(js).dict <=> J # {}
    <3>1. DOMAIN BuildVswhereDict(js).dict = {KeyOf(S[k]) : k \in DOMAIN S}
      BY <1>2, DictShape
    <3>2. QED
      BY <2>3, <3>1 DEF KeyPos
  <2>8. CASE Eligible(js, v, rel) = {}
    <3>1. J = {}
      BY <2>6, <2>8
    <3>2. QED
      BY <2>7, <2>8, <3>1 DEF AnswerPath
  <2>9. CASE Eligible(js, v, rel) # {}
    <3>1. J # {} /\ J \in SUBSET Nat /\ IsFiniteSet(J) /\ J \subseteq 1..m
      <4>1. J # {}
        BY <2>6, <2>9
      <4>2. J \subseteq 1..m
        BY <2>5
      <4>3. IsFiniteSet(J)
        <5>1. IsFiniteSet(1..m)
          BY <2>2, FS_Interval
        <5>2. QED
          BY <4>2, <5>1, FS_Subset
      <4>4. QED
        BY <4>1, <4>2, <4>3
    <3> DEFINE h == SubSeqIndex(J)[1]
    <3>2. /\ SubSeqIndex(J) \in [1..Cardinality(J) -> J]
          /\ SubSeqAt(S, J) = [k \in 1..Cardinality(J) |-> S[SubSeqIndex(J)[k]]]
          /\ \A k1, k2 \in 1..Cardinality(J) :
                k1 < k2 <=> SubSeqIndex(J)[k1] < SubSeqIndex(J)[k2]
          /\ \A i \in J : \E k \in 1..Cardinality(J) : SubSeqIndex(J)[k] = i
      BY <3>1, SubSeqAtSpec
    <3>3. 1 \in 1..Cardinality(J)
      BY <3>1, FS_EmptySet, FS_CardinalityType
    <3>4. h \in J /\ \A k \in J : k # h => h < k
      BY <3>2, <3>3
    <3>5. AnswerPath(js, v, rel) = S[h].path
      <4>1. <<v, rel>> \in DOMAIN BuildVswhereDict(js).dict
        BY <2>7, <3>1
      <4>2. BuildVswhereDict(js).dict[<<v, rel>>] = SubSeqAt(S, J)
        BY <1>2, <4>1, DictShape
      <4>3. SubSeqAt(S, J)[1] = S[h]
        BY <3>2, <3>3
      <4>4. QED
        BY <4>1, <4>2, <4>3 DEF AnswerPath
    <3> DEFINE r == js[g[h]]
    <3>6. r \in Eligible(js, v, rel) /\ r.name = AnswerPath(js, v, rel)
      BY <2>3, <2>6, <3>1, <3>4, <3>5 DEF MsvcInstance
    <3>7. \A k \in J : k # h =>
             /\ InstanceOrder(MsvcInstance(r), MsvcInstance(js[g[k]])) <= 0
             /\ InstanceOrder(MsvcInstance(r), MsvcInstance(js[g[k]])) = 0 =>
                   g[h] < g[k]
      <4>1. SUFFICES ASSUME NEW k \in J, k # h
                     PROVE  /\ InstanceOrder(MsvcInstance(r), MsvcInstance(js[g[k]])) <= 0
                            /\ InstanceOrder(MsvcInstance(r), MsvcInstance(js[g[k]])) = 0 =>
                                  g[h] < g[k]
        OBVIOUS
      <4>2. h \in 1..m /\ k \in 1..m /\ h < k
        BY <3>1, <3>4, <4>1
      <4>3. S[h] = MsvcInstance(r) /\ S[k] = MsvcInstance(js[g[k]])
        BY <2>3, <4>2
      <4>4. \/ InstanceOrder(S[h], S[k]) < 0
            \/ InstanceOrder(S[h], S[k]) = 0 /\ g[h] < g[k]
        BY <2>3, <4>2
      <4>5. InstanceOrder(S[h], S[k]) \in Int
        BY <2>3, <2>4a, <4>2, OrderAntisymmetric
      <4>6. QED
        BY <4>3, <4>4, <4>5
    <3>8. \A k \in J :
             /\ Verdict(js[g[k]]) = "keep"
             /\ KeyOf(MsvcInstance(js[g[k]])) = <<v, rel>>
      BY <2>4, <2>5
    <3>9. \A r2 \in Eligible(js, v, rel) :
             ComponentRanking[r2.component] <= ComponentRanking[r.component]
      <4>1. SUFFICES ASSUME NEW k \in J, k # h
                     PROVE  ComponentRanking[js[g[k]].component]
                               <= ComponentRanking[r.component]
        <5>1. ASSUME NEW r2 \in Eligible(js, v, rel)
              PROVE  ComponentRanking[r2.component] <= ComponentRanking[r.component]
          <6>1. PICK k \in J : r2 = js[g[k]]
            BY <2>6, <5>1
          <6>2. CASE k = h
            <7>1. ComponentRanking[r.component] \in Int
              BY <3>4, <3>8, KeepFields DEF ComponentCandidates, ComponentRanking
            <7>2. QED
              BY <6>1, <6>2, <7>1
          <6>3. QED
            BY <4>1, <6>1, <6>2
        <5>2. QED
          BY <5>1
      <4>2. QED
        BY <3>4, <3>7, <3>8, <4>1, SameKeyCompare
    <3>10. ASSUME NEW i \in DOMAIN js, NEW j \in DOMAIN js,
                  js[i] = r, j < i, js[j] \in Eligible(js, v, rel)
           PROVE  ComponentRanking[js[j].component] < ComponentRanking[r.component]
      <4>1. i = g[h]
        BY <2>1, <2>4, <3>1, <3>4, <3>10
      <4>2. PICK k \in J : js[j] = js[g[k]]
        BY <2>6, <3>10
      <4>3. j = g[k]
        BY <2>1, <2>4, <3>1, <4>2
      <4>4. k # h
        <5>1. i \in Nat /\ j \in Nat
          BY <2>1
        <5>2. QED
          BY <3>10, <4>1, <4>3, <5>1
      <4>5. InstanceOrder(MsvcInstance(r), MsvcInstance(js[g[k]])) < 0
        <5>1. g[h] \in Nat /\ g[k] \in Nat /\ i \in Nat /\ j \in Nat
          BY <2>1, <2>4, <3>1, <3>4
        <5>2. InstanceOrder(MsvcInstance(r), MsvcInstance(js[g[k]])) \in Int
          BY <2>4a, <3>1, <3>4, OrderAntisymmetric
        <5>3. QED
          BY <3>7, <4>1, <4>3, <4>4, <3>10, <5>1, <5>2
      <4>6. QED
        BY <3>4, <3>8, <4>2, <4>5, SameKeyCompare
    <3>11. QED
      BY <2>9, <3>6, <3>9, <3>10 DEF Preferred
  <2>10. QED
    BY <2>8, <2>9
<1>3. QED
  BY <1>1, <1>2

-----------------------------------------------------------------------------
(* find_vc_pdir_vswhere answers with the preferred instance, memo or not.  *)

\* __VSWHERE_VCS_RUN, when set, is the dictionary _get_vswhere_msvc_dict
\* builds from the list vswhere gives, and that list built without error.
MemoInv ==
    \/ vswhereRun = None
    \/ /\ BuildVswhereDict(json).err = None
       /\ vswhereRun = BuildVswhereDict(json).dict

\* The inductive invariant behind BestInstanceChosen: the memo agrees with a
\* fresh query, so an answer read from the memo is the one a fresh query gives.
IInv == json \in VswOrders /\ MemoInv /\ BestInstanceChosen

LEMMA InitIInv == Init => IInv
BY DEF Init, IInv, MemoInv, BestInstanceChosen

LEMMA NextIInv == IInv /\ [Next]_vvars => IInv'
<1> SUFFICES ASSUME IInv, [Next]_vvars PROVE IInv'
  OBVIOUS
<1>1. ASSUME NEW v \in VSWHERE_SUPPORTED_VCVER \cup {Rel(14, 0)}, NEW rel \in BOOLEAN,
             FindVcPdirVswhere(v, rel)
      PROVE  IInv'
  <2> DEFINE d == IF vswhereRun # None THEN [err |-> None, dict |-> vswhereRun]
                  ELSE BuildVswhereDict(json)
  \* The unsupported-version error answers with no path.
  <2>1. CASE v \notin VSWHERE_SUPPORTED_VCVER
    <3>1. outcome'.err = "UnsupportedVersion" /\ UNCHANGED <<json, vswhereRun>>
      BY <1>1, <2>1 DEF FindVcPdirVswhere
    <3>2. None # "UnsupportedVersion"
      BY VSWhereAssumption
    <3>3. QED
      BY <3>1, <3>2 DEF IInv, MemoInv, BestInstanceChosen
  \* Memo or fresh query, d is what a fresh query gives.
  <2>2. d.err = None =>
           /\ BuildVswhereDict(json).err = None
           /\ d.dict = BuildVswhereDict(json).dict
    BY DEF IInv, MemoInv, d
  <2>3. CASE v \in VSWHERE_SUPPORTED_VCVER /\ d.err # None
    <3>1. outcome'.err = d.err /\ UNCHANGED <<json, vswhereRun>>
      BY <1>1, <2>3 DEF FindVcPdirVswhere, d
    <3>2. QED
      BY <2>3, <3>1 DEF IInv, MemoInv, BestInstanceChosen
  <2>4. CASE v \in VSWHERE_SUPPORTED_VCVER /\ d.err = None
    <3>1. /\ vswhereRun' = d.dict
          /\ outcome' = [ver |-> v, rel |-> rel, err |-> None,
                         path |-> IF <<v, rel>> \in DOMAIN d.dict
                                  THEN d.dict[<<v, rel>>][1].path ELSE None]
          /\ json' = json
      BY <1>1, <2>4 DEF FindVcPdirVswhere, d
    <3>2. /\ BuildVswhereDict(json).err = None
          /\ outcome'.path = AnswerPath(json, v, rel)
          /\ outcome'.ver = v /\ outcome'.rel = rel /\ outcome'.err = None
      BY <2>2, <2>4, <3>1 DEF AnswerPath
    <3>3. BestInstanceChosen'
      <4>1. IF Eligible(json, v, rel) = {}
            THEN AnswerPath(json, v, rel) = None
            ELSE \E r \in Eligible(json, v, rel) :
                    r.name = AnswerPath(json, v, rel) /\ Preferred(json, v, rel, r)
        BY <3>2, DictAnswerIsBest DEF IInv
      <4>2. QED
        BY <3>1, <3>2, <4>1 DEF BestInstanceChosen
    <3>4. MemoInv'
      BY <2>2, <2>4, <3>1 DEF MemoInv
    <3>5. QED
      BY <3>1, <3>3, <3>4 DEF IInv
  <2>5. QED
    BY <2>1, <2>3, <2>4
<1>2. CASE ResetVswhereRun
  BY <1>2 DEF ResetVswhereRun, IInv, MemoInv, BestInstanceChosen
<1>3. CASE UNCHANGED vvars
  BY <1>3 DEF vvars, IInv, MemoInv, BestInstanceChosen
<1>4. QED
  BY <1>1, <1>2, <1>3 DEF Next

\* Whatever vswhere lists, and whether find_vc_pdir_vswhere reads the memo
\* __VSWHERE_VCS_RUN or runs a fresh query, the path it returns is that of
\* the preferred eligible installation, and None only when none is eligible.
THEOREM BestInstanceChosenHolds == Spec => []BestInstanceChosen
<1>1. IInv => BestInstanceChosen
  BY DEF IInv
<1>2. QED
  BY InitIInv, NextIInv, <1>1, PTL DEF Spec

====
