------------------------- MODULE PolicyCopiesProofs -------------------------
(***************************************************************************)
(* The hashes of hash.go and the copies they are computed over, for any    *)
(* specs: selectors of any size, block lists of any length.                *)
(***************************************************************************)
EXTENDS PolicyCopies, FiniteSetTheorems, FunctionTheorems, NaturalsInduction,
        SequenceTheorems, WellFoundedInduction, TLAPS

-----------------------------------------------------------------------------
(* Keys of maps.                                                           *)

\* In a finite set of label keys, a part with as many keys as a whole is the
\* whole: what ObjectsAssumption asks of Keys for labelsEqual, which compares
\* lengths first.
LEMMA FiniteIsCounted ==
    ASSUME NEW K, IsFiniteSet(K)
    PROVE  \A D, E \in SUBSET K :
               D \subseteq E /\ Cardinality(D) = Cardinality(E) => D = E
<1> SUFFICES ASSUME NEW D \in SUBSET K, NEW E \in SUBSET K,
                    D \subseteq E, Cardinality(D) = Cardinality(E)
             PROVE  D = E
  OBVIOUS
<1>1. IsFiniteSet(E)
  BY FS_Subset
<1> QED  BY <1>1, FS_Subset

-----------------------------------------------------------------------------
(* sort.Strings.                                                           *)

\* Where a list names a domain.
Positions(list, d) == {i \in DOMAIN list : list[i] = d}

\* A set of positions has a first one.
LEMMA FirstOf ==
    ASSUME NEW S \in SUBSET Nat, S # {}
    PROVE  \E m \in S : \A i \in S : m <= i
<1>1. IsWellFoundedOn(OpToRel(<, Nat), Nat)
  BY NatLessThanWellFounded
<1>2. PICK x \in S : \A y \in S : ~(<<y, x>> \in OpToRel(<, Nat))
  BY <1>1, WFMin
<1>3. \A y \in S : ~(y < x)
  BY <1>2 DEF OpToRel
<1> QED  BY <1>3

\* The positions of a domain in a list are finitely many.
LEMMA PositionsFinite ==
    ASSUME NEW s \in Seq(Nat), NEW S \in SUBSET DOMAIN s
    PROVE  IsFiniteSet(S) /\ Cardinality(S) \in Nat /\ Cardinality(S) <= Len(s)
<1>1. DOMAIN s = 1..Len(s) /\ Len(s) \in Nat
  OBVIOUS
<1>2. IsFiniteSet(DOMAIN s) /\ Cardinality(DOMAIN s) = Len(s)
  <2>1. IsFiniteSet(1..Len(s))
        /\ Cardinality(1..Len(s)) = (IF 1 > Len(s) THEN 0 ELSE Len(s) - 1 + 1)
    BY <1>1, FS_Interval
  <2> QED  BY <1>1, <2>1
<1>3. IsFiniteSet(S) /\ Cardinality(S) <= Cardinality(DOMAIN s)
  BY <1>2, FS_Subset
<1> QED  BY <1>2, <1>3, FS_CardinalityType

\* Every list can be sorted: an element moves to the position given by the
\* number of elements that come before it.
LEMMA SortingExists ==
    ASSUME NEW s \in Seq(Nat)
    PROVE  \E t \in Rearranged(s) : Ascending(t)
<1> DEFINE D == DOMAIN s
           Before(i) == {j \in D : s[j] < s[i] \/ (s[j] = s[i] /\ j <= i)}
           rank == [i \in D |-> Cardinality(Before(i))]
<1>1. D = 1..Len(s) /\ Len(s) \in Nat /\ \A i \in D : i \in Nat /\ s[i] \in Nat
  OBVIOUS
<1>2. \A i \in D : /\ IsFiniteSet(Before(i)) /\ Cardinality(Before(i)) \in Nat
                   /\ Cardinality(Before(i)) <= Len(s)
  <2> TAKE i \in D
  <2>1. Before(i) \in SUBSET DOMAIN s
    OBVIOUS
  <2> HIDE DEF Before
  <2> QED  BY <2>1, PositionsFinite
<1>3. \A i \in D : Cardinality(Before(i)) # 0
  <2> TAKE i \in D
  <2>1. i \in Before(i)
    BY <1>1
  <2>2. Before(i) # {}
    BY <2>1
  <2> HIDE DEF Before
  <2> QED  BY <1>2, <2>2, FS_EmptySet
<1>4. rank \in [D -> D]
  <2> HIDE DEF Before
  <2>1. \A i \in D : Cardinality(Before(i)) \in D
    BY <1>1, <1>2, <1>3
  <2> QED  BY <2>1
<1>5. ASSUME NEW i \in D, NEW j \in D, s[i] < s[j] \/ (s[i] = s[j] /\ i < j)
      PROVE  rank[i] < rank[j]
  <2>1. Before(i) \in SUBSET Before(j)
    BY <1>1, <1>5
  <2>2. j \in Before(j) /\ j \notin Before(i)
    BY <1>1, <1>5
  <2> HIDE DEF Before
  <2>3. Cardinality(Before(i)) <= Cardinality(Before(j))
        /\ Cardinality(Before(i)) # Cardinality(Before(j))
    BY <1>2, <2>1, <2>2, FS_Subset
  <2>4. Cardinality(Before(i)) < Cardinality(Before(j))
    BY <1>2, <2>3
  <2> QED  BY <2>4
<1> HIDE DEF rank
<1>6. \A i, j \in D : rank[i] = rank[j] => i = j
  <2> SUFFICES ASSUME NEW i \in D, NEW j \in D, i # j PROVE rank[i] # rank[j]
    OBVIOUS
  <2>1. rank[i] \in Nat /\ rank[j] \in Nat
    BY <1>1, <1>4
  <2>2. \/ s[i] < s[j] \/ (s[i] = s[j] /\ i < j)
        \/ s[j] < s[i] \/ (s[j] = s[i] /\ j < i)
    BY <1>1
  <2>3. rank[i] < rank[j] \/ rank[j] < rank[i]
    BY <1>5, <2>2
  <2> QED  BY <2>1, <2>3
<1>7. rank \in Bijection(D, D)
  <2>1. rank \in Injection(D, D)
    BY <1>4, <1>6 DEF Injection, IsInjective
  <2>2. IsFiniteSet(D)
    BY <1>1, FS_Interval
  <2>3. rank \in Surjection(D, D)
    BY <2>1, <2>2, FS_Injection
  <2> QED  BY <2>1, <2>3 DEF Bijection
<1> DEFINE p == Inverse(rank, D, D)
<1>8. p \in Bijection(D, D) /\ p \in [D -> D]
  BY <1>7, Fun_BijInverse, Fun_BijectionProperties
<1>9. \A k \in D : rank[p[k]] = k
  <2> TAKE k \in D
  <2>1. \E i \in D : rank[i] = k
    BY <1>7 DEF Bijection, Surjection
  <2>2. k \in Range(rank)
    BY <1>4, <2>1 DEF Range
  <2> QED  BY <1>4, <2>2, Fun_InverseProperties
<1> HIDE DEF p
<1> DEFINE t == [k \in D |-> s[p[k]]]
<1>10. t \in Rearranged(s)
  BY <1>8 DEF Rearranged
<1>11. ASSUME NEW k \in D, NEW l \in D, k < l PROVE s[p[k]] <= s[p[l]]
  <2>1. p[k] \in D /\ p[l] \in D
    BY <1>8
  <2>2. ~(rank[p[l]] < rank[p[k]])
    BY <1>1, <1>9, <1>11
  <2>3. ~(s[p[l]] < s[p[k]])
    BY <1>5, <2>1, <2>2
  <2> QED  BY <1>1, <2>1, <2>3
<1>12. Ascending(t)
  BY <1>11 DEF Ascending
<1> QED  BY <1>10, <1>12

\* Sorting gives an ascending list of the same elements.
LEMMA SortedList ==
    ASSUME NEW s \in Seq(Nat)
    PROVE  Sorted(s) \in Rearranged(s) /\ Ascending(Sorted(s))
<1>1. s # Nil
  BY SpecsAssumption
<1> QED  BY <1>1, SortingExists DEF Sorted

\* A rearranged list names every domain as often as before.
LEMMA RearrangedCounts ==
    ASSUME NEW s \in Seq(Nat), NEW t \in Rearranged(s)
    PROVE  /\ t \in Seq(Nat)
           /\ \A d : Cardinality(Positions(t, d)) = Cardinality(Positions(s, d))
<1> DEFINE D == DOMAIN s
<1>1. PICK p \in Bijection(D, D) : t = [i \in D |-> s[p[i]]]
  BY DEF Rearranged
<1>2. p \in [D -> D] /\ (\A a, b \in D : p[a] = p[b] => a = b)
      /\ \A b \in D : \E a \in D : p[a] = b
  BY Fun_BijectionProperties
<1>3. D = 1..Len(s) /\ Len(s) \in Nat
  OBVIOUS
<1>4. t \in Seq(Nat)
  <2>1. \A i \in D : s[i] \in Nat
    OBVIOUS
  <2>2. \A i \in D : s[p[i]] \in Nat
    BY <1>2, <2>1
  <2>3. t \in [1..Len(s) -> Nat]
    BY <1>1, <1>3, <2>2
  <2> QED  BY <1>3, <2>3, SeqDef
<1>5. ASSUME NEW d PROVE Cardinality(Positions(t, d)) = Cardinality(Positions(s, d))
  <2> DEFINE A == Positions(t, d)
             B == Positions(s, d)
             f == [i \in A |-> p[i]]
  <2>1. f \in [A -> B]
    BY <1>1, <1>2 DEF Positions
  <2>2. \A a, b \in A : f[a] = f[b] => a = b
    BY <1>1, <1>2 DEF Positions
  <2>3. \A b \in B : \E a \in A : f[a] = b
    BY <1>1, <1>2 DEF Positions
  <2>4. f \in Bijection(A, B)
    BY <2>1, <2>2, <2>3, Fun_IsBij
  <2>5. A \in SUBSET DOMAIN s
    BY <1>1 DEF Positions
  <2>6. IsFiniteSet(A)
    BY <2>5, PositionsFinite
  <2>7. ExistsBijection(A, B)
    BY <2>4 DEF ExistsBijection
  <2> HIDE DEF A, B
  <2>8. Cardinality(B) = Cardinality(A)
    BY <2>6, <2>7, FS_Bijection
  <2> QED  BY <2>8 DEF A, B
<1> QED  BY <1>4, <1>5

\* Where two lists differ first, the smaller element is more frequent in its
\* list, if the other one is ascending.
LEMMA FirstDifference ==
    ASSUME NEW t \in Seq(Nat), NEW u \in Seq(Nat), Ascending(u),
           NEW m \in DOMAIN t, m \in DOMAIN u => t[m] < u[m],
           \A i \in Nat \ {0} : i < m => i \in DOMAIN u /\ t[i] = u[i]
    PROVE  Cardinality(Positions(t, t[m])) # Cardinality(Positions(u, t[m]))
<1> DEFINE A == Positions(t, t[m])
           B == Positions(u, t[m])
<1>1. /\ DOMAIN t = 1..Len(t) /\ Len(t) \in Nat /\ \A i \in DOMAIN t : t[i] \in Nat
      /\ DOMAIN u = 1..Len(u) /\ Len(u) \in Nat /\ \A i \in DOMAIN u : u[i] \in Nat
  OBVIOUS
<1>2. \A i \in B : i \in DOMAIN u /\ i \in Nat \ {0} /\ u[i] = t[m]
  BY <1>1 DEF Positions
<1>3. ASSUME NEW i \in B PROVE i < m
  <2> SUFFICES ASSUME ~(i < m) PROVE FALSE
    OBVIOUS
  <2>1. m \in DOMAIN u
    BY <1>1, <1>2
  <2>2. u[m] <= u[i]
    BY <1>1, <1>2, <2>1 DEF Ascending
  <2> QED  BY <1>1, <1>2, <2>1, <2>2
<1>4. B \in SUBSET A
  BY <1>1, <1>2, <1>3 DEF Positions
<1>5. m \in A /\ m \notin B
  BY <1>1, <1>3 DEF Positions
<1>6. A \in SUBSET DOMAIN t
  BY DEF Positions
<1> HIDE DEF A, B
<1>7. IsFiniteSet(A)
  BY <1>6, PositionsFinite
<1>8. Cardinality(A) # Cardinality(B)
  BY <1>4, <1>5, <1>7, FS_Subset
<1> QED  BY <1>8 DEF A, B

\* An ascending list is determined by how often it names each domain.
LEMMA AscendingUnique ==
    ASSUME NEW t \in Seq(Nat), NEW u \in Seq(Nat), Ascending(t), Ascending(u),
           \A d : Cardinality(Positions(t, d)) = Cardinality(Positions(u, d))
    PROVE  t = u
<1> DEFINE Differ == {i \in DOMAIN t \cup DOMAIN u :
                         ~(i \in DOMAIN t /\ i \in DOMAIN u /\ t[i] = u[i])}
<1>1. /\ DOMAIN t = 1..Len(t) /\ Len(t) \in Nat /\ \A i \in DOMAIN t : t[i] \in Nat
      /\ DOMAIN u = 1..Len(u) /\ Len(u) \in Nat /\ \A i \in DOMAIN u : u[i] \in Nat
  OBVIOUS
<1>2. CASE Differ = {}
  <2>1. DOMAIN t = DOMAIN u /\ \A i \in DOMAIN t : t[i] = u[i]
    BY <1>2
  <2> QED  BY <2>1
<1>3. CASE Differ # {}
  <2>1. Differ \in SUBSET Nat
    BY <1>1
  <2>2. PICK m \in Differ : \A i \in Differ : m <= i
    <3> HIDE DEF Differ
    <3> QED  BY <1>3, <2>1, FirstOf
  <2>3. m \in Nat \ {0}
    BY <1>1
  <2>4. \A i \in Nat \ {0} : i < m => i \notin Differ
    BY <2>1, <2>2
  <2>5. \A i \in Nat \ {0} : i < m => i \in DOMAIN t \cup DOMAIN u
    BY <1>1, <2>3
  <2>6. \A i \in Nat \ {0} : i < m => i \in DOMAIN t /\ i \in DOMAIN u /\ t[i] = u[i]
    BY <2>4, <2>5
  <2>7. CASE m \in DOMAIN t /\ (m \in DOMAIN u => t[m] < u[m])
    BY <2>6, <2>7, FirstDifference
  <2>8. CASE m \in DOMAIN u /\ (m \in DOMAIN t => u[m] < t[m])
    <3>1. \A i \in Nat \ {0} : i < m => i \in DOMAIN t /\ u[i] = t[i]
      BY <2>6
    <3> QED  BY <2>8, <3>1, FirstDifference
  <2>9. \/ m \in DOMAIN t /\ (m \in DOMAIN u => t[m] < u[m])
        \/ m \in DOMAIN u /\ (m \in DOMAIN t => u[m] < t[m])
    BY <1>1
  <2> QED  BY <2>7, <2>8, <2>9
<1> QED  BY <1>2, <1>3

\* Two lists are sorted to the same list exactly when they name the same
\* domains equally often.
LEMMA SortedAgree ==
    ASSUME NEW s \in Seq(Nat) \cup {Nil}, NEW t \in Seq(Nat) \cup {Nil}
    PROVE  Sorted(s) = Sorted(t) <=> SameDomains(s, t)
<1>1. CASE s \in Seq(Nat) /\ t \in Seq(Nat)
  <2>1. s # Nil /\ t # Nil
    BY <1>1, SpecsAssumption
  <2>2. /\ Sorted(s) \in Seq(Nat) /\ Ascending(Sorted(s))
        /\ \A d : Cardinality(Positions(Sorted(s), d)) = Cardinality(Positions(s, d))
    BY <1>1, SortedList, RearrangedCounts
  <2>3. /\ Sorted(t) \in Seq(Nat) /\ Ascending(Sorted(t))
        /\ \A d : Cardinality(Positions(Sorted(t), d)) = Cardinality(Positions(t, d))
    BY <1>1, SortedList, RearrangedCounts
  <2> DEFINE Named == {s[i] : i \in DOMAIN s} \cup {t[i] : i \in DOMAIN t}
  <2>4. SameDomains(s, t) <=>
            \A d \in Named : Cardinality(Positions(s, d)) = Cardinality(Positions(t, d))
    BY <2>1 DEF SameDomains, Positions
  <2>5. \A d : d \notin Named => Positions(s, d) = {} /\ Positions(t, d) = {}
    BY DEF Positions
  <2> HIDE DEF Named
  <2>6. SameDomains(s, t) <=>
            \A d : Cardinality(Positions(s, d)) = Cardinality(Positions(t, d))
    BY <2>4, <2>5
  <2>7. ASSUME SameDomains(s, t) PROVE Sorted(s) = Sorted(t)
    <3>1. \A d : Cardinality(Positions(Sorted(s), d)) = Cardinality(Positions(Sorted(t), d))
      BY <2>2, <2>3, <2>6, <2>7
    <3> QED  BY <2>2, <2>3, <3>1, AscendingUnique
  <2>8. ASSUME Sorted(s) = Sorted(t) PROVE SameDomains(s, t)
    BY <2>2, <2>3, <2>6, <2>8
  <2> QED  BY <2>7, <2>8
<1>2. CASE s = Nil \/ t = Nil
  <2>1. \A v \in Seq(Nat) : Sorted(v) # Nil
    BY SpecsAssumption, SortedList, RearrangedCounts
  <2>2. Sorted(Nil) = Nil
    BY DEF Sorted
  <2>3. SameDomains(s, t) <=> s = t
    BY <1>2 DEF SameDomains
  <2> QED  BY <1>2, <2>1, <2>2, <2>3
<1> QED  BY <1>1, <1>2

-----------------------------------------------------------------------------
(* The hash of a selector.                                                 *)

Selectors == {s.TargetSelector : s \in Specs}

\* The hash of selectors of any size agrees with selectorsEqual.
LEMMA SelectorHashes ==
    ASSUME NEW a \in Selectors, NEW b \in Selectors
    PROVE  ComputeSelectorHash(a) = ComputeSelectorHash(b) <=>
               selectorsEqual(AsMap(a), AsMap(b))
<1> DEFINE Empty(x) == x = Nil \/ x = EmptyMap
<1>1. \A x \in Selectors : x # Nil => /\ IsFiniteSet(DOMAIN x) /\ x # NoHash
                                      /\ x = [k \in DOMAIN x |-> x[k]]
  <2> SUFFICES ASSUME NEW x \in Selectors, x # Nil
               PROVE  /\ IsFiniteSet(DOMAIN x) /\ x # NoHash
                      /\ x = [k \in DOMAIN x |-> x[k]]
    OBVIOUS
  <2>1. PICK s \in Specs : x = s.TargetSelector
    BY DEF Selectors
  <2> QED  BY <2>1, SpecsAssumption
<1>2. \A x \in Selectors : ~Empty(x) => DOMAIN x # {}
  BY <1>1 DEF EmptyMap
<1>3. DOMAIN EmptyMap = {} /\ Cardinality({}) = 0
  BY FS_EmptySet DEF EmptyMap
<1>4. \A x \in Selectors : ~Empty(x) => Cardinality(DOMAIN x) # 0
  BY <1>1, <1>2, FS_EmptySet
<1>5. CASE Empty(a) /\ Empty(b)
  BY <1>3, <1>5 DEF ComputeSelectorHash, AsMap, selectorsEqual
<1>6. CASE Empty(a) /\ ~Empty(b)
  <2>1. AsMap(a) = EmptyMap /\ AsMap(b) = b
    BY <1>6 DEF AsMap
  <2>2. ~selectorsEqual(AsMap(a), AsMap(b))
    BY <1>3, <1>4, <1>6, <2>1 DEF selectorsEqual
  <2> QED  BY <1>1, <1>6, <2>2 DEF ComputeSelectorHash
<1>7. CASE ~Empty(a) /\ Empty(b)
  <2>1. AsMap(b) = EmptyMap /\ AsMap(a) = a
    BY <1>7 DEF AsMap
  <2>2. ~selectorsEqual(AsMap(a), AsMap(b))
    BY <1>3, <1>4, <1>7, <2>1 DEF selectorsEqual
  <2> QED  BY <1>1, <1>7, <2>2 DEF ComputeSelectorHash
<1>8. CASE ~Empty(a) /\ ~Empty(b)
  <2>1. AsMap(a) = a /\ AsMap(b) = b
        /\ ComputeSelectorHash(a) = a /\ ComputeSelectorHash(b) = b
    BY <1>8 DEF AsMap, ComputeSelectorHash
  <2>2. ASSUME selectorsEqual(a, b) PROVE a = b
    <3>1. DOMAIN a \in SUBSET DOMAIN b /\ Cardinality(DOMAIN b) = Cardinality(DOMAIN a)
      BY <2>2 DEF selectorsEqual
    <3>2. DOMAIN a = DOMAIN b
      BY <1>1, <1>8, <3>1, FS_Subset
    <3>3. \A k \in DOMAIN a : b[k] = a[k]
      BY <2>2 DEF selectorsEqual
    <3> QED  BY <1>1, <1>8, <3>2, <3>3
  <2>3. a = b => selectorsEqual(a, b)
    BY DEF selectorsEqual
  <2> QED  BY <2>1, <2>2, <2>3
<1> QED  BY <1>5, <1>6, <1>7, <1>8

-----------------------------------------------------------------------------
(* The copies.                                                             *)

Lists == Seq(Nat) \cup {Nil}
Values == [TargetSelector : Selectors, BlockList : Lists]
Slices == [TargetSelector : Selectors, BlockList : Holders \cup {Nil}]

\* No array is shared: a holder's list, if it has one, is in the array it
\* allocated, and nobody has sorted those of the informer and of the index.
CopiesInv ==
    /\ spec \in [Holders -> Slices]
    /\ array \in [Holders -> Seq(Nat)]
    /\ given \in [Holders -> Values]
    /\ \A h \in Holders : spec[h].BlockList \in {Nil, h}
    /\ SharedCopiesIntact

\* What is decoded from the watch is a selector and a list.
LEMMA SpecsAreValues == Specs \subseteq Values
<1> SUFFICES ASSUME NEW s \in Specs PROVE s \in Values
  OBVIOUS
<1>1. s.TargetSelector \in Selectors
  BY DEF Selectors
<1>2. s.BlockList \in Lists
  BY SpecsAssumption DEF Lists
<1>3. s = [TargetSelector |-> s.TargetSelector, BlockList |-> s.BlockList]
  BY SpecsAssumption
<1> HIDE DEF Selectors, Lists
<1> QED  BY <1>1, <1>2, <1>3 DEF Values

\* Two values with the same selector and the same list are the same.
LEMMA ValuesEqual ==
    ASSUME NEW v \in Values, NEW w \in Values,
           v.TargetSelector = w.TargetSelector, v.BlockList = w.BlockList
    PROVE  v = w
BY DEF Values

\* What a holder reads is a selector and a list.
LEMMA ValueOfFields ==
    ASSUME CopiesInv, NEW h \in Holders
    PROVE  /\ ValueOf(h) \in Values
           /\ ValueOf(h).TargetSelector = spec[h].TargetSelector
           /\ ValueOf(h).BlockList =
                 IF spec[h].BlockList = Nil THEN Nil ELSE array[h]
BY SpecsAssumption DEF CopiesInv, ValueOf, Values, Slices, Lists

\* Holding a value reads it back, and touches no other holder.
LEMMA HoldsKeeps ==
    ASSUME CopiesInv, NEW h \in Holders, NEW value \in Values, Holds(h, value)
    PROVE  CopiesInv'
<1> DEFINE slice == [value EXCEPT !.BlockList = IF @ = Nil THEN Nil ELSE h]
           list == IF value.BlockList = Nil THEN <<>> ELSE value.BlockList
<1>1. slice \in Slices /\ slice.TargetSelector = value.TargetSelector
      /\ slice.BlockList = IF value.BlockList = Nil THEN Nil ELSE h
  BY DEF Slices, Values
<1>2. list \in Seq(Nat)
  BY DEF Values, Lists
<1>3. /\ spec' = [spec EXCEPT ![h] = slice]
      /\ array' = [array EXCEPT ![h] = list]
      /\ given' = [given EXCEPT ![h] = value]
  BY DEF Holds
<1> HIDE DEF slice
<1>4. spec' \in [Holders -> Slices] /\ array' \in [Holders -> Seq(Nat)]
      /\ given' \in [Holders -> Values]
  BY <1>1, <1>2, <1>3 DEF CopiesInv
<1>5. \A k \in Holders : spec'[k].BlockList \in {Nil, k}
  BY <1>1, <1>3 DEF CopiesInv
<1>6. \A k \in Holders : k # h => ValueOf(k)' = ValueOf(k) /\ given'[k] = given[k]
  <2> SUFFICES ASSUME NEW k \in Holders, k # h
               PROVE  ValueOf(k)' = ValueOf(k) /\ given'[k] = given[k]
    OBVIOUS
  <2>1. spec'[k] = spec[k] /\ array'[k] = array[k] /\ given'[k] = given[k]
    BY <1>3 DEF CopiesInv
  <2>2. spec[k].BlockList # Nil => spec[k].BlockList = k
    BY DEF CopiesInv
  <2> QED  BY <2>1, <2>2 DEF ValueOf
<1>7. ValueOf(h)' = given'[h]
  <2>1. spec'[h] = slice /\ array'[h] = list /\ given'[h] = value
    BY <1>3 DEF CopiesInv
  <2>2. CASE value.BlockList = Nil
    <3>1. slice \in Values /\ slice.BlockList = value.BlockList
      BY <1>1, <2>2 DEF Values, Slices, Lists
    <3>2. slice = value
      BY <1>1, <3>1, ValuesEqual
    <3> QED  BY <1>1, <2>1, <2>2, <3>2 DEF ValueOf
  <2>3. CASE value.BlockList # Nil
    <3>1. slice.BlockList = h /\ h # Nil /\ list = value.BlockList
      BY <1>1, <2>3, SpecsAssumption
    <3> DEFINE back == [slice EXCEPT !.BlockList = list]
    <3>2. back \in Values /\ back.TargetSelector = value.TargetSelector
          /\ back.BlockList = value.BlockList
      BY <1>1, <1>2, <3>1 DEF Values, Slices, Lists
    <3>3. ValueOf(h)' = back
      BY <2>1, <3>1 DEF ValueOf
    <3> HIDE DEF back
    <3> QED  BY <2>1, <3>2, <3>3, ValuesEqual
  <2> QED  BY <2>2, <2>3
<1>8. SharedCopiesIntact'
  BY <1>6, <1>7 DEF CopiesInv, SharedCopiesIntact, Holders
<1> QED  BY <1>4, <1>5, <1>8 DEF CopiesInv

\* A hash sorts the array of the holder whose copy is hashed, and no other.
LEMMA HashKeeps ==
    ASSUME CopiesInv, NEW h \in Holders \ {"informer", "index"}, HashSpec(h)
    PROVE  CopiesInv'
<1>1. spec[h].BlockList = h
  BY DEF CopiesInv, HashSpec
<1>2. Sorted(array[h]) \in Seq(Nat)
  BY SortedList, RearrangedCounts DEF CopiesInv
<1>3. array' = [array EXCEPT ![h] = Sorted(array[h])] /\ UNCHANGED <<spec, given>>
  BY <1>1 DEF HashSpec
<1>4. array' \in [Holders -> Seq(Nat)]
  BY <1>2, <1>3 DEF CopiesInv
<1>5. \A k \in {"informer", "index"} : ValueOf(k)' = ValueOf(k)
  BY <1>3 DEF CopiesInv, ValueOf, Holders
<1>6. SharedCopiesIntact'
  BY <1>3, <1>5 DEF CopiesInv, SharedCopiesIntact
<1> QED  BY <1>3, <1>4, <1>6 DEF CopiesInv

\* At first every holder has a copy of the same spec.
LEMMA CopiesInvInit == CopiesInit => CopiesInv
<1> SUFFICES ASSUME CopiesInit PROVE CopiesInv
  OBVIOUS
<1>1. PICK value \in Specs :
        /\ spec = [h \in Holders |->
               [value EXCEPT !.BlockList = IF @ = Nil THEN Nil ELSE h]]
        /\ array = [h \in Holders |->
               IF value.BlockList = Nil THEN <<>> ELSE value.BlockList]
        /\ given = [h \in Holders |-> value]
  BY DEF CopiesInit
<1>2. value \in Values
  BY SpecsAreValues
<1>3. \A h \in Holders : /\ spec[h] \in Slices
                         /\ spec[h].TargetSelector = value.TargetSelector
                         /\ spec[h].BlockList = IF value.BlockList = Nil THEN Nil ELSE h
  BY <1>1, <1>2 DEF Values, Slices
<1>4. \A h \in Holders : array[h] \in Seq(Nat)
  BY <1>1, <1>2 DEF Values, Lists
<1>5. spec \in [Holders -> Slices] /\ array \in [Holders -> Seq(Nat)]
      /\ given \in [Holders -> Values]
  BY <1>1, <1>2, <1>3, <1>4
<1>6. ASSUME NEW h \in Holders PROVE ValueOf(h) = given[h]
  <2>1. given[h] = value
    BY <1>1
  <2>2. CASE value.BlockList = Nil
    <3>1. spec[h] \in Values /\ spec[h].BlockList = value.BlockList
      BY <1>3, <2>2 DEF Values, Slices, Lists
    <3>2. spec[h] = value
      BY <1>2, <1>3, <3>1, ValuesEqual
    <3> QED  BY <2>1, <2>2, <3>2 DEF ValueOf
  <2>3. CASE value.BlockList # Nil
    <3>1. spec[h].BlockList = h /\ h # Nil /\ array[h] = value.BlockList
      BY <1>1, <1>3, <2>3, SpecsAssumption
    <3> DEFINE back == [spec[h] EXCEPT !.BlockList = array[h]]
    <3>2. back \in Values /\ back.TargetSelector = value.TargetSelector
          /\ back.BlockList = value.BlockList
      BY <1>3, <1>4, <3>1 DEF Values, Slices, Lists
    <3>3. ValueOf(h) = back
      BY <3>1 DEF ValueOf
    <3> HIDE DEF back
    <3> QED  BY <1>2, <2>1, <3>2, <3>3, ValuesEqual
  <2> QED  BY <2>2, <2>3
<1> QED  BY <1>3, <1>5, <1>6 DEF CopiesInv, SharedCopiesIntact, Holders

\* Copying and hashing keep the arrays apart.
LEMMA CopiesInvNext == CopiesInv /\ [CopiesNext]_copyVars => CopiesInv'
<1> SUFFICES ASSUME CopiesInv, [CopiesNext]_copyVars PROVE CopiesInv'
  OBVIOUS
<1>1. ASSUME NEW value \in Specs, Holds("informer", value) PROVE CopiesInv'
  <2>1. value \in Values /\ "informer" \in Holders
    BY SpecsAreValues DEF Holders
  <2> QED  BY <1>1, <2>1, HoldsKeeps
<1>2. ASSUME NEW from \in Holders, NEW to \in Holders, DeepCopyInto(from, to)
      PROVE  CopiesInv'
  <2>1. ValueOf(from) \in Values
    BY ValueOfFields
  <2>2. Holds(to, ValueOf(from))
    BY <1>2 DEF DeepCopyInto
  <2> QED  BY <2>1, <2>2, HoldsKeeps
<1>3. ASSUME NEW h \in {"reconciler", "caller"}, HashSpec(h) PROVE CopiesInv'
  <2>1. h \in Holders \ {"informer", "index"}
    BY DEF Holders
  <2> QED  BY <1>3, <2>1, HashKeeps
<1>4. CASE UNCHANGED copyVars
  BY <1>4 DEF copyVars, CopiesInv, SharedCopiesIntact, ValueOf
<1>5. {"informer", "reconciler", "index", "caller"} = Holders
  BY DEF Holders
<1> QED  BY <1>1, <1>2, <1>3, <1>4, <1>5 DEF CopiesNext

-----------------------------------------------------------------------------
(* The theorems.                                                           *)

\* DeepCopyInto shields the informer's object and the policy index: however
\* often ComputeSpecHash sorts the reconciler's or a caller's copy in place,
\* they keep the spec as it was written.
THEOREM CopiesStayIntact == CopiesSpec => []SharedCopiesIntact
<1>1. CopiesInv => SharedCopiesIntact
  BY DEF CopiesInv
<1> QED  BY <1>1, CopiesInvInit, CopiesInvNext, PTL DEF CopiesSpec

\* ComputeSpecHash tells specs apart exactly by their selector and by how
\* often they name each domain, for block lists of any length, and before and
\* after a hash has reordered a copy.
THEOREM HashAlwaysIgnoresOrder == CopiesSpec => []HashIgnoresOrder
<1>1. CopiesInv => HashIgnoresOrder
  <2> SUFFICES ASSUME CopiesInv, NEW h \in Holders, NEW k \in Holders
               PROVE  ComputeSpecHash(ValueOf(h)) = ComputeSpecHash(ValueOf(k)) <=>
                          /\ spec[h].TargetSelector = spec[k].TargetSelector
                          /\ SameDomains(ValueOf(h).BlockList, ValueOf(k).BlockList)
    BY DEF HashIgnoresOrder
  <2>1. /\ ValueOf(h) \in Values /\ ValueOf(h).TargetSelector = spec[h].TargetSelector
        /\ ValueOf(k) \in Values /\ ValueOf(k).TargetSelector = spec[k].TargetSelector
    BY ValueOfFields
  <2>2. ValueOf(h).BlockList \in Lists /\ ValueOf(k).BlockList \in Lists
    BY <2>1 DEF Values
  <2>3. Sorted(ValueOf(h).BlockList) = Sorted(ValueOf(k).BlockList) <=>
            SameDomains(ValueOf(h).BlockList, ValueOf(k).BlockList)
    BY <2>2, SortedAgree DEF Lists
  <2>4. ComputeSpecHash(ValueOf(h)) = ComputeSpecHash(ValueOf(k)) <=>
            /\ ValueOf(h).TargetSelector = ValueOf(k).TargetSelector
            /\ Sorted(ValueOf(h).BlockList) = Sorted(ValueOf(k).BlockList)
    BY DEF ComputeSpecHash
  <2> QED  BY <2>1, <2>3, <2>4
<1> QED  BY <1>1, CopiesInvInit, CopiesInvNext, PTL DEF CopiesSpec

\* ComputeSelectorHash answers as selectorsEqual does, for selectors of any
\* size, nil and empty ones included.
THEOREM SelectorHashAlwaysAgrees == CopiesSpec => []SelectorHashAgrees
<1>1. CopiesInv => SelectorHashAgrees
  <2> SUFFICES ASSUME CopiesInv, NEW h \in Holders, NEW k \in Holders
               PROVE  ComputeSelectorHash(spec[h].TargetSelector) =
                      ComputeSelectorHash(spec[k].TargetSelector) <=>
                          selectorsEqual(AsMap(spec[h].TargetSelector),
                                         AsMap(spec[k].TargetSelector))
    BY DEF SelectorHashAgrees
  <2>1. spec[h].TargetSelector \in Selectors /\ spec[k].TargetSelector \in Selectors
    BY DEF CopiesInv, Slices
  <2> QED  BY <2>1, SelectorHashes
<1> QED  BY <1>1, CopiesInvInit, CopiesInvNext, PTL DEF CopiesSpec
=============================================================================
