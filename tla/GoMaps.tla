------------------------------- MODULE GoMaps -------------------------------
(***************************************************************************)
(* Go maps as functions: the keys present are the DOMAIN, `v, ok := m[k]`  *)
(* is a test on it.  The label maps and selectors of the API objects are   *)
(* such maps, compared by the helpers of pod_index.go and of the two       *)
(* reconcilers.                                                            *)
(***************************************************************************)
EXTENDS FiniteSets, Naturals

\* The empty map; a nil map reads the same everywhere the code uses one.
EmptyMap == [k \in {} |-> k]

\* m[k] = v
Put(m, k, v) == [x \in DOMAIN m \cup {k} |-> IF x = k THEN v ELSE m[x]]

\* delete(m, k) for every k in S
Without(m, S) == [x \in DOMAIN m \ S |-> m[x]]

\* m is a map with keys in K and values in V
IsMap(m, K, V) == \E D \in SUBSET K : m \in [D -> V]

\* The slices that a loop over a map with the entries S can build: every entry
\* once, in any order.
Orders(S) ==
    {s \in UNION {[1 .. n -> S] : n \in 0 .. Cardinality(S)} :
        /\ \A i, j \in DOMAIN s : s[i] = s[j] => i = j
        /\ \A x \in S : \E i \in DOMAIN s : s[i] = x}

\* An empty selector matches no pod; otherwise every pair must be present.
LabelsContainAll(labels, selector) ==
    /\ DOMAIN selector # {}
    /\ \A k \in DOMAIN selector : k \in DOMAIN labels /\ labels[k] = selector[k]

\* Same number of pairs, and every pair of a is in b.
labelsEqual(a, b) ==
    /\ Cardinality(DOMAIN a) = Cardinality(DOMAIN b)
    /\ \A k \in DOMAIN a : k \in DOMAIN b /\ b[k] = a[k]

\* A comparison that forgets the pairs.
selectorsEqualByLength(a, b) == Cardinality(DOMAIN a) = Cardinality(DOMAIN b)

\* dnspolicy_controller.go has its own copy of the same comparison.
selectorsEqual(a, b) ==
    /\ Cardinality(DOMAIN a) = Cardinality(DOMAIN b)
    /\ \A k \in DOMAIN a : k \in DOMAIN b /\ b[k] = a[k]
=============================================================================
