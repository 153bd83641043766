--------------------------- MODULE PodIndexProofs ---------------------------
(***************************************************************************)
(* Proofs about Go maps and the pod index, for any pods, IPs and labels,   *)
(* whether or not pods share IPs.                                          *)
(***************************************************************************)
EXTENDS PodIndex, Sequences, TLAPS

\* A slice that a loop over a map builds is a sequence with the map's entries,
\* and no others, in it.
LEMMA OrdersAre ==
    ASSUME NEW S, NEW s \in Orders(S)
    PROVE  /\ s \in Seq(S)
           /\ \A i \in DOMAIN s : s[i] \in S
           /\ \A x \in S : \E i \in DOMAIN s : s[i] = x
<1>1. PICK n \in 0 .. Cardinality(S) : s \in [1 .. n -> S]
  BY DEF Orders
<1>2. n \in Nat
  OBVIOUS
<1>3. s \in Seq(S)
  BY <1>1, <1>2
<1> QED  BY <1>1, <1>3 DEF Orders

\* The two directions of the reverse lookup.
PodLookups == ReverseLookupSound /\ ReverseLookupComplete

PodIndexInv == PodIndexTypeOK /\ PodLookups

\* Upsert keeps both maps well formed and the reverse map sound: the mapping of
\* the IP the pod leaves is dropped in the same critical section.
LEMMA UpsertKeepsIndex ==
    ASSUME NEW n \in PodNames, NEW info \in PodInfo(n),
           PodIndexInv, UpsertPod(n, info)
    PROVE  PodIndexInv'
<1> USE DEF PodIndexInv, PodLookups, PodIndexTypeOK, ReverseLookupSound, PodInfo
<1> DEFINE left == IF n \in DOMAIN pods /\ pods[n].IP # info.IP
                   THEN {pods[n].IP} ELSE {}
<1>1. pods' = [x \in DOMAIN pods \cup {n} |-> IF x = n THEN info ELSE pods[x]]
  BY DEF UpsertPod, Put
<1>2. ipToPod' = [x \in (DOMAIN ipToPod \ left) \cup {info.IP} |->
                     IF x = info.IP THEN n ELSE ipToPod[x]]
  BY DEF UpsertPod, Put, Without
<1>3. PICK D \in SUBSET IPs : ipToPod \in [D -> PodNames]
  BY DEF IsMap
<1>4. info.IP \in IPs
  BY DEF IPs
<1>5. ipToPod' \in [(D \ left) \cup {info.IP} -> PodNames]
  <2> HIDE DEF left
  <2> QED  BY <1>2, <1>3, <1>4
<1>6. IsMap(ipToPod', IPs, PodNames)
  BY <1>5, <1>4 DEF IsMap
<1>7. PodIndexTypeOK'
  BY <1>1, <1>6
<1>8. ReverseLookupSound'
  BY <1>1, <1>2, <1>3
<1>9. ReverseLookupComplete'
  <2> SUFFICES ASSUME NEW x \in DOMAIN pods',
                      \A m \in PodNames \ {x} : pods'[x].IP \notin IPsOf[m]
               PROVE  pods'[x].IP \in DOMAIN ipToPod' /\ ipToPod'[pods'[x].IP] = x
    BY DEF ReverseLookupComplete
  <2>1. CASE x = n
    BY <2>1, <1>1, <1>2
  <2>2. CASE x # n
    <3>1. x \in DOMAIN pods /\ x \in PodNames /\ pods'[x] = pods[x]
      BY <2>2, <1>1
    <3>2. pods[x].IP # info.IP /\ pods[x].IP \notin left
      BY <2>2, <3>1
    <3>3. pods[x].IP \in DOMAIN ipToPod /\ ipToPod[pods[x].IP] = x
      BY <3>1 DEF ReverseLookupComplete
    <3> HIDE DEF left
    <3> QED  BY <3>1, <3>2, <3>3, <1>2
  <2> QED  BY <2>1, <2>2
<1> QED  BY <1>7, <1>8, <1>9

\* Delete drops the pod and the mapping of its IP together.
LEMMA DeleteKeepsIndex ==
    ASSUME NEW n \in PodNames, PodIndexInv, DeletePod(n)
    PROVE  PodIndexInv'
<1> USE DEF PodIndexInv, PodLookups, PodIndexTypeOK, ReverseLookupSound, PodInfo
<1>1. CASE n \notin DOMAIN pods
  BY <1>1 DEF DeletePod, podIndexVars, ReverseLookupComplete
<1>2. CASE n \in DOMAIN pods
  <2>1. pods' = [x \in DOMAIN pods \ {n} |-> pods[x]]
    BY <1>2 DEF DeletePod, Without
  <2>2. ipToPod' = [x \in DOMAIN ipToPod \ {pods[n].IP} |-> ipToPod[x]]
    BY <1>2 DEF DeletePod, Without
  <2>3. PICK D \in SUBSET IPs : ipToPod \in [D -> PodNames]
    BY DEF IsMap
  <2>4. ipToPod' \in [D \ {pods[n].IP} -> PodNames]
    BY <2>2, <2>3
  <2>5. IsMap(ipToPod', IPs, PodNames)
    BY <2>4 DEF IsMap
  <2>6. PodIndexTypeOK'
    BY <2>1, <2>5
  <2>7. ReverseLookupSound'
    BY <2>1, <2>2, <2>3
  <2>8. ReverseLookupComplete'
    <3> SUFFICES ASSUME NEW x \in DOMAIN pods',
                        \A m \in PodNames \ {x} : pods'[x].IP \notin IPsOf[m]
                 PROVE  pods'[x].IP \in DOMAIN ipToPod' /\ ipToPod'[pods'[x].IP] = x
      BY DEF ReverseLookupComplete
    <3>1. x \in DOMAIN pods /\ x # n /\ pods'[x] = pods[x]
      BY <2>1
    <3>2. pods[x].IP # pods[n].IP
      BY <3>1, <1>2
    <3>3. pods[x].IP \in DOMAIN ipToPod /\ ipToPod[pods[x].IP] = x
      BY <3>1 DEF ReverseLookupComplete
    <3> QED  BY <3>1, <3>2, <3>3, <2>2
  <2> QED  BY <2>6, <2>7, <2>8
<1> QED  BY <1>1, <1>2

\* NewPodIndex makes two empty maps, which agree.
LEMMA NewIndexSound == NewPodIndex => PodIndexInv
<1> SUFFICES ASSUME NewPodIndex PROVE PodIndexInv
  OBVIOUS
<1>1. pods = [x \in {} |-> x] /\ ipToPod = [x \in {} |-> x]
  BY DEF NewPodIndex, EmptyMap
<1>2. ipToPod \in [{} -> PodNames]
  BY <1>1
<1> QED
  BY <1>1, <1>2 DEF PodIndexInv, PodLookups, PodIndexTypeOK, ReverseLookupSound,
                      ReverseLookupComplete, IsMap

\* Whatever is done to the index, in any order.
LEMMA PodIndexStep == PodIndexInv /\ [PodIndexNext]_podIndexVars => PodIndexInv'
<1> SUFFICES ASSUME PodIndexInv, [PodIndexNext]_podIndexVars
             PROVE  PodIndexInv'
  OBVIOUS
<1>1. ASSUME NEW n \in PodNames,
             NEW info \in [IP : IPsOf[n], Labels : Labelings],
             UpsertPod(n, info)
      PROVE  PodIndexInv'
  <2>1. info \in PodInfo(n)
    BY ObjectsAssumption DEF PodInfo
  <2> QED  BY <1>1, <2>1, UpsertKeepsIndex
<1>2. ASSUME NEW n \in PodNames, DeletePod(n) PROVE PodIndexInv'
  BY <1>2, DeleteKeepsIndex
<1>3. CASE UNCHANGED podIndexVars
  BY <1>3 DEF podIndexVars, PodIndexInv, PodLookups, PodIndexTypeOK,
              ReverseLookupSound, ReverseLookupComplete
<1> QED  BY <1>1, <1>2, <1>3 DEF PodIndexNext

\* The reverse map of the pod index never lies: in every reachable state an IP
\* that leads to a pod leads to an indexed pod with this IP, and a pod is found
\* by its IP unless another pod can be given the same one.
THEOREM PodIndexSound ==
    PodIndexSpec => [](PodIndexTypeOK /\ ReverseLookupSound /\ ReverseLookupComplete)
<1>1. PodIndexInv => PodIndexTypeOK /\ ReverseLookupSound /\ ReverseLookupComplete
  BY DEF PodIndexInv, PodLookups
<1> QED  BY <1>1, NewIndexSound, PodIndexStep, PTL DEF PodIndexSpec
=============================================================================
