------------------------------ MODULE PodIndex ------------------------------
(***************************************************************************)
(* controller/internal/controller/pod_index.go: the in-memory index of     *)
(* pods, with a secondary map from IP address to pod.  Every method holds  *)
(* the index's own mutex from start to end, so each is one atomic step.    *)
(* A PodInfo keeps what a later read depends on: the IP and the labels.    *)
(***************************************************************************)
EXTENDS Objects

VARIABLES
    pods,       \* pod name -> PodInfo
    ipToPod     \* IP -> pod name

podIndexVars == <<pods, ipToPod>>

PodInfo(n) == [IP : IPsOf[n], Labels : LabelMaps]

NewPodIndex ==
    /\ pods = EmptyMap
    /\ ipToPod = EmptyMap

\* Variants of Upsert that a slip in the code would give: the mapping of the old
\* IP left behind, and dropped last without a look at the new IP.
UpsertPodKeepsOldIP(n, info) ==
    /\ pods' = Put(pods, n, info)
    /\ ipToPod' = Put(ipToPod, info.IP, n)

UpsertPodDropsLast(n, info) ==
    LET left == IF n \in DOMAIN pods THEN {pods[n].IP} ELSE {}
    IN  /\ pods' = Put(pods, n, info)
        /\ ipToPod' = Without(Put(ipToPod, info.IP, n), left)

\* Upsert: the mapping of the IP the pod had before is dropped, whichever pod
\* it names, then the pod is stored and claims its IP.
UpsertPod(n, info) ==
    LET left == IF n \in DOMAIN pods /\ pods[n].IP # info.IP
                THEN {pods[n].IP} ELSE {}
    IN  /\ pods' = Put(pods, n, info)
        /\ ipToPod' = Put(Without(ipToPod, left), info.IP, n)

\* Delete: the IP mapping goes with the pod, again whichever pod it names.
DeletePod(n) ==
    IF n \in DOMAIN pods
    THEN /\ ipToPod' = Without(ipToPod, {pods[n].IP})
         /\ pods' = Without(pods, {n})
    ELSE UNCHANGED podIndexVars

GetPodsMatchingSelector(selector) ==
    {n \in DOMAIN pods : LabelsContainAll(pods[n].Labels, selector)}

-----------------------------------------------------------------------------
(* The index on its own, used in any way its interface allows.             *)

PodIndexNext ==
    \E n \in PodNames :
        \/ \E info \in [IP : IPsOf[n], Labels : Labelings] : UpsertPod(n, info)
        \/ DeletePod(n)

PodIndexSpec == NewPodIndex /\ [][PodIndexNext]_podIndexVars

-----------------------------------------------------------------------------
(* Properties.                                                             *)

\* Both maps hold well-formed keys and values (part of DnsMesh's TypeOK).
PodIndexTypeOK ==
    /\ pods = [n \in DOMAIN pods |-> pods[n]]
    /\ DOMAIN pods \subseteq PodNames
    /\ \A n \in DOMAIN pods : pods[n] \in PodInfo(n)
    /\ IsMap(ipToPod, IPs, PodNames)

\* What the reverse map says is true: an IP that leads to a pod leads to an
\* indexed pod that has this IP, even though Upsert and Delete drop mappings
\* without looking at their owner and pods may share an IP.
ReverseLookupSound ==
    \A ip \in DOMAIN ipToPod :
        ipToPod[ip] \in DOMAIN pods /\ pods[ipToPod[ip]].IP = ip

\* Dropping mappings without looking at their owner harms only IPs that two pods
\* use: a pod whose IP no other pod is ever given is found by it, also while it
\* or others move from and to IPs they share.
ReverseLookupComplete ==
    \A n \in DOMAIN pods :
        (\A m \in PodNames \ {n} : pods[n].IP \notin IPsOf[m]) =>
            pods[n].IP \in DOMAIN ipToPod /\ ipToPod[pods[n].IP] = n
=============================================================================
