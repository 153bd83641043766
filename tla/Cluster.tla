------------------------------- MODULE Cluster -------------------------------
(***************************************************************************)
(* The Kubernetes API server as the controller meets it (not part of this  *)
(* repository): users and kubelets write objects, every write is sent to   *)
(* the informers in order, one stream for pods and one for policies, and a *)
(* write by the controller fails when its copy is not the latest.          *)
(***************************************************************************)
EXTENDS Objects, Sequences

CONSTANTS
    HostPods,           \* pods on the host network, which share IPs
    ForegroundPolicies, \* policies deleted with foreground propagation
    MaxPodWrites,       \* bound: writes of pods by users and kubelets
    MaxPolicyWrites,    \* bound: writes of policies by users
    MaxFailures,        \* bound: failed calls of the controller
    MaxRestarts         \* bound: restarts of the controller

ASSUME BoundsAssumption ==
    /\ MaxPodWrites \in Nat /\ MaxPolicyWrites \in Nat
    /\ MaxFailures \in Nat /\ MaxRestarts \in Nat

VARIABLES
    apiPods,        \* the pods in the API server
    podWatch,       \* pod events on their way to the informer
    apiPolicies,    \* the policies in the API server
    policyWatch,    \* policy events on their way to the informer
    used            \* how much of each bound is used up

podApiVars == <<apiPods, podWatch>>
policyApiVars == <<apiPolicies, policyWatch>>
clusterVars == <<apiPods, podWatch, apiPolicies, policyWatch, used>>

\* What the controller can find when it is first started: running pods, and
\* policies that are new or were handled by an earlier controller.
StartingPods(p) ==
    {NoPod} \cup [exists : {TRUE}, IP : IPsOf[p], Phase : {"Running"},
                  Labels : Labelings]

StartingPolicies(q) ==
    {NoPolicy(0)} \cup
    {[NoPolicy(1) EXCEPT !.exists = TRUE, !.Spec = spec, !.Generation = 1,
                         !.Finalizer = handled,
                         !.ObservedGeneration = IF handled THEN 1 ELSE 0,
                         !.Ready = IF handled THEN "True" ELSE "Unknown",
                         !.ReadyGeneration = IF handled THEN 1 ELSE 0] :
        spec \in {s \in SpecsOf[q] : DOMAIN s.TargetSelector # {}},
        handled \in BOOLEAN}

ClusterInit ==
    /\ apiPods \in [PodNames -> UNION {StartingPods(p) : p \in PodNames}]
    /\ \A p \in PodNames : apiPods[p] \in StartingPods(p)
    /\ \A m, n \in PodNames :
          m # n /\ apiPods[m].IP = apiPods[n].IP =>
              apiPods[m].IP = NoIP \/ {m, n} \subseteq HostPods
    /\ apiPolicies \in [PolicyNames -> UNION {StartingPolicies(q) : q \in PolicyNames}]
    /\ \A q \in PolicyNames : apiPolicies[q] \in StartingPolicies(q)
    /\ used = [pod |-> 0, policy |-> 0, fail |-> 0, restart |-> 0]

\* One of the bounded failures of a call of the controller happens.
SpendFailure ==
    /\ used.fail < MaxFailures
    /\ used' = [used EXCEPT !.fail = @ + 1]

-----------------------------------------------------------------------------
(* Pods.                                                                   *)

WritePod(p, obj) ==
    /\ used.pod < MaxPodWrites
    /\ used' = [used EXCEPT !.pod = @ + 1]
    /\ apiPods' = [apiPods EXCEPT ![p] = obj]
    /\ podWatch' = Append(podWatch, [name |-> p, obj |-> obj])
    /\ UNCHANGED policyApiVars

\* An IP is given to one live pod at a time, except on the host network.  A
\* pod that has ended keeps its IP in its status while the IP is reused.
IPFree(p, ip) ==
    \/ p \in HostPods
    \/ \A o \in PodNames \ {p} :
           apiPods[o].IP # ip \/ apiPods[o].Phase \notin {"Pending", "Running"}

CreatePod(p, labels) ==
    /\ ~apiPods[p].exists
    /\ WritePod(p, [exists |-> TRUE, IP |-> NoIP, Phase |-> "Pending",
                    Labels |-> labels])

\* The sandbox gets its IP; init containers may still have to run.
AssignIP(p, ip, phase) ==
    /\ apiPods[p].Phase = "Pending"
    /\ apiPods[p].IP = NoIP
    /\ IPFree(p, ip)
    /\ WritePod(p, [apiPods[p] EXCEPT !.IP = ip, !.Phase = phase])

RunPod(p) ==
    /\ apiPods[p].Phase = "Pending"
    /\ apiPods[p].IP # NoIP
    /\ WritePod(p, [apiPods[p] EXCEPT !.Phase = "Running"])

\* The sandbox is replaced and the pod runs on with another IP.
ChangeIP(p, ip) ==
    /\ apiPods[p].Phase = "Running"
    /\ ip # apiPods[p].IP
    /\ IPFree(p, ip)
    /\ WritePod(p, [apiPods[p] EXCEPT !.IP = ip])

RelabelPod(p, labels) ==
    /\ apiPods[p].exists
    /\ labels # apiPods[p].Labels
    /\ WritePod(p, [apiPods[p] EXCEPT !.Labels = labels])

\* The pod completes and keeps its IP, or is evicted and loses it.
EndPod(p) ==
    /\ apiPods[p].Phase = "Running"
    /\ \/ WritePod(p, [apiPods[p] EXCEPT !.Phase = "Succeeded"])
       \/ WritePod(p, [apiPods[p] EXCEPT !.Phase = "Failed", !.IP = NoIP])

RemovePodObject(p) ==
    /\ apiPods[p].exists
    /\ WritePod(p, NoPod)

PodsChange ==
    \E p \in PodNames :
        \/ \E labels \in Labelings : CreatePod(p, labels)
        \/ \E ip \in IPsOf[p] : AssignIP(p, ip, "Pending")
        \/ \E ip \in IPsOf[p] : AssignIP(p, ip, "Running")
        \/ RunPod(p)
        \/ \E ip \in IPsOf[p] : ChangeIP(p, ip)
        \/ \E labels \in Labelings : RelabelPod(p, labels)
        \/ EndPod(p)
        \/ RemovePodObject(p)

-----------------------------------------------------------------------------
(* Policies.                                                               *)

\* Every write makes a new resource version.  An object that is marked for
\* deletion disappears with its last finalizer.
Stored(obj) ==
    LET rv == obj.ResourceVersion + 1
    IN  IF obj.Deleting /\ ~obj.Finalizer /\ ~obj.Held
        THEN NoPolicy(rv)
        ELSE [obj EXCEPT !.ResourceVersion = rv]

StorePolicy(q, obj) ==
    /\ apiPolicies' = [apiPolicies EXCEPT ![q] = Stored(obj)]
    /\ policyWatch' = Append(policyWatch, [name |-> q, obj |-> Stored(obj)])

UserWritesPolicy(q, obj) ==
    /\ used.policy < MaxPolicyWrites
    /\ used' = [used EXCEPT !.policy = @ + 1]
    /\ StorePolicy(q, obj)
    /\ UNCHANGED podApiVars

CreatePolicy(q, spec) ==
    /\ ~apiPolicies[q].exists
    /\ UserWritesPolicy(q, [apiPolicies[q] EXCEPT
           !.exists = TRUE, !.Spec = spec, !.Generation = 1])

\* Users may edit the spec at any time, also of a policy being deleted.
EditPolicy(q, spec) ==
    /\ apiPolicies[q].exists
    /\ spec # apiPolicies[q].Spec
    /\ UserWritesPolicy(q, [apiPolicies[q] EXCEPT
           !.Spec = spec, !.Generation = @ + 1])

RequestPolicyDeletion(q) ==
    /\ q \in DeletablePolicies
    /\ apiPolicies[q].exists
    /\ ~apiPolicies[q].Deleting
    /\ UserWritesPolicy(q, [apiPolicies[q] EXCEPT
           !.Deleting = TRUE, !.Held = q \in ForegroundPolicies])

\* The garbage collector drops its finalizer of a foreground deletion.
ReleasePolicy(q) ==
    /\ apiPolicies[q].Held
    /\ StorePolicy(q, [apiPolicies[q] EXCEPT !.Held = FALSE])
    /\ UNCHANGED <<apiPods, podWatch, used>>

PoliciesChange ==
    \E q \in PolicyNames :
        \/ \E spec \in SpecsOf[q] : CreatePolicy(q, spec)
        \/ \E spec \in SpecsOf[q] : EditPolicy(q, spec)
        \/ RequestPolicyDeletion(q)
        \/ ReleasePolicy(q)

PodEvents == UNION {[name : {p}, obj : Pod(p)] : p \in PodNames}

PolicyEvents == UNION {[name : {q}, obj : DnsPolicy(q)] : q \in PolicyNames}

ClusterTypeOK ==
    /\ apiPods = [p \in PodNames |-> apiPods[p]]
    /\ \A p \in PodNames : apiPods[p] \in Pod(p)
    /\ podWatch \in Seq(PodEvents)
    /\ apiPolicies = [q \in PolicyNames |-> apiPolicies[q]]
    /\ \A q \in PolicyNames : apiPolicies[q] \in DnsPolicy(q)
    /\ policyWatch \in Seq(PolicyEvents)
    /\ used \in [pod : 0 .. MaxPodWrites, policy : 0 .. MaxPolicyWrites,
                 fail : 0 .. MaxFailures, restart : 0 .. MaxRestarts]

\* Update and Status().Update of the controller: obj, made from the copy of
\* the given resource version, is stored if that copy is still the latest.
UpdateAccepted(q, copy) ==
    /\ apiPolicies[q].exists
    /\ apiPolicies[q].ResourceVersion = copy.ResourceVersion
=============================================================================
