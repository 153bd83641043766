---------------------------- MODULE DnsMeshTypes ----------------------------
(***************************************************************************)
(* Type correctness of DnsMesh, for every value of its constants, and that *)
(* the process with its API server implements it.  Then the pod side:      *)
(* watches bring the informers up to date, and the event filter of the pod *)
(* controller loses nothing.                                               *)
(***************************************************************************)
EXTENDS APIServer, PodIndexProofs

\* Most leaves reason about sets, functions and records.  Those that need
\* arithmetic or sequences cite SMT.
USE Zenon

\* What is at the head of a queue or a watch, and what is left of it.
LEMMA HeadAndTail ==
    ASSUME NEW S, NEW s \in Seq(S), s # <<>>
    PROVE  Head(s) \in S /\ Tail(s) \in Seq(S)
BY SMT

-----------------------------------------------------------------------------
(* The records that carry an object together with its name.                *)

\* A pod event carries a pod of the name it is about.
LEMMA PodEventParts ==
    ASSUME NEW e \in PodEvents
    PROVE  e.name \in PodNames /\ e.obj \in Pod(e.name)
BY SMT DEF PodEvents

\* A pod under its name makes a pod event.
LEMMA PodEventMade ==
    ASSUME NEW p \in PodNames, NEW obj \in Pod(p)
    PROVE  [name |-> p, obj |-> obj] \in PodEvents
BY SMT DEF PodEvents

\* A policy event carries a policy of the name it is about.
LEMMA PolicyEventParts ==
    ASSUME NEW e \in PolicyEvents
    PROVE  e.name \in PolicyNames /\ e.obj \in DnsPolicy(e.name)
BY SMT DEF PolicyEvents

\* A policy under its name makes a policy event.
LEMMA PolicyEventMade ==
    ASSUME NEW q \in PolicyNames, NEW obj \in DnsPolicy(q)
    PROVE  [name |-> q, obj |-> obj] \in PolicyEvents
BY SMT DEF PolicyEvents

BusyPodPCs == {"get", "fetched", "delete", "upsert", "recalculate"}

\* A busy pod worker has a request and a copy of the pod requested.
LEMMA PodRecParts ==
    ASSUME podRec \in PodRecs, podRec.pc # "idle"
    PROVE  /\ podRec = [pc |-> podRec.pc, req |-> podRec.req, obj |-> podRec.obj]
           /\ podRec.pc \in BusyPodPCs
           /\ podRec.req \in PodNames
           /\ podRec.obj \in Pod(podRec.req)
BY SMT DEF PodRecs, IdlePodRec, BusyPodPCs

\* A program point, a request and a copy of its pod make a pod worker state.
LEMMA PodRecMade ==
    ASSUME NEW pc \in BusyPodPCs, NEW p \in PodNames, NEW obj \in Pod(p)
    PROVE  [pc |-> pc, req |-> p, obj |-> obj] \in PodRecs
BY SMT DEF PodRecs, BusyPodPCs

BusyPolicyPCs ==
    {"get", "recalculateGone", "recalculateDeleted", "removeFinalizer",
     "addFinalizer", "collect", "recalculateChange", "recalculate",
     "updateStatus"}

\* A busy policy worker has a request, a copy of the policy requested and a
\* selector.
LEMMA PolRecParts ==
    ASSUME polRec \in PolRecs, polRec.pc # "idle"
    PROVE  /\ polRec = [pc |-> polRec.pc, req |-> polRec.req,
                        obj |-> polRec.obj, sel |-> polRec.sel]
           /\ polRec.pc \in BusyPolicyPCs
           /\ polRec.req \in PolicyNames
           /\ polRec.obj \in DnsPolicy(polRec.req)
           /\ polRec.sel \in LabelMaps
BY SMT DEF PolRecs, IdlePolRec, BusyPolicyPCs

\* A program point, a request, a copy of its policy and a selector make a
\* policy worker state.
LEMMA PolRecMade ==
    ASSUME NEW pc \in BusyPolicyPCs, NEW q \in PolicyNames,
           NEW obj \in DnsPolicy(q), NEW sel \in LabelMaps
    PROVE  [pc |-> pc, req |-> q, obj |-> obj, sel |-> sel] \in PolRecs
BY SMT DEF PolRecs, BusyPolicyPCs

\* The empty selector is a label map.
LEMMA EmptyMapIsLabels == EmptyMap \in LabelMaps
<1>1. EmptyMap \in [{} -> Values]
  BY DEF EmptyMap
<1> QED  BY <1>1 DEF LabelMaps

\* The empty map that main starts from is a map of every type.
LEMMA EmptyMapIsMap == \A K, V : IsMap(EmptyMap, K, V)
<1>1. \A V : EmptyMap \in [{} -> V]
  BY DEF EmptyMap
<1> QED  BY <1>1 DEF IsMap

\* What r.Get reports as not found is in the type of every pod.
LEMMA NoPodIsPod == \A p \in PodNames : NoPod \in Pod(p)
BY DEF Pod

\* A policy that is not there is in the type of every policy.
LEMMA NoPolicyIsPolicy ==
    ASSUME NEW q \in PolicyNames, NEW rv \in Nat
    PROVE  NoPolicy(rv) \in DnsPolicy(q)
BY DEF NoPolicy, DnsPolicy

\* The selector and the block list of a spec have their types.
LEMMA SpecParts ==
    ASSUME NEW q \in PolicyNames, NEW spec \in SpecsOf[q] \cup {NoSpec}
    PROVE  spec.TargetSelector \in LabelMaps /\ spec.BlockList \in SUBSET Domains
BY SMT, ObjectsAssumption, EmptyMapIsLabels DEF DnsPolicySpec, NoSpec

\* The comparison of the code tells apart all maps that differ.
LEMMA EqualMaps ==
    ASSUME NEW a \in LabelMaps, NEW b \in LabelMaps, labelsEqual(a, b) PROVE a = b
<1> PICK D \in SUBSET Keys : a \in [D -> Values]
  BY DEF LabelMaps
<1> PICK E \in SUBSET Keys : b \in [E -> Values]
  BY DEF LabelMaps
<1>1. D \in SUBSET E /\ Cardinality(E) = Cardinality(D) /\ \A k \in D : b[k] = a[k]
  BY DEF labelsEqual
<1>2. D = E
  BY <1>1, ObjectsAssumption
<1> QED  BY SMT, <1>1, <1>2

-----------------------------------------------------------------------------
(* The work queues.                                                        *)

\* The work queue operations keep a queue a queue of the same names.
LEMMA QueueOps ==
    ASSUME NEW names, NEW q \in Queues(names), NEW x \in names
    PROVE  /\ Enqueue(q, x) \in Queues(names)
           /\ q.order # <<>> =>
                  /\ Head(q.order) \in names
                  /\ Dequeue(q) \in Queues(names)
           /\ Finish(q, x) \in Queues(names)
           /\ FinishWithError(q, x) \in Queues(names)
           /\ BackoffExpired(q, x) \in Queues(names)
<1>1. ASSUME NEW r \in Queues(names) PROVE Enqueue(r, x) \in Queues(names)
  <2>1. r.order \in Seq(names) /\ Append(r.order, x) \in Seq(names)
    BY SMT DEF Queues
  <2>2. CASE x \in r.dirty
    BY <2>2 DEF Enqueue
  <2>3. CASE x \notin r.dirty
    <3> DEFINE o == IF x \in r.processing THEN r.order ELSE Append(r.order, x)
    <3>1. o \in Seq(names)
      BY <2>1
    <3>2. Enqueue(r, x) = [r EXCEPT !.dirty = r.dirty \cup {x}, !.order = o]
      BY <2>3 DEF Enqueue
    <3> HIDE DEF o
    <3>3. r.dirty \cup {x} \in SUBSET names
      BY DEF Queues
    <3>4. Enqueue(r, x) = [order |-> o, dirty |-> r.dirty \cup {x},
                           processing |-> r.processing, waiting |-> r.waiting]
      BY <3>2 DEF Queues
    <3>5. r.processing \in SUBSET names /\ r.waiting \in SUBSET names
      BY DEF Queues
    <3> HIDE DEF Enqueue
    <3> QED  BY SMT, <3>1, <3>3, <3>4, <3>5 DEF Queues
  <2> QED  BY <2>2, <2>3
<1>2. ASSUME q.order # <<>>
      PROVE  Head(q.order) \in names /\ Dequeue(q) \in Queues(names)
  <2>1. q.order \in Seq(names)
    BY DEF Queues
  <2>2. Head(q.order) \in names /\ Tail(q.order) \in Seq(names)
    BY <1>2, <2>1, HeadAndTail
  <2> QED  BY <2>2 DEF Dequeue, Queues
<1>3. Finish(q, x) \in Queues(names)
  <2>1. q.order \in Seq(names) /\ Append(q.order, x) \in Seq(names)
    BY SMT DEF Queues
  <2> DEFINE o == IF x \in q.dirty THEN Append(q.order, x) ELSE q.order
  <2>2. o \in Seq(names)
    BY <2>1
  <2>3. Finish(q, x) = [q EXCEPT !.processing = q.processing \ {x}, !.order = o]
    BY DEF Finish
  <2> HIDE DEF o
  <2> QED  BY <2>2, <2>3 DEF Queues
<1>4. FinishWithError(q, x) \in Queues(names)
  BY <1>3 DEF FinishWithError, Queues
<1>5. [q EXCEPT !.waiting = @ \ {x}] \in Queues(names)
  BY DEF Queues
<1>6. BackoffExpired(q, x) \in Queues(names)
  BY <1>1, <1>5 DEF BackoffExpired
<1> QED  BY <1>1, <1>2, <1>3, <1>4, <1>6

\* What the queue operations do to the requests to come: Add adds one.
LEMMA EnqueueContents ==
    ASSUME NEW names, NEW q \in Queues(names), NEW x
    PROVE  Enqueue(q, x).dirty = q.dirty \cup {x} /\ Enqueue(q, x).waiting = q.waiting
BY DEF Enqueue, Queues

\* Get removes the first one.
LEMMA DequeueContents ==
    ASSUME NEW names, NEW q \in Queues(names)
    PROVE  Dequeue(q).dirty = q.dirty \ {Head(q.order)} /\ Dequeue(q).waiting = q.waiting
BY DEF Dequeue, Queues

\* Done keeps them all.
LEMMA FinishContents ==
    ASSUME NEW names, NEW q \in Queues(names), NEW x
    PROVE  Finish(q, x).dirty = q.dirty /\ Finish(q, x).waiting = q.waiting
BY DEF Finish, Queues

\* An error adds the request to those that wait for their backoff.
LEMMA ErrorContents ==
    ASSUME NEW names, NEW q \in Queues(names), NEW x
    PROVE  /\ FinishWithError(q, x).dirty = q.dirty
           /\ FinishWithError(q, x).waiting = q.waiting \cup {x}
<1>1. DOMAIN Finish(q, x) = DOMAIN q
  BY DEF Finish, Queues
<1>2. Finish(q, x).dirty = q.dirty /\ Finish(q, x).waiting = q.waiting
  BY FinishContents
<1> QED  BY <1>1, <1>2 DEF FinishWithError, Queues

\* The end of the backoff adds it to the queue.
LEMMA BackoffContents ==
    ASSUME NEW names, NEW q \in Queues(names), NEW x
    PROVE  /\ BackoffExpired(q, x).dirty = q.dirty \cup {x}
           /\ BackoffExpired(q, x).waiting = q.waiting \ {x}
<1> DEFINE r == [q EXCEPT !.waiting = @ \ {x}]
<1>1. r \in Queues(names) /\ r.dirty = q.dirty /\ r.waiting = q.waiting \ {x}
  BY DEF Queues
<1>2. BackoffExpired(q, x) = Enqueue(r, x)
  BY DEF BackoffExpired
<1> HIDE DEF r
<1> QED  BY SMT, <1>1, <1>2, EnqueueContents

\* The queues that the informers fill at start-up are queues.
LEMMA QueueOfOrders ==
    ASSUME NEW names, NEW S \in SUBSET names, NEW s \in Orders(S)
    PROVE  QueueOf(s) \in Queues(names)
<1>1. s \in Seq(names) /\ {s[i] : i \in DOMAIN s} \in SUBSET names
  BY SMT, OrdersAre
<1> QED  BY <1>1 DEF QueueOf, EmptyQueue, Queues

\* At start-up the informers queue every object they are to hand over.
LEMMA OrdersCover ==
    ASSUME NEW S, NEW s \in Orders(S) PROVE QueueOf(s).dirty = S
<1>1. {s[i] : i \in DOMAIN s} = S
  BY SMT, OrdersAre
<1> QED  BY <1>1 DEF QueueOf, EmptyQueue

\* What an informer receives after a relist is a sequence of events.
LEMMA RelistedEvents ==
    ASSUME NEW names, NEW S \in SUBSET names, NEW s \in Orders(S),
           NEW objs, NEW Events, \A n \in names : [name |-> n, obj |-> objs[n]] \in Events
    PROVE  [i \in DOMAIN s |-> [name |-> s[i], obj |-> objs[s[i]]]] \in Seq(Events)
<1> DEFINE es == [i \in 1 .. Len(s) |-> [name |-> s[i], obj |-> objs[s[i]]]]
<1>1. s \in Seq(S) /\ DOMAIN s = 1 .. Len(s) /\ Len(s) \in Nat
  BY SMT, OrdersAre
<1>2. es \in [1 .. Len(s) -> Events]
  BY <1>1, OrdersAre
<1>3. [i \in DOMAIN s |-> [name |-> s[i], obj |-> objs[s[i]]]] = es
  BY <1>1
<1> HIDE DEF es
<1> QED  BY SMT, <1>1, <1>2, <1>3

-----------------------------------------------------------------------------
(* Writes to the API server.                                               *)

PodApiTypeOK ==
    /\ apiPods = [p \in PodNames |-> apiPods[p]]
    /\ \A p \in PodNames : apiPods[p] \in Pod(p)
    /\ podWatch \in Seq(PodEvents)

PolicyApiTypeOK ==
    /\ apiPolicies = [q \in PolicyNames |-> apiPolicies[q]]
    /\ \A q \in PolicyNames : apiPolicies[q] \in DnsPolicy(q)
    /\ policyWatch \in Seq(PolicyEvents)

UsedTypeOK ==
    used \in [pod : 0 .. MaxPodWrites, policy : 0 .. MaxPolicyWrites,
              fail : 0 .. MaxFailures, restart : 0 .. MaxRestarts]

\* The type of the cluster is that of its pods, its policies and the budgets.
LEMMA ClusterParts ==
    ClusterTypeOK <=> PodApiTypeOK /\ PolicyApiTypeOK /\ UsedTypeOK
BY DEF ClusterTypeOK, PodApiTypeOK, PolicyApiTypeOK, UsedTypeOK

\* A failed API call stays within the failure budget.
LEMMA SpendFailureTypes ==
    ASSUME UsedTypeOK, SpendFailure PROVE UsedTypeOK'
BY SMT, BoundsAssumption DEF UsedTypeOK, SpendFailure

\* Writing a pod and announcing it keeps the cluster typed.
LEMMA WritePodTypes ==
    ASSUME ClusterTypeOK, NEW p \in PodNames, NEW obj \in Pod(p), WritePod(p, obj)
    PROVE  ClusterTypeOK'
<1>1. apiPods' = [apiPods EXCEPT ![p] = obj]
  BY DEF WritePod
<1>2. podWatch' = Append(podWatch, [name |-> p, obj |-> obj])
  BY DEF WritePod
<1>3. podWatch' \in Seq(PodEvents)
  BY SMT, <1>2, PodEventMade DEF ClusterTypeOK
<1>4. PodApiTypeOK'
  BY <1>1, <1>3 DEF ClusterTypeOK, PodApiTypeOK
<1>5. PolicyApiTypeOK'
  BY DEF WritePod, policyApiVars, ClusterTypeOK, PolicyApiTypeOK
<1>6. UsedTypeOK'
  <2>1. UsedTypeOK
    BY ClusterParts
  <2>2. used.pod < MaxPodWrites /\ used' = [used EXCEPT !.pod = used.pod + 1]
    BY DEF WritePod
  <2> QED  BY SMT, <2>1, <2>2, BoundsAssumption DEF UsedTypeOK
<1> QED  BY <1>4, <1>5, <1>6 DEF ClusterTypeOK, PodApiTypeOK, PolicyApiTypeOK, UsedTypeOK

\* Whatever users and kubelets do to pods keeps the cluster typed.
LEMMA PodsChangeTypes ==
    ASSUME ClusterTypeOK, PodsChange PROVE ClusterTypeOK'
<1> PICK p \in PodNames :
        \/ \E labels \in Labelings : CreatePod(p, labels)
        \/ \E ip \in IPsOf[p] : AssignIP(p, ip, "Pending")
        \/ \E ip \in IPsOf[p] : AssignIP(p, ip, "Running")
        \/ RunPod(p)
        \/ \E ip \in IPsOf[p] : ChangeIP(p, ip)
        \/ \E labels \in Labelings : RelabelPod(p, labels)
        \/ EndPod(p)
        \/ RemovePodObject(p)
  BY DEF PodsChange
<1> DEFINE obj == apiPods[p]
<1>1. obj \in Pod(p)
  BY DEF ClusterTypeOK
<1>0. obj.exists \/ obj.Phase \in Phases => obj \in ExistingPod(p)
  BY SMT, <1>1 DEF Pod, NoPod, Phases
<1>2. \A labels \in Labelings : labels \in LabelMaps
  BY ObjectsAssumption
<1> SUFFICES \E new \in Pod(p) : WritePod(p, new)
  BY WritePodTypes
<1>3. CASE \E labels \in Labelings : CreatePod(p, labels)
  BY <1>2, <1>3 DEF CreatePod, Pod, ExistingPod, Phases
<1>4. CASE \E ip \in IPsOf[p] : AssignIP(p, ip, "Pending") \/ AssignIP(p, ip, "Running")
  <2> PICK ip \in IPsOf[p], phase \in {"Pending", "Running"} : AssignIP(p, ip, phase)
    BY <1>4
  <2>1. [obj EXCEPT !.IP = ip, !.Phase = phase] \in Pod(p)
    BY <1>0 DEF AssignIP, Pod, ExistingPod, Phases
  <2> QED  BY <2>1 DEF AssignIP
<1>5. CASE RunPod(p)
  <2>1. [obj EXCEPT !.Phase = "Running"] \in Pod(p)
    BY <1>0, <1>5 DEF RunPod, Pod, ExistingPod, Phases
  <2> QED  BY <1>5, <2>1 DEF RunPod
<1>6. CASE \E ip \in IPsOf[p] : ChangeIP(p, ip)
  <2> PICK ip \in IPsOf[p] : ChangeIP(p, ip)
    BY <1>6
  <2>1. [obj EXCEPT !.IP = ip] \in Pod(p)
    BY <1>0 DEF ChangeIP, Pod, ExistingPod, Phases
  <2> QED  BY <2>1 DEF ChangeIP
<1>7. CASE \E labels \in Labelings : RelabelPod(p, labels)
  <2> PICK labels \in Labelings : RelabelPod(p, labels)
    BY <1>7
  <2>1. [obj EXCEPT !.Labels = labels] \in Pod(p)
    BY <1>0, <1>2 DEF RelabelPod, Pod, ExistingPod
  <2> QED  BY <2>1 DEF RelabelPod
<1>8. CASE EndPod(p)
  <2>1. /\ [obj EXCEPT !.Phase = "Succeeded"] \in Pod(p)
        /\ [obj EXCEPT !.Phase = "Failed", !.IP = NoIP] \in Pod(p)
    BY <1>0, <1>8 DEF EndPod, Pod, ExistingPod, Phases
  <2> QED  BY <1>8, <2>1 DEF EndPod
<1>9. CASE RemovePodObject(p)
  BY <1>9, NoPodIsPod DEF RemovePodObject
<1> QED  BY <1>3, <1>4, <1>5, <1>6, <1>7, <1>8, <1>9

\* What the API server stores of a policy is a policy.
LEMMA StoredType ==
    ASSUME NEW q \in PolicyNames, NEW obj \in DnsPolicy(q)
    PROVE  Stored(obj) \in DnsPolicy(q)
<1>1. obj.ResourceVersion + 1 \in Nat
  BY SMT DEF DnsPolicy
<1>2. [obj EXCEPT !.ResourceVersion = obj.ResourceVersion + 1] \in DnsPolicy(q)
  BY <1>1 DEF DnsPolicy
<1> QED  BY <1>1, <1>2, NoPolicyIsPolicy DEF Stored

\* Storing a policy and announcing it keeps the policies typed.
LEMMA StorePolicyTypes ==
    ASSUME PolicyApiTypeOK, NEW q \in PolicyNames, NEW obj \in DnsPolicy(q),
           StorePolicy(q, obj)
    PROVE  PolicyApiTypeOK'
<1>1. apiPolicies' = [apiPolicies EXCEPT ![q] = Stored(obj)]
  BY DEF StorePolicy
<1>2. policyWatch' = Append(policyWatch, [name |-> q, obj |-> Stored(obj)])
  BY DEF StorePolicy
<1>3. Stored(obj) \in DnsPolicy(q)
  BY StoredType
<1>4. policyWatch' \in Seq(PolicyEvents)
  BY SMT, <1>2, <1>3, PolicyEventMade DEF PolicyApiTypeOK
<1> QED  BY <1>1, <1>3, <1>4 DEF PolicyApiTypeOK

\* Whatever users do to policies keeps the cluster typed.
LEMMA PoliciesChangeTypes ==
    ASSUME ClusterTypeOK, PoliciesChange PROVE ClusterTypeOK'
<1> PICK q \in PolicyNames :
        \/ \E spec \in SpecsOf[q] : CreatePolicy(q, spec)
        \/ \E spec \in SpecsOf[q] : EditPolicy(q, spec)
        \/ RequestPolicyDeletion(q)
        \/ ReleasePolicy(q)
  BY DEF PoliciesChange
<1> DEFINE obj == apiPolicies[q]
<1>1. obj \in DnsPolicy(q)
  BY DEF ClusterTypeOK
<1>2. PodApiTypeOK /\ PolicyApiTypeOK /\ UsedTypeOK
  BY ClusterParts
<1>3. ASSUME NEW new \in DnsPolicy(q), UserWritesPolicy(q, new)
      PROVE  ClusterTypeOK'
  <2>1. PolicyApiTypeOK'
    BY <1>2, <1>3, StorePolicyTypes DEF UserWritesPolicy
  <2>2. PodApiTypeOK'
    BY <1>2, <1>3 DEF UserWritesPolicy, podApiVars, PodApiTypeOK
  <2>3. UsedTypeOK'
    BY SMT, <1>2, <1>3, BoundsAssumption DEF UserWritesPolicy, UsedTypeOK
  <2> QED  BY <2>1, <2>2, <2>3 DEF ClusterTypeOK, PodApiTypeOK, PolicyApiTypeOK, UsedTypeOK
<1>4. CASE \E spec \in SpecsOf[q] : CreatePolicy(q, spec)
  <2> PICK spec \in SpecsOf[q] : CreatePolicy(q, spec)
    BY <1>4
  <2>1. [obj EXCEPT !.exists = TRUE, !.Spec = spec, !.Generation = 1] \in DnsPolicy(q)
    BY <1>1 DEF DnsPolicy
  <2> QED  BY <1>3, <2>1 DEF CreatePolicy
<1>5. CASE \E spec \in SpecsOf[q] : EditPolicy(q, spec)
  <2> PICK spec \in SpecsOf[q] : EditPolicy(q, spec)
    BY <1>5
  <2>1. obj.Generation + 1 \in Nat
    BY SMT, <1>1 DEF DnsPolicy
  <2>2. [obj EXCEPT !.Spec = spec, !.Generation = obj.Generation + 1] \in DnsPolicy(q)
    BY <1>1, <2>1 DEF DnsPolicy
  <2> QED  BY <1>3, <2>2 DEF EditPolicy
<1>6. CASE RequestPolicyDeletion(q)
  <2> DEFINE held == q \in ForegroundPolicies
  <2>1. q \in DeletablePolicies /\ held \in BOOLEAN
    BY SMT, <1>6 DEF RequestPolicyDeletion
  <2>2. UserWritesPolicy(q, [obj EXCEPT !.Deleting = TRUE, !.Held = held])
    BY <1>6 DEF RequestPolicyDeletion
  <2> HIDE DEF held
  <2>3. [obj EXCEPT !.Deleting = TRUE, !.Held = held] \in DnsPolicy(q)
    BY <1>1, <2>1 DEF DnsPolicy
  <2> QED  BY <1>3, <2>2, <2>3
<1>7. CASE ReleasePolicy(q)
  <2>1. [obj EXCEPT !.Held = FALSE] \in DnsPolicy(q)
    BY <1>1 DEF DnsPolicy
  <2>2. PolicyApiTypeOK'
    BY <1>2, <1>7, <2>1, StorePolicyTypes DEF ReleasePolicy
  <2>3. PodApiTypeOK' /\ UsedTypeOK'
    BY <1>2, <1>7 DEF ReleasePolicy, PodApiTypeOK, UsedTypeOK
  <2> QED  BY <2>2, <2>3 DEF ClusterTypeOK, PodApiTypeOK, PolicyApiTypeOK, UsedTypeOK
<1> QED  BY <1>4, <1>5, <1>6, <1>7

-----------------------------------------------------------------------------
(* The maps of the cache.                                                  *)

\* Deleting keys from a map keeps its type.
LEMMA WithoutType ==
    ASSUME NEW m, NEW K, NEW V, NEW S, IsMap(m, K, V)
    PROVE  IsMap(Without(m, S), K, V)
<1> PICK D \in SUBSET K : m \in [D -> V]
  BY DEF IsMap
<1>1. Without(m, S) \in [D \ S -> V]
  BY DEF Without
<1> QED  BY <1>1 DEF IsMap

\* recalculatePodInternal collects domains only.
LEMMA BlockedForType ==
    ASSUME PolicyIndexTypeOK, NEW labels
    PROVE  BlockedFor(labels) \in SUBSET Domains
<1>1. ASSUME NEW q \in DOMAIN policies PROVE policies[q].BlockList \in SUBSET Domains
  BY SMT, ObjectsAssumption DEF PolicyIndexTypeOK, DnsPolicySpec
<1> QED  BY <1>1 DEF BlockedFor

\* The pods collected for a selector are IPs with label maps.
LEMMA BatchType ==
    ASSUME PodIndexTypeOK, NEW selector, NEW batch \in BatchesFor(selector)
    PROVE  IsMap(batch, IPs, LabelMaps)
<1> DEFINE found == {pods[n] : n \in GetPodsMatchingSelector(selector)}
<1>1. \A info \in found : info.IP \in IPs /\ info.Labels \in LabelMaps
  BY DEF GetPodsMatchingSelector, PodIndexTypeOK, PodInfo, IPs
<1>2. batch \in [{info.IP : info \in found} -> {info.Labels : info \in found}]
  BY DEF BatchesFor, BatchesOf
<1> HIDE DEF found
<1> DEFINE ips == {info.IP : info \in found}
           labels == {info.Labels : info \in found}
<1>3. ips \in SUBSET IPs /\ labels \subseteq LabelMaps
  BY <1>1
<1>4. batch \in [ips -> labels]
  BY <1>2
<1> HIDE DEF ips, labels
<1> QED  BY <1>3, <1>4 DEF IsMap

\* Recalculating a batch of pods keeps the entries typed.
LEMMA RecalculatedType ==
    ASSUME PolicyIndexTypeOK, IsMap(entries, IPs, SUBSET Domains),
           NEW batch, IsMap(batch, IPs, LabelMaps)
    PROVE  IsMap(Recalculated(batch), IPs, SUBSET Domains)
<1> PICK D \in SUBSET IPs : entries \in [D -> SUBSET Domains]
  BY DEF IsMap
<1> PICK E \in SUBSET IPs : batch \in [E -> LabelMaps]
  BY DEF IsMap
<1>1. \A ip \in E : BlockedFor(batch[ip]) \in SUBSET Domains
  BY BlockedForType
<1>2. Recalculated(batch) \in [D \cup E -> SUBSET Domains]
  BY <1>1 DEF Recalculated
<1> QED  BY <1>2 DEF IsMap

\* Every method of the blocklist cache keeps it typed.
LEMMA CacheOpTypes ==
    ASSUME CacheTypeOK, PodIndexTypeOK, PolicyIndexTypeOK
    PROVE  /\ \A n : RecalculatePod(n) => CacheTypeOK'
           /\ \A ip : RemovePod(ip) => CacheTypeOK'
           /\ \A sel : RecalculateForPolicy(sel) => CacheTypeOK'
           /\ \A sel : CollectOldSelector(sel) => CacheTypeOK'
           /\ \A sel : RecalculateForPolicyChange(sel) => CacheTypeOK'
<1>1. ASSUME NEW n, RecalculatePod(n) PROVE CacheTypeOK'
  <2>1. CASE n \in DOMAIN pods
    <3> DEFINE batch == [ip \in {pods[n].IP} |-> pods[n].Labels]
    <3>1. pods[n].IP \in IPs /\ pods[n].Labels \in LabelMaps
      BY <2>1 DEF PodIndexTypeOK, PodInfo, IPs
    <3>2. batch \in [{pods[n].IP} -> LabelMaps]
      BY <3>1
    <3>3. IsMap(batch, IPs, LabelMaps)
      BY <3>1, <3>2 DEF IsMap
    <3>4. entries' = Recalculated(batch)
      BY <1>1, <2>1 DEF RecalculatePod
    <3> HIDE DEF batch
    <3> QED  BY <1>1, <3>3, <3>4, RecalculatedType DEF CacheTypeOK, RecalculatePod
  <2>2. CASE n \notin DOMAIN pods
    BY <1>1, <2>2 DEF RecalculatePod, CacheTypeOK
  <2> QED  BY <2>1, <2>2
<1>2. ASSUME NEW ip, RemovePod(ip) PROVE CacheTypeOK'
  BY <1>2, WithoutType DEF RemovePod, CacheTypeOK
<1>3. ASSUME NEW sel, RecalculateForPolicy(sel) PROVE CacheTypeOK'
  BY <1>3, BatchType, RecalculatedType DEF RecalculateForPolicy, CacheTypeOK
<1>4. ASSUME NEW sel, CollectOldSelector(sel) PROVE CacheTypeOK'
  BY <1>4, BatchType DEF CollectOldSelector, CacheTypeOK
<1>5. ASSUME NEW sel, RecalculateForPolicyChange(sel) PROVE CacheTypeOK'
  <2> PICK batch \in BatchesFor(sel) :
          entries' = Recalculated(
              [ip \in DOMAIN affectedPods \cup DOMAIN batch |->
                  IF ip \in DOMAIN batch THEN batch[ip] ELSE affectedPods[ip]])
    BY <1>5 DEF RecalculateForPolicyChange
  <2> DEFINE all == [ip \in DOMAIN affectedPods \cup DOMAIN batch |->
                        IF ip \in DOMAIN batch THEN batch[ip] ELSE affectedPods[ip]]
  <2>1. PICK D \in SUBSET IPs : affectedPods \in [D -> LabelMaps]
    BY DEF CacheTypeOK, IsMap
  <2>2. PICK E \in SUBSET IPs : batch \in [E -> LabelMaps]
    BY BatchType DEF IsMap
  <2>3. all \in [D \cup E -> LabelMaps]
    BY <2>1, <2>2
  <2>4. entries' = Recalculated(all)
    OBVIOUS
  <2> HIDE DEF all
  <2>5. IsMap(all, IPs, LabelMaps)
    BY <2>3 DEF IsMap
  <2>6. IsMap(entries', IPs, SUBSET Domains)
    BY <2>4, <2>5, RecalculatedType DEF CacheTypeOK
  <2> QED  BY <1>5, <2>6, EmptyMapIsMap DEF RecalculateForPolicyChange, CacheTypeOK
<1> QED  BY <1>1, <1>2, <1>3, <1>4, <1>5

-----------------------------------------------------------------------------
(* The inductive invariant.  Next to the types it has the soundness of the *)
(* reverse map, which the index lemmas need, and that the pod worker only  *)
(* goes on to Upsert with a pod that has an IP.                            *)

UpsertingHasIP == podRec.pc = "upsert" => podRec.obj.IP # NoIP

TypeInv == TypeOK /\ PodLookups /\ UpsertingHasIP

\* The strengthened type invariant, one conjunct per component.
LEMMA TypeInvParts ==
    /\ TypeInv <=> /\ ClusterTypeOK /\ PodCtlTypeOK /\ PolicyCtlTypeOK
                   /\ PodIndexInv /\ PolicyIndexTypeOK /\ CacheTypeOK
                   /\ UpsertingHasIP
    /\ TypeInv' <=> /\ ClusterTypeOK' /\ PodCtlTypeOK' /\ PolicyCtlTypeOK'
                    /\ PodIndexInv' /\ PolicyIndexTypeOK' /\ CacheTypeOK'
                    /\ UpsertingHasIP'
BY DEF TypeInv, TypeOK, PodIndexInv

\* The pod worker gets to Upsert after RemovePod only with an IP: the early
\* return for pods without one comes first.
LEMMA UpsertingStep ==
    ASSUME PodCtlTypeOK, UpsertingHasIP, PodSide PROVE UpsertingHasIP'
<1> USE DEF UpsertingHasIP
<1>1. CASE UNCHANGED podRec
  BY <1>1
<1>2. CASE podRec' = IdlePodRec
  BY <1>2 DEF IdlePodRec
<1>3. CASE podRec.pc = "idle" /\ podRec'.pc = "get"
  BY <1>3
<1>4. CASE podRec.pc # "idle" /\ PodGet
  BY <1>4, PodRecParts DEF PodGet, PodCtlTypeOK
<1>5. CASE podRec.pc # "idle" /\ \E pc \in {"delete", "recalculate"} :
               podRec' = [podRec EXCEPT !.pc = pc]
  BY <1>5, PodRecParts DEF PodCtlTypeOK
<1>6. CASE PodRemovesOldEntry
  BY <1>6, PodRecParts DEF PodRemovesOldEntry, PodCtlTypeOK
<1>7. ASSUME PodTake PROVE podRec.pc = "idle" /\ podRec'.pc = "get"
  BY <1>7 DEF PodTake, IdlePodRec
<1>8. ASSUME PodGet PROVE podRec.pc # "idle"
  BY <1>8 DEF PodGet
<1>9. ASSUME PodGoneRemovesEntry \/ PodUpsert
      PROVE  podRec.pc # "idle" /\ \E pc \in {"delete", "recalculate"} :
                 podRec' = [podRec EXCEPT !.pc = pc]
  BY <1>9 DEF PodGoneRemovesEntry, PodUpsert
<1>10. ASSUME PodGetFails \/ PodGoneLeavesIndex \/ PodWithoutIP \/ PodRecalculate
       PROVE  podRec' = IdlePodRec
  BY <1>10 DEF PodGetFails, PodGoneLeavesIndex, PodWithoutIP, PodRecalculate,
               PodReturns, PodReturnsError
<1>11. ASSUME DeliverPodEvent \/ RelistPods \/ \E p \in PodNames : PodBackoffExpires(p)
       PROVE  UNCHANGED podRec
  BY <1>11 DEF DeliverPodEvent, RelistPods, PodBackoffExpires, podCtlVars
<1> QED
  BY <1>1, <1>2, <1>3, <1>4, <1>5, <1>6, <1>7, <1>8, <1>9, <1>10, <1>11
  DEF PodSide, PodWorker

\* A component whose variables do not change keeps its type.
LEMMA UnchangedTypes ==
    /\ ClusterTypeOK /\ UNCHANGED clusterVars => ClusterTypeOK'
    /\ PodCtlTypeOK /\ UNCHANGED podCtlVars => PodCtlTypeOK'
    /\ PolicyCtlTypeOK /\ UNCHANGED policyCtlVars => PolicyCtlTypeOK'
    /\ PodIndexInv /\ UNCHANGED podIndexVars => PodIndexInv'
    /\ PolicyIndexTypeOK /\ UNCHANGED policies => PolicyIndexTypeOK'
    /\ CacheTypeOK /\ UNCHANGED cacheVars => CacheTypeOK'
<1>1. ClusterTypeOK /\ UNCHANGED clusterVars => ClusterTypeOK'
  BY DEF ClusterTypeOK, clusterVars
<1>2. PodCtlTypeOK /\ UNCHANGED podCtlVars => PodCtlTypeOK'
  BY DEF PodCtlTypeOK, podCtlVars
<1>3. PolicyCtlTypeOK /\ UNCHANGED policyCtlVars => PolicyCtlTypeOK'
  BY DEF PolicyCtlTypeOK, policyCtlVars
<1>4. PodIndexInv /\ UNCHANGED podIndexVars => PodIndexInv'
  BY DEF PodIndexInv, PodIndexTypeOK, PodLookups, ReverseLookupSound,
         ReverseLookupComplete, podIndexVars
<1>5. PolicyIndexTypeOK /\ UNCHANGED policies => PolicyIndexTypeOK'
  BY DEF PolicyIndexTypeOK
<1>6. CacheTypeOK /\ UNCHANGED cacheVars => CacheTypeOK'
  BY DEF CacheTypeOK, cacheVars
<1> QED  BY <1>1, <1>2, <1>3, <1>4, <1>5, <1>6

\* When the pod Reconcile returns, the worker and its queue stay typed.
LEMMA PodReturnTypes ==
    ASSUME PodCtlTypeOK, podRec.pc # "idle", UNCHANGED podCache,
           PodReturns \/ PodReturnsError
    PROVE  PodCtlTypeOK'
<1>1. podQueue' \in Queues(PodNames)
  BY PodRecParts, QueueOps DEF PodCtlTypeOK, PodReturns, PodReturnsError
<1>2. podRec' \in PodRecs
  BY DEF PodReturns, PodReturnsError, PodRecs
<1> QED  BY <1>1, <1>2 DEF PodCtlTypeOK

\* When the pod worker goes to another program point it stays typed.
LEMMA PodMovesOnTypes ==
    ASSUME PodCtlTypeOK, podRec.pc # "idle", UNCHANGED <<podCache, podQueue>>,
           NEW pc \in BusyPodPCs, podRec' = [podRec EXCEPT !.pc = pc]
    PROVE  PodCtlTypeOK'
<1>1. podRec' = [pc |-> pc, req |-> podRec.req, obj |-> podRec.obj]
  BY PodRecParts DEF PodCtlTypeOK
<1>2. podRec' \in PodRecs
  BY SMT, <1>1, PodRecParts, PodRecMade DEF PodCtlTypeOK
<1> QED  BY <1>2 DEF PodCtlTypeOK

\* Pod events, back-offs and steps of the pod worker preserve all types.
LEMMA PodSideTypes ==
    ASSUME TypeInv, PodSide, UNCHANGED policyCtlVars PROVE TypeInv'
<1> USE TypeInvParts, UnchangedTypes
<1>0. UpsertingHasIP'
  BY UpsertingStep
<1> USE <1>0
<1>1. CASE DeliverPodEvent
  <2> DEFINE e == Head(podWatch)
  <2>1. podWatch \in Seq(PodEvents) /\ podWatch # <<>>
    BY <1>1 DEF DeliverPodEvent, ClusterTypeOK
  <2>2. e \in PodEvents /\ Tail(podWatch) \in Seq(PodEvents)
    BY <2>1, HeadAndTail
  <2>3. e.name \in PodNames /\ e.obj \in Pod(e.name)
    BY <2>2, PodEventParts
  <2>4. /\ podWatch' = Tail(podWatch)
        /\ podCache' = [podCache EXCEPT ![e.name] = e.obj]
        /\ podQueue' = IF podEventFilter(podCache[e.name], e.obj)
                       THEN Enqueue(podQueue, e.name) ELSE podQueue
        /\ UNCHANGED <<apiPods, apiPolicies, policyWatch, used, podRec,
                       podIndexVars, policies, cacheVars>>
    BY <1>1 DEF DeliverPodEvent, policyApiVars
  <2> HIDE DEF e
  <2>5. ClusterTypeOK'
    BY <2>2, <2>4 DEF ClusterTypeOK
  <2>6. podQueue' \in Queues(PodNames)
    BY <2>3, <2>4, QueueOps DEF PodCtlTypeOK
  <2>7. PodCtlTypeOK'
    BY <2>3, <2>4, <2>6 DEF PodCtlTypeOK
  <2> QED  BY <2>4, <2>5, <2>7
<1>2. CASE \E p \in PodNames : PodBackoffExpires(p)
  <2>1. podQueue' \in Queues(PodNames)
    BY <1>2, QueueOps DEF PodBackoffExpires, PodCtlTypeOK
  <2>2. PodCtlTypeOK'
    BY <1>2, <2>1 DEF PodBackoffExpires, PodCtlTypeOK
  <2> QED  BY <1>2, <2>2 DEF PodBackoffExpires
<1>3. CASE PodTake
  <2>1. Head(podQueue.order) \in PodNames /\ podQueue' \in Queues(PodNames)
    <3>1. podQueue \in Queues(PodNames) /\ podQueue.order # <<>>
      BY <1>3 DEF PodTake, PodCtlTypeOK
    <3>2. podQueue.order \in Seq(PodNames)
      BY <3>1 DEF Queues
    <3>3. Head(podQueue.order) \in PodNames
      BY <3>1, <3>2, HeadAndTail
    <3> QED  BY <1>3, <3>1, <3>3, QueueOps DEF PodTake
  <2>2. podRec' = [pc |-> "get", req |-> Head(podQueue.order), obj |-> NoPod]
    BY <1>3 DEF PodTake, IdlePodRec
  <2>3. podRec' \in PodRecs
    BY <2>1, <2>2, NoPodIsPod, PodRecMade DEF BusyPodPCs
  <2>4. PodCtlTypeOK'
    BY <1>3, <2>1, <2>3 DEF PodTake, PodCtlTypeOK
  <2> QED  BY <1>3, <2>4 DEF PodTake
<1>4. CASE PodGet
  <2>1. podRec \in PodRecs /\ podRec.pc # "idle"
    BY <1>4 DEF PodGet, PodCtlTypeOK
  <2>2. podRec' = [pc |-> "fetched", req |-> podRec.req, obj |-> podCache[podRec.req]]
    BY <1>4, <2>1, PodRecParts DEF PodGet
  <2>3. podRec' \in PodRecs
    BY <2>1, <2>2, PodRecParts, PodRecMade DEF PodCtlTypeOK, BusyPodPCs
  <2>4. PodCtlTypeOK'
    BY <1>4, <2>3 DEF PodGet, PodCtlTypeOK
  <2> QED  BY <1>4, <2>4 DEF PodGet
<1>5. CASE PodGetFails
  <2>1. PodCtlTypeOK'
    BY <1>5, PodReturnTypes DEF PodGetFails
  <2>2. UsedTypeOK'
    BY <1>5, ClusterParts, SpendFailureTypes DEF PodGetFails
  <2>3. ClusterTypeOK'
    BY <1>5, <2>2 DEF PodGetFails, podApiVars, policyApiVars, ClusterTypeOK, UsedTypeOK
  <2> QED  BY <1>5, <2>1, <2>3 DEF PodGetFails
<1>6. CASE PodGoneRemovesEntry
  <2>1. PodCtlTypeOK'
    BY <1>6, PodMovesOnTypes DEF PodGoneRemovesEntry, BusyPodPCs
  <2>2. CacheTypeOK'
    BY <1>6, CacheOpTypes DEF PodGoneRemovesEntry, PodIndexInv
  <2> QED  BY <1>6, <2>1, <2>2 DEF PodGoneRemovesEntry
<1>7. CASE PodGoneLeavesIndex
  <2>1. PodCtlTypeOK'
    BY <1>7, PodReturnTypes DEF PodGoneLeavesIndex
  <2>2. podRec.req \in PodNames
    BY <1>7, PodRecParts DEF PodGoneLeavesIndex, PodCtlTypeOK
  <2>3. PodIndexInv'
    BY <1>7, <2>2, DeleteKeepsIndex DEF PodGoneLeavesIndex
  <2> QED  BY <1>7, <2>1, <2>3 DEF PodGoneLeavesIndex
<1>8. CASE PodWithoutIP
  <2>1. PodCtlTypeOK'
    BY <1>8, PodReturnTypes DEF PodWithoutIP
  <2> QED  BY <1>8, <2>1 DEF PodWithoutIP
<1>9. CASE PodRemovesOldEntry
  <2>1. PodCtlTypeOK'
    BY <1>9, PodMovesOnTypes DEF PodRemovesOldEntry, BusyPodPCs
  <2>2. CacheTypeOK'
    BY <1>9, CacheOpTypes DEF PodRemovesOldEntry, PodIndexInv
  <2> QED  BY <1>9, <2>1, <2>2 DEF PodRemovesOldEntry
<1>11. CASE PodRecalculate
  <2>1. PodCtlTypeOK'
    BY <1>11, PodReturnTypes DEF PodRecalculate
  <2>2. CacheTypeOK'
    BY <1>11, CacheOpTypes DEF PodRecalculate, PodIndexInv
  <2> QED  BY <1>11, <2>1, <2>2 DEF PodRecalculate
<1>10. CASE PodUpsert
  <2>1. PodCtlTypeOK'
    BY <1>10, PodMovesOnTypes DEF PodUpsert, BusyPodPCs
  <2> DEFINE info == [IP |-> podRec.obj.IP, Labels |-> podRec.obj.Labels]
  <2>2. podRec.req \in PodNames /\ podRec.obj \in Pod(podRec.req)
    BY <1>10, PodRecParts DEF PodUpsert, PodCtlTypeOK
  <2>3. podRec.obj.IP # NoIP
    BY <1>10 DEF PodUpsert, UpsertingHasIP
  <2>4. info \in PodInfo(podRec.req)
    <3>1. podRec.obj \in ExistingPod(podRec.req)
      BY SMT, <2>2, <2>3 DEF Pod, NoPod
    <3> QED  BY <2>3, <3>1 DEF ExistingPod, PodInfo
  <2>5. UpsertPod(podRec.req, info)
    BY <1>10 DEF PodUpsert
  <2> HIDE DEF info
  <2>6. PodIndexInv'
    BY <2>2, <2>4, <2>5, UpsertKeepsIndex
  <2> QED  BY <1>10, <2>1, <2>6 DEF PodUpsert
<1>12. CASE RelistPods
  <2>1. podWatch' \in Seq(PodEvents)
    <3>1. \A p \in PodNames : [name |-> p, obj |-> apiPods[p]] \in PodEvents
      BY PodEventMade DEF ClusterTypeOK
    <3> DEFINE S == {p \in PodNames : apiPods[p].exists \/ podCache[p].exists}
    <3>2. PICK names \in Orders(S) :
              podWatch' = [i \in DOMAIN names |->
                              [name |-> names[i], obj |-> apiPods[names[i]]]]
      BY <1>12 DEF RelistPods
    <3>3. S \in SUBSET PodNames
      OBVIOUS
    <3> HIDE DEF S
    <3> QED  BY <3>1, <3>2, <3>3, RelistedEvents
  <2>2. UsedTypeOK'
    BY <1>12, ClusterParts, SpendFailureTypes DEF RelistPods
  <2>3. ClusterTypeOK'
    BY <1>12, <2>1, <2>2 DEF RelistPods, policyApiVars, ClusterTypeOK, UsedTypeOK
  <2> QED  BY <1>12, <2>3 DEF RelistPods
<1> QED
  BY <1>1, <1>2, <1>3, <1>4, <1>5, <1>6, <1>7, <1>8, <1>9, <1>10, <1>11, <1>12
  DEF PodSide, PodWorker

\* When the policy Reconcile returns, the worker and its queue stay typed.
LEMMA PolicyReturnTypes ==
    ASSUME PolicyCtlTypeOK, polRec.pc # "idle", UNCHANGED policyCache,
           PolicyReturns \/ PolicyReturnsError
    PROVE  PolicyCtlTypeOK'
<1>1. policyQueue' \in Queues(PolicyNames)
  BY PolRecParts, QueueOps DEF PolicyCtlTypeOK, PolicyReturns, PolicyReturnsError
<1>2. polRec' \in PolRecs
  BY DEF PolicyReturns, PolicyReturnsError, PolRecs
<1> QED  BY <1>1, <1>2 DEF PolicyCtlTypeOK

\* When the policy worker takes a copy and a selector along it stays typed.
LEMMA PolicyMovesOnTypes ==
    ASSUME PolicyCtlTypeOK, polRec.pc # "idle", UNCHANGED <<policyCache, policyQueue>>,
           NEW pc \in BusyPolicyPCs, NEW obj \in DnsPolicy(polRec.req),
           NEW sel \in LabelMaps,
           polRec' = [polRec EXCEPT !.pc = pc, !.obj = obj, !.sel = sel]
    PROVE  PolicyCtlTypeOK'
<1>1. polRec' = [pc |-> pc, req |-> polRec.req, obj |-> obj, sel |-> sel]
  BY PolRecParts DEF PolicyCtlTypeOK
<1>2. polRec.req \in PolicyNames
  BY PolRecParts DEF PolicyCtlTypeOK
<1>3. [pc |-> pc, req |-> polRec.req, obj |-> obj, sel |-> sel] \in PolRecs
  BY <1>2, PolRecMade
<1>4. polRec' \in PolRecs
  BY <1>1, <1>3
<1> QED  BY <1>4 DEF PolicyCtlTypeOK

\* When only the policy worker's program point changes it stays typed.
LEMMA PolicyAdvancesTypes ==
    ASSUME PolicyCtlTypeOK, polRec.pc # "idle", UNCHANGED <<policyCache, policyQueue>>,
           NEW pc \in BusyPolicyPCs, polRec' = [polRec EXCEPT !.pc = pc]
    PROVE  PolicyCtlTypeOK'
<1>1. polRec' = [pc |-> pc, req |-> polRec.req, obj |-> polRec.obj, sel |-> polRec.sel]
  BY PolRecParts DEF PolicyCtlTypeOK
<1>2. polRec' \in PolRecs
  BY SMT, <1>1, PolRecParts, PolRecMade DEF PolicyCtlTypeOK
<1> QED  BY <1>2 DEF PolicyCtlTypeOK

\* The object sent by Update or Status().Update is a policy.
LEMMA DesiredType ==
    ASSUME polRec \in PolRecs, Writing PROVE Desired \in DnsPolicy(polRec.req)
<1>1. polRec.pc # "idle"
  BY DEF Writing
<1> DEFINE obj == polRec.obj
<1>2. obj \in DnsPolicy(polRec.req)
  BY <1>1, PolRecParts
<1>3. /\ [obj EXCEPT !.Finalizer = TRUE] \in DnsPolicy(polRec.req)
      /\ [obj EXCEPT !.Finalizer = FALSE] \in DnsPolicy(polRec.req)
      /\ [obj EXCEPT !.ObservedGeneration = obj.Generation] \in DnsPolicy(polRec.req)
  BY <1>2 DEF DnsPolicy
<1> DEFINE observed == [obj EXCEPT !.ObservedGeneration = obj.Generation]
<1>4. observed \in DnsPolicy(polRec.req)
  BY <1>3
<1>5. Desired = CASE polRec.pc = "addFinalizer" -> [obj EXCEPT !.Finalizer = TRUE]
                  [] polRec.pc = "removeFinalizer" -> [obj EXCEPT !.Finalizer = FALSE]
                  [] polRec.pc = "updateStatus" -> updateCondition(observed, "True")
  BY DEF Desired
<1> HIDE DEF observed
<1>6. updateCondition(observed, "True") \in DnsPolicy(polRec.req)
  BY <1>4 DEF updateCondition, DnsPolicy
<1> QED  BY <1>3, <1>5, <1>6 DEF Writing

\* What r.Get returns is the policy of the request, with a typed spec.
LEMMA FetchedType ==
    ASSUME PolicyCtlTypeOK, polRec.pc = "get"
    PROVE  /\ polRec.req \in PolicyNames
           /\ Fetched \in DnsPolicy(polRec.req)
           /\ Fetched.Spec.TargetSelector \in LabelMaps
<1>1. polRec.req \in PolicyNames
  BY PolRecParts DEF PolicyCtlTypeOK
<1>2. Fetched \in DnsPolicy(polRec.req)
  BY <1>1 DEF PolicyCtlTypeOK, Fetched
<1>3. Fetched.Spec \in SpecsOf[polRec.req] \cup {NoSpec}
  BY <1>2 DEF DnsPolicy
<1> QED  BY <1>1, <1>2, <1>3, SpecParts

\* The selector PolicyIndex.Delete and Upsert return is a label map.
LEMMA OldSelectorType ==
    ASSUME PolicyIndexTypeOK, NEW q PROVE OldSelector(q) \in LabelMaps
BY SpecParts, EmptyMapIsLabels DEF PolicyIndexTypeOK, OldSelector

\* The two writes of the policy index keep it typed.
LEMMA PolicyIndexOpTypes ==
    ASSUME PolicyIndexTypeOK, NEW q \in PolicyNames
    PROVE  /\ DeletePolicy(q) => PolicyIndexTypeOK'
           /\ \A spec \in SpecsOf[q] : UpsertPolicy(q, spec) => PolicyIndexTypeOK'
BY DEF PolicyIndexTypeOK, DeletePolicy, UpsertPolicy, Put, Without

\* Returning or going on to the status update keeps the worker typed.
LEMMA PolicyRecalculatedTypes ==
    ASSUME PolicyCtlTypeOK, polRec.pc # "idle", UNCHANGED policyCache,
           PolicyRecalculated
    PROVE  PolicyCtlTypeOK'
<1>1. CASE polRec.obj.ObservedGeneration # polRec.obj.Generation
  BY <1>1, PolicyAdvancesTypes DEF PolicyRecalculated, BusyPolicyPCs
<1>2. CASE polRec.obj.ObservedGeneration = polRec.obj.Generation
  BY <1>2, PolicyReturnTypes DEF PolicyRecalculated
<1> QED  BY <1>1, <1>2

\* Policy events, back-offs and steps of the policy worker preserve all types.
LEMMA PolicySideTypes ==
    ASSUME TypeInv, PolicySide, UNCHANGED podCtlVars PROVE TypeInv'
<1> USE TypeInvParts, UnchangedTypes
<1>0. UpsertingHasIP'
  BY DEF UpsertingHasIP, podCtlVars
<1> USE <1>0
<1>1. CASE DeliverPolicyEvent
  <2> DEFINE e == Head(policyWatch)
  <2>1. policyWatch \in Seq(PolicyEvents) /\ policyWatch # <<>>
    BY <1>1 DEF DeliverPolicyEvent, ClusterTypeOK
  <2>2. e \in PolicyEvents /\ Tail(policyWatch) \in Seq(PolicyEvents)
    BY <2>1, HeadAndTail
  <2>3. e.name \in PolicyNames /\ e.obj \in DnsPolicy(e.name)
    BY <2>2, PolicyEventParts
  <2>4. /\ policyWatch' = Tail(policyWatch)
        /\ policyCache' = [policyCache EXCEPT ![e.name] = e.obj]
        /\ policyQueue' = Enqueue(policyQueue, e.name)
        /\ UNCHANGED <<apiPods, podWatch, apiPolicies, used, polRec,
                       podIndexVars, policies, cacheVars>>
    BY <1>1 DEF DeliverPolicyEvent, podApiVars
  <2> HIDE DEF e
  <2>5. ClusterTypeOK'
    BY <2>2, <2>4 DEF ClusterTypeOK
  <2>6. policyQueue' \in Queues(PolicyNames)
    BY <2>3, <2>4, QueueOps DEF PolicyCtlTypeOK
  <2>7. PolicyCtlTypeOK'
    BY <2>3, <2>4, <2>6 DEF PolicyCtlTypeOK
  <2> QED  BY <2>4, <2>5, <2>7
<1>2. CASE \E q \in PolicyNames : PolicyBackoffExpires(q)
  <2>1. policyQueue' \in Queues(PolicyNames)
    BY <1>2, QueueOps DEF PolicyBackoffExpires, PolicyCtlTypeOK
  <2>2. PolicyCtlTypeOK'
    BY <1>2, <2>1 DEF PolicyBackoffExpires, PolicyCtlTypeOK
  <2> QED  BY <1>2, <2>2 DEF PolicyBackoffExpires
<1>3. CASE PolicyTake
  <2>1. Head(policyQueue.order) \in PolicyNames /\ policyQueue' \in Queues(PolicyNames)
    <3>1. policyQueue \in Queues(PolicyNames) /\ policyQueue.order # <<>>
      BY <1>3 DEF PolicyTake, PolicyCtlTypeOK
    <3>2. policyQueue.order \in Seq(PolicyNames)
      BY <3>1 DEF Queues
    <3>3. Head(policyQueue.order) \in PolicyNames
      BY <3>1, <3>2, HeadAndTail
    <3> QED  BY <1>3, <3>1, <3>3, QueueOps DEF PolicyTake
  <2>2. polRec' = [pc |-> "get", req |-> Head(policyQueue.order),
                   obj |-> NoPolicy(0), sel |-> EmptyMap]
    BY <1>3 DEF PolicyTake, IdlePolRec
  <2>3. NoPolicy(0) \in DnsPolicy(Head(policyQueue.order))
    BY <2>1, NoPolicyIsPolicy
  <2>4. polRec' \in PolRecs
    BY <2>1, <2>2, <2>3, EmptyMapIsLabels, PolRecMade DEF BusyPolicyPCs
  <2>5. PolicyCtlTypeOK'
    BY <1>3, <2>1, <2>4 DEF PolicyTake, PolicyCtlTypeOK
  <2> QED  BY <1>3, <2>5 DEF PolicyTake
<1>4. CASE PolicyGetFails
  <2>1. PolicyCtlTypeOK'
    BY <1>4, PolicyReturnTypes DEF PolicyGetFails
  <2>2. UsedTypeOK'
    BY <1>4, ClusterParts, SpendFailureTypes DEF PolicyGetFails
  <2>3. ClusterTypeOK'
    BY <1>4, <2>2 DEF PolicyGetFails, podApiVars, policyApiVars, ClusterTypeOK, UsedTypeOK
  <2> QED  BY <1>4, <2>1, <2>3 DEF PolicyGetFails
<1>5. CASE PolicyGone
  <2>1. PolicyIndexTypeOK'
    BY <1>5, FetchedType, PolicyIndexOpTypes DEF PolicyGone
  <2>2. PolicyCtlTypeOK'
    <3>1. CASE DOMAIN OldSelector(polRec.req) = {}
      BY <1>5, <3>1, PolicyReturnTypes DEF PolicyGone
    <3>2. CASE DOMAIN OldSelector(polRec.req) # {}
      <4>1. polRec \in PolRecs /\ polRec.pc = "get"
        BY <1>5 DEF PolicyGone, PolicyCtlTypeOK
      <4>2. /\ UNCHANGED <<policyCache, policyQueue>>
            /\ polRec' = [polRec EXCEPT !.pc = "recalculateGone",
                                        !.sel = OldSelector(polRec.req)]
        BY <1>5, <3>2 DEF PolicyGone
      <4>3. polRec' = [polRec EXCEPT !.pc = "recalculateGone", !.obj = polRec.obj,
                                     !.sel = OldSelector(polRec.req)]
        BY <4>1, <4>2, PolRecParts
      <4>4. polRec.obj \in DnsPolicy(polRec.req) /\ OldSelector(polRec.req) \in LabelMaps
        BY <4>1, PolRecParts, OldSelectorType
      <4> QED  BY <4>1, <4>2, <4>3, <4>4, PolicyMovesOnTypes DEF BusyPolicyPCs
    <3> QED  BY <3>1, <3>2
  <2> QED  BY <1>5, <2>1, <2>2 DEF PolicyGone
<1>6. CASE PolicyFinalize
  <2>1. PolicyIndexTypeOK'
    BY <1>6, FetchedType, PolicyIndexOpTypes DEF PolicyFinalize
  <2> DEFINE pc == IF DOMAIN Fetched.Spec.TargetSelector = {}
                   THEN "removeFinalizer" ELSE "recalculateDeleted"
  <2>2. polRec' = [polRec EXCEPT !.pc = pc, !.obj = Fetched,
                                 !.sel = Fetched.Spec.TargetSelector]
    BY <1>6 DEF PolicyFinalize
  <2>3. pc \in BusyPolicyPCs
    BY DEF BusyPolicyPCs
  <2> HIDE DEF pc
  <2>4. PolicyCtlTypeOK'
    <3>1. polRec.pc = "get" /\ UNCHANGED <<policyCache, policyQueue>>
      BY <1>6 DEF PolicyFinalize
    <3> QED  BY <2>2, <2>3, <3>1, FetchedType, PolicyMovesOnTypes
  <2> QED  BY <1>6, <2>1, <2>4 DEF PolicyFinalize
<1>7. CASE PolicyIgnored
  <2>1. PolicyCtlTypeOK'
    BY <1>7, PolicyReturnTypes DEF PolicyIgnored
  <2> QED  BY <1>7, <2>1 DEF PolicyIgnored
<1>8. CASE PolicyNeedsFinalizer
  <2>1. polRec \in PolRecs /\ polRec.pc = "get"
    BY <1>8 DEF PolicyNeedsFinalizer, PolicyCtlTypeOK
  <2>2. polRec' = [pc |-> "addFinalizer", req |-> polRec.req, obj |-> Fetched,
                   sel |-> polRec.sel]
    BY <1>8, <2>1, PolRecParts DEF PolicyNeedsFinalizer
  <2>3. polRec' \in PolRecs
    BY <2>1, <2>2, PolRecParts, FetchedType, PolRecMade DEF BusyPolicyPCs
  <2>4. PolicyCtlTypeOK'
    BY <1>8, <2>3 DEF PolicyNeedsFinalizer, PolicyCtlTypeOK
  <2> QED  BY <1>8, <2>4 DEF PolicyNeedsFinalizer
<1>9. CASE PolicyInvalid
  <2>1. PolicyCtlTypeOK'
    BY <1>9, PolicyReturnTypes DEF PolicyInvalid
  <2> QED  BY <1>9, <2>1 DEF PolicyInvalid
<1>10. CASE PolicyUpsert
  <2> DEFINE new == Fetched.Spec.TargetSelector
             old == OldSelector(polRec.req)
             changed == polRec.req \in DOMAIN policies /\ ~selectorsEqual(old, new)
             sel == IF changed THEN old ELSE new
             pc == IF changed THEN "collect" ELSE "recalculate"
  <2>1. polRec' = [polRec EXCEPT !.pc = pc, !.obj = Fetched, !.sel = sel]
    BY <1>10 DEF PolicyUpsert
  <2>2. pc \in BusyPolicyPCs
    BY DEF BusyPolicyPCs
  <2>3. sel \in LabelMaps
    BY <1>10, FetchedType, OldSelectorType DEF PolicyUpsert
  <2> HIDE DEF pc, sel
  <2>4. PolicyCtlTypeOK'
    BY <1>10, <2>1, <2>2, <2>3, FetchedType, PolicyMovesOnTypes DEF PolicyUpsert
  <2>5. Fetched.Spec \in SpecsOf[polRec.req]
    BY <1>10, FetchedType DEF PolicyUpsert, Indexable, DnsPolicy
  <2>6. PolicyIndexTypeOK'
    BY <1>10, <2>5, FetchedType, PolicyIndexOpTypes DEF PolicyUpsert
  <2> QED  BY <1>10, <2>4, <2>6 DEF PolicyUpsert
<1>11. CASE PolicyRecalculate
  <2>1. CacheTypeOK'
    BY <1>11, CacheOpTypes DEF PolicyRecalculate, PodIndexInv
  <2>2. polRec.pc # "idle" /\ UNCHANGED policyCache
    BY <1>11 DEF PolicyRecalculate
  <2>3. CASE PolicyReturns
    BY <2>2, <2>3, PolicyReturnTypes, <1>11, <2>1 DEF PolicyRecalculate
  <2>4. CASE PolicyRecalculated
    BY <2>2, <2>4, PolicyRecalculatedTypes, <1>11, <2>1 DEF PolicyRecalculate
  <2>5. CASE /\ polRec' = [polRec EXCEPT !.pc = "removeFinalizer"]
             /\ UNCHANGED policyQueue
    <3>1. PolicyCtlTypeOK'
      BY <2>2, <2>5, PolicyAdvancesTypes DEF BusyPolicyPCs
    <3> QED  BY <3>1, <1>11, <2>1 DEF PolicyRecalculate
  <2> QED  BY <1>11, <2>3, <2>4, <2>5 DEF PolicyRecalculate
<1>12. CASE PolicyCollectsOld
  <2>1. PolicyCtlTypeOK'
    BY <1>12, PolicyAdvancesTypes DEF PolicyCollectsOld, BusyPolicyPCs
  <2>2. CacheTypeOK'
    BY <1>12, CacheOpTypes DEF PolicyCollectsOld, PodIndexInv
  <2> QED  BY <1>12, <2>1, <2>2 DEF PolicyCollectsOld
<1>13. CASE PolicyRecalculatesChange
  <2>1. PolicyCtlTypeOK'
    BY <1>13, PolicyRecalculatedTypes DEF PolicyRecalculatesChange
  <2>2. CacheTypeOK'
    BY <1>13, CacheOpTypes DEF PolicyRecalculatesChange, PodIndexInv
  <2> QED  BY <1>13, <2>1, <2>2 DEF PolicyRecalculatesChange
<1>14. CASE PolicyWrites \/ PolicyWriteRejected \/ PolicyWriteFails
  <2>1. polRec \in PolRecs /\ polRec.pc # "idle" /\ Writing
    BY <1>14 DEF PolicyCtlTypeOK, PolicyWrites, PolicyWriteRejected,
                 PolicyWriteFails, Writing
  <2>2. PolicyCtlTypeOK'
    BY <1>14, <2>1, PolicyReturnTypes DEF PolicyWrites, PolicyWriteRejected, PolicyWriteFails
  <2>3. PolicyApiTypeOK'
    <3>1. PolicyApiTypeOK /\ polRec.req \in PolicyNames /\ Desired \in DnsPolicy(polRec.req)
      BY <2>1, ClusterParts, PolRecParts, DesiredType
    <3>2. StorePolicy(polRec.req, Desired) \/ UNCHANGED policyApiVars
      BY <1>14 DEF PolicyWrites, PolicyWriteRejected, PolicyWriteFails, clusterVars,
                   policyApiVars
    <3>3. CASE StorePolicy(polRec.req, Desired)
      BY <3>1, <3>3, StorePolicyTypes
    <3>4. CASE UNCHANGED policyApiVars
      BY <3>1, <3>4 DEF PolicyApiTypeOK, policyApiVars
    <3> QED  BY <3>2, <3>3, <3>4
  <2>4. UsedTypeOK'
    <3>1. CASE UNCHANGED used
      BY <3>1, ClusterParts DEF UsedTypeOK
    <3>2. CASE SpendFailure
      BY <3>2, ClusterParts, SpendFailureTypes
    <3> QED
      BY <1>14, <3>1, <3>2 DEF PolicyWrites, PolicyWriteRejected, PolicyWriteFails, clusterVars
  <2>5. PodApiTypeOK'
    BY <1>14, ClusterParts
    DEF PolicyWrites, PolicyWriteRejected, PolicyWriteFails, clusterVars, podApiVars,
        PodApiTypeOK
  <2>6. ClusterTypeOK'
    BY <2>3, <2>4, <2>5 DEF ClusterTypeOK, PodApiTypeOK, PolicyApiTypeOK, UsedTypeOK
  <2> QED  BY <1>14, <2>2, <2>6 DEF PolicyWrites, PolicyWriteRejected, PolicyWriteFails
<1>15. CASE RelistPolicies
  <2>1. policyWatch' \in Seq(PolicyEvents)
    <3>1. \A q \in PolicyNames : [name |-> q, obj |-> apiPolicies[q]] \in PolicyEvents
      BY PolicyEventMade DEF ClusterTypeOK
    <3> DEFINE S == {q \in PolicyNames : apiPolicies[q].exists \/ policyCache[q].exists}
    <3>2. PICK names \in Orders(S) :
              policyWatch' = [i \in DOMAIN names |->
                                 [name |-> names[i], obj |-> apiPolicies[names[i]]]]
      BY <1>15 DEF RelistPolicies
    <3>3. S \in SUBSET PolicyNames
      OBVIOUS
    <3> HIDE DEF S
    <3> QED  BY <3>1, <3>2, <3>3, RelistedEvents
  <2>2. UsedTypeOK'
    BY <1>15, ClusterParts, SpendFailureTypes DEF RelistPolicies
  <2>3. ClusterTypeOK'
    BY <1>15, <2>1, <2>2 DEF RelistPolicies, podApiVars, ClusterTypeOK, UsedTypeOK
  <2> QED  BY <1>15, <2>3 DEF RelistPolicies
<1> QED
  BY <1>1, <1>2, <1>3, <1>4, <1>5, <1>6, <1>7, <1>8, <1>9, <1>10, <1>11, <1>12,
     <1>13, <1>14, <1>15
  DEF PolicySide, PolicyWorker

-----------------------------------------------------------------------------
(* The start of the process, and the theorem.                              *)

\* The queues at start-up have the types of the controllers' queues.
LEMMA RequestTypes ==
    /\ PodRequests \subseteq Queues(PodNames)
    /\ PolicyRequests \subseteq Queues(PolicyNames)
BY QueueOfOrders DEF PodRequests, PolicyRequests

\* The objects found at start-up have their types.
LEMMA StartingTypes ==
    /\ \A p \in PodNames : StartingPods(p) \subseteq Pod(p)
    /\ \A q \in PolicyNames : StartingPolicies(q) \subseteq DnsPolicy(q)
<1>1. ASSUME NEW p \in PodNames PROVE StartingPods(p) \subseteq Pod(p)
  BY ObjectsAssumption DEF StartingPods, Pod, ExistingPod, Phases
<1>2. ASSUME NEW q \in PolicyNames PROVE StartingPolicies(q) \subseteq DnsPolicy(q)
  <2>1. NoPolicy(0) \in DnsPolicy(q)
    BY NoPolicyIsPolicy
  <2> DEFINE First(spec, handled) ==
                 [NoPolicy(1) EXCEPT !.exists = TRUE, !.Spec = spec, !.Generation = 1,
                      !.Finalizer = handled,
                      !.ObservedGeneration = IF handled THEN 1 ELSE 0,
                      !.Ready = IF handled THEN "True" ELSE "Unknown",
                      !.ReadyGeneration = IF handled THEN 1 ELSE 0]
  <2>2. ASSUME NEW spec \in SpecsOf[q], NEW handled \in BOOLEAN
        PROVE  First(spec, handled) \in DnsPolicy(q)
    BY DEF NoPolicy, DnsPolicy
  <2>3. StartingPolicies(q) =
            {NoPolicy(0)} \cup
            {First(spec, handled) :
                spec \in {s \in SpecsOf[q] : DOMAIN s.TargetSelector # {}},
                handled \in BOOLEAN}
    BY SMT DEF StartingPolicies
  <2> HIDE DEF First
  <2> QED  BY SMT, <2>1, <2>2, <2>3
<1> QED  BY <1>1, <1>2

\* The strengthened type invariant holds when main starts the manager.
LEMMA TypeInvInit == Init => TypeInv
<1> SUFFICES ASSUME Init PROVE TypeInv
  OBVIOUS
<1>1. ClusterTypeOK
  <2>1. podWatch \in Seq(PodEvents) /\ policyWatch \in Seq(PolicyEvents)
    BY SMT DEF Init
  <2>2. /\ apiPods = [p \in PodNames |-> apiPods[p]]
        /\ \A p \in PodNames : apiPods[p] \in Pod(p)
    BY StartingTypes DEF Init, ClusterInit
  <2>3. /\ apiPolicies = [q \in PolicyNames |-> apiPolicies[q]]
        /\ \A q \in PolicyNames : apiPolicies[q] \in DnsPolicy(q)
    BY StartingTypes DEF Init, ClusterInit
  <2>4. UsedTypeOK
    BY SMT, BoundsAssumption DEF Init, ClusterInit, UsedTypeOK
  <2> QED  BY <2>1, <2>2, <2>3, <2>4 DEF ClusterTypeOK, UsedTypeOK
<1>2. PodCtlTypeOK
  <2>1. podCache = apiPods /\ podQueue \in PodRequests /\ podRec = IdlePodRec
    BY DEF Init
  <2> QED  BY <1>1, <2>1, RequestTypes DEF ClusterTypeOK, PodCtlTypeOK, PodRecs
<1>3. PolicyCtlTypeOK
  <2>1. policyCache = apiPolicies /\ policyQueue \in PolicyRequests /\ polRec = IdlePolRec
    BY DEF Init
  <2> QED  BY <1>1, <2>1, RequestTypes DEF ClusterTypeOK, PolicyCtlTypeOK, PolRecs
<1>4. PodIndexInv
  BY NewIndexSound DEF Init
<1>5. PolicyIndexTypeOK
  BY DEF Init, NewPolicyIndex, EmptyMap, PolicyIndexTypeOK
<1>6. CacheTypeOK
  BY EmptyMapIsMap DEF Init, NewBlocklistCache, CacheTypeOK
<1>7. UpsertingHasIP
  BY DEF Init, IdlePodRec, UpsertingHasIP
<1> QED  BY <1>1, <1>2, <1>3, <1>4, <1>5, <1>6, <1>7, TypeInvParts

\* A restart gives every variable of the process a typed value again.
LEMMA RestartTypes ==
    ASSUME TypeInv, Restart PROVE TypeInv'
<1> USE TypeInvParts
<1>1. ClusterTypeOK'
  <2>1. podWatch' \in Seq(PodEvents) /\ policyWatch' \in Seq(PolicyEvents)
    BY SMT DEF Restart
  <2>2. UNCHANGED <<apiPods, apiPolicies>>
    BY DEF Restart
  <2>3. UsedTypeOK'
    <3>1. UsedTypeOK
      BY ClusterParts
    <3>2. used.restart < MaxRestarts /\ used' = [used EXCEPT !.restart = used.restart + 1]
      BY DEF Restart
    <3> QED  BY SMT, <3>1, <3>2, BoundsAssumption DEF UsedTypeOK
  <2> QED  BY <2>1, <2>2, <2>3 DEF ClusterTypeOK, UsedTypeOK
<1>2. PodCtlTypeOK'
  <2>1. podCache' = apiPods /\ podQueue' \in PodRequests /\ podRec' = IdlePodRec
    BY DEF Restart
  <2> QED  BY <2>1, RequestTypes DEF ClusterTypeOK, PodCtlTypeOK, PodRecs
<1>3. PolicyCtlTypeOK'
  <2>1. policyCache' = apiPolicies /\ policyQueue' \in PolicyRequests /\ polRec' = IdlePolRec
    BY DEF Restart
  <2> QED  BY <2>1, RequestTypes DEF ClusterTypeOK, PolicyCtlTypeOK, PolRecs
<1>4. PodIndexInv'
  <2>1. pods' = EmptyMap /\ ipToPod' = EmptyMap
    BY DEF Restart
  <2>2. IsMap(ipToPod', IPs, PodNames)
    BY <2>1, EmptyMapIsMap
  <2> QED
    BY <2>1, <2>2 DEF EmptyMap, PodIndexInv, PodIndexTypeOK, PodLookups, ReverseLookupSound,
         ReverseLookupComplete
<1>5. PolicyIndexTypeOK'
  BY DEF Restart, EmptyMap, PolicyIndexTypeOK
<1>6. CacheTypeOK'
  BY EmptyMapIsMap DEF Restart, CacheTypeOK
<1>7. UpsertingHasIP'
  BY DEF Restart, IdlePodRec, UpsertingHasIP
<1> QED  BY <1>1, <1>2, <1>3, <1>4, <1>5, <1>6, <1>7

\* Every step of the composed system preserves the strengthened type
\* invariant.
LEMMA TypeInvNext == TypeInv /\ [Next]_vars => TypeInv'
<1> SUFFICES ASSUME TypeInv, [Next]_vars PROVE TypeInv'
  OBVIOUS
<1>1. CASE /\ PodsChange \/ PoliciesChange
           /\ UNCHANGED <<podCtlVars, policyCtlVars, podIndexVars, policies, cacheVars>>
  <2>1. ClusterTypeOK'
    BY <1>1, PodsChangeTypes, PoliciesChangeTypes, TypeInvParts
  <2>2. UpsertingHasIP'
    BY <1>1, TypeInvParts DEF podCtlVars, UpsertingHasIP
  <2> QED  BY <1>1, <2>1, <2>2, TypeInvParts, UnchangedTypes
<1>2. CASE PodSide /\ UNCHANGED policyCtlVars
  BY <1>2, PodSideTypes
<1>3. CASE PolicySide /\ UNCHANGED podCtlVars
  BY <1>3, PolicySideTypes
<1>4. CASE Restart
  BY <1>4, RestartTypes
<1>5. CASE UNCHANGED vars
  <2>1. UNCHANGED <<clusterVars, podCtlVars, policyCtlVars, podIndexVars, policies, cacheVars>>
    BY <1>5 DEF vars
  <2>2. UpsertingHasIP'
    BY <2>1, TypeInvParts DEF podCtlVars, UpsertingHasIP
  <2> QED  BY <2>1, <2>2, TypeInvParts, UnchangedTypes
<1> QED  BY <1>1, <1>2, <1>3, <1>4, <1>5 DEF Next

\* Type correctness of the whole controller for any set of pods, policies,
\* labels, IPs and bounds; together with it the reverse map of the pod index
\* stays sound, and complete for IPs of one pod only, when the two reconcilers
\* use the index.
THEOREM TypeCorrect ==
    Spec => [](TypeOK /\ ReverseLookupSound /\ ReverseLookupComplete)
<1>1. TypeInv => TypeOK /\ ReverseLookupSound /\ ReverseLookupComplete
  BY DEF TypeInv, PodLookups
<1> QED  BY <1>1, TypeInvInit, TypeInvNext, PTL DEF Spec

\* Types, a sound reverse map and an IP for every pod about to be indexed: the
\* facts about types that the safety proofs start from.
THEOREM TypeInvHolds == Spec => []TypeInv
BY TypeInvInit, TypeInvNext, PTL DEF Spec

-----------------------------------------------------------------------------
(* What the steps of one side leave alone, and where the policy worker     *)
(* goes on after its first steps.                                          *)

\* A step of the pod side leaves alone what the policy worker works with.
LEMMA PodSideFrame ==
    ASSUME PodSide, UNCHANGED policyCtlVars
    PROVE  UNCHANGED <<policies, mu, affectedPods, polRec>>
<1>1. UNCHANGED polRec
  BY DEF policyCtlVars
<1>2. UNCHANGED policies
  BY DEF PodSide, PodWorker, DeliverPodEvent, RelistPods, PodBackoffExpires, PodTake, PodGet,
         PodGetFails, PodGoneRemovesEntry, PodGoneLeavesIndex, PodWithoutIP,
         PodRemovesOldEntry, PodUpsert, PodRecalculate
<1>3. UNCHANGED <<mu, affectedPods>>
  BY DEF PodSide, PodWorker, DeliverPodEvent, RelistPods, PodBackoffExpires, PodTake, PodGet,
         PodGetFails, PodGoneRemovesEntry, PodGoneLeavesIndex, PodWithoutIP,
         PodRemovesOldEntry, PodUpsert, PodRecalculate, RemovePod, RecalculatePod,
         cacheVars
<1> QED  BY <1>1, <1>2, <1>3

\* A step of the policy side leaves alone what the pod worker works with.
LEMMA PolicySideFrame ==
    ASSUME PolicySide, UNCHANGED podCtlVars
    PROVE  UNCHANGED <<pods, ipToPod, podRec>>
<1>1. UNCHANGED podRec
  BY DEF podCtlVars
<1>2. UNCHANGED <<pods, ipToPod>>
  BY DEF PolicySide, PolicyWorker, DeliverPolicyEvent, RelistPolicies, PolicyBackoffExpires,
         PolicyTake, PolicyGetFails, PolicyGone, PolicyFinalize, PolicyIgnored,
         PolicyNeedsFinalizer, PolicyInvalid, PolicyUpsert, PolicyRecalculate,
         PolicyCollectsOld, PolicyRecalculatesChange, PolicyWrites,
         PolicyWriteRejected, PolicyWriteFails, podIndexVars
<1> QED  BY <1>1, <1>2

\* What the policy worker's next step is, as far as its program point goes.
LEMMA PolicyReturned ==
    ASSUME PolicyReturns \/ PolicyReturnsError PROVE polRec' = IdlePolRec
BY DEF PolicyReturns, PolicyReturnsError

\* For a policy that is not found the worker returns, or goes on with the
\* selector the policy was indexed with.
LEMMA PolicyGonePC ==
    ASSUME polRec \in PolRecs, PolicyGone
    PROVE  \/ DOMAIN OldSelector(polRec.req) = {} /\ polRec' = IdlePolRec
           \/ polRec' = [pc |-> "recalculateGone", req |-> polRec.req,
                         obj |-> polRec.obj, sel |-> OldSelector(polRec.req)]
<1> DEFINE old == OldSelector(polRec.req)
<1>1. /\ polRec.pc = "get"
      /\ IF DOMAIN old = {} THEN PolicyReturns
         ELSE polRec' = [polRec EXCEPT !.pc = "recalculateGone", !.sel = old]
  BY DEF PolicyGone
<1>2. polRec = [pc |-> polRec.pc, req |-> polRec.req, obj |-> polRec.obj, sel |-> polRec.sel]
  BY <1>1, PolRecParts
<1> HIDE DEF old
<1>3. CASE DOMAIN old = {}
  BY <1>1, <1>3, PolicyReturned DEF old
<1>4. CASE DOMAIN old # {}
  <2>1. polRec' = [pc |-> "recalculateGone", req |-> polRec.req,
                   obj |-> polRec.obj, sel |-> old]
    BY <1>1, <1>2, <1>4
  <2> QED  BY <2>1 DEF old
<1> QED  BY <1>3, <1>4

\* For a policy being deleted the worker goes on with the fetched selector.
LEMMA PolicyFinalizePC ==
    ASSUME polRec \in PolRecs, PolicyFinalize
    PROVE  polRec' = [pc |-> IF DOMAIN Fetched.Spec.TargetSelector = {}
                             THEN "removeFinalizer" ELSE "recalculateDeleted",
                      req |-> polRec.req, obj |-> Fetched,
                      sel |-> Fetched.Spec.TargetSelector]
<1> DEFINE pc == IF DOMAIN Fetched.Spec.TargetSelector = {}
                 THEN "removeFinalizer" ELSE "recalculateDeleted"
           sel == Fetched.Spec.TargetSelector
<1>1. polRec.pc = "get" /\ polRec' = [polRec EXCEPT !.obj = Fetched, !.sel = sel, !.pc = pc]
  BY DEF PolicyFinalize
<1>2. polRec = [pc |-> polRec.pc, req |-> polRec.req, obj |-> polRec.obj, sel |-> polRec.sel]
  BY <1>1, PolRecParts
<1> HIDE DEF pc, sel
<1>3. polRec' = [pc |-> pc, req |-> polRec.req, obj |-> Fetched, sel |-> sel]
  BY <1>1, <1>2
<1> QED  BY <1>3 DEF pc, sel

-----------------------------------------------------------------------------
(* The reconcilers in the process that serves the agents.                  *)

\* A step of the process is a step of the reconcilers and the cluster, a
\* restart, or none that they notice.
LEMMA ControllerStep == [ControllerNext]_controllerVars => [Next]_vars
<1> SUFFICES ASSUME [ControllerNext]_controllerVars PROVE [Next]_vars
  OBVIOUS
<1>1. CASE MeshStep
  BY <1>1 DEF MeshStep, Next
<1>2. CASE StartAgain
  BY <1>2 DEF StartAgain, Next
<1>3. CASE \/ ServerListens \/ ServerCannotListen \/ Signal \/ StartShutsDown
           \/ Exit \/ Crash \/ \E a \in Agents : Serve(a)
  <2>1. UNCHANGED vars
    BY <1>3 DEF ServerListens, ServerCannotListen, Signal, StartShutsDown, Exit, Crash,
                Serve, Ask, handleGetBlocklist, SendBlocklist, SendFails, AnswerOther
  <2> QED  BY <2>1
<1>4. CASE UNCHANGED controllerVars
  <2>1. UNCHANGED vars
    BY <1>4 DEF controllerVars
  <2> QED  BY <2>1
<1> QED  BY <1>1, <1>2, <1>3, <1>4 DEF ControllerNext

\* The process with its API server, its signals, crashes and restarts
\* implements the reconcilers of DnsMesh: what is shown there holds here.
THEOREM ControllerIsMesh == ControllerSpec => Spec
<1>1. ControllerInit => Init
  BY DEF ControllerInit
<1> QED  BY <1>1, ControllerStep, PTL DEF ControllerSpec, Spec

-----------------------------------------------------------------------------
(* What is on its way to an informer.                                      *)

\* A copy tells as much as the object does.
Same(copy, obj) == copy = obj \/ (~copy.exists /\ ~obj.exists)

\* Nothing is on its way about n and the informer's copy is up to date, or the
\* last event about n brings it up to date.
InStep(n, cache, watch, api) ==
    \/ /\ Same(cache[n], api[n])
       /\ \A i \in DOMAIN watch : watch[i].name # n
    \/ \E i \in DOMAIN watch :
          /\ watch[i].name = n /\ watch[i].obj = api[n]
          /\ \A j \in DOMAIN watch : i < j => watch[j].name # n

\* A write that is announced keeps every name in step.
LEMMA WrittenInStep ==
    ASSUME NEW E, NEW watch \in Seq(E), NEW cache, NEW api, NEW m, NEW obj,
           NEW n \in DOMAIN api, InStep(n, cache, watch, api)
    PROVE  InStep(n, cache, Append(watch, [name |-> m, obj |-> obj]),
                  [api EXCEPT ![m] = obj])
<1> DEFINE e == [name |-> m, obj |-> obj]
           last == Len(watch) + 1
<1>1. PICK w, new : w = Append(watch, e) /\ new = [api EXCEPT ![m] = obj]
  OBVIOUS
<1>2. /\ DOMAIN watch = 1 .. Len(watch) /\ Len(watch) \in Nat
      /\ DOMAIN w = 1 .. last /\ w[last] = e
      /\ \A i \in DOMAIN watch : i \in DOMAIN w /\ w[i] = watch[i] /\ i < last
  BY SMT, <1>1
<1>3. \A i \in DOMAIN w : i = last \/ i \in DOMAIN watch
  BY SMT, <1>2
<1>4. CASE n = m
  <2>1. last \in DOMAIN w /\ w[last].name = n /\ w[last].obj = new[n]
    BY SMT, <1>1, <1>2, <1>4
  <2>2. \A j \in DOMAIN w : ~(last < j)
    BY SMT, <1>2
  <2> QED  BY <1>1, <2>1, <2>2 DEF InStep
<1>5. CASE n # m
  <2>1. new[n] = api[n] /\ w[last].name # n
    BY SMT, <1>1, <1>2, <1>5
  <2>2. CASE /\ Same(cache[n], api[n])
             /\ \A i \in DOMAIN watch : watch[i].name # n
    <3>1. \A i \in DOMAIN w : w[i].name # n
      BY <1>2, <1>3, <2>1, <2>2
    <3> QED  BY <1>1, <2>1, <2>2, <3>1 DEF InStep
  <2>3. CASE \E i \in DOMAIN watch :
                 /\ watch[i].name = n /\ watch[i].obj = api[n]
                 /\ \A j \in DOMAIN watch : i < j => watch[j].name # n
    <3>1. PICK i \in DOMAIN watch :
              /\ watch[i].name = n /\ watch[i].obj = api[n]
              /\ \A j \in DOMAIN watch : i < j => watch[j].name # n
      BY <2>3
    <3>2. i \in DOMAIN w /\ w[i].name = n /\ w[i].obj = new[n]
      BY <1>2, <2>1, <3>1
    <3>3. \A j \in DOMAIN w : i < j => w[j].name # n
      BY <1>2, <1>3, <2>1, <3>1
    <3> QED  BY <1>1, <3>2, <3>3 DEF InStep
  <2> QED  BY <2>2, <2>3 DEF InStep
<1> QED  BY <1>4, <1>5

\* The informer that takes the next event keeps every name in step.
LEMMA DeliveredInStep ==
    ASSUME NEW E, NEW watch \in Seq(E), watch # <<>>, NEW cache, NEW api,
           NEW n \in DOMAIN cache, InStep(n, cache, watch, api)
    PROVE  InStep(n, [cache EXCEPT ![Head(watch).name] = Head(watch).obj],
                  Tail(watch), api)
<1>1. PICK w, new : /\ w = Tail(watch)
                    /\ new = [cache EXCEPT ![Head(watch).name] = Head(watch).obj]
  OBVIOUS
<1>2. /\ DOMAIN watch = 1 .. Len(watch) /\ Len(watch) \in Nat /\ 1 \in DOMAIN watch
      /\ Head(watch) = watch[1]
      /\ DOMAIN w = 1 .. (Len(watch) - 1)
      /\ \A i \in DOMAIN w : i + 1 \in DOMAIN watch /\ w[i] = watch[i + 1] /\ 1 < i + 1
  BY SMT, <1>1
<1>3. CASE \A i \in DOMAIN watch : watch[i].name # n
  <2>1. \A i \in DOMAIN w : w[i].name # n
    BY <1>2, <1>3
  <2>2. new[n] = cache[n]
    BY <1>1, <1>2, <1>3
  <2>3. Same(cache[n], api[n])
    BY <1>3 DEF InStep
  <2> QED  BY <1>1, <2>1, <2>2, <2>3 DEF InStep
<1>4. ASSUME NEW i \in DOMAIN watch, watch[i].name = n, watch[i].obj = api[n],
             \A j \in DOMAIN watch : i < j => watch[j].name # n
      PROVE  InStep(n, new, w, api)
  <2>1. CASE i = 1
    <3>1. Same(new[n], api[n])
      BY <1>1, <1>2, <1>4, <2>1 DEF Same
    <3>2. \A j \in DOMAIN w : w[j].name # n
      BY <1>2, <1>4, <2>1
    <3> QED  BY <3>1, <3>2 DEF InStep
  <2>2. CASE i # 1
    <3>1. i - 1 \in DOMAIN w /\ w[i - 1] = watch[i]
      BY SMT, <1>2, <2>2
    <3>2. \A j \in DOMAIN w : i - 1 < j => w[j].name # n
      BY SMT, <1>2, <1>4, <2>2
    <3> QED  BY <1>4, <3>1, <3>2 DEF InStep
  <2> QED  BY <2>1, <2>2
<1> QED  BY <1>1, <1>3, <1>4 DEF InStep

\* Listing the objects anew leaves every name in step.
LEMMA RelistedInStep ==
    ASSUME NEW S, NEW s \in Orders(S), NEW cache, NEW api, NEW n,
           n \in S \/ Same(cache[n], api[n])
    PROVE  InStep(n, cache, [i \in DOMAIN s |-> [name |-> s[i], obj |-> api[s[i]]]], api)
<1>0. /\ s \in Seq(S)
      /\ \A i \in DOMAIN s : s[i] \in S
      /\ \A x \in S : \E i \in DOMAIN s : s[i] = x
  BY OrdersAre
<1>1. PICK w : w = [i \in DOMAIN s |-> [name |-> s[i], obj |-> api[s[i]]]]
  OBVIOUS
<1>2. /\ DOMAIN w = DOMAIN s
      /\ \A i \in DOMAIN w : w[i].name = s[i] /\ w[i].obj = api[s[i]]
  BY <1>1
<1>3. CASE n \in S
  <2>1. PICK i \in DOMAIN s : s[i] = n
    BY <1>0, <1>3
  <2>2. \A j \in DOMAIN s : s[j] = n => j = i
    BY <2>1 DEF Orders
  <2>3. ~(i < i)
    <3>1. DOMAIN s = 1 .. Len(s) /\ Len(s) \in Nat
      BY SMT, <1>0
    <3>2. i \in Nat
      BY SMT, <2>1, <3>1
    <3> QED  BY SMT, <3>2
  <2>4. \A j \in DOMAIN w : i < j => w[j].name # n
    BY <1>2, <2>2, <2>3
  <2> QED  BY <1>1, <1>2, <2>1, <2>4 DEF InStep
<1>4. CASE n \notin S
  <2>1. \A i \in DOMAIN w : w[i].name # n
    BY <1>0, <1>2, <1>4
  <2> QED  BY <1>1, <1>4, <2>1 DEF InStep
<1> QED  BY <1>3, <1>4

PodsInStep == \A p \in PodNames : InStep(p, podCache, podWatch, apiPods)

PoliciesInStep == \A q \in PolicyNames : InStep(q, policyCache, policyWatch, apiPolicies)

\* A pod runs with an IP.
RunningHasIP(obj) == obj.Phase = "Running" => obj.IP # NoIP

PodsInv == PodsInStep /\ \A p \in PodNames : RunningHasIP(apiPods[p])

\* Users and kubelets write running pods with an IP, and announce every write.
LEMMA WritePodInStep ==
    ASSUME TypeInv, PodsInv, NEW p \in PodNames, NEW obj, RunningHasIP(obj),
           WritePod(p, obj), UNCHANGED podCache
    PROVE  PodsInv'
<1>1. /\ apiPods' = [apiPods EXCEPT ![p] = obj]
      /\ podWatch' = Append(podWatch, [name |-> p, obj |-> obj])
  BY DEF WritePod
<1>2. podWatch \in Seq(PodEvents) /\ apiPods = [n \in PodNames |-> apiPods[n]]
  BY DEF TypeInv, TypeOK, ClusterTypeOK
<1>3. DOMAIN apiPods = PodNames
  BY <1>2
<1>4. PodsInStep'
  BY <1>1, <1>2, <1>3, WrittenInStep DEF PodsInv, PodsInStep
<1>5. \A n \in PodNames : RunningHasIP(apiPods'[n])
  BY <1>1, <1>3 DEF PodsInv
<1> QED  BY <1>4, <1>5 DEF PodsInv

\* The same for whatever users and kubelets do to pods.
LEMMA PodsChangeInStep ==
    ASSUME TypeInv, PodsInv, PodsChange, UNCHANGED podCache PROVE PodsInv'
<1> PICK p \in PodNames :
        \/ \E labels \in Labelings : CreatePod(p, labels)
        \/ \E ip \in IPsOf[p] : AssignIP(p, ip, "Pending")
        \/ \E ip \in IPsOf[p] : AssignIP(p, ip, "Running")
        \/ RunPod(p)
        \/ \E ip \in IPsOf[p] : ChangeIP(p, ip)
        \/ \E labels \in Labelings : RelabelPod(p, labels)
        \/ EndPod(p)
        \/ RemovePodObject(p)
  BY DEF PodsChange
<1> DEFINE obj == apiPods[p]
<1>1. obj = NoPod \/ obj \in ExistingPod(p)
  BY DEF TypeInv, TypeOK, ClusterTypeOK, Pod
<1>2. RunningHasIP(obj)
  BY DEF PodsInv
<1>3. \A ip \in IPsOf[p] : ip # NoIP
  <2>1. NoIP \notin IPs
    BY ObjectsAssumption
  <2> QED  BY <2>1 DEF IPs
<1>4. DOMAIN obj = {"exists", "IP", "Phase", "Labels"}
  <2>1. CASE obj = NoPod
    BY <2>1 DEF NoPod
  <2>2. CASE obj \in ExistingPod(p)
    BY <2>2 DEF ExistingPod
  <2> QED  BY <1>1, <2>1, <2>2
<1> SUFFICES \E new : RunningHasIP(new) /\ WritePod(p, new)
  BY WritePodInStep
<1>5. CASE \E labels \in Labelings : CreatePod(p, labels)
  <2>1. PICK labels \in Labelings : CreatePod(p, labels)
    BY <1>5
  <2> DEFINE new == [exists |-> TRUE, IP |-> NoIP, Phase |-> "Pending", Labels |-> labels]
  <2>2. RunningHasIP(new)
    BY DEF RunningHasIP
  <2> QED  BY <2>1, <2>2 DEF CreatePod
<1>6. CASE \E ip \in IPsOf[p] : AssignIP(p, ip, "Pending") \/ AssignIP(p, ip, "Running")
  <2>1. PICK ip \in IPsOf[p], phase \in {"Pending", "Running"} : AssignIP(p, ip, phase)
    BY <1>6
  <2>2. RunningHasIP([obj EXCEPT !.IP = ip, !.Phase = phase])
    BY <1>3, <1>4 DEF RunningHasIP
  <2> QED  BY <2>1, <2>2 DEF AssignIP
<1>7. CASE RunPod(p)
  <2>1. RunningHasIP([obj EXCEPT !.Phase = "Running"])
    BY <1>4, <1>7 DEF RunPod, RunningHasIP
  <2> QED  BY <1>7, <2>1 DEF RunPod
<1>8. CASE \E ip \in IPsOf[p] : ChangeIP(p, ip)
  <2>1. PICK ip \in IPsOf[p] : ChangeIP(p, ip)
    BY <1>8
  <2>2. RunningHasIP([obj EXCEPT !.IP = ip])
    BY <1>3, <1>4 DEF RunningHasIP
  <2> QED  BY <2>1, <2>2 DEF ChangeIP
<1>9. CASE \E labels \in Labelings : RelabelPod(p, labels)
  <2>1. PICK labels \in Labelings : RelabelPod(p, labels)
    BY <1>9
  <2>2. RunningHasIP([obj EXCEPT !.Labels = labels])
    BY <1>2, <1>4 DEF RunningHasIP
  <2> QED  BY <2>1, <2>2 DEF RelabelPod
<1>10. CASE EndPod(p)
  <2>1. /\ RunningHasIP([obj EXCEPT !.Phase = "Succeeded"])
        /\ RunningHasIP([obj EXCEPT !.Phase = "Failed", !.IP = NoIP])
    BY <1>4 DEF RunningHasIP
  <2> QED  BY <1>10, <2>1 DEF EndPod
<1>11. CASE RemovePodObject(p)
  <2>1. RunningHasIP(NoPod)
    BY DEF RunningHasIP, NoPod
  <2> QED  BY <1>11, <2>1 DEF RemovePodObject
<1> QED  BY <1>5, <1>6, <1>7, <1>8, <1>9, <1>10, <1>11

\* Steps of the pod side keep the pod informer in step.
LEMMA PodSideInStep ==
    ASSUME TypeInv, PodsInv, PodSide PROVE PodsInv'
<1>1. /\ podWatch \in Seq(PodEvents) /\ podCache = [n \in PodNames |-> podCache[n]]
      /\ \A p \in PodNames : podCache[p] \in Pod(p) /\ apiPods[p] \in Pod(p)
  BY DEF TypeInv, TypeOK, ClusterTypeOK, PodCtlTypeOK
<1>2. UNCHANGED apiPods
  BY DEF PodSide, PodWorker, DeliverPodEvent, RelistPods, PodBackoffExpires, PodTake,
         PodGet, PodGetFails, PodGoneRemovesEntry, PodGoneLeavesIndex, PodWithoutIP,
         PodRemovesOldEntry, PodUpsert, PodRecalculate, clusterVars, podApiVars
<1> SUFFICES PodsInStep'
  BY <1>2 DEF PodsInv
<1>3. CASE DeliverPodEvent
  <2>1. /\ podWatch # <<>> /\ podWatch' = Tail(podWatch)
        /\ podCache' = [podCache EXCEPT ![Head(podWatch).name] = Head(podWatch).obj]
    BY <1>3 DEF DeliverPodEvent
  <2>2. DOMAIN podCache = PodNames
    BY <1>1
  <2> QED  BY <1>1, <1>2, <2>1, <2>2, DeliveredInStep DEF PodsInv, PodsInStep
<1>4. CASE RelistPods
  <2> DEFINE S == {p \in PodNames : apiPods[p].exists \/ podCache[p].exists}
  <2>1. PICK names \in Orders(S) :
            podWatch' = [i \in DOMAIN names |->
                            [name |-> names[i], obj |-> apiPods[names[i]]]]
    BY <1>4 DEF RelistPods
  <2>2. UNCHANGED podCache
    BY <1>4 DEF RelistPods, podCtlVars
  <2>3. \A p \in PodNames : p \in S \/ Same(podCache[p], apiPods[p])
    BY DEF Same
  <2> HIDE DEF S
  <2> QED  BY <1>2, <2>1, <2>2, <2>3, RelistedInStep DEF PodsInStep
<1>5. CASE PodWorker \/ \E p \in PodNames : PodBackoffExpires(p)
  <2>1. UNCHANGED <<podWatch, podCache>>
    BY <1>5 DEF PodWorker, PodBackoffExpires, PodTake,
         PodGet, PodGetFails, PodGoneRemovesEntry, PodGoneLeavesIndex, PodWithoutIP,
         PodRemovesOldEntry, PodUpsert, PodRecalculate, clusterVars, podApiVars
  <2> QED  BY <1>2, <2>1 DEF PodsInv, PodsInStep
<1> QED  BY <1>3, <1>4, <1>5 DEF PodSide

-----------------------------------------------------------------------------
(* Pods: the event filter loses nothing that matters.                      *)

\* A pod the pod index must hold.
Live(obj) == obj.Phase = "Running" /\ obj.IP # NoIP

\* A reconcile that will fetch pod p is to come.
PodPending(p) ==
    \/ p \in podQueue.dirty \cup podQueue.waiting
    \/ podRec.req = p /\ podRec.pc = "get"

\* The worker has fetched pod p and not yet returned.
PodInHand(p) ==
    podRec.req = p /\ podRec.pc \in {"fetched", "delete", "upsert", "recalculate"}

\* The worker's copy of p is the informer's, or the index need not follow.
CopyCurrent(p) ==
    podRec.obj = podCache[p] \/ (podCache[p].exists /\ ~Live(podCache[p]))

\* The index holds p as it should.
PodSettled(p) ==
    /\ Live(podCache[p]) =>
           /\ p \in DOMAIN pods
           /\ pods[p] = [IP |-> podCache[p].IP, Labels |-> podCache[p].Labels]
    /\ ~podCache[p].exists => p \notin DOMAIN pods

\* With nothing to come for p, what the worker has in hand is current and will
\* settle p, or p is settled.
PodTracked(p) ==
    PodPending(p) \/ IF PodInHand(p) THEN CopyCurrent(p) ELSE PodSettled(p)

\* What the worker has done or is about to do fits the copy it fetched.
PodCopyUsed ==
    /\ podRec.pc = "delete" => ~podRec.obj.exists
    /\ podRec.pc = "recalculate" =>
           /\ podRec.obj.exists
           /\ podRec.req \in DOMAIN pods
           /\ pods[podRec.req] = [IP |-> podRec.obj.IP, Labels |-> podRec.obj.Labels]

TrackingInv == TypeInv /\ PodCopyUsed /\ \A p \in PodNames : PodTracked(p)

-----------------------------------------------------------------------------
(* The filter and the first requests.                                      *)

\* The filter drops an event only if it changes nothing or leaves a pod that
\* exists and need not be indexed.
LEMMA FilterMissesNothing ==
    ASSUME NEW p, NEW old \in Pod(p), NEW new \in Pod(p), ~podEventFilter(old, new)
    PROVE  new = old \/ (new.exists /\ ~Live(new))
<1>1. CASE ~new.exists
  <2>1. ~old.exists
    BY <1>1 DEF podEventFilter
  <2> QED  BY <1>1, <2>1 DEF Pod, ExistingPod
<1>2. CASE new.exists /\ Live(new)
  <2>1. old.exists /\ old.Phase = "Running" /\ new.Phase = "Running"
        /\ old.IP = new.IP /\ labelsEqual(old.Labels, new.Labels)
    BY <1>2 DEF podEventFilter, Live
  <2>2. old \in ExistingPod(p) /\ new \in ExistingPod(p)
    BY SMT, <1>2, <2>1 DEF Pod, NoPod
  <2>3. old.Labels = new.Labels
    BY <2>1, <2>2, EqualMaps DEF ExistingPod
  <2>4. /\ old = [exists |-> TRUE, IP |-> old.IP, Phase |-> old.Phase, Labels |-> old.Labels]
        /\ new = [exists |-> TRUE, IP |-> new.IP, Phase |-> new.Phase, Labels |-> new.Labels]
    BY <2>2 DEF ExistingPod
  <2> QED  BY <2>1, <2>3, <2>4
<1> QED  BY <1>1, <1>2

\* The index need not hold a pod that r.Get does not find.
LEMMA GoneNotLive ==
    ASSUME NEW p, NEW obj \in Pod(p), ~obj.exists PROVE ~Live(obj)
<1>1. obj = NoPod
  BY DEF Pod, ExistingPod
<1>2. NoPod.Phase # "Running"
  BY DEF NoPod
<1> QED  BY <1>1, <1>2 DEF Live

\* At start-up every pod the index must hold is queued.
LEMMA LivePodsQueued ==
    ASSUME ClusterTypeOK, NEW queue \in PodRequests, NEW p \in PodNames, Live(apiPods[p])
    PROVE  p \in queue.dirty
<1> DEFINE S == {n \in PodNames : podEventFilter(NoPod, apiPods[n])}
<1>1. PICK s \in Orders(S) : queue = QueueOf(s)
  BY DEF PodRequests
<1>2. p \in S
  <2>1. apiPods[p] \in ExistingPod(p)
    BY SMT DEF ClusterTypeOK, Live, Pod, NoPod
  <2> QED  BY <2>1 DEF ExistingPod, Live, NoPod, podEventFilter
<1> HIDE DEF S
<1> QED  BY <1>1, <1>2, OrdersCover

-----------------------------------------------------------------------------
(* One step.                                                               *)

\* The worker's steps fit the copy it fetched.
LEMMA PodCopyUsedStep ==
    ASSUME TypeInv, PodCopyUsed, PodSide PROVE PodCopyUsed'
<1> USE DEF PodCopyUsed
<1>0. podRec \in PodRecs /\ UpsertingHasIP
  BY DEF TypeInv, TypeOK, PodCtlTypeOK
<1>1. CASE DeliverPodEvent \/ RelistPods \/ \E p \in PodNames : PodBackoffExpires(p)
  BY <1>1 DEF DeliverPodEvent, RelistPods, PodBackoffExpires, podCtlVars, podIndexVars
<1>2. CASE PodTake
  BY <1>2 DEF PodTake, IdlePodRec
<1>3. CASE PodGet
  BY <1>0, <1>3, PodRecParts DEF PodGet
<1>4. CASE PodGetFails \/ PodGoneLeavesIndex \/ PodWithoutIP \/ PodRecalculate
  <2>1. podRec' = IdlePodRec
    <3> HIDE DEF PodCopyUsed
    <3> QED  BY <1>4 DEF PodGetFails, PodGoneLeavesIndex, PodWithoutIP,
                                PodRecalculate, PodReturns, PodReturnsError
  <2>2. podRec'.pc = "idle"
    BY <2>1 DEF IdlePodRec
  <2> QED  BY <2>2
<1>5. CASE PodGoneRemovesEntry \/ PodRemovesOldEntry
  <2>1. podRec.pc # "idle"
    BY <1>5 DEF PodGoneRemovesEntry, PodRemovesOldEntry
  <2> QED  BY <1>0, <1>5, <2>1, PodRecParts DEF PodGoneRemovesEntry, PodRemovesOldEntry
<1>6. CASE PodUpsert
  <2>1. podRec.pc # "idle" /\ podRec.obj.IP # NoIP
    BY <1>0, <1>6 DEF PodUpsert, UpsertingHasIP
  <2>2. podRec.obj.exists
    <3>1. podRec.obj \in ExistingPod(podRec.req)
      BY SMT, <1>0, <2>1, PodRecParts DEF Pod, NoPod
    <3> QED  BY <3>1 DEF ExistingPod
  <2>3. podRec' = [pc |-> "recalculate", req |-> podRec.req, obj |-> podRec.obj]
    BY <1>0, <1>6, <2>1, PodRecParts DEF PodUpsert
  <2>4. pods' = Put(pods, podRec.req, [IP |-> podRec.obj.IP, Labels |-> podRec.obj.Labels])
    BY <1>6 DEF PodUpsert, UpsertPod
  <2> QED  BY <2>2, <2>3, <2>4 DEF Put
<1> QED
  BY <1>1, <1>2, <1>3, <1>4, <1>5, <1>6 DEF PodSide, PodWorker

\* Every step of the pod side keeps every pod tracked.
LEMMA PodTrackedStep ==
    ASSUME TypeInv, PodCopyUsed, PodSide, NEW p \in PodNames, PodTracked(p)
    PROVE  PodTracked(p)'
<1> DEFINE n == podRec.req
<1>1. /\ podRec \in PodRecs /\ podQueue \in Queues(PodNames)
      /\ podWatch \in Seq(PodEvents) /\ podCache = [m \in PodNames |-> podCache[m]]
      /\ \A m \in PodNames : podCache[m] \in Pod(m)
  BY DEF TypeInv, TypeOK, PodCtlTypeOK, ClusterTypeOK
<1>2. ASSUME UNCHANGED <<podCache, podRec, pods>>, PodPending(p) => PodPending(p)'
      PROVE  PodTracked(p)'
  BY <1>2 DEF PodTracked, PodInHand, CopyCurrent, PodSettled
<1>3. ASSUME UNCHANGED podCache, p \in podQueue.dirty \cup podQueue.waiting =>
                                     p \in podQueue'.dirty \cup podQueue'.waiting,
             ~(podRec.req = p /\ podRec.pc # "idle"), ~(podRec'.req = p /\ podRec'.pc # "idle"),
             (p \in DOMAIN pods') <=> (p \in DOMAIN pods), p \in DOMAIN pods => pods'[p] = pods[p]
      PROVE  PodTracked(p)'
  BY <1>3 DEF PodTracked, PodPending, PodInHand, PodSettled
<1>4. CASE DeliverPodEvent
  <2> DEFINE e == Head(podWatch)
  <2>1. e \in PodEvents
    BY <1>1, <1>4, HeadAndTail DEF DeliverPodEvent
  <2>2. e.name \in PodNames /\ e.obj \in Pod(e.name)
    BY <2>1, PodEventParts
  <2>3. /\ podCache' = [podCache EXCEPT ![e.name] = e.obj]
        /\ podQueue' = IF podEventFilter(podCache[e.name], e.obj)
                       THEN Enqueue(podQueue, e.name) ELSE podQueue
        /\ UNCHANGED <<podRec, pods>>
    BY <1>4 DEF DeliverPodEvent, podIndexVars
  <2> HIDE DEF e
  <2>4. PodPending(p) => PodPending(p)'
    BY SMT, <1>1, <2>3, EnqueueContents DEF PodPending
  <2>5. CASE p # e.name \/ podCache[p] = e.obj
    <3>1. podCache'[p] = podCache[p]
      BY <1>1, <2>3, <2>5
    <3> QED  BY <2>3, <2>4, <3>1 DEF PodTracked, PodInHand, CopyCurrent, PodSettled
  <2>6. CASE p = e.name /\ podEventFilter(podCache[p], e.obj)
    BY SMT, <1>1, <2>3, <2>6, EnqueueContents DEF PodTracked, PodPending
  <2>7. CASE p = e.name /\ ~podEventFilter(podCache[p], e.obj) /\ podCache[p] # e.obj
    <3>1. e.obj.exists /\ ~Live(e.obj)
      BY <1>1, <2>2, <2>7, FilterMissesNothing
    <3>2. podCache'[p] = e.obj
      BY <1>1, <2>3, <2>7
    <3>3. CopyCurrent(p)' /\ PodSettled(p)'
      BY <3>1, <3>2 DEF CopyCurrent, PodSettled, Live
    <3> QED  BY <3>3 DEF PodTracked
  <2> QED  BY <2>5, <2>6, <2>7
<1>5. CASE RelistPods
  BY <1>2, <1>5 DEF RelistPods, podCtlVars, podIndexVars, PodPending
<1>6. CASE \E m \in PodNames : PodBackoffExpires(m)
  <2>1. UNCHANGED <<podCache, podRec, pods>>
    BY <1>6 DEF PodBackoffExpires, podIndexVars
  <2>2. PodPending(p) => PodPending(p)'
    BY SMT, <1>1, <1>6, BackoffContents DEF PodBackoffExpires, PodPending
  <2> QED  BY <1>2, <2>1, <2>2
<1>7. CASE PodTake
  <2> DEFINE h == Head(podQueue.order)
  <2>1. /\ podRec.pc = "idle" /\ podRec'.pc = "get" /\ podRec'.req = h
        /\ podQueue'.dirty = podQueue.dirty \ {h} /\ podQueue'.waiting = podQueue.waiting
        /\ UNCHANGED <<podCache, pods>>
    BY <1>1, <1>7, DequeueContents DEF PodTake, IdlePodRec, podIndexVars
  <2>2. CASE p = h
    BY <2>1, <2>2 DEF PodTracked, PodPending
  <2>3. CASE p # h
    BY <1>3, <2>1, <2>3
  <2> QED  BY <2>2, <2>3
<1>8. CASE PodGet
  <2>1. podRec' = [pc |-> "fetched", req |-> n, obj |-> podCache[n]]
    BY <1>1, <1>8, PodRecParts DEF PodGet
  <2>2. UNCHANGED <<podCache, podQueue, pods>>
    BY <1>8 DEF PodGet, podIndexVars
  <2>3. CASE p = n
    BY <2>1, <2>2, <2>3 DEF PodTracked, PodInHand, CopyCurrent
  <2>4. CASE p # n
    BY <1>3, <2>1, <2>2, <2>4
  <2> QED  BY <2>3, <2>4
<1>9. CASE PodGetFails
  <2>1. /\ podRec'.pc = "idle" /\ UNCHANGED <<podCache, pods>>
        /\ podQueue'.dirty = podQueue.dirty /\ podQueue'.waiting = podQueue.waiting \cup {n}
    BY <1>1, <1>9, ErrorContents DEF PodGetFails, PodReturnsError, IdlePodRec, podIndexVars
  <2>2. CASE p = n
    BY <2>1, <2>2 DEF PodTracked, PodPending
  <2>3. CASE p # n
    BY <1>3, <2>1, <2>3
  <2> QED  BY <2>2, <2>3
<1>10. CASE PodGoneRemovesEntry \/ PodRemovesOldEntry \/ PodUpsert
  <2>1. /\ podRec.pc \in {"fetched", "upsert"} /\ UNCHANGED <<podCache, podQueue>>
        /\ \E pc \in {"delete", "upsert", "recalculate"} : podRec' = [podRec EXCEPT !.pc = pc]
    BY <1>10 DEF PodGoneRemovesEntry, PodRemovesOldEntry, PodUpsert
  <2>2. /\ podRec'.req = n /\ podRec'.obj = podRec.obj
        /\ podRec'.pc \in {"delete", "upsert", "recalculate"}
    BY <1>1, <2>1, PodRecParts
  <2>3. CASE p = n
    BY <2>1, <2>2, <2>3 DEF PodTracked, PodPending, PodInHand, CopyCurrent
  <2>4. CASE p # n
    <3>1. /\ (p \in DOMAIN pods') <=> (p \in DOMAIN pods)
          /\ p \in DOMAIN pods => pods'[p] = pods[p]
      BY <1>10, <2>4 DEF PodGoneRemovesEntry, PodRemovesOldEntry, PodUpsert, podIndexVars,
                         UpsertPod, Put
    <3> QED  BY <1>3, <2>1, <2>2, <2>4, <3>1
  <2> QED  BY <2>3, <2>4
<1>11. CASE PodGoneLeavesIndex \/ PodWithoutIP \/ PodRecalculate
  <2>1. /\ podRec'.pc = "idle" /\ UNCHANGED podCache
        /\ podQueue'.dirty = podQueue.dirty /\ podQueue'.waiting = podQueue.waiting
        /\ podRec.pc \in {"fetched", "delete", "recalculate"}
    BY SMT, <1>1, <1>11, FinishContents
    DEF PodGoneLeavesIndex, PodWithoutIP, PodRecalculate, PodReturns, IdlePodRec
  <2>2. CASE p # n
    <3>1. /\ (p \in DOMAIN pods') <=> (p \in DOMAIN pods)
          /\ p \in DOMAIN pods => pods'[p] = pods[p]
      BY <1>11, <2>2 DEF PodGoneLeavesIndex, PodWithoutIP, PodRecalculate, podIndexVars,
                         DeletePod, Without
    <3> QED  BY <1>3, <2>1, <2>2, <3>1
  <2>3. CASE p = n /\ ~PodPending(p)'
    <3>1. CopyCurrent(p)
      BY <2>1, <2>3 DEF PodTracked, PodPending, PodInHand
    <3>2. CASE podCache[p].exists /\ ~Live(podCache[p])
      BY <2>1, <3>2 DEF PodTracked, PodInHand, PodSettled, Live
    <3>3. CASE podRec.obj = podCache[p] /\ PodGoneLeavesIndex
      <4>1. ~podCache[p].exists /\ n \notin DOMAIN pods'
        BY <3>3 DEF PodGoneLeavesIndex, PodCopyUsed, DeletePod, Without, podIndexVars
      <4>2. ~Live(podCache[p])
        BY <1>1, <4>1, GoneNotLive
      <4>3. PodSettled(p)'
        <5>1. podCache'[p] = podCache[p] /\ p \notin DOMAIN pods'
          BY <2>1, <2>3, <4>1
        <5> QED  BY <4>2, <5>1 DEF PodSettled, Live
      <4>4. ~PodInHand(p)'
        BY <2>1 DEF PodInHand
      <4> QED  BY <4>3, <4>4 DEF PodTracked
    <3>4. CASE podRec.obj = podCache[p] /\ PodWithoutIP
      BY <3>2, <3>4 DEF PodWithoutIP, Live
    <3>5. CASE podRec.obj = podCache[p] /\ PodRecalculate
      <4>1. /\ podCache[p].exists /\ p \in DOMAIN pods
            /\ pods[p] = [IP |-> podCache[p].IP, Labels |-> podCache[p].Labels]
            /\ UNCHANGED pods
        BY <2>3, <3>5 DEF PodRecalculate, PodCopyUsed, podIndexVars
      <4> QED  BY <2>1, <4>1 DEF PodTracked, PodInHand, PodSettled
    <3> QED  BY <1>11, <3>1, <3>2, <3>3, <3>4, <3>5 DEF CopyCurrent
  <2> QED  BY <2>2, <2>3 DEF PodTracked
<1> QED
  BY <1>4, <1>5, <1>6, <1>7, <1>8, <1>9, <1>10, <1>11 DEF PodSide, PodWorker

-----------------------------------------------------------------------------
(* The theorem.                                                            *)

\* With empty indexes and an idle worker, pods are tracked once the informer
\* has queued those that are running.
LEMMA TrackedAtStart ==
    ASSUME \A p \in PodNames : Live(podCache[p]) => p \in podQueue.dirty,
           pods = EmptyMap, podRec = IdlePodRec
    PROVE  PodCopyUsed /\ \A p \in PodNames : PodTracked(p)
<1>1. PodCopyUsed
  BY DEF PodCopyUsed, IdlePodRec
<1>2. ASSUME NEW p \in PodNames PROVE PodTracked(p)
  BY <1>2 DEF PodTracked, PodPending, PodInHand, PodSettled, IdlePodRec, EmptyMap
<1> QED  BY <1>1, <1>2

\* Pods are tracked when main starts the manager.
LEMMA TrackingInit == Init => TrackingInv
<1> SUFFICES ASSUME Init PROVE TrackingInv
  OBVIOUS
<1>1. TypeInv
  BY TypeInvInit
<1>2. \A p \in PodNames : Live(podCache[p]) => p \in podQueue.dirty
  BY <1>1, LivePodsQueued DEF Init, TypeInv, TypeOK
<1>3. pods = EmptyMap /\ podRec = IdlePodRec
  BY DEF Init, NewPodIndex
<1> QED  BY <1>1, <1>2, <1>3, TrackedAtStart DEF TrackingInv

\* Every step keeps the pods tracked.
LEMMA TrackingNext == TrackingInv /\ [Next]_vars => TrackingInv'
<1> SUFFICES ASSUME TrackingInv, [Next]_vars PROVE TrackingInv'
  OBVIOUS
<1>1. TypeInv'
  BY TypeInvNext DEF TrackingInv
<1>2. CASE PodSide
  BY <1>1, <1>2, PodCopyUsedStep, PodTrackedStep DEF TrackingInv
<1>3. CASE UNCHANGED <<podCache, podQueue, podRec, pods>>
  <2>1. PodCopyUsed'
    BY <1>3 DEF TrackingInv, PodCopyUsed
  <2>2. ASSUME NEW p \in PodNames PROVE PodTracked(p)'
    BY <1>3 DEF TrackingInv, PodTracked, PodPending, PodInHand, CopyCurrent, PodSettled
  <2> QED  BY <1>1, <2>1, <2>2 DEF TrackingInv
<1>4. CASE Restart
  <2>1. /\ podCache' = apiPods /\ podQueue' \in PodRequests
        /\ pods' = EmptyMap /\ podRec' = IdlePodRec
    BY <1>4 DEF Restart
  <2>2. ClusterTypeOK
    BY DEF TrackingInv, TypeInv, TypeOK
  <2>3. PodCopyUsed'
    BY <2>1 DEF PodCopyUsed, IdlePodRec
  <2>4. ASSUME NEW p \in PodNames PROVE PodTracked(p)'
    <3>1. Live(apiPods[p]) => p \in podQueue'.dirty
      BY <2>1, <2>2, LivePodsQueued
    <3> QED
      BY <2>1, <3>1 DEF PodTracked, PodPending, PodInHand, PodSettled, Live, IdlePodRec, EmptyMap
  <2> QED  BY <1>1, <2>3, <2>4 DEF TrackingInv
<1>5. CASE PolicySide /\ UNCHANGED podCtlVars
  BY <1>3, <1>5, PolicySideFrame DEF podCtlVars
<1> QED
  BY <1>2, <1>3, <1>4, <1>5 DEF Next, vars, podCtlVars, podIndexVars

\* The event filter loses nothing that matters, also when a relist turns a
\* pod's deletion and its new creation into one update: a running pod with an IP
\* is indexed as the informer knows it and a pod that is gone is not indexed, or
\* a reconcile of it is queued, waiting, or under way with this very copy.
THEOREM PodsAlwaysTracked == Spec => []PodsTracked
<1>1. TrackingInv => PodsTracked
  BY DEF TrackingInv, PodTracked, PodPending, PodInHand, CopyCurrent, PodSettled, Live,
         PodsTracked
<1> QED  BY <1>1, TrackingInit, TrackingNext, PTL DEF Spec

\* The event filter keeps its promise in the process that serves the agents,
\* whenever it is stopped or dies.
THEOREM ControllerTracksPods == ControllerSpec => []PodsTracked
BY ControllerIsMesh, PodsAlwaysTracked, PTL
=============================================================================
