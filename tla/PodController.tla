---------------------------- MODULE PodController ----------------------------
(***************************************************************************)
(* controller/internal/controller/pod_controller.go: the pod reconciler,   *)
(* its event filter, and the informer cache and work queue that drive it.  *)
(* One worker runs Reconcile; a step ends where another goroutine can come *)
(* in between, that is between two calls that lock an index or the cache.  *)
(***************************************************************************)
EXTENDS BlocklistCache, Cluster, WorkQueue

VARIABLES
    podCache,   \* the informer's copy of the pods, what r.Get reads
    podQueue,   \* requests for the worker
    podRec      \* the worker: program point, request, pod fetched

podCtlVars == <<podCache, podQueue, podRec>>

IdlePodRec == [pc |-> "idle", req |-> NoName, obj |-> NoPod]

PodRecs ==
    {IdlePodRec} \cup
    UNION {[pc : {"get", "fetched", "delete", "upsert", "recalculate"},
            req : {p}, obj : Pod(p)] : p \in PodNames}

PodCtlTypeOK ==
    /\ podCache = [p \in PodNames |-> podCache[p]]
    /\ \A p \in PodNames : podCache[p] \in Pod(p)
    /\ podQueue \in Queues(PodNames)
    /\ podRec \in PodRecs

\* A filter without the ipChanged test.
podEventFilterIgnoringIP(old, new) ==
    \/ ~old.exists /\ new.exists /\ new.IP # NoIP /\ new.Phase = "Running"
    \/ /\ old.exists /\ new.exists
       /\ \/ (old.Phase = "Running") # (new.Phase = "Running")
          \/ ~labelsEqual(old.Labels, new.Labels)
    \/ old.exists /\ ~new.exists

\* A filter that leaves out the updates of pods that did not run before.
podEventFilterOfRunning(old, new) ==
    \/ ~old.exists /\ new.exists /\ new.IP # NoIP /\ new.Phase = "Running"
    \/ /\ old.exists /\ new.exists
       /\ old.Phase = "Running"
       /\ \/ new.Phase # "Running"
          \/ old.IP # new.IP
          \/ ~labelsEqual(old.Labels, new.Labels)
    \/ old.exists /\ ~new.exists

\* The predicates of podEventFilter for a create, update and delete event.
\* The type assertions on the event's objects always succeed.
podEventFilter(old, new) ==
    \/ ~old.exists /\ new.exists /\ new.IP # NoIP /\ new.Phase = "Running"
    \/ /\ old.exists /\ new.exists
       /\ \/ old.Phase # "Running" /\ new.Phase = "Running"
          \/ old.Phase = "Running" /\ new.Phase # "Running"
          \/ old.IP # new.IP
          \/ ~labelsEqual(old.Labels, new.Labels)
    \/ old.exists /\ ~new.exists

\* The informer handles the next pod event and passes it through the filter.
DeliverPodEvent ==
    /\ podWatch # <<>>
    /\ LET e == Head(podWatch)
       IN  /\ podCache' = [podCache EXCEPT ![e.name] = e.obj]
           /\ podQueue' = IF podEventFilter(podCache[e.name], e.obj)
                          THEN Enqueue(podQueue, e.name) ELSE podQueue
    /\ podWatch' = Tail(podWatch)
    /\ UNCHANGED <<apiPods, policyApiVars, used, podRec, podIndexVars, policies,
                   cacheVars>>

\* The watch is lost and the informer lists the pods anew: what happened to a
\* pod in between arrives as one event, also a deletion and a new creation.
RelistPods ==
    /\ SpendFailure
    /\ \E names \in Orders({p \in PodNames :
                               apiPods[p].exists \/ podCache[p].exists}) :
          podWatch' = [i \in DOMAIN names |->
                          [name |-> names[i], obj |-> apiPods[names[i]]]]
    /\ UNCHANGED <<apiPods, policyApiVars, podCtlVars, podIndexVars, policies,
                   cacheVars>>

PodBackoffExpires(p) ==
    /\ p \in podQueue.waiting
    /\ podQueue' = BackoffExpired(podQueue, p)
    /\ UNCHANGED <<clusterVars, podCache, podRec, podIndexVars, policies,
                   cacheVars>>

-----------------------------------------------------------------------------
(* Reconcile.                                                              *)

\* Reconcile returns without or with an error.
PodReturns ==
    /\ podRec' = IdlePodRec
    /\ podQueue' = Finish(podQueue, podRec.req)

PodReturnsError ==
    /\ podRec' = IdlePodRec
    /\ podQueue' = FinishWithError(podQueue, podRec.req)

PodTake ==
    /\ podRec.pc = "idle"
    /\ podQueue.order # <<>>
    /\ podRec' = [IdlePodRec EXCEPT !.pc = "get", !.req = Head(podQueue.order)]
    /\ podQueue' = Dequeue(podQueue)
    /\ UNCHANGED <<clusterVars, podCache, podIndexVars, policies, cacheVars>>

\* r.Get succeeds, or reports that the pod is not found.
PodGet ==
    /\ podRec.pc = "get"
    /\ podRec' = [podRec EXCEPT !.pc = "fetched", !.obj = podCache[podRec.req]]
    /\ UNCHANGED <<clusterVars, podCache, podQueue, podIndexVars, policies,
                   cacheVars>>

\* r.Get fails for another reason.
PodGetFails ==
    /\ podRec.pc = "get"
    /\ SpendFailure
    /\ PodReturnsError
    /\ UNCHANGED <<podApiVars, policyApiVars, podCache, podIndexVars, policies,
                   cacheVars>>

\* Pod not found: its entry is dropped, under the IP it was indexed with ...
PodGoneRemovesEntry ==
    /\ podRec.pc = "fetched"
    /\ ~podRec.obj.exists
    /\ podRec' = [podRec EXCEPT !.pc = "delete"]
    /\ IF podRec.req \in DOMAIN pods
       THEN RemovePod(pods[podRec.req].IP) ELSE UNCHANGED cacheVars
    /\ UNCHANGED <<clusterVars, podCache, podQueue, podIndexVars, policies>>

\* ... then the pod is dropped from the index.
PodGoneLeavesIndex ==
    /\ podRec.pc = "delete"
    /\ DeletePod(podRec.req)
    /\ PodReturns
    /\ UNCHANGED <<clusterVars, podCache, policies, cacheVars>>

\* A pod without an IP is skipped, whatever its phase and whether or not it is
\* indexed.  The removal of pods that are not running comes after this return
\* and asks for an empty IP too, so no pod ever reaches it.
PodWithoutIP ==
    /\ podRec.pc = "fetched"
    /\ podRec.obj.exists
    /\ podRec.obj.IP = NoIP
    /\ PodReturns
    /\ UNCHANGED <<clusterVars, podCache, podIndexVars, policies, cacheVars>>

\* The pod's IP changed: the entry of the old IP is dropped first.
PodMoved ==
    podRec.req \in DOMAIN pods /\ pods[podRec.req].IP # podRec.obj.IP

PodRemovesOldEntry ==
    /\ podRec.pc = "fetched"
    /\ podRec.obj.IP # NoIP
    /\ PodMoved
    /\ RemovePod(pods[podRec.req].IP)
    /\ podRec' = [podRec EXCEPT !.pc = "upsert"]
    /\ UNCHANGED <<clusterVars, podCache, podQueue, podIndexVars, policies>>

\* An Upsert that is reached without the check for an empty IP.
PodUpsertWithoutIPCheck ==
    /\ \/ podRec.pc = "upsert"
       \/ podRec.pc = "fetched" /\ podRec.obj.exists /\ ~PodMoved
    /\ UpsertPod(podRec.req,
                 [IP |-> podRec.obj.IP, Labels |-> podRec.obj.Labels])
    /\ podRec' = [podRec EXCEPT !.pc = "recalculate"]
    /\ UNCHANGED <<clusterVars, podCache, podQueue, policies, cacheVars>>

PodUpsert ==
    /\ \/ podRec.pc = "upsert"
       \/ podRec.pc = "fetched" /\ podRec.obj.IP # NoIP /\ ~PodMoved
    /\ UpsertPod(podRec.req,
                 [IP |-> podRec.obj.IP, Labels |-> podRec.obj.Labels])
    /\ podRec' = [podRec EXCEPT !.pc = "recalculate"]
    /\ UNCHANGED <<clusterVars, podCache, podQueue, policies, cacheVars>>

PodRecalculate ==
    /\ podRec.pc = "recalculate"
    /\ RecalculatePod(podRec.req)
    /\ PodReturns
    /\ UNCHANGED <<clusterVars, podCache, podIndexVars, policies>>

PodWorker ==
    \/ PodTake
    \/ PodGet
    \/ PodGetFails
    \/ PodGoneRemovesEntry
    \/ PodGoneLeavesIndex
    \/ PodWithoutIP
    \/ PodRemovesOldEntry
    \/ PodUpsert
    \/ PodRecalculate
=============================================================================
