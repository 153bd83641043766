------------------------------- MODULE DnsMesh -------------------------------
(***************************************************************************)
(* The controller process of controller/cmd/main.go: both reconcilers, the *)
(* two indexes and the blocklist cache they share, in a cluster whose pods *)
(* and policies change under it.                                           *)
(***************************************************************************)
EXTENDS PodController, DnsPolicyController

vars == <<clusterVars, podCtlVars, policyCtlVars, podIndexVars, policies,
          cacheVars>>

\* The work queues when the manager starts: the informers list all objects and
\* hand each to its controller as a create event.
PodRequests ==
    {QueueOf(s) :
        s \in Orders({p \in PodNames : podEventFilter(NoPod, apiPods[p])})}

PolicyRequests ==
    {QueueOf(s) : s \in Orders({q \in PolicyNames : apiPolicies[q].exists})}

\* main creates empty indexes and an empty cache and starts the manager.
Init ==
    /\ ClusterInit
    /\ NewPodIndex
    /\ NewPolicyIndex
    /\ NewBlocklistCache
    /\ podWatch = <<>> /\ podCache = apiPods
    /\ policyWatch = <<>> /\ policyCache = apiPolicies
    /\ podQueue \in PodRequests /\ podRec = IdlePodRec
    /\ policyQueue \in PolicyRequests /\ polRec = IdlePolRec

\* The process dies, all it knew is lost, and main starts it again.
Restart ==
    /\ used.restart < MaxRestarts
    /\ used' = [used EXCEPT !.restart = @ + 1]
    /\ pods' = EmptyMap /\ ipToPod' = EmptyMap
    /\ policies' = EmptyMap
    /\ entries' = EmptyMap /\ mu' = FALSE /\ affectedPods' = EmptyMap
    /\ podWatch' = <<>> /\ podCache' = apiPods
    /\ policyWatch' = <<>> /\ policyCache' = apiPolicies
    /\ podQueue' \in PodRequests /\ podRec' = IdlePodRec
    /\ policyQueue' \in PolicyRequests /\ polRec' = IdlePolRec
    /\ UNCHANGED <<apiPods, apiPolicies>>

PodSide ==
    \/ DeliverPodEvent
    \/ RelistPods
    \/ \E p \in PodNames : PodBackoffExpires(p)
    \/ PodWorker

PolicySide ==
    \/ DeliverPolicyEvent
    \/ RelistPolicies
    \/ \E q \in PolicyNames : PolicyBackoffExpires(q)
    \/ PolicyWorker

\* Nothing is on its way, queued, waiting or being worked on.
Quiet ==
    /\ podWatch = <<>> /\ policyWatch = <<>>
    /\ podQueue = EmptyQueue /\ policyQueue = EmptyQueue
    /\ podRec.pc = "idle" /\ polRec.pc = "idle"

\* The last disjunct lets a quiet controller rest, so that the only deadlocks
\* are workers that block each other.
Next ==
    \/ (PodsChange \/ PoliciesChange)
          /\ UNCHANGED <<podCtlVars, policyCtlVars, podIndexVars, policies, cacheVars>>
    \/ PodSide /\ UNCHANGED policyCtlVars
    \/ PolicySide /\ UNCHANGED podCtlVars
    \/ Restart
    \/ Quiet /\ UNCHANGED vars

Spec == Init /\ [][Next]_vars

\* The informers deliver, back-off timers fire and the workers, goroutines
\* that never stop, take the steps open to them.  Nothing is assumed of users,
\* kubelets and failures.
Fairness ==
    /\ WF_vars(DeliverPodEvent /\ UNCHANGED policyCtlVars)
    /\ WF_vars(DeliverPolicyEvent /\ UNCHANGED podCtlVars)
    /\ \A p \in PodNames :
           WF_vars(PodBackoffExpires(p) /\ UNCHANGED policyCtlVars)
    /\ \A q \in PolicyNames :
           WF_vars(PolicyBackoffExpires(q) /\ UNCHANGED podCtlVars)
    /\ WF_vars(PodWorker /\ UNCHANGED policyCtlVars)
    /\ WF_vars(PolicyWorker /\ UNCHANGED podCtlVars)

FairSpec == Spec /\ Fairness

-----------------------------------------------------------------------------
(* Properties.                                                             *)

\* Every variable holds values of its type: no pod without an IP is indexed,
\* no policy with a spec that was never given to it, and the workers' copies
\* are copies of the objects they were asked for.
TypeOK ==
    /\ ClusterTypeOK
    /\ PodCtlTypeOK
    /\ PolicyCtlTypeOK
    /\ PodIndexTypeOK
    /\ PolicyIndexTypeOK
    /\ CacheTypeOK

\* The pod worker is between taking pod p's entry out or changing its index
\* record and computing the entry anew.
PodBusy(p) ==
    podRec.req = p /\ podRec.pc \in {"delete", "upsert", "recalculate"}

\* The policy worker has indexed policy q and not yet recalculated for it.
PolicyBusy(q) ==
    polRec.req = q /\ polRec.pc \in {"recalculate", "collect", "recalculateChange"}

Selects(q, p) == LabelsContainAll(pods[p].Labels, policies[q].TargetSelector)

Blocks(q, p) ==
    /\ pods[p].IP \in DOMAIN entries
    /\ policies[q].BlockList \subseteq entries[pods[p].IP]

\* No lost update between the two reconcilers: whatever the order in which
\* they index and recalculate, a domain blocked by an indexed policy is in the
\* entry of every indexed pod the policy selects, except while a worker that
\* is about to write that entry is between its two calls.
MatchedPodsBlocked ==
    \A p \in DOMAIN pods, q \in DOMAIN policies :
        Selects(q, p) /\ ~PodBusy(p) /\ ~PolicyBusy(q) => Blocks(q, p)

\* The policy worker is going to recalculate the entries of these labels.
RecalculationDue(labels) ==
    \/ /\ polRec.pc \in {"recalculate", "recalculateGone", "recalculateDeleted",
                         "collect"}
       /\ LabelsContainAll(labels, polRec.sel)
    \/ /\ polRec.pc \in {"collect", "recalculateChange"}
       /\ LabelsContainAll(labels, polRec.obj.Spec.TargetSelector)

\* The incremental recalculations amount to a full one: the entry of an
\* indexed pod is exactly the union of the block lists of the indexed policies
\* that select it, unless a recalculation of it is under way.  A selector left
\* behind by a policy edit must not keep its pods blocked.
EntriesExact ==
    \A p \in DOMAIN pods :
        \/ PodBusy(p)
        \/ RecalculationDue(pods[p].Labels)
        \/ pods[p].IP \in DOMAIN affectedPods
        \/ /\ pods[p].IP \in DOMAIN entries
           /\ entries[pods[p].IP] = BlockedFor(pods[p].Labels)

\* RecalculateForPolicyChange keeps the pods it collected across a second read
\* of the pod index, which bc.mu does not protect.  They are never outdated:
\* the labels collected for an IP are those of the indexed pod that has it, or
\* the pod worker is itself about to recalculate that pod once mu is free.
AffectedCurrent ==
    \A p \in DOMAIN pods :
        pods[p].IP \in DOMAIN affectedPods =>
            PodBusy(p) \/ affectedPods[pods[p].IP] = pods[p].Labels

\* The event filter loses nothing that matters: a running pod with an IP is
\* indexed as the informer knows it, or a reconcile that will do so is queued,
\* waits for its back-off, or is under way with this very copy.  A pod that is
\* gone and still indexed has a reconcile to come that removes it.
PodsTracked ==
    \A p \in PodNames :
        LET obj == podCache[p]
            pending == \/ p \in podQueue.dirty \cup podQueue.waiting
                       \/ podRec.req = p /\ podRec.pc = "get"
            underWay == podRec.req = p /\ podRec.pc # "idle" /\ podRec.obj = obj
        IN  /\ obj.Phase = "Running" /\ obj.IP # NoIP =>
                   \/ pending
                   \/ underWay
                   \/ /\ p \in DOMAIN pods
                      /\ pods[p] = [IP |-> obj.IP, Labels |-> obj.Labels]
            /\ ~obj.exists /\ p \in DOMAIN pods => pending \/ underWay

\* The finalizer does its job: a policy that is in the index exists in the API
\* server and carries the controller's finalizer, so it cannot disappear
\* before the controller has dropped it from the index.
IndexedPoliciesExist ==
    \A q \in DOMAIN policies :
        apiPolicies[q].exists /\ apiPolicies[q].Finalizer

\* status.observedGeneration is honest: when it names the current generation
\* of a policy that is not being deleted, the index holds that very spec, or
\* a reconcile of the policy is still to come (after a restart).
ObservedMeansIndexed ==
    \A q \in PolicyNames :
        LET obj == apiPolicies[q]
        IN  obj.exists /\ ~obj.Deleting /\ obj.ObservedGeneration = obj.Generation =>
                \/ q \in DOMAIN policies /\ policies[q] = obj.Spec
                \/ q \in policyQueue.dirty \cup policyQueue.waiting
                \/ polRec.req = q /\ polRec.pc = "get"

\* Reconciling never unblocks by the way: while a pod and a policy that blocks
\* it both stay indexed as they are, no step takes the policy's domains out of
\* the pod's entry, except the pod worker's own removal of that entry.
NoUnblocking ==
    [][\A p \in DOMAIN pods \cap DOMAIN pods',
          q \in DOMAIN policies \cap DOMAIN policies' :
           /\ pods'[p] = pods[p] /\ policies'[q] = policies[q]
           /\ Selects(q, p) /\ Blocks(q, p) /\ ~PodBusy(p)'
           => Blocks(q, p)']_vars

\* The indexes follow the cluster: running pods are indexed as they are and
\* deleted ones are not, every policy that can be indexed is, with its status
\* written, and deletions are completed.
IndexesCaughtUp ==
    /\ \A p \in PodNames :
           LET obj == apiPods[p]
           IN  /\ obj.Phase = "Running" =>
                      p \in DOMAIN pods /\ pods[p] = [IP |-> obj.IP, Labels |-> obj.Labels]
               /\ ~obj.exists => p \notin DOMAIN pods
    /\ \A q \in PolicyNames :
           LET obj == apiPolicies[q]
           IN  /\ ~obj.exists => q \notin DOMAIN policies
               /\ obj.exists /\ obj.Deleting => ~obj.Finalizer
               /\ obj.exists /\ ~obj.Deleting /\ DOMAIN obj.Spec.TargetSelector # {} =>
                      /\ q \in DOMAIN policies /\ policies[q] = obj.Spec
                      /\ obj.ObservedGeneration = obj.Generation

\* ... and what should be blocked is served.
CaughtUp ==
    /\ IndexesCaughtUp
    /\ \A p \in DOMAIN pods, q \in DOMAIN policies :
           Selects(q, p) /\ policies[q].BlockList # {} =>
               /\ pods[p].IP \in DOMAIN GetBlocklist
               /\ policies[q].BlockList \subseteq GetBlocklist[pods[p].IP]

\* The controller never rests with work undone: when no event is on its way,
\* no request is queued or waits for its back-off and both workers are idle,
\* no early return, event filter, rejected write or failed call has made it
\* forget a pod or a policy, whatever was delivered, retried or restarted.
QuietMeansCaughtUp == Quiet => CaughtUp

\* What the policies in the cluster that are not being deleted block for a pod.
Demanded(p) ==
    UNION {apiPolicies[q].Spec.BlockList : q \in
        {r \in PolicyNames :
            /\ apiPolicies[r].exists /\ ~apiPolicies[r].Deleting
            /\ LabelsContainAll(apiPods[p].Labels, apiPolicies[r].Spec.TargetSelector)}}

\* From the cluster to the blocklist, past informers, queues, indexes and cache:
\* when the controller has nothing left to do, what it serves for a running pod
\* is what the policies in the cluster demand for it, no domain less and none
\* more, and no entry if they demand nothing.
QuietMeansExact ==
    Quiet => \A p \in PodNames :
        LET ip == apiPods[p].IP
        IN  apiPods[p].Phase = "Running" =>
                /\ ip \in DOMAIN GetBlocklist <=> Demanded(p) # {}
                /\ Demanded(p) # {} => GetBlocklist[ip] = Demanded(p)

\* When users and kubelets leave the cluster alone, the reconcilers bring the
\* controller to CaughtUp and keep it there, whatever conflicts, failed calls
\* and back-offs came before.
EventuallyCaughtUp == <>[]CaughtUp

-----------------------------------------------------------------------------
(* What the repository says of itself and the code does not do.            *)

\* Reconcile's comment promises to handle deletions "by removing from index
\* and updating blocklist": once the controller is quiet, an indexed pod is
\* not blocked by a policy that is no longer indexed.
DeletedPoliciesUnblocked ==
    Quiet => \A p \in DOMAIN pods :
        pods[p].IP \in DOMAIN entries =>
            entries[pods[p].IP] \subseteq BlockedFor(pods[p].Labels)

\* The cache "provides incremental updates when pods or policies change": once
\* the controller is quiet, a running pod is blocked by every policy that
\* selects it, also when its IP was another pod's before.
RunningPodsBlocked ==
    Quiet => \A p \in DOMAIN pods, q \in DOMAIN policies :
        podCache[p].Phase = "Running" /\ Selects(q, p) => Blocks(q, p)

\* updateCondition "updates a condition in the policy status": a policy that is
\* left with an empty selector ends up with its Ready condition False.
InvalidPoliciesReported ==
    <>[](\A q \in PolicyNames :
            LET obj == apiPolicies[q]
            IN  obj.exists /\ ~obj.Deleting /\ DOMAIN obj.Spec.TargetSelector = {} =>
                    obj.Ready = "False")
=============================================================================
