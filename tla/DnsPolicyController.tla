------------------------- MODULE DnsPolicyController -------------------------
(***************************************************************************)
(* controller/internal/controller/dnspolicy_controller.go: the DnsPolicy   *)
(* reconciler with the informer cache and work queue that drive it.  One   *)
(* worker runs Reconcile.  r.Get and the index operation that follows it   *)
(* are one step: between the two another goroutine can only change the     *)
(* informer's copy, which marks the request dirty in either order.         *)
(***************************************************************************)
EXTENDS BlocklistCache, Cluster, WorkQueue

VARIABLES
    policyCache,    \* the informer's copy of the policies, what r.Get reads
    policyQueue,    \* requests for the worker
    polRec          \* the worker: program point, request, policy fetched,
                    \* selector to recalculate for

policyCtlVars == <<policyCache, policyQueue, polRec>>

IdlePolRec ==
    [pc |-> "idle", req |-> NoName, obj |-> NoPolicy(0), sel |-> EmptyMap]

PolRecs ==
    {IdlePolRec} \cup
    UNION {[pc : {"get", "recalculateGone", "recalculateDeleted",
                  "removeFinalizer", "addFinalizer", "collect",
                  "recalculateChange", "recalculate", "updateStatus"},
            req : {q}, obj : DnsPolicy(q), sel : LabelMaps] : q \in PolicyNames}

PolicyCtlTypeOK ==
    /\ policyCache = [q \in PolicyNames |-> policyCache[q]]
    /\ \A q \in PolicyNames : policyCache[q] \in DnsPolicy(q)
    /\ policyQueue \in Queues(PolicyNames)
    /\ polRec \in PolRecs

\* A controller with a filter for events that change the generation.
DeliverGenerationChanges ==
    /\ policyWatch # <<>>
    /\ LET e == Head(policyWatch)
       IN  /\ policyCache' = [policyCache EXCEPT ![e.name] = e.obj]
           /\ policyQueue' = IF policyCache[e.name].exists /\ e.obj.exists
                                /\ policyCache[e.name].Generation = e.obj.Generation
                             THEN policyQueue ELSE Enqueue(policyQueue, e.name)
    /\ policyWatch' = Tail(policyWatch)
    /\ UNCHANGED <<podApiVars, apiPolicies, used, polRec, podIndexVars, policies,
                   cacheVars>>

\* The informer handles the next policy event; there is no event filter.
DeliverPolicyEvent ==
    /\ policyWatch # <<>>
    /\ LET e == Head(policyWatch)
       IN  /\ policyCache' = [policyCache EXCEPT ![e.name] = e.obj]
           /\ policyQueue' = Enqueue(policyQueue, e.name)
    /\ policyWatch' = Tail(policyWatch)
    /\ UNCHANGED <<podApiVars, apiPolicies, used, polRec, podIndexVars, policies,
                   cacheVars>>

\* The watch is lost and the informer lists the policies anew: of the events on
\* their way only the latest object counts, and every policy is handed over.
RelistPolicies ==
    /\ SpendFailure
    /\ \E names \in Orders({q \in PolicyNames :
                               apiPolicies[q].exists \/ policyCache[q].exists}) :
          policyWatch' = [i \in DOMAIN names |->
                             [name |-> names[i], obj |-> apiPolicies[names[i]]]]
    /\ UNCHANGED <<podApiVars, apiPolicies, policyCtlVars, podIndexVars, policies,
                   cacheVars>>

PolicyBackoffExpires(q) ==
    /\ q \in policyQueue.waiting
    /\ policyQueue' = BackoffExpired(policyQueue, q)
    /\ UNCHANGED <<clusterVars, policyCache, polRec, podIndexVars, policies,
                   cacheVars>>

-----------------------------------------------------------------------------
(* Reconcile.                                                              *)

\* Reconcile returns without or with an error.
PolicyReturns ==
    /\ polRec' = IdlePolRec
    /\ policyQueue' = Finish(policyQueue, polRec.req)

PolicyReturnsError ==
    /\ polRec' = IdlePolRec
    /\ policyQueue' = FinishWithError(policyQueue, polRec.req)

PolicyTake ==
    /\ polRec.pc = "idle"
    /\ policyQueue.order # <<>>
    /\ polRec' = [IdlePolRec EXCEPT !.pc = "get", !.req = Head(policyQueue.order)]
    /\ policyQueue' = Dequeue(policyQueue)
    /\ UNCHANGED <<clusterVars, policyCache, podIndexVars, policies, cacheVars>>

\* What r.Get returns at the program point "get".
Fetched == policyCache[polRec.req]

\* r.Get fails for another reason than not found.
PolicyGetFails ==
    /\ polRec.pc = "get"
    /\ SpendFailure
    /\ PolicyReturnsError
    /\ UNCHANGED <<podApiVars, policyApiVars, policyCache, podIndexVars,
                   policies, cacheVars>>

\* Not found: drop the policy from the index and recalculate for the selector
\* it was indexed with, if it was.
PolicyGone ==
    /\ polRec.pc = "get"
    /\ ~Fetched.exists
    /\ DeletePolicy(polRec.req)
    /\ IF DOMAIN OldSelector(polRec.req) = {}
       THEN PolicyReturns
       ELSE /\ polRec' = [polRec EXCEPT !.pc = "recalculateGone",
                                        !.sel = OldSelector(polRec.req)]
            /\ UNCHANGED policyQueue
    /\ UNCHANGED <<clusterVars, policyCache, podIndexVars, cacheVars>>

\* A deletion branch that forgets PolicyIndex.Delete.
PolicyFinalizeKeepsIndex ==
    /\ polRec.pc = "get"
    /\ Fetched.exists /\ Fetched.Deleting /\ Fetched.Finalizer
    /\ polRec' = [polRec EXCEPT !.obj = Fetched, !.pc = "removeFinalizer"]
    /\ UNCHANGED <<clusterVars, policyCache, policyQueue, podIndexVars, policies,
                   cacheVars>>

\* A deletion branch that forgets RecalculateForPolicy.
PolicyFinalizeKeepsEntries ==
    /\ polRec.pc = "get"
    /\ Fetched.exists /\ Fetched.Deleting /\ Fetched.Finalizer
    /\ DeletePolicy(polRec.req)
    /\ polRec' = [polRec EXCEPT !.obj = Fetched, !.pc = "removeFinalizer"]
    /\ UNCHANGED <<clusterVars, policyCache, policyQueue, podIndexVars, cacheVars>>

\* Marked for deletion: drop it from the index and recalculate for the
\* selector of the object just fetched, unless that is empty.
PolicyFinalize ==
    /\ polRec.pc = "get"
    /\ Fetched.exists /\ Fetched.Deleting /\ Fetched.Finalizer
    /\ DeletePolicy(polRec.req)
    /\ polRec' = [polRec EXCEPT
           !.obj = Fetched,
           !.sel = Fetched.Spec.TargetSelector,
           !.pc = IF DOMAIN Fetched.Spec.TargetSelector = {}
                  THEN "removeFinalizer" ELSE "recalculateDeleted"]
    /\ UNCHANGED <<clusterVars, policyCache, policyQueue, podIndexVars, cacheVars>>

\* Marked for deletion and no longer ours to clean up.
PolicyIgnored ==
    /\ polRec.pc = "get"
    /\ Fetched.exists /\ Fetched.Deleting /\ ~Fetched.Finalizer
    /\ PolicyReturns
    /\ UNCHANGED <<clusterVars, policyCache, podIndexVars, policies, cacheVars>>

PolicyNeedsFinalizer ==
    /\ polRec.pc = "get"
    /\ Fetched.exists /\ ~Fetched.Deleting /\ ~Fetched.Finalizer
    /\ polRec' = [polRec EXCEPT !.obj = Fetched, !.pc = "addFinalizer"]
    /\ UNCHANGED <<clusterVars, policyCache, policyQueue, podIndexVars, policies,
                   cacheVars>>

Indexable ==
    Fetched.exists /\ ~Fetched.Deleting /\ Fetched.Finalizer

\* An empty selector is an error.  The Ready condition is set to False on the
\* worker's copy, which is then dropped; the index is left as it is.
PolicyInvalid ==
    /\ polRec.pc = "get"
    /\ Indexable
    /\ DOMAIN Fetched.Spec.TargetSelector = {}
    /\ PolicyReturnsError
    /\ UNCHANGED <<clusterVars, policyCache, podIndexVars, policies, cacheVars>>

\* Index the policy; whether its selector changed decides what to recalculate.
PolicyUpsert ==
    LET new == Fetched.Spec.TargetSelector
        old == OldSelector(polRec.req)
        changed == polRec.req \in DOMAIN policies /\ ~selectorsEqual(old, new)
    IN  /\ polRec.pc = "get"
        /\ Indexable
        /\ DOMAIN new # {}
        /\ UpsertPolicy(polRec.req, Fetched.Spec)
        /\ polRec' = [polRec EXCEPT
               !.obj = Fetched,
               !.sel = IF changed THEN old ELSE new,
               !.pc = IF changed THEN "collect" ELSE "recalculate"]
        /\ UNCHANGED <<clusterVars, policyCache, policyQueue, podIndexVars,
                       cacheVars>>

\* After the recalculation of an indexed policy: the status is written if it
\* is not of this generation.
PolicyRecalculated ==
    IF polRec.obj.ObservedGeneration # polRec.obj.Generation
    THEN /\ polRec' = [polRec EXCEPT !.pc = "updateStatus"]
         /\ UNCHANGED policyQueue
    ELSE PolicyReturns

PolicyRecalculate ==
    /\ polRec.pc \in {"recalculateGone", "recalculateDeleted", "recalculate"}
    /\ RecalculateForPolicy(polRec.sel)
    /\ \/ polRec.pc = "recalculateGone" /\ PolicyReturns
       \/ /\ polRec.pc = "recalculateDeleted"
          /\ polRec' = [polRec EXCEPT !.pc = "removeFinalizer"]
          /\ UNCHANGED policyQueue
       \/ polRec.pc = "recalculate" /\ PolicyRecalculated
    /\ UNCHANGED <<clusterVars, policyCache, podIndexVars, policies>>

PolicyCollectsOld ==
    /\ polRec.pc = "collect"
    /\ CollectOldSelector(polRec.sel)
    /\ polRec' = [polRec EXCEPT !.pc = "recalculateChange"]
    /\ UNCHANGED <<clusterVars, policyCache, policyQueue, podIndexVars, policies>>

PolicyRecalculatesChange ==
    /\ polRec.pc = "recalculateChange"
    /\ RecalculateForPolicyChange(polRec.obj.Spec.TargetSelector)
    /\ PolicyRecalculated
    /\ UNCHANGED <<clusterVars, policyCache, podIndexVars, policies>>

-----------------------------------------------------------------------------
(* Update and Status().Update.                                             *)

\* An object whose status claims the generation already with the finalizer.
DesiredTooEarly ==
    LET obj == [polRec.obj EXCEPT !.ObservedGeneration = polRec.obj.Generation]
    IN  [obj EXCEPT !.Finalizer = polRec.pc # "removeFinalizer"]

\* The Ready condition, with the generation it is about, is replaced only when
\* its status changes.
updateCondition(obj, status) ==
    IF obj.Ready = status THEN obj
    ELSE [obj EXCEPT !.Ready = status, !.ReadyGeneration = obj.Generation]

\* The object the worker sends.
Desired ==
    LET obj == polRec.obj
    IN  CASE polRec.pc = "addFinalizer" -> [obj EXCEPT !.Finalizer = TRUE]
          [] polRec.pc = "removeFinalizer" -> [obj EXCEPT !.Finalizer = FALSE]
          [] polRec.pc = "updateStatus" ->
                 updateCondition(
                     [obj EXCEPT !.ObservedGeneration = obj.Generation], "True")

Writing == polRec.pc \in {"addFinalizer", "removeFinalizer", "updateStatus"}

PolicyWrites ==
    /\ Writing
    /\ UpdateAccepted(polRec.req, polRec.obj)
    /\ StorePolicy(polRec.req, Desired)
    /\ PolicyReturns
    /\ UNCHANGED <<podApiVars, used, policyCache, podIndexVars, policies, cacheVars>>

\* The copy is outdated or the object is gone.
PolicyWriteRejected ==
    /\ Writing
    /\ ~UpdateAccepted(polRec.req, polRec.obj)
    /\ PolicyReturnsError
    /\ UNCHANGED <<clusterVars, policyCache, podIndexVars, policies, cacheVars>>

\* A failed call whose error is logged and not returned.
PolicyWriteFailsSilently ==
    /\ Writing
    /\ SpendFailure
    /\ UNCHANGED policyApiVars
    /\ PolicyReturns
    /\ UNCHANGED <<podApiVars, policyCache, podIndexVars, policies, cacheVars>>

\* The call fails; the write may have been stored all the same.
PolicyWriteFails ==
    /\ Writing
    /\ SpendFailure
    /\ \/ UNCHANGED policyApiVars
       \/ UpdateAccepted(polRec.req, polRec.obj) /\ StorePolicy(polRec.req, Desired)
    /\ PolicyReturnsError
    /\ UNCHANGED <<podApiVars, policyCache, podIndexVars, policies, cacheVars>>

PolicyWorker ==
    \/ PolicyTake
    \/ PolicyGetFails
    \/ PolicyGone
    \/ PolicyFinalize
    \/ PolicyIgnored
    \/ PolicyNeedsFinalizer
    \/ PolicyInvalid
    \/ PolicyUpsert
    \/ PolicyRecalculate
    \/ PolicyCollectsOld
    \/ PolicyRecalculatesChange
    \/ PolicyWrites
    \/ PolicyWriteRejected
    \/ PolicyWriteFails
=============================================================================
