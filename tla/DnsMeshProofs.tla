---------------------------- MODULE DnsMeshProofs ----------------------------
(***************************************************************************)
(* The two reconcilers do not lose each other's updates: proofs about what *)
(* the blocklist cache holds, for any number of pods and policies in a     *)
(* cluster where no IP is ever given to two pods.  The first part          *)
(* shows that nothing is blocked too little; the second, that the          *)
(* incremental recalculations amount to a full one, so that nothing is     *)
(* blocked too much either once a recalculation that is due has been done. *)
(*                                                                         *)
(* Then, in any cluster, a graceful stop of the API server cuts no request *)
(* off.  Last, from the first two parts: what the agents are answered is   *)
(* exact, and a controller at rest serves what the objects in the API      *)
(* server ask for.                                                         *)
(***************************************************************************)
EXTENDS PolicyVersionsProofs

\* Most leaves reason about sets, functions and records.  Those that need
\* arithmetic or sequences cite SMT.
USE Zenon

\* While the policy worker has a recalculation of an indexed policy to do, the
\* index holds the spec it fetched.
PolicyBusyIndexed ==
    /\ polRec.pc \in {"recalculate", "collect", "recalculateChange"} =>
           /\ polRec.req \in DOMAIN policies
           /\ policies[polRec.req] = polRec.obj.Spec
    /\ polRec.pc = "recalculate" => polRec.sel = polRec.obj.Spec.TargetSelector

\* Only RecalculateForPolicyChange holds bc.mu across steps.
MuHeld ==
    /\ mu <=> polRec.pc = "recalculateChange"
    /\ ~mu => affectedPods = EmptyMap

\* The inductive part that all results below rest on.
WorkersInv == TypeInv /\ PolicyBusyIndexed /\ MuHeld /\ AffectedCurrent

\* The entry of an indexed pod is what a full recalculation would compute.
Fresh(p) ==
    /\ pods[p].IP \in DOMAIN entries
    /\ entries[pods[p].IP] = BlockedFor(pods[p].Labels)

\* A step leaves the entry of an indexed pod alone.
EntryKept(p) ==
    pods[p].IP \in DOMAIN entries =>
        /\ pods[p].IP \in DOMAIN entries'
        /\ entries'[pods[p].IP] = entries[pods[p].IP]

-----------------------------------------------------------------------------
(* Batches and recalculation.                                              *)

\* An IP leads to at most one indexed pod.
LEMMA IPUnique ==
    ASSUME DisjointIPs, PodIndexTypeOK, NEW m \in DOMAIN pods, NEW n \in DOMAIN pods,
           pods[m].IP = pods[n].IP
    PROVE  m = n
BY DEF DisjointIPs, PodIndexTypeOK, PodInfo

\* GetPodsMatchingSelector and the loop over its result reach every pod that
\* matches, with its labels.
LEMMA BatchCovers ==
    ASSUME DisjointIPs, PodIndexTypeOK, NEW sel, NEW batch \in BatchesFor(sel),
           NEW p \in DOMAIN pods
    PROVE  /\ LabelsContainAll(pods[p].Labels, sel) => pods[p].IP \in DOMAIN batch
           /\ pods[p].IP \in DOMAIN batch => batch[pods[p].IP] = pods[p].Labels
<1> DEFINE found == {pods[n] : n \in GetPodsMatchingSelector(sel)}
           ips == {info.IP : info \in found}
           labels == {info.Labels : info \in found}
<1>1. /\ batch \in [ips -> labels]
      /\ \A ip \in DOMAIN batch : [IP |-> ip, Labels |-> batch[ip]] \in found
  BY DEF BatchesFor, BatchesOf
<1>2. DOMAIN batch = ips
  <2> HIDE DEF ips, labels
  <2> QED  BY <1>1
<1>3. ASSUME LabelsContainAll(pods[p].Labels, sel) PROVE pods[p].IP \in DOMAIN batch
  <2>1. pods[p] \in found
    BY <1>3 DEF GetPodsMatchingSelector
  <2> QED  BY <1>2, <2>1
<1>4. ASSUME pods[p].IP \in DOMAIN batch PROVE batch[pods[p].IP] = pods[p].Labels
  <2> DEFINE info == [IP |-> pods[p].IP, Labels |-> batch[pods[p].IP]]
  <2>1. info \in found
    BY <1>1, <1>4
  <2>2. PICK n \in DOMAIN pods : info = pods[n]
    BY <2>1 DEF GetPodsMatchingSelector
  <2>3. pods[n].IP = pods[p].IP /\ pods[n].Labels = batch[pods[p].IP]
    BY SMT, <2>2
  <2>4. n = p
    BY <2>3, IPUnique
  <2> QED  BY <2>3, <2>4
<1> QED  BY <1>3, <1>4

\* The recalculation of a batch makes the entries of its pods fresh and leaves
\* all others alone.
LEMMA RecalculatedFresh ==
    ASSUME UNCHANGED <<pods, policies>>, NEW batch, entries' = Recalculated(batch),
           NEW p \in DOMAIN pods
    PROVE  /\ /\ pods[p].IP \in DOMAIN batch
              /\ batch[pods[p].IP] = pods[p].Labels
              => Fresh(p)'
           /\ pods[p].IP \notin DOMAIN batch => EntryKept(p)
<1>1. BlockedFor(pods[p].Labels)' = BlockedFor(pods[p].Labels)
  BY DEF BlockedFor
<1>2. entries' = [ip \in DOMAIN entries \cup DOMAIN batch |->
                     IF ip \in DOMAIN batch THEN BlockedFor(batch[ip]) ELSE entries[ip]]
  BY DEF Recalculated
<1>3. ASSUME pods[p].IP \in DOMAIN batch, batch[pods[p].IP] = pods[p].Labels
      PROVE  Fresh(p)'
  BY <1>1, <1>2, <1>3 DEF Fresh
<1>4. ASSUME pods[p].IP \notin DOMAIN batch PROVE EntryKept(p)
  BY SMT, <1>2, <1>4 DEF EntryKept
<1> QED  BY <1>3, <1>4

\* A fresh entry blocks what every indexed policy that selects the pod blocks.
LEMMA FreshBlocks ==
    ASSUME NEW p, NEW q \in DOMAIN policies, Fresh(p), Selects(q, p)
    PROVE  Blocks(q, p)
BY DEF Fresh, Selects, Blocks, BlockedFor

\* RemovePod touches the entry of no pod with another IP.
LEMMA RemoveKeeps ==
    ASSUME NEW p, NEW ip, pods[p].IP # ip, RemovePod(ip) PROVE EntryKept(p)
BY DEF RemovePod, Without, EntryKept

-----------------------------------------------------------------------------
(* What a step of the pod side does to the pods it does not work on, and   *)
(* what a step of the policy side does to the entries.                     *)

\* A pod that the pod worker is not busy with after a step of the pod side was
\* indexed the same before, and its entry is untouched or just recalculated.
LEMMA PodSideStep ==
    ASSUME DisjointIPs, TypeInv, PodSide, UNCHANGED policyCtlVars,
           NEW p \in DOMAIN pods', ~PodBusy(p)'
    PROVE  /\ p \in DOMAIN pods /\ pods'[p] = pods[p]
           /\ \/ ~PodBusy(p) /\ EntryKept(p)
              \/ ~mu /\ Fresh(p)'
<1> DEFINE n == podRec.req
<1>1. PodIndexTypeOK /\ podRec \in PodRecs
  BY DEF TypeInv, TypeOK, PodCtlTypeOK
<1>2. ASSUME p \in DOMAIN pods, p # n, n \in DOMAIN pods
      PROVE  pods[p].IP # pods[n].IP
  BY <1>1, <1>2, IPUnique
<1>3. ASSUME UNCHANGED <<pods, entries>>, ~PodBusy(p)
      PROVE  p \in DOMAIN pods /\ pods'[p] = pods[p] /\ EntryKept(p)
  BY <1>3 DEF EntryKept
<1>4. CASE DeliverPodEvent \/ RelistPods \/ \E m \in PodNames : PodBackoffExpires(m)
  <2>1. UNCHANGED <<podRec, pods, entries>>
    BY <1>4 DEF DeliverPodEvent, RelistPods, PodBackoffExpires, podIndexVars, cacheVars, podCtlVars
  <2>2. ~PodBusy(p)
    BY <2>1 DEF PodBusy
  <2> QED  BY <1>3, <2>1, <2>2
<1>5. CASE PodTake \/ PodGet \/ PodGetFails \/ PodWithoutIP
  <2>1. UNCHANGED <<pods, entries>> /\ ~PodBusy(p)
    BY <1>5 DEF PodTake, PodGet, PodGetFails, PodWithoutIP, podIndexVars, cacheVars, PodBusy
  <2> QED  BY <1>3, <2>1
<1>6. CASE PodGoneRemovesEntry \/ PodRemovesOldEntry
  <2>1. podRec.pc # "idle" /\ UNCHANGED pods /\ ~PodBusy(p)
    BY <1>6 DEF PodGoneRemovesEntry, PodRemovesOldEntry, podIndexVars, PodBusy
  <2>2. podRec'.req = n /\ podRec'.pc \in {"delete", "upsert"}
    BY <1>1, <1>6, <2>1, PodRecParts DEF PodGoneRemovesEntry, PodRemovesOldEntry
  <2>3. p # n
    BY <2>2 DEF PodBusy
  <2>4. CASE n \in DOMAIN pods /\ RemovePod(pods[n].IP)
    BY <1>2, <2>1, <2>3, <2>4, RemoveKeeps
  <2>5. CASE UNCHANGED cacheVars
    BY <1>3, <2>1, <2>5 DEF cacheVars
  <2> QED  BY <1>6, <2>4, <2>5 DEF PodGoneRemovesEntry, PodRemovesOldEntry, PodMoved
<1>7. CASE PodGoneLeavesIndex
  <2>1. n \notin DOMAIN pods'
    BY <1>7 DEF PodGoneLeavesIndex, DeletePod, Without, podIndexVars
  <2>2. p # n
    BY <2>1
  <2>3. p \in DOMAIN pods /\ pods'[p] = pods[p]
    BY <1>7, <2>2 DEF PodGoneLeavesIndex, DeletePod, Without, podIndexVars
  <2>4. ~PodBusy(p) /\ EntryKept(p)
    BY <1>7, <2>2 DEF PodGoneLeavesIndex, PodBusy, EntryKept, cacheVars
  <2> QED  BY <2>3, <2>4
<1>8. CASE PodUpsert
  <2>1. podRec.pc # "idle"
    BY <1>8 DEF PodUpsert
  <2>2. podRec'.req = n /\ podRec'.pc = "recalculate"
    BY <1>1, <1>8, <2>1, PodRecParts DEF PodUpsert
  <2>3. p # n
    BY <2>2 DEF PodBusy
  <2>4. p \in DOMAIN pods /\ pods'[p] = pods[p]
    BY <1>8, <2>3 DEF PodUpsert, UpsertPod, Put
  <2>5. ~PodBusy(p) /\ EntryKept(p)
    BY <1>8, <2>3 DEF PodUpsert, PodBusy, EntryKept, cacheVars
  <2> QED  BY <2>4, <2>5
<1>9. CASE PodRecalculate
  <2>1. /\ UNCHANGED <<pods, policies>> /\ ~mu
        /\ RecalculatePod(n)
    BY <1>9 DEF PodRecalculate, RecalculatePod, podIndexVars
  <2>2. CASE n \notin DOMAIN pods
    <3>1. p # n /\ UNCHANGED entries
      BY <2>1, <2>2 DEF RecalculatePod
    <3>2. ~PodBusy(p)
      BY <3>1 DEF PodBusy
    <3> QED  BY <1>3, <2>1, <3>1, <3>2
  <2>3. CASE n \in DOMAIN pods
    <3> DEFINE batch == [ip \in {pods[n].IP} |-> pods[n].Labels]
    <3>1. entries' = Recalculated(batch)
      BY <2>1, <2>3 DEF RecalculatePod
    <3>2. DOMAIN batch = {pods[n].IP} /\ batch[pods[n].IP] = pods[n].Labels
      OBVIOUS
    <3> HIDE DEF batch
    <3>3. CASE p = n
      BY <2>1, <2>3, <3>1, <3>2, <3>3, RecalculatedFresh
    <3>4. CASE p # n
      <4>1. p \in DOMAIN pods /\ pods[p].IP \notin DOMAIN batch
        BY <1>2, <2>1, <2>3, <3>2, <3>4
      <4>2. EntryKept(p)
        BY <2>1, <3>1, <4>1, RecalculatedFresh
      <4>3. ~PodBusy(p)
        BY <3>4 DEF PodBusy
      <4> QED  BY <2>1, <4>1, <4>2, <4>3
    <3> QED  BY <3>3, <3>4
  <2> QED  BY <2>2, <2>3
<1> QED
  BY <1>4, <1>5, <1>6, <1>7, <1>8, <1>9 DEF PodSide, PodWorker

\* The second half of RecalculateForPolicyChange makes fresh the entries of all
\* pods that it collected or that match the new selector, and no others.
LEMMA ChangeRecalculates ==
    ASSUME DisjointIPs, PodIndexTypeOK, AffectedCurrent, UNCHANGED <<pods, policies>>,
           NEW sel, RecalculateForPolicyChange(sel), NEW p \in DOMAIN pods, ~PodBusy(p)
    PROVE  /\ EntryKept(p) \/ Fresh(p)'
           /\ LabelsContainAll(pods[p].Labels, sel) => Fresh(p)'
           /\ pods[p].IP \in DOMAIN affectedPods => Fresh(p)'
<1> PICK batch \in BatchesFor(sel) :
        entries' = Recalculated(
            [ip \in DOMAIN affectedPods \cup DOMAIN batch |->
                IF ip \in DOMAIN batch THEN batch[ip] ELSE affectedPods[ip]])
  BY DEF RecalculateForPolicyChange
<1> DEFINE all == [ip \in DOMAIN affectedPods \cup DOMAIN batch |->
                      IF ip \in DOMAIN batch THEN batch[ip] ELSE affectedPods[ip]]
           ip == pods[p].IP
<1>1. entries' = Recalculated(all)
  OBVIOUS
<1>2. ip \in DOMAIN batch => batch[ip] = pods[p].Labels
  BY BatchCovers
<1>3. ip \in DOMAIN affectedPods => affectedPods[ip] = pods[p].Labels
  BY DEF AffectedCurrent
<1>4. /\ DOMAIN all = DOMAIN affectedPods \cup DOMAIN batch
      /\ ip \in DOMAIN all => all[ip] = pods[p].Labels
  BY <1>2, <1>3
<1>5. LabelsContainAll(pods[p].Labels, sel) => ip \in DOMAIN batch
  BY BatchCovers
<1> HIDE DEF all
<1>6. ip \in DOMAIN all => Fresh(p)'
  BY <1>1, <1>4, RecalculatedFresh
<1>7. ip \notin DOMAIN all => EntryKept(p)
  BY <1>1, RecalculatedFresh
<1> QED  BY <1>4, <1>5, <1>6, <1>7

\* RecalculateForPolicy makes fresh the entries of all pods that match the
\* selector, and no others.
LEMMA PolicyRecalculates ==
    ASSUME DisjointIPs, PodIndexTypeOK, UNCHANGED <<pods, policies>>,
           NEW sel, RecalculateForPolicy(sel), NEW p \in DOMAIN pods
    PROVE  /\ EntryKept(p) \/ Fresh(p)'
           /\ LabelsContainAll(pods[p].Labels, sel) => Fresh(p)'
<1> PICK batch \in BatchesFor(sel) : entries' = Recalculated(batch)
  BY DEF RecalculateForPolicy
<1>1. /\ LabelsContainAll(pods[p].Labels, sel) => pods[p].IP \in DOMAIN batch
      /\ pods[p].IP \in DOMAIN batch => batch[pods[p].IP] = pods[p].Labels
  BY BatchCovers
<1> QED  BY <1>1, RecalculatedFresh

\* After recalculating, the policy worker writes the status or is done.
LEMMA PolicyRecalculatedPC ==
    ASSUME polRec \in PolRecs, polRec.pc # "idle", PolicyRecalculated
    PROVE  polRec'.pc \in {"updateStatus", "idle"}
BY SMT, PolRecParts, PolicyReturned DEF PolicyRecalculated, IdlePolRec

\* A policy that the policy worker is not busy with after a step of the policy
\* side was indexed the same before; if the worker was busy with it, the
\* entries of the pods it selects have just been recalculated.  No step of the
\* policy side touches an entry other than to recalculate it.
LEMMA PolicySideStep ==
    ASSUME DisjointIPs, WorkersInv, PolicySide, UNCHANGED podCtlVars
    PROVE  /\ \A p \in DOMAIN pods : ~PodBusy(p) => EntryKept(p) \/ Fresh(p)'
           /\ \A q \in DOMAIN policies' :
                  ~PolicyBusy(q)' =>
                      /\ q \in DOMAIN policies /\ policies'[q] = policies[q]
                      /\ PolicyBusy(q) =>
                             \A p \in DOMAIN pods :
                                 ~PodBusy(p) /\ Selects(q, p) => Fresh(p)'
<1>1. PodIndexTypeOK /\ polRec \in PolRecs /\ AffectedCurrent /\ PolicyBusyIndexed
  BY DEF WorkersInv, TypeInv, TypeOK, PolicyCtlTypeOK
<1>2. UNCHANGED pods
  BY PolicySideFrame
<1>3. ASSUME UNCHANGED entries PROVE \A p \in DOMAIN pods : EntryKept(p)
  BY <1>3 DEF EntryKept
<1>4. CASE DeliverPolicyEvent \/ RelistPolicies \/ \E q \in PolicyNames : PolicyBackoffExpires(q)
  <2>1. UNCHANGED <<polRec, policies, entries>>
    BY <1>4 DEF DeliverPolicyEvent, RelistPolicies, PolicyBackoffExpires, cacheVars, policyCtlVars
  <2>2. \A q : PolicyBusy(q)' <=> PolicyBusy(q)
    BY <2>1 DEF PolicyBusy
  <2> QED  BY <1>3, <2>1, <2>2
<1>5. CASE \/ PolicyTake \/ PolicyGetFails \/ PolicyIgnored \/ PolicyNeedsFinalizer
           \/ PolicyInvalid \/ PolicyWrites \/ PolicyWriteRejected \/ PolicyWriteFails
  <2>1. UNCHANGED <<policies, entries>>
    BY <1>5 DEF PolicyTake, PolicyGetFails, PolicyIgnored, PolicyNeedsFinalizer,
                PolicyInvalid, PolicyWrites, PolicyWriteRejected, PolicyWriteFails,
                cacheVars
  <2>2. \A q : ~PolicyBusy(q)
    BY <1>5 DEF PolicyTake, PolicyGetFails, PolicyIgnored, PolicyNeedsFinalizer,
                PolicyInvalid, PolicyWrites, PolicyWriteRejected, PolicyWriteFails,
                Writing, PolicyBusy
  <2> QED  BY <1>3, <2>1, <2>2
<1>6. CASE PolicyGone \/ PolicyFinalize
  <2>1. UNCHANGED entries /\ \A q : ~PolicyBusy(q)
    BY <1>6 DEF PolicyGone, PolicyFinalize, cacheVars, PolicyBusy
  <2>2. \A q \in DOMAIN policies' : q \in DOMAIN policies /\ policies'[q] = policies[q]
    BY SMT, <1>6 DEF PolicyGone, PolicyFinalize, DeletePolicy, Without
  <2> QED  BY <1>3, <2>1, <2>2
<1>7. CASE PolicyUpsert
  <2>1. UNCHANGED entries /\ \A q : ~PolicyBusy(q)
    BY <1>7 DEF PolicyUpsert, cacheVars, PolicyBusy
  <2>2. polRec.pc # "idle"
    BY <1>7 DEF PolicyUpsert
  <2>3. polRec'.req = polRec.req /\ polRec'.pc \in {"collect", "recalculate"}
    BY <1>1, <1>7, <2>2, PolRecParts DEF PolicyUpsert
  <2>4. \A q : q = polRec.req => PolicyBusy(q)'
    BY <2>3 DEF PolicyBusy
  <2>5. \A q \in DOMAIN policies' :
            q # polRec.req => q \in DOMAIN policies /\ policies'[q] = policies[q]
    BY <1>7 DEF PolicyUpsert, UpsertPolicy, Put
  <2> QED  BY <1>3, <2>1, <2>4, <2>5
<1>8. CASE PolicyRecalculate
  <2>1. /\ UNCHANGED policies /\ RecalculateForPolicy(polRec.sel)
    BY <1>8 DEF PolicyRecalculate
  <2>2. \A p \in DOMAIN pods :
            /\ EntryKept(p) \/ Fresh(p)'
            /\ LabelsContainAll(pods[p].Labels, polRec.sel) => Fresh(p)'
    BY <1>1, <1>2, <2>1, PolicyRecalculates
  <2>3. ASSUME NEW q, PolicyBusy(q) PROVE policies[q].TargetSelector = polRec.sel
    BY <1>1, <1>8, <2>3 DEF PolicyBusy, PolicyRecalculate, PolicyBusyIndexed
  <2> QED  BY <2>1, <2>2, <2>3 DEF Selects
<1>9. CASE PolicyCollectsOld
  <2>1. UNCHANGED <<policies, entries>> /\ polRec.pc = "collect"
    BY <1>9 DEF PolicyCollectsOld, CollectOldSelector
  <2>2. polRec'.req = polRec.req /\ polRec'.pc = "recalculateChange"
    BY <1>1, <1>9, <2>1, PolRecParts DEF PolicyCollectsOld
  <2>3. \A q : PolicyBusy(q)' <=> PolicyBusy(q)
    BY <2>1, <2>2 DEF PolicyBusy
  <2> QED  BY <1>3, <2>1, <2>3
<1>10. CASE PolicyRecalculatesChange
  <2> DEFINE sel == polRec.obj.Spec.TargetSelector
  <2>1. UNCHANGED policies /\ RecalculateForPolicyChange(sel)
    BY <1>10 DEF PolicyRecalculatesChange
  <2>2. \A p \in DOMAIN pods : ~PodBusy(p) =>
            /\ EntryKept(p) \/ Fresh(p)'
            /\ LabelsContainAll(pods[p].Labels, sel) => Fresh(p)'
    BY <1>1, <1>2, <2>1, ChangeRecalculates
  <2>3. ASSUME NEW q, PolicyBusy(q) PROVE policies[q].TargetSelector = sel
    BY <1>1, <1>10, <2>3 DEF PolicyBusy, PolicyRecalculatesChange, PolicyBusyIndexed
  <2> QED  BY <2>1, <2>2, <2>3 DEF Selects
<1> QED
  BY <1>4, <1>5, <1>6, <1>7, <1>8, <1>9, <1>10 DEF PolicySide, PolicyWorker

-----------------------------------------------------------------------------
(* The inductive part.                                                     *)

\* The policy worker's copy and the policy index agree while it recalculates.
LEMMA PolicyBusyIndexedStep ==
    ASSUME WorkersInv, PolicySide, UNCHANGED podCtlVars
    PROVE  PolicyBusyIndexed'
<1> USE DEF PolicyBusyIndexed
<1>1. polRec \in PolRecs /\ PolicyBusyIndexed
  BY DEF WorkersInv, TypeInv, TypeOK, PolicyCtlTypeOK
<1>2. CASE DeliverPolicyEvent \/ RelistPolicies \/ \E q \in PolicyNames : PolicyBackoffExpires(q)
  BY <1>1, <1>2 DEF DeliverPolicyEvent, RelistPolicies, PolicyBackoffExpires, policyCtlVars
<1>3. CASE polRec'.pc \notin {"recalculate", "collect", "recalculateChange"}
  BY <1>3
<1>4. CASE PolicyTake
  BY <1>3, <1>4 DEF PolicyTake, IdlePolRec
<1>5. CASE \/ PolicyGetFails \/ PolicyIgnored \/ PolicyInvalid \/ PolicyWrites
           \/ PolicyWriteRejected \/ PolicyWriteFails
  <2>1. polRec' = IdlePolRec
    BY <1>5, PolicyReturned DEF PolicyGetFails, PolicyIgnored, PolicyInvalid,
       PolicyWrites, PolicyWriteRejected, PolicyWriteFails
  <2> QED  BY <1>3, <2>1 DEF IdlePolRec
<1>6. CASE PolicyGone
  <2>1. polRec'.pc \in {"recalculateGone", "idle"}
    BY SMT, <1>1, <1>6, PolicyGonePC DEF IdlePolRec
  <2> QED  BY <1>3, <2>1
<1>7. CASE PolicyFinalize
  <2>1. polRec'.pc \in {"removeFinalizer", "recalculateDeleted"}
    BY SMT, <1>1, <1>7, PolicyFinalizePC
  <2> QED  BY <1>3, <2>1
<1>8. CASE PolicyNeedsFinalizer
  <2>1. polRec'.pc = "addFinalizer"
    BY <1>1, <1>8, PolRecParts DEF PolicyNeedsFinalizer
  <2> QED  BY <1>3, <2>1
<1>9. CASE PolicyUpsert
  <2> DEFINE new == Fetched.Spec.TargetSelector
             old == OldSelector(polRec.req)
             changed == polRec.req \in DOMAIN policies /\ ~selectorsEqual(old, new)
  <2>1. polRec.pc = "get"
    BY <1>9 DEF PolicyUpsert
  <2>2. polRec' = [pc |-> IF changed THEN "collect" ELSE "recalculate",
                   req |-> polRec.req, obj |-> Fetched,
                   sel |-> IF changed THEN old ELSE new]
    BY <1>1, <1>9, <2>1, PolRecParts DEF PolicyUpsert
  <2> HIDE DEF changed, old
  <2>3. policies' = Put(policies, polRec.req, Fetched.Spec)
    BY <1>9 DEF PolicyUpsert, UpsertPolicy
  <2> QED  BY <2>2, <2>3 DEF Put
<1>10. CASE PolicyRecalculate
  <2>1. polRec.pc # "idle"
    BY <1>10 DEF PolicyRecalculate
  <2>2. polRec'.pc \in {"removeFinalizer", "updateStatus", "idle"}
    BY SMT, <1>1, <1>10, <2>1, PolRecParts, PolicyReturned, PolicyRecalculatedPC
    DEF PolicyRecalculate, IdlePolRec
  <2> QED  BY <1>3, <2>2
<1>11. CASE PolicyCollectsOld
  <2>1. polRec.pc = "collect" /\ UNCHANGED policies
    BY <1>11 DEF PolicyCollectsOld
  <2>2. polRec' = [pc |-> "recalculateChange", req |-> polRec.req,
                   obj |-> polRec.obj, sel |-> polRec.sel]
    BY <1>1, <1>11, <2>1, PolRecParts DEF PolicyCollectsOld
  <2> QED  BY <1>1, <2>1, <2>2
<1>12. CASE PolicyRecalculatesChange
  <2>1. polRec'.pc \in {"updateStatus", "idle"}
    BY <1>1, <1>12, PolicyRecalculatedPC DEF PolicyRecalculatesChange
  <2> QED  BY <1>3, <2>1
<1> QED
  BY <1>2, <1>4, <1>5, <1>6, <1>7, <1>8, <1>9, <1>10, <1>11, <1>12
  DEF PolicySide, PolicyWorker

\* bc.mu is held exactly between the two halves of RecalculateForPolicyChange.
LEMMA MuHeldStep ==
    ASSUME WorkersInv, PolicySide, UNCHANGED podCtlVars PROVE MuHeld'
<1> USE DEF MuHeld
<1>1. polRec \in PolRecs /\ MuHeld
  BY DEF WorkersInv, TypeInv, TypeOK, PolicyCtlTypeOK
<1>2. CASE DeliverPolicyEvent \/ RelistPolicies \/ \E q \in PolicyNames : PolicyBackoffExpires(q)
  BY SMT, <1>1, <1>2 DEF DeliverPolicyEvent, RelistPolicies, PolicyBackoffExpires,
                         cacheVars, policyCtlVars
<1>3. ASSUME UNCHANGED <<mu, affectedPods>>, polRec.pc # "recalculateChange",
             polRec'.pc # "recalculateChange"
      PROVE  MuHeld'
  BY <1>1, <1>3
<1>4. CASE PolicyTake
  BY <1>3, <1>4 DEF PolicyTake, IdlePolRec, cacheVars
<1>5. CASE \/ PolicyGetFails \/ PolicyIgnored \/ PolicyInvalid \/ PolicyWrites
           \/ PolicyWriteRejected \/ PolicyWriteFails
  <2>1. polRec' = IdlePolRec
    BY <1>5, PolicyReturned DEF PolicyGetFails, PolicyIgnored, PolicyInvalid,
       PolicyWrites, PolicyWriteRejected, PolicyWriteFails
  <2>2. polRec.pc # "recalculateChange" /\ UNCHANGED <<mu, affectedPods>>
    BY <1>5 DEF PolicyGetFails, PolicyIgnored, PolicyInvalid,
       PolicyWrites, PolicyWriteRejected, PolicyWriteFails, Writing, cacheVars
  <2> QED  BY <1>3, <2>1, <2>2 DEF IdlePolRec
<1>6. CASE PolicyGone \/ PolicyFinalize \/ PolicyNeedsFinalizer \/ PolicyUpsert
  <2>1. polRec.pc = "get" /\ UNCHANGED <<mu, affectedPods>>
    BY <1>6 DEF PolicyGone, PolicyFinalize, PolicyNeedsFinalizer, PolicyUpsert, cacheVars
  <2>2. polRec'.pc # "recalculateChange"
    <3>1. CASE PolicyGone
      BY SMT, <1>1, <3>1, PolicyGonePC DEF IdlePolRec
    <3>2. CASE PolicyFinalize
      BY SMT, <1>1, <3>2, PolicyFinalizePC
    <3>3. CASE PolicyNeedsFinalizer
      BY <1>1, <2>1, <3>3, PolRecParts DEF PolicyNeedsFinalizer
    <3>4. CASE PolicyUpsert
      BY <1>1, <2>1, <3>4, PolRecParts DEF PolicyUpsert
    <3> QED  BY <1>6, <3>1, <3>2, <3>3, <3>4
  <2> QED  BY <1>3, <2>1, <2>2
<1>7. CASE PolicyRecalculate
  <2>1. /\ polRec.pc \in {"recalculateGone", "recalculateDeleted", "recalculate"}
        /\ UNCHANGED <<mu, affectedPods>>
    BY <1>7 DEF PolicyRecalculate, RecalculateForPolicy
  <2>2. polRec'.pc # "recalculateChange"
    BY SMT, <1>1, <1>7, <2>1, PolRecParts, PolicyReturned, PolicyRecalculatedPC
    DEF PolicyRecalculate, IdlePolRec
  <2> QED  BY <1>3, <2>1, <2>2
<1>8. CASE PolicyCollectsOld
  <2>1. mu' = TRUE
    BY <1>8 DEF PolicyCollectsOld, CollectOldSelector
  <2>2. polRec'.pc = "recalculateChange"
    BY <1>1, <1>8, PolRecParts DEF PolicyCollectsOld
  <2> QED  BY <2>1, <2>2
<1>9. CASE PolicyRecalculatesChange
  <2>1. mu' = FALSE /\ affectedPods' = EmptyMap
    BY <1>9 DEF PolicyRecalculatesChange, RecalculateForPolicyChange
  <2>2. polRec'.pc \in {"updateStatus", "idle"}
    BY <1>1, <1>9, PolicyRecalculatedPC DEF PolicyRecalculatesChange
  <2> QED  BY <2>1, <2>2
<1> QED
  BY <1>2, <1>4, <1>5, <1>6, <1>7, <1>8, <1>9 DEF PolicySide, PolicyWorker

\* Nothing is collected when there are no affected pods.
LEMMA NothingAffected ==
    ASSUME affectedPods = EmptyMap PROVE AffectedCurrent
BY DEF AffectedCurrent, EmptyMap

\* What was collected stays current, whoever takes the next step.
LEMMA AffectedCurrentStep ==
    ASSUME DisjointIPs, WorkersInv,
           \/ PodSide /\ UNCHANGED policyCtlVars
           \/ PolicySide /\ UNCHANGED podCtlVars
    PROVE  AffectedCurrent'
<1>1. PodIndexTypeOK /\ AffectedCurrent /\ MuHeld
  BY DEF WorkersInv, TypeInv, TypeOK
<1>2. CASE PodSide /\ UNCHANGED policyCtlVars
  <2> SUFFICES ASSUME NEW p \in DOMAIN pods', pods'[p].IP \in DOMAIN affectedPods',
                      ~PodBusy(p)'
               PROVE  affectedPods'[pods'[p].IP] = pods'[p].Labels
    BY DEF AffectedCurrent
  <2>1. UNCHANGED <<mu, affectedPods>>
    BY <1>2, PodSideFrame
  <2>2. p \in DOMAIN pods /\ pods'[p] = pods[p] /\ (~PodBusy(p) \/ ~mu)
    BY <1>2, PodSideStep DEF WorkersInv
  <2>3. mu
    BY <1>1, <2>1 DEF MuHeld, EmptyMap
  <2> QED  BY <1>1, <2>1, <2>2, <2>3 DEF AffectedCurrent
<1>3. CASE PolicySide /\ UNCHANGED podCtlVars
  <2>1. UNCHANGED <<pods, podRec>>
    BY <1>3, PolicySideFrame
  <2>2. CASE UNCHANGED affectedPods
    BY <1>1, <2>1, <2>2 DEF AffectedCurrent, PodBusy
  <2>3. CASE affectedPods' = EmptyMap
    BY <2>3 DEF AffectedCurrent, EmptyMap
  <2>4. CASE affectedPods' \in BatchesFor(polRec.sel)
    BY <1>1, <2>1, <2>4, BatchCovers DEF AffectedCurrent
  <2> QED
    BY <1>3, <2>2, <2>3, <2>4
    DEF PolicySide, PolicyWorker, DeliverPolicyEvent, RelistPolicies, PolicyBackoffExpires,
        PolicyTake, PolicyGetFails, PolicyGone, PolicyFinalize, PolicyIgnored,
        PolicyNeedsFinalizer, PolicyInvalid, PolicyUpsert, PolicyRecalculate,
        PolicyCollectsOld, PolicyRecalculatesChange, PolicyWrites,
        PolicyWriteRejected, PolicyWriteFails, cacheVars, RecalculateForPolicy,
        CollectOldSelector, RecalculateForPolicyChange
<1> QED  BY <1>2, <1>3

\* A step that is not one of the two sides leaves the workers, the indexes and
\* the cache alone, or empties them all.
LEMMA OtherSteps ==
    ASSUME [Next]_vars
    PROVE  \/ PodSide /\ UNCHANGED policyCtlVars
           \/ PolicySide /\ UNCHANGED podCtlVars
           \/ UNCHANGED <<podRec, polRec, pods, policies, entries, mu, affectedPods>>
           \/ /\ podRec' = IdlePodRec /\ polRec' = IdlePolRec
              /\ pods' = EmptyMap /\ policies' = EmptyMap
              /\ entries' = EmptyMap /\ mu' = FALSE /\ affectedPods' = EmptyMap
BY DEF Next, Restart, vars, podCtlVars, policyCtlVars, podIndexVars, cacheVars

\* The inductive invariant of the two workers holds at the start.
LEMMA WorkersInvInit == Init => WorkersInv
<1> SUFFICES ASSUME Init PROVE WorkersInv
  OBVIOUS
<1>1. TypeInv
  BY TypeInvInit
<1>2. PolicyBusyIndexed
  BY DEF Init, IdlePolRec, PolicyBusyIndexed
<1>3. MuHeld
  BY DEF Init, IdlePolRec, NewBlocklistCache, MuHeld
<1>4. AffectedCurrent
  BY NothingAffected DEF Init, NewBlocklistCache
<1> QED  BY <1>1, <1>2, <1>3, <1>4 DEF WorkersInv

\* Every step preserves the inductive invariant of the two workers.
LEMMA WorkersInvNext ==
    ASSUME DisjointIPs, WorkersInv, [Next]_vars PROVE WorkersInv'
<1>1. TypeInv'
  BY TypeInvNext DEF WorkersInv
<1>2. CASE PodSide /\ UNCHANGED policyCtlVars
  <2>1. UNCHANGED <<policies, mu, affectedPods, polRec>>
    BY <1>2, PodSideFrame
  <2>2. PolicyBusyIndexed' /\ MuHeld'
    BY <2>1 DEF WorkersInv, PolicyBusyIndexed, MuHeld
  <2>3. AffectedCurrent'
    BY <1>2, AffectedCurrentStep
  <2> QED  BY <1>1, <2>2, <2>3 DEF WorkersInv
<1>3. CASE PolicySide /\ UNCHANGED podCtlVars
  BY <1>1, <1>3, PolicyBusyIndexedStep, MuHeldStep, AffectedCurrentStep DEF WorkersInv
<1>4. CASE UNCHANGED <<podRec, polRec, pods, policies, entries, mu, affectedPods>>
  <2>1. PolicyBusyIndexed' /\ MuHeld'
    BY <1>4 DEF WorkersInv, PolicyBusyIndexed, MuHeld
  <2>2. AffectedCurrent'
    BY <1>4 DEF WorkersInv, AffectedCurrent, PodBusy
  <2> QED  BY <1>1, <2>1, <2>2 DEF WorkersInv
<1>5. CASE /\ podRec' = IdlePodRec /\ polRec' = IdlePolRec
           /\ pods' = EmptyMap /\ policies' = EmptyMap
           /\ entries' = EmptyMap /\ mu' = FALSE /\ affectedPods' = EmptyMap
  <2>1. PolicyBusyIndexed' /\ MuHeld'
    BY <1>5 DEF IdlePolRec, PolicyBusyIndexed, MuHeld
  <2>2. AffectedCurrent'
    BY <1>5 DEF AffectedCurrent, EmptyMap
  <2> QED  BY <1>1, <2>1, <2>2 DEF WorkersInv
<1> QED  BY <1>2, <1>3, <1>4, <1>5, OtherSteps

-----------------------------------------------------------------------------
(* The theorems.                                                           *)

\* One step keeps every selected pod blocked that no worker is busy with.
LEMMA MatchedPodsBlockedStep ==
    ASSUME DisjointIPs, WorkersInv, MatchedPodsBlocked, [Next]_vars
    PROVE  MatchedPodsBlocked'
<1> SUFFICES ASSUME NEW p \in DOMAIN pods', NEW q \in DOMAIN policies',
                    Selects(q, p)', ~PodBusy(p)', ~PolicyBusy(q)'
             PROVE  Blocks(q, p)'
  BY DEF MatchedPodsBlocked
<1>1. Fresh(p)' => Blocks(q, p)'
  BY DEF Fresh, Selects, Blocks, BlockedFor
<1>2. ASSUME p \in DOMAIN pods, q \in DOMAIN policies, pods'[p] = pods[p],
             policies'[q] = policies[q], ~PodBusy(p), ~PolicyBusy(q), EntryKept(p)
      PROVE  Blocks(q, p)'
  <2>1. Selects(q, p)
    BY <1>2 DEF Selects
  <2>2. Blocks(q, p)
    BY <1>2, <2>1 DEF MatchedPodsBlocked
  <2> QED  BY <1>2, <2>2 DEF Blocks, EntryKept
<1>3. CASE PodSide /\ UNCHANGED policyCtlVars
  <2>1. UNCHANGED <<policies, polRec>>
    BY <1>3, PodSideFrame
  <2>2. ~PolicyBusy(q)
    BY <2>1 DEF PolicyBusy
  <2>3. /\ p \in DOMAIN pods /\ pods'[p] = pods[p]
        /\ \/ ~PodBusy(p) /\ EntryKept(p)
           \/ Fresh(p)'
    BY <1>3, PodSideStep DEF WorkersInv
  <2> QED  BY <1>1, <1>2, <2>1, <2>2, <2>3
<1>4. CASE PolicySide /\ UNCHANGED podCtlVars
  <2>1. UNCHANGED <<pods, podRec>>
    BY <1>4, PolicySideFrame
  <2>2. p \in DOMAIN pods /\ ~PodBusy(p)
    BY <2>1 DEF PodBusy
  <2>3. q \in DOMAIN policies /\ policies'[q] = policies[q]
    BY <1>4, PolicySideStep
  <2>4. Selects(q, p)
    BY <2>1, <2>3 DEF Selects
  <2>5. CASE PolicyBusy(q)
    BY <1>1, <1>4, <2>2, <2>4, <2>5, PolicySideStep
  <2>6. CASE ~PolicyBusy(q)
    <3>1. EntryKept(p) \/ Fresh(p)'
      BY <1>4, <2>2, PolicySideStep
    <3> QED  BY <1>1, <1>2, <2>1, <2>2, <2>3, <2>6, <3>1
  <2> QED  BY <2>5, <2>6
<1>5. CASE UNCHANGED <<podRec, polRec, pods, policies, entries, mu, affectedPods>>
  BY <1>2, <1>5 DEF PodBusy, PolicyBusy, EntryKept
<1>6. CASE pods' = EmptyMap
  BY <1>6 DEF EmptyMap
<1> QED  BY <1>3, <1>4, <1>5, <1>6, OtherSteps

\* What the workers hold is consistent with the indexes at all times.
LEMMA WorkersInvariant ==
    ASSUME DisjointIPs PROVE Spec => []WorkersInv
BY WorkersInvInit, WorkersInvNext, PTL DEF Spec

\* No lost update between the reconcilers: in every reachable state an indexed
\* pod is blocked by every indexed policy that selects it, except while a
\* worker is between indexing and recalculating it.
THEOREM NoLostUpdate ==
    ASSUME DisjointIPs PROVE Spec => []MatchedPodsBlocked
<1>1. Init => MatchedPodsBlocked
  BY DEF Init, NewPodIndex, EmptyMap, MatchedPodsBlocked
<1>2. WorkersInv /\ MatchedPodsBlocked /\ [Next]_vars => MatchedPodsBlocked'
  BY MatchedPodsBlockedStep
<1> QED  BY <1>1, <1>2, WorkersInvariant, PTL DEF Spec

\* What RecalculateForPolicyChange collected without a lock on the pod index is
\* current when it is used: the labels collected for an IP are those of the
\* indexed pod that has it, or the pod worker is about to recalculate that pod.
THEOREM CollectedPodsCurrent ==
    ASSUME DisjointIPs PROVE Spec => []AffectedCurrent
<1>1. WorkersInv => AffectedCurrent
  BY DEF WorkersInv
<1> QED  BY <1>1, WorkersInvariant, PTL

\* Reconciling never unblocks by the way: no step of either worker takes the
\* domains of a policy out of the entry of a pod it selects while both stay
\* indexed as they are, except the pod worker's own removal.
THEOREM NeverUnblocked ==
    ASSUME DisjointIPs PROVE Spec => NoUnblocking
<1> DEFINE Kept ==
        \A p \in DOMAIN pods \cap DOMAIN pods',
           q \in DOMAIN policies \cap DOMAIN policies' :
            /\ pods'[p] = pods[p] /\ policies'[q] = policies[q]
            /\ Selects(q, p) /\ Blocks(q, p) /\ ~PodBusy(p)'
            => Blocks(q, p)'
<1>1. WorkersInv /\ [Next]_vars => [Kept]_vars
  <2> SUFFICES ASSUME WorkersInv, [Next]_vars,
                      NEW p \in DOMAIN pods \cap DOMAIN pods',
                      NEW q \in DOMAIN policies \cap DOMAIN policies',
                      pods'[p] = pods[p], policies'[q] = policies[q],
                      Selects(q, p), Blocks(q, p), ~PodBusy(p)'
               PROVE  Blocks(q, p)'
    OBVIOUS
  <2>1. Selects(q, p)'
    BY DEF Selects
  <2>2. Fresh(p)' => Blocks(q, p)'
    BY <2>1 DEF Fresh, Selects, Blocks, BlockedFor
  <2>3. EntryKept(p) => Blocks(q, p)'
    BY DEF EntryKept, Blocks
  <2>4. CASE PodSide /\ UNCHANGED policyCtlVars
    BY <2>2, <2>3, <2>4, PodSideStep DEF WorkersInv
  <2>5. CASE PolicySide /\ UNCHANGED podCtlVars
    <3>1. ~PodBusy(p)
      BY <2>5, PolicySideFrame DEF PodBusy
    <3> QED  BY <2>2, <2>3, <2>5, <3>1, PolicySideStep
  <2>6. CASE UNCHANGED <<podRec, polRec, pods, policies, entries, mu, affectedPods>>
    BY <2>3, <2>6 DEF EntryKept
  <2>7. CASE pods' = EmptyMap
    BY <2>7 DEF EmptyMap
  <2> QED  BY <2>4, <2>5, <2>6, <2>7, OtherSteps
<1>2. NoUnblocking <=> [][Kept]_vars
  BY DEF NoUnblocking
<1> HIDE DEF Kept
<1> QED  BY <1>1, <1>2, WorkersInvariant, PTL DEF Spec

-----------------------------------------------------------------------------
(* Changes of the policy index that do not matter to some labels.          *)

\* Dropping a policy that does not select some labels blocks them no less.
LEMMA DeleteUnselected ==
    ASSUME NEW n, DeletePolicy(n), NEW labels, ~LabelsContainAll(labels, OldSelector(n))
    PROVE  BlockedFor(labels)' = BlockedFor(labels)
<1> DEFINE matching == {r \in DOMAIN policies :
                           LabelsContainAll(labels, policies[r].TargetSelector)}
<1>1. n \notin matching
  BY DEF OldSelector
<1>2. \A r : r \in matching' <=> r \in matching
  BY <1>1 DEF DeletePolicy, Without
<1>3. \A r \in matching : policies'[r] = policies[r]
  BY <1>1 DEF DeletePolicy, Without
<1> HIDE DEF matching
<1>4. {policies[r].BlockList : r \in matching}' = {policies[r].BlockList : r \in matching}
  BY <1>2, <1>3
<1> QED  BY <1>4 DEF BlockedFor, matching

\* Indexing a policy that selects some labels neither before nor after it
\* changes nothing for them.
LEMMA UpsertUnselected ==
    ASSUME NEW n, NEW spec, UpsertPolicy(n, spec), NEW labels,
           ~LabelsContainAll(labels, OldSelector(n)),
           ~LabelsContainAll(labels, spec.TargetSelector)
    PROVE  BlockedFor(labels)' = BlockedFor(labels)
<1> DEFINE matching == {r \in DOMAIN policies :
                           LabelsContainAll(labels, policies[r].TargetSelector)}
<1>1. n \notin matching
  BY DEF OldSelector
<1>2. \A r : r \in matching' <=> r \in matching
  BY <1>1 DEF UpsertPolicy, Put
<1>3. \A r \in matching : policies'[r] = policies[r]
  BY <1>1 DEF UpsertPolicy, Put
<1> HIDE DEF matching
<1>4. {policies[r].BlockList : r \in matching}' = {policies[r].BlockList : r \in matching}
  BY <1>2, <1>3
<1> QED  BY <1>4 DEF BlockedFor, matching

\* A selector without pairs selects nothing.
LEMMA EmptySelectsNothing ==
    ASSUME NEW labels, NEW sel, DOMAIN sel = {} PROVE ~LabelsContainAll(labels, sel)
BY DEF LabelsContainAll

\* When Upsert goes on as for an unchanged selector, the old one was nil or is
\* the new one.
LEMMA UnchangedSelector ==
    ASSUME PolicyIndexTypeOK, PolicyCtlTypeOK, polRec.req \in PolicyNames,
           selectorsEqual(OldSelector(polRec.req), Fetched.Spec.TargetSelector)
    PROVE  OldSelector(polRec.req) = Fetched.Spec.TargetSelector
<1>1. OldSelector(polRec.req) \in LabelMaps
  BY SpecParts, EmptyMapIsLabels DEF OldSelector, PolicyIndexTypeOK
<1>2. Fetched \in DnsPolicy(polRec.req)
  BY DEF Fetched, PolicyCtlTypeOK
<1>3. Fetched.Spec \in SpecsOf[polRec.req] \cup {NoSpec}
  BY <1>2 DEF DnsPolicy
<1>4. Fetched.Spec.TargetSelector \in LabelMaps
  BY <1>3, SpecParts
<1> QED  BY <1>1, <1>4, EqualMaps DEF selectorsEqual, labelsEqual

-----------------------------------------------------------------------------
(* One step.                                                               *)

\* The policy side recalculates the entries of all pods to whose labels its
\* change of the policy index matters.
LEMMA EntriesPolicyStep ==
    ASSUME DisjointIPs, FixedSelectors, WorkersInv, EntriesExact,
           PolicySide, UNCHANGED podCtlVars
    PROVE  EntriesExact'
<1> SUFFICES ASSUME NEW p \in DOMAIN pods', ~PodBusy(p)',
                    ~RecalculationDue(pods[p].Labels)',
                    pods'[p].IP \notin DOMAIN affectedPods'
             PROVE  Fresh(p)'
  BY DEF EntriesExact, Fresh
<1> DEFINE n == polRec.req
<1>0. PICK labels : labels = pods[p].Labels
  OBVIOUS
<1>1. UNCHANGED <<pods, podRec>> /\ pods[p].Labels = labels /\ pods'[p].Labels = labels
  BY <1>0, PolicySideFrame
<1>2. /\ p \in DOMAIN pods /\ ~PodBusy(p) /\ pods[p].IP \notin DOMAIN affectedPods'
      /\ ~RecalculationDue(labels)'
  BY <1>1 DEF PodBusy, RecalculationDue
<1>3. /\ polRec \in PolRecs /\ PolicyCtlTypeOK /\ PolicyIndexTypeOK /\ PodIndexTypeOK
      /\ AffectedCurrent /\ MuHeld
  BY DEF WorkersInv, TypeInv, TypeOK, PolicyCtlTypeOK
<1>4. ~RecalculationDue(labels) /\ pods[p].IP \notin DOMAIN affectedPods => Fresh(p)
  BY <1>1, <1>2 DEF EntriesExact, Fresh
<1>5. ASSUME Fresh(p), EntryKept(p), BlockedFor(labels)' = BlockedFor(labels)
      PROVE  Fresh(p)'
  BY <1>1, <1>5 DEF Fresh, EntryKept
<1>6. UNCHANGED policies => BlockedFor(labels)' = BlockedFor(labels)
  BY <1>1 DEF BlockedFor
<1>7. UNCHANGED entries => EntryKept(p)
  BY DEF EntryKept
<1>8. polRec.pc # "recalculateChange" => pods[p].IP \notin DOMAIN affectedPods
  BY <1>3 DEF MuHeld, EmptyMap
<1>9. polRec.pc \in {"idle", "get", "addFinalizer", "removeFinalizer", "updateStatus"} =>
          Fresh(p)
  BY <1>4, <1>8 DEF RecalculationDue
<1>10. CASE DeliverPolicyEvent \/ RelistPolicies
            \/ \E q \in PolicyNames : PolicyBackoffExpires(q)
  <2>1. UNCHANGED <<polRec, policies, entries, affectedPods>>
    BY <1>10 DEF DeliverPolicyEvent, RelistPolicies, PolicyBackoffExpires, cacheVars,
                 policyCtlVars
  <2>2. ~RecalculationDue(labels)
    BY <1>2, <2>1 DEF RecalculationDue
  <2> QED  BY <1>2, <1>4, <1>5, <1>6, <1>7, <2>1, <2>2
<1>11. CASE \/ PolicyTake \/ PolicyGetFails \/ PolicyIgnored \/ PolicyNeedsFinalizer
            \/ PolicyInvalid \/ PolicyWrites \/ PolicyWriteRejected \/ PolicyWriteFails
  <2>1. UNCHANGED <<policies, entries>>
    BY <1>11 DEF PolicyTake, PolicyGetFails, PolicyIgnored, PolicyNeedsFinalizer,
                 PolicyInvalid, PolicyWrites, PolicyWriteRejected, PolicyWriteFails,
                 cacheVars
  <2>2. polRec.pc \in {"idle", "get", "addFinalizer", "removeFinalizer", "updateStatus"}
    BY <1>11 DEF PolicyTake, PolicyGetFails, PolicyIgnored, PolicyNeedsFinalizer,
                 PolicyInvalid, PolicyWrites, PolicyWriteRejected, PolicyWriteFails, Writing
  <2> QED  BY <1>5, <1>6, <1>7, <1>9, <2>1, <2>2
<1>12. CASE PolicyGone
  <2>1. UNCHANGED entries /\ polRec.pc = "get" /\ DeletePolicy(n)
    BY <1>12 DEF PolicyGone, cacheVars
  <2>2. ~LabelsContainAll(labels, OldSelector(n))
    BY SMT, <1>2, <1>3, <1>12, PolicyGonePC, EmptySelectsNothing DEF RecalculationDue
  <2>3. BlockedFor(labels)' = BlockedFor(labels)
    BY <2>1, <2>2, DeleteUnselected
  <2> QED  BY <1>5, <1>7, <1>9, <2>1, <2>3
<1>13. CASE PolicyFinalize
  <2> DEFINE sel == Fetched.Spec.TargetSelector
  <2>1. UNCHANGED entries /\ polRec.pc = "get" /\ DeletePolicy(n)
    BY <1>13 DEF PolicyFinalize, cacheVars
  <2>2. ~LabelsContainAll(labels, sel)
    <3>1. /\ polRec'.sel = sel
          /\ DOMAIN sel # {} => polRec'.pc = "recalculateDeleted"
      <4> DEFINE pc == IF DOMAIN sel = {} THEN "removeFinalizer" ELSE "recalculateDeleted"
      <4>1. polRec' = [pc |-> pc, req |-> n, obj |-> Fetched, sel |-> sel]
        BY <1>3, <1>13, PolicyFinalizePC
      <4>2. polRec'.sel = sel /\ polRec'.pc = pc
        <5> HIDE DEF pc, sel
        <5> QED  BY <4>1
      <4> QED  BY <4>2
    <3> QED  BY <1>2, <3>1, EmptySelectsNothing DEF RecalculationDue
  <2>3. Fetched \in DnsPolicy(n)
    BY <1>3, <2>1, PolRecParts DEF Fetched, PolicyCtlTypeOK
  <2>4. n \in DeletablePolicies /\ Fetched.Spec \in SpecsOf[n]
    BY <1>13, <2>3 DEF PolicyFinalize, DnsPolicy
  <2>5. n \in DOMAIN policies => OldSelector(n) = sel
    BY <1>3, <2>4 DEF OldSelector, PolicyIndexTypeOK, FixedSelectors
  <2>6. n \notin DOMAIN policies => DOMAIN OldSelector(n) = {}
    BY DEF OldSelector, EmptyMap
  <2>7. ~LabelsContainAll(labels, OldSelector(n))
    BY <2>2, <2>5, <2>6, EmptySelectsNothing
  <2>8. BlockedFor(labels)' = BlockedFor(labels)
    BY <2>1, <2>7, DeleteUnselected
  <2> QED  BY <1>5, <1>7, <1>9, <2>1, <2>8
<1>14. CASE PolicyUpsert
  <2> DEFINE new == Fetched.Spec.TargetSelector
             old == OldSelector(n)
             changed == n \in DOMAIN policies /\ ~selectorsEqual(old, new)
  <2>1. UNCHANGED entries /\ polRec.pc = "get" /\ UpsertPolicy(n, Fetched.Spec)
    BY <1>14 DEF PolicyUpsert, cacheVars
  <2>2. polRec' = [pc |-> IF changed THEN "collect" ELSE "recalculate",
                   req |-> n, obj |-> Fetched, sel |-> IF changed THEN old ELSE new]
    BY <1>3, <1>14, <2>1, PolRecParts DEF PolicyUpsert
  <2>3. n \in PolicyNames
    BY <1>3, <2>1, PolRecParts
  <2>4. n \notin DOMAIN policies => DOMAIN old = {}
    BY DEF OldSelector, EmptyMap
  <2>5. n \in DOMAIN policies /\ ~changed => old = new
    BY <1>3, <2>3, UnchangedSelector
  <2> HIDE DEF old, changed
  <2>6. ~LabelsContainAll(labels, new) /\ (changed => ~LabelsContainAll(labels, old))
    BY <1>2, <2>2 DEF RecalculationDue
  <2>7. ~changed => ~LabelsContainAll(labels, old)
    BY <2>4, <2>5, <2>6, EmptySelectsNothing
  <2>8. BlockedFor(labels)' = BlockedFor(labels)
    BY <2>1, <2>6, <2>7, UpsertUnselected DEF old
  <2> QED  BY <1>5, <1>7, <1>9, <2>1, <2>8
<1>15. CASE PolicyRecalculate
  <2>1. /\ UNCHANGED policies /\ RecalculateForPolicy(polRec.sel)
        /\ polRec.pc \in {"recalculateGone", "recalculateDeleted", "recalculate"}
    BY <1>15 DEF PolicyRecalculate
  <2>2. /\ EntryKept(p) \/ Fresh(p)'
        /\ LabelsContainAll(labels, polRec.sel) => Fresh(p)'
    BY <1>1, <1>2, <1>3, <2>1, PolicyRecalculates
  <2>3. ~LabelsContainAll(labels, polRec.sel) => ~RecalculationDue(labels)
    BY <2>1 DEF RecalculationDue
  <2> QED  BY <1>4, <1>5, <1>6, <1>8, <2>1, <2>2, <2>3
<1>16. CASE PolicyCollectsOld
  <2>1. /\ UNCHANGED <<policies, entries>> /\ polRec.pc = "collect"
        /\ affectedPods' \in BatchesFor(polRec.sel)
    BY <1>16 DEF PolicyCollectsOld, CollectOldSelector
  <2>2. ~LabelsContainAll(labels, polRec.sel)
    BY <1>1, <1>2, <1>3, <2>1, BatchCovers
  <2>3. polRec'.obj = polRec.obj /\ polRec'.pc = "recalculateChange"
    BY <1>3, <1>16, <2>1, PolRecParts DEF PolicyCollectsOld
  <2>4. ~RecalculationDue(labels)
    BY <1>2, <2>1, <2>2, <2>3 DEF RecalculationDue
  <2> QED  BY <1>4, <1>5, <1>6, <1>7, <1>8, <2>1, <2>4
<1>17. CASE PolicyRecalculatesChange
  <2> DEFINE sel == polRec.obj.Spec.TargetSelector
  <2>1. UNCHANGED policies /\ RecalculateForPolicyChange(sel) /\ polRec.pc = "recalculateChange"
    BY <1>17 DEF PolicyRecalculatesChange
  <2>2. /\ EntryKept(p) \/ Fresh(p)'
        /\ LabelsContainAll(labels, sel) => Fresh(p)'
        /\ pods[p].IP \in DOMAIN affectedPods => Fresh(p)'
    BY <1>1, <1>2, <1>3, <2>1, ChangeRecalculates
  <2>3. ~LabelsContainAll(labels, sel) => ~RecalculationDue(labels)
    BY <2>1 DEF RecalculationDue
  <2> QED  BY <1>4, <1>5, <1>6, <2>1, <2>2, <2>3
<1> QED
  BY <1>10, <1>11, <1>12, <1>13, <1>14, <1>15, <1>16, <1>17 DEF PolicySide, PolicyWorker

\* The pod side keeps the entries of the pods it is not busy with exact.
LEMMA EntriesPodStep ==
    ASSUME DisjointIPs, WorkersInv, EntriesExact, PodSide, UNCHANGED policyCtlVars
    PROVE  EntriesExact'
<1> SUFFICES ASSUME NEW p \in DOMAIN pods', ~PodBusy(p)',
                    ~RecalculationDue(pods[p].Labels)',
                    pods'[p].IP \notin DOMAIN affectedPods'
             PROVE  Fresh(p)'
  BY DEF EntriesExact, Fresh
<1>1. UNCHANGED <<policies, mu, affectedPods, polRec>>
  BY PodSideFrame
<1>2. /\ p \in DOMAIN pods /\ pods'[p] = pods[p]
      /\ (~PodBusy(p) /\ EntryKept(p)) \/ Fresh(p)'
  BY PodSideStep DEF WorkersInv
<1>3. ~RecalculationDue(pods[p].Labels) /\ pods[p].IP \notin DOMAIN affectedPods
  BY <1>1, <1>2 DEF RecalculationDue
<1>4. ~PodBusy(p) => Fresh(p)
  BY <1>2, <1>3 DEF EntriesExact, Fresh
<1>5. BlockedFor(pods[p].Labels)' = BlockedFor(pods[p].Labels)
  BY <1>1, <1>2 DEF BlockedFor
<1> QED  BY <1>2, <1>4, <1>5 DEF Fresh, EntryKept

-----------------------------------------------------------------------------
(* The theorem.                                                            *)

\* The incremental recalculations amount to a full one: in every reachable
\* state the entry of an indexed pod is exactly what the indexed policies that
\* select it block, unless a recalculation of it is under way, provided that no
\* two pods are given the same IP and that the selector of a policy that may be
\* deleted is never edited.
THEOREM EntriesAlwaysExact ==
    ASSUME DisjointIPs, FixedSelectors PROVE Spec => []EntriesExact
<1> DEFINE Inv == WorkersInv /\ EntriesExact
<1>1. Init => Inv
  <2>1. Init => EntriesExact
    BY DEF Init, NewPodIndex, EmptyMap, EntriesExact
  <2> QED  BY <2>1, WorkersInvInit
<1>2. Inv /\ [Next]_vars => Inv'
  <2> SUFFICES ASSUME WorkersInv, EntriesExact, [Next]_vars
               PROVE  WorkersInv' /\ EntriesExact'
    OBVIOUS
  <2>1. WorkersInv'
    BY WorkersInvNext
  <2>2. CASE UNCHANGED <<podRec, polRec, pods, policies, entries, mu, affectedPods>>
    <3>1. \A labels : BlockedFor(labels)' = BlockedFor(labels)
      BY <2>2 DEF BlockedFor
    <3>2. EntriesExact'
      BY <2>2, <3>1 DEF EntriesExact, PodBusy, RecalculationDue
    <3> QED  BY <2>1, <3>2
  <2>3. CASE pods' = EmptyMap
    <3>1. EntriesExact'
      BY <2>3 DEF EmptyMap, EntriesExact
    <3> QED  BY <2>1, <3>1
  <2> QED  BY <2>1, <2>2, <2>3, EntriesPolicyStep, EntriesPodStep, OtherSteps
<1>3. Inv => EntriesExact
  OBVIOUS
<1> HIDE DEF Inv
<1> QED  BY <1>1, <1>2, <1>3, PTL DEF Spec

-----------------------------------------------------------------------------
(* Start and Shutdown.                                                     *)

\* After Shutdown has begun no request is accepted, it has succeeded only with
\* none left, and the process exits only after it.
StopInv ==
    /\ shutdown # "no" => listener # "open"
    /\ shutdown = "done" => active = {}
    /\ process = "exited" => shutdown \in {"done", "deadline"}

\* The server starts like this.
LEMMA StopInvInit == ControllerInit => StopInv
BY DEF ControllerInit, NewHTTPServer, StopInv

\* It stays so, also when the signal comes before the goroutine of Start
\* listens.
LEMMA StopInvNext == StopInv /\ [ControllerNext]_controllerVars => StopInv'
<1> SUFFICES ASSUME StopInv, [ControllerNext]_controllerVars PROVE StopInv'
  OBVIOUS
<1> USE DEF StopInv, serverVars, Running
<1>1. CASE MeshStep
  BY <1>1 DEF MeshStep, apiServerVars
<1>2. CASE ServerListens
  BY <1>2 DEF ServerListens, Listens
<1>3. CASE ServerCannotListen
  BY <1>3 DEF ServerCannotListen, ListenError
<1>4. CASE Signal
  BY <1>4 DEF Signal
<1>5. CASE StartShutsDown
  BY <1>5 DEF StartShutsDown, ShutdownBegins, ShutdownEnds, ShutdownExpires
<1>6. CASE Exit
  BY <1>6 DEF Exit
<1>7. CASE Crash
  BY <1>7 DEF Crash
<1>8. CASE StartAgain
  BY <1>8 DEF StartAgain
<1>9. ASSUME NEW a \in Agents, Serve(a) PROVE StopInv'
  BY <1>9 DEF Serve, Ask, handleGetBlocklist, SendBlocklist, SendFails, AnswerOther,
              Accepts, Answers
<1>10. CASE UNCHANGED controllerVars
  BY <1>10 DEF controllerVars, apiServerVars
<1> QED
  BY <1>1, <1>2, <1>3, <1>4, <1>5, <1>6, <1>7, <1>8, <1>9, <1>10 DEF ControllerNext

\* A stop of the controller is graceful for any number of agents: when Start
\* and main have returned, no request is left unanswered, unless the deadline
\* given to Shutdown has passed.
THEOREM NeverCutOff == ControllerSpec => []NoRequestCutOff
<1>1. StopInv => NoRequestCutOff
  BY DEF StopInv, NoRequestCutOff
<1> QED  BY <1>1, StopInvInit, StopInvNext, PTL DEF ControllerSpec

-----------------------------------------------------------------------------
(* GET /api/policies.                                                      *)

\* Every agent has a place for its answer.
ReplyInv == reply = [a \in Agents |-> reply[a]]

\* It keeps it.
LEMMA ReplyInvNext == ReplyInv /\ [ControllerNext]_controllerVars => ReplyInv'
<1> SUFFICES ASSUME ReplyInv, [ControllerNext]_controllerVars PROVE ReplyInv'
  OBVIOUS
<1>1. CASE UNCHANGED reply
  BY <1>1 DEF ReplyInv
<1>2. CASE StartAgain
  BY <1>2 DEF StartAgain, ReplyInv
<1>3. ASSUME NEW a \in Agents, NEW v, reply' = [reply EXCEPT ![a] = v] PROVE ReplyInv'
  BY <1>3 DEF ReplyInv
<1>4. UNCHANGED reply \/ StartAgain
      \/ \E a \in Agents : \E v : reply' = [reply EXCEPT ![a] = v]
  BY DEF ControllerNext, MeshStep, ServerListens, ServerCannotListen, Signal, StartShutsDown,
         Exit, Crash, Serve, Ask, handleGetBlocklist, SendBlocklist, SendFails, AnswerOther,
         controllerVars, apiServerVars
<1> QED  BY <1>1, <1>2, <1>3, <1>4

\* A blocklist that appears is the one just read from the cache.
LEMMA RepliesAreRead ==
    ASSUME ReplyInv, [ControllerNext]_controllerVars, NEW a \in Agents,
           reply'[a] # reply[a], reply'[a] # NoAnswer
    PROVE  reply'[a] = GetBlocklist
<1>1. CASE UNCHANGED reply
  BY <1>1
<1>2. CASE StartAgain
  BY <1>2 DEF StartAgain
<1>3. ASSUME NEW b \in Agents, handleGetBlocklist(b) PROVE reply'[a] = GetBlocklist
  BY <1>3 DEF handleGetBlocklist, ReplyInv
<1>4. ASSUME NEW b \in Agents, SendBlocklist(b) \/ SendFails(b) PROVE FALSE
  BY <1>4 DEF SendBlocklist, SendFails, ReplyInv
<1>5. UNCHANGED reply \/ StartAgain
      \/ \E b \in Agents : handleGetBlocklist(b) \/ SendBlocklist(b) \/ SendFails(b)
  BY DEF ControllerNext, MeshStep, ServerListens, ServerCannotListen, Signal, StartShutsDown,
         Exit, Crash, Serve, Ask, AnswerOther, controllerVars, apiServerVars
<1> QED  BY <1>1, <1>2, <1>3, <1>4, <1>5

\* What GET /api/policies hands to an agent is exact, with any number of
\* agents, pods and policies and at any point of the reconcilers' work,
\* provided that no IP is ever given to two pods and that the selector of a
\* policy that may be deleted is never edited.
THEOREM AnswersAlwaysExact ==
    ASSUME DisjointIPs, FixedSelectors PROVE ControllerSpec => AnswersExact
<1> DEFINE Exact ==
        \A a \in Agents :
           reply'[a] # reply[a] /\ reply'[a] # NoAnswer =>
               \A p \in DOMAIN pods :
                   LET blocked == BlockedFor(pods[p].Labels)
                   IN  \/ PodBusy(p)
                       \/ RecalculationDue(pods[p].Labels)
                       \/ pods[p].IP \in DOMAIN affectedPods
                       \/ /\ pods[p].IP \in DOMAIN reply'[a] <=> blocked # {}
                          /\ blocked # {} => reply'[a][pods[p].IP] = blocked
<1>1. ControllerSpec => []EntriesExact
  BY ControllerIsMesh, EntriesAlwaysExact, PTL
<1>2. ControllerInit => ReplyInv
  BY DEF ControllerInit, ReplyInv
<1>3. EntriesExact /\ ReplyInv /\ [ControllerNext]_controllerVars => [Exact]_controllerVars
  <2> SUFFICES ASSUME EntriesExact, ReplyInv, [ControllerNext]_controllerVars,
                      NEW a \in Agents, reply'[a] # reply[a], reply'[a] # NoAnswer,
                      NEW p \in DOMAIN pods, ~PodBusy(p),
                      ~RecalculationDue(pods[p].Labels), pods[p].IP \notin DOMAIN affectedPods
               PROVE  /\ pods[p].IP \in DOMAIN reply'[a] <=> BlockedFor(pods[p].Labels) # {}
                      /\ BlockedFor(pods[p].Labels) # {} =>
                             reply'[a][pods[p].IP] = BlockedFor(pods[p].Labels)
    OBVIOUS
  <2>1. reply'[a] = GetBlocklist
    BY RepliesAreRead
  <2>2. pods[p].IP \in DOMAIN entries /\ entries[pods[p].IP] = BlockedFor(pods[p].Labels)
    BY DEF EntriesExact
  <2> QED  BY <2>1, <2>2 DEF GetBlocklist, Without
<1>4. AnswersExact <=> [][Exact]_controllerVars
  BY DEF AnswersExact
<1> HIDE DEF Exact
<1> QED  BY <1>1, <1>2, <1>3, <1>4, ReplyInvNext, PTL DEF ControllerSpec

-----------------------------------------------------------------------------
(* A controller at rest.                                                   *)

\* A controller with nothing left to do has caught up: the indexes are what
\* the API server has, and GetBlocklist blocks for an indexed pod what every
\* policy that selects it blocks, provided that no IP is ever given to two pods.
THEOREM RestingCaughtUp ==
    ASSUME DisjointIPs PROVE Spec => []QuietMeansCaughtUp
<1>1. (Quiet => IndexesCaughtUp) /\ MatchedPodsBlocked => QuietMeansCaughtUp
  <2> SUFFICES ASSUME IndexesCaughtUp, MatchedPodsBlocked, Quiet PROVE CaughtUp
    BY DEF QuietMeansCaughtUp
  <2>1. \A p, q : ~PodBusy(p) /\ ~PolicyBusy(q)
    BY DEF Quiet, PodBusy, PolicyBusy
  <2>2. \A p \in DOMAIN pods, q \in DOMAIN policies : Selects(q, p) => Blocks(q, p)
    BY <2>1 DEF MatchedPodsBlocked
  <2>3. ASSUME NEW p \in DOMAIN pods, NEW q \in DOMAIN policies, Selects(q, p),
               policies[q].BlockList # {}
        PROVE  /\ pods[p].IP \in DOMAIN GetBlocklist
               /\ policies[q].BlockList \subseteq GetBlocklist[pods[p].IP]
    <3>1. /\ pods[p].IP \in DOMAIN entries
          /\ policies[q].BlockList \subseteq entries[pods[p].IP]
      BY <2>2, <2>3 DEF Blocks
    <3>2. entries[pods[p].IP] # {}
      BY <2>3, <3>1
    <3> QED  BY <3>1, <3>2 DEF GetBlocklist, Without
  <2> QED  BY <2>3 DEF CaughtUp
<1> QED  BY <1>1, RestingIndexes, NoLostUpdate, PTL

\* End to end: a controller with nothing left to do serves for the IP of a
\* running pod exactly what the policies in the API server that select it
\* block, and nothing of a deleted policy, an old selector or old labels is
\* left, provided that no IP is ever given to two pods and that the selector
\* of a policy that may be deleted is never edited.
THEOREM RestingExact ==
    ASSUME DisjointIPs, FixedSelectors PROVE Spec => []QuietMeansExact
<1>1. ASSUME VersionInv, PodsInv, PoliciesInv, PodsTracked, WorkersInv, EntriesExact, Quiet
      PROVE  QuietMeansExact
  <2>1. /\ IndexesCaughtUp
        /\ DOMAIN policies =
               {q \in PolicyNames : apiPolicies[q].exists /\ ~apiPolicies[q].Deleting}
        /\ \A q \in DOMAIN policies : policies[q] = apiPolicies[q].Spec
    BY <1>1, QuietIndexes
  <2>2. podRec.pc = "idle" /\ polRec.pc = "idle" /\ affectedPods = EmptyMap
    BY <1>1 DEF Quiet, WorkersInv, MuHeld
  <2>3. ASSUME NEW p \in DOMAIN pods
        PROVE  /\ pods[p].IP \in DOMAIN entries
               /\ entries[pods[p].IP] = BlockedFor(pods[p].Labels)
    BY <1>1, <2>2 DEF EntriesExact, PodBusy, RecalculationDue, EmptyMap
  <2>4. ASSUME NEW p \in PodNames, apiPods[p].Phase = "Running"
        PROVE  LET ip == apiPods[p].IP
               IN  /\ ip \in DOMAIN GetBlocklist <=> Demanded(p) # {}
                   /\ Demanded(p) # {} => GetBlocklist[ip] = Demanded(p)
    <3>1. p \in DOMAIN pods /\ pods[p].IP = apiPods[p].IP /\ pods[p].Labels = apiPods[p].Labels
      <4>1. /\ p \in DOMAIN pods
            /\ pods[p] = [IP |-> apiPods[p].IP, Labels |-> apiPods[p].Labels]
        BY <2>1, <2>4 DEF IndexesCaughtUp
      <4> QED  BY SMT, <4>1
    <3>2. BlockedFor(apiPods[p].Labels) = Demanded(p)
      <4> DEFINE labels == apiPods[p].Labels
                 A == {r \in DOMAIN policies :
                          LabelsContainAll(labels, policies[r].TargetSelector)}
                 B == {r \in PolicyNames :
                          /\ apiPolicies[r].exists /\ ~apiPolicies[r].Deleting
                          /\ LabelsContainAll(labels, apiPolicies[r].Spec.TargetSelector)}
      <4>1. A = B /\ \A q \in A : policies[q].BlockList = apiPolicies[q].Spec.BlockList
        BY <2>1
      <4>2. /\ BlockedFor(labels) = UNION {policies[q].BlockList : q \in A}
            /\ Demanded(p) = UNION {apiPolicies[q].Spec.BlockList : q \in B}
        BY DEF BlockedFor, Demanded
      <4> HIDE DEF A, B
      <4> QED  BY SMT, <4>1, <4>2
    <3>3. apiPods[p].IP \in DOMAIN entries /\ entries[apiPods[p].IP] = Demanded(p)
      BY <2>3, <3>1, <3>2
    <3> QED  BY <3>3 DEF GetBlocklist, Without
  <2> QED  BY <2>4 DEF QuietMeansExact
<1>2. VersionInv /\ PodsInv /\ PoliciesInv /\ PodsTracked /\ WorkersInv /\ EntriesExact =>
          QuietMeansExact
  BY <1>1 DEF QuietMeansExact
<1> QED
  BY <1>2, VersionInit, VersionNext, InStepInit, InStepNext, PodsAlwaysTracked,
     WorkersInvariant, EntriesAlwaysExact, PTL
  DEF Spec

\* The same in the process that serves the agents, whenever it was stopped,
\* died or was started again before.
THEOREM ControllerRestsExact ==
    ASSUME DisjointIPs, FixedSelectors PROVE ControllerSpec => []QuietMeansExact
BY ControllerIsMesh, RestingExact, PTL
=============================================================================
