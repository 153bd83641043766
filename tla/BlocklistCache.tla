--------------------------- MODULE BlocklistCache ---------------------------
(***************************************************************************)
(* controller/internal/controller/blocklist_cache.go: the blocked domains  *)
(* per pod IP, computed from the two indexes.                              *)
(*                                                                         *)
(* Every method holds the cache's mutex from start to end and takes the    *)
(* mutex of an index for each read of it.  A method that reads the pod     *)
(* index once is one step: each index has one writer, its reconciler, and  *)
(* a write by the other reconciler after that read has the same effect as  *)
(* the same write after the step, because the entries written depend only  *)
(* on what was read.  RecalculateForPolicyChange reads the pod index twice *)
(* and is two steps, with mu held in between.                              *)
(***************************************************************************)
EXTENDS PodIndex, PolicyIndex

VARIABLES
    entries,        \* IP -> set of blocked domains
    mu,             \* the cache's mutex is held between two steps
    affectedPods    \* IP -> labels, collected while mu is held

cacheVars == <<entries, mu, affectedPods>>

NewBlocklistCache ==
    /\ entries = EmptyMap
    /\ mu = FALSE
    /\ affectedPods = EmptyMap

\* A cache in which the first matching policy wins.
BlockedForFirst(labels) ==
    LET matching == {r \in DOMAIN policies :
                        LabelsContainAll(labels, policies[r].TargetSelector)}
    IN  IF matching = {} THEN {} ELSE policies[CHOOSE r \in matching : TRUE].BlockList

\* The union of the block lists of all policies that select these labels.
\* The code sorts it; a set has no order to lose.
BlockedFor(labels) ==
    UNION {policies[q].BlockList : q \in
        {r \in DOMAIN policies :
            LabelsContainAll(labels, policies[r].TargetSelector)}}

\* recalculatePodInternal for every pod of a batch, a map from IP to labels.
\* An entry is written even when nothing is blocked.
Recalculated(batch) ==
    [ip \in DOMAIN entries \cup DOMAIN batch |->
        IF ip \in DOMAIN batch THEN BlockedFor(batch[ip]) ELSE entries[ip]]

\* The batches a loop over some indexed pods can amount to.  Go ranges over the
\* pods in any order: of several pods on one IP any may be the last, and its
\* labels decide the entry.
BatchesOf(names) ==
    LET found == {pods[n] : n \in names}
    IN  {batch \in [{info.IP : info \in found} ->
                    {info.Labels : info \in found}] :
            \A ip \in DOMAIN batch : [IP |-> ip, Labels |-> batch[ip]] \in found}

BatchesFor(selector) == BatchesOf(GetPodsMatchingSelector(selector))

\* RecalculatePod without bc.mu.Lock().
RecalculatePodUnlocked(n) ==
    /\ entries' = IF n \in DOMAIN pods
                  THEN Recalculated([ip \in {pods[n].IP} |-> pods[n].Labels])
                  ELSE entries
    /\ UNCHANGED <<mu, affectedPods>>

RecalculatePod(n) ==
    /\ ~mu
    /\ entries' = IF n \in DOMAIN pods
                  THEN Recalculated([ip \in {pods[n].IP} |-> pods[n].Labels])
                  ELSE entries
    /\ UNCHANGED <<mu, affectedPods>>

RemovePod(ip) ==
    /\ ~mu
    /\ entries' = Without(entries, {ip})
    /\ UNCHANGED <<mu, affectedPods>>

RecalculateForPolicy(selector) ==
    /\ ~mu
    /\ \E batch \in BatchesFor(selector) : entries' = Recalculated(batch)
    /\ UNCHANGED <<mu, affectedPods>>

\* RecalculateForPolicyChange, first half: lock, collect the pods that match
\* the old selector.
CollectOldSelector(oldSelector) ==
    /\ ~mu
    /\ mu' = TRUE
    /\ affectedPods' \in BatchesFor(oldSelector)
    /\ UNCHANGED entries

\* A second half that forgets the pods that match the new selector.
RecalculateOldSelectorOnly(newSelector) ==
    /\ entries' = Recalculated(affectedPods)
    /\ mu' = FALSE
    /\ affectedPods' = EmptyMap

\* Second half: the pods that match the new selector replace collected ones
\* with the same IP; recalculate them all and unlock.
RecalculateForPolicyChange(newSelector) ==
    /\ \E batch \in BatchesFor(newSelector) :
          entries' = Recalculated(
              [ip \in DOMAIN affectedPods \cup DOMAIN batch |->
                  IF ip \in DOMAIN batch THEN batch[ip] ELSE affectedPods[ip]])
    /\ mu' = FALSE
    /\ affectedPods' = EmptyMap

\* RecalculateAll: every entry is dropped and those of all indexed pods are
\* computed anew.  Nothing calls it today.
RecalculateAll ==
    /\ ~mu
    /\ \E batch \in BatchesOf(DOMAIN pods) :
          entries' = [ip \in DOMAIN batch |-> BlockedFor(batch[ip])]
    /\ UNCHANGED <<mu, affectedPods>>

CacheTypeOK ==
    /\ IsMap(entries, IPs, SUBSET Domains)
    /\ mu \in BOOLEAN
    /\ IsMap(affectedPods, IPs, LabelMaps)

\* What GET /api/policies returns: the entries that block something.
GetBlocklist ==
    Without(entries, {ip \in DOMAIN entries : entries[ip] = {}})
=============================================================================
