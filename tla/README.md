# dns-mesh-controller in TLA+

The controller keeps, for every pod IP, the set of DNS domains that the
`DnsPolicy` objects of the cluster block for it, and serves that map to the
node agents. This directory holds a TLA+ model of it, the TLC configurations
that check the model on small instances, and proofs checked by TLAPS.

## The system

Two processes run in the cluster. The controller watches pods and policies and
keeps the blocklist; the mutating webhook sends the pods of annotated
Deployments to the DNS service of the mesh. They share no state.

| Part | Code | State | Operations | Module |
|---|---|---|---|---|
| Pod index | `pod_index.go` | `pods`, `ipToPod` | Upsert, Delete, Get, GetAll, GetPodsMatchingSelector | `PodIndex` |
| Policy index | `policy_index.go` | `policies` | Upsert (returns the old selector), Delete, Get, GetAll | `PolicyIndex` |
| Blocklist cache | `blocklist_cache.go` | `entries`, `mu` | RecalculatePod, RemovePod, RecalculateForPolicy, RecalculateForPolicyChange, RecalculateAll, GetBlocklist | `BlocklistCache`, `CacheOperations` |
| The same three with their mutexes | | `lock`, one call per goroutine | every lock, read and write | `CacheThreads` |
| Pod reconciler | `pod_controller.go` | worker, queue, informer copy | Reconcile, event filter | `PodController` |
| Policy reconciler | `dnspolicy_controller.go` | worker, queue, informer copy | Reconcile, finalizer, status | `DnsPolicyController` |
| Process without API server | `cmd/main.go` | all of the above | start, restart | `DnsMesh` |
| Process with API server | `api_server.go`, `cmd/main.go` | listener, requests, the agents' lists | Start, handlers, signal, crash, restart | `APIServer` |
| Copies and hashes of a spec | `hash.go`, `zz_generated.deepcopy.go` | which copies share an array | ComputeSpecHash, ComputeSelectorHash, DeepCopyInto | `PolicyCopies` |
| Mutating webhook | `webhook/` | admission calls, stored Deployments | ServeHTTP, mutate, lookup, start, shutdown | `Webhook` |
| API objects | `dnspolicy_types.go` | | | `Objects` |
| Label comparisons, loops over maps | `LabelsContainAll`, `labelsEqual`, `selectorsEqual` | | | `GoMaps` |
| API server of the cluster, users, kubelets (external) | | `apiPods`, `apiPolicies`, watches | create, edit, delete, phases, IPs | `Cluster` |
| Work queue (external) | | order, dirty, processing, waiting | Add, Get, Done, AddRateLimited | `WorkQueue` |
| `sync.RWMutex` (external) | | holder, readers, waiting writer | Lock, Unlock, RLock, RUnlock | `RWMutex` |
| `http.Server` (external) | | `listener`, `active`, `shutdown` | ListenAndServe, Shutdown | `HTTPServer` |

The two reconcilers are two goroutines with one worker each. Each writes one
index; both write the cache. `GET /api/policies` reads the cache.

What makes it hard: each Reconcile is several calls with locks of their own,
so the other reconciler can run between any two; informer copies lag behind
the API server; updates meet conflicts or fail after they were stored; a broken
watch is replaced by a new list; IPs are reused; the process restarts with
empty indexes while finalizers, `observedGeneration` and the agents' lists
persist. `PROJECT.json` lists these hazards by line.

## How the model corresponds to the code

### Reconcilers (`DnsMesh` and the modules it extends)

- A worker is a record with a program point. A step ends where another
  goroutine can come in between: between two calls that lock an index or the
  cache. Guards are the early returns of Reconcile, in their order.
- A method of the cache is one step. `RecalculateForPolicyChange` reads the pod
  index twice and is two steps, with `mu` held in between. That this is what
  the locks achieve is checked and proved (`MethodsAtomic`, below).
- `r.Get` and the index operation after it are one step in the policy
  reconciler; only the informer can come in between, and it marks the request
  dirty in either order. In the pod reconciler they are separate.
- An informer updates its copy and queues the request in one step. When its
  watch breaks it lists again: `RelistPods` and `RelistPolicies` drop the events
  on their way and hand the difference between old and new copy to the event
  filter, so several changes arrive as one, or as none.
- Go ranges over maps in any order. Of several pods on one IP any may be
  recalculated last; `BatchesFor` allows them all.
- Block lists are sets: the code sorts and removes duplicates. A nil and an
  empty selector are the same; every test in the code is on the length.
- Of the Ready condition the model keeps status and `observedGeneration`.
- Finalizers of others are one flag, `Held` (foreground deletion). Users do not
  strip the controller's finalizer by hand. The generation increment that
  comes with a deletion is left out; the deletion branch reads no generation.
- Budgets bound the environment: `MaxPodWrites`, `MaxPolicyWrites`,
  `MaxFailures`, `MaxRestarts`. The controller's own steps are not bounded.

### Locks (`CacheThreads`)

A step ends at each lock operation and at each access to the entries. The pod
reconciler, the policy reconciler and the handlers call the methods in any
order and with any arguments, more than the real callers do. `RecalculateAll`
has no caller in the repository; here the policy reconciler may call it.

`CacheOperations` is the cache with atomic methods, over any sequence of index
writes and calls. `CacheThreads` implements it: `MethodsAtomic` is its
specification under the mapping `EffectiveEntries`. A call of the policy
reconciler takes effect when it has read the pod index, since the pods it then
holds will all be written and no policy changes meanwhile; a `RecalculatePod`
takes effect when it has read the policy index.

`NoDeadlock` is stated on the mutexes: as long as calls are under way, one
goroutine in them is in no `Lock` or `RLock` that blocks. It needs no fairness;
`CallsReturn`, which does, adds that nobody is passed over for ever.

### API server (`APIServer`)

The process of `DnsMesh` with the server in it. `handleGetBlocklist` is two
steps, the read of the cache and the answer, which takes as long as the agent
likes. `view` is what an agent got last. The listening goroutine is separate
from `Start`: the signal can come before it. When it cannot listen, or later can no
longer accept, the failure is logged and nothing else. An answer can also break off,
by the write timeout or with its connection (`SendFails`): the agent keeps what it
had. `Shutdown` ends when no request is active or when its deadline
has passed. A process that exits or crashes is started again. `AnswersExact`
is about the answers themselves: what a handler reads holds exactly the blocked
domains of every indexed pod, except where a reconcile of the pod or a
recalculation for a policy is still due.

### Webhook (`Webhook`)

An admission call goes through `ServeHTTP` and `mutate` up to the lookup of the
DNS service, the lookup, and the answer; the service can change before and
after each. The API server stores what is admitted, patched. It can give up
waiting, which rejects the submission (`failurePolicy: Fail`, the default).
`addresses` remembers which addresses the service had during a call and is used
by properties only. The patch is the address; the search list is constant.
Other requests get an error; on a review without a request `mutate` panics,
net/http recovers and closes the connection (`mutatePanics`). When the webhook
cannot listen, or later can no longer accept, the process ends with the calls that
are open, and is started again.

### Copies (`PolicyCopies`)

`ComputeSpecHash` sorts the list it is given in place. The module keeps the
array behind each slice, so that a copy that shares it would show. Nothing
calls the hashes at present; here any holder of a private copy may. A hash is
the marshalled value: SHA-256 is taken to be injective. `sort.Strings` is its
contract, an ascending rearrangement of the elements.

## Runs

In the runs of `DnsMesh` labels are `app=a` and `app=b`; a policy selects one of
them or nothing.

| Run | Instance | Distinct states | Checks |
|---|---|---|---|
| `ReconcilerRaces` | 1 pod that moves or is relabelled, 2 policies, one with an edited selector, the other deleted | 1,071,544 | `MatchedPodsBlocked`, `EntriesExact`, `AffectedCurrent`, `QuietMeansExact`, `NoUnblocking` |
| `Lifecycles` | 1 pod with 2 IPs, 1 policy edited to an empty selector or deleted, 1 failure, 1 restart, relists | 935,321 | `TypeOK`, `PodsTracked`, `IndexedPoliciesExist`, `ObservedMeansIndexed`, `QuietMeansCaughtUp` |
| `CatchUp` | 1 pod written twice, 1 policy edited to an empty selector or deleted, 1 failure, relists, fairness | 217,928 | `PodsTracked`, `EventuallyCaughtUp` |
| `AtomicMethods` | locks; 2 pods that can share an IP, 1 policy, 1 handler, fairness | 166,014 | `MethodsAtomic`, `BlocklistIsSnapshot`, `NoDeadlock`, `CallsReturn`, `ReverseLookupSound`, `ReverseLookupComplete` |
| `AgentsServed` | API server with 1 pod and 1 policy, 1 policy write (a creation or a deletion), 1 stop or crash, 1 failure to listen or accept, 1 agent with all requests | 241,313 | `NoRequestCutOff`, `AnswersExact`, `StopsWhenAsked`, `AgentsInformed` |
| `Admission` | webhook, 2 concurrent calls about 1 Deployment, 1 service change, 1 failure, 1 stop | 1,120,564 | `WebhookTypeOK`, `WatchedRedirected`, `AddressLookedUp`, `OthersUntouched`, `CallsAnswered`, `ServesOrEnds` |
| `SpecHashes` | 9 specs: nil, empty, repeated and reordered lists, nil and empty selectors | 29,484 | `SharedCopiesIntact`, `HashIgnoresOrder`, `SelectorHashAgrees` |

`QuietMeansCaughtUp` and `QuietMeansExact` are about a controller at rest (`Quiet`:
empty watches and queues, idle workers). The first says that it has caught up
with the API server, the second that what it serves for a running pod is
exactly what the policies in the API server that select the pod block.
`EventuallyCaughtUp` adds, under fairness, that it gets there.

### Bounds

One pod and one policy suffice for most races, since an entry depends on one
pod and the policies that select it; a second policy is needed to see one
policy's recalculation overwrite another's. `AtomicMethods` has two pods on one
IP, so that the order in which a recalculation meets them matters, and labels
the policy does not select, and one pod with an IP of its own. Objects exist when
the process starts, so one write is enough for an object to change while it is
being worked on. `CatchUp` has two writes of its pod: it is created before it has
an IP and gets one later, or it is deleted and created again and a relist merges
the two. A pod that is created again and gets another IP takes three writes; such
histories, and more failures and restarts, are left to the theorems. Two admission calls and one
change of the service let one call overtake the other with an older address.
`ReconcilerRaces` takes the two IPs of its pod for alike (`AlikeIPs`): no
definition tells one IP from another, and the run checks no liveness.

Deadlock is checked except in `AgentsServed` and `ListenFailureHidden`, where a
process whose listener failed, and whose agents cannot connect, really has
nothing left to do. In `DnsMesh` a quiet controller may rest, so the only
deadlock would be workers that block each other.

### Fairness

- `FairSpec` (`CatchUp`): weak fairness of the informers' deliveries, of back-off
  timers and of the two workers, goroutines of a live process that never stop.
  Nothing is assumed of users, kubelets, relists or failures, whose budgets are
  finite or which need not happen. A policy with an empty selector is retried
  for ever, so that run does not become quiet; `CaughtUp` asks nothing of such a
  policy's index entry.
- `FairThreadsSpec` (`AtomicMethods`): each goroutine that can run is run. A
  mutex that is unlocked goes to its waiting readers, as Go's does; see
  `RWMutex`.
- `FairControllerSpec` (`AgentsServed`): the listening goroutine, `Start` and
  `main` go on, the container is restarted, the reconcilers run as in `FairSpec`
  and the handlers read the cache. Agents are not assumed to take their
  answers; the deadline of `Shutdown` is what ends the process then. Only
  `AgentsInformed` is about an agent that does (`KeepsAsking`, its premise): it asks
  whenever it can (strong fairness, since the listener comes and goes) and of its
  answers some get through (strong fairness, since connections may break).
- `WebhookSpec` (`Admission`): the listening goroutine and the shutdown go on,
  and the container is restarted.

### Where the code disagrees with its comments

Each of these runs ends in the expected counterexample.

| Run | Comment | What the code does |
|---|---|---|
| `DeletionKeepsBlocking` | `dnspolicy_controller.go:58` "Handling deletions by removing from index and updating blocklist" | Recalculates for the fetched selector (line 85), not the indexed one that `Index.Delete` returns. Edit, then delete before the edit is reconciled: the old selector's pods stay blocked. |
| `ReusedIP` | `blocklist_cache.go:35` "incremental updates when pods or policies change" | Deleting an ended pod removes the entry of the running pod that has its IP now; it is missing until a policy that selects the pod is reconciled again, a resync or a restart. |
| `InvalidUnreported` | `dnspolicy_controller.go:176` "updates a condition in the policy status" | `Ready=False` is set on a local copy and never stored. |
| `ListenFailureHidden` | `api_server.go:29` "serves the blocklist to eBPF DaemonSets via HTTP" | When the address cannot be bound, or Accept fails later, the failure is logged and the process lives on without serving. |
| `DocumentedAnnotation` | `README.md:220` "`dashdns.io/watch: "true"` annotation" | The code looks for `dasdns.io/watch` (`mutation.go:12`). |

Differences of the same kind that reading the code for the model brought up, and
that no run shows:

- A policy recalculation between `RemovePod` and `PodIndex.Delete`
  (`pod_controller.go:58`) writes the entry of the vanishing pod again.
- The branch that removes pods that are "no longer running"
  (`pod_controller.go:78`) needs an empty IP, which has already returned.
- `Delete` and `Upsert` of the pod index drop the reverse mapping of another pod
  on the same IP; `GetByIP`, which has no caller, then returns nil for it. This
  happens to no pod with an IP of its own (`ReverseLookupComplete`).
- `updateCondition` keeps a condition whose status is the same, with the
  `observedGeneration` of the first reconcile.
- After a restart the API server answers before the first reconciles; an agent
  that asks then loses what it had, and gets it back (`AgentsInformed`).
- `ComputeSpecHash`, "a hash of the entire DnsPolicySpec" (`hash.go:59`), covers
  the selector and the block list only.
- The documentation promises "ServiceAccount-Based Targeting (subject)"
  (`controller/README.md:133`, also `README.md:33`, `90-92` and `135-147`). No code
  reads `subject`: a policy with a `subject` and no `targetSelector` is invalid
  (`dnspolicy_controller.go:121`) and never indexed.
- It promises a dryrun mode that logs queries and "will not actually block them"
  (`controller/README.md:15`, `148-171` and `257-270`). No code reads `dryrun`: such a
  policy is indexed and its domains are served to the agents as those of any other.

## Proofs

Every safety property of the passing runs is also a theorem. The theorems about
the controller hold for every value of the constants that satisfies
`ObjectsAssumption` and `BoundsAssumption` (typed labels and specs, natural-number
budgets, and label keys of which no proper part counts as many as the whole,
which `FiniteIsCounted` proves of every finite set); those of `CacheThreads` also need
`ThreadsAssumption` (no goroutine is both a reconciler and a handler), those about the webhook
`WebhookAssumption`, those about the hashes `SpecsAssumption` (selectors are nil
or finite maps, block lists nil or sequences; a domain is a number, for its place
in the order of strings).

| Module | Theorems |
|---|---|
| `PodIndexProofs` | `PodIndexSound` |
| `DnsMeshTypes` | `TypeCorrect`, `ControllerIsMesh`, `PodsAlwaysTracked`, `ControllerTracksPods` |
| `PolicyVersionsProofs` | `FinalizerProtects`, `ObservedHonest`, `ControllerTracksPolicies`, `RestingIndexes` |
| `DnsMeshProofs` | `NoLostUpdate`, `CollectedPodsCurrent`, `NeverUnblocked`, `EntriesAlwaysExact`, `NeverCutOff`, `AnswersAlwaysExact`, `RestingCaughtUp`, `RestingExact`, `ControllerRestsExact` |
| `CacheThreadsInv` | `PodIndexUnderThreads`, `NeverDeadlocked` |
| `CacheThreadsProofs` | `BlocklistAlwaysSnapshot`, `MethodsAlwaysAtomic` |
| `PolicyCopiesProofs` | `CopiesStayIntact`, `HashAlwaysIgnoresOrder`, `SelectorHashAlwaysAgrees` |
| `WebhookProofs` | `WebhookTypesCorrect`, `CallsAlwaysAnswered`, `WatchedAlwaysRedirected`, `AddressAlwaysLookedUp`, `OthersNeverTouched` |

### Reconcilers

- `PodIndexSound`: types, `ReverseLookupSound` (an IP leads to a pod that has it)
  and `ReverseLookupComplete` (a pod whose IP no other pod is ever given is found)
  of the pod index. The conjunction is inductive. `PodIndexUnderThreads` and
  `TypeCorrect` have the same of the index between goroutines and in the process.
- `TypeCorrect`: `TypeOK` of the composed system. `TypeOK` alone is not
  inductive: at program point `upsert` the pod must have an IP, which follows
  from the early return two steps before. `TypeInv` adds that
  (`UpsertingHasIP`) and the two properties of the reverse map.
- `NoLostUpdate` and `CollectedPodsCurrent`: `MatchedPodsBlocked` and
  `AffectedCurrent`, under `DisjointIPs` (no IP is ever given to two pods, not even one after the other;
  `ReusedIP` shows that the assumption is needed). The inductive invariant
  `WorkersInv` adds to `TypeInv` that a policy being recalculated is indexed with
  the spec the worker holds (`PolicyBusyIndexed`) and that `mu` is held exactly
  between the two halves of `RecalculateForPolicyChange` (`MuHeld`). The
  argument: every recalculation leaves the entries it writes fresh
  (`RecalculatedFresh`), every other step keeps the entries of pods that are
  not busy (`EntryKept`).
- `NeverUnblocked`: the action property `NoUnblocking`, from the same invariant
  and the same assumption.
- `EntriesAlwaysExact`: `EntriesExact`, under `DisjointIPs` and `FixedSelectors`
  (the selector of a policy that may be deleted is not edited;
  `DeletionKeepsBlocking` shows that the assumption is needed). With
  `WorkersInv` the property is inductive: an index write changes what is
  blocked only for labels the old or the new selector selects, and those are
  due for recalculation.
- `PodsAlwaysTracked`: `PodsTracked`, without assumptions on IPs. `TrackingInv`
  adds what the worker's steps have done with the copy it fetched
  (`PodCopyUsed`); the core is `FilterMissesNothing`: an event the filter drops
  changes nothing or leaves a pod that need not be indexed. Relists need no case
  of their own, since they go through the same filter.
- `FinalizerProtects` and `ObservedHonest`: `IndexedPoliciesExist` and
  `ObservedMeansIndexed`. The difficulty is outdated copies: `VersionInv` says how
  each version that can still reach the worker (the informer's copy, the events
  on their way, the copy in hand) can differ from the API server's (`Fits`,
  `CopyFits`). If such a version would be indexed, the API server's still
  carries the finalizer; if the API server's status claims the current
  generation, every such version has that spec.
- `RestingIndexes`: a controller at rest has indexed every running pod and every
  policy as the API server has it, written every status and finished every
  deletion, without assumptions on IPs or selectors. Three invariants meet. The
  informers are in step (`InStep`): the last event about an object on its way
  brings the copy up to date, or none is on its way and the copy is. Each pod is
  tracked (`PodTracked`), each policy too (`PolicyTracked`): an event about it or a
  reconcile of it is to come, or the worker has the informer's copy in hand, or
  it is settled. Inductive only together with `VersionInv`, which knows what the
  worker has done with the copy in hand. A policy with an empty selector is
  never settled: its back-off does not end.
- `RestingCaughtUp` and `RestingExact`: `QuietMeansCaughtUp` and `QuietMeansExact`,
  from `RestingIndexes` with `NoLostUpdate` and with `EntriesAlwaysExact`, under the
  assumptions of these. They are the safety half of `EventuallyCaughtUp`: the
  controller cannot come to rest with work left to do.

### Locks

One inductive invariant, `ThreadsInv`, carries the four theorems of
`CacheThreadsInv` and `CacheThreadsProofs`. Besides types it says

- `LockInv`: which mutexes a goroutine has claimed or asked to read at each
  program point (`Role`), and that readers wait only for a writer. A writer of
  an index asks for nothing else, and the cache locks an index after its own
  mutex, so waiting readers lead to a writer that runs: `NeverDeadlocked`.
- `TodoInv`: the pod `RecalculatePod` is at is the one in the index, and a block
  list about to be stored is that of the policies as they are.
- `AffectedInv`: the pods collected by `RecalculateForPolicyChange` exist between
  its two reads only.
- `CopiedInv`: a handler that has its `RLock` has copied exactly the entries it
  has been at.

`MethodsAlwaysAtomic` is the refinement: under `EffectiveEntries` the step in
which a call takes effect is the step of `CacheOperations`, every other step a
stutter. The hard case is the loop over the collected pods. The entry of an IP
is decided by the last pod in the sequence that has it, so writing the first
element of the sequence and dropping it changes nothing in `EffectiveEntries`;
that a last one exists is the least-element principle of the naturals.

### Process and API server

- `ControllerIsMesh`: `ControllerSpec => Spec`. The process with its server
  implements `DnsMesh`; the theorems above hold in it whenever it is stopped or
  dies (`ControllerTracksPods`, `ControllerTracksPolicies`, `ControllerRestsExact`
  and the proof of `AnswersAlwaysExact` use that).
- `NeverCutOff`: `NoRequestCutOff`. `StopInv` adds that after `Shutdown` has begun
  nothing is accepted, which covers the signal that comes before the server
  listens.
- `AnswersAlwaysExact`: `AnswersExact`, under the assumptions of
  `EntriesAlwaysExact` and from it: a new reply is what `GetBlocklist` reads.

### Hashes

- `CopiesStayIntact`: `SharedCopiesIntact`. `CopiesInv` adds that the array behind
  a holder's list is the one it allocated itself.
- `HashAlwaysIgnoresOrder`: `HashIgnoresOrder`, with two facts about sorting as
  its core. Every list has an ascending rearrangement (`SortingExists`, by
  ranking the elements); two ascending lists that name each domain equally
  often are equal (`AscendingUnique`, by their first difference).
- `SelectorHashAlwaysAgrees`: `SelectorHashAgrees`. A map contained in another one
  with as many keys is equal to it.

### Webhook

`WebhookInv` adds what is known of a call at each point (`ReviewInv`): only
watched Deployments reach the lookup, and an answer that admits one carries an
address the service had since the call came in. With the connections that `Shutdown`
waits for (`CallsInv`) it gives all five theorems.

### Only model-checked

Liveness (`EventuallyCaughtUp`, `CallsReturn`, `StopsWhenAsked`, `AgentsInformed`,
`ServesOrEnds`): fairness and `ENABLED` are out of the prover's reach.
`RestingCaughtUp` and `NeverDeadlocked` are the safety halves of the first two;
left to TLC is that the controller comes to rest and that calls return. The
induction theorems of the library, which take a predicate as a parameter, are
out of reach too; where a proof needs induction over naturals it uses a least
counterexample instead.

## Not modelled

- Flags, TLS, metrics, probes, certificate watchers and leader election in
  `controller/cmd/main.go`: configuration of libraries. One replica runs.
- Generated code except the copies of a policy and its spec.
- `GetByIP` and `Size` of the indexes, reads without a caller.
- `subject`, `doh`, `dohTlsSecrets` and `dryrun` of the spec and the hashes in the status,
  which no code reads.
- Kubernetes events, log lines and the text of conditions and answers.
- The Helm and kustomize manifests, which hold no behaviour of this program.
- The node agent, which is not in this repository; `APIServer` has what it does
  with the API, ask and replace its list.
