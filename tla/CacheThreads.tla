---------------------------- MODULE CacheThreads ----------------------------
(***************************************************************************)
(* The goroutines of the controller inside the methods of pod_index.go,    *)
(* policy_index.go and blocklist_cache.go, with their three mutexes: the   *)
(* pod reconciler, the policy reconciler and the handlers of the API       *)
(* server.  A step ends at every lock operation and at every access to the *)
(* cache's entries.  Arguments are chosen when they are first used.        *)
(***************************************************************************)
EXTENDS PodIndex, PolicyIndex, RWMutex, Sequences

CONSTANT Handlers   \* goroutines that serve GET /api/policies and /healthz

VARIABLES
    entries,    \* bc.entries
    lock,       \* the mutexes: bc.mu, podIndex.mu and policyIndex.mu
    call        \* goroutine -> the call it is in

threadVars == <<podIndexVars, policies, entries, lock, call>>

podR == "podReconciler"
policyR == "policyReconciler"

Threads == {podR, policyR} \cup Handlers

\* No goroutine is both a reconciler and a handler.
ASSUME ThreadsAssumption ==
    NoThread \notin Threads /\ {podR, policyR} \cap Handlers = {}

NoCall ==
    [pc |-> "idle",
     affected |-> EmptyMap, \* affectedPods of RecalculateForPolicyChange
     todo |-> <<>>,         \* pods still to recalculate
     domains |-> {},        \* block list computed for the first of them
     copied |-> EmptyMap,   \* part of the answer of GetBlocklist
     left |-> {}]           \* entries GetBlocklist has still to look at

Mutexes == {"bc", "pods", "policies"}

ThreadsInit ==
    /\ NewPodIndex /\ NewPolicyIndex
    /\ entries = EmptyMap
    /\ lock = [m \in Mutexes |-> FreeMutex]
    /\ call = [t \in Threads |-> NoCall]

\* The operators of the cache over the entries as they are now.
Now == INSTANCE BlocklistCache WITH mu <- FALSE, affectedPods <- EmptyMap

-----------------------------------------------------------------------------
(* Steps every method is made of.                                          *)

GoTo(t, pc) == call' = [call EXCEPT ![t].pc = pc]

\* A call starts with Lock.
StartLocked(t, m, pc) ==
    /\ call[t].pc = "idle"
    /\ CanClaim(lock[m])
    /\ lock' = [lock EXCEPT ![m] = Claim(@, t)]
    /\ GoTo(t, pc)
    /\ UNCHANGED <<podIndexVars, policies, entries>>

\* bc.mu is held and an index is read: RLock ...
ReadIndex(t, at, m, pc) ==
    /\ call[t].pc = at
    /\ WriteLocked(lock["bc"], t)
    /\ lock' = [lock EXCEPT ![m] = RLock(@, t)]
    /\ GoTo(t, pc)
    /\ UNCHANGED <<podIndexVars, policies, entries>>

\* ... then the read itself and RUnlock.
HasRead(t, at, m) ==
    /\ call[t].pc = at
    /\ ReadLocked(lock[m], t)
    /\ lock' = [lock EXCEPT ![m] = RUnlock(@, t)]
    /\ UNCHANGED <<podIndexVars, policies>>

\* The deferred Unlock and the return of the call.
Return(t, m) ==
    /\ lock' = [lock EXCEPT ![m] = Unlock(@)]
    /\ call' = [call EXCEPT ![t] = NoCall]

-----------------------------------------------------------------------------
(* The pod reconciler: Upsert and Delete of the pod index, RemovePod and   *)
(* RecalculatePod of the cache.                                            *)

WritesPods ==
    /\ call[podR].pc = "writePods"
    /\ WriteLocked(lock["pods"], podR)
    /\ PodIndexNext
    /\ Return(podR, "pods")
    /\ UNCHANGED <<policies, entries>>

RemovesPod ==
    /\ call[podR].pc = "removePod"
    /\ WriteLocked(lock["bc"], podR)
    /\ \E ip \in IPs : entries' = Without(entries, {ip})
    /\ Return(podR, "bc")
    /\ UNCHANGED <<podIndexVars, policies>>

\* A RecalculatePod that returns for an unknown pod without Unlock.
GetsPodWithoutDefer ==
    /\ HasRead(podR, "getPod", "pods")
    /\ \E n \in PodNames :
          call' = IF n \in DOMAIN pods
                  THEN [call EXCEPT ![podR].pc = "loop", ![podR].todo = <<pods[n]>>]
                  ELSE [call EXCEPT ![podR] = NoCall]
    /\ UNCHANGED entries

GetsPod ==
    /\ HasRead(podR, "getPod", "pods")
    /\ \E n \in PodNames :
          call' = [call EXCEPT ![podR].pc = "loop",
              ![podR].todo = IF n \in DOMAIN pods THEN <<pods[n]>> ELSE <<>>]
    /\ UNCHANGED entries

PodReconciler ==
    \/ StartLocked(podR, "pods", "writePods")
    \/ WritesPods
    \/ StartLocked(podR, "bc", "removePod")
    \/ RemovesPod
    \/ StartLocked(podR, "bc", "recalculatePod")
    \/ ReadIndex(podR, "recalculatePod", "pods", "getPod")
    \/ GetsPod

-----------------------------------------------------------------------------
(* The policy reconciler: Upsert and Delete of the policy index, and the   *)
(* cache's methods for policies.  RecalculateAll, which nothing calls, is  *)
(* taken to be called here.                                                *)

WritesPolicies ==
    /\ call[policyR].pc = "writePolicies"
    /\ WriteLocked(lock["policies"], policyR)
    /\ \E q \in PolicyNames :
          DeletePolicy(q) \/ \E spec \in SpecsOf[q] : UpsertPolicy(q, spec)
    /\ Return(policyR, "policies")
    /\ UNCHANGED <<podIndexVars, entries>>

Selectors == {spec.TargetSelector : spec \in UNION {SpecsOf[q] : q \in PolicyNames}}

Matching(selector) == {pods[n] : n \in GetPodsMatchingSelector(selector)}

\* A RecalculateForPolicy that looks up the pods before it locks bc.mu.
GetsMatchingTooEarly ==
    \/ /\ call[policyR].pc = "idle"
       /\ \E selector \in Selectors : \E s \in Orders(Matching(selector)) :
             call' = [call EXCEPT ![policyR].todo = s]
       /\ UNCHANGED <<podIndexVars, policies, entries, lock>>
    \/ /\ HasRead(policyR, "getMatching", "pods")
       /\ GoTo(policyR, "loop")
       /\ UNCHANGED entries

GetsMatching ==
    /\ HasRead(policyR, "getMatching", "pods")
    /\ \E selector \in Selectors : \E s \in Orders(Matching(selector)) :
          call' = [call EXCEPT ![policyR].pc = "loop", ![policyR].todo = s]
    /\ UNCHANGED entries

GetsAll ==
    /\ HasRead(policyR, "getAll", "pods")
    /\ \E s \in Orders({pods[n] : n \in DOMAIN pods}) :
          call' = [call EXCEPT ![policyR].pc = "loop", ![policyR].todo = s]
    /\ entries' = EmptyMap

\* RecalculateForPolicyChange: affectedPods after the first loop, whatever the
\* order of the pods ...
GetsOld ==
    /\ HasRead(policyR, "getOld", "pods")
    /\ \E selector \in Selectors : \E batch \in Now!BatchesFor(selector) :
          call' = [call EXCEPT ![policyR].pc = "collected",
                               ![policyR].affected = batch]
    /\ UNCHANGED entries

\* ... and after the second; then the pods in it, one for each IP.
GetsNew ==
    /\ HasRead(policyR, "getNew", "pods")
    /\ \E selector \in Selectors : \E batch \in Now!BatchesFor(selector) :
          LET old == call[policyR].affected
              all == {[IP |-> ip, Labels |-> batch[ip]] : ip \in DOMAIN batch}
                     \cup {[IP |-> ip, Labels |-> old[ip]] :
                               ip \in DOMAIN old \ DOMAIN batch}
          IN  \E s \in Orders(all) :
                 call' = [call EXCEPT ![policyR].pc = "loop",
                                      ![policyR].affected = EmptyMap,
                                      ![policyR].todo = s]
    /\ UNCHANGED entries

PolicyReconciler ==
    \/ StartLocked(policyR, "policies", "writePolicies")
    \/ WritesPolicies
    \/ StartLocked(policyR, "bc", "recalculateForPolicy")
    \/ ReadIndex(policyR, "recalculateForPolicy", "pods", "getMatching")
    \/ GetsMatching
    \/ StartLocked(policyR, "bc", "recalculateAll")
    \/ ReadIndex(policyR, "recalculateAll", "pods", "getAll")
    \/ GetsAll
    \/ StartLocked(policyR, "bc", "recalculateForPolicyChange")
    \/ ReadIndex(policyR, "recalculateForPolicyChange", "pods", "getOld")
    \/ GetsOld
    \/ ReadIndex(policyR, "collected", "pods", "getNew")
    \/ GetsNew

-----------------------------------------------------------------------------
(* The loops over recalculatePodInternal that these methods end with.      *)

GetsPolicies(t) ==
    /\ HasRead(t, "getPolicies", "policies")
    /\ call' = [call EXCEPT ![t].pc = "store",
                            ![t].domains = Now!BlockedFor(Head(call[t].todo).Labels)]
    /\ UNCHANGED entries

StoresEntry(t) ==
    /\ call[t].pc = "store"
    /\ entries' = Put(entries, Head(call[t].todo).IP, call[t].domains)
    /\ call' = [call EXCEPT ![t].pc = "loop", ![t].domains = {},
                            ![t].todo = Tail(@)]
    /\ UNCHANGED <<podIndexVars, policies, lock>>

LoopEnds(t) ==
    /\ call[t].pc = "loop"
    /\ call[t].todo = <<>>
    /\ Return(t, "bc")
    /\ UNCHANGED <<podIndexVars, policies, entries>>

Recalculating(t) ==
    \/ call[t].todo # <<>> /\ ReadIndex(t, "loop", "policies", "getPolicies")
    \/ GetsPolicies(t)
    \/ StoresEntry(t)
    \/ LoopEnds(t)

-----------------------------------------------------------------------------
(* GetBlocklist and Size, called by the handlers of api_server.go.         *)

StartReading(h, pc, left) ==
    /\ call[h].pc = "idle"
    /\ lock' = [lock EXCEPT !["bc"] = RLock(@, h)]
    /\ call' = [call EXCEPT ![h].pc = pc, ![h].left = left]
    /\ UNCHANGED <<podIndexVars, policies, entries>>

\* A GetBlocklist without RLock.
CopiesEntryUnlocked(h) ==
    /\ call[h].pc = "getBlocklist"
    /\ \E ip \in call[h].left :
          call' = [call EXCEPT ![h].left = @ \ {ip},
              ![h].copied = IF ip \in DOMAIN entries /\ entries[ip] # {}
                            THEN Put(@, ip, entries[ip]) ELSE @]
    /\ UNCHANGED <<podIndexVars, policies, entries, lock>>

\* The loop over bc.entries copies the next entry, if there is one for this IP
\* and it blocks something.
CopiesEntry(h) ==
    /\ call[h].pc = "getBlocklist"
    /\ ReadLocked(lock["bc"], h)
    /\ \E ip \in call[h].left :
          call' = [call EXCEPT ![h].left = @ \ {ip},
              ![h].copied = IF ip \in DOMAIN entries /\ entries[ip] # {}
                            THEN Put(@, ip, entries[ip]) ELSE @]
    /\ UNCHANGED <<podIndexVars, policies, entries, lock>>

EndReading(h) ==
    /\ call[h].pc \in {"getBlocklist", "size"}
    /\ call[h].left = {}
    /\ HasRead(h, call[h].pc, "bc")
    /\ call' = [call EXCEPT ![h] = NoCall]
    /\ UNCHANGED entries

Handler(h) ==
    \/ StartReading(h, "getBlocklist", IPs)
    \/ CopiesEntry(h)
    \/ StartReading(h, "size", {})
    \/ EndReading(h)

ThreadsNext ==
    \/ PodReconciler \/ Recalculating(podR)
    \/ PolicyReconciler \/ Recalculating(policyR)
    \/ \E h \in Handlers : Handler(h)

ThreadsSpec == ThreadsInit /\ [][ThreadsNext]_threadVars
\* Goroutines that can run are run.
FairThreadsSpec ==
    /\ ThreadsSpec
    /\ WF_threadVars(PodReconciler \/ Recalculating(podR))
    /\ WF_threadVars(PolicyReconciler \/ Recalculating(policyR))
    /\ \A h \in Handlers : WF_threadVars(Handler(h))

-----------------------------------------------------------------------------
(* Properties.                                                             *)

\* The labels the loop over todo uses for each IP: those of its last pod.
LastOf(todo) ==
    [ip \in {todo[i].IP : i \in DOMAIN todo} |->
        todo[CHOOSE i \in DOMAIN todo :
                /\ todo[i].IP = ip
                /\ \A j \in DOMAIN todo : todo[j].IP = ip => j <= i].Labels]

\* A call of the policy reconciler takes effect when it has read the pod index,
\* a RecalculatePod when it has read the policy index: the entries it is still
\* to write are already those of the abstract cache.
EffectiveEntries ==
    IF call[podR].pc = "store"
    THEN Put(entries, Head(call[podR].todo).IP, call[podR].domains)
    ELSE Now!Recalculated(LastOf(call[policyR].todo))

Abstract == INSTANCE CacheOperations WITH
    entries <- EffectiveEntries,
    mu <- call[policyR].pc \in {"collected", "getNew"},
    affectedPods <- call[policyR].affected

\* The locks make the methods atomic: whatever the three kinds of goroutines
\* do between two lock operations, including a write of the other index in the
\* middle of a recalculation, the entries are those of a cache whose methods
\* are single steps.
MethodsAtomic == Abstract!CacheSpec

\* GET /api/policies answers with one state of the cache, never with entries
\* from before and after a recalculation.
BlocklistIsSnapshot ==
    \A h \in Handlers :
        call[h].pc = "getBlocklist" /\ call[h].left = {} =>
            call[h].copied = Abstract!GetBlocklist

\* The goroutines never all wait for each other: as long as calls are under
\* way, one of them is in no Lock or RLock, although the cache locks an index
\* while it holds its own mutex and a claimed mutex keeps new readers out.
NoDeadlock ==
    LET running == {t \in Threads : call[t].pc # "idle"}
    IN  running # {} =>
            \E t \in running : \A m \in Mutexes : ~Blocks(lock[m], t)

\* No goroutine waits forever for a mutex: a call that has begun returns,
\* although the cache locks an index while it holds its own mutex, and a
\* waiting writer keeps new readers out.
CallsReturn ==
    \A t \in Threads : []<>(call[t].pc = "idle")
=============================================================================
