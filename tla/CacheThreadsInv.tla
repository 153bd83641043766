-------------------------- MODULE CacheThreadsInv --------------------------
(***************************************************************************)
(* The three mutexes of the controller, for any pods, policies and number  *)
(* of API handlers: the inductive invariant of the goroutines, and that    *)
(* they never deadlock.                                                    *)
(***************************************************************************)
EXTENDS CacheThreads, PodIndexProofs

\* Most leaves reason about sets, functions and records.  Those that need
\* arithmetic or sequences cite SMT.
USE Zenon

\* Where a goroutine has claimed bc.mu, where it has it to itself, and where it
\* reads (or waits to read) an index or the cache.
Claiming == {"removePod", "recalculatePod", "recalculateForPolicy",
             "recalculateAll", "recalculateForPolicyChange"}
ReadingPods == {"getPod", "getMatching", "getAll", "getOld", "getNew"}
Inside == ReadingPods \cup {"collected", "loop", "getPolicies", "store"}
ReadingCache == {"getBlocklist", "size"}

PCs == Claiming \cup Inside \cup ReadingCache
           \cup {"idle", "writePods", "writePolicies"}

\* Where each goroutine can be.
PCsOf(t) ==
    CASE t = podR -> {"idle", "writePods", "removePod", "recalculatePod", "getPod",
                      "loop", "getPolicies", "store"}
      [] t = policyR -> {"idle", "writePolicies", "recalculateForPolicy", "recalculateAll",
                         "recalculateForPolicyChange", "getMatching", "getAll", "getOld",
                         "collected", "getNew", "loop", "getPolicies", "store"}
      [] OTHER -> {"idle"} \cup ReadingCache

Infos == [IP : IPs, Labels : LabelMaps]
MapsTo(V) == UNION {[D -> V] : D \in SUBSET IPs}

MutexRecords ==
    [writer : Threads \cup {NoThread}, readers : SUBSET Threads, waiting : SUBSET Threads]

CallRecords ==
    [pc : PCs, affected : MapsTo(LabelMaps), todo : Seq(Infos), domains : SUBSET Domains,
     copied : MapsTo(SUBSET Domains), left : SUBSET IPs]

ThreadsTypeOK ==
    /\ entries \in MapsTo(SUBSET Domains)
    /\ lock \in [Mutexes -> MutexRecords]
    /\ call \in [Threads -> CallRecords]
    /\ \A t \in Threads : call[t].pc \in PCsOf(t)

\* What a goroutine at pc is to mutex m: it has claimed it with Lock, or has
\* called RLock.
Role(pc, m) ==
    CASE m = "bc" -> IF pc \in Claiming \cup Inside THEN "writer"
                     ELSE IF pc \in ReadingCache THEN "reader" ELSE "none"
      [] m = "pods" -> IF pc = "writePods" THEN "writer"
                       ELSE IF pc \in ReadingPods THEN "reader" ELSE "none"
      [] m = "policies" -> IF pc = "writePolicies" THEN "writer"
                           ELSE IF pc = "getPolicies" THEN "reader" ELSE "none"

\* The mutexes agree with where the goroutines are, readers wait only for a
\* writer, and past Lock a goroutine has the cache to itself.
LockInv ==
    /\ \A m \in Mutexes :
          /\ \A t \in Threads :
                /\ lock[m].writer = t <=> Role(call[t].pc, m) = "writer"
                /\ t \in lock[m].readers \cup lock[m].waiting <=> Role(call[t].pc, m) = "reader"
          /\ lock[m].readers \cap lock[m].waiting = {}
          /\ lock[m].writer = NoThread => lock[m].waiting = {}
    /\ \A t \in Threads : call[t].pc \in Inside => lock["bc"].readers = {}

\* BlockedFor and Recalculated of the cache over given policies and entries.
BlockedBy(pol, labels) ==
    UNION {pol[q].BlockList : q \in
        {r \in DOMAIN pol : LabelsContainAll(labels, pol[r].TargetSelector)}}

RecalculatedBy(ents, pol, batch) ==
    [ip \in DOMAIN ents \cup DOMAIN batch |->
        IF ip \in DOMAIN batch THEN BlockedBy(pol, batch[ip]) ELSE ents[ip]]

\* The pods a reconciler has still to recalculate: RecalculatePod's pod is the
\* one in the index, which only this goroutine writes; the block list the
\* policy reconciler is about to store is that of the policies as they are.
TodoInv ==
    /\ \A t \in {podR, policyR} :
          /\ call[t].todo # <<>> => call[t].pc \in {"loop", "getPolicies", "store"}
          /\ call[t].pc \in {"getPolicies", "store"} => call[t].todo # <<>>
    /\ call[podR].todo # <<>> => \E n \in DOMAIN pods : call[podR].todo = <<pods[n]>>
    /\ call[policyR].pc = "store" =>
          call[policyR].domains = BlockedBy(policies, Head(call[policyR].todo).Labels)

\* affectedPods exists between the two reads of RecalculateForPolicyChange.
AffectedInv ==
    call[policyR].pc \notin {"collected", "getNew"} => call[policyR].affected = EmptyMap

\* A GetBlocklist that has its RLock has copied the entries it has been at; one
\* that waits for it has not begun.
CopiedInv ==
    \A h \in Handlers :
        /\ call[h].pc = "idle" => call[h].copied = EmptyMap
        /\ call[h].pc = "getBlocklist" =>
              IF h \in lock["bc"].readers
              THEN call[h].copied =
                       [ip \in {i \in DOMAIN entries \ call[h].left : entries[i] # {}}
                           |-> entries[ip]]
              ELSE call[h].left = IPs /\ call[h].copied = EmptyMap

ThreadsInv ==
    /\ PodIndexTypeOK /\ PodLookups /\ PolicyIndexTypeOK
    /\ ThreadsTypeOK /\ LockInv /\ TodoInv /\ AffectedInv /\ CopiedInv

\* A slice that an index read returns lists pods.
LEMMA SliceIs ==
    ASSUME NEW infos, infos \subseteq Infos, NEW s \in Orders(infos)
    PROVE  s \in Seq(Infos)
<1>1. s \in Seq(infos)
  BY OrdersAre
<1> QED  BY SMT, <1>1

-----------------------------------------------------------------------------
(* The mutexes.                                                            *)

\* What Lock, Unlock, RLock and RUnlock do to the fields of a mutex.
LEMMA ClaimFields ==
    ASSUME NEW m \in MutexRecords, NEW t \in Threads
    PROVE  /\ Claim(m, t) \in MutexRecords
           /\ Claim(m, t).writer = t
           /\ Claim(m, t).readers = m.readers /\ Claim(m, t).waiting = m.waiting
BY DEF MutexRecords, Claim

\* The same for Unlock.
LEMMA UnlockFields ==
    ASSUME NEW m \in MutexRecords
    PROVE  /\ Unlock(m) \in MutexRecords
           /\ Unlock(m).writer = NoThread
           /\ Unlock(m).readers = m.waiting /\ Unlock(m).waiting = {}
BY DEF MutexRecords, Unlock

\* The same for RLock, which gets the mutex at once or waits.
LEMMA RLockFields ==
    ASSUME NEW m \in MutexRecords, NEW t \in Threads
    PROVE  /\ RLock(m, t) \in MutexRecords
           /\ RLock(m, t).writer = m.writer
           /\ m.writer = NoThread =>
                 RLock(m, t).readers = m.readers \cup {t} /\ RLock(m, t).waiting = m.waiting
           /\ m.writer # NoThread =>
                 RLock(m, t).readers = m.readers /\ RLock(m, t).waiting = m.waiting \cup {t}
BY DEF MutexRecords, RLock

\* The same for RUnlock.
LEMMA RUnlockFields ==
    ASSUME NEW m \in MutexRecords, NEW t \in Threads
    PROVE  /\ RUnlock(m, t) \in MutexRecords
           /\ RUnlock(m, t).writer = m.writer
           /\ RUnlock(m, t).readers = m.readers \ {t} /\ RUnlock(m, t).waiting = m.waiting
BY DEF MutexRecords, RUnlock

\* Goroutine t moves to pc; its role changes for mutex m only, which becomes
\* mutex.
LockStep(t, pc, m, mutex) ==
    /\ \A u \in Threads : call'[u].pc = IF u = t THEN pc ELSE call[u].pc
    /\ \A n \in Mutexes \ {m} : Role(pc, n) = Role(call[t].pc, n)
    /\ lock' = [lock EXCEPT ![m] = mutex]

\* What it means that one mutex is replaced.
LEMMA OneMutex ==
    ASSUME ThreadsTypeOK, NEW t, NEW pc, NEW m \in Mutexes, NEW mutex \in MutexRecords,
           LockStep(t, pc, m, mutex)
    PROVE  /\ lock' \in [Mutexes -> MutexRecords]
           /\ lock'[m] = mutex
           /\ \A n \in Mutexes \ {m} : lock'[n] = lock[n]
BY DEF ThreadsTypeOK, LockStep

\* Lock claims a mutex that no one has claimed, at the start of a method.
LEMMA LockKeeps ==
    ASSUME ThreadsTypeOK, LockInv, NEW t \in Threads, NEW m \in Mutexes, NEW pc,
           CanClaim(lock[m]), LockStep(t, pc, m, Claim(lock[m], t)),
           Role(call[t].pc, m) = "none", Role(pc, m) = "writer", pc \notin Inside
    PROVE  lock' \in [Mutexes -> MutexRecords] /\ LockInv'
<1>1. lock[m] \in MutexRecords /\ lock \in [Mutexes -> MutexRecords]
  BY DEF ThreadsTypeOK
<1>2. /\ Claim(lock[m], t) \in MutexRecords /\ Claim(lock[m], t).writer = t
      /\ Claim(lock[m], t).readers = lock[m].readers
      /\ Claim(lock[m], t).waiting = lock[m].waiting
  BY <1>1, ClaimFields
<1>3. /\ lock' \in [Mutexes -> MutexRecords]
      /\ lock'[m] = Claim(lock[m], t)
      /\ \A n \in Mutexes \ {m} : lock'[n] = lock[n]
  BY <1>2, OneMutex
<1>4. t # NoThread /\ NoThread \notin Threads /\ "bc" \in Mutexes
  BY ThreadsAssumption DEF Mutexes
<1>5. \A n \in Mutexes : lock'[n].readers = lock[n].readers /\ lock'[n].waiting = lock[n].waiting
  BY <1>2, <1>3
<1>6. \A u \in Threads : call'[u].pc \in Inside => lock'["bc"].readers = {}
  BY <1>4, <1>5 DEF LockInv, LockStep
<1>7. \A n \in Mutexes : \A u \in Threads :
          lock'[n].writer = u <=> Role(call'[u].pc, n) = "writer"
  BY SMT, <1>2, <1>3, <1>4 DEF LockInv, LockStep, CanClaim
<1>8. \A n \in Mutexes : \A u \in Threads :
          u \in lock'[n].readers \cup lock'[n].waiting <=> Role(call'[u].pc, n) = "reader"
  BY SMT, <1>5 DEF LockInv, LockStep
<1>9. \A n \in Mutexes : lock'[n].writer = NoThread => lock'[n].waiting = {}
  BY SMT, <1>2, <1>3, <1>4 DEF LockInv
<1> QED
  BY SMT, <1>3, <1>5, <1>6, <1>7, <1>8, <1>9 DEF LockInv

\* Unlock, at the end of a method: the readers that waited get the mutex.
LEMMA UnlockKeeps ==
    ASSUME ThreadsTypeOK, LockInv, NEW t \in Threads, NEW m \in Mutexes, NEW pc,
           WriteLocked(lock[m], t), LockStep(t, pc, m, Unlock(lock[m])),
           Role(pc, m) = "none", pc \notin Inside
    PROVE  lock' \in [Mutexes -> MutexRecords] /\ LockInv'
<1>1. lock[m] \in MutexRecords /\ lock \in [Mutexes -> MutexRecords]
  BY DEF ThreadsTypeOK
<1>2. /\ Unlock(lock[m]) \in MutexRecords /\ Unlock(lock[m]).writer = NoThread
      /\ Unlock(lock[m]).readers = lock[m].waiting
      /\ Unlock(lock[m]).waiting = {}
  BY <1>1, UnlockFields
<1>3. /\ lock' \in [Mutexes -> MutexRecords]
      /\ lock'[m] = Unlock(lock[m])
      /\ \A n \in Mutexes \ {m} : lock'[n] = lock[n]
  BY <1>2, OneMutex
<1>4. t # NoThread /\ NoThread \notin Threads /\ "bc" \in Mutexes
  BY ThreadsAssumption DEF Mutexes
<1>5. lock[m].writer = t /\ lock[m].readers = {} /\ Role(call[t].pc, m) = "writer"
  BY DEF WriteLocked, LockInv
<1>6. \A u \in Threads : call'[u].pc \in Inside => lock'["bc"].readers = {}
  <2> SUFFICES ASSUME NEW u \in Threads, call'[u].pc \in Inside
               PROVE  lock'["bc"].readers = {}
    OBVIOUS
  <2>1. u # t /\ call[u].pc \in Inside
    BY DEF LockStep
  <2>2. lock["bc"].writer = u
    BY SMT, <2>1, <1>4 DEF LockInv, Role
  <2>3. m # "bc"
    BY <2>1, <2>2, <1>5
  <2> QED  BY <2>1, <2>3, <1>3, <1>4 DEF LockInv
<1>7. \A n \in Mutexes : \A u \in Threads :
          lock'[n].writer = u <=> Role(call'[u].pc, n) = "writer"
  BY SMT, <1>2, <1>3, <1>4, <1>5 DEF LockInv, LockStep
<1>8. \A n \in Mutexes : \A u \in Threads :
          u \in lock'[n].readers \cup lock'[n].waiting <=> Role(call'[u].pc, n) = "reader"
  BY SMT, <1>2, <1>3, <1>5 DEF LockInv, LockStep
<1>9. \A n \in Mutexes : /\ lock'[n].writer = NoThread => lock'[n].waiting = {}
                         /\ lock'[n].readers \cap lock'[n].waiting = {}
  BY SMT, <1>2, <1>3 DEF LockInv
<1> QED
  BY <1>3, <1>6, <1>7, <1>8, <1>9 DEF LockInv

\* RLock: of an index while the cache is held, or of the cache by a handler.
LEMMA RLockKeeps ==
    ASSUME ThreadsTypeOK, LockInv, NEW t \in Threads, NEW m \in Mutexes, NEW pc,
           LockStep(t, pc, m, RLock(lock[m], t)),
           Role(call[t].pc, m) = "none", Role(pc, m) = "reader",
           pc \in Inside => m # "bc" /\ lock["bc"].readers = {}
    PROVE  lock' \in [Mutexes -> MutexRecords] /\ LockInv'
<1>1. lock[m] \in MutexRecords /\ lock \in [Mutexes -> MutexRecords]
  BY DEF ThreadsTypeOK
<1> DEFINE mutex == RLock(lock[m], t)
<1>2. /\ mutex \in MutexRecords /\ mutex.writer = lock[m].writer
      /\ lock[m].writer = NoThread =>
             mutex.readers = lock[m].readers \cup {t} /\ mutex.waiting = lock[m].waiting
      /\ lock[m].writer # NoThread =>
             mutex.readers = lock[m].readers /\ mutex.waiting = lock[m].waiting \cup {t}
  BY <1>1, RLockFields
<1>3. /\ lock' \in [Mutexes -> MutexRecords]
      /\ lock'[m] = mutex
      /\ \A n \in Mutexes \ {m} : lock'[n] = lock[n]
  BY SMT, <1>2, OneMutex
<1> HIDE DEF mutex
<1>4. t # NoThread /\ NoThread \notin Threads /\ "bc" \in Mutexes
  BY ThreadsAssumption DEF Mutexes
<1>5. t \notin lock[m].readers /\ t \notin lock[m].waiting
  BY DEF LockInv
<1>6. \A u \in Threads : call'[u].pc \in Inside => lock'["bc"].readers = {}
  <2> SUFFICES ASSUME NEW u \in Threads, call'[u].pc \in Inside
               PROVE  lock'["bc"].readers = {}
    OBVIOUS
  <2>1. CASE u = t
    BY <2>1, <1>3, <1>4 DEF LockStep
  <2>2. CASE u # t
    <3>1. call[u].pc \in Inside /\ lock["bc"].readers = {}
      BY <2>2 DEF LockStep, LockInv
    <3>2. lock["bc"].writer = u
      BY SMT, <3>1, <1>4 DEF LockInv, Role
    <3> QED  BY <3>1, <3>2, <1>2, <1>3, <1>4
  <2> QED  BY <2>1, <2>2
<1>7. \A n \in Mutexes : \A u \in Threads :
          lock'[n].writer = u <=> Role(call'[u].pc, n) = "writer"
  BY SMT, <1>2, <1>3 DEF LockInv, LockStep
<1>8. \A n \in Mutexes : \A u \in Threads :
          u \in lock'[n].readers \cup lock'[n].waiting <=> Role(call'[u].pc, n) = "reader"
  <2>1. \A u \in Threads : u \in lock'[m].readers \cup lock'[m].waiting
            <=> u = t \/ u \in lock[m].readers \cup lock[m].waiting
    BY <1>2, <1>3
  <2> QED  BY SMT, <2>1, <1>3 DEF LockInv, LockStep
<1>9. \A n \in Mutexes : /\ lock'[n].writer = NoThread => lock'[n].waiting = {}
                         /\ lock'[n].readers \cap lock'[n].waiting = {}
  BY SMT, <1>2, <1>3, <1>5 DEF LockInv
<1> QED
  BY <1>3, <1>6, <1>7, <1>8, <1>9 DEF LockInv

\* RUnlock, after the read.
LEMMA RUnlockKeeps ==
    ASSUME ThreadsTypeOK, LockInv, NEW t \in Threads, NEW m \in Mutexes, NEW pc,
           ReadLocked(lock[m], t), LockStep(t, pc, m, RUnlock(lock[m], t)),
           Role(pc, m) = "none", pc \in Inside => call[t].pc \in Inside
    PROVE  lock' \in [Mutexes -> MutexRecords] /\ LockInv'
<1>1. lock[m] \in MutexRecords /\ lock \in [Mutexes -> MutexRecords]
  BY DEF ThreadsTypeOK
<1> DEFINE mutex == RUnlock(lock[m], t)
<1>2. /\ mutex \in MutexRecords /\ mutex.writer = lock[m].writer
      /\ mutex.readers = lock[m].readers \ {t} /\ mutex.waiting = lock[m].waiting
  BY <1>1, RUnlockFields
<1>3. /\ lock' \in [Mutexes -> MutexRecords]
      /\ lock'[m] = mutex
      /\ \A n \in Mutexes \ {m} : lock'[n] = lock[n]
  BY SMT, <1>2, OneMutex
<1> HIDE DEF mutex
<1>4. NoThread \notin Threads /\ "bc" \in Mutexes
  BY ThreadsAssumption DEF Mutexes
<1>5. t \in lock[m].readers /\ t \notin lock[m].waiting /\ Role(call[t].pc, m) = "reader"
  BY DEF LockInv, ReadLocked
<1>6. \A u \in Threads : call'[u].pc \in Inside => lock'["bc"].readers = {}
  BY <1>2, <1>3, <1>4 DEF LockInv, LockStep
<1>7. \A n \in Mutexes : \A u \in Threads :
          lock'[n].writer = u <=> Role(call'[u].pc, n) = "writer"
  BY SMT, <1>2, <1>3, <1>5 DEF LockInv, LockStep
<1>8. \A n \in Mutexes : \A u \in Threads :
          u \in lock'[n].readers \cup lock'[n].waiting <=> Role(call'[u].pc, n) = "reader"
  BY SMT, <1>2, <1>3, <1>5 DEF LockInv, LockStep
<1>9. \A n \in Mutexes : /\ lock'[n].writer = NoThread => lock'[n].waiting = {}
                         /\ lock'[n].readers \cap lock'[n].waiting = {}
  BY SMT, <1>2, <1>3 DEF LockInv
<1> QED
  BY <1>3, <1>6, <1>7, <1>8, <1>9 DEF LockInv

\* A goroutine that has the RLock of some mutex blocks nowhere: it is a handler
\* in the cache, or a reconciler in an index with the cache to itself.
LEMMA ReadersRun ==
    ASSUME ThreadsTypeOK, LockInv, NEW m \in Mutexes, NEW t \in lock[m].readers
    PROVE  /\ t \in Threads /\ call[t].pc # "idle"
           /\ \A n \in Mutexes : ~Blocks(lock[n], t)
<1>1. t \in Threads
  BY DEF ThreadsTypeOK, MutexRecords
<1>2. Role(call[t].pc, m) = "reader" /\ t \notin lock[m].waiting
  BY <1>1 DEF LockInv
<1>3. \A n \in Mutexes : Blocks(lock[n], t) =>
          /\ Role(call[t].pc, n) # "none"
          /\ Role(call[t].pc, n) = "writer" => lock[n].readers # {}
          /\ Role(call[t].pc, n) = "reader" => t \in lock[n].waiting
  BY <1>1 DEF LockInv, Blocks
<1>4. CASE m = "bc"
  BY <1>1, <1>2, <1>3, <1>4
     DEF Role, Mutexes, ReadingCache, ReadingPods, Claiming, Inside
<1>5. CASE m \in {"pods", "policies"}
  <2>1. call[t].pc \in ReadingPods \cup {"getPolicies"}
    BY <1>2, <1>5 DEF Role, ReadingPods
  <2>2. call[t].pc \in Inside /\ lock["bc"].readers = {}
    BY <1>1, <2>1 DEF LockInv, Inside
  <2> QED
    BY <1>1, <1>2, <1>3, <1>5, <2>1, <2>2
       DEF Role, Mutexes, ReadingCache, ReadingPods, Claiming, Inside
<1> QED  BY <1>4, <1>5 DEF Mutexes

\* The order in which mutexes are taken (the cache's, then an index's) rules a
\* cycle of waiting goroutines out.
LEMMA SomeoneRuns == ThreadsTypeOK /\ LockInv => NoDeadlock
<1> SUFFICES ASSUME ThreadsTypeOK, LockInv, NEW t0 \in Threads, call[t0].pc # "idle",
                    \A t \in Threads : call[t].pc # "idle" =>
                        \E m \in Mutexes : Blocks(lock[m], t)
             PROVE  FALSE
  BY DEF NoDeadlock
<1>1. \A m \in Mutexes : lock[m].readers = {}
  BY ReadersRun
<1>2. ASSUME NEW t \in Threads, call[t].pc # "idle"
      PROVE  \E m \in Mutexes : t \in lock[m].waiting /\ Role(call[t].pc, m) = "reader"
  BY SMT, <1>1, <1>2 DEF Blocks, LockInv
<1>3. ASSUME NEW m \in Mutexes, NEW t \in Threads, t \in lock[m].waiting
      PROVE  \E w \in Threads : Role(call[w].pc, m) = "writer" /\ call[w].pc # "idle"
  <2>1. lock[m].writer # NoThread /\ lock[m].writer \in Threads
    BY <1>3 DEF LockInv, ThreadsTypeOK, MutexRecords
  <2>2. Role(call[lock[m].writer].pc, m) = "writer"
    BY <2>1 DEF LockInv
  <2>3. Role("idle", m) # "writer"
    BY DEF Role, Mutexes, Claiming, Inside, ReadingPods
  <2> QED  BY <2>1, <2>2, <2>3
<1>4. ASSUME NEW m \in {"pods", "policies"}, NEW t \in Threads, t \in lock[m].waiting
      PROVE  FALSE
  <2>1. m \in Mutexes
    BY DEF Mutexes
  <2>2. PICK w \in Threads : Role(call[w].pc, m) = "writer" /\ call[w].pc # "idle"
    BY <1>3, <1>4, <2>1
  <2>3. PICK n \in Mutexes : Role(call[w].pc, n) = "reader"
    BY <1>2, <2>2
  <2> QED
    BY <2>2, <2>3 DEF Role, Mutexes, ReadingPods, ReadingCache, Claiming, Inside
<1>5. PICK m \in Mutexes : t0 \in lock[m].waiting
  BY <1>2
<1>6. m = "bc"
  BY <1>4, <1>5 DEF Mutexes
<1>7. PICK w \in Threads : Role(call[w].pc, "bc") = "writer" /\ call[w].pc # "idle"
  BY <1>3, <1>5, <1>6
<1>8. PICK n \in Mutexes : w \in lock[n].waiting /\ Role(call[w].pc, n) = "reader"
  BY <1>2, <1>7
<1>9. n # "bc"
  BY <1>7, <1>8
<1> QED  BY <1>4, <1>8, <1>9 DEF Mutexes

-----------------------------------------------------------------------------
(* The calls.                                                              *)

\* The call of goroutine t becomes this record.
CallStep(t, pc, affected, todo, domains, copied, left) ==
    call' = [call EXCEPT ![t] =
                [pc |-> pc, affected |-> affected, todo |-> todo, domains |-> domains,
                 copied |-> copied, left |-> left]]

\* What this means for the fields of the calls.
CallsAfter(t, pc, affected, todo, domains, copied, left) ==
    /\ call' \in [Threads -> CallRecords]
    /\ \A u \in Threads : call'[u].pc \in PCsOf(u)
    /\ \A u \in Threads \ {t} : call'[u] = call[u]
    /\ \A u \in Threads : call'[u].pc = IF u = t THEN pc ELSE call[u].pc
    /\ call'[t].pc = pc /\ call'[t].affected = affected /\ call'[t].todo = todo
    /\ call'[t].domains = domains /\ call'[t].copied = copied /\ call'[t].left = left

\* A step to a record of the right type keeps the calls well formed.
LEMMA CallStepIs ==
    ASSUME ThreadsTypeOK, NEW t \in Threads, NEW pc \in PCs, pc \in PCsOf(t),
           NEW affected \in MapsTo(LabelMaps), NEW todo \in Seq(Infos),
           NEW domains \in SUBSET Domains, NEW copied \in MapsTo(SUBSET Domains),
           NEW left \in SUBSET IPs, CallStep(t, pc, affected, todo, domains, copied, left)
    PROVE  CallsAfter(t, pc, affected, todo, domains, copied, left)
<1> DEFINE c == [pc |-> pc, affected |-> affected, todo |-> todo, domains |-> domains,
                 copied |-> copied, left |-> left]
<1>1. c \in CallRecords
  BY DEF CallRecords
<1>2. c.pc = pc /\ c.affected = affected /\ c.todo = todo /\ c.domains = domains
      /\ c.copied = copied /\ c.left = left
  OBVIOUS
<1>3. call' = [call EXCEPT ![t] = c] /\ call \in [Threads -> CallRecords]
  BY DEF CallStep, ThreadsTypeOK
<1> HIDE DEF c
<1>4. call' \in [Threads -> CallRecords]
  BY <1>1, <1>3
<1>5. call'[t] = c /\ \A u \in Threads \ {t} : call'[u] = call[u]
  BY <1>3
<1> QED  BY <1>2, <1>4, <1>5 DEF ThreadsTypeOK, CallsAfter

\* The fields of a call have their types.
LEMMA CallFields ==
    ASSUME ThreadsTypeOK, NEW t \in Threads
    PROVE  /\ call[t].pc \in PCs /\ call[t].affected \in MapsTo(LabelMaps)
           /\ call[t].todo \in Seq(Infos) /\ call[t].domains \in SUBSET Domains
           /\ call[t].copied \in MapsTo(SUBSET Domains) /\ call[t].left \in SUBSET IPs
<1>1. call[t] \in CallRecords
  BY DEF ThreadsTypeOK
<1> QED  BY <1>1 DEF CallRecords

\* The empty map is a map to anything.
LEMMA EmptyMapType == \A V : EmptyMap \in MapsTo(V)
<1> TAKE V
<1>1. EmptyMap \in [{} -> V]
  BY DEF EmptyMap
<1> QED  BY <1>1 DEF MapsTo

\* A call is the record of its fields.
LEMMA CallIsRecord ==
    ASSUME NEW c \in CallRecords
    PROVE  c = [pc |-> c.pc, affected |-> c.affected, todo |-> c.todo, domains |-> c.domains,
                copied |-> c.copied, left |-> c.left]
BY DEF CallRecords

\* The record that GoTo makes of a call.
LEMMA GoToRecord ==
    ASSUME NEW c \in CallRecords, NEW pc \in PCs
    PROVE  [c EXCEPT !.pc = pc] =
               [pc |-> pc, affected |-> c.affected, todo |-> c.todo, domains |-> c.domains,
                copied |-> c.copied, left |-> c.left]
<1> DEFINE d == [c EXCEPT !.pc = pc]
<1>1. /\ d \in CallRecords
      /\ d.pc = pc /\ d.affected = c.affected /\ d.todo = c.todo
      /\ d.domains = c.domains /\ d.copied = c.copied /\ d.left = c.left
  BY DEF CallRecords
<1> HIDE DEF d
<1>2. d = [pc |-> pc, affected |-> c.affected, todo |-> c.todo, domains |-> c.domains,
           copied |-> c.copied, left |-> c.left]
  BY <1>1, CallIsRecord
<1> QED  BY <1>2 DEF d

\* The record that a read of the pod index makes of a call.
LEMMA TodoRecord ==
    ASSUME NEW c \in CallRecords, NEW pc \in PCs, NEW todo \in Seq(Infos)
    PROVE  [c EXCEPT !.pc = pc, !.todo = todo] =
               [pc |-> pc, affected |-> c.affected, todo |-> todo, domains |-> c.domains,
                copied |-> c.copied, left |-> c.left]
<1> DEFINE d == [c EXCEPT !.pc = pc, !.todo = todo]
<1>1. /\ d \in CallRecords
      /\ d.pc = pc /\ d.affected = c.affected /\ d.todo = todo
      /\ d.domains = c.domains /\ d.copied = c.copied /\ d.left = c.left
  BY DEF CallRecords
<1> HIDE DEF d
<1>2. d = [pc |-> pc, affected |-> c.affected, todo |-> todo, domains |-> c.domains,
           copied |-> c.copied, left |-> c.left]
  BY <1>1, CallIsRecord
<1> QED  BY <1>2 DEF d

\* The record that the first half of RecalculateForPolicyChange makes of a call.
LEMMA AffectedRecord ==
    ASSUME NEW c \in CallRecords, NEW pc \in PCs, NEW affected \in MapsTo(LabelMaps)
    PROVE  [c EXCEPT !.pc = pc, !.affected = affected] =
               [pc |-> pc, affected |-> affected, todo |-> c.todo, domains |-> c.domains,
                copied |-> c.copied, left |-> c.left]
<1> DEFINE d == [c EXCEPT !.pc = pc, !.affected = affected]
<1>1. /\ d \in CallRecords
      /\ d.pc = pc /\ d.affected = affected /\ d.todo = c.todo
      /\ d.domains = c.domains /\ d.copied = c.copied /\ d.left = c.left
  BY DEF CallRecords
<1> HIDE DEF d
<1>2. d = [pc |-> pc, affected |-> affected, todo |-> c.todo, domains |-> c.domains,
           copied |-> c.copied, left |-> c.left]
  BY <1>1, CallIsRecord
<1> QED  BY <1>2 DEF d

\* The record that its second half makes of a call.
LEMMA AllRecord ==
    ASSUME NEW c \in CallRecords, NEW pc \in PCs, NEW affected \in MapsTo(LabelMaps), NEW todo \in Seq(Infos)
    PROVE  [c EXCEPT !.pc = pc, !.affected = affected, !.todo = todo] =
               [pc |-> pc, affected |-> affected, todo |-> todo, domains |-> c.domains,
                copied |-> c.copied, left |-> c.left]
<1> DEFINE d == [c EXCEPT !.pc = pc, !.affected = affected, !.todo = todo]
<1>1. /\ d \in CallRecords
      /\ d.pc = pc /\ d.affected = affected /\ d.todo = todo
      /\ d.domains = c.domains /\ d.copied = c.copied /\ d.left = c.left
  BY DEF CallRecords
<1> HIDE DEF d
<1>2. d = [pc |-> pc, affected |-> affected, todo |-> todo, domains |-> c.domains,
           copied |-> c.copied, left |-> c.left]
  BY <1>1, CallIsRecord
<1> QED  BY <1>2 DEF d

\* The record that a read of the policy index makes of a call.
LEMMA DomainsRecord ==
    ASSUME NEW c \in CallRecords, NEW pc \in PCs, NEW domains \in SUBSET Domains
    PROVE  [c EXCEPT !.pc = pc, !.domains = domains] =
               [pc |-> pc, affected |-> c.affected, todo |-> c.todo, domains |-> domains,
                copied |-> c.copied, left |-> c.left]
<1> DEFINE d == [c EXCEPT !.pc = pc, !.domains = domains]
<1>1. /\ d \in CallRecords
      /\ d.pc = pc /\ d.affected = c.affected /\ d.todo = c.todo
      /\ d.domains = domains /\ d.copied = c.copied /\ d.left = c.left
  BY DEF CallRecords
<1> HIDE DEF d
<1>2. d = [pc |-> pc, affected |-> c.affected, todo |-> c.todo, domains |-> domains,
           copied |-> c.copied, left |-> c.left]
  BY <1>1, CallIsRecord
<1> QED  BY <1>2 DEF d

\* The record that a store into the cache makes of a call.
LEMMA StoredRecord ==
    ASSUME NEW c \in CallRecords, NEW pc \in PCs, NEW domains \in SUBSET Domains, NEW todo \in Seq(Infos)
    PROVE  [c EXCEPT !.pc = pc, !.domains = domains, !.todo = todo] =
               [pc |-> pc, affected |-> c.affected, todo |-> todo, domains |-> domains,
                copied |-> c.copied, left |-> c.left]
<1> DEFINE d == [c EXCEPT !.pc = pc, !.domains = domains, !.todo = todo]
<1>1. /\ d \in CallRecords
      /\ d.pc = pc /\ d.affected = c.affected /\ d.todo = todo
      /\ d.domains = domains /\ d.copied = c.copied /\ d.left = c.left
  BY DEF CallRecords
<1> HIDE DEF d
<1>2. d = [pc |-> pc, affected |-> c.affected, todo |-> todo, domains |-> domains,
           copied |-> c.copied, left |-> c.left]
  BY <1>1, CallIsRecord
<1> QED  BY <1>2 DEF d

\* The record that RLock of a handler makes of a call.
LEMMA LeftRecord ==
    ASSUME NEW c \in CallRecords, NEW pc \in PCs, NEW left \in SUBSET IPs
    PROVE  [c EXCEPT !.pc = pc, !.left = left] =
               [pc |-> pc, affected |-> c.affected, todo |-> c.todo, domains |-> c.domains,
                copied |-> c.copied, left |-> left]
<1> DEFINE d == [c EXCEPT !.pc = pc, !.left = left]
<1>1. /\ d \in CallRecords
      /\ d.pc = pc /\ d.affected = c.affected /\ d.todo = c.todo
      /\ d.domains = c.domains /\ d.copied = c.copied /\ d.left = left
  BY DEF CallRecords
<1> HIDE DEF d
<1>2. d = [pc |-> pc, affected |-> c.affected, todo |-> c.todo, domains |-> c.domains,
           copied |-> c.copied, left |-> left]
  BY <1>1, CallIsRecord
<1> QED  BY <1>2 DEF d

\* The record that the copy of an entry makes of a call.
LEMMA CopiedRecord ==
    ASSUME NEW c \in CallRecords, NEW left \in SUBSET IPs, NEW copied \in MapsTo(SUBSET Domains)
    PROVE  [c EXCEPT !.left = left, !.copied = copied] =
               [pc |-> c.pc, affected |-> c.affected, todo |-> c.todo, domains |-> c.domains,
                copied |-> copied, left |-> left]
<1> DEFINE d == [c EXCEPT !.left = left, !.copied = copied]
<1>1. /\ d \in CallRecords
      /\ d.pc = c.pc /\ d.affected = c.affected /\ d.todo = c.todo
      /\ d.domains = c.domains /\ d.copied = copied /\ d.left = left
  BY DEF CallRecords
<1> HIDE DEF d
<1>2. d = [pc |-> c.pc, affected |-> c.affected, todo |-> c.todo, domains |-> c.domains,
           copied |-> copied, left |-> left]
  BY <1>1, CallIsRecord
<1> QED  BY <1>2 DEF d

\* A goroutine that only goes on.
LEMMA GoToIs ==
    ASSUME ThreadsTypeOK, NEW t \in Threads, NEW pc \in PCs, pc \in PCsOf(t),
           GoTo(t, pc)
    PROVE  CallsAfter(t, pc, call[t].affected, call[t].todo, call[t].domains,
                      call[t].copied, call[t].left)
<1>1. call[t] \in CallRecords
  BY DEF ThreadsTypeOK
<1>2. call' = [call EXCEPT ![t] = [call[t] EXCEPT !.pc = pc]]
  BY DEF GoTo
<1>3. CallStep(t, pc, call[t].affected, call[t].todo, call[t].domains,
               call[t].copied, call[t].left)
  BY <1>1, <1>2, GoToRecord DEF CallStep
<1>4. /\ call[t].affected \in MapsTo(LabelMaps)
      /\ call[t].todo \in Seq(Infos) /\ call[t].domains \in SUBSET Domains
      /\ call[t].copied \in MapsTo(SUBSET Domains) /\ call[t].left \in SUBSET IPs
  BY CallFields
<1> QED  BY <1>3, <1>4, CallStepIs

\* The end of a call.
LEMMA ReturnIs ==
    ASSUME ThreadsTypeOK, NEW t \in Threads, NEW m, Return(t, m)
    PROVE  CallsAfter(t, "idle", EmptyMap, <<>>, {}, EmptyMap, {})
<1>1. CallStep(t, "idle", EmptyMap, <<>>, {}, EmptyMap, {})
  BY DEF Return, NoCall, CallStep
<1>2. "idle" \in PCs /\ "idle" \in PCsOf(t) /\ <<>> \in Seq(Infos)
  BY SMT DEF PCs, PCsOf
<1> QED  BY <1>1, <1>2, EmptyMapType, CallStepIs

\* What each place in the code is to each mutex.
LEMMA Roles ==
    /\ \A pc \in Claiming :
          Role(pc, "bc") = "writer" /\ Role(pc, "pods") = "none" /\ Role(pc, "policies") = "none"
    /\ \A pc \in ReadingPods :
          Role(pc, "bc") = "writer" /\ Role(pc, "pods") = "reader" /\ Role(pc, "policies") = "none"
    /\ \A pc \in {"collected", "loop", "store"} :
          Role(pc, "bc") = "writer" /\ Role(pc, "pods") = "none" /\ Role(pc, "policies") = "none"
    /\ Role("getPolicies", "bc") = "writer" /\ Role("getPolicies", "pods") = "none"
    /\ Role("getPolicies", "policies") = "reader"
    /\ \A pc \in ReadingCache :
          Role(pc, "bc") = "reader" /\ Role(pc, "pods") = "none" /\ Role(pc, "policies") = "none"
    /\ \A m \in Mutexes : Role("idle", m) = "none"
    /\ Role("writePods", "bc") = "none" /\ Role("writePods", "pods") = "writer"
    /\ Role("writePods", "policies") = "none"
    /\ Role("writePolicies", "bc") = "none" /\ Role("writePolicies", "pods") = "none"
    /\ Role("writePolicies", "policies") = "writer"
BY DEF Role, Mutexes, Claiming, Inside, ReadingPods, ReadingCache

\* A step that leaves the mutexes alone and changes no goroutine's part in them
\* keeps them in agreement with the goroutines.
LEMMA SameRoles ==
    ASSUME LockInv, UNCHANGED lock,
           \A u \in Threads : \A m \in Mutexes : Role(call'[u].pc, m) = Role(call[u].pc, m),
           \A u \in Threads : call'[u].pc \in Inside => call[u].pc \in Inside
    PROVE  LockInv'
<1>1. ASSUME NEW m \in Mutexes, NEW t \in Threads
      PROVE  /\ lock[m].writer = t <=> Role(call'[t].pc, m) = "writer"
             /\ t \in lock[m].readers \cup lock[m].waiting <=> Role(call'[t].pc, m) = "reader"
  <2>1. Role(call'[t].pc, m) = Role(call[t].pc, m)
    OBVIOUS
  <2>2. /\ lock[m].writer = t <=> Role(call[t].pc, m) = "writer"
        /\ t \in lock[m].readers \cup lock[m].waiting <=> Role(call[t].pc, m) = "reader"
    BY DEF LockInv
  <2> QED  BY <2>1, <2>2
<1>2. \A t \in Threads : call'[t].pc \in Inside => lock["bc"].readers = {}
  BY DEF LockInv
<1>3. \A m \in Mutexes :
          /\ lock[m].readers \cap lock[m].waiting = {}
          /\ lock[m].writer = NoThread => lock[m].waiting = {}
  BY DEF LockInv
<1> QED  BY <1>1, <1>2, <1>3 DEF LockInv

\* Two goroutines are never both past the Lock of the cache.
LEMMA CacheExclusive ==
    ASSUME LockInv, NEW t \in Threads, NEW u \in Threads,
           call[t].pc \in Claiming \cup Inside, call[u].pc \in Claiming \cup Inside
    PROVE  t = u
<1>1. Role(call[t].pc, "bc") = "writer" /\ Role(call[u].pc, "bc") = "writer"
  BY DEF Role
<1> QED  BY SMT, <1>1 DEF LockInv, Mutexes

\* GetBlocklist is undisturbed where neither the cache nor its readers change,
\* and where there are no readers.
LEMMA CopiedSame ==
    ASSUME CopiedInv, \A h \in Handlers : call'[h] = call[h],
           lock'["bc"].readers = lock["bc"].readers, entries' = entries
    PROVE  CopiedInv'
BY SMT DEF CopiedInv

\* The same where the cache has no readers, whatever is written.
LEMMA CopiedAlone ==
    ASSUME CopiedInv, \A h \in Handlers : call'[h] = call[h],
           lock["bc"].readers = {}, entries' \in MapsTo(SUBSET Domains)
    PROVE  CopiedInv'
<1>0. \A h \in Handlers : call'[h].pc = "idle" => call'[h].copied = EmptyMap
  BY DEF CopiedInv
<1> SUFFICES ASSUME NEW h \in Handlers, call'[h].pc = "getBlocklist"
             PROVE  IF h \in lock'["bc"].readers
                    THEN call'[h].copied =
                             [ip \in {i \in DOMAIN entries' \ call'[h].left : entries'[i] # {}}
                                 |-> entries'[ip]]
                    ELSE call'[h].left = IPs /\ call'[h].copied = EmptyMap
  BY <1>0 DEF CopiedInv
<1>1. call'[h].left = IPs /\ call'[h].copied = EmptyMap
  BY DEF CopiedInv
<1>2. DOMAIN entries' \subseteq IPs
  BY DEF MapsTo
<1>3. {i \in DOMAIN entries' \ call'[h].left : entries'[i] # {}} = {}
  BY <1>1, <1>2
<1>4. [ip \in {} |-> entries'[ip]] = EmptyMap
  BY DEF EmptyMap
<1> QED  BY <1>1, <1>3, <1>4

\* The reconcilers and the handlers are different goroutines.
LEMMA ThreadsDiffer ==
    /\ podR \in Threads /\ policyR \in Threads /\ podR # policyR /\ Handlers \subseteq Threads
    /\ \A h \in Handlers : h # podR /\ h # policyR
BY ThreadsAssumption DEF Threads, podR, policyR

\* A method begins with Lock.
LEMMA StartLockedKeeps ==
    ASSUME ThreadsInv, NEW t \in {podR, policyR}, NEW m \in Mutexes, NEW pc \in PCsOf(t),
           StartLocked(t, m, pc),
           \/ m = "bc" /\ pc \in Claiming
           \/ m = "pods" /\ pc = "writePods"
           \/ m = "policies" /\ pc = "writePolicies"
    PROVE  ThreadsInv'
<1>1. t \in Threads /\ pc \in PCs /\ call[t].pc = "idle"
  BY ThreadsDiffer DEF PCs, StartLocked
<1>2. /\ pc \notin Inside /\ Role(pc, m) = "writer"
      /\ \A n \in Mutexes \ {m} : Role(pc, n) = "none"
  BY SMT, Roles DEF Mutexes, Inside, ReadingPods, Claiming
<1>3. CallsAfter(t, pc, call[t].affected, call[t].todo, call[t].domains, call[t].copied,
                 call[t].left)
  BY <1>1, GoToIs DEF StartLocked, ThreadsInv
<1> USE DEF CallsAfter
<1>4. LockStep(t, pc, m, Claim(lock[m], t))
  BY <1>1, <1>2, <1>3, Roles DEF LockStep, StartLocked
<1>6. lock' \in [Mutexes -> MutexRecords] /\ LockInv'
  BY <1>1, <1>2, <1>4, LockKeeps, Roles DEF StartLocked, ThreadsInv
<1>7. UNCHANGED <<pods, ipToPod, policies, entries>>
  BY DEF StartLocked, podIndexVars
<1>8. ThreadsTypeOK'
  BY <1>3, <1>6, <1>7 DEF ThreadsInv, ThreadsTypeOK
<1>9. call[t].todo = <<>>
  BY <1>1 DEF ThreadsInv, TodoInv
<1>10. TodoInv'
  BY SMT, <1>2, <1>3, <1>7, <1>9, ThreadsDiffer
     DEF ThreadsInv, TodoInv, Inside, ReadingPods
<1>11. AffectedInv'
  BY <1>1, <1>2, <1>3, <1>7, ThreadsDiffer DEF ThreadsInv, AffectedInv, Inside, ReadingPods
<1>12. lock'["bc"].readers = lock["bc"].readers
  BY SMT, <1>1, ClaimFields DEF StartLocked, Mutexes, ThreadsInv, ThreadsTypeOK
<1>13. CopiedInv'
  BY <1>3, <1>7, <1>12, CopiedSame, ThreadsDiffer DEF ThreadsInv
<1> QED
  BY <1>6, <1>7, <1>8, <1>10, <1>11, <1>13
     DEF ThreadsInv, PodIndexTypeOK, PodLookups, ReverseLookupSound,
         ReverseLookupComplete, PolicyIndexTypeOK

\* Past Lock, an index is locked for reading.
LEMMA ReadIndexKeeps ==
    ASSUME ThreadsInv, NEW t \in {podR, policyR}, NEW at, NEW m \in Mutexes, NEW pc \in PCsOf(t),
           ReadIndex(t, at, m, pc), at \in Claiming \cup {"collected", "loop"},
           \/ m = "pods" /\ pc \in ReadingPods /\ at # "loop"
           \/ m = "policies" /\ pc = "getPolicies" /\ at = "loop" /\ call[t].todo # <<>>,
           pc = "getNew" <=> at = "collected"
    PROVE  ThreadsInv'
<1>1. t \in Threads /\ pc \in PCs /\ pc \in Inside /\ call[t].pc = at
  BY ThreadsDiffer DEF PCs, ReadIndex, Inside
<1>2. /\ Role(at, m) = "none" /\ Role(pc, m) = "reader" /\ m # "bc"
      /\ \A n \in Mutexes \ {m} : Role(pc, n) = Role(at, n)
  BY SMT, Roles DEF Mutexes
<1>3. lock["bc"].readers = {}
  BY DEF ReadIndex, WriteLocked
<1>4. CallsAfter(t, pc, call[t].affected, call[t].todo, call[t].domains, call[t].copied,
                 call[t].left)
  BY <1>1, GoToIs DEF ReadIndex, ThreadsInv
<1> USE DEF CallsAfter
<1>5. LockStep(t, pc, m, RLock(lock[m], t))
  BY <1>1, <1>2, <1>4 DEF LockStep, ReadIndex
<1>6. lock' \in [Mutexes -> MutexRecords] /\ LockInv'
  BY <1>1, <1>2, <1>3, <1>5, RLockKeeps DEF ThreadsInv
<1>7. UNCHANGED <<pods, ipToPod, policies, entries>>
  BY DEF ReadIndex, podIndexVars
<1>8. ThreadsTypeOK'
  BY <1>4, <1>6, <1>7 DEF ThreadsInv, ThreadsTypeOK
<1>9. TodoInv'
  BY SMT, <1>1, <1>4, <1>7, ThreadsDiffer DEF ThreadsInv, TodoInv, Claiming, ReadingPods
<1>10. AffectedInv'
  BY <1>1, <1>4, <1>7, ThreadsDiffer DEF ThreadsInv, AffectedInv, Claiming, ReadingPods
<1>11. CopiedInv'
  BY <1>3, <1>4, <1>7, CopiedAlone, ThreadsDiffer DEF ThreadsInv, ThreadsTypeOK
<1> QED
  BY <1>6, <1>7, <1>8, <1>9, <1>10, <1>11
     DEF ThreadsInv, PodIndexTypeOK, PodLookups, ReverseLookupSound,
         ReverseLookupComplete, PolicyIndexTypeOK

\* What a step that ends a read of an index leaves to show.
LEMMA AfterRead ==
    ASSUME ThreadsInv, NEW t \in {podR, policyR}, NEW at, NEW m \in Mutexes,
           HasRead(t, at, m),
           \/ m = "pods" /\ at \in ReadingPods
           \/ m = "policies" /\ at = "getPolicies",
           NEW pc \in {"collected", "loop", "store"},
           NEW affected, NEW todo, NEW domains, NEW copied, NEW left,
           CallsAfter(t, pc, affected, todo, domains, copied, left),
           entries' \in MapsTo(SUBSET Domains), TodoInv', AffectedInv'
    PROVE  ThreadsInv'
<1> USE DEF CallsAfter
<1>1. t \in Threads /\ call[t].pc = at /\ at \in Inside
  BY ThreadsDiffer DEF HasRead, Inside
<1>2. /\ Role(pc, m) = "none"
      /\ \A n \in Mutexes \ {m} : Role(pc, n) = Role(at, n)
  BY SMT, Roles DEF Mutexes
<1>3. lock["bc"].readers = {}
  BY <1>1 DEF ThreadsInv, LockInv
<1>4. LockStep(t, pc, m, RUnlock(lock[m], t))
  BY <1>1, <1>2 DEF LockStep, HasRead
<1>5. lock' \in [Mutexes -> MutexRecords] /\ LockInv'
  BY <1>1, <1>2, <1>4, RUnlockKeeps DEF ThreadsInv, HasRead
<1>6. UNCHANGED <<pods, ipToPod, policies>>
  BY DEF HasRead, podIndexVars
<1>7. ThreadsTypeOK'
  BY <1>5 DEF ThreadsTypeOK
<1>8. CopiedInv'
  BY <1>3, CopiedAlone, ThreadsDiffer DEF ThreadsInv
<1> QED
  BY <1>5, <1>6, <1>7, <1>8
     DEF ThreadsInv, PodIndexTypeOK, PodLookups, ReverseLookupSound,
         ReverseLookupComplete, PolicyIndexTypeOK

\* What the end of a method leaves to show.
LEMMA AfterReturn ==
    ASSUME ThreadsInv, NEW t \in {podR, policyR}, NEW m \in Mutexes,
           WriteLocked(lock[m], t), Return(t, m), entries' \in MapsTo(SUBSET Domains),
           \/ m = "bc" /\ call[t].pc \in Claiming \cup {"loop"}
           \/ m = "pods" /\ call[t].pc = "writePods" /\ UNCHANGED entries
           \/ m = "policies" /\ call[t].pc = "writePolicies" /\ UNCHANGED entries,
           t = podR => UNCHANGED policies, t = policyR => UNCHANGED pods,
           (PodIndexTypeOK /\ PodLookups /\ PolicyIndexTypeOK)'
    PROVE  ThreadsInv'
<1>1. t \in Threads
  BY ThreadsDiffer
<1>2. CallsAfter(t, "idle", EmptyMap, <<>>, {}, EmptyMap, {})
  BY <1>1, ReturnIs DEF ThreadsInv
<1> USE DEF CallsAfter
<1>3. "idle" \notin Inside /\ \A n \in Mutexes \ {m} : Role(call[t].pc, n) = Role("idle", n)
  BY SMT, Roles DEF Mutexes, Inside, ReadingPods
<1>4. LockStep(t, "idle", m, Unlock(lock[m]))
  BY <1>2, <1>3 DEF LockStep, Return
<1>5. lock' \in [Mutexes -> MutexRecords] /\ LockInv'
  BY <1>1, <1>3, <1>4, UnlockKeeps, Roles DEF ThreadsInv
<1>6. ThreadsTypeOK'
  BY <1>2, <1>5 DEF ThreadsTypeOK
<1>7. TodoInv'
  BY <1>2, ThreadsDiffer, ZenonT(30) DEF ThreadsInv, TodoInv
<1>8. AffectedInv'
  BY <1>2, ThreadsDiffer DEF ThreadsInv, AffectedInv
<1>9. CopiedInv'
  <2>1. CASE m = "bc"
    BY <1>2, <2>1, CopiedAlone, ThreadsDiffer DEF ThreadsInv, WriteLocked
  <2>2. CASE m # "bc"
    <3>1. lock'["bc"] = lock["bc"]
      BY <2>2 DEF Return, ThreadsInv, ThreadsTypeOK, Mutexes
    <3> QED  BY <1>2, <2>2, <3>1, CopiedSame, ThreadsDiffer DEF ThreadsInv
  <2> QED  BY <2>1, <2>2
<1> QED
  BY <1>5, <1>6, <1>7, <1>8, <1>9 DEF ThreadsInv

-----------------------------------------------------------------------------
(* What the indexes return.                                                *)

\* A read of the pod index returns pods.
LEMMA FoundPods ==
    ASSUME PodIndexTypeOK, NEW S \in SUBSET DOMAIN pods
    PROVE  {pods[n] : n \in S} \subseteq Infos
<1>1. \A n \in S : pods[n] \in Infos
  <2> TAKE n \in S
  <2>1. n \in PodNames /\ pods[n] \in PodInfo(n)
    BY DEF PodIndexTypeOK
  <2> QED  BY <2>1 DEF PodInfo, Infos, IPs
<1> QED  BY <1>1

\* A batch maps IPs to labels.
LEMMA BatchIs ==
    ASSUME PodIndexTypeOK, NEW S \in SUBSET DOMAIN pods, NEW batch \in Now!BatchesOf(S)
    PROVE  batch \in MapsTo(LabelMaps)
<1> DEFINE found == {pods[n] : n \in S}
           ips == {info.IP : info \in found}
<1>1. found \subseteq Infos
  BY FoundPods
<1>2. batch \in [ips -> {info.Labels : info \in found}]
  BY DEF Now!BatchesOf
<1> HIDE DEF found
<1>3. ips \in SUBSET IPs /\ {info.Labels : info \in found} \subseteq LabelMaps
  BY <1>1 DEF Infos
<1>4. batch \in [ips -> LabelMaps] /\ DOMAIN batch = ips
  BY <1>2, <1>3
<1> QED  BY <1>3, <1>4 DEF MapsTo

\* affectedPods as a set of pods, one for each IP.
InfosOf(m) == {[IP |-> ip, Labels |-> m[ip]] : ip \in DOMAIN m}

\* They have IPs and labels.
LEMMA InfosOfIs == ASSUME NEW m \in MapsTo(LabelMaps) PROVE InfosOf(m) \subseteq Infos
BY SMT DEF MapsTo, Infos, InfosOf

\* The pods of the old selector that are not replaced by one of the new, and
\* these, as one map.
Merged(old, batch) ==
    [ip \in DOMAIN old \cup DOMAIN batch |->
        IF ip \in DOMAIN batch THEN batch[ip] ELSE old[ip]]

\* The two loops of RecalculateForPolicyChange fill the map in this way.
LEMMA MergedIs ==
    ASSUME NEW old \in MapsTo(LabelMaps), NEW batch \in MapsTo(LabelMaps)
    PROVE  /\ Merged(old, batch) \in MapsTo(LabelMaps)
           /\ InfosOf(Merged(old, batch)) =
                  {[IP |-> ip, Labels |-> batch[ip]] : ip \in DOMAIN batch}
                  \cup {[IP |-> ip, Labels |-> old[ip]] : ip \in DOMAIN old \ DOMAIN batch}
<1>1. DOMAIN Merged(old, batch) = DOMAIN old \cup DOMAIN batch
  BY DEF Merged
<1>2. Merged(old, batch) \in [DOMAIN old \cup DOMAIN batch -> LabelMaps]
  BY SMT DEF Merged, MapsTo
<1>3. DOMAIN old \cup DOMAIN batch \in SUBSET IPs
  BY DEF MapsTo
<1>4. Merged(old, batch) \in MapsTo(LabelMaps)
  BY <1>2, <1>3 DEF MapsTo
<1>5. InfosOf(Merged(old, batch)) =
          {[IP |-> ip, Labels |-> batch[ip]] : ip \in DOMAIN batch}
          \cup {[IP |-> ip, Labels |-> old[ip]] : ip \in DOMAIN old \ DOMAIN batch}
  BY <1>1 DEF InfosOf, Merged
<1> QED  BY <1>4, <1>5

\* What the policies block are domains.
LEMMA BlockedByType ==
    ASSUME PolicyIndexTypeOK, NEW labels
    PROVE  BlockedBy(policies, labels) \in SUBSET Domains
<1>1. \A q \in PolicyNames : SpecsOf[q] \subseteq DnsPolicySpec
  BY ObjectsAssumption
<1>2. \A q \in DOMAIN policies : policies[q] \in DnsPolicySpec
  BY <1>1 DEF PolicyIndexTypeOK
<1>3. \A spec \in DnsPolicySpec : spec.BlockList \in SUBSET Domains
  BY SMT DEF DnsPolicySpec
<1> QED  BY <1>2, <1>3 DEF BlockedBy

\* The cache's own operators, over the entries and policies of now.
LEMMA NowIs ==
    /\ \A labels : Now!BlockedFor(labels) = BlockedBy(policies, labels)
    /\ \A batch : Now!Recalculated(batch) = RecalculatedBy(entries, policies, batch)
<1>1. \A labels : Now!BlockedFor(labels) = BlockedBy(policies, labels)
  BY DEF Now!BlockedFor, Now!LabelsContainAll, LabelsContainAll, BlockedBy
<1>2. \A batch : Now!Recalculated(batch) = RecalculatedBy(entries, policies, batch)
  BY <1>1 DEF Now!Recalculated, RecalculatedBy
<1> QED  BY <1>1, <1>2

-----------------------------------------------------------------------------
(* The steps of the reconcilers keep the invariant.                        *)

\* Upsert and Delete of the pod index.
LEMMA WritesPodsKeeps == ThreadsInv /\ WritesPods => ThreadsInv'
<1> SUFFICES ASSUME ThreadsInv, WritesPods PROVE ThreadsInv'
  OBVIOUS
<1>1. (PodIndexTypeOK /\ PodLookups)'
  BY PodIndexStep DEF WritesPods, ThreadsInv, PodIndexInv
<1>2. PolicyIndexTypeOK' /\ UNCHANGED <<policies, entries>>
  BY DEF WritesPods, ThreadsInv, PolicyIndexTypeOK
<1>3. WriteLocked(lock["pods"], podR) /\ Return(podR, "pods") /\ call[podR].pc = "writePods"
      /\ "pods" \in Mutexes /\ entries' \in MapsTo(SUBSET Domains)
  BY <1>2 DEF WritesPods, Mutexes, ThreadsInv, ThreadsTypeOK
<1> QED  BY <1>1, <1>2, <1>3, AfterReturn, ThreadsDiffer

\* Entries stay a map from IPs to domains.
LEMMA EntriesType ==
    ASSUME NEW ents \in MapsTo(SUBSET Domains)
    PROVE  /\ \A ip : Without(ents, {ip}) \in MapsTo(SUBSET Domains)
           /\ \A ip \in IPs : \A blocked \in SUBSET Domains :
                 Put(ents, ip, blocked) \in MapsTo(SUBSET Domains)
<1>1. PICK D \in SUBSET IPs : ents \in [D -> SUBSET Domains]
  BY DEF MapsTo
<1>2. ASSUME NEW ip PROVE Without(ents, {ip}) \in MapsTo(SUBSET Domains)
  <2>1. Without(ents, {ip}) \in [D \ {ip} -> SUBSET Domains]
    BY <1>1 DEF Without
  <2>2. D \ {ip} \in SUBSET IPs
    OBVIOUS
  <2> QED  BY <2>1, <2>2 DEF MapsTo
<1>3. ASSUME NEW ip \in IPs, NEW blocked \in SUBSET Domains
      PROVE  Put(ents, ip, blocked) \in MapsTo(SUBSET Domains)
  <2>1. Put(ents, ip, blocked) \in [D \cup {ip} -> SUBSET Domains]
    BY <1>1 DEF Put
  <2>2. D \cup {ip} \in SUBSET IPs
    OBVIOUS
  <2> QED  BY <2>1, <2>2 DEF MapsTo
<1> QED  BY <1>2, <1>3

\* RemovePod of the cache.
LEMMA RemovesPodKeeps == ThreadsInv /\ RemovesPod => ThreadsInv'
<1> SUFFICES ASSUME ThreadsInv, RemovesPod PROVE ThreadsInv'
  OBVIOUS
<1>1. UNCHANGED <<pods, ipToPod, policies>>
  BY DEF RemovesPod, podIndexVars
<1>2. (PodIndexTypeOK /\ PodLookups /\ PolicyIndexTypeOK)'
  BY <1>1 DEF ThreadsInv, PodIndexTypeOK, PodLookups, ReverseLookupSound,
         ReverseLookupComplete, PolicyIndexTypeOK
<1>3. entries' \in MapsTo(SUBSET Domains)
  BY EntriesType DEF RemovesPod, ThreadsInv, ThreadsTypeOK
<1>4. WriteLocked(lock["bc"], podR) /\ Return(podR, "bc") /\ call[podR].pc \in Claiming
      /\ "bc" \in Mutexes
  BY DEF RemovesPod, Mutexes, Claiming
<1> QED  BY <1>1, <1>2, <1>3, <1>4, AfterReturn, ThreadsDiffer

\* Upsert and Delete of the policy index.
LEMMA WritesPoliciesKeeps == ThreadsInv /\ WritesPolicies => ThreadsInv'
<1> SUFFICES ASSUME ThreadsInv, WritesPolicies PROVE ThreadsInv'
  OBVIOUS
<1>1. UNCHANGED <<pods, ipToPod, entries>>
  BY DEF WritesPolicies, podIndexVars
<1>2. (PodIndexTypeOK /\ PodLookups)'
  BY <1>1 DEF ThreadsInv, PodIndexTypeOK, PodLookups, ReverseLookupSound,
         ReverseLookupComplete
<1>3. PolicyIndexTypeOK'
  BY DEF WritesPolicies, ThreadsInv, PolicyIndexTypeOK, UpsertPolicy, DeletePolicy, Put, Without
<1>4. WriteLocked(lock["policies"], policyR) /\ Return(policyR, "policies")
      /\ call[policyR].pc = "writePolicies" /\ "policies" \in Mutexes
      /\ entries' \in MapsTo(SUBSET Domains)
  BY <1>1 DEF WritesPolicies, Mutexes, ThreadsInv, ThreadsTypeOK
<1> QED  BY <1>1, <1>2, <1>3, <1>4, AfterReturn, ThreadsDiffer

\* A slice of pods to recalculate becomes the rest of the call.
LEMMA TodoIs ==
    ASSUME ThreadsTypeOK, NEW t \in {podR, policyR}, NEW s \in Seq(Infos),
           call' = [call EXCEPT ![t].pc = "loop", ![t].todo = s]
    PROVE  CallsAfter(t, "loop", call[t].affected, s, call[t].domains, call[t].copied,
                      call[t].left)
<1>1. t \in Threads /\ "loop" \in PCs /\ "loop" \in PCsOf(t)
  BY ThreadsDiffer DEF PCs, PCsOf, Inside
<1>2. call[t] \in CallRecords /\ call \in [Threads -> CallRecords]
  BY <1>1 DEF ThreadsTypeOK
<1>3. call' = [call EXCEPT ![t] = [call[t] EXCEPT !.pc = "loop", !.todo = s]]
  BY <1>1, <1>2
<1>4. CallStep(t, "loop", call[t].affected, s, call[t].domains, call[t].copied, call[t].left)
  BY <1>1, <1>2, <1>3, TodoRecord, ZenonT(30) DEF CallStep
<1>5. /\ call[t].affected \in MapsTo(LabelMaps) /\ call[t].domains \in SUBSET Domains
      /\ call[t].copied \in MapsTo(SUBSET Domains) /\ call[t].left \in SUBSET IPs
  BY <1>1, CallFields
<1> QED  BY <1>1, <1>4, <1>5, CallStepIs

\* RecalculatePod has read the pod index.
LEMMA GetsPodKeeps == ThreadsInv /\ GetsPod => ThreadsInv'
<1> SUFFICES ASSUME ThreadsInv, GetsPod PROVE ThreadsInv'
  OBVIOUS
<1>1. PICK n \in PodNames :
          call' = [call EXCEPT ![podR].pc = "loop",
                      ![podR].todo = IF n \in DOMAIN pods THEN <<pods[n]>> ELSE <<>>]
  BY DEF GetsPod
<1> DEFINE s == IF n \in DOMAIN pods THEN <<pods[n]>> ELSE <<>>
<1>2. s \in Seq(Infos)
  <2>1. n \in DOMAIN pods => pods[n] \in Infos
    BY FoundPods DEF ThreadsInv
  <2> QED  BY SMT, <2>1
<1>3. s # <<>> => \E m \in DOMAIN pods : s = <<pods[m]>>
  OBVIOUS
<1> HIDE DEF s
<1>4. CallsAfter(podR, "loop", call[podR].affected, s, call[podR].domains, call[podR].copied,
                 call[podR].left)
  BY <1>1, <1>2, TodoIs DEF ThreadsInv, s
<1>5. HasRead(podR, "getPod", "pods") /\ UNCHANGED <<pods, policies, entries>>
  BY DEF GetsPod, HasRead, podIndexVars
<1>6. TodoInv' /\ AffectedInv'
  BY <1>3, <1>4, <1>5, ThreadsDiffer DEF CallsAfter, ThreadsInv, TodoInv, AffectedInv
<1>7. "pods" \in Mutexes /\ "getPod" \in ReadingPods /\ entries' \in MapsTo(SUBSET Domains)
  BY <1>5 DEF Mutexes, ReadingPods, ThreadsInv, ThreadsTypeOK
<1> QED  BY <1>4, <1>5, <1>6, <1>7, AfterRead

\* RecalculateForPolicy and RecalculateAll have read the pod index.
LEMMA SliceRead ==
    ASSUME ThreadsInv, NEW at \in {"getMatching", "getAll"}, HasRead(policyR, at, "pods"),
           NEW s \in Seq(Infos), entries' \in MapsTo(SUBSET Domains),
           call' = [call EXCEPT ![policyR].pc = "loop", ![policyR].todo = s]
    PROVE  ThreadsInv'
<1>1. CallsAfter(policyR, "loop", call[policyR].affected, s, call[policyR].domains,
                 call[policyR].copied, call[policyR].left)
  BY TodoIs DEF ThreadsInv
<1>2. call[policyR].pc = at /\ UNCHANGED <<pods, policies>>
  BY DEF HasRead, podIndexVars
<1>3. TodoInv' /\ AffectedInv'
  BY <1>1, <1>2, ThreadsDiffer DEF CallsAfter, ThreadsInv, TodoInv, AffectedInv
<1>4. "pods" \in Mutexes /\ at \in ReadingPods
  BY DEF Mutexes, ReadingPods
<1> QED  BY <1>1, <1>3, <1>4, AfterRead

\* The pods a selector matches are in the index.
LEMMA MatchingIs ==
    ASSUME ThreadsInv, NEW selector
    PROVE  /\ GetPodsMatchingSelector(selector) \in SUBSET DOMAIN pods
           /\ Matching(selector) \subseteq Infos
<1>1. GetPodsMatchingSelector(selector) \in SUBSET DOMAIN pods
  BY DEF GetPodsMatchingSelector
<1> QED  BY <1>1, FoundPods DEF ThreadsInv, Matching

\* RecalculateForPolicy.
LEMMA GetsMatchingKeeps == ThreadsInv /\ GetsMatching => ThreadsInv'
<1> SUFFICES ASSUME ThreadsInv, GetsMatching PROVE ThreadsInv'
  OBVIOUS
<1>1. PICK selector \in Selectors : \E s \in Orders(Matching(selector)) :
          call' = [call EXCEPT ![policyR].pc = "loop", ![policyR].todo = s]
  BY DEF GetsMatching
<1>2. PICK s \in Orders(Matching(selector)) :
          call' = [call EXCEPT ![policyR].pc = "loop", ![policyR].todo = s]
  BY <1>1
<1>3. s \in Seq(Infos)
  BY MatchingIs, SliceIs
<1>4. HasRead(policyR, "getMatching", "pods") /\ entries' \in MapsTo(SUBSET Domains)
  BY DEF GetsMatching, ThreadsInv, ThreadsTypeOK
<1> QED  BY <1>2, <1>3, <1>4, SliceRead

\* RecalculateAll.
LEMMA GetsAllKeeps == ThreadsInv /\ GetsAll => ThreadsInv'
<1> SUFFICES ASSUME ThreadsInv, GetsAll PROVE ThreadsInv'
  OBVIOUS
<1>1. PICK s \in Orders({pods[n] : n \in DOMAIN pods}) :
          call' = [call EXCEPT ![policyR].pc = "loop", ![policyR].todo = s]
  BY DEF GetsAll
<1>2. s \in Seq(Infos)
  BY FoundPods, SliceIs DEF ThreadsInv
<1>3. HasRead(policyR, "getAll", "pods") /\ entries' \in MapsTo(SUBSET Domains)
  BY EmptyMapType DEF GetsAll
<1> QED  BY <1>1, <1>2, <1>3, SliceRead

\* The first half of RecalculateForPolicyChange.
LEMMA GetsOldKeeps == ThreadsInv /\ GetsOld => ThreadsInv'
<1> SUFFICES ASSUME ThreadsInv, GetsOld PROVE ThreadsInv'
  OBVIOUS
<1> DEFINE c == call[policyR]
<1>1. PICK selector \in Selectors : \E batch \in Now!BatchesFor(selector) :
          call' = [call EXCEPT ![policyR].pc = "collected", ![policyR].affected = batch]
  BY DEF GetsOld
<1>2. PICK batch \in Now!BatchesFor(selector) :
          call' = [call EXCEPT ![policyR].pc = "collected", ![policyR].affected = batch]
  BY <1>1
<1>3. batch \in MapsTo(LabelMaps)
  <2>1. Now!GetPodsMatchingSelector(selector) \in SUBSET DOMAIN pods
    BY DEF Now!GetPodsMatchingSelector
  <2> QED  BY <2>1, BatchIs DEF ThreadsInv, Now!BatchesFor
<1>4. HasRead(policyR, "getOld", "pods") /\ UNCHANGED <<pods, policies, entries>>
      /\ c.pc = "getOld"
  BY DEF GetsOld, HasRead, podIndexVars
<1>5. "collected" \in PCs /\ "collected" \in PCsOf(policyR) /\ policyR \in Threads
  BY ThreadsDiffer DEF PCs, PCsOf, Inside
<1>6. c \in CallRecords /\ call \in [Threads -> CallRecords]
  BY <1>5 DEF ThreadsInv, ThreadsTypeOK
<1>7. call' = [call EXCEPT ![policyR] = [c EXCEPT !.pc = "collected", !.affected = batch]]
  BY <1>2, <1>5, <1>6
<1>8. CallStep(policyR, "collected", batch, c.todo, c.domains, c.copied, c.left)
  <2>1. batch \in MapsTo(LabelMaps) /\ "collected" \in PCs /\ c \in CallRecords
    BY <1>3, <1>5, <1>6
  <2> HIDE DEF c
  <2>2. [c EXCEPT !.pc = "collected", !.affected = batch] =
            [pc |-> "collected", affected |-> batch, todo |-> c.todo, domains |-> c.domains,
             copied |-> c.copied, left |-> c.left]
    BY <2>1, AffectedRecord, ZenonT(30)
  <2> QED  BY <1>7, <2>2 DEF CallStep
<1>9. c.todo \in Seq(Infos) /\ c.domains \in SUBSET Domains
      /\ c.copied \in MapsTo(SUBSET Domains) /\ c.left \in SUBSET IPs
  BY <1>5, CallFields DEF ThreadsInv
<1>10. CallsAfter(policyR, "collected", batch, c.todo, c.domains, c.copied, c.left)
  BY <1>3, <1>5, <1>8, <1>9, CallStepIs DEF ThreadsInv
<1>11. TodoInv' /\ AffectedInv'
  BY <1>3, <1>4, <1>10, ThreadsDiffer DEF CallsAfter, ThreadsInv, TodoInv, AffectedInv
<1>12. "pods" \in Mutexes /\ "getOld" \in ReadingPods /\ entries' \in MapsTo(SUBSET Domains)
  BY <1>4 DEF Mutexes, ReadingPods, ThreadsInv, ThreadsTypeOK
<1> QED  BY <1>4, <1>10, <1>11, <1>12, AfterRead

\* The second half of RecalculateForPolicyChange.
LEMMA GetsNewKeeps == ThreadsInv /\ GetsNew => ThreadsInv'
<1> SUFFICES ASSUME ThreadsInv, GetsNew PROVE ThreadsInv'
  OBVIOUS
<1> DEFINE c == call[policyR]
<1>1. PICK selector \in Selectors : \E batch \in Now!BatchesFor(selector) :
          \E s \in Orders({[IP |-> ip, Labels |-> batch[ip]] : ip \in DOMAIN batch}
                     \cup {[IP |-> ip, Labels |-> call[policyR].affected[ip]] :
                               ip \in DOMAIN call[policyR].affected \ DOMAIN batch}) :
             call' = [call EXCEPT ![policyR].pc = "loop", ![policyR].affected = EmptyMap,
                                  ![policyR].todo = s]
  BY DEF GetsNew
<1>2. PICK batch \in Now!BatchesFor(selector) :
          \E s \in Orders({[IP |-> ip, Labels |-> batch[ip]] : ip \in DOMAIN batch}
                     \cup {[IP |-> ip, Labels |-> call[policyR].affected[ip]] :
                               ip \in DOMAIN call[policyR].affected \ DOMAIN batch}) :
             call' = [call EXCEPT ![policyR].pc = "loop", ![policyR].affected = EmptyMap,
                                  ![policyR].todo = s]
  BY <1>1
<1>3. batch \in MapsTo(LabelMaps)
  <2>1. Now!GetPodsMatchingSelector(selector) \in SUBSET DOMAIN pods
    BY DEF Now!GetPodsMatchingSelector
  <2> QED  BY <2>1, BatchIs DEF ThreadsInv, Now!BatchesFor
<1>4. HasRead(policyR, "getNew", "pods") /\ UNCHANGED <<pods, policies, entries>>
      /\ c.pc = "getNew"
  BY DEF GetsNew, HasRead, podIndexVars
<1>5. "loop" \in PCs /\ "loop" \in PCsOf(policyR) /\ policyR \in Threads
  BY ThreadsDiffer DEF PCs, PCsOf, Inside
<1>6. c \in CallRecords /\ call \in [Threads -> CallRecords]
  BY <1>5 DEF ThreadsInv, ThreadsTypeOK
<1>7. /\ c.affected \in MapsTo(LabelMaps)
      /\ c.domains \in SUBSET Domains
      /\ c.copied \in MapsTo(SUBSET Domains) /\ c.left \in SUBSET IPs
  BY <1>5, CallFields DEF ThreadsInv
<1>8. PICK s \in Orders(InfosOf(Merged(c.affected, batch))) :
          call' = [call EXCEPT ![policyR].pc = "loop", ![policyR].affected = EmptyMap,
                               ![policyR].todo = s]
  <2> HIDE DEF c
  <2>1. InfosOf(Merged(c.affected, batch)) =
            {[IP |-> ip, Labels |-> batch[ip]] : ip \in DOMAIN batch}
            \cup {[IP |-> ip, Labels |-> c.affected[ip]] : ip \in DOMAIN c.affected \ DOMAIN batch}
    BY <1>3, <1>7, MergedIs
  <2> QED  BY <1>2, <2>1 DEF c
<1>9. s \in Seq(Infos)
  <2> HIDE DEF c
  <2>1. Merged(c.affected, batch) \in MapsTo(LabelMaps)
    BY <1>3, <1>7, MergedIs
  <2>2. InfosOf(Merged(c.affected, batch)) \subseteq Infos
    BY <2>1, InfosOfIs
  <2> QED  BY <2>2, SliceIs
<1>10. call' = [call EXCEPT ![policyR] = [c EXCEPT !.pc = "loop", !.affected = EmptyMap,
                                                   !.todo = s]]
  BY <1>8, <1>5, <1>6
<1>11. CallStep(policyR, "loop", EmptyMap, s, c.domains, c.copied, c.left)
  <2>1. EmptyMap \in MapsTo(LabelMaps) /\ s \in Seq(Infos) /\ "loop" \in PCs /\ c \in CallRecords
    BY <1>5, <1>6, <1>9, EmptyMapType
  <2> HIDE DEF c
  <2>2. [c EXCEPT !.pc = "loop", !.affected = EmptyMap, !.todo = s] =
            [pc |-> "loop", affected |-> EmptyMap, todo |-> s, domains |-> c.domains,
             copied |-> c.copied, left |-> c.left]
    BY <2>1, AllRecord
  <2> QED  BY <1>10, <2>2 DEF CallStep
<1>12. CallsAfter(policyR, "loop", EmptyMap, s, c.domains, c.copied, c.left)
  BY <1>5, <1>7, <1>9, <1>11, CallStepIs, EmptyMapType DEF ThreadsInv
<1>13. TodoInv' /\ AffectedInv'
  BY <1>4, <1>12, ThreadsDiffer DEF CallsAfter, ThreadsInv, TodoInv, AffectedInv
<1>14. "pods" \in Mutexes /\ "getNew" \in ReadingPods /\ entries' \in MapsTo(SUBSET Domains)
  BY <1>4 DEF Mutexes, ReadingPods, ThreadsInv, ThreadsTypeOK
<1> QED  BY <1>4, <1>12, <1>13, <1>14, AfterRead

\* The block list of the first pod has been computed.
LEMMA GetsPoliciesKeeps ==
    ASSUME ThreadsInv, NEW t \in {podR, policyR}, GetsPolicies(t)
    PROVE  ThreadsInv'
<1> DEFINE c == call[t]
           blocked == BlockedBy(policies, Head(call[t].todo).Labels)
<1>1. blocked \in SUBSET Domains
  BY BlockedByType DEF ThreadsInv
<1>2. HasRead(t, "getPolicies", "policies") /\ UNCHANGED <<pods, policies, entries>>
      /\ c.pc = "getPolicies"
  BY DEF GetsPolicies, HasRead, podIndexVars
<1>3. "store" \in PCs /\ "store" \in PCsOf(t) /\ t \in Threads
  BY ThreadsDiffer DEF PCs, PCsOf, Inside
<1>4. c \in CallRecords /\ call \in [Threads -> CallRecords]
  BY <1>3 DEF ThreadsInv, ThreadsTypeOK
<1>5. /\ c.affected \in MapsTo(LabelMaps) /\ c.todo \in Seq(Infos)
      /\ c.copied \in MapsTo(SUBSET Domains) /\ c.left \in SUBSET IPs
  BY <1>3, CallFields DEF ThreadsInv
<1>6. Now!BlockedFor(Head(call[t].todo).Labels) = blocked
  BY NowIs
<1> HIDE DEF blocked
<1>7. call' = [call EXCEPT ![t] = [c EXCEPT !.pc = "store", !.domains = blocked]]
  BY <1>3, <1>4, <1>6 DEF GetsPolicies
<1>8. CallStep(t, "store", c.affected, c.todo, blocked, c.copied, c.left)
  <2> HIDE DEF c
  <2>1. [c EXCEPT !.pc = "store", !.domains = blocked] =
            [pc |-> "store", affected |-> c.affected, todo |-> c.todo, domains |-> blocked,
             copied |-> c.copied, left |-> c.left]
    BY <1>1, <1>3, <1>4, DomainsRecord
  <2> QED  BY <1>7, <2>1, ZenonT(30) DEF CallStep
<1>9. CallsAfter(t, "store", c.affected, c.todo, blocked, c.copied, c.left)
  BY <1>1, <1>3, <1>5, <1>8, CallStepIs DEF ThreadsInv
<1>10. TodoInv' /\ AffectedInv'
  <2>1. /\ \A u \in {podR, policyR} : u # t => call'[u] = call[u]
        /\ call'[t].pc = "store" /\ call'[t].affected = call[t].affected
        /\ call'[t].todo = call[t].todo /\ call'[t].domains = blocked
    BY <1>9, ThreadsDiffer DEF CallsAfter
  <2>2. TodoInv /\ AffectedInv /\ call[t].pc = "getPolicies"
    BY <1>2 DEF ThreadsInv
  <2>3. CASE t = podR
    <3>1. TodoInv'
      BY <1>2, <2>1, <2>2, <2>3, ThreadsDiffer DEF TodoInv
    <3>2. AffectedInv'
      BY <2>1, <2>2, <2>3, ThreadsDiffer DEF AffectedInv
    <3> QED  BY <3>1, <3>2
  <2>4. CASE t = policyR
    <3>1. TodoInv'
      BY <1>2, <2>1, <2>2, <2>4, ThreadsDiffer DEF TodoInv, blocked
    <3>2. AffectedInv'
      BY <2>1, <2>2, <2>4, ThreadsDiffer DEF AffectedInv
    <3> QED  BY <3>1, <3>2
  <2> QED  BY <2>3, <2>4
<1>11. "policies" \in Mutexes /\ entries' \in MapsTo(SUBSET Domains)
  BY <1>2 DEF Mutexes, ThreadsInv, ThreadsTypeOK
<1> QED  BY <1>2, <1>9, <1>10, <1>11, AfterRead

\* What is left of a nonempty slice.
LEMMA HeadAndTail ==
    ASSUME NEW s \in Seq(Infos), s # <<>>
    PROVE  /\ Head(s) \in Infos /\ Tail(s) \in Seq(Infos)
           /\ Len(s) \in Nat \ {0} /\ DOMAIN s = 1 .. Len(s)
           /\ Head(s) = s[1] /\ DOMAIN Tail(s) = 1 .. Len(s) - 1
           /\ \A i \in 1 .. Len(s) - 1 : Tail(s)[i] = s[i + 1]
BY SMT

\* bc.entries[ip] is written.
LEMMA StoresEntryKeeps ==
    ASSUME ThreadsInv, NEW t \in {podR, policyR}, StoresEntry(t)
    PROVE  ThreadsInv'
<1> DEFINE c == call[t]
           rest == Tail(call[t].todo)
<1>1. c.pc = "store" /\ UNCHANGED <<pods, ipToPod, policies, lock>>
  BY DEF StoresEntry, podIndexVars
<1>2. "loop" \in PCs /\ "loop" \in PCsOf(t) /\ t \in Threads
  BY ThreadsDiffer DEF PCs, PCsOf, Inside
<1>3. c \in CallRecords /\ call \in [Threads -> CallRecords]
  BY <1>2 DEF ThreadsInv, ThreadsTypeOK
<1>4. /\ c.affected \in MapsTo(LabelMaps) /\ c.todo \in Seq(Infos)
      /\ c.domains \in SUBSET Domains
      /\ c.copied \in MapsTo(SUBSET Domains) /\ c.left \in SUBSET IPs
  BY <1>2, CallFields DEF ThreadsInv
<1>5. c.todo # <<>>
  BY <1>1 DEF ThreadsInv, TodoInv
<1>6. rest \in Seq(Infos) /\ Head(c.todo).IP \in IPs
  BY <1>4, <1>5, HeadAndTail, ZenonT(30) DEF Infos
<1>7. t = podR => rest = <<>>
  <2> SUFFICES ASSUME t = podR PROVE rest = <<>>
    OBVIOUS
  <2>1. PICK n \in DOMAIN pods : c.todo = <<pods[n]>>
    BY <1>5 DEF ThreadsInv, TodoInv
  <2> QED  BY SMT, <2>1
<1>8. entries' \in MapsTo(SUBSET Domains)
  BY <1>4, <1>6, EntriesType DEF StoresEntry, ThreadsInv, ThreadsTypeOK
<1> HIDE DEF rest
<1>9. call' = [call EXCEPT ![t] = [c EXCEPT !.pc = "loop", !.domains = {}, !.todo = rest]]
  BY <1>2, <1>3 DEF StoresEntry, rest
<1>10. CallStep(t, "loop", c.affected, rest, {}, c.copied, c.left)
  <2>1. {} \in SUBSET Domains
    OBVIOUS
  <2> HIDE DEF c
  <2>2. [c EXCEPT !.pc = "loop", !.domains = {}, !.todo = rest] =
            [pc |-> "loop", affected |-> c.affected, todo |-> rest, domains |-> {},
             copied |-> c.copied, left |-> c.left]
    BY <1>2, <1>3, <1>6, <2>1, StoredRecord
  <2> QED  BY <1>9, <2>2 DEF CallStep
<1>11. CallsAfter(t, "loop", c.affected, rest, {}, c.copied, c.left)
  BY <1>2, <1>4, <1>6, <1>10, CallStepIs DEF ThreadsInv
<1> USE DEF CallsAfter
<1>12. TodoInv' /\ AffectedInv'
  BY <1>1, <1>7, <1>11, ThreadsDiffer, ZenonT(30) DEF ThreadsInv, TodoInv, AffectedInv
<1>13. ThreadsTypeOK'
  BY <1>1, <1>8, <1>11 DEF ThreadsInv, ThreadsTypeOK
<1>14. \A u \in Threads : \A m \in Mutexes : Role(call'[u].pc, m) = Role(call[u].pc, m)
  <2>1. \A m \in Mutexes : Role("loop", m) = Role("store", m)
    BY Roles DEF Mutexes
  <2> QED  BY <1>1, <1>11, <2>1
<1>15. lock["bc"].readers = {}
  BY <1>1, <1>2, ZenonT(30) DEF ThreadsInv, LockInv, Inside
<1>16. LockInv'
  <2>1. \A u \in Threads : call'[u].pc \in Inside => call[u].pc \in Inside
    BY <1>1, <1>11 DEF Inside
  <2> QED  BY <1>1, <1>14, <2>1, SameRoles DEF ThreadsInv
<1>17. CopiedInv'
  BY <1>8, <1>11, <1>15, CopiedAlone, ThreadsDiffer DEF ThreadsInv
<1> QED
  BY <1>1, <1>12, <1>13, <1>16, <1>17
     DEF ThreadsInv, PodIndexTypeOK, PodLookups, ReverseLookupSound,
         ReverseLookupComplete, PolicyIndexTypeOK

\* A recalculation ends.
LEMMA LoopEndsKeeps ==
    ASSUME ThreadsInv, NEW t \in {podR, policyR}, LoopEnds(t)
    PROVE  ThreadsInv'
<1>1. call[t].pc = "loop" /\ Return(t, "bc") /\ UNCHANGED <<pods, ipToPod, policies, entries>>
      /\ t \in Threads /\ "bc" \in Mutexes
  BY ThreadsDiffer DEF LoopEnds, podIndexVars, Mutexes
<1>2. Role(call[t].pc, "bc") = "writer" /\ call[t].pc \in Inside
  BY <1>1, Roles DEF Inside
<1>3. WriteLocked(lock["bc"], t)
  BY <1>1, <1>2 DEF ThreadsInv, LockInv, WriteLocked
<1>4. entries' \in MapsTo(SUBSET Domains)
      /\ (PodIndexTypeOK /\ PodLookups /\ PolicyIndexTypeOK)'
  BY <1>1 DEF ThreadsInv, ThreadsTypeOK, PodIndexTypeOK, PodLookups, ReverseLookupSound,
         ReverseLookupComplete, PolicyIndexTypeOK
<1> QED  BY <1>1, <1>3, <1>4, AfterReturn, ZenonT(30)

-----------------------------------------------------------------------------
(* The steps of the handlers keep the invariant.                           *)

\* What a step of a handler leaves to show.
LEMMA AfterHandler ==
    ASSUME ThreadsInv, NEW h \in Handlers, UNCHANGED <<podIndexVars, policies, entries>>,
           call' \in [Threads -> CallRecords], \A u \in Threads : call'[u].pc \in PCsOf(u),
           \A u \in Threads \ {h} : call'[u] = call[u],
           lock' \in [Mutexes -> MutexRecords], LockInv', CopiedInv'
    PROVE  ThreadsInv'
<1>1. UNCHANGED <<pods, ipToPod, policies, entries>>
  BY DEF podIndexVars
<1>2. call'[podR] = call[podR] /\ call'[policyR] = call[policyR]
  BY ThreadsDiffer
<1>3. TodoInv' /\ AffectedInv'
  BY <1>1, <1>2 DEF ThreadsInv, TodoInv, AffectedInv
<1>4. ThreadsTypeOK'
  BY <1>1 DEF ThreadsInv, ThreadsTypeOK
<1> QED
  BY <1>1, <1>3, <1>4 DEF ThreadsInv, PodIndexTypeOK, PodLookups, ReverseLookupSound,
         ReverseLookupComplete, PolicyIndexTypeOK

\* RLock at the start of GetBlocklist or Size.
LEMMA StartReadingKeeps ==
    ASSUME ThreadsInv, NEW h \in Handlers, NEW pc \in ReadingCache, NEW left \in SUBSET IPs,
           pc = "getBlocklist" => left = IPs, StartReading(h, pc, left)
    PROVE  ThreadsInv'
<1> DEFINE c == call[h]
<1>1. /\ c.pc = "idle" /\ h \in Threads /\ pc \in PCs /\ pc \in PCsOf(h) /\ "bc" \in Mutexes
      /\ UNCHANGED <<podIndexVars, policies, entries>>
  BY ThreadsDiffer DEF StartReading, PCs, PCsOf, Mutexes
<1>2. c \in CallRecords /\ call \in [Threads -> CallRecords]
  BY <1>1 DEF ThreadsInv, ThreadsTypeOK
<1>3. /\ c.affected \in MapsTo(LabelMaps) /\ c.todo \in Seq(Infos)
      /\ c.domains \in SUBSET Domains /\ c.copied \in MapsTo(SUBSET Domains)
  BY <1>1, CallFields DEF ThreadsInv
<1>4. call' = [call EXCEPT ![h] = [c EXCEPT !.pc = pc, !.left = left]]
  BY <1>1, <1>2 DEF StartReading
<1>5. CallStep(h, pc, c.affected, c.todo, c.domains, c.copied, left)
  <2> HIDE DEF c
  <2>1. [c EXCEPT !.pc = pc, !.left = left] =
            [pc |-> pc, affected |-> c.affected, todo |-> c.todo, domains |-> c.domains,
             copied |-> c.copied, left |-> left]
    BY <1>1, <1>2, LeftRecord
  <2> QED  BY <1>4, <2>1 DEF CallStep
<1>6. CallsAfter(h, pc, c.affected, c.todo, c.domains, c.copied, left)
  BY <1>1, <1>3, <1>5, CallStepIs DEF ThreadsInv
<1> USE DEF CallsAfter
<1>7. /\ pc \notin Inside /\ Role(c.pc, "bc") = "none" /\ Role(pc, "bc") = "reader"
      /\ \A m \in Mutexes \ {"bc"} : Role(pc, m) = Role(c.pc, m)
  <2>1. pc \notin Inside
    BY DEF Inside, ReadingPods, ReadingCache
  <2>2. \A m \in Mutexes : Role(c.pc, m) = "none"
    BY <1>1, Roles
  <2>3. Role(pc, "bc") = "reader" /\ Role(pc, "pods") = "none" /\ Role(pc, "policies") = "none"
    BY Roles
  <2> QED  BY <1>1, <2>1, <2>2, <2>3 DEF Mutexes
<1>8. LockStep(h, pc, "bc", RLock(lock["bc"], h))
  BY <1>6, <1>7 DEF LockStep, StartReading
<1>9. lock' \in [Mutexes -> MutexRecords] /\ LockInv'
  BY <1>1, <1>7, <1>8, RLockKeeps DEF ThreadsInv
<1>10. \A g \in Handlers \ {h} : g \in lock'["bc"].readers <=> g \in lock["bc"].readers
  <2>1. lock["bc"] \in MutexRecords /\ lock'["bc"] = RLock(lock["bc"], h)
    BY <1>1 DEF StartReading, ThreadsInv, ThreadsTypeOK
  <2> QED  BY SMT, <1>1, <2>1, RLockFields
<1>11. CopiedInv'
  <2> SUFFICES ASSUME NEW g \in Handlers
               PROVE  /\ call'[g].pc = "idle" => call'[g].copied = EmptyMap
                      /\ call'[g].pc = "getBlocklist" =>
                            IF g \in lock'["bc"].readers
                            THEN call'[g].copied =
                                     [ip \in {i \in DOMAIN entries' \ call'[g].left : entries'[i] # {}}
                                         |-> entries'[ip]]
                            ELSE call'[g].left = IPs /\ call'[g].copied = EmptyMap
    BY DEF CopiedInv
  <2>1. CASE g # h
    <3>1. call'[g] = call[g] /\ entries' = entries
      BY <1>1, <1>6, <2>1, ThreadsDiffer
    <3> QED  BY SMT, <1>10, <2>1, <3>1 DEF ThreadsInv, CopiedInv
  <2>2. CASE g = h
    <3>1. call'[h].pc # "idle" /\ call'[h].copied = EmptyMap
          /\ (call'[h].pc = "getBlocklist" => call'[h].left = IPs)
      BY <1>1, <1>6 DEF ThreadsInv, CopiedInv, ReadingCache
    <3>2. DOMAIN entries' \subseteq IPs
      BY <1>1 DEF ThreadsInv, ThreadsTypeOK, MapsTo
    <3>3. call'[h].pc = "getBlocklist" =>
              {i \in DOMAIN entries' \ call'[h].left : entries'[i] # {}} = {}
      BY <3>1, <3>2
    <3>4. [ip \in {} |-> entries'[ip]] = EmptyMap
      BY DEF EmptyMap
    <3> QED  BY <2>2, <3>1, <3>3, <3>4
  <2> QED  BY <2>1, <2>2
<1> QED  BY <1>1, <1>6, <1>9, <1>11, AfterHandler

\* GetBlocklist returns, or Size does.
LEMMA EndReadingKeeps ==
    ASSUME ThreadsInv, NEW h \in Handlers, EndReading(h)
    PROVE  ThreadsInv'
<1>1. /\ call[h].pc \in ReadingCache /\ h \in Threads /\ "bc" \in Mutexes
      /\ ReadLocked(lock["bc"], h) /\ lock' = [lock EXCEPT !["bc"] = RUnlock(@, h)]
      /\ UNCHANGED <<podIndexVars, policies, entries>>
  BY ThreadsDiffer DEF EndReading, HasRead, ReadingCache, Mutexes
<1>2. CallStep(h, "idle", EmptyMap, <<>>, {}, EmptyMap, {})
  BY DEF EndReading, NoCall, CallStep
<1>3. "idle" \in PCs /\ "idle" \in PCsOf(h) /\ <<>> \in Seq(Infos)
  BY SMT DEF PCs, PCsOf
<1>4. CallsAfter(h, "idle", EmptyMap, <<>>, {}, EmptyMap, {})
  BY <1>1, <1>2, <1>3, EmptyMapType, CallStepIs DEF ThreadsInv
<1> USE DEF CallsAfter
<1>5. /\ "idle" \notin Inside /\ Role("idle", "bc") = "none"
      /\ \A m \in Mutexes \ {"bc"} : Role("idle", m) = Role(call[h].pc, m)
  BY <1>1, Roles DEF Inside, ReadingPods, Mutexes
<1>6. LockStep(h, "idle", "bc", RUnlock(lock["bc"], h))
  BY <1>1, <1>4, <1>5 DEF LockStep
<1>7. lock' \in [Mutexes -> MutexRecords] /\ LockInv'
  BY <1>1, <1>5, <1>6, RUnlockKeeps DEF ThreadsInv
<1>8. \A g \in Handlers \ {h} : g \in lock'["bc"].readers <=> g \in lock["bc"].readers
  <2>1. lock["bc"] \in MutexRecords /\ lock'["bc"] = RUnlock(lock["bc"], h)
    BY <1>1 DEF ThreadsInv, ThreadsTypeOK
  <2> QED  BY SMT, <1>1, <2>1, RUnlockFields
<1>9. call'[h].pc = "idle" /\ call'[h].copied = EmptyMap /\ entries' = entries
      /\ \A g \in Handlers \ {h} : call'[g] = call[g]
  BY <1>1, <1>4, ThreadsDiffer
<1>10. CopiedInv'
  BY SMT, <1>8, <1>9 DEF ThreadsInv, CopiedInv
<1> QED  BY <1>1, <1>4, <1>7, <1>10, AfterHandler

\* A copied entry.
LEMMA PutCopy ==
    ASSUME NEW ents, NEW S, NEW ip
    PROVE  Put([i \in S |-> ents[i]], ip, ents[ip]) = [i \in S \cup {ip} |-> ents[i]]
BY DEF Put

\* The next entry is copied, or the next IP has none that blocks something.
LEMMA CopiesEntryKeeps ==
    ASSUME ThreadsInv, NEW h \in Handlers, CopiesEntry(h)
    PROVE  ThreadsInv'
<1> DEFINE c == call[h]
<1>1. PICK ip \in c.left :
          call' = [call EXCEPT ![h].left = @ \ {ip},
                      ![h].copied = IF ip \in DOMAIN entries /\ entries[ip] # {}
                                    THEN Put(@, ip, entries[ip]) ELSE @]
  BY DEF CopiesEntry
<1> DEFINE left == c.left \ {ip}
           copied == IF ip \in DOMAIN entries /\ entries[ip] # {}
                     THEN Put(c.copied, ip, entries[ip]) ELSE c.copied
           done(l) == {i \in DOMAIN entries \ l : entries[i] # {}}
<1>2. /\ c.pc = "getBlocklist" /\ h \in lock["bc"].readers /\ h \in Threads
      /\ UNCHANGED <<podIndexVars, policies, entries>> /\ UNCHANGED lock
  BY ThreadsDiffer DEF CopiesEntry, ReadLocked
<1>3. c \in CallRecords /\ call \in [Threads -> CallRecords] /\ c.pc \in PCsOf(h)
  BY <1>2 DEF ThreadsInv, ThreadsTypeOK
<1>4. /\ c.pc \in PCs /\ c.affected \in MapsTo(LabelMaps) /\ c.todo \in Seq(Infos)
      /\ c.domains \in SUBSET Domains /\ c.copied \in MapsTo(SUBSET Domains)
      /\ c.left \in SUBSET IPs
  BY <1>2, CallFields DEF ThreadsInv
<1>5. left \in SUBSET IPs /\ copied \in MapsTo(SUBSET Domains)
  <2>1. ip \in IPs
    BY <1>4
  <2>2. ip \in DOMAIN entries => entries[ip] \in SUBSET Domains
    <3>1. entries \in MapsTo(SUBSET Domains)
      BY DEF ThreadsInv, ThreadsTypeOK
    <3>2. PICK D \in SUBSET IPs : entries \in [D -> SUBSET Domains]
      BY <3>1 DEF MapsTo
    <3> QED  BY <3>2
  <2> QED  BY <1>4, <2>1, <2>2, EntriesType
<1>6. copied = [i \in done(left) |-> entries[i]]
  <2>1. c.copied = [i \in done(c.left) |-> entries[i]]
    BY <1>2 DEF ThreadsInv, CopiedInv
  <2>2. CASE ip \in DOMAIN entries /\ entries[ip] # {}
    <3>1. done(left) = done(c.left) \cup {ip}
      BY <2>2
    <3>2. copied = Put(c.copied, ip, entries[ip])
      BY <2>2
    <3> HIDE DEF done, copied
    <3>3. Put([i \in done(c.left) |-> entries[i]], ip, entries[ip]) =
              [i \in done(c.left) \cup {ip} |-> entries[i]]
      BY SMT, PutCopy
    <3> QED  BY <2>1, <3>1, <3>2, <3>3
  <2>3. CASE ~(ip \in DOMAIN entries /\ entries[ip] # {})
    <3>1. done(left) = done(c.left)
      BY <2>3
    <3> QED  BY <2>1, <2>3, <3>1
  <2> QED  BY <2>2, <2>3
<1>7. call' = [call EXCEPT ![h] = [c EXCEPT !.left = left, !.copied = copied]]
  BY <1>1, <1>2, <1>3
<1> HIDE DEF left, copied
<1>8. CallStep(h, c.pc, c.affected, c.todo, c.domains, copied, left)
  <2> HIDE DEF c
  <2>1. [c EXCEPT !.left = left, !.copied = copied] =
            [pc |-> c.pc, affected |-> c.affected, todo |-> c.todo, domains |-> c.domains,
             copied |-> copied, left |-> left]
    BY <1>3, <1>5, CopiedRecord
  <2> QED  BY <1>7, <2>1 DEF CallStep
<1>9. CallsAfter(h, c.pc, c.affected, c.todo, c.domains, copied, left)
  BY <1>2, <1>3, <1>4, <1>5, <1>8, CallStepIs DEF ThreadsInv
<1> USE DEF CallsAfter
<1>10. \A u \in Threads : call'[u].pc = call[u].pc
  BY <1>9
<1>11. LockInv' /\ lock' \in [Mutexes -> MutexRecords]
  <2>1. lock' = lock /\ lock \in [Mutexes -> MutexRecords]
    BY <1>2 DEF ThreadsInv, ThreadsTypeOK
  <2>2. /\ \A u \in Threads : \A m \in Mutexes : Role(call'[u].pc, m) = Role(call[u].pc, m)
        /\ \A u \in Threads : call'[u].pc \in Inside => call[u].pc \in Inside
    BY <1>10
  <2> QED  BY <2>1, <2>2, SameRoles DEF ThreadsInv
<1>12. CopiedInv'
  <2> SUFFICES ASSUME NEW g \in Handlers
               PROVE  /\ call'[g].pc = "idle" => call'[g].copied = EmptyMap
                      /\ call'[g].pc = "getBlocklist" =>
                            IF g \in lock'["bc"].readers
                            THEN call'[g].copied =
                                     [i \in {j \in DOMAIN entries' \ call'[g].left : entries'[j] # {}}
                                         |-> entries'[i]]
                            ELSE call'[g].left = IPs /\ call'[g].copied = EmptyMap
    BY DEF CopiedInv
  <2>1. CASE g # h
    <3>1. call'[g] = call[g] /\ entries' = entries /\ lock' = lock
      BY <1>2, <1>9, <2>1, ThreadsDiffer
    <3> QED  BY SMT, <3>1 DEF ThreadsInv, CopiedInv
  <2>2. CASE g = h
    <3>1. call'[h].copied = copied /\ call'[h].left = left /\ call'[h].pc = "getBlocklist"
      BY <1>2, <1>9
    <3>2. copied = [i \in {j \in DOMAIN entries' \ left : entries'[j] # {}} |-> entries'[i]]
      BY <1>2, <1>6
    <3> QED  BY <1>2, <2>2, <3>1, <3>2
  <2> QED  BY <2>1, <2>2
<1> QED  BY <1>2, <1>9, <1>11, <1>12, AfterHandler

-----------------------------------------------------------------------------
(* The inductive invariant.                                                *)

\* It holds when the controller has built its indexes and its cache.
LEMMA ThreadsInvInit == ThreadsInit => ThreadsInv
<1> SUFFICES ASSUME ThreadsInit PROVE ThreadsInv
  OBVIOUS
<1>1. PodIndexTypeOK /\ PodLookups
  BY NewIndexSound DEF ThreadsInit, PodIndexInv
<1>2. PolicyIndexTypeOK
  BY DEF ThreadsInit, NewPolicyIndex, PolicyIndexTypeOK, EmptyMap, IsMap
<1>3. NoCall \in CallRecords
  <2>1. <<>> \in Seq(Infos) /\ "idle" \in PCs
    BY SMT DEF PCs
  <2> QED  BY <2>1, EmptyMapType DEF NoCall, CallRecords
<1>4. FreeMutex \in MutexRecords
  BY DEF FreeMutex, MutexRecords
<1>5. NoCall.pc = "idle" /\ NoCall.todo = <<>> /\ NoCall.affected = EmptyMap
      /\ NoCall.copied = EmptyMap
  BY DEF NoCall
<1>6. \A t \in Threads : call[t] = NoCall /\ "idle" \in PCsOf(t)
  BY DEF ThreadsInit, PCsOf
<1>7. ThreadsTypeOK
  <2>1. lock \in [Mutexes -> MutexRecords]
    BY <1>4 DEF ThreadsInit
  <2>2. call \in [Threads -> CallRecords]
    BY <1>3 DEF ThreadsInit
  <2> QED  BY <1>5, <1>6, <2>1, <2>2, EmptyMapType DEF ThreadsInit, ThreadsTypeOK
<1>8. LockInv
  <2>1. \A m \in Mutexes : lock[m].writer = NoThread /\ lock[m].readers = {}
                           /\ lock[m].waiting = {}
    BY DEF ThreadsInit, FreeMutex
  <2>2. "bc" \in Mutexes /\ NoThread \notin Threads
    BY ThreadsAssumption DEF Mutexes
  <2> QED  BY <1>5, <1>6, <2>1, <2>2, Roles DEF LockInv
<1>9. TodoInv /\ AffectedInv /\ CopiedInv
  BY <1>5, <1>6, ThreadsDiffer DEF TodoInv, AffectedInv, CopiedInv
<1> QED  BY <1>1, <1>2, <1>7, <1>8, <1>9 DEF ThreadsInv

\* The pod reconciler.
LEMMA PodReconcilerKeeps == ThreadsInv /\ PodReconciler => ThreadsInv'
<1> SUFFICES ASSUME ThreadsInv, PodReconciler PROVE ThreadsInv'
  OBVIOUS
<1> USE ThreadsDiffer DEF Mutexes, PCsOf, Claiming, ReadingPods
<1>1. CASE StartLocked(podR, "pods", "writePods")
  BY <1>1, StartLockedKeeps
<1>2. CASE WritesPods
  BY <1>2, WritesPodsKeeps
<1>3. CASE StartLocked(podR, "bc", "removePod")
  BY <1>3, StartLockedKeeps
<1>4. CASE RemovesPod
  BY <1>4, RemovesPodKeeps
<1>5. CASE StartLocked(podR, "bc", "recalculatePod")
  BY <1>5, StartLockedKeeps
<1>6. CASE ReadIndex(podR, "recalculatePod", "pods", "getPod")
  BY <1>6, ReadIndexKeeps
<1>7. CASE GetsPod
  BY <1>7, GetsPodKeeps
<1> QED
  BY <1>1, <1>2, <1>3, <1>4, <1>5, <1>6, <1>7 DEF PodReconciler

\* The policy reconciler.
LEMMA PolicyReconcilerKeeps == ThreadsInv /\ PolicyReconciler => ThreadsInv'
<1> SUFFICES ASSUME ThreadsInv, PolicyReconciler PROVE ThreadsInv'
  OBVIOUS
<1> USE ThreadsDiffer DEF Mutexes, PCsOf, Claiming, ReadingPods
<1>1. CASE StartLocked(policyR, "policies", "writePolicies")
  BY <1>1, StartLockedKeeps
<1>2. CASE WritesPolicies
  BY <1>2, WritesPoliciesKeeps
<1>3. CASE StartLocked(policyR, "bc", "recalculateForPolicy")
  BY <1>3, StartLockedKeeps
<1>4. CASE ReadIndex(policyR, "recalculateForPolicy", "pods", "getMatching")
  BY <1>4, ReadIndexKeeps
<1>5. CASE GetsMatching
  BY <1>5, GetsMatchingKeeps
<1>6. CASE StartLocked(policyR, "bc", "recalculateAll")
  BY <1>6, StartLockedKeeps
<1>7. CASE ReadIndex(policyR, "recalculateAll", "pods", "getAll")
  BY <1>7, ReadIndexKeeps
<1>8. CASE GetsAll
  BY <1>8, GetsAllKeeps
<1>9. CASE StartLocked(policyR, "bc", "recalculateForPolicyChange")
  BY <1>9, StartLockedKeeps
<1>10. CASE ReadIndex(policyR, "recalculateForPolicyChange", "pods", "getOld")
  BY <1>10, ReadIndexKeeps
<1>11. CASE GetsOld
  BY <1>11, GetsOldKeeps
<1>12. CASE ReadIndex(policyR, "collected", "pods", "getNew")
  BY <1>12, ReadIndexKeeps
<1>13. CASE GetsNew
  BY <1>13, GetsNewKeeps
<1> QED
  BY <1>1, <1>2, <1>3, <1>4, <1>5, <1>6, <1>7, <1>8, <1>9, <1>10, <1>11, <1>12, <1>13
     DEF PolicyReconciler

\* The loops of both.
LEMMA RecalculatingKeeps ==
    ASSUME ThreadsInv, NEW t \in {podR, policyR}, Recalculating(t)
    PROVE  ThreadsInv'
<1>1. CASE call[t].todo # <<>> /\ ReadIndex(t, "loop", "policies", "getPolicies")
  <2>1. "policies" \in Mutexes /\ "getPolicies" \in PCsOf(t)
    BY ThreadsDiffer DEF Mutexes, PCsOf
  <2> QED  BY <1>1, <2>1, ReadIndexKeeps
<1>2. CASE GetsPolicies(t)
  BY <1>2, GetsPoliciesKeeps
<1>3. CASE StoresEntry(t)
  BY <1>3, StoresEntryKeeps
<1>4. CASE LoopEnds(t)
  BY <1>4, LoopEndsKeeps
<1> QED  BY <1>1, <1>2, <1>3, <1>4 DEF Recalculating

\* A step in which nothing changes.
LEMMA ThreadsStutter == ThreadsInv /\ UNCHANGED threadVars => ThreadsInv'
<1> SUFFICES ASSUME ThreadsInv, UNCHANGED threadVars PROVE ThreadsInv'
  OBVIOUS
<1>1. UNCHANGED <<pods, ipToPod, policies, entries, lock, call>>
  BY DEF threadVars, podIndexVars
<1>2. ThreadsTypeOK' /\ LockInv'
  BY <1>1 DEF ThreadsInv, ThreadsTypeOK, LockInv
<1>3. TodoInv' /\ AffectedInv'
  BY <1>1 DEF ThreadsInv, TodoInv, AffectedInv
<1>4. CopiedInv'
  BY SMT, <1>1 DEF ThreadsInv, CopiedInv
<1> QED
  BY <1>1, <1>2, <1>3, <1>4
     DEF ThreadsInv, PodIndexTypeOK, PodLookups, ReverseLookupSound,
         ReverseLookupComplete, PolicyIndexTypeOK

\* Every step of every goroutine keeps the invariant.
LEMMA ThreadsInvNext == ThreadsInv /\ [ThreadsNext]_threadVars => ThreadsInv'
<1> SUFFICES ASSUME ThreadsInv, [ThreadsNext]_threadVars PROVE ThreadsInv'
  OBVIOUS
<1>1. CASE PodReconciler
  BY <1>1, PodReconcilerKeeps
<1>2. CASE PolicyReconciler
  BY <1>2, PolicyReconcilerKeeps
<1>3. ASSUME NEW t \in {podR, policyR}, Recalculating(t) PROVE ThreadsInv'
  BY <1>3, RecalculatingKeeps
<1>4. ASSUME NEW h \in Handlers, Handler(h) PROVE ThreadsInv'
  <2>1. CASE StartReading(h, "getBlocklist", IPs)
    BY <2>1, StartReadingKeeps DEF ReadingCache
  <2>2. CASE CopiesEntry(h)
    BY <2>2, CopiesEntryKeeps
  <2>3. CASE StartReading(h, "size", {})
    BY SMT, <2>3, StartReadingKeeps DEF ReadingCache
  <2>4. CASE EndReading(h)
    BY <2>4, EndReadingKeeps
  <2> QED  BY <1>4, <2>1, <2>2, <2>3, <2>4 DEF Handler
<1>5. CASE UNCHANGED threadVars
  BY <1>5, ThreadsStutter
<1> QED  BY <1>1, <1>2, <1>3, <1>4, <1>5 DEF ThreadsNext

\* The invariant of the goroutines.
LEMMA ThreadsInvariant == ThreadsSpec => []ThreadsInv
BY ThreadsInvInit, ThreadsInvNext, PTL DEF ThreadsSpec

-----------------------------------------------------------------------------
(* What it says about the goroutines.                                      *)

\* With the two reconcilers and the API handlers at the same time in
\* pod_index.go, the pod index stays well formed, its reverse lookup leads from
\* an IP to a pod with this IP, and it finds every pod whose IP is its own.
THEOREM PodIndexUnderThreads ==
    ThreadsSpec => [](PodIndexTypeOK /\ ReverseLookupSound /\ ReverseLookupComplete)
<1>1. ThreadsInv => PodIndexTypeOK /\ ReverseLookupSound /\ ReverseLookupComplete
  BY DEF ThreadsInv, PodLookups
<1> QED  BY <1>1, ThreadsInvariant, PTL

\* The goroutines never all wait for each other in the mutexes of
\* blocklist_cache.go, pod_index.go and policy_index.go, whatever their number.
THEOREM NeverDeadlocked == ThreadsSpec => []NoDeadlock
<1>1. ThreadsInv => NoDeadlock
  BY SomeoneRuns DEF ThreadsInv
<1> QED  BY <1>1, ThreadsInvariant, PTL

=============================================================================
