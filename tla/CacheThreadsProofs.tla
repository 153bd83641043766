------------------------- MODULE CacheThreadsProofs -------------------------
(***************************************************************************)
(* What the mutexes give, from the invariant of CacheThreadsInv: the       *)
(* methods of the cache and of the indexes are atomic (a refinement of     *)
(* CacheOperations), and GetBlocklist copies one state of the cache.       *)
(***************************************************************************)
EXTENDS CacheThreadsInv, WellFoundedInduction

\* Most leaves reason about sets, functions and records.  Those that need
\* arithmetic or sequences cite SMT.
USE Zenon

(* Slices, and the labels a loop over one of them ends up with.            *)

\* A nonempty set of positions in a slice has a last one.
LEMMA LastIndex ==
    ASSUME NEW n \in Nat, NEW S, S \subseteq 1 .. n, S # {}
    PROVE  \E i \in S : \A j \in S : j <= i
<1> DEFINE T == {n - i : i \in S}
<1>1. \A i \in S : i \in Int /\ n - i \in Nat
  BY SMT
<1>2. T \subseteq Nat /\ T # {}
  BY <1>1
<1>3. IsWellFoundedOn(OpToRel(<, Nat), Nat)
  BY NatLessThanWellFounded
<1>4. PICK x \in T : \A y \in T : ~(<<y, x>> \in OpToRel(<, Nat))
  <2> HIDE DEF T
  <2> QED  BY <1>2, <1>3, WFMin
<1>5. \A y \in T : ~(y < x)
  BY <1>2, <1>4 DEF OpToRel
<1>6. PICK i \in S : x = n - i
  OBVIOUS
<1>7. \A j \in S : j <= i
  <2> TAKE j \in S
  <2>1. ~(n - j < n - i)
    BY <1>5, <1>6
  <2> QED  BY SMT, <2>1, <1>1
<1> QED  BY <1>7

\* LastOf(s) gives each IP in s the labels of some pod of s with this IP, after
\* which there is no other one.
LEMMA LastOfIs ==
    ASSUME NEW s \in Seq(Infos)
    PROVE  /\ DOMAIN LastOf(s) = {s[i].IP : i \in DOMAIN s}
           /\ \A ip \in DOMAIN LastOf(s) : \E i \in DOMAIN s :
                 /\ s[i].IP = ip /\ LastOf(s)[ip] = s[i].Labels
                 /\ \A j \in DOMAIN s : s[j].IP = ip => j <= i
<1>1. DOMAIN s = 1 .. Len(s) /\ Len(s) \in Nat
  BY SMT
<1>2. ASSUME NEW ip \in {s[i].IP : i \in DOMAIN s}
      PROVE  \E i \in DOMAIN s :
                 /\ s[i].IP = ip /\ LastOf(s)[ip] = s[i].Labels
                 /\ \A j \in DOMAIN s : s[j].IP = ip => j <= i
  <2> DEFINE S == {i \in DOMAIN s : s[i].IP = ip}
             last == CHOOSE i \in DOMAIN s :
                        /\ s[i].IP = ip
                        /\ \A j \in DOMAIN s : s[j].IP = ip => j <= i
  <2>1. \E i \in S : \A j \in S : j <= i
    BY <1>1, LastIndex
  <2>2. last \in DOMAIN s /\ s[last].IP = ip /\ \A j \in DOMAIN s : s[j].IP = ip => j <= last
    BY <2>1
  <2>3. LastOf(s)[ip] = s[last].Labels
    BY <1>2 DEF LastOf
  <2> HIDE DEF last
  <2> QED  BY <2>2, <2>3
<1> QED  BY <1>2 DEF LastOf

\* An empty slice leaves nothing to recalculate.
LEMMA LastOfEmpty == DOMAIN LastOf(<<>>) = {}
BY SMT DEF LastOf

-----------------------------------------------------------------------------
(* The entries of the abstract cache.                                      *)

\* EffectiveEntries in terms of the state it depends on.
EffectiveOf(ents, pol, p, q) ==
    IF p.pc = "store" THEN Put(ents, Head(p.todo).IP, p.domains)
    ELSE RecalculatedBy(ents, pol, LastOf(q.todo))

\* They are the same, before and after a step.
LEMMA EffectiveIs ==
    /\ EffectiveEntries = EffectiveOf(entries, policies, call[podR], call[policyR])
    /\ EffectiveEntries' = EffectiveOf(entries', policies', call'[podR], call'[policyR])
BY DEF EffectiveEntries, EffectiveOf, Now!Recalculated, Now!BlockedFor, Now!LabelsContainAll,
       LabelsContainAll, RecalculatedBy, BlockedBy

\* With nothing left to recalculate they are the entries.
LEMMA NothingToDo ==
    ASSUME NEW ents \in MapsTo(SUBSET Domains), NEW pol, NEW p, NEW q,
           p.pc # "store", q.todo = <<>>
    PROVE  EffectiveOf(ents, pol, p, q) = ents
<1>1. EffectiveOf(ents, pol, p, q) = RecalculatedBy(ents, pol, LastOf(<<>>))
  BY DEF EffectiveOf
<1>2. RecalculatedBy(ents, pol, LastOf(<<>>)) = [ip \in DOMAIN ents |-> ents[ip]]
  BY LastOfEmpty DEF RecalculatedBy
<1>3. [ip \in DOMAIN ents |-> ents[ip]] = ents
  BY DEF MapsTo
<1> QED  BY <1>1, <1>2, <1>3

\* Their keys are IPs of pods.
LEMMA EffectiveKeys ==
    ASSUME ThreadsInv
    PROVE  DOMAIN EffectiveEntries \subseteq IPs
<1>1. /\ podR \in Threads /\ policyR \in Threads
      /\ call[podR].todo \in Seq(Infos) /\ call[policyR].todo \in Seq(Infos)
      /\ DOMAIN entries \subseteq IPs
  BY ThreadsDiffer, CallFields DEF ThreadsInv, ThreadsTypeOK, MapsTo
<1>2. CASE call[podR].pc = "store"
  <2>1. Head(call[podR].todo).IP \in IPs
    BY <1>1, <1>2, HeadAndTail DEF ThreadsInv, TodoInv, Infos
  <2>2. DOMAIN EffectiveEntries = DOMAIN entries \cup {Head(call[podR].todo).IP}
    BY <1>2, EffectiveIs DEF EffectiveOf, Put
  <2> QED  BY <1>1, <2>1, <2>2
<1>3. CASE call[podR].pc # "store"
  <2>1. DOMAIN LastOf(call[policyR].todo) \subseteq IPs
    <3>1. DOMAIN LastOf(call[policyR].todo) =
              {call[policyR].todo[i].IP : i \in DOMAIN call[policyR].todo}
      BY <1>1, LastOfIs
    <3>2. \A i \in DOMAIN call[policyR].todo : call[policyR].todo[i] \in Infos
      BY SMT, <1>1
    <3> QED  BY <3>1, <3>2 DEF Infos
  <2>2. DOMAIN EffectiveEntries = DOMAIN entries \cup DOMAIN LastOf(call[policyR].todo)
    BY <1>3, EffectiveIs DEF EffectiveOf, RecalculatedBy
  <2> QED  BY <1>1, <2>1, <2>2
<1> QED  BY <1>2, <1>3

\* Where the cache has a reader, nothing is left to recalculate.
LEMMA ReaderSeesAll ==
    ASSUME ThreadsInv, lock["bc"].readers # {}
    PROVE  EffectiveEntries = entries
<1>1. \A t \in Threads : call[t].pc \notin Inside
  BY DEF ThreadsInv, LockInv
<1>2. call[podR].pc # "store" /\ call[policyR].todo = <<>>
  BY <1>1, ThreadsDiffer DEF ThreadsInv, TodoInv, Inside
<1>3. entries \in MapsTo(SUBSET Domains)
  BY DEF ThreadsInv, ThreadsTypeOK
<1> QED  BY <1>2, <1>3, EffectiveIs, NothingToDo

\* What GetBlocklist has copied at its end is the answer of the abstract cache.
LEMMA CopiedIsSnapshot == ThreadsInv => BlocklistIsSnapshot
<1> SUFFICES ASSUME ThreadsInv, NEW h \in Handlers, call[h].pc = "getBlocklist",
                    call[h].left = {}
             PROVE  call[h].copied = Abstract!GetBlocklist
  BY DEF BlocklistIsSnapshot
<1>1. Abstract!GetBlocklist =
          [ip \in DOMAIN EffectiveEntries
                  \ {i \in DOMAIN EffectiveEntries : EffectiveEntries[i] = {}}
              |-> EffectiveEntries[ip]]
  BY DEF Abstract!GetBlocklist, Abstract!Without
<1>2. CASE h \in lock["bc"].readers
  <2>1. EffectiveEntries = entries
    BY <1>2, ReaderSeesAll
  <2>2. call[h].copied = [ip \in {i \in DOMAIN entries : entries[i] # {}} |-> entries[ip]]
    BY <1>2 DEF ThreadsInv, CopiedInv
  <2>3. DOMAIN entries \ {i \in DOMAIN entries : entries[i] = {}}
            = {i \in DOMAIN entries : entries[i] # {}}
    OBVIOUS
  <2> QED  BY <1>1, <2>1, <2>2, <2>3
<1>3. CASE h \notin lock["bc"].readers
  <2>1. IPs = {} /\ call[h].copied = EmptyMap
    BY <1>3 DEF ThreadsInv, CopiedInv
  <2>2. DOMAIN EffectiveEntries = {}
    BY <2>1, EffectiveKeys
  <2> QED  BY <1>1, <2>1, <2>2 DEF EmptyMap
<1> QED  BY <1>2, <1>3

\* GET /api/policies answers with one state of the cache, for any number of
\* handlers and reconciler calls between the RLock and the RUnlock of
\* GetBlocklist.
THEOREM BlocklistAlwaysSnapshot == ThreadsSpec => []BlocklistIsSnapshot
BY CopiedIsSnapshot, ThreadsInvariant, PTL

-----------------------------------------------------------------------------
(* What a loop over a slice of pods amounts to.                            *)

\* The rest of a slice decides the labels of the IPs in it, its head those of
\* its own IP otherwise.
LEMMA LastOfTail ==
    ASSUME NEW s \in Seq(Infos), s # <<>>
    PROVE  /\ DOMAIN LastOf(s) = {Head(s).IP} \cup DOMAIN LastOf(Tail(s))
           /\ \A ip \in DOMAIN LastOf(Tail(s)) : LastOf(s)[ip] = LastOf(Tail(s))[ip]
           /\ Head(s).IP \notin DOMAIN LastOf(Tail(s)) =>
                 LastOf(s)[Head(s).IP] = Head(s).Labels
<1> DEFINE t == Tail(s)
           n == Len(s)
<1>1. /\ t \in Seq(Infos) /\ n \in Nat \ {0} /\ DOMAIN s = 1 .. n /\ Head(s) = s[1]
      /\ DOMAIN t = 1 .. n - 1 /\ \A i \in 1 .. n - 1 : t[i] = s[i + 1]
  BY HeadAndTail
<1>2. DOMAIN LastOf(s) = {s[i].IP : i \in 1 .. n}
  BY <1>1, LastOfIs
<1>3. DOMAIN LastOf(t) = {t[i].IP : i \in 1 .. n - 1}
  BY <1>1, LastOfIs
<1> HIDE DEF t, n
<1>4. \A i \in 1 .. n : i = 1 \/ (i - 1 \in 1 .. n - 1 /\ s[i] = t[i - 1])
  BY SMT, <1>1
<1>5. \A i \in 1 .. n - 1 : i + 1 \in 1 .. n /\ t[i] = s[i + 1]
  BY SMT, <1>1
<1>6. DOMAIN LastOf(s) = {Head(s).IP} \cup DOMAIN LastOf(t)
  <2>1. 1 \in 1 .. n
    BY SMT, <1>1
  <2>2. \A ip : ip \in DOMAIN LastOf(s) => ip = s[1].IP \/ ip \in DOMAIN LastOf(t)
    BY <1>2, <1>3, <1>4
  <2>3. \A ip : ip \in DOMAIN LastOf(t) => ip \in DOMAIN LastOf(s)
    BY <1>2, <1>3, <1>5
  <2>4. s[1].IP \in DOMAIN LastOf(s)
    BY <1>2, <2>1
  <2> QED  BY <1>1, <2>2, <2>3, <2>4
<1>7. ASSUME NEW ip \in DOMAIN LastOf(t)
      PROVE  LastOf(s)[ip] = LastOf(t)[ip]
  <2>1. PICK i \in 1 .. n - 1 :
            /\ t[i].IP = ip /\ LastOf(t)[ip] = t[i].Labels
            /\ \A j \in 1 .. n - 1 : t[j].IP = ip => j <= i
    BY <1>1, <1>7, LastOfIs
  <2>2. PICK k \in 1 .. n :
            /\ s[k].IP = ip /\ LastOf(s)[ip] = s[k].Labels
            /\ \A j \in 1 .. n : s[j].IP = ip => j <= k
    BY <1>1, <1>6, <1>7, LastOfIs
  <2>3. i + 1 <= k
    BY <1>5, <2>1, <2>2
  <2>4. k # 1 /\ k - 1 \in 1 .. n - 1 /\ s[k] = t[k - 1]
    BY SMT, <1>1, <1>4, <2>3
  <2>5. k - 1 <= i
    BY <2>1, <2>2, <2>4
  <2>6. k - 1 = i
    BY SMT, <1>1, <2>3, <2>5
  <2> QED  BY <2>1, <2>2, <2>4, <2>6
<1>8. ASSUME s[1].IP \notin DOMAIN LastOf(t)
      PROVE  LastOf(s)[s[1].IP] = s[1].Labels
  <2>1. s[1].IP \in DOMAIN LastOf(s)
    BY <1>1, <1>6
  <2>2. PICK k \in 1 .. n : s[k].IP = s[1].IP /\ LastOf(s)[s[1].IP] = s[k].Labels
    <3>1. \A ip \in DOMAIN LastOf(s) : \E k \in DOMAIN s :
              s[k].IP = ip /\ LastOf(s)[ip] = s[k].Labels
      BY LastOfIs
    <3> QED  BY <1>1, <2>1, <3>1
  <2>3. \A i \in 1 .. n - 1 : t[i].IP # s[1].IP
    BY <1>3, <1>8
  <2>4. k = 1
    BY <1>4, <2>2, <2>3
  <2> QED  BY <2>2, <2>4
<1> QED  BY <1>1, <1>6, <1>7, <1>8 DEF t

\* To store the block list of the first pod and to leave the rest is to be
\* where the loop was before.
LEMMA StoreFirst ==
    ASSUME NEW ents, NEW pol, NEW s \in Seq(Infos), s # <<>>
    PROVE  RecalculatedBy(Put(ents, Head(s).IP, BlockedBy(pol, Head(s).Labels)), pol,
                          LastOf(Tail(s)))
               = RecalculatedBy(ents, pol, LastOf(s))
<1> DEFINE ip0 == Head(s).IP
           v == BlockedBy(pol, Head(s).Labels)
           a == LastOf(s)
           b == LastOf(Tail(s))
<1>1. /\ DOMAIN a = {ip0} \cup DOMAIN b
      /\ \A ip \in DOMAIN b : a[ip] = b[ip]
      /\ ip0 \notin DOMAIN b => a[ip0] = Head(s).Labels
  BY LastOfTail
<1>2. v = BlockedBy(pol, Head(s).Labels)
  OBVIOUS
<1> HIDE DEF ip0, v, a, b
<1>3. DOMAIN Put(ents, ip0, v) \cup DOMAIN b = DOMAIN ents \cup DOMAIN a
  BY <1>1 DEF Put
<1>4. ASSUME NEW ip \in DOMAIN ents \cup DOMAIN a
      PROVE  (IF ip \in DOMAIN b THEN BlockedBy(pol, b[ip]) ELSE Put(ents, ip0, v)[ip])
             = (IF ip \in DOMAIN a THEN BlockedBy(pol, a[ip]) ELSE ents[ip])
  <2>1. CASE ip \in DOMAIN b
    BY <1>1, <2>1
  <2>2. CASE ip \notin DOMAIN b /\ ip = ip0
    <3>1. Put(ents, ip0, v)[ip] = v
      BY <2>2 DEF Put
    <3>2. ip \in DOMAIN a /\ a[ip] = Head(s).Labels
      BY <1>1, <2>2
    <3> QED  BY <1>2, <2>2, <3>1, <3>2
  <2>3. CASE ip \notin DOMAIN b /\ ip # ip0
    <3>1. ip \notin DOMAIN a /\ ip \in DOMAIN ents
      BY <1>1, <1>4, <2>3
    <3>2. Put(ents, ip0, v)[ip] = ents[ip]
      BY <2>3, <3>1 DEF Put
    <3> QED  BY <2>3, <3>1, <3>2
  <2> QED  BY <2>1, <2>2, <2>3
<1>5. RecalculatedBy(Put(ents, ip0, v), pol, b) = RecalculatedBy(ents, pol, a)
  BY <1>3, <1>4 DEF RecalculatedBy
<1> QED  BY <1>5 DEF ip0, v, a, b

\* A loop over a slice of indexed pods amounts to one of their batches.
LEMMA LastOfSlice ==
    ASSUME PodIndexTypeOK, NEW S \in SUBSET DOMAIN pods,
           NEW s \in Orders({pods[n] : n \in S})
    PROVE  LastOf(s) \in Abstract!BatchesOf(S)
<1> DEFINE found == {pods[n] : n \in S}
           batch == LastOf(s)
<1>1. found \subseteq Infos
  BY FoundPods
<1>2. /\ s \in Seq(Infos) /\ \A i \in DOMAIN s : s[i] \in found
      /\ \A info \in found : \E i \in DOMAIN s : s[i] = info
  <2> HIDE DEF found
  <2>1. s \in Orders(found)
    BY DEF found
  <2>2. s \in Seq(Infos)
    BY <1>1, <2>1, SliceIs
  <2> QED  BY SMT, <2>1, <2>2, OrdersAre
<1> HIDE DEF found
<1>3. DOMAIN batch = {s[i].IP : i \in DOMAIN s}
  BY <1>2, LastOfIs
<1>4. DOMAIN batch = {info.IP : info \in found}
  BY <1>2, <1>3
<1>5. \A ip \in DOMAIN batch : \E info \in found : info.IP = ip /\ info.Labels = batch[ip]
  <2> TAKE ip \in DOMAIN batch
  <2>1. PICK i \in DOMAIN s : s[i].IP = ip /\ LastOf(s)[ip] = s[i].Labels
    BY <1>2, LastOfIs
  <2> QED  BY <1>2, <2>1
<1>6. \A ip \in DOMAIN batch : [IP |-> ip, Labels |-> batch[ip]] \in found
  <2> TAKE ip \in DOMAIN batch
  <2>1. PICK info \in found : info.IP = ip /\ info.Labels = batch[ip]
    BY <1>5
  <2>2. info = [IP |-> info.IP, Labels |-> info.Labels]
    BY <1>1 DEF Infos
  <2> QED  BY <2>1, <2>2
<1>7. batch = [ip \in DOMAIN batch |-> batch[ip]]
  BY SMT DEF LastOf
<1> HIDE DEF batch
<1>8. batch \in [{info.IP : info \in found} -> {info.Labels : info \in found}]
  <2>1. \A ip \in DOMAIN batch : batch[ip] \in {info.Labels : info \in found}
    BY <1>5
  <2>2. batch \in [DOMAIN batch -> {info.Labels : info \in found}]
    BY <1>7, <2>1
  <2> QED  BY <1>4, <2>2
<1>9. batch \in Abstract!BatchesOf(S)
  BY <1>6, <1>8 DEF Abstract!BatchesOf, found
<1> QED  BY <1>9 DEF batch

\* A loop over affectedPods uses the labels in it.
LEMMA LastOfMap ==
    ASSUME NEW m \in MapsTo(LabelMaps), NEW s \in Orders(InfosOf(m))
    PROVE  LastOf(s) = m
<1>1. s \in Seq(Infos)
  BY InfosOfIs, SliceIs
<1>2. /\ s \in Seq(Infos) /\ \A i \in DOMAIN s : s[i] \in InfosOf(m)
      /\ \A info \in InfosOf(m) : \E i \in DOMAIN s : s[i] = info
  BY <1>1, OrdersAre
<1>3. \A i \in DOMAIN s : s[i].IP \in DOMAIN m /\ s[i].Labels = m[s[i].IP]
  BY SMT, <1>2 DEF InfosOf
<1>4. \A ip \in DOMAIN m : \E i \in DOMAIN s : s[i].IP = ip
  <2> TAKE ip \in DOMAIN m
  <2>1. [IP |-> ip, Labels |-> m[ip]] \in InfosOf(m)
    BY DEF InfosOf
  <2> QED  BY SMT, <1>2, <2>1
<1>5. DOMAIN LastOf(s) = {s[i].IP : i \in DOMAIN s}
  BY <1>2, LastOfIs
<1>6. DOMAIN LastOf(s) = DOMAIN m
  BY <1>3, <1>4, <1>5
<1>7. \A ip \in DOMAIN m : LastOf(s)[ip] = m[ip]
  <2> TAKE ip \in DOMAIN m
  <2>1. \A k \in DOMAIN LastOf(s) : \E i \in DOMAIN s :
            s[i].IP = k /\ LastOf(s)[k] = s[i].Labels
    BY <1>2, LastOfIs
  <2>2. PICK i \in DOMAIN s : s[i].IP = ip /\ LastOf(s)[ip] = s[i].Labels
    BY <1>6, <2>1
  <2> QED  BY <1>3, <2>2
<1>8. LastOf(s) = [ip \in DOMAIN LastOf(s) |-> LastOf(s)[ip]]
  BY SMT DEF LastOf
<1>9. m = [ip \in DOMAIN m |-> m[ip]]
  BY DEF MapsTo
<1> QED  BY <1>6, <1>7, <1>8, <1>9

\* The operators of the abstract cache, over its entries.
LEMMA AbstractIs ==
    /\ \A labels : Abstract!BlockedFor(labels) = BlockedBy(policies, labels)
    /\ \A batch : Abstract!Recalculated(batch)
                      = RecalculatedBy(EffectiveEntries, policies, batch)
    /\ \A selector : Abstract!BatchesFor(selector)
                         = Abstract!BatchesOf(GetPodsMatchingSelector(selector))
    /\ \A selector : Now!BatchesFor(selector) = Abstract!BatchesFor(selector)
    /\ Abstract!EmptyMap = EmptyMap
<1>1. \A labels : Abstract!BlockedFor(labels) = BlockedBy(policies, labels)
  BY DEF Abstract!BlockedFor, Abstract!LabelsContainAll, LabelsContainAll, BlockedBy
<1>2. \A batch : Abstract!Recalculated(batch)
                     = RecalculatedBy(EffectiveEntries, policies, batch)
  BY <1>1 DEF Abstract!Recalculated, RecalculatedBy
<1>3. \A selector : /\ Abstract!GetPodsMatchingSelector(selector)
                           = GetPodsMatchingSelector(selector)
                    /\ Now!GetPodsMatchingSelector(selector)
                           = GetPodsMatchingSelector(selector)
  BY DEF Abstract!GetPodsMatchingSelector, GetPodsMatchingSelector,
         Now!GetPodsMatchingSelector, Abstract!LabelsContainAll, LabelsContainAll,
         Now!LabelsContainAll
<1>4. \A S : Now!BatchesOf(S) = Abstract!BatchesOf(S)
  BY DEF Now!BatchesOf, Abstract!BatchesOf
<1>5. Abstract!EmptyMap = EmptyMap
  BY DEF Abstract!EmptyMap, EmptyMap
<1> QED
  BY <1>1, <1>2, <1>3, <1>4, <1>5 DEF Abstract!BatchesFor, Now!BatchesFor

-----------------------------------------------------------------------------
(* Every step is a step of the abstract cache, or none.                    *)

AbstractStep ==
    [Abstract!CacheNext]_<<Abstract!podIndexVars, policies, Abstract!cacheVars>>

\* What is to show for a step that the abstract cache does not see.
LEMMA Unseen ==
    ASSUME UNCHANGED <<pods, ipToPod, policies>>, EffectiveEntries' = EffectiveEntries,
           call'[policyR].affected = call[policyR].affected,
           call'[policyR].pc \in {"collected", "getNew"}
               <=> call[policyR].pc \in {"collected", "getNew"}
    PROVE  AbstractStep
<1>1. (call[policyR].pc \in {"collected", "getNew"})'
          = (call[policyR].pc \in {"collected", "getNew"})
  BY SMT
<1> QED  BY <1>1 DEF AbstractStep, Abstract!podIndexVars, Abstract!cacheVars

\* A step that changes neither the cache nor the policies nor what is left to
\* recalculate is one of them.
LEMMA SameTodo ==
    ASSUME UNCHANGED <<pods, ipToPod, policies, entries>>,
           call[podR].pc # "store", call'[podR].pc # "store",
           call'[policyR].todo = call[policyR].todo,
           call'[policyR].affected = call[policyR].affected,
           call'[policyR].pc \in {"collected", "getNew"}
               <=> call[policyR].pc \in {"collected", "getNew"}
    PROVE  AbstractStep
<1>1. EffectiveEntries' = EffectiveEntries
  BY EffectiveIs DEF EffectiveOf
<1> QED  BY <1>1, Unseen

\* While a goroutine is past the Lock of the cache, the other reconciler has
\* nothing to recalculate.
LEMMA OtherIsOut ==
    ASSUME ThreadsInv
    PROVE  /\ call[podR].pc \in Claiming \cup Inside =>
                 call[policyR].pc \notin Claiming \cup Inside /\ call[policyR].todo = <<>>
           /\ call[policyR].pc \in Claiming \cup Inside =>
                 call[podR].pc \notin Claiming \cup Inside /\ call[podR].pc # "store"
<1>1. {"loop", "getPolicies", "store"} \subseteq Inside
  BY DEF Inside
<1>2. ~(call[podR].pc \in Claiming \cup Inside /\ call[policyR].pc \in Claiming \cup Inside)
  BY CacheExclusive, ThreadsDiffer DEF ThreadsInv
<1>3. call[policyR].todo # <<>> => call[policyR].pc \in Inside
  BY <1>1 DEF ThreadsInv, TodoInv
<1> QED  BY <1>1, <1>2, <1>3

\* Lock.
LEMMA StartLockedUnseen ==
    ASSUME ThreadsInv, NEW t \in {podR, policyR}, NEW m, NEW pc \in PCsOf(t), pc \in PCs \ Inside,
           StartLocked(t, m, pc)
    PROVE  AbstractStep
<1>1. CallsAfter(t, pc, call[t].affected, call[t].todo, call[t].domains, call[t].copied,
                 call[t].left)
  BY GoToIs, ThreadsDiffer DEF StartLocked, ThreadsInv
<1>2. UNCHANGED <<pods, ipToPod, policies, entries>> /\ call[t].pc = "idle"
  BY DEF StartLocked, podIndexVars
<1>3. pc \notin {"store", "collected", "getNew"}
  BY DEF Inside, ReadingPods
<1>4. /\ call'[policyR].todo = call[policyR].todo
      /\ call'[policyR].affected = call[policyR].affected
      /\ call'[policyR].pc \in {"collected", "getNew"}
             <=> call[policyR].pc \in {"collected", "getNew"}
      /\ call[podR].pc = "store" <=> call'[podR].pc = "store"
  BY <1>1, <1>2, <1>3, ThreadsDiffer DEF CallsAfter
<1>5. CASE call[podR].pc # "store"
  BY <1>2, <1>4, <1>5, SameTodo
<1>6. CASE call[podR].pc = "store"
  <2>1. t # podR /\ call'[podR] = call[podR] /\ call'[podR].pc = "store"
    BY <1>1, <1>2, <1>6, ThreadsDiffer DEF CallsAfter
  <2>2. EffectiveEntries' = EffectiveEntries
    BY <1>2, <1>6, <2>1, EffectiveIs DEF EffectiveOf
  <2> QED  BY <1>2, <1>4, <2>2, Unseen
<1> QED  BY <1>5, <1>6

\* RLock of an index.
LEMMA ReadIndexUnseen ==
    ASSUME ThreadsInv, NEW t \in {podR, policyR}, NEW at, NEW m, NEW pc \in PCsOf(t), pc \in PCs,
           ReadIndex(t, at, m, pc), at \in Claiming \cup {"collected", "loop"},
           pc \in ReadingPods \cup {"getPolicies"}, pc = "getNew" <=> at = "collected"
    PROVE  AbstractStep
<1>1. CallsAfter(t, pc, call[t].affected, call[t].todo, call[t].domains, call[t].copied,
                 call[t].left)
  BY GoToIs, ThreadsDiffer DEF ReadIndex, ThreadsInv
<1>2. UNCHANGED <<pods, ipToPod, policies, entries>> /\ call[t].pc = at
  BY DEF ReadIndex, podIndexVars
<1>3. pc \notin {"store", "collected"} /\ at \notin {"store", "getNew"} /\ at \in Claiming \cup Inside
  BY DEF Inside, ReadingPods, Claiming
<1>4. call[podR].pc # "store"
  BY <1>2, <1>3, OtherIsOut
<1>5. /\ call'[policyR].todo = call[policyR].todo
      /\ call'[policyR].affected = call[policyR].affected
      /\ call'[policyR].pc \in {"collected", "getNew"}
             <=> call[policyR].pc \in {"collected", "getNew"}
      /\ call'[podR].pc # "store"
  BY <1>1, <1>2, <1>3, <1>4, ThreadsDiffer DEF CallsAfter
<1> QED  BY <1>2, <1>4, <1>5, SameTodo

\* The pod index has been read by RecalculatePod: it takes effect later.
LEMMA GetsPodUnseen == ThreadsInv /\ GetsPod => AbstractStep
<1> SUFFICES ASSUME ThreadsInv, GetsPod PROVE AbstractStep
  OBVIOUS
<1>1. call[podR] \in CallRecords /\ call \in [Threads -> CallRecords]
  BY ThreadsDiffer DEF ThreadsInv, ThreadsTypeOK
<1>2. call[podR].pc = "getPod" /\ UNCHANGED <<pods, ipToPod, policies, entries>>
  BY DEF GetsPod, HasRead, podIndexVars
<1>3. call'[podR].pc = "loop" /\ call'[policyR] = call[policyR]
  BY <1>1, ThreadsDiffer DEF GetsPod, CallRecords
<1> QED  BY <1>2, <1>3, SameTodo

\* RecalculatePod takes effect when it has read the policy index.
LEMMA GetsPoliciesOfPod == ThreadsInv /\ GetsPolicies(podR) => AbstractStep
<1> SUFFICES ASSUME ThreadsInv, GetsPolicies(podR) PROVE AbstractStep
  OBVIOUS
<1> DEFINE p == call[podR]
<1>1. p \in CallRecords /\ call \in [Threads -> CallRecords]
      /\ entries \in MapsTo(SUBSET Domains)
  BY ThreadsDiffer DEF ThreadsInv, ThreadsTypeOK
<1>2. p.pc = "getPolicies" /\ UNCHANGED <<pods, ipToPod, policies, entries>>
  BY DEF GetsPolicies, HasRead, podIndexVars
<1>3. call[policyR].pc \notin Claiming \cup Inside /\ call[policyR].todo = <<>>
  BY <1>2, OtherIsOut DEF Inside
<1>4. PICK n \in DOMAIN pods : p.todo = <<pods[n]>>
  BY <1>2 DEF ThreadsInv, TodoInv
<1>5. Head(p.todo) = pods[n] /\ n \in PodNames
  BY SMT, <1>4 DEF ThreadsInv, PodIndexTypeOK
<1>6. Now!BlockedFor(Head(p.todo).Labels) = BlockedBy(policies, pods[n].Labels)
  BY <1>5, NowIs
<1>7. /\ call'[podR].pc = "store" /\ call'[podR].todo = p.todo
      /\ call'[podR].domains = Now!BlockedFor(Head(p.todo).Labels)
      /\ call'[policyR] = call[policyR]
  BY <1>1, ThreadsDiffer DEF GetsPolicies, CallRecords
<1>8. EffectiveEntries = entries
  BY <1>1, <1>2, <1>3, EffectiveIs, NothingToDo
<1>9. EffectiveEntries' = Put(entries, pods[n].IP, BlockedBy(policies, pods[n].Labels))
  BY <1>2, <1>5, <1>6, <1>7, EffectiveIs DEF EffectiveOf
<1>10. Abstract!Recalculated([ip \in {pods[n].IP} |-> pods[n].Labels])
           = Put(entries, pods[n].IP, BlockedBy(policies, pods[n].Labels))
  <2>1. Abstract!Recalculated([ip \in {pods[n].IP} |-> pods[n].Labels])
            = RecalculatedBy(entries, policies, [ip \in {pods[n].IP} |-> pods[n].Labels])
    BY <1>8, AbstractIs
  <2> QED  BY <2>1 DEF RecalculatedBy, Put
<1>11. call[policyR].pc \notin {"collected", "getNew"}
  BY <1>3 DEF Inside, ReadingPods
<1>12. (call[policyR].pc \in {"collected", "getNew"})'
           = (call[policyR].pc \in {"collected", "getNew"})
  BY <1>7
<1>13. Abstract!RecalculatePod(n)
  BY <1>7, <1>9, <1>10, <1>11, <1>12 DEF Abstract!RecalculatePod
<1>14. Abstract!CacheStep
  BY <1>2, <1>5, <1>13 DEF Abstract!CacheStep, Abstract!podIndexVars
<1> QED  BY <1>14 DEF AbstractStep, Abstract!CacheNext

\* The policy reconciler reads the policy index for the next pod: its call has
\* taken effect before.
LEMMA GetsPoliciesUnseen == ThreadsInv /\ GetsPolicies(policyR) => AbstractStep
<1> SUFFICES ASSUME ThreadsInv, GetsPolicies(policyR) PROVE AbstractStep
  OBVIOUS
<1>1. call[policyR] \in CallRecords /\ call \in [Threads -> CallRecords]
  BY ThreadsDiffer DEF ThreadsInv, ThreadsTypeOK
<1>2. call[policyR].pc = "getPolicies" /\ UNCHANGED <<pods, ipToPod, policies, entries>>
  BY DEF GetsPolicies, HasRead, podIndexVars
<1>3. call[podR].pc # "store"
  BY <1>2, OtherIsOut DEF Inside
<1>4. /\ call'[policyR].pc = "store" /\ call'[policyR].todo = call[policyR].todo
      /\ call'[policyR].affected = call[policyR].affected
      /\ call'[podR] = call[podR]
  BY <1>1, ThreadsDiffer DEF GetsPolicies, CallRecords
<1> QED  BY <1>2, <1>3, <1>4, SameTodo

\* An entry is written that the abstract cache has already.
LEMMA StoresEntryUnseen ==
    ASSUME ThreadsInv, NEW t \in {podR, policyR}, StoresEntry(t)
    PROVE  AbstractStep
<1>1. call[t] \in CallRecords /\ call \in [Threads -> CallRecords]
      /\ entries \in MapsTo(SUBSET Domains) /\ call[t].todo \in Seq(Infos)
      /\ call[t].domains \in SUBSET Domains
  BY ThreadsDiffer, CallFields DEF ThreadsInv, ThreadsTypeOK
<1>2. call[t].pc = "store" /\ UNCHANGED <<pods, ipToPod, policies>>
      /\ entries' = Put(entries, Head(call[t].todo).IP, call[t].domains)
  BY DEF StoresEntry, podIndexVars
<1>3. call[t].todo # <<>>
  BY <1>2 DEF ThreadsInv, TodoInv
<1>4. entries' \in MapsTo(SUBSET Domains)
  <2>1. Head(call[t].todo).IP \in IPs
    BY <1>1, <1>3, HeadAndTail DEF Infos
  <2> QED  BY <1>1, <1>2, <2>1, EntriesType
<1>5. /\ call'[t].pc = "loop" /\ call'[t].todo = Tail(call[t].todo)
      /\ call'[t].affected = call[t].affected
      /\ \A u \in Threads \ {t} : call'[u] = call[u]
  BY <1>1, ThreadsDiffer DEF StoresEntry, CallRecords
<1>6. CASE t = podR
  <2>1. call[policyR].todo = <<>> /\ call'[policyR] = call[policyR]
    BY <1>2, <1>5, <1>6, OtherIsOut, ThreadsDiffer DEF Inside
  <2>2. EffectiveEntries = entries'
    BY <1>2, <1>6, EffectiveIs DEF EffectiveOf
  <2>3. EffectiveEntries' = entries'
    <3>1. call'[podR].pc # "store" /\ call'[policyR].todo = <<>>
      BY <1>5, <1>6, <2>1
    <3>2. EffectiveOf(entries', policies', call'[podR], call'[policyR]) = entries'
      BY <1>4, <3>1, NothingToDo
    <3> QED  BY <3>2, EffectiveIs
  <2> QED  BY <1>2, <2>1, <2>2, <2>3, Unseen
<1>7. CASE t = policyR
  <2>1. call[podR].pc # "store" /\ call'[podR] = call[podR]
    BY <1>2, <1>5, <1>7, OtherIsOut, ThreadsDiffer DEF Inside
  <2>2. call[policyR].domains = BlockedBy(policies, Head(call[policyR].todo).Labels)
    BY <1>2, <1>7 DEF ThreadsInv, TodoInv
  <2>3. EffectiveEntries = RecalculatedBy(entries, policies, LastOf(call[policyR].todo))
    BY <2>1, EffectiveIs DEF EffectiveOf
  <2>4. EffectiveEntries' =
            RecalculatedBy(entries', policies, LastOf(Tail(call[policyR].todo)))
    BY <1>2, <1>5, <1>7, <2>1, EffectiveIs DEF EffectiveOf
  <2>5. EffectiveEntries' = EffectiveEntries
    BY SMT, <1>1, <1>2, <1>3, <1>7, <2>2, <2>3, <2>4, StoreFirst
  <2> QED  BY <1>2, <1>5, <1>7, <2>5, Unseen
<1> QED  BY <1>6, <1>7

\* A recalculation ends with its Unlock.
LEMMA LoopEndsUnseen ==
    ASSUME ThreadsInv, NEW t \in {podR, policyR}, LoopEnds(t)
    PROVE  AbstractStep
<1>1. CallsAfter(t, "idle", EmptyMap, <<>>, {}, EmptyMap, {})
  BY ReturnIs, ThreadsDiffer DEF LoopEnds, ThreadsInv
<1>2. call[t].pc = "loop" /\ call[t].todo = <<>> /\ UNCHANGED <<pods, ipToPod, policies, entries>>
  BY DEF LoopEnds, podIndexVars
<1>3. call[podR].pc # "store"
  BY <1>2, OtherIsOut DEF Inside
<1>4. call[policyR].pc = "loop" => call[policyR].affected = EmptyMap
  BY DEF ThreadsInv, AffectedInv
<1>5. /\ call'[policyR].todo = call[policyR].todo
      /\ call'[policyR].affected = call[policyR].affected
      /\ call'[policyR].pc \in {"collected", "getNew"}
             <=> call[policyR].pc \in {"collected", "getNew"}
      /\ call'[podR].pc # "store"
  BY <1>1, <1>2, <1>3, <1>4, ThreadsDiffer DEF CallsAfter
<1> QED  BY <1>2, <1>3, <1>5, SameTodo

\* The handlers only read.
LEMMA HandlerUnseen ==
    ASSUME ThreadsInv, NEW h \in Handlers, Handler(h)
    PROVE  AbstractStep
<1>1. UNCHANGED <<pods, ipToPod, policies, entries>>
  BY DEF Handler, StartReading, CopiesEntry, EndReading, HasRead, podIndexVars
<1>2. h # podR /\ h # policyR /\ call \in [Threads -> CallRecords]
  BY ThreadsDiffer DEF ThreadsInv, ThreadsTypeOK
<1>3. call'[podR] = call[podR] /\ call'[policyR] = call[policyR]
  BY <1>2, ThreadsDiffer DEF Handler, StartReading, CopiesEntry, EndReading
<1>4. EffectiveEntries' = EffectiveEntries
  BY <1>1, <1>3, EffectiveIs DEF EffectiveOf
<1> QED  BY <1>1, <1>3, <1>4, Unseen

\* Upsert and Delete of the pod index, whatever the policy reconciler is doing.
LEMMA WritesPodsSeen == ThreadsInv /\ WritesPods => AbstractStep
<1> SUFFICES ASSUME ThreadsInv, WritesPods PROVE AbstractStep
  OBVIOUS
<1>1. CallsAfter(podR, "idle", EmptyMap, <<>>, {}, EmptyMap, {})
  BY ReturnIs, ThreadsDiffer DEF WritesPods, ThreadsInv
<1>2. PodIndexNext /\ UNCHANGED <<policies, entries>> /\ call[podR].pc = "writePods"
  BY DEF WritesPods
<1>3. call'[podR].pc # "store" /\ call[podR].pc # "store" /\ call'[policyR] = call[policyR]
  BY <1>1, <1>2, ThreadsDiffer DEF CallsAfter
<1>4. EffectiveEntries' = EffectiveEntries
  BY <1>2, <1>3, EffectiveIs DEF EffectiveOf
<1>5. (call[policyR].pc \in {"collected", "getNew"})'
          = (call[policyR].pc \in {"collected", "getNew"})
  BY <1>3
<1>6. Abstract!PodIndexNext
  BY <1>2 DEF PodIndexNext, UpsertPod, DeletePod, Put, Without, podIndexVars,
              Abstract!PodIndexNext, Abstract!UpsertPod, Abstract!DeletePod, Abstract!Put,
              Abstract!Without, Abstract!podIndexVars
<1>7. Abstract!IndexStep
  BY <1>2, <1>3, <1>4, <1>5, <1>6 DEF Abstract!IndexStep, Abstract!cacheVars
<1> QED  BY <1>7 DEF AbstractStep, Abstract!CacheNext

\* Upsert and Delete of the policy index, also between the read and the write
\* of a RecalculatePod.
LEMMA WritesPoliciesSeen == ThreadsInv /\ WritesPolicies => AbstractStep
<1> SUFFICES ASSUME ThreadsInv, WritesPolicies PROVE AbstractStep
  OBVIOUS
<1>1. CallsAfter(policyR, "idle", EmptyMap, <<>>, {}, EmptyMap, {})
  BY ReturnIs, ThreadsDiffer DEF WritesPolicies, ThreadsInv
<1>2. UNCHANGED <<pods, ipToPod, entries>> /\ call[policyR].pc = "writePolicies"
      /\ entries \in MapsTo(SUBSET Domains)
  BY DEF WritesPolicies, podIndexVars, ThreadsInv, ThreadsTypeOK
<1>3. PICK q \in PolicyNames : DeletePolicy(q) \/ \E spec \in SpecsOf[q] : UpsertPolicy(q, spec)
  BY DEF WritesPolicies
<1>4. call[policyR].todo = <<>> /\ call[policyR].affected = EmptyMap
  BY <1>2 DEF ThreadsInv, TodoInv, AffectedInv
<1>5. /\ call'[policyR].todo = <<>> /\ call'[policyR].affected = EmptyMap
      /\ call'[policyR].pc = "idle" /\ call'[podR] = call[podR]
  BY <1>1, ThreadsDiffer DEF CallsAfter
<1>6. EffectiveEntries' = EffectiveEntries
  <2>1. CASE call[podR].pc = "store"
    BY <1>2, <1>5, <2>1, EffectiveIs DEF EffectiveOf
  <2>2. CASE call[podR].pc # "store"
    <3>1. EffectiveOf(entries, policies, call[podR], call[policyR]) = entries
      BY <1>2, <1>4, <2>2, NothingToDo
    <3>2. EffectiveOf(entries, policies', call'[podR], call'[policyR]) = entries
      BY <1>2, <1>5, <2>2, NothingToDo, ZenonT(30)
    <3> QED  BY <1>2, <3>1, <3>2, EffectiveIs
  <2> QED  BY <2>1, <2>2
<1>7. (call[policyR].pc \in {"collected", "getNew"})'
          = (call[policyR].pc \in {"collected", "getNew"})
  BY SMT, <1>2, <1>5
<1>8. Abstract!DeletePolicy(q) \/ \E spec \in SpecsOf[q] : Abstract!UpsertPolicy(q, spec)
  BY <1>3 DEF DeletePolicy, UpsertPolicy, Put, Without, Abstract!DeletePolicy,
              Abstract!UpsertPolicy, Abstract!Put, Abstract!Without
<1>9. Abstract!IndexStep
  BY <1>2, <1>4, <1>5, <1>6, <1>7, <1>8
     DEF Abstract!IndexStep, Abstract!cacheVars, Abstract!podIndexVars
<1> QED  BY <1>9 DEF AbstractStep, Abstract!CacheNext

\* RemovePod of the cache.
LEMMA RemovesPodSeen == ThreadsInv /\ RemovesPod => AbstractStep
<1> SUFFICES ASSUME ThreadsInv, RemovesPod PROVE AbstractStep
  OBVIOUS
<1>1. CallsAfter(podR, "idle", EmptyMap, <<>>, {}, EmptyMap, {})
  BY ReturnIs, ThreadsDiffer DEF RemovesPod, ThreadsInv
<1>2. UNCHANGED <<pods, ipToPod, policies>> /\ call[podR].pc = "removePod"
      /\ entries \in MapsTo(SUBSET Domains)
  BY DEF RemovesPod, podIndexVars, ThreadsInv, ThreadsTypeOK
<1>3. PICK ip \in IPs : entries' = Without(entries, {ip})
  BY DEF RemovesPod
<1>4. entries' \in MapsTo(SUBSET Domains)
  BY <1>2, <1>3, EntriesType
<1>5. call[policyR].pc \notin Claiming \cup Inside /\ call[policyR].todo = <<>>
  BY <1>2, OtherIsOut DEF Claiming
<1>6. call'[podR].pc = "idle" /\ call'[policyR] = call[policyR]
  BY <1>1, ThreadsDiffer DEF CallsAfter
<1>7. EffectiveEntries = entries
  BY <1>2, <1>5, EffectiveIs, NothingToDo
<1>8. EffectiveEntries' = entries'
  <2>1. call'[podR].pc # "store" /\ call'[policyR].todo = <<>>
    BY <1>5, <1>6
  <2>2. EffectiveOf(entries', policies', call'[podR], call'[policyR]) = entries'
    BY <1>4, <2>1, NothingToDo
  <2> QED  BY <2>2, EffectiveIs
<1>9. call[policyR].pc \notin {"collected", "getNew"}
  BY <1>5 DEF Inside, ReadingPods
<1>10. (call[policyR].pc \in {"collected", "getNew"})'
           = (call[policyR].pc \in {"collected", "getNew"})
  BY <1>6
<1>11. Abstract!RemovePod(ip)
  BY <1>3, <1>6, <1>7, <1>8, <1>9, <1>10 DEF Abstract!RemovePod, Abstract!Without, Without
<1>12. Abstract!CacheStep
  BY <1>2, <1>11 DEF Abstract!CacheStep, Abstract!podIndexVars, Abstract!IPs, IPs
<1> QED  BY <1>12 DEF AbstractStep, Abstract!CacheNext

\* A selector of some policy.
LEMMA SelectorOf ==
    ASSUME NEW selector \in Selectors
    PROVE  \E q \in PolicyNames : selector \in Abstract!Selectors(q)
BY DEF Selectors, Abstract!Selectors

\* The policy reconciler about to read the pod index: the abstract cache is as
\* the entries are.
LEMMA BeforeRead ==
    ASSUME ThreadsInv, NEW at \in ReadingPods, HasRead(policyR, at, "pods")
    PROVE  /\ UNCHANGED <<pods, ipToPod, policies>> /\ call[policyR].pc = at
           /\ EffectiveEntries = entries /\ call[podR].pc # "store"
           /\ call[policyR].todo = <<>> /\ call \in [Threads -> CallRecords]
           /\ call[policyR] \in CallRecords /\ entries \in MapsTo(SUBSET Domains)
           /\ at \notin {"collected", "getNew"} =>
                 call[policyR].affected = EmptyMap /\ ~(call[policyR].pc \in {"collected", "getNew"})
<1>1. call[policyR].pc = at /\ at \in Inside /\ UNCHANGED <<pods, ipToPod, policies>>
  BY DEF HasRead, podIndexVars, Inside
<1>2. entries \in MapsTo(SUBSET Domains) /\ call \in [Threads -> CallRecords]
      /\ call[policyR] \in CallRecords
  BY ThreadsDiffer DEF ThreadsInv, ThreadsTypeOK
<1>3. call[podR].pc # "store"
  BY <1>1, OtherIsOut
<1>4. call[policyR].todo = <<>>
  BY <1>1 DEF ThreadsInv, TodoInv, ReadingPods
<1>5. EffectiveEntries = entries
  BY <1>2, <1>3, <1>4, EffectiveIs, NothingToDo
<1>6. at \notin {"collected", "getNew"} => call[policyR].affected = EmptyMap
  BY <1>1 DEF ThreadsInv, AffectedInv
<1> QED  BY <1>1, <1>2, <1>3, <1>4, <1>5, <1>6

\* RecalculateForPolicy takes effect when it has read the pod index.
LEMMA GetsMatchingSeen == ThreadsInv /\ GetsMatching => AbstractStep
<1> SUFFICES ASSUME ThreadsInv, GetsMatching PROVE AbstractStep
  OBVIOUS
<1>1. PICK selector \in Selectors : \E s \in Orders(Matching(selector)) :
          call' = [call EXCEPT ![policyR].pc = "loop", ![policyR].todo = s]
  BY DEF GetsMatching
<1>2. PICK s \in Orders(Matching(selector)) :
          call' = [call EXCEPT ![policyR].pc = "loop", ![policyR].todo = s]
  BY <1>1, ZenonT(30)
<1>3. HasRead(policyR, "getMatching", "pods") /\ entries' = entries
      /\ "getMatching" \in ReadingPods
  BY DEF GetsMatching, ReadingPods
<1>4. /\ UNCHANGED <<pods, ipToPod, policies>> /\ call[podR].pc # "store"
      /\ EffectiveEntries = entries /\ call \in [Threads -> CallRecords]
      /\ call[policyR] \in CallRecords /\ call[policyR].affected = EmptyMap
      /\ ~(call[policyR].pc \in {"collected", "getNew"})
  BY <1>3, BeforeRead
<1>5. /\ call'[policyR].pc = "loop" /\ call'[policyR].todo = s
      /\ call'[policyR].affected = EmptyMap /\ call'[podR] = call[podR]
  BY <1>2, <1>4, ThreadsDiffer DEF CallRecords
<1>6. EffectiveEntries' = RecalculatedBy(entries, policies, LastOf(s))
  BY <1>3, <1>4, <1>5, EffectiveIs DEF EffectiveOf
<1>7. LastOf(s) \in Abstract!BatchesFor(selector)
  <2>1. GetPodsMatchingSelector(selector) \in SUBSET DOMAIN pods
    BY MatchingIs
  <2>2. LastOf(s) \in Abstract!BatchesOf(GetPodsMatchingSelector(selector))
    BY <2>1, LastOfSlice DEF ThreadsInv, Matching
  <2> QED  BY <2>2, AbstractIs
<1>8. EffectiveEntries' = Abstract!Recalculated(LastOf(s))
  BY <1>4, <1>6, AbstractIs
<1>9. (call[policyR].pc \in {"collected", "getNew"})'
          = (call[policyR].pc \in {"collected", "getNew"})
  BY SMT, <1>4, <1>5
<1>10. Abstract!RecalculateForPolicy(selector)
  BY <1>4, <1>5, <1>7, <1>8, <1>9 DEF Abstract!RecalculateForPolicy
<1>11. Abstract!CacheStep
  BY <1>4, <1>10, SelectorOf DEF Abstract!CacheStep, Abstract!podIndexVars
<1> QED  BY <1>11 DEF AbstractStep, Abstract!CacheNext

\* RecalculateAll takes effect when it has read the pod index.
LEMMA GetsAllSeen == ThreadsInv /\ GetsAll => AbstractStep
<1> SUFFICES ASSUME ThreadsInv, GetsAll PROVE AbstractStep
  OBVIOUS
<1>1. PICK s \in Orders({pods[n] : n \in DOMAIN pods}) :
          call' = [call EXCEPT ![policyR].pc = "loop", ![policyR].todo = s]
  BY DEF GetsAll
<1>2. HasRead(policyR, "getAll", "pods") /\ entries' = EmptyMap /\ "getAll" \in ReadingPods
  BY DEF GetsAll, ReadingPods
<1>3. /\ UNCHANGED <<pods, ipToPod, policies>> /\ call[podR].pc # "store"
      /\ EffectiveEntries = entries /\ call \in [Threads -> CallRecords]
      /\ call[policyR] \in CallRecords /\ call[policyR].affected = EmptyMap
      /\ ~(call[policyR].pc \in {"collected", "getNew"})
  BY <1>2, BeforeRead
<1>4. /\ call'[policyR].pc = "loop" /\ call'[policyR].todo = s
      /\ call'[policyR].affected = EmptyMap /\ call'[podR] = call[podR]
  BY <1>1, <1>3, ThreadsDiffer DEF CallRecords
<1>5. EffectiveEntries' = RecalculatedBy(EmptyMap, policies, LastOf(s))
  BY <1>2, <1>3, <1>4, EffectiveIs DEF EffectiveOf
<1>6. LastOf(s) \in Abstract!BatchesOf(DOMAIN pods)
  BY LastOfSlice DEF ThreadsInv
<1>7. EffectiveEntries' =
          [ip \in DOMAIN LastOf(s) |-> Abstract!BlockedFor(LastOf(s)[ip])]
  <2>1. DOMAIN EmptyMap = {}
    BY DEF EmptyMap
  <2>2. RecalculatedBy(EmptyMap, policies, LastOf(s)) =
            [ip \in DOMAIN LastOf(s) |-> BlockedBy(policies, LastOf(s)[ip])]
    BY <2>1 DEF RecalculatedBy
  <2> QED  BY <1>5, <2>2, AbstractIs
<1>8. (call[policyR].pc \in {"collected", "getNew"})'
          = (call[policyR].pc \in {"collected", "getNew"})
  BY SMT, <1>3, <1>4
<1>9. Abstract!RecalculateAll
  BY <1>3, <1>4, <1>6, <1>7, <1>8 DEF Abstract!RecalculateAll
<1>10. Abstract!CacheStep
  BY <1>3, <1>9 DEF Abstract!CacheStep, Abstract!podIndexVars
<1> QED  BY <1>10 DEF AbstractStep, Abstract!CacheNext

\* The first half of RecalculateForPolicyChange.
LEMMA GetsOldSeen == ThreadsInv /\ GetsOld => AbstractStep
<1> SUFFICES ASSUME ThreadsInv, GetsOld PROVE AbstractStep
  OBVIOUS
<1>1. PICK selector \in Selectors : \E batch \in Now!BatchesFor(selector) :
          call' = [call EXCEPT ![policyR].pc = "collected", ![policyR].affected = batch]
  BY DEF GetsOld
<1>2. PICK batch \in Now!BatchesFor(selector) :
          call' = [call EXCEPT ![policyR].pc = "collected", ![policyR].affected = batch]
  BY <1>1, ZenonT(30)
<1>3. HasRead(policyR, "getOld", "pods") /\ entries' = entries /\ "getOld" \in ReadingPods
  BY DEF GetsOld, ReadingPods
<1>4. /\ UNCHANGED <<pods, ipToPod, policies>> /\ call[podR].pc # "store"
      /\ EffectiveEntries = entries /\ call \in [Threads -> CallRecords]
      /\ call[policyR] \in CallRecords /\ call[policyR].todo = <<>>
      /\ ~(call[policyR].pc \in {"collected", "getNew"}) /\ entries \in MapsTo(SUBSET Domains)
  BY <1>3, BeforeRead, ZenonT(30)
<1>5. /\ call'[policyR].pc = "collected" /\ call'[policyR].todo = <<>>
      /\ call'[policyR].affected = batch /\ call'[podR] = call[podR]
  BY <1>2, <1>4, ThreadsDiffer DEF CallRecords
<1>6. EffectiveEntries' = EffectiveEntries
  <2>1. /\ call'[podR].pc # "store" /\ call'[policyR].todo = <<>>
        /\ entries \in MapsTo(SUBSET Domains)
    BY <1>4, <1>5
  <2>2. EffectiveOf(entries, policies', call'[podR], call'[policyR]) = entries
    BY <2>1, NothingToDo
  <2> QED  BY <1>3, <1>4, <2>2, EffectiveIs, ZenonT(30)
<1>7. (call[policyR].pc \in {"collected", "getNew"})' = TRUE
  BY <1>5
<1>8. batch \in Abstract!BatchesFor(selector)
  BY AbstractIs
<1>9. Abstract!CollectOldSelector(selector)
  BY <1>4, <1>5, <1>6, <1>7, <1>8 DEF Abstract!CollectOldSelector
<1>10. Abstract!CacheStep
  BY <1>4, <1>9, SelectorOf DEF Abstract!CacheStep, Abstract!podIndexVars
<1> QED  BY <1>10 DEF AbstractStep, Abstract!CacheNext

\* RecalculateForPolicyChange takes effect at its second read of the pod index.
LEMMA GetsNewSeen == ThreadsInv /\ GetsNew => AbstractStep
<1> SUFFICES ASSUME ThreadsInv, GetsNew PROVE AbstractStep
  OBVIOUS
<1> DEFINE old == call[policyR].affected
           all(batch) == {[IP |-> ip, Labels |-> batch[ip]] : ip \in DOMAIN batch}
                         \cup {[IP |-> ip, Labels |-> old[ip]] :
                                   ip \in DOMAIN old \ DOMAIN batch}
<1>1. PICK selector \in Selectors : \E batch \in Now!BatchesFor(selector) :
          \E s \in Orders(all(batch)) :
             call' = [call EXCEPT ![policyR].pc = "loop", ![policyR].affected = EmptyMap,
                                  ![policyR].todo = s]
  BY DEF GetsNew
<1>2. PICK batch \in Now!BatchesFor(selector) : \E s \in Orders(all(batch)) :
             call' = [call EXCEPT ![policyR].pc = "loop", ![policyR].affected = EmptyMap,
                                  ![policyR].todo = s]
  BY <1>1
<1>3. PICK s \in Orders(all(batch)) :
          call' = [call EXCEPT ![policyR].pc = "loop", ![policyR].affected = EmptyMap,
                               ![policyR].todo = s]
  BY <1>2
<1>4. HasRead(policyR, "getNew", "pods") /\ entries' = entries /\ "getNew" \in ReadingPods
  BY DEF GetsNew, ReadingPods
<1>5. /\ UNCHANGED <<pods, ipToPod, policies>> /\ call[podR].pc # "store"
      /\ EffectiveEntries = entries /\ call \in [Threads -> CallRecords]
      /\ call[policyR] \in CallRecords /\ call[policyR].pc = "getNew"
  BY <1>4, BeforeRead
<1>6. /\ call'[policyR].pc = "loop" /\ call'[policyR].todo = s
      /\ call'[policyR].affected = EmptyMap /\ call'[podR] = call[podR]
  BY <1>3, <1>5, ThreadsDiffer DEF CallRecords
<1>7. old \in MapsTo(LabelMaps)
  BY CallFields, ThreadsDiffer DEF ThreadsInv
<1>8. batch \in MapsTo(LabelMaps)
  <2>1. Now!GetPodsMatchingSelector(selector) \in SUBSET DOMAIN pods
    BY DEF Now!GetPodsMatchingSelector
  <2> QED  BY <2>1, BatchIs DEF ThreadsInv, Now!BatchesFor
<1> HIDE DEF old
<1>9. /\ Merged(old, batch) \in MapsTo(LabelMaps)
      /\ InfosOf(Merged(old, batch)) = all(batch)
  BY <1>7, <1>8, MergedIs
<1>10. LastOf(s) = Merged(old, batch)
  <2> HIDE DEF all
  <2> QED  BY <1>9, LastOfMap
<1>11. EffectiveEntries' = RecalculatedBy(entries, policies, Merged(old, batch))
  BY <1>4, <1>5, <1>6, <1>10, EffectiveIs DEF EffectiveOf
<1>12. EffectiveEntries' = Abstract!Recalculated(Merged(old, batch))
  BY <1>5, <1>11, AbstractIs
<1>13. (call[policyR].pc \in {"collected", "getNew"})' = FALSE
       /\ call[policyR].pc \in {"collected", "getNew"}
  BY SMT, <1>5, <1>6
<1>14. batch \in Abstract!BatchesFor(selector) /\ Abstract!EmptyMap = EmptyMap
  BY AbstractIs
<1>15. Abstract!RecalculateForPolicyChange(selector)
  <2>1. Merged(old, batch) =
            [ip \in DOMAIN call[policyR].affected \cup DOMAIN batch |->
                IF ip \in DOMAIN batch THEN batch[ip] ELSE call[policyR].affected[ip]]
    BY DEF Merged, old
  <2> QED
    BY <1>6, <1>12, <1>13, <1>14, <2>1 DEF Abstract!RecalculateForPolicyChange
<1>16. Abstract!CacheStep
  BY <1>5, <1>13, <1>15, SelectorOf DEF Abstract!CacheStep, Abstract!podIndexVars
<1> QED  BY <1>16 DEF AbstractStep, Abstract!CacheNext

\* Every step of every goroutine is a step of the abstract cache, or none.
LEMMA EveryStepAbstract == ThreadsInv /\ [ThreadsNext]_threadVars => AbstractStep
<1> SUFFICES ASSUME ThreadsInv, [ThreadsNext]_threadVars PROVE AbstractStep
  OBVIOUS
<1>1. ASSUME NEW t \in {podR, policyR}, NEW m,
             NEW pc \in {"writePods", "writePolicies"} \cup Claiming, pc \in PCsOf(t),
             StartLocked(t, m, pc)
      PROVE  AbstractStep
  <2>1. pc \in PCs \ Inside
    BY DEF PCs, Inside, Claiming, ReadingPods
  <2> QED  BY <1>1, <2>1, StartLockedUnseen
<1>2. CASE PodReconciler
  <2> USE ThreadsDiffer DEF PCsOf, Claiming, ReadingPods
  <2>1. "getPod" \in PCs
    BY DEF PCs, Inside
  <2> QED
    BY <1>1, <1>2, <2>1, WritesPodsSeen, RemovesPodSeen, GetsPodUnseen, ReadIndexUnseen
       DEF PodReconciler
<1>3. CASE PolicyReconciler
  <2> USE ThreadsDiffer DEF PCsOf, Claiming, ReadingPods
  <2>1. {"getMatching", "getAll", "getOld", "getNew"} \subseteq PCs
    BY DEF PCs, Inside
  <2>2. CASE \E m : \E pc \in {"writePolicies"} \cup Claiming :
                 pc \in PCsOf(policyR) /\ StartLocked(policyR, m, pc)
    BY <1>1, <2>2
  <2>3. CASE ReadIndex(policyR, "recalculateForPolicy", "pods", "getMatching")
    BY <2>1, <2>3, ReadIndexUnseen
  <2>4. CASE ReadIndex(policyR, "recalculateAll", "pods", "getAll")
    BY <2>1, <2>4, ReadIndexUnseen
  <2>5. CASE ReadIndex(policyR, "recalculateForPolicyChange", "pods", "getOld")
    BY <2>1, <2>5, ReadIndexUnseen
  <2>6. CASE ReadIndex(policyR, "collected", "pods", "getNew")
    BY <2>1, <2>6, ReadIndexUnseen
  <2> QED
    BY <1>3, <2>2, <2>3, <2>4, <2>5, <2>6, WritesPoliciesSeen, GetsMatchingSeen, GetsAllSeen,
       GetsOldSeen, GetsNewSeen DEF PolicyReconciler
<1>4. ASSUME NEW t \in {podR, policyR}, Recalculating(t) PROVE AbstractStep
  <2>1. "getPolicies" \in PCs /\ "getPolicies" \in PCsOf(t)
    BY ThreadsDiffer DEF PCs, Inside, PCsOf
  <2>2. CASE ReadIndex(t, "loop", "policies", "getPolicies")
    BY <2>1, <2>2, ReadIndexUnseen
  <2>3. CASE GetsPolicies(t)
    BY <2>3, GetsPoliciesOfPod, GetsPoliciesUnseen
  <2> QED
    BY <1>4, <2>2, <2>3, StoresEntryUnseen, LoopEndsUnseen DEF Recalculating
<1>5. ASSUME NEW h \in Handlers, Handler(h) PROVE AbstractStep
  BY <1>5, HandlerUnseen
<1>6. CASE UNCHANGED threadVars
  <2>1. UNCHANGED <<pods, ipToPod, policies, entries, call>>
    BY <1>6 DEF threadVars, podIndexVars
  <2>2. EffectiveEntries' = EffectiveEntries
    BY <2>1, EffectiveIs
  <2> QED  BY <2>1, <2>2, Unseen
<1> QED  BY <1>2, <1>3, <1>4, <1>5, <1>6 DEF ThreadsNext

\* The indexes and the cache begin empty in both specifications.
LEMMA InitAbstract == ThreadsInit => Abstract!CacheInit
<1> SUFFICES ASSUME ThreadsInit PROVE Abstract!CacheInit
  OBVIOUS
<1>1. call[podR].pc = "idle" /\ call[policyR].pc = "idle" /\ call[policyR].todo = <<>>
      /\ call[policyR].affected = EmptyMap
  BY ThreadsDiffer DEF ThreadsInit, NoCall
<1>2. entries = EmptyMap /\ entries \in MapsTo(SUBSET Domains)
  BY EmptyMapType DEF ThreadsInit
<1>3. EffectiveEntries = EmptyMap
  <2>1. call[podR].pc # "store" /\ call[policyR].todo = <<>>
        /\ entries \in MapsTo(SUBSET Domains)
    BY <1>1, <1>2
  <2>2. EffectiveOf(entries, policies, call[podR], call[policyR]) = entries
    BY <2>1, NothingToDo
  <2> QED  BY <1>2, <2>2, EffectiveIs
<1>4. (call[policyR].pc \in {"collected", "getNew"}) = FALSE
  BY SMT, <1>1
<1> QED
  BY <1>1, <1>3, <1>4, AbstractIs
     DEF ThreadsInit, NewPodIndex, NewPolicyIndex, Abstract!CacheInit, Abstract!NewPodIndex,
         Abstract!NewPolicyIndex, Abstract!NewBlocklistCache

\* The mutexes make the methods of the indexes and of the cache atomic: with
\* any pods, policies and handlers, the goroutines implement a cache whose
\* methods are single steps.
THEOREM MethodsAlwaysAtomic == ThreadsSpec => MethodsAtomic
<1>1. ThreadsSpec => []ThreadsInv
  BY ThreadsInvariant
<1>2. ThreadsInv /\ [ThreadsNext]_threadVars =>
          [Abstract!CacheNext]_<<Abstract!podIndexVars, policies, Abstract!cacheVars>>
  BY EveryStepAbstract DEF AbstractStep
<1> QED
  BY <1>1, <1>2, InitAbstract, PTL DEF ThreadsSpec, MethodsAtomic, Abstract!CacheSpec
=============================================================================
