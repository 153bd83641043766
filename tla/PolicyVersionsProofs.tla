------------------------ MODULE PolicyVersionsProofs ------------------------
(***************************************************************************)
(* Finalizer and status say what the policy index holds, for every value   *)
(* of the constants: IndexedPoliciesExist and ObservedMeansIndexed.        *)
(*                                                                         *)
(* The argument is about the versions of a policy that can still reach the *)
(* policy worker, the informer's copy and the events on their way, and how *)
(* each of them can differ from the one in the API server.                 *)
(*                                                                         *)
(* Then, from these versions: no reconcile of a policy is forgotten, and a *)
(* controller at rest has indexed what the API server has.                 *)
(***************************************************************************)
EXTENDS DnsMeshTypes

\* Most leaves reason about sets, functions and records.  Those that need
\* arithmetic or sequences cite SMT.
USE Zenon

\* The object is there and cannot disappear without the controller's doing.
Carried(v) == v.exists /\ v.Finalizer

\* The worker would index this version.
Serving(v) == Carried(v) /\ ~v.Deleting

\* The status claims that this version has been handled.
Observed(v) == v.exists /\ ~v.Deleting /\ v.ObservedGeneration = v.Generation

\* Version v, not older than the informer's copy c, is known of the policy
\* that the API server holds as a.  Only the worker takes the finalizer off a
\* policy and only it writes the status, each time with the latest version in
\* hand, and then no other version is left to be fetched.
Fits(v, c, a) ==
    /\ c.ResourceVersion <= v.ResourceVersion
    /\ v.ResourceVersion <= a.ResourceVersion
    /\ v.ResourceVersion = a.ResourceVersion => v = a
    /\ Serving(v) => Carried(a)
    /\ Observed(a) => Serving(v) /\ v.Spec = a.Spec

GenerationOK(a) ==
    /\ a.ObservedGeneration <= a.Generation
    /\ ~a.exists => a.ObservedGeneration = 0

VersionsInv ==
    /\ \A q \in PolicyNames :
           Fits(policyCache[q], policyCache[q], apiPolicies[q]) /\ GenerationOK(apiPolicies[q])
    /\ \A i \in DOMAIN policyWatch :
           LET e == policyWatch[i]
           IN  Fits(e.obj, policyCache[e.name], apiPolicies[e.name])
    /\ \A i, j \in DOMAIN policyWatch :
           i < j /\ policyWatch[i].name = policyWatch[j].name =>
               policyWatch[i].obj.ResourceVersion <= policyWatch[j].obj.ResourceVersion

\* The worker's copy is not newer than the informer's, and is what the API
\* server holds if the resource versions agree.
CopyFits ==
    polRec.pc \in BusyPolicyPCs \ {"get", "recalculateGone"} =>
        /\ polRec.obj.ResourceVersion <= policyCache[polRec.req].ResourceVersion
        /\ polRec.obj.ResourceVersion = apiPolicies[polRec.req].ResourceVersion =>
               polRec.obj = apiPolicies[polRec.req]

\* What the worker has done to the index fits the copy it fetched.
PolicyCopyUsed ==
    /\ polRec.pc \in {"recalculateDeleted", "removeFinalizer"} =>
           polRec.obj.Deleting /\ polRec.req \notin DOMAIN policies
    /\ polRec.pc \in {"recalculate", "collect", "recalculateChange", "updateStatus"} =>
           /\ Serving(polRec.obj)
           /\ polRec.req \in DOMAIN policies
           /\ policies[polRec.req] = polRec.obj.Spec

VersionInv ==
    /\ TypeInv /\ VersionsInv /\ CopyFits /\ PolicyCopyUsed
    /\ IndexedPoliciesExist /\ ObservedMeansIndexed

-----------------------------------------------------------------------------
(* Versions.                                                               *)

\* What the API server makes of a written object.
LEMMA StoredFields ==
    ASSUME NEW q \in PolicyNames, NEW obj \in DnsPolicy(q)
    PROVE  LET new == Stored(obj)
           IN  /\ new \in DnsPolicy(q)
               /\ new.ResourceVersion = obj.ResourceVersion + 1
               /\ Carried(obj) => Carried(new)
               /\ Serving(obj) => Serving(new)
               /\ Observed(new) => Observed(obj) /\ new.Spec = obj.Spec
               /\ Observed(new) /\ obj.Finalizer => Serving(new)
               /\ GenerationOK(obj) => GenerationOK(new)
<1> DEFINE rv == obj.ResourceVersion + 1
<1>1. Stored(obj) \in DnsPolicy(q)
  BY StoredType
<1>2. CASE obj.Deleting /\ ~obj.Finalizer /\ ~obj.Held
  <2>1. Stored(obj) = NoPolicy(rv)
    BY <1>2 DEF Stored
  <2> QED  BY SMT, <1>1, <1>2, <2>1 DEF NoPolicy, Carried, Serving, Observed, GenerationOK
<1>3. CASE ~(obj.Deleting /\ ~obj.Finalizer /\ ~obj.Held)
  <2>1. Stored(obj) = [obj EXCEPT !.ResourceVersion = rv]
    BY <1>3 DEF Stored
  <2>2. /\ Stored(obj).ResourceVersion = rv /\ Stored(obj).exists = obj.exists
        /\ Stored(obj).Finalizer = obj.Finalizer /\ Stored(obj).Deleting = obj.Deleting
        /\ Stored(obj).Spec = obj.Spec /\ Stored(obj).Generation = obj.Generation
        /\ Stored(obj).ObservedGeneration = obj.ObservedGeneration
    BY <2>1 DEF DnsPolicy
  <2> QED  BY <1>1, <2>2 DEF Carried, Serving, Observed, GenerationOK
<1> QED  BY <1>2, <1>3

\* What is known of a policy fits whatever newer copy the informer holds.
LEMMA FitsNewerCopy ==
    ASSUME NEW v, NEW c, NEW d, NEW a, Fits(v, c, a), d.ResourceVersion <= v.ResourceVersion
    PROVE  Fits(v, d, a)
BY DEF Fits

\* The latest version fits the informer's copy, and itself as a copy.
LEMMA LatestFits ==
    ASSUME NEW c, NEW a, Fits(c, c, a), a.ResourceVersion \in Nat
    PROVE  Fits(a, c, a) /\ Fits(a, a, a)
<1>1. Serving(a) => Carried(a)
  BY DEF Serving
<1>2. Observed(a) => Serving(a)
  <2>1. Observed(a) => Carried(a)
    BY DEF Fits
  <2>2. Observed(a) => ~a.Deleting
    BY DEF Observed
  <2> QED  BY <2>1, <2>2 DEF Serving
<1>3. c.ResourceVersion <= a.ResourceVersion /\ a.ResourceVersion <= a.ResourceVersion
  BY SMT DEF Fits
<1>4. Fits(a, c, a)
  BY <1>1, <1>2, <1>3 DEF Fits
<1> QED  BY <1>3, <1>4, FitsNewerCopy

\* A write by a user that keeps the finalizer and claims nothing in the status
\* leaves all known versions fitting.
LEMMA UserWriteFits ==
    ASSUME NEW q, NEW a \in DnsPolicy(q), NEW c \in DnsPolicy(q), NEW new \in DnsPolicy(q),
           Fits(c, c, a), new.ResourceVersion = a.ResourceVersion + 1,
           Carried(a) => Carried(new),
           Observed(new) => Observed(a) /\ new.Spec = a.Spec
    PROVE  /\ Fits(new, c, new)
           /\ \A v \in DnsPolicy(q) : Fits(v, c, a) => Fits(v, c, new)
<1> /\ a.ResourceVersion \in Nat /\ c.ResourceVersion \in Nat
    /\ \A v \in DnsPolicy(q) : v.ResourceVersion \in Nat
  BY DEF DnsPolicy
<1>1. Observed(new) => Serving(new)
  BY DEF Fits, Serving, Observed, Carried
<1>2. Fits(new, c, new)
  BY SMT, <1>1 DEF Fits, Serving
<1>3. ASSUME NEW v \in DnsPolicy(q), Fits(v, c, a) PROVE Fits(v, c, new)
  BY SMT, <1>3 DEF Fits
<1> QED  BY <1>2, <1>3

\* A write by the worker with the informer's copy in hand, which no version on
\* its way differs from, leaves all known versions fitting.
LEMMA WorkerWriteFits ==
    ASSUME NEW q, NEW a \in DnsPolicy(q), NEW c \in DnsPolicy(q), NEW new \in DnsPolicy(q),
           Fits(c, c, a), a.ResourceVersion <= c.ResourceVersion,
           new.ResourceVersion = a.ResourceVersion + 1,
           Serving(a) => Carried(new),
           Observed(new) => Serving(new) /\ Serving(a) /\ new.Spec = a.Spec
    PROVE  /\ Fits(new, c, new)
           /\ \A v \in DnsPolicy(q) : Fits(v, c, a) => Fits(v, c, new)
<1> /\ a.ResourceVersion \in Nat /\ c.ResourceVersion \in Nat
    /\ \A v \in DnsPolicy(q) : v.ResourceVersion \in Nat
  BY DEF DnsPolicy
<1>1. Fits(new, c, new)
  BY SMT DEF Fits, Serving
<1>2. ASSUME NEW v \in DnsPolicy(q), Fits(v, c, a) PROVE Fits(v, c, new)
  <2>1. v = a
    BY SMT, <1>2 DEF Fits
  <2> QED  BY SMT, <1>2, <2>1 DEF Fits
<1> QED  BY <1>1, <1>2

-----------------------------------------------------------------------------
(* Writes to the API server.                                               *)

\* The API server stores and announces a version that leaves the known versions
\* of its policy fitting.
StoresFitting(q, new) ==
    /\ apiPolicies' = [apiPolicies EXCEPT ![q] = new]
    /\ policyWatch' = Append(policyWatch, [name |-> q, obj |-> new])
    /\ policyCache' = policyCache
    /\ new.ResourceVersion = apiPolicies[q].ResourceVersion + 1
    /\ GenerationOK(new)
    /\ Fits(new, policyCache[q], new)
    /\ \A v \in DnsPolicy(q) :
           Fits(v, policyCache[q], apiPolicies[q]) => Fits(v, policyCache[q], new)

\* Such a write keeps the versions of all policies in order.
LEMMA StoreKeepsVersions ==
    ASSUME TypeInv, VersionsInv, CopyFits,
           NEW q \in PolicyNames, NEW new \in DnsPolicy(q), StoresFitting(q, new),
           UNCHANGED polRec \/ polRec' = IdlePolRec
    PROVE  VersionsInv' /\ CopyFits'
<1>1. /\ policyWatch \in Seq(PolicyEvents) /\ polRec \in PolRecs
      /\ \A n \in PolicyNames : policyCache[n] \in DnsPolicy(n) /\ apiPolicies[n] \in DnsPolicy(n)
      /\ apiPolicies = [n \in PolicyNames |-> apiPolicies[n]]
  BY DEF TypeInv, TypeOK, PolicyCtlTypeOK, ClusterTypeOK
<1>2. /\ \A n \in PolicyNames : apiPolicies'[n] = IF n = q THEN new ELSE apiPolicies[n]
      /\ policyCache' = policyCache
      /\ new.ResourceVersion = apiPolicies[q].ResourceVersion + 1
  BY <1>1 DEF StoresFitting
<1>3. ASSUME NEW n \in PolicyNames, NEW v \in DnsPolicy(n),
             Fits(v, policyCache[n], apiPolicies[n])
      PROVE  Fits(v, policyCache[n], apiPolicies'[n])
  <2>1. CASE n = q
    <3>1. Fits(v, policyCache[n], new)
      BY <1>3, <2>1 DEF StoresFitting
    <3> QED  BY <1>2, <2>1, <3>1
  <2>2. CASE n # q
    BY <1>2, <1>3, <2>2
  <2> QED  BY <2>1, <2>2
<1>4. ASSUME NEW i \in DOMAIN policyWatch
      PROVE  /\ policyWatch[i].name \in PolicyNames
             /\ policyWatch[i].obj \in DnsPolicy(policyWatch[i].name)
  <2>1. policyWatch[i] \in PolicyEvents
    BY SMT, <1>1, <1>4
  <2> QED  BY <2>1, PolicyEventParts
<1>5. \A i \in DOMAIN policyWatch' :
          \/ i \in DOMAIN policyWatch /\ policyWatch'[i] = policyWatch[i]
          \/ i = Len(policyWatch) + 1 /\ policyWatch'[i] = [name |-> q, obj |-> new]
  <2>1. policyWatch' = Append(policyWatch, [name |-> q, obj |-> new])
    BY DEF StoresFitting
  <2> QED  BY SMT, <1>1, <2>1
<1>6. ASSUME NEW n \in PolicyNames
      PROVE  /\ Fits(policyCache[n], policyCache[n], apiPolicies'[n])
             /\ GenerationOK(apiPolicies'[n])
  <2>1. Fits(policyCache[n], policyCache[n], apiPolicies[n]) /\ GenerationOK(apiPolicies[n])
    BY DEF VersionsInv
  <2>2. GenerationOK(new)
    BY DEF StoresFitting
  <2> QED  BY <1>1, <1>2, <1>3, <2>1, <2>2
<1>7. ASSUME NEW i \in DOMAIN policyWatch'
      PROVE  Fits(policyWatch'[i].obj, policyCache[policyWatch'[i].name],
                  apiPolicies'[policyWatch'[i].name])
  <2>1. CASE i \in DOMAIN policyWatch /\ policyWatch'[i] = policyWatch[i]
    BY <1>3, <1>4, <2>1 DEF VersionsInv
  <2>2. CASE policyWatch'[i] = [name |-> q, obj |-> new]
    <3>1. Fits(new, policyCache[q], new)
      BY DEF StoresFitting
    <3> QED  BY SMT, <1>2, <2>2, <3>1
  <2> QED  BY <1>5, <1>7, <2>1, <2>2
<1>8. ASSUME NEW i \in DOMAIN policyWatch', NEW j \in DOMAIN policyWatch',
             i < j, policyWatch'[i].name = policyWatch'[j].name
      PROVE  policyWatch'[i].obj.ResourceVersion <= policyWatch'[j].obj.ResourceVersion
  <2>1. i \in DOMAIN policyWatch /\ policyWatch'[i] = policyWatch[i]
    BY SMT, <1>1, <1>5, <1>8
  <2>2. CASE j \in DOMAIN policyWatch /\ policyWatch'[j] = policyWatch[j]
    BY <1>8, <2>1, <2>2 DEF VersionsInv
  <2>3. CASE policyWatch'[j] = [name |-> q, obj |-> new]
    <3>1. policyWatch[i].name = q
      BY SMT, <1>8, <2>1, <2>3
    <3>2. Fits(policyWatch[i].obj, policyCache[q], apiPolicies[q])
      BY <2>1, <3>1 DEF VersionsInv
    <3>3. /\ policyWatch[i].obj.ResourceVersion \in Nat
          /\ apiPolicies[q].ResourceVersion \in Nat
      BY <1>1, <1>4, <2>1 DEF DnsPolicy
    <3>4. policyWatch[i].obj.ResourceVersion <= apiPolicies[q].ResourceVersion
      BY <3>2 DEF Fits
    <3>5. policyWatch[i].obj.ResourceVersion <= new.ResourceVersion
      BY SMT, <1>2, <3>3, <3>4
    <3> QED  BY SMT, <2>1, <2>3, <3>5
  <2> QED  BY <1>5, <2>2, <2>3
<1>9. VersionsInv'
  BY <1>2, <1>6, <1>7, <1>8 DEF VersionsInv
<1>10. CASE UNCHANGED polRec /\ polRec.pc \in BusyPolicyPCs \ {"get", "recalculateGone"}
  <2> DEFINE n == polRec.req
  <2>1. n \in PolicyNames /\ polRec.obj \in DnsPolicy(n)
    BY <1>1, <1>10, PolRecParts DEF BusyPolicyPCs
  <2>2. /\ polRec.obj.ResourceVersion \in Nat /\ policyCache[n].ResourceVersion \in Nat
        /\ apiPolicies[n].ResourceVersion \in Nat
    BY <1>1, <2>1 DEF DnsPolicy
  <2>3. Fits(policyCache[n], policyCache[n], apiPolicies[n])
    BY <2>1 DEF VersionsInv
  <2>4. CASE n = q
    <3>1. apiPolicies'[n] = new /\ policyCache' = policyCache /\ polRec' = polRec
      BY <1>2, <1>10, <2>1, <2>4
    <3>2. polRec.obj.ResourceVersion <= policyCache[n].ResourceVersion
      BY <1>10 DEF CopyFits
    <3>3. policyCache[n].ResourceVersion <= apiPolicies[n].ResourceVersion
      BY <2>3 DEF Fits
    <3>4. polRec.obj.ResourceVersion # new.ResourceVersion
      BY SMT, <1>2, <2>2, <2>4, <3>2, <3>3
    <3> QED  BY <1>9, <3>1, <3>2, <3>4 DEF CopyFits
  <2>5. CASE n # q
    BY <1>2, <1>9, <1>10, <2>1, <2>5 DEF CopyFits
  <2> QED  BY <2>4, <2>5
<1>11. CASE polRec'.pc \notin BusyPolicyPCs \ {"get", "recalculateGone"}
  BY <1>9, <1>11 DEF CopyFits
<1>12. polRec' = IdlePolRec => polRec'.pc \notin BusyPolicyPCs
  BY SMT DEF IdlePolRec, BusyPolicyPCs
<1> QED  BY <1>9, <1>10, <1>11, <1>12

\* A write by a user keeps the invariant, if it keeps the finalizer and makes
\* no claim in the status.
LEMMA UserWriteStep ==
    ASSUME VersionInv, NEW q \in PolicyNames, NEW obj \in DnsPolicy(q), StorePolicy(q, obj),
           UNCHANGED <<policyCtlVars, policies>>,
           obj.ResourceVersion = apiPolicies[q].ResourceVersion,
           Carried(apiPolicies[q]) => Carried(obj),
           Observed(obj) => Observed(apiPolicies[q]) /\ obj.Spec = apiPolicies[q].Spec,
           GenerationOK(obj)
    PROVE  /\ VersionsInv' /\ CopyFits' /\ PolicyCopyUsed'
           /\ IndexedPoliciesExist' /\ ObservedMeansIndexed'
<1> DEFINE a == apiPolicies[q]
<1>0. PICK new : new = Stored(obj)
  OBVIOUS
<1>1. /\ apiPolicies' = [apiPolicies EXCEPT ![q] = new]
      /\ policyWatch' = Append(policyWatch, [name |-> q, obj |-> new])
  BY <1>0 DEF StorePolicy
<1>2. UNCHANGED <<policyCache, policyQueue, polRec, policies>>
  BY DEF policyCtlVars
<1>3. /\ a \in DnsPolicy(q) /\ policyCache[q] \in DnsPolicy(q)
      /\ apiPolicies = [n \in PolicyNames |-> apiPolicies[n]] /\ DOMAIN policies \subseteq PolicyNames
  BY DEF VersionInv, TypeInv, TypeOK, ClusterTypeOK, PolicyCtlTypeOK, PolicyIndexTypeOK
<1>4. /\ new \in DnsPolicy(q) /\ new.ResourceVersion = a.ResourceVersion + 1
      /\ Carried(a) => Carried(new)
      /\ Observed(new) => Observed(a) /\ new.Spec = a.Spec
      /\ GenerationOK(new)
  BY <1>0, StoredFields
<1>5. Fits(policyCache[q], policyCache[q], a)
  BY DEF VersionInv, VersionsInv
<1>6. /\ Fits(new, policyCache[q], new)
      /\ \A v \in DnsPolicy(q) :
             Fits(v, policyCache[q], a) => Fits(v, policyCache[q], new)
  BY <1>3, <1>4, <1>5, UserWriteFits
<1>7. VersionsInv' /\ CopyFits'
  <2>1. StoresFitting(q, new)
    BY <1>1, <1>2, <1>4, <1>6 DEF StoresFitting
  <2> QED  BY <1>2, <1>4, <2>1, StoreKeepsVersions DEF VersionInv
<1>8. PolicyCopyUsed'
  BY <1>2 DEF VersionInv, PolicyCopyUsed
<1>9. apiPolicies'[q] = new /\ \A n \in PolicyNames : n # q => apiPolicies'[n] = apiPolicies[n]
  BY <1>1, <1>3
<1>10. IndexedPoliciesExist'
  BY <1>2, <1>3, <1>4, <1>9 DEF VersionInv, IndexedPoliciesExist, Carried
<1>11. ObservedMeansIndexed'
  BY SMT, <1>2, <1>3, <1>4, <1>9 DEF VersionInv, ObservedMeansIndexed, Observed
<1> QED  BY <1>7, <1>8, <1>10, <1>11

\* Whatever users do to policies keeps the invariant.
LEMMA PoliciesChangeStep ==
    ASSUME VersionInv, PoliciesChange, UNCHANGED <<policyCtlVars, policies>>
    PROVE  /\ VersionsInv' /\ CopyFits' /\ PolicyCopyUsed'
           /\ IndexedPoliciesExist' /\ ObservedMeansIndexed'
<1> PICK q \in PolicyNames :
        \/ \E spec \in SpecsOf[q] : CreatePolicy(q, spec)
        \/ \E spec \in SpecsOf[q] : EditPolicy(q, spec)
        \/ RequestPolicyDeletion(q)
        \/ ReleasePolicy(q)
  BY DEF PoliciesChange
<1> DEFINE a == apiPolicies[q]
<1>1. a \in DnsPolicy(q) /\ GenerationOK(a)
  BY DEF VersionInv, TypeInv, TypeOK, ClusterTypeOK, VersionsInv
<1>2. a.Generation \in Nat /\ a.ObservedGeneration \in Nat
  BY <1>1 DEF DnsPolicy
<1>3. CASE \E spec \in SpecsOf[q] : CreatePolicy(q, spec)
  <2> PICK spec \in SpecsOf[q] : CreatePolicy(q, spec)
    BY <1>3
  <2> DEFINE obj == [a EXCEPT !.exists = TRUE, !.Spec = spec, !.Generation = 1]
  <2>1. obj \in DnsPolicy(q) /\ StorePolicy(q, obj) /\ ~a.exists
    BY <1>1 DEF DnsPolicy, CreatePolicy, UserWritesPolicy
  <2>2. /\ obj.ResourceVersion = a.ResourceVersion /\ obj.Generation = 1
        /\ obj.ObservedGeneration = a.ObservedGeneration /\ obj.exists = TRUE
    BY <1>1 DEF DnsPolicy
  <2> HIDE DEF obj
  <2>3. ~Observed(obj) /\ GenerationOK(obj) /\ ~Carried(a)
    BY SMT, <1>1, <2>1, <2>2 DEF GenerationOK, Observed, Carried
  <2> QED  BY <2>1, <2>2, <2>3, UserWriteStep
<1>4. CASE \E spec \in SpecsOf[q] : EditPolicy(q, spec)
  <2> PICK spec \in SpecsOf[q] : EditPolicy(q, spec)
    BY <1>4
  <2> DEFINE obj == [a EXCEPT !.Spec = spec, !.Generation = a.Generation + 1]
  <2>1. obj \in DnsPolicy(q) /\ StorePolicy(q, obj) /\ a.exists
    <3>1. a.Generation + 1 \in Nat
      BY SMT, <1>2
    <3> QED  BY <1>1, <3>1 DEF DnsPolicy, EditPolicy, UserWritesPolicy
  <2>2. /\ obj.ResourceVersion = a.ResourceVersion /\ obj.Generation = a.Generation + 1
        /\ obj.ObservedGeneration = a.ObservedGeneration /\ obj.exists = a.exists
        /\ obj.Finalizer = a.Finalizer
    BY <1>1 DEF DnsPolicy
  <2> HIDE DEF obj
  <2>3. ~Observed(obj) /\ GenerationOK(obj) /\ (Carried(a) => Carried(obj))
    <3>1. obj.ObservedGeneration < obj.Generation
      BY SMT, <1>1, <1>2, <2>2 DEF GenerationOK
    <3>2. ~Observed(obj)
      BY SMT, <1>2, <2>2, <3>1 DEF Observed
    <3>3. GenerationOK(obj)
      BY SMT, <1>2, <2>1, <2>2, <3>1 DEF GenerationOK
    <3>4. Carried(a) => Carried(obj)
      BY <2>2 DEF Carried
    <3> QED  BY <3>2, <3>3, <3>4
  <2> QED  BY <2>1, <2>2, <2>3, UserWriteStep
<1>5. CASE RequestPolicyDeletion(q)
  <2> DEFINE held == q \in ForegroundPolicies
             obj == [a EXCEPT !.Deleting = TRUE, !.Held = held]
  <2>1. StorePolicy(q, obj) /\ q \in DeletablePolicies /\ held \in BOOLEAN
    BY SMT, <1>5 DEF RequestPolicyDeletion, UserWritesPolicy
  <2> HIDE DEF held
  <2>2. obj \in DnsPolicy(q)
    BY <1>1, <2>1 DEF DnsPolicy
  <2>3. /\ obj.ResourceVersion = a.ResourceVersion /\ obj.Generation = a.Generation
        /\ obj.ObservedGeneration = a.ObservedGeneration /\ obj.exists = a.exists
        /\ obj.Finalizer = a.Finalizer /\ obj.Deleting = TRUE
    BY <1>1 DEF DnsPolicy
  <2> HIDE DEF obj
  <2>4. ~Observed(obj) /\ GenerationOK(obj) /\ (Carried(a) => Carried(obj))
    BY <1>1, <2>3 DEF GenerationOK, Observed, Carried
  <2> QED  BY <2>1, <2>2, <2>3, <2>4, UserWriteStep
<1>6. CASE ReleasePolicy(q)
  <2> DEFINE obj == [a EXCEPT !.Held = FALSE]
  <2>1. StorePolicy(q, obj) /\ obj \in DnsPolicy(q)
    BY <1>1, <1>6 DEF ReleasePolicy, DnsPolicy
  <2>2. /\ obj.ResourceVersion = a.ResourceVersion /\ obj.Generation = a.Generation
        /\ obj.ObservedGeneration = a.ObservedGeneration /\ obj.exists = a.exists
        /\ obj.Finalizer = a.Finalizer /\ obj.Deleting = a.Deleting /\ obj.Spec = a.Spec
    BY <1>1 DEF DnsPolicy
  <2> HIDE DEF obj
  <2>3. /\ Observed(obj) => Observed(a) /\ obj.Spec = a.Spec
        /\ GenerationOK(obj) /\ (Carried(a) => Carried(obj))
    BY <1>1, <2>2 DEF GenerationOK, Observed, Carried
  <2> QED  BY <2>1, <2>2, <2>3, UserWriteStep
<1> QED  BY <1>3, <1>4, <1>5, <1>6

\* What Update and Status().Update send differs from the worker's copy in the
\* finalizer or in the status.
LEMMA DesiredFields ==
    ASSUME polRec \in PolRecs, Writing
    PROVE  LET obj == polRec.obj
           IN  /\ Desired \in DnsPolicy(polRec.req)
               /\ Desired.ResourceVersion = obj.ResourceVersion
               /\ Desired.exists = obj.exists /\ Desired.Deleting = obj.Deleting
               /\ Desired.Spec = obj.Spec /\ Desired.Generation = obj.Generation
               /\ polRec.pc = "addFinalizer" =>
                      /\ Desired.Finalizer = TRUE
                      /\ Desired.ObservedGeneration = obj.ObservedGeneration
               /\ polRec.pc = "removeFinalizer" =>
                      Desired.ObservedGeneration = obj.ObservedGeneration
               /\ polRec.pc = "updateStatus" =>
                      /\ Desired.Finalizer = obj.Finalizer
                      /\ Desired.ObservedGeneration = obj.Generation
<1> DEFINE obj == polRec.obj
           observed == [obj EXCEPT !.ObservedGeneration = obj.Generation]
<1>1. polRec.pc \in {"addFinalizer", "removeFinalizer", "updateStatus"}
  BY DEF Writing
<1>2. obj \in DnsPolicy(polRec.req)
  BY <1>1, PolRecParts
<1>3. Desired \in DnsPolicy(polRec.req)
  BY DesiredType
<1>4. CASE polRec.pc = "addFinalizer"
  <2>1. Desired = [obj EXCEPT !.Finalizer = TRUE]
    BY <1>4 DEF Desired
  <2> QED  BY <1>2, <1>3, <1>4, <2>1 DEF DnsPolicy
<1>5. CASE polRec.pc = "removeFinalizer"
  <2>1. Desired = [obj EXCEPT !.Finalizer = FALSE]
    BY <1>5 DEF Desired
  <2> QED  BY <1>2, <1>3, <1>5, <2>1 DEF DnsPolicy
<1>6. CASE polRec.pc = "updateStatus"
  <2>1. Desired = updateCondition(observed, "True")
    BY <1>6 DEF Desired
  <2>2. /\ observed.ResourceVersion = obj.ResourceVersion /\ observed.exists = obj.exists
        /\ observed.Deleting = obj.Deleting /\ observed.Spec = obj.Spec
        /\ observed.Generation = obj.Generation /\ observed.Finalizer = obj.Finalizer
        /\ observed.ObservedGeneration = obj.Generation
        /\ observed \in DnsPolicy(polRec.req)
    BY <1>2 DEF DnsPolicy
  <2> HIDE DEF observed
  <2>3. \/ Desired = observed
        \/ Desired = [observed EXCEPT !.Ready = "True", !.ReadyGeneration = observed.Generation]
    BY <2>1 DEF updateCondition
  <2> QED  BY <1>3, <1>6, <2>2, <2>3 DEF DnsPolicy
<1> QED  BY <1>1, <1>4, <1>5, <1>6

\* What the work queue holds for other names, and a returned error keeps the
\* request.
LEMMA ReturnKeepsRequests ==
    ASSUME policyQueue \in Queues(PolicyNames), PolicyReturns \/ PolicyReturnsError
    PROVE  /\ polRec' = IdlePolRec
           /\ \A n : n \in policyQueue.dirty \cup policyQueue.waiting =>
                      n \in policyQueue'.dirty \cup policyQueue'.waiting
           /\ PolicyReturnsError => polRec.req \in policyQueue'.waiting
<1>1. ASSUME PolicyReturns
      PROVE  /\ polRec' = IdlePolRec
             /\ policyQueue'.dirty = policyQueue.dirty
             /\ policyQueue'.waiting = policyQueue.waiting
  <2>1. policyQueue' = Finish(policyQueue, polRec.req) /\ polRec' = IdlePolRec
    BY <1>1 DEF PolicyReturns
  <2> QED  BY <2>1, FinishContents
<1>2. ASSUME PolicyReturnsError
      PROVE  /\ polRec' = IdlePolRec
             /\ policyQueue'.dirty = policyQueue.dirty
             /\ policyQueue'.waiting = policyQueue.waiting \cup {polRec.req}
  <2>1. policyQueue' = FinishWithError(policyQueue, polRec.req) /\ polRec' = IdlePolRec
    BY <1>2 DEF PolicyReturnsError
  <2> QED  BY <2>1, ErrorContents
<1> QED  BY <1>1, <1>2

\* A write by the worker that is accepted keeps the invariant.
LEMMA WorkerWriteStep ==
    ASSUME VersionInv, Writing, UpdateAccepted(polRec.req, polRec.obj),
           StorePolicy(polRec.req, Desired), PolicyReturns \/ PolicyReturnsError,
           UNCHANGED <<policyCache, policies>>
    PROVE  /\ VersionsInv' /\ CopyFits' /\ PolicyCopyUsed'
           /\ IndexedPoliciesExist' /\ ObservedMeansIndexed'
<1> DEFINE a == apiPolicies[polRec.req]
<1>0. PICK q, new : q = polRec.req /\ new = Stored(Desired)
  OBVIOUS
<1>1. /\ polRec \in PolRecs /\ policyQueue \in Queues(PolicyNames)
      /\ polRec.pc \in {"addFinalizer", "removeFinalizer", "updateStatus"}
      /\ apiPolicies = [n \in PolicyNames |-> apiPolicies[n]] /\ DOMAIN policies \subseteq PolicyNames
  BY DEF VersionInv, TypeInv, TypeOK, ClusterTypeOK, PolicyCtlTypeOK, PolicyIndexTypeOK, Writing
<1>2. q \in PolicyNames /\ a \in DnsPolicy(q) /\ policyCache[q] \in DnsPolicy(q)
  BY <1>0, <1>1, PolRecParts DEF VersionInv, TypeInv, TypeOK, ClusterTypeOK, PolicyCtlTypeOK
<1>3. /\ apiPolicies' = [apiPolicies EXCEPT ![q] = new]
      /\ policyWatch' = Append(policyWatch, [name |-> q, obj |-> new])
  BY <1>0 DEF StorePolicy
<1>4. polRec.obj = a /\ a.exists /\ a.ResourceVersion <= policyCache[q].ResourceVersion
  BY <1>0, <1>1 DEF UpdateAccepted, VersionInv, CopyFits, BusyPolicyPCs
<1>5. Fits(policyCache[q], policyCache[q], a) /\ GenerationOK(a)
  BY <1>0, <1>2 DEF VersionInv, VersionsInv
<1>6. policyCache[q] = a
  <2>1. a.ResourceVersion \in Nat /\ policyCache[q].ResourceVersion \in Nat
    BY <1>2 DEF DnsPolicy
  <2>2. /\ policyCache[q].ResourceVersion <= a.ResourceVersion
        /\ policyCache[q].ResourceVersion = a.ResourceVersion => policyCache[q] = a
    BY <1>5 DEF Fits
  <2> QED  BY SMT, <1>4, <2>1, <2>2
<1>7. Observed(a) => Serving(a)
  BY <1>5, <1>6 DEF Fits
<1>8. /\ Desired \in DnsPolicy(q) /\ Desired.ResourceVersion = a.ResourceVersion
      /\ Desired.exists /\ Desired.Deleting = a.Deleting
      /\ Desired.Spec = a.Spec /\ Desired.Generation = a.Generation
  BY <1>0, <1>1, <1>4, DesiredFields
<1>9. /\ new \in DnsPolicy(q) /\ new.ResourceVersion = a.ResourceVersion + 1
      /\ Carried(Desired) => Carried(new)
      /\ Serving(Desired) => Serving(new)
      /\ Observed(new) => Observed(Desired) /\ new.Spec = a.Spec
      /\ GenerationOK(Desired) => GenerationOK(new)
  BY <1>0, <1>2, <1>8, StoredFields
<1>10. /\ Serving(a) => Carried(new)
       /\ Observed(new) => Serving(new) /\ Serving(a)
       /\ GenerationOK(new)
       /\ q \in DOMAIN policies => Carried(new)
       /\ Observed(new) => \/ Observed(a)
                           \/ q \in DOMAIN policies /\ policies[q] = a.Spec
  <2>1. CASE polRec.pc = "addFinalizer"
    <3>1. Desired.Finalizer /\ Desired.ObservedGeneration = a.ObservedGeneration
      BY <1>1, <1>4, <2>1, DesiredFields
    <3> QED
      BY <1>4, <1>5, <1>7, <1>8, <1>9, <3>1 DEF Carried, Serving, Observed, GenerationOK
  <2>2. CASE polRec.pc = "removeFinalizer"
    <3>1. Desired.ObservedGeneration = a.ObservedGeneration
      BY <1>1, <1>4, <2>2, DesiredFields
    <3>2. a.Deleting /\ q \notin DOMAIN policies
      BY <1>0, <1>4, <2>2 DEF VersionInv, PolicyCopyUsed
    <3> QED
      BY <1>5, <1>8, <1>9, <3>1, <3>2 DEF Carried, Serving, Observed, GenerationOK
  <2>3. CASE polRec.pc = "updateStatus"
    <3>1. Desired.Finalizer = a.Finalizer /\ Desired.ObservedGeneration = a.Generation
      BY <1>1, <1>4, <2>3, DesiredFields
    <3>2. Serving(a) /\ q \in DOMAIN policies /\ policies[q] = a.Spec
      BY <1>0, <1>4, <2>3 DEF VersionInv, PolicyCopyUsed
    <3>3. a.Generation \in Nat
      BY <1>2 DEF DnsPolicy
    <3>4. Carried(Desired) /\ Serving(Desired)
      BY <1>8, <3>1, <3>2 DEF Carried, Serving
    <3>5. GenerationOK(Desired)
      BY SMT, <1>8, <3>1, <3>3 DEF GenerationOK
    <3> QED  BY <1>9, <3>2, <3>4, <3>5
  <2> QED  BY <1>1, <2>1, <2>2, <2>3
<1>11. /\ Fits(new, policyCache[q], new)
       /\ \A v \in DnsPolicy(q) :
              Fits(v, policyCache[q], a) => Fits(v, policyCache[q], new)
  BY <1>2, <1>4, <1>5, <1>9, <1>10, WorkerWriteFits
<1>12. /\ polRec' = IdlePolRec
       /\ \A n : n \in policyQueue.dirty \cup policyQueue.waiting =>
                  n \in policyQueue'.dirty \cup policyQueue'.waiting
  BY <1>1, ReturnKeepsRequests
<1>13. VersionsInv' /\ CopyFits'
  <2>1. StoresFitting(q, new)
    BY <1>0, <1>3, <1>9, <1>10, <1>11 DEF StoresFitting
  <2> QED  BY <1>2, <1>9, <1>12, <2>1, StoreKeepsVersions DEF VersionInv
<1>14. PolicyCopyUsed'
  BY <1>12 DEF IdlePolRec, PolicyCopyUsed
<1>15. apiPolicies'[q] = new /\ \A n \in PolicyNames : n # q => apiPolicies'[n] = apiPolicies[n]
  BY <1>1, <1>2, <1>3
<1>16. IndexedPoliciesExist'
  BY <1>1, <1>10, <1>15 DEF VersionInv, IndexedPoliciesExist, Carried
<1>17. ASSUME NEW n \in PolicyNames, Observed(apiPolicies'[n])
       PROVE  \/ n \in DOMAIN policies' /\ policies'[n] = apiPolicies'[n].Spec
              \/ n \in policyQueue'.dirty \cup policyQueue'.waiting
  <2>1. polRec.pc # "get"
    BY <1>1
  <2>2. CASE n = q
    BY <1>0, <1>2, <1>9, <1>10, <1>12, <1>15, <1>17, <2>1, <2>2
    DEF VersionInv, ObservedMeansIndexed, Observed
  <2>3. CASE n # q
    BY <1>12, <1>15, <1>17, <2>1, <2>3 DEF VersionInv, ObservedMeansIndexed, Observed
  <2> QED  BY <2>2, <2>3
<1>18. ObservedMeansIndexed'
  BY <1>17 DEF ObservedMeansIndexed, Observed
<1> QED  BY <1>13, <1>14, <1>16, <1>18

-----------------------------------------------------------------------------
(* Events.                                                                 *)

\* Handing over the next event keeps the invariant.
LEMMA DeliverStep ==
    ASSUME VersionInv, DeliverPolicyEvent
    PROVE  /\ VersionsInv' /\ CopyFits' /\ PolicyCopyUsed'
           /\ IndexedPoliciesExist' /\ ObservedMeansIndexed'
<1>0. PICK q, obj : q = Head(policyWatch).name /\ obj = Head(policyWatch).obj
  OBVIOUS
<1>1. /\ policyCache' = [policyCache EXCEPT ![q] = obj]
      /\ policyQueue' = Enqueue(policyQueue, q)
      /\ policyWatch # <<>> /\ policyWatch' = Tail(policyWatch)
      /\ UNCHANGED <<apiPolicies, polRec, policies>>
  BY <1>0 DEF DeliverPolicyEvent
<1>2. /\ policyWatch \in Seq(PolicyEvents) /\ policyQueue \in Queues(PolicyNames)
      /\ polRec \in PolRecs /\ policyCache = [n \in PolicyNames |-> policyCache[n]]
      /\ \A n \in PolicyNames : policyCache[n] \in DnsPolicy(n) /\ apiPolicies[n] \in DnsPolicy(n)
  BY DEF VersionInv, TypeInv, TypeOK, PolicyCtlTypeOK, ClusterTypeOK
<1>3. /\ 1 \in DOMAIN policyWatch /\ policyWatch[1].name = q /\ policyWatch[1].obj = obj
      /\ policyWatch[1] \in PolicyEvents
      /\ \A i \in DOMAIN policyWatch' :
             /\ i + 1 \in DOMAIN policyWatch /\ policyWatch'[i] = policyWatch[i + 1]
             /\ policyWatch[i + 1] \in PolicyEvents /\ i \in Nat /\ 1 < i + 1
  BY SMT, <1>0, <1>1, <1>2
<1>4. q \in PolicyNames /\ obj \in DnsPolicy(q)
  BY <1>3, PolicyEventParts
<1>5. policyCache'[q] = obj /\ \A n \in PolicyNames : n # q => policyCache'[n] = policyCache[n]
  BY <1>1, <1>2, <1>4
<1>6. Fits(obj, policyCache[q], apiPolicies[q])
  BY <1>3 DEF VersionInv, VersionsInv
<1>7. obj.ResourceVersion \in Nat /\ policyCache[q].ResourceVersion \in Nat
  BY <1>2, <1>4 DEF DnsPolicy
<1>8. VersionsInv'
  <2>1. ASSUME NEW n \in PolicyNames
        PROVE  Fits(policyCache'[n], policyCache'[n], apiPolicies[n]) /\ GenerationOK(apiPolicies[n])
    <3>1. CASE n = q
      <4>1. obj.ResourceVersion <= obj.ResourceVersion
        BY SMT, <1>7
      <4>2. Fits(obj, obj, apiPolicies[q])
        BY <1>6, <4>1, FitsNewerCopy
      <4>3. GenerationOK(apiPolicies[n])
        BY DEF VersionInv, VersionsInv
      <4> QED  BY <1>5, <3>1, <4>2, <4>3
    <3>2. CASE n # q
      BY <1>5, <3>2 DEF VersionInv, VersionsInv
    <3> QED  BY <3>1, <3>2
  <2>2. ASSUME NEW i \in DOMAIN policyWatch'
        PROVE  LET e == policyWatch'[i]
               IN  Fits(e.obj, policyCache'[e.name], apiPolicies[e.name])
    <3> DEFINE e == policyWatch'[i]
    <3>1. i + 1 \in DOMAIN policyWatch /\ e = policyWatch[i + 1] /\ 1 < i + 1
          /\ e \in PolicyEvents
      BY <1>3
    <3>2. Fits(e.obj, policyCache[e.name], apiPolicies[e.name])
      BY <3>1 DEF VersionInv, VersionsInv
    <3>3. e.name \in PolicyNames
      BY <3>1, PolicyEventParts
    <3>4. CASE e.name = q
      <4>1. obj.ResourceVersion <= e.obj.ResourceVersion
        BY <1>3, <3>1, <3>4 DEF VersionInv, VersionsInv
      <4>2. Fits(e.obj, obj, apiPolicies[e.name])
        BY <3>2, <4>1, FitsNewerCopy
      <4> QED  BY <1>5, <3>4, <4>2
    <3>5. CASE e.name # q
      BY <1>5, <3>2, <3>3, <3>5
    <3> QED  BY <3>4, <3>5
  <2>3. ASSUME NEW i \in DOMAIN policyWatch', NEW j \in DOMAIN policyWatch', i < j,
               policyWatch'[i].name = policyWatch'[j].name
        PROVE  policyWatch'[i].obj.ResourceVersion <= policyWatch'[j].obj.ResourceVersion
    <3>1. i + 1 < j + 1
      BY SMT, <1>3, <2>3
    <3> QED  BY <1>3, <2>3, <3>1 DEF VersionInv, VersionsInv
  <2> QED  BY <1>1, <2>1, <2>2, <2>3 DEF VersionsInv
<1>9. CopyFits'
  <2> SUFFICES ASSUME polRec.pc \in BusyPolicyPCs \ {"get", "recalculateGone"}
               PROVE  /\ polRec.obj.ResourceVersion <= policyCache'[polRec.req].ResourceVersion
                      /\ polRec.obj.ResourceVersion = apiPolicies[polRec.req].ResourceVersion =>
                             polRec.obj = apiPolicies[polRec.req]
    BY <1>1 DEF CopyFits
  <2>1. polRec.pc # "idle"
    BY DEF BusyPolicyPCs
  <2>2. polRec.req \in PolicyNames /\ polRec.obj.ResourceVersion \in Nat
    BY <1>2, <2>1, PolRecParts DEF DnsPolicy
  <2>3. /\ polRec.obj.ResourceVersion <= policyCache[polRec.req].ResourceVersion
        /\ polRec.obj.ResourceVersion = apiPolicies[polRec.req].ResourceVersion =>
               polRec.obj = apiPolicies[polRec.req]
    BY DEF VersionInv, CopyFits
  <2>4. policyCache[q].ResourceVersion <= obj.ResourceVersion
    BY <1>6 DEF Fits
  <2>5. CASE polRec.req = q
    BY SMT, <1>5, <1>7, <2>2, <2>3, <2>4, <2>5
  <2>6. CASE polRec.req # q
    BY <1>5, <2>2, <2>3, <2>6
  <2> QED  BY <2>5, <2>6
<1>10. PolicyCopyUsed' /\ IndexedPoliciesExist'
  BY <1>1 DEF VersionInv, PolicyCopyUsed, IndexedPoliciesExist
<1>11. policyQueue'.dirty = policyQueue.dirty \cup {q} /\ policyQueue'.waiting = policyQueue.waiting
  BY <1>1, <1>2, EnqueueContents
<1>12. ObservedMeansIndexed'
  BY <1>1, <1>11 DEF VersionInv, ObservedMeansIndexed
<1> QED  BY <1>8, <1>9, <1>10, <1>12

\* Listing the policies anew keeps the invariant.
LEMMA RelistStep ==
    ASSUME VersionInv, RelistPolicies
    PROVE  /\ VersionsInv' /\ CopyFits' /\ PolicyCopyUsed'
           /\ IndexedPoliciesExist' /\ ObservedMeansIndexed'
<1> DEFINE S == {q \in PolicyNames : apiPolicies[q].exists \/ policyCache[q].exists}
<1>1. PICK names \in Orders(S) :
          policyWatch' = [i \in DOMAIN names |->
                             [name |-> names[i], obj |-> apiPolicies[names[i]]]]
  BY DEF RelistPolicies
<1>2. UNCHANGED <<apiPolicies, policyCache, policyQueue, polRec, policies>>
  BY DEF RelistPolicies, policyCtlVars
<1>3. \A i \in DOMAIN names : names[i] \in PolicyNames
  BY SMT, OrdersAre
<1>4. \A i \in DOMAIN policyWatch' :
          /\ i \in DOMAIN names
          /\ policyWatch'[i].name = names[i] /\ policyWatch'[i].obj = apiPolicies[names[i]]
  BY <1>1
<1>5. ASSUME NEW q \in PolicyNames PROVE Fits(apiPolicies[q], policyCache[q], apiPolicies[q])
  <2>1. Fits(policyCache[q], policyCache[q], apiPolicies[q])
    BY DEF VersionInv, VersionsInv
  <2>2. apiPolicies[q].ResourceVersion \in Nat
    BY DEF VersionInv, TypeInv, TypeOK, ClusterTypeOK, DnsPolicy
  <2> QED  BY <2>1, <2>2, LatestFits
<1>6. \A q \in PolicyNames : apiPolicies[q].ResourceVersion \in Nat
  BY DEF VersionInv, TypeInv, TypeOK, ClusterTypeOK, DnsPolicy
<1> HIDE DEF S
<1>7. VersionsInv'
  <2>1. \A i \in DOMAIN policyWatch' :
            LET e == policyWatch'[i]
            IN  Fits(e.obj, policyCache'[e.name], apiPolicies'[e.name])
    BY <1>2, <1>3, <1>4, <1>5
  <2>2. \A i, j \in DOMAIN policyWatch' :
            policyWatch'[i].name = policyWatch'[j].name =>
                policyWatch'[i].obj.ResourceVersion <= policyWatch'[j].obj.ResourceVersion
    BY SMT, <1>3, <1>4, <1>6
  <2> QED  BY <1>2, <2>1, <2>2 DEF VersionInv, VersionsInv
<1> QED
  BY <1>2, <1>7 DEF VersionInv, CopyFits, PolicyCopyUsed, IndexedPoliciesExist,
                    ObservedMeansIndexed

-----------------------------------------------------------------------------
(* Reconcile.                                                              *)

\* A reconcile that returns keeps the invariant, if one that has only just
\* fetched its copy will be repeated or has no claim in the status to honour.
LEMMA ReturnStep ==
    ASSUME VersionInv, PolicyReturns \/ PolicyReturnsError,
           UNCHANGED <<apiPolicies, policyWatch, policyCache, policies>>,
           polRec.pc = "get" => PolicyReturnsError \/ ~Observed(apiPolicies[polRec.req])
    PROVE  /\ VersionsInv' /\ CopyFits' /\ PolicyCopyUsed'
           /\ IndexedPoliciesExist' /\ ObservedMeansIndexed'
<1>1. /\ polRec' = IdlePolRec
      /\ \A n : n \in policyQueue.dirty \cup policyQueue.waiting =>
                 n \in policyQueue'.dirty \cup policyQueue'.waiting
      /\ PolicyReturnsError => polRec.req \in policyQueue'.waiting
  BY ReturnKeepsRequests DEF VersionInv, TypeInv, TypeOK, PolicyCtlTypeOK
<1>2. VersionsInv' /\ IndexedPoliciesExist'
  BY DEF VersionInv, VersionsInv, IndexedPoliciesExist
<1>3. CopyFits' /\ PolicyCopyUsed'
  BY <1>1 DEF CopyFits, PolicyCopyUsed, IdlePolRec, BusyPolicyPCs
<1>4. ObservedMeansIndexed'
  BY <1>1 DEF VersionInv, ObservedMeansIndexed, Observed
<1> QED  BY <1>2, <1>3, <1>4

\* A step of Reconcile past r.Get that leaves the index alone keeps the
\* invariant.
LEMMA MoveStep ==
    ASSUME VersionInv, NEW pc, polRec' = [polRec EXCEPT !.pc = pc],
           UNCHANGED <<apiPolicies, policyWatch, policyCache, policies, policyQueue>>,
           \/ polRec.pc = "recalculateDeleted" /\ pc = "removeFinalizer"
           \/ /\ polRec.pc \in {"recalculate", "collect", "recalculateChange"}
              /\ pc \in {"recalculateChange", "updateStatus"}
    PROVE  /\ VersionsInv' /\ CopyFits' /\ PolicyCopyUsed'
           /\ IndexedPoliciesExist' /\ ObservedMeansIndexed'
<1>1. polRec \in PolRecs /\ polRec.pc # "idle"
  BY DEF VersionInv, TypeInv, TypeOK, PolicyCtlTypeOK
<1>2. polRec'.pc = pc /\ polRec'.req = polRec.req /\ polRec'.obj = polRec.obj
  BY <1>1, PolRecParts
<1>3. VersionsInv' /\ IndexedPoliciesExist'
  BY DEF VersionInv, VersionsInv, IndexedPoliciesExist
<1>4. CopyFits' /\ PolicyCopyUsed'
  BY <1>2 DEF VersionInv, CopyFits, PolicyCopyUsed, BusyPolicyPCs
<1>5. ObservedMeansIndexed'
  BY <1>2 DEF VersionInv, ObservedMeansIndexed
<1> QED  BY <1>3, <1>4, <1>5

\* What r.Get returns is a copy that fits.
LEMMA FetchedFits ==
    ASSUME VersionInv, polRec.pc = "get"
    PROVE  /\ polRec.req \in PolicyNames
           /\ Fetched \in DnsPolicy(polRec.req)
           /\ Fits(Fetched, Fetched, apiPolicies[polRec.req])
<1>1. polRec \in PolRecs
  BY DEF VersionInv, TypeInv, TypeOK, PolicyCtlTypeOK
<1>2. polRec.req \in PolicyNames
  BY <1>1, PolRecParts
<1> QED
  BY <1>2 DEF Fetched, VersionInv, VersionsInv, TypeInv, TypeOK, PolicyCtlTypeOK

\* A step that uses the copy r.Get returned keeps the invariant, if what it
\* does to the index fits the copy.
LEMMA GetStep ==
    ASSUME VersionInv, polRec.pc = "get",
           UNCHANGED <<apiPolicies, policyWatch, policyCache, policyQueue>>,
           polRec'.req = polRec.req, polRec'.obj = Fetched, polRec'.pc # "get",
           PolicyCopyUsed',
           \A n \in PolicyNames : n # polRec.req =>
               /\ n \in DOMAIN policies' <=> n \in DOMAIN policies
               /\ n \in DOMAIN policies => policies'[n] = policies[n],
           DOMAIN policies' \subseteq PolicyNames,
           polRec.req \in DOMAIN policies' =>
               Serving(Fetched) \/ Carried(apiPolicies[polRec.req]),
           Serving(Fetched) =>
               polRec.req \in DOMAIN policies' /\ policies'[polRec.req] = Fetched.Spec
    PROVE  /\ VersionsInv' /\ CopyFits'
           /\ IndexedPoliciesExist' /\ ObservedMeansIndexed'
<1>0. PICK q, c, a : q = polRec.req /\ c = Fetched /\ a = apiPolicies[q]
  OBVIOUS
<1>1. q \in PolicyNames /\ c \in DnsPolicy(q) /\ Fits(c, c, a)
  BY <1>0, FetchedFits
<1>2. VersionsInv'
  BY DEF VersionInv, VersionsInv
<1>3. CopyFits'
  <2>1. c.ResourceVersion \in Nat /\ c = policyCache[q]
    BY <1>0, <1>1 DEF DnsPolicy, Fetched
  <2> QED  BY <1>0, <1>1, <2>1 DEF CopyFits, Fits
<1>4. q \in DOMAIN policies' => Carried(a)
  BY <1>0, <1>1 DEF Fits
<1>5. IndexedPoliciesExist'
  BY <1>0, <1>4 DEF VersionInv, IndexedPoliciesExist, Carried
<1>6. Observed(a) => q \in DOMAIN policies' /\ policies'[q] = a.Spec
  BY <1>0, <1>1 DEF Fits
<1>7. ObservedMeansIndexed'
  BY <1>0, <1>6 DEF VersionInv, ObservedMeansIndexed, Observed
<1> QED  BY <1>2, <1>3, <1>5, <1>7

\* Every step of the policy controller keeps the invariant.
LEMMA PolicyVersionStep ==
    ASSUME VersionInv, PolicySide
    PROVE  /\ VersionsInv' /\ CopyFits' /\ PolicyCopyUsed'
           /\ IndexedPoliciesExist' /\ ObservedMeansIndexed'
<1>1. /\ polRec \in PolRecs /\ policyQueue \in Queues(PolicyNames)
      /\ DOMAIN policies \subseteq PolicyNames
  BY DEF VersionInv, TypeInv, TypeOK, PolicyCtlTypeOK, PolicyIndexTypeOK
<1>2. CASE DeliverPolicyEvent
  BY <1>2, DeliverStep
<1>3. CASE RelistPolicies
  BY <1>3, RelistStep
<1>4. CASE (\E q \in PolicyNames : PolicyBackoffExpires(q)) \/ PolicyTake
  <2>1. UNCHANGED <<apiPolicies, policyWatch, policyCache, policies>>
    BY <1>4 DEF PolicyBackoffExpires, PolicyTake, clusterVars
  <2>2. VersionsInv' /\ IndexedPoliciesExist'
    BY <2>1 DEF VersionInv, VersionsInv, IndexedPoliciesExist
  <2>3. CASE \E q \in PolicyNames : PolicyBackoffExpires(q)
    <3>1. PICK q \in PolicyNames : PolicyBackoffExpires(q)
      BY <2>3
    <3>2. /\ policyQueue'.dirty = policyQueue.dirty \cup {q}
          /\ policyQueue'.waiting = policyQueue.waiting \ {q}
      <4>1. policyQueue' = BackoffExpired(policyQueue, q)
        BY <3>1 DEF PolicyBackoffExpires
      <4> QED  BY <1>1, <4>1, BackoffContents
    <3>3. UNCHANGED polRec
      BY <3>1 DEF PolicyBackoffExpires
    <3>4. ObservedMeansIndexed'
      BY <2>1, <3>2, <3>3 DEF VersionInv, ObservedMeansIndexed
    <3> QED  BY <2>1, <2>2, <3>3, <3>4 DEF VersionInv, CopyFits, PolicyCopyUsed
  <2>4. CASE PolicyTake
    <3>1. /\ polRec.pc = "idle"
          /\ polRec'.pc = "get" /\ polRec'.req = Head(policyQueue.order)
          /\ policyQueue' = Dequeue(policyQueue)
      BY <2>4 DEF PolicyTake, IdlePolRec
    <3>2. /\ policyQueue'.dirty = policyQueue.dirty \ {Head(policyQueue.order)}
          /\ policyQueue'.waiting = policyQueue.waiting
      BY <1>1, <3>1, DequeueContents
    <3>3. ObservedMeansIndexed'
      BY <2>1, <3>1, <3>2 DEF VersionInv, ObservedMeansIndexed
    <3> QED  BY <2>2, <3>1, <3>3 DEF CopyFits, PolicyCopyUsed
  <2> QED  BY <1>4, <2>3, <2>4
<1>5. CASE PolicyGetFails \/ PolicyInvalid
  <2>1. PolicyReturnsError /\ UNCHANGED <<apiPolicies, policyWatch, policyCache, policies>>
    BY <1>5 DEF PolicyGetFails, PolicyInvalid, clusterVars, policyApiVars
  <2> QED  BY <2>1, ReturnStep
<1>6. CASE PolicyIgnored
  <2>1. /\ PolicyReturns /\ polRec.pc = "get" /\ Fetched.Deleting
        /\ UNCHANGED <<apiPolicies, policyWatch, policyCache, policies>>
    BY <1>6 DEF PolicyIgnored, clusterVars
  <2>2. ~Observed(apiPolicies[polRec.req])
    BY <2>1, FetchedFits DEF Fits, Serving
  <2> QED  BY <2>1, <2>2, ReturnStep
<1>7. CASE PolicyGone
  <2>1. /\ polRec.pc = "get" /\ ~Fetched.exists
        /\ policies' = Without(policies, {polRec.req})
        /\ PolicyReturns \/ UNCHANGED policyQueue
        /\ UNCHANGED <<apiPolicies, policyWatch, policyCache>>
    BY <1>7 DEF PolicyGone, DeletePolicy, clusterVars
  <2>2. ~Observed(apiPolicies[polRec.req])
    BY <2>1, FetchedFits DEF Fits, Serving, Carried
  <2>3. polRec'.pc \in {"idle", "recalculateGone"}
    BY SMT, <1>1, <1>7, PolicyGonePC DEF IdlePolRec
  <2>4. \A n : n \in policyQueue.dirty \cup policyQueue.waiting =>
               n \in policyQueue'.dirty \cup policyQueue'.waiting
    BY <1>1, <2>1, ReturnKeepsRequests
  <2>5. /\ DOMAIN policies' = DOMAIN policies \ {polRec.req}
        /\ \A n \in DOMAIN policies' : policies'[n] = policies[n]
    BY <2>1 DEF Without
  <2>6. VersionsInv'
    BY <2>1 DEF VersionInv, VersionsInv
  <2>7. CopyFits' /\ PolicyCopyUsed'
    BY <2>3 DEF CopyFits, PolicyCopyUsed, BusyPolicyPCs
  <2>8. IndexedPoliciesExist'
    BY <2>1, <2>5 DEF VersionInv, IndexedPoliciesExist
  <2>9. ObservedMeansIndexed'
    BY <2>1, <2>2, <2>4, <2>5 DEF VersionInv, ObservedMeansIndexed, Observed
  <2> QED  BY <2>6, <2>7, <2>8, <2>9
<1>8. CASE PolicyFinalize
  <2>1. /\ polRec.pc = "get" /\ Fetched.Deleting
        /\ policies' = Without(policies, {polRec.req})
        /\ UNCHANGED <<apiPolicies, policyWatch, policyCache, policyQueue>>
    BY <1>8 DEF PolicyFinalize, DeletePolicy, clusterVars
  <2>2. /\ polRec'.pc \in {"removeFinalizer", "recalculateDeleted"}
        /\ polRec'.req = polRec.req /\ polRec'.obj = Fetched
    BY SMT, <1>1, <1>8, PolicyFinalizePC
  <2>3. /\ DOMAIN policies' = DOMAIN policies \ {polRec.req}
        /\ \A n \in DOMAIN policies' : policies'[n] = policies[n]
    BY <2>1 DEF Without
  <2>4. PolicyCopyUsed'
    BY <2>1, <2>2, <2>3 DEF PolicyCopyUsed
  <2>5. ~Serving(Fetched)
    BY <2>1 DEF Serving
  <2> QED  BY <1>1, <2>1, <2>2, <2>3, <2>4, <2>5, GetStep
<1>9. CASE PolicyNeedsFinalizer
  <2>1. /\ polRec.pc = "get" /\ ~Fetched.Finalizer
        /\ polRec' = [polRec EXCEPT !.obj = Fetched, !.pc = "addFinalizer"]
        /\ UNCHANGED <<apiPolicies, policyWatch, policyCache, policyQueue, policies>>
    BY <1>9 DEF PolicyNeedsFinalizer, clusterVars
  <2>2. polRec'.pc = "addFinalizer" /\ polRec'.req = polRec.req /\ polRec'.obj = Fetched
    BY <1>1, <2>1, PolRecParts
  <2>3. PolicyCopyUsed'
    BY <2>2 DEF PolicyCopyUsed
  <2>4. ~Serving(Fetched)
    BY <2>1 DEF Serving, Carried
  <2>5. polRec.req \in DOMAIN policies => Carried(apiPolicies[polRec.req])
    BY DEF VersionInv, IndexedPoliciesExist, Carried
  <2> QED  BY <1>1, <2>1, <2>2, <2>3, <2>4, <2>5, GetStep
<1>10. CASE PolicyUpsert
  <2>1. /\ polRec.pc = "get" /\ Serving(Fetched)
        /\ policies' = Put(policies, polRec.req, Fetched.Spec)
        /\ UNCHANGED <<apiPolicies, policyWatch, policyCache, policyQueue>>
    BY <1>10 DEF PolicyUpsert, Indexable, UpsertPolicy, clusterVars, Serving, Carried
  <2>2. /\ polRec'.pc \in {"collect", "recalculate"}
        /\ polRec'.req = polRec.req /\ polRec'.obj = Fetched
    BY <1>1, <1>10, <2>1, PolRecParts DEF PolicyUpsert
  <2>3. /\ DOMAIN policies' = DOMAIN policies \cup {polRec.req}
        /\ policies'[polRec.req] = Fetched.Spec
        /\ \A n \in DOMAIN policies : n # polRec.req => policies'[n] = policies[n]
    BY <2>1 DEF Put
  <2>4. PolicyCopyUsed'
    BY <2>1, <2>2, <2>3 DEF PolicyCopyUsed
  <2>5. DOMAIN policies' \subseteq PolicyNames
    BY <1>1, <2>1, <2>3, FetchedFits
  <2> QED  BY <2>1, <2>2, <2>3, <2>4, <2>5, GetStep
<1>11. CASE PolicyRecalculate \/ PolicyCollectsOld \/ PolicyRecalculatesChange
  <2>1. UNCHANGED <<apiPolicies, policyWatch, policyCache, policies>>
    BY <1>11 DEF PolicyRecalculate, PolicyCollectsOld, PolicyRecalculatesChange, clusterVars
  <2>2. polRec.pc # "get"
    BY <1>11 DEF PolicyRecalculate, PolicyCollectsOld, PolicyRecalculatesChange
  <2>3. \/ PolicyReturns
        \/ /\ UNCHANGED policyQueue /\ polRec.pc = "recalculateDeleted"
           /\ polRec' = [polRec EXCEPT !.pc = "removeFinalizer"]
        \/ /\ UNCHANGED policyQueue /\ polRec.pc \in {"recalculate", "recalculateChange"}
           /\ polRec' = [polRec EXCEPT !.pc = "updateStatus"]
        \/ /\ UNCHANGED policyQueue /\ polRec.pc = "collect"
           /\ polRec' = [polRec EXCEPT !.pc = "recalculateChange"]
    BY <1>11 DEF PolicyRecalculate, PolicyCollectsOld, PolicyRecalculatesChange,
                 PolicyRecalculated
  <2> QED  BY <2>1, <2>2, <2>3, ReturnStep, MoveStep
<1>12. CASE PolicyWrites
  BY <1>12, WorkerWriteStep DEF PolicyWrites
<1>13. CASE PolicyWriteRejected
  <2>1. /\ PolicyReturnsError /\ UNCHANGED <<apiPolicies, policyWatch, policyCache, policies>>
    BY <1>13 DEF PolicyWriteRejected, clusterVars
  <2> QED  BY <2>1, ReturnStep
<1>14. CASE PolicyWriteFails
  <2>1. Writing /\ PolicyReturnsError /\ UNCHANGED <<policyCache, policies>>
    BY <1>14 DEF PolicyWriteFails
  <2>2. CASE UNCHANGED <<apiPolicies, policyWatch>>
    BY <2>1, <2>2, ReturnStep
  <2>3. CASE UpdateAccepted(polRec.req, polRec.obj) /\ StorePolicy(polRec.req, Desired)
    BY <2>1, <2>3, WorkerWriteStep
  <2> QED  BY <1>14, <2>2, <2>3 DEF PolicyWriteFails, policyApiVars
<1> QED
  BY <1>2, <1>3, <1>4, <1>5, <1>6, <1>7, <1>8, <1>9, <1>10, <1>11, <1>12, <1>13, <1>14
  DEF PolicySide, PolicyWorker

-----------------------------------------------------------------------------
(* Starts and restarts, and the theorems.                                  *)

\* A policy that exists when the manager starts is queued.
LEMMA PoliciesQueued ==
    ASSUME NEW queue \in PolicyRequests, NEW q \in PolicyNames, apiPolicies[q].exists
    PROVE  q \in queue.dirty
<1> DEFINE S == {n \in PolicyNames : apiPolicies[n].exists}
<1>1. PICK s \in Orders(S) : queue = QueueOf(s)
  BY DEF PolicyRequests
<1>2. q \in S
  OBVIOUS
<1> HIDE DEF S
<1> QED  BY <1>1, <1>2, OrdersCover

\* What the controller can find at its first start claims nothing wrong.
LEMMA StartingFits ==
    ASSUME NEW q \in PolicyNames
    PROVE  \A a \in StartingPolicies(q) : (Observed(a) => Serving(a)) /\ GenerationOK(a)
<1> DEFINE First(spec, handled) ==
               [NoPolicy(1) EXCEPT !.exists = TRUE, !.Spec = spec, !.Generation = 1,
                    !.Finalizer = handled,
                    !.ObservedGeneration = IF handled THEN 1 ELSE 0,
                    !.Ready = IF handled THEN "True" ELSE "Unknown",
                    !.ReadyGeneration = IF handled THEN 1 ELSE 0]
<1>1. ~Observed(NoPolicy(0)) /\ GenerationOK(NoPolicy(0))
  BY SMT DEF NoPolicy, Observed, GenerationOK
<1>2. ASSUME NEW spec, NEW handled \in BOOLEAN
      PROVE  /\ Observed(First(spec, handled)) => Serving(First(spec, handled))
             /\ GenerationOK(First(spec, handled))
  BY SMT DEF NoPolicy, Observed, Serving, Carried, GenerationOK
<1>3. StartingPolicies(q) =
          {NoPolicy(0)} \cup
          {First(spec, handled) :
              spec \in {s \in SpecsOf[q] : DOMAIN s.TargetSelector # {}},
              handled \in BOOLEAN}
  BY SMT DEF StartingPolicies
<1> HIDE DEF First
<1> QED  BY SMT, <1>1, <1>2, <1>3

\* The invariant holds when main starts the manager.
LEMMA VersionInit == Init => VersionInv
<1> SUFFICES ASSUME Init PROVE VersionInv
  OBVIOUS
<1>1. TypeInv
  BY TypeInvInit
<1>2. /\ policyWatch = <<>> /\ policyCache = apiPolicies /\ polRec = IdlePolRec
      /\ policyQueue \in PolicyRequests /\ policies = EmptyMap
      /\ \A q \in PolicyNames : apiPolicies[q] \in StartingPolicies(q)
  BY DEF Init, NewPolicyIndex, ClusterInit
<1>3. ASSUME NEW q \in PolicyNames
      PROVE  Fits(policyCache[q], policyCache[q], apiPolicies[q]) /\ GenerationOK(apiPolicies[q])
  <2>1. apiPolicies[q].ResourceVersion \in Nat
    BY <1>1 DEF TypeInv, TypeOK, ClusterTypeOK, DnsPolicy
  <2>2. apiPolicies[q].ResourceVersion <= apiPolicies[q].ResourceVersion
    BY SMT, <2>1
  <2>3. (Observed(apiPolicies[q]) => Serving(apiPolicies[q])) /\ GenerationOK(apiPolicies[q])
    BY <1>2, StartingFits
  <2>4. Fits(apiPolicies[q], apiPolicies[q], apiPolicies[q])
    BY <2>2, <2>3 DEF Fits, Serving
  <2> QED  BY <1>2, <2>3, <2>4
<1>4. VersionsInv
  <2>1. DOMAIN policyWatch = {}
    BY SMT, <1>2
  <2> QED  BY <1>3, <2>1 DEF VersionsInv
<1>5. CopyFits /\ PolicyCopyUsed
  BY <1>2 DEF CopyFits, PolicyCopyUsed, IdlePolRec, BusyPolicyPCs
<1>6. IndexedPoliciesExist
  BY <1>2 DEF IndexedPoliciesExist, EmptyMap
<1>7. ObservedMeansIndexed
  BY <1>2, PoliciesQueued DEF ObservedMeansIndexed
<1> QED  BY <1>1, <1>4, <1>5, <1>6, <1>7 DEF VersionInv

\* A restart forgets the index and queues every policy.
LEMMA RestartStep ==
    ASSUME VersionInv, Restart
    PROVE  /\ VersionsInv' /\ CopyFits' /\ PolicyCopyUsed'
           /\ IndexedPoliciesExist' /\ ObservedMeansIndexed'
<1>1. /\ policyWatch' = <<>> /\ policyCache' = apiPolicies /\ polRec' = IdlePolRec
      /\ policyQueue' \in PolicyRequests /\ policies' = EmptyMap /\ UNCHANGED apiPolicies
  BY DEF Restart
<1>2. ASSUME NEW q \in PolicyNames
      PROVE  Fits(apiPolicies[q], apiPolicies[q], apiPolicies[q]) /\ GenerationOK(apiPolicies[q])
  <2>1. apiPolicies[q].ResourceVersion \in Nat
    BY DEF VersionInv, TypeInv, TypeOK, ClusterTypeOK, DnsPolicy
  <2>2. Fits(policyCache[q], policyCache[q], apiPolicies[q]) /\ GenerationOK(apiPolicies[q])
    BY DEF VersionInv, VersionsInv
  <2> QED  BY <2>1, <2>2, LatestFits
<1>3. VersionsInv'
  <2>1. DOMAIN policyWatch' = {}
    BY SMT, <1>1
  <2> QED  BY <1>1, <1>2, <2>1 DEF VersionsInv
<1>4. CopyFits' /\ PolicyCopyUsed'
  BY <1>1 DEF CopyFits, PolicyCopyUsed, IdlePolRec, BusyPolicyPCs
<1>5. IndexedPoliciesExist'
  BY <1>1 DEF IndexedPoliciesExist, EmptyMap
<1>6. \A q \in PolicyNames : apiPolicies[q].exists => q \in policyQueue'.dirty
  BY <1>1, PoliciesQueued
<1>7. ObservedMeansIndexed'
  BY <1>1, <1>6 DEF ObservedMeansIndexed
<1> QED  BY <1>3, <1>4, <1>5, <1>7

\* Steps of pods, and of the pod controller, do not touch policies.
LEMMA PodsLeavePolicies ==
    ASSUME PodsChange \/ PodSide
    PROVE  UNCHANGED <<apiPolicies, policyWatch>>
<1>1. CASE PodsChange
  BY <1>1 DEF PodsChange, CreatePod, AssignIP, RunPod, ChangeIP, RelabelPod, EndPod,
              RemovePodObject, WritePod, policyApiVars
<1>2. CASE PodSide
  BY <1>2 DEF PodSide, PodWorker, DeliverPodEvent, RelistPods, PodBackoffExpires, PodTake,
              PodGet, PodGetFails, PodGoneRemovesEntry, PodGoneLeavesIndex, PodWithoutIP,
              PodRemovesOldEntry, PodUpsert, PodRecalculate, clusterVars, policyApiVars
<1> QED  BY <1>1, <1>2

\* Every step keeps the invariant.
LEMMA VersionNext == VersionInv /\ [Next]_vars => VersionInv'
<1> SUFFICES ASSUME VersionInv, [Next]_vars PROVE VersionInv'
  OBVIOUS
<1>1. TypeInv'
  BY TypeInvNext DEF VersionInv
<1>2. CASE UNCHANGED <<apiPolicies, policyWatch, policyCache, policyQueue, polRec, policies>>
  BY <1>1, <1>2 DEF VersionInv, VersionsInv, CopyFits, PolicyCopyUsed, IndexedPoliciesExist,
                    ObservedMeansIndexed
<1>3. CASE PodsChange /\ UNCHANGED <<policyCtlVars, policies>>
  BY <1>2, <1>3, PodsLeavePolicies DEF policyCtlVars
<1>4. CASE PoliciesChange /\ UNCHANGED <<policyCtlVars, policies>>
  BY <1>1, <1>4, PoliciesChangeStep DEF VersionInv
<1>5. CASE PodSide /\ UNCHANGED policyCtlVars
  BY <1>2, <1>5, PodsLeavePolicies, PodSideFrame DEF policyCtlVars
<1>6. CASE PolicySide
  BY <1>1, <1>6, PolicyVersionStep DEF VersionInv
<1>7. CASE Restart
  BY <1>1, <1>7, RestartStep DEF VersionInv
<1>8. CASE UNCHANGED vars
  BY <1>2, <1>8 DEF vars, clusterVars, policyCtlVars
<1> QED
  BY <1>3, <1>4, <1>5, <1>6, <1>7, <1>8 DEF Next

\* The finalizer does its work: a policy in the index exists in the API server
\* and carries the controller's finalizer, also when the reconciler acts on an
\* outdated copy, a write fails or is stored although the call failed, or the
\* process restarts.
THEOREM FinalizerProtects == Spec => []IndexedPoliciesExist
<1>1. VersionInv => IndexedPoliciesExist
  BY DEF VersionInv
<1> QED  BY <1>1, VersionInit, VersionNext, PTL DEF Spec

\* status.observedGeneration is honest: when it names the current generation
\* of a policy that is not being deleted, the index holds that very spec or a
\* reconcile of the policy is still to come.
THEOREM ObservedHonest == Spec => []ObservedMeansIndexed
<1>1. VersionInv => ObservedMeansIndexed
  BY DEF VersionInv
<1> QED  BY <1>1, VersionInit, VersionNext, PTL DEF Spec

\* The finalizer and the status keep their promises in the process that serves
\* the agents, whenever it is stopped or dies.
THEOREM ControllerTracksPolicies ==
    ControllerSpec => [](IndexedPoliciesExist /\ ObservedMeansIndexed)
BY ControllerIsMesh, FinalizerProtects, ObservedHonest, PTL

-----------------------------------------------------------------------------
(* Policies: no reconcile is forgotten.                                    *)

\* An event about policy q is on its way.
Announced(q) == \E i \in DOMAIN policyWatch : policyWatch[i].name = q

\* A reconcile that will fetch policy q is to come.
PolicyPending(q) ==
    \/ q \in policyQueue.dirty \cup policyQueue.waiting
    \/ polRec.req = q /\ polRec.pc = "get"
    \/ Announced(q)

\* The worker has fetched policy q and not yet returned.
PolicyInHand(q) == polRec.req = q /\ polRec.pc \in BusyPolicyPCs \ {"get"}

\* The worker's copy of q is the informer's.
PolicyCopyCurrent(q) ==
    policyCache[q].exists => polRec.pc # "recalculateGone" /\ polRec.obj = policyCache[q]

\* There is nothing to do for q: the controller's finalizer is off a policy
\* being deleted; any other is indexed and its status says so.
PolicySettled(q) ==
    LET obj == policyCache[q]
    IN  /\ obj.exists /\ obj.Deleting => ~obj.Finalizer
        /\ obj.exists /\ ~obj.Deleting =>
               /\ q \in DOMAIN policies /\ policies[q] = obj.Spec
               /\ obj.ObservedGeneration = obj.Generation

\* With nothing to come for q, what the worker has in hand is current, or q is
\* settled.
PolicyTracked(q) ==
    PolicyPending(q) \/ IF PolicyInHand(q) THEN PolicyCopyCurrent(q) ELSE PolicySettled(q)

PoliciesInv == PoliciesInStep /\ \A q \in PolicyNames : PolicyTracked(q)

\* The API server announces what it stores.
LEMMA StoreAnnounced ==
    ASSUME TypeInv, PoliciesInStep, NEW q \in PolicyNames, NEW obj, StorePolicy(q, obj),
           UNCHANGED policyCache
    PROVE  /\ PoliciesInStep'
           /\ Announced(q)'
           /\ \A n : Announced(n) => Announced(n)'
<1>0. PICK new : new = Stored(obj)
  OBVIOUS
<1>1. /\ apiPolicies' = [apiPolicies EXCEPT ![q] = new]
      /\ policyWatch' = Append(policyWatch, [name |-> q, obj |-> new])
  BY <1>0 DEF StorePolicy
<1>2. /\ policyWatch \in Seq(PolicyEvents)
      /\ apiPolicies = [n \in PolicyNames |-> apiPolicies[n]]
  BY DEF TypeInv, TypeOK, ClusterTypeOK
<1>3. DOMAIN apiPolicies = PolicyNames
  BY <1>2
<1>4. PoliciesInStep'
  BY <1>1, <1>2, <1>3, WrittenInStep DEF PoliciesInStep
<1>5. /\ Len(policyWatch) + 1 \in DOMAIN policyWatch'
      /\ policyWatch'[Len(policyWatch) + 1].name = q
      /\ \A i \in DOMAIN policyWatch : i \in DOMAIN policyWatch' /\ policyWatch'[i] = policyWatch[i]
  BY SMT, <1>1, <1>2
<1> QED  BY <1>4, <1>5 DEF Announced

\* A step that neither forgets a request nor touches what is known of a policy
\* keeps it tracked, if the worker does not have it in hand.
LEMMA OthersTracked ==
    ASSUME NEW n, PolicyTracked(n), n # polRec.req, UNCHANGED policyCache,
           Announced(n) => Announced(n)',
           n \in policyQueue.dirty \cup policyQueue.waiting =>
               n \in policyQueue'.dirty \cup policyQueue'.waiting,
           polRec'.req = polRec.req \/ polRec'.pc = "idle",
           n \in DOMAIN policies => n \in DOMAIN policies' /\ policies'[n] = policies[n]
    PROVE  PolicyTracked(n)'
<1>1. CASE PolicyPending(n)
  BY <1>1 DEF PolicyTracked, PolicyPending
<1>2. CASE ~PolicyPending(n)
  <2>1. PolicySettled(n)
    BY <1>2 DEF PolicyTracked, PolicyInHand
  <2>2. PolicySettled(n)'
    BY <2>1 DEF PolicySettled
  <2>3. ~PolicyInHand(n)'
    BY DEF PolicyInHand, BusyPolicyPCs
  <2> QED  BY <2>2, <2>3 DEF PolicyTracked
<1> QED  BY <1>1, <1>2

\* A reconcile that returns an error is repeated; one that returns without an
\* error must leave its policy settled or announced.
LEMMA ReturnTracked ==
    ASSUME TypeInv, NEW n, PolicyTracked(n), UNCHANGED <<policyCache, policies>>,
           Announced(n) => Announced(n)',
           \/ PolicyReturnsError
           \/ PolicyReturns /\ (n = polRec.req => \/ Announced(n)'
                                                   \/ PolicySettled(n)
                                                   \/ n \in policyQueue.dirty \cup
                                                            policyQueue.waiting)
    PROVE  PolicyTracked(n)'
<1>1. /\ polRec' = IdlePolRec
      /\ n \in policyQueue.dirty \cup policyQueue.waiting =>
             n \in policyQueue'.dirty \cup policyQueue'.waiting
      /\ PolicyReturnsError => polRec.req \in policyQueue'.waiting
  BY ReturnKeepsRequests DEF TypeInv, TypeOK, PolicyCtlTypeOK
<1>2. polRec'.pc = "idle" /\ ~PolicyInHand(n)'
  BY <1>1 DEF IdlePolRec, PolicyInHand, BusyPolicyPCs
<1>3. CASE n # polRec.req
  BY <1>1, <1>2, <1>3, OthersTracked
<1>4. CASE n = polRec.req /\ PolicyReturnsError
  BY <1>1, <1>4 DEF PolicyTracked, PolicyPending
<1>5. CASE Announced(n)'
  BY <1>5 DEF PolicyTracked, PolicyPending
<1>6. CASE PolicySettled(n)
  <2>1. PolicySettled(n)'
    BY <1>6 DEF PolicySettled
  <2> QED  BY <1>2, <2>1 DEF PolicyTracked
<1>7. CASE n \in policyQueue.dirty \cup policyQueue.waiting
  BY <1>1, <1>7 DEF PolicyTracked, PolicyPending
<1> QED  BY <1>3, <1>4, <1>5, <1>6, <1>7

\* What the worker fetches is the informer's copy.
LEMMA GetTracked ==
    ASSUME NEW n, PolicyTracked(n), UNCHANGED <<policyCache, policyWatch>>,
           polRec.pc = "get", polRec'.req = polRec.req,
           polRec'.pc \in BusyPolicyPCs \ {"get"},
           UNCHANGED policyQueue,
           Fetched.exists => polRec'.pc # "recalculateGone" /\ polRec'.obj = Fetched,
           n # polRec.req /\ n \in DOMAIN policies =>
               n \in DOMAIN policies' /\ policies'[n] = policies[n]
    PROVE  PolicyTracked(n)'
<1>1. Announced(n) => Announced(n)'
  BY DEF Announced
<1>2. CASE n # polRec.req
  BY <1>1, <1>2, OthersTracked
<1>3. CASE n = polRec.req
  <2>1. PolicyInHand(n)'
    BY <1>3 DEF PolicyInHand
  <2>2. PolicyCopyCurrent(n)'
    BY <1>3 DEF PolicyCopyCurrent, Fetched
  <2> QED  BY <2>1, <2>2 DEF PolicyTracked
<1> QED  BY <1>2, <1>3

\* So it stays from one point of Reconcile to the next.
LEMMA MoveTracked ==
    ASSUME NEW n, PolicyTracked(n), polRec \in PolRecs,
           UNCHANGED <<policyCache, policyWatch, policyQueue, policies>>,
           polRec.pc \in BusyPolicyPCs \ {"get", "recalculateGone"},
           NEW pc \in BusyPolicyPCs \ {"get", "recalculateGone"},
           polRec' = [polRec EXCEPT !.pc = pc]
    PROVE  PolicyTracked(n)'
<1>1. polRec'.pc = pc /\ polRec'.req = polRec.req /\ polRec'.obj = polRec.obj
  BY SMT, PolRecParts
<1>2. PolicyPending(n) => PolicyPending(n)'
  BY DEF PolicyPending, Announced
<1>3. PolicyInHand(n)' <=> PolicyInHand(n)
  BY <1>1 DEF PolicyInHand
<1>4. PolicyCopyCurrent(n) => PolicyCopyCurrent(n)'
  BY <1>1 DEF PolicyCopyCurrent
<1>5. PolicySettled(n) => PolicySettled(n)'
  BY DEF PolicySettled
<1> QED  BY <1>2, <1>3, <1>4, <1>5 DEF PolicyTracked

\* Reconcile ends after a recalculation only when the policy is settled, or is
\* to be fetched again.
LEMMA RecalculatedTracked ==
    ASSUME VersionInv, NEW n \in PolicyNames, PolicyTracked(n), PolicyReturns,
           UNCHANGED <<policyCache, policyWatch, policies>>,
           \/ polRec.pc = "recalculateGone"
           \/ /\ polRec.pc \in {"recalculate", "recalculateChange"}
              /\ polRec.obj.ObservedGeneration = polRec.obj.Generation
    PROVE  PolicyTracked(n)'
<1>1. Announced(n) => Announced(n)'
  BY DEF Announced
<1>2. ASSUME n = polRec.req, PolicyCopyCurrent(n)
      PROVE  PolicySettled(n)
  <2>1. CASE ~policyCache[n].exists
    BY <2>1 DEF PolicySettled
  <2>2. CASE policyCache[n].exists
    <3>1. /\ polRec.obj = policyCache[n]
          /\ polRec.pc \in {"recalculate", "recalculateChange"}
      BY <1>2, <2>2 DEF PolicyCopyCurrent
    <3>2. ~polRec.obj.Deleting /\ n \in DOMAIN policies /\ policies[n] = polRec.obj.Spec
      BY <1>2, <3>1 DEF VersionInv, PolicyCopyUsed, Serving
    <3> QED  BY <3>1, <3>2 DEF PolicySettled
  <2> QED  BY <2>1, <2>2
<1>3. n = polRec.req => \/ Announced(n) \/ PolicySettled(n)
                        \/ n \in policyQueue.dirty \cup policyQueue.waiting
  BY <1>2 DEF PolicyTracked, PolicyPending, PolicyInHand, BusyPolicyPCs
<1> QED  BY <1>1, <1>3, ReturnTracked DEF VersionInv

\* An event, delivered, asks for a reconcile.
LEMMA DeliverTracked ==
    ASSUME TypeInv, PoliciesInv, DeliverPolicyEvent PROVE PoliciesInv'
<1>0. PICK q, obj : q = Head(policyWatch).name /\ obj = Head(policyWatch).obj
  OBVIOUS
<1>1. /\ policyCache' = [policyCache EXCEPT ![q] = obj]
      /\ policyQueue' = Enqueue(policyQueue, q)
      /\ policyWatch # <<>> /\ policyWatch' = Tail(policyWatch)
      /\ UNCHANGED <<apiPolicies, polRec, policies>>
  BY <1>0 DEF DeliverPolicyEvent
<1>2. /\ policyWatch \in Seq(PolicyEvents) /\ policyQueue \in Queues(PolicyNames)
      /\ policyCache = [n \in PolicyNames |-> policyCache[n]]
  BY DEF TypeInv, TypeOK, PolicyCtlTypeOK, ClusterTypeOK
<1>3. DOMAIN policyCache = PolicyNames
  BY <1>2
<1>4. PoliciesInStep'
  BY <1>0, <1>1, <1>2, <1>3, DeliveredInStep DEF PoliciesInv, PoliciesInStep
<1>5. policyQueue'.dirty = policyQueue.dirty \cup {q} /\ policyQueue'.waiting = policyQueue.waiting
  BY <1>1, <1>2, EnqueueContents
<1>6. ASSUME NEW n \in PolicyNames PROVE PolicyTracked(n)'
  <2>1. CASE n = q
    BY <1>5, <2>1 DEF PolicyTracked, PolicyPending
  <2>2. CASE n # q
    <3>1. policyCache'[n] = policyCache[n]
      BY <1>1, <1>3, <2>2
    <3>2. Announced(n) => Announced(n)'
      <4>1. \A i \in DOMAIN policyWatch : i # 1 =>
                i - 1 \in DOMAIN policyWatch' /\ policyWatch'[i - 1] = policyWatch[i]
        BY SMT, <1>1, <1>2
      <4>2. policyWatch[1].name # n
        BY SMT, <1>0, <1>1, <1>2, <2>2
      <4> QED  BY <4>1, <4>2 DEF Announced
    <3>3. PolicyPending(n) => PolicyPending(n)'
      BY <1>1, <1>5, <3>2 DEF PolicyPending
    <3>4. PolicyTracked(n)
      BY DEF PoliciesInv
    <3>5. /\ PolicyInHand(n)' <=> PolicyInHand(n)
          /\ PolicyCopyCurrent(n)' <=> PolicyCopyCurrent(n)
      BY <1>1, <3>1 DEF PolicyInHand, PolicyCopyCurrent
    <3>6. PolicySettled(n)' <=> PolicySettled(n)
      BY <1>1, <3>1 DEF PolicySettled
    <3> QED  BY <3>3, <3>4, <3>5, <3>6 DEF PolicyTracked
  <2> QED  BY <2>1, <2>2
<1> QED  BY <1>4, <1>6 DEF PoliciesInv

\* The informer that lists the policies anew asks for all of them.
LEMMA RelistTracked ==
    ASSUME TypeInv, PoliciesInv, RelistPolicies PROVE PoliciesInv'
<1> DEFINE S == {q \in PolicyNames : apiPolicies[q].exists \/ policyCache[q].exists}
<1>1. PICK names \in Orders(S) :
          policyWatch' = [i \in DOMAIN names |->
                             [name |-> names[i], obj |-> apiPolicies[names[i]]]]
  BY DEF RelistPolicies
<1>2. UNCHANGED <<apiPolicies, policyCache>>
  BY DEF RelistPolicies, policyCtlVars
<1>3. \A q \in PolicyNames : q \in S \/ Same(policyCache[q], apiPolicies[q])
  BY DEF Same
<1>4. \A q \in PolicyNames : q \in S \/ ~policyCache'[q].exists
  BY <1>2
<1> HIDE DEF S
<1>5. PoliciesInStep'
  BY <1>1, <1>2, <1>3, RelistedInStep DEF PoliciesInStep
<1>6. ASSUME NEW n \in S PROVE PolicyTracked(n)'
  <2>1. PICK i \in DOMAIN names : names[i] = n
    BY SMT, <1>6, OrdersAre
  <2>2. i \in DOMAIN policyWatch' /\ policyWatch'[i].name = n
    BY <1>1, <2>1
  <2> QED  BY <2>2 DEF PolicyTracked, PolicyPending, Announced
<1>7. ASSUME NEW n, ~policyCache'[n].exists PROVE PolicyTracked(n)'
  BY <1>7 DEF PolicyTracked, PolicyCopyCurrent, PolicySettled
<1> QED  BY <1>4, <1>5, <1>6, <1>7 DEF PoliciesInv

\* Every step of the policy side keeps track of the policies.
LEMMA PolicySideTracked ==
    ASSUME VersionInv, PoliciesInv, PolicySide PROVE PoliciesInv'
<1>1. /\ TypeInv /\ polRec \in PolRecs /\ policyQueue \in Queues(PolicyNames)
      /\ PoliciesInStep /\ \A n \in PolicyNames : PolicyTracked(n)
  BY DEF VersionInv, TypeInv, TypeOK, PolicyCtlTypeOK, PoliciesInv
<1>2. CASE DeliverPolicyEvent
  BY <1>1, <1>2, DeliverTracked
<1>3. CASE RelistPolicies
  BY <1>1, <1>3, RelistTracked
<1>4. ASSUME UNCHANGED <<apiPolicies, policyWatch, policyCache>>
      PROVE  /\ PoliciesInStep' /\ UNCHANGED <<policyWatch, policyCache>>
             /\ \A n : Announced(n) => Announced(n)'
  BY <1>1, <1>4 DEF PoliciesInStep, Announced
<1>5. CASE (\E q \in PolicyNames : PolicyBackoffExpires(q)) \/ PolicyTake
  <2>1. UNCHANGED <<apiPolicies, policyWatch, policyCache, policies>>
    BY <1>5 DEF PolicyBackoffExpires, PolicyTake, clusterVars
  <2>2. ASSUME NEW q \in PolicyNames, PolicyBackoffExpires(q), NEW n \in PolicyNames
        PROVE  PolicyTracked(n)'
    <3>1. policyQueue' = BackoffExpired(policyQueue, q) /\ UNCHANGED polRec
      BY <2>2 DEF PolicyBackoffExpires
    <3>2. /\ policyQueue'.dirty = policyQueue.dirty \cup {q}
          /\ policyQueue'.waiting = policyQueue.waiting \ {q}
      BY <1>1, <2>2, <3>1, BackoffContents DEF PolicyBackoffExpires
    <3>3. PolicyPending(n) => PolicyPending(n)'
      BY <2>1, <3>1, <3>2 DEF PolicyPending, Announced
    <3>4. /\ PolicyInHand(n)' <=> PolicyInHand(n)
          /\ PolicyCopyCurrent(n)' <=> PolicyCopyCurrent(n)
          /\ PolicySettled(n)' <=> PolicySettled(n)
      BY <2>1, <3>1 DEF PolicyInHand, PolicyCopyCurrent, PolicySettled
    <3> QED  BY <1>1, <3>3, <3>4 DEF PolicyTracked
  <2>3. ASSUME PolicyTake, NEW n \in PolicyNames PROVE PolicyTracked(n)'
    <3>1. /\ polRec.pc = "idle"
          /\ polRec'.pc = "get" /\ polRec'.req = Head(policyQueue.order)
          /\ policyQueue' = Dequeue(policyQueue)
      BY <2>3 DEF PolicyTake, IdlePolRec
    <3>2. /\ policyQueue'.dirty = policyQueue.dirty \ {Head(policyQueue.order)}
          /\ policyQueue'.waiting = policyQueue.waiting
      BY <1>1, <2>3, <3>1, DequeueContents DEF PolicyTake
    <3>3. PolicyPending(n) => PolicyPending(n)'
      BY <2>1, <3>1, <3>2 DEF PolicyPending, Announced
    <3>4. /\ ~PolicyInHand(n) /\ ~PolicyInHand(n)'
          /\ PolicySettled(n)' <=> PolicySettled(n)
      BY <2>1, <3>1 DEF PolicyInHand, PolicySettled, BusyPolicyPCs
    <3> QED  BY <1>1, <3>3, <3>4 DEF PolicyTracked
  <2> QED  BY <1>4, <1>5, <2>1, <2>2, <2>3 DEF PoliciesInv
<1>6. CASE PolicyGetFails \/ PolicyInvalid \/ PolicyWriteRejected
  <2>1. PolicyReturnsError /\ UNCHANGED <<apiPolicies, policyWatch, policyCache, policies>>
    BY <1>6 DEF PolicyGetFails, PolicyInvalid, PolicyWriteRejected, clusterVars, policyApiVars
  <2> QED  BY <1>1, <1>4, <2>1, ReturnTracked DEF PoliciesInv
<1>7. CASE PolicyIgnored
  <2>1. /\ PolicyReturns /\ UNCHANGED <<apiPolicies, policyWatch, policyCache, policies>>
        /\ Fetched.Deleting /\ ~Fetched.Finalizer
    BY <1>7 DEF PolicyIgnored, clusterVars
  <2>2. PolicySettled(polRec.req)
    BY <2>1 DEF PolicySettled, Fetched
  <2> QED  BY <1>1, <1>4, <2>1, <2>2, ReturnTracked DEF PoliciesInv
<1>8. CASE PolicyGone
  <2>1. /\ polRec.pc = "get" /\ ~Fetched.exists
        /\ policies' = Without(policies, {polRec.req})
        /\ PolicyReturns \/ UNCHANGED policyQueue
        /\ UNCHANGED <<apiPolicies, policyWatch, policyCache>>
    BY <1>8 DEF PolicyGone, DeletePolicy, clusterVars
  <2>2. polRec'.req = polRec.req \/ polRec'.pc = "idle"
    BY SMT, <1>1, <1>8, PolicyGonePC DEF IdlePolRec
  <2>3. \A n : n \in policyQueue.dirty \cup policyQueue.waiting =>
               n \in policyQueue'.dirty \cup policyQueue'.waiting
    BY <1>1, <2>1, ReturnKeepsRequests
  <2>4. \A n : n # polRec.req /\ n \in DOMAIN policies =>
               n \in DOMAIN policies' /\ policies'[n] = policies[n]
    BY <2>1 DEF Without
  <2>5. ASSUME NEW n \in PolicyNames, n # polRec.req PROVE PolicyTracked(n)'
    <3>1. PolicyTracked(n) /\ (Announced(n) => Announced(n)')
      BY <1>1, <1>4, <2>1
    <3> QED  BY <2>1, <2>2, <2>3, <2>4, <2>5, <3>1, OthersTracked
  <2>6. ASSUME NEW n \in PolicyNames, n = polRec.req PROVE PolicyTracked(n)'
    <3>1. ~policyCache'[n].exists
      BY <2>1, <2>6 DEF Fetched
    <3> QED  BY <3>1 DEF PolicyTracked, PolicyCopyCurrent, PolicySettled
  <2> QED  BY <1>4, <2>1, <2>5, <2>6 DEF PoliciesInv
<1>9. CASE PolicyFinalize
  <2>1. /\ polRec.pc = "get"
        /\ policies' = Without(policies, {polRec.req})
        /\ UNCHANGED <<apiPolicies, policyWatch, policyCache, policyQueue>>
    BY <1>9 DEF PolicyFinalize, DeletePolicy, clusterVars
  <2>2. /\ polRec'.pc \in {"removeFinalizer", "recalculateDeleted"}
        /\ polRec'.req = polRec.req /\ polRec'.obj = Fetched
    BY SMT, <1>1, <1>9, PolicyFinalizePC
  <2>3. polRec'.pc \in BusyPolicyPCs \ {"get", "recalculateGone"}
    BY <2>2 DEF BusyPolicyPCs
  <2>4. \A n : n # polRec.req /\ n \in DOMAIN policies =>
               n \in DOMAIN policies' /\ policies'[n] = policies[n]
    BY <2>1 DEF Without
  <2> QED  BY <1>1, <1>4, <2>1, <2>2, <2>3, <2>4, GetTracked DEF PoliciesInv
<1>10. CASE PolicyNeedsFinalizer
  <2>1. /\ polRec.pc = "get"
        /\ polRec' = [polRec EXCEPT !.obj = Fetched, !.pc = "addFinalizer"]
        /\ UNCHANGED <<apiPolicies, policyWatch, policyCache, policyQueue, policies>>
    BY <1>10 DEF PolicyNeedsFinalizer, clusterVars
  <2>2. polRec'.pc = "addFinalizer" /\ polRec'.req = polRec.req /\ polRec'.obj = Fetched
    BY <1>1, <2>1, PolRecParts
  <2>3. polRec'.pc \in BusyPolicyPCs \ {"get", "recalculateGone"}
    BY <2>2 DEF BusyPolicyPCs
  <2> QED  BY <1>1, <1>4, <2>1, <2>2, <2>3, GetTracked DEF PoliciesInv
<1>11. CASE PolicyUpsert
  <2>1. /\ polRec.pc = "get"
        /\ policies' = Put(policies, polRec.req, Fetched.Spec)
        /\ UNCHANGED <<apiPolicies, policyWatch, policyCache, policyQueue>>
    BY <1>11 DEF PolicyUpsert, UpsertPolicy, clusterVars
  <2>2. /\ polRec'.pc \in {"collect", "recalculate"}
        /\ polRec'.req = polRec.req /\ polRec'.obj = Fetched
    BY <1>1, <1>11, PolRecParts DEF PolicyUpsert
  <2>3. polRec'.pc \in BusyPolicyPCs \ {"get", "recalculateGone"}
    BY <2>2 DEF BusyPolicyPCs
  <2>4. \A n : n # polRec.req /\ n \in DOMAIN policies =>
               n \in DOMAIN policies' /\ policies'[n] = policies[n]
    BY <2>1 DEF Put
  <2> QED  BY <1>1, <1>4, <2>1, <2>2, <2>3, <2>4, GetTracked DEF PoliciesInv
<1>12. CASE PolicyRecalculate \/ PolicyCollectsOld \/ PolicyRecalculatesChange
  <2>1. UNCHANGED <<apiPolicies, policyWatch, policyCache, policies>>
    BY <1>12 DEF PolicyRecalculate, PolicyCollectsOld, PolicyRecalculatesChange, clusterVars
  <2>2. \/ /\ PolicyReturns
           /\ \/ polRec.pc = "recalculateGone"
              \/ /\ polRec.pc \in {"recalculate", "recalculateChange"}
                 /\ polRec.obj.ObservedGeneration = polRec.obj.Generation
        \/ /\ UNCHANGED policyQueue /\ polRec.pc = "recalculateDeleted"
           /\ polRec' = [polRec EXCEPT !.pc = "removeFinalizer"]
        \/ /\ UNCHANGED policyQueue /\ polRec.pc \in {"recalculate", "recalculateChange"}
           /\ polRec' = [polRec EXCEPT !.pc = "updateStatus"]
        \/ /\ UNCHANGED policyQueue /\ polRec.pc = "collect"
           /\ polRec' = [polRec EXCEPT !.pc = "recalculateChange"]
    BY <1>12 DEF PolicyRecalculate, PolicyCollectsOld, PolicyRecalculatesChange,
                 PolicyRecalculated
  <2>3. {"recalculateDeleted", "removeFinalizer", "recalculate", "recalculateChange",
         "updateStatus", "collect"} \subseteq BusyPolicyPCs \ {"get", "recalculateGone"}
    BY DEF BusyPolicyPCs
  <2>4. ASSUME NEW n \in PolicyNames PROVE PolicyTracked(n)'
    BY <1>1, <2>1, <2>2, <2>3, MoveTracked, RecalculatedTracked
  <2> QED  BY <1>4, <2>1, <2>4 DEF PoliciesInv
<1>13. CASE PolicyWrites \/ PolicyWriteFails
  <2>1. /\ Writing /\ UNCHANGED <<policyCache, policies>>
        /\ \/ StorePolicy(polRec.req, Desired) /\ (PolicyReturns \/ PolicyReturnsError)
           \/ UNCHANGED <<apiPolicies, policyWatch>> /\ PolicyReturnsError
    BY <1>13 DEF PolicyWrites, PolicyWriteFails, policyApiVars
  <2>2. polRec.req \in PolicyNames
    BY <1>1, <2>1, PolRecParts DEF Writing
  <2>3. CASE StorePolicy(polRec.req, Desired)
    <3>1. PICK q, obj : q \in PolicyNames /\ q = polRec.req /\ StorePolicy(q, obj)
      BY <2>2, <2>3
    <3>2. PoliciesInStep' /\ Announced(q)' /\ \A n : Announced(n) => Announced(n)'
      BY <1>1, <2>1, <3>1, StoreAnnounced
    <3>3. PolicyReturns \/ PolicyReturnsError
      BY <2>1
    <3>4. ASSUME NEW n \in PolicyNames PROVE PolicyTracked(n)'
      BY <1>1, <2>1, <3>1, <3>2, <3>3, ReturnTracked
    <3> QED  BY <3>2, <3>4 DEF PoliciesInv
  <2>4. CASE UNCHANGED <<apiPolicies, policyWatch>> /\ PolicyReturnsError
    BY <1>1, <1>4, <2>1, <2>4, ReturnTracked DEF PoliciesInv
  <2> QED  BY <2>1, <2>3, <2>4
<1> QED
  BY <1>2, <1>3, <1>5, <1>6, <1>7, <1>8, <1>9, <1>10, <1>11, <1>12, <1>13
  DEF PolicySide, PolicyWorker

\* What users do to policies is announced.
LEMMA PoliciesChangeTracked ==
    ASSUME TypeInv, PoliciesInv, PoliciesChange, UNCHANGED <<policyCtlVars, policies>>
    PROVE  PoliciesInv'
<1>1. PICK q, obj : q \in PolicyNames /\ StorePolicy(q, obj)
  BY DEF PoliciesChange, CreatePolicy, EditPolicy, RequestPolicyDeletion, ReleasePolicy,
         UserWritesPolicy
<1>2. UNCHANGED <<policyCache, policyQueue, polRec, policies>>
  BY DEF policyCtlVars
<1>3. PoliciesInStep' /\ \A n : Announced(n) => Announced(n)'
  BY <1>1, <1>2, StoreAnnounced DEF PoliciesInv
<1>4. ASSUME NEW n \in PolicyNames PROVE PolicyTracked(n)'
  <2>1. PolicyTracked(n)
    BY DEF PoliciesInv
  <2>2. PolicyPending(n) => PolicyPending(n)'
    BY <1>2, <1>3 DEF PolicyPending
  <2>3. /\ PolicyInHand(n)' <=> PolicyInHand(n)
        /\ PolicyCopyCurrent(n)' <=> PolicyCopyCurrent(n)
        /\ PolicySettled(n)' <=> PolicySettled(n)
    BY <1>2 DEF PolicyInHand, PolicyCopyCurrent, PolicySettled
  <2> QED  BY <2>1, <2>2, <2>3 DEF PolicyTracked
<1> QED  BY <1>3, <1>4 DEF PoliciesInv

\* The informers start in step, and with every policy queued.
LEMMA InStepInit == Init => PodsInv /\ PoliciesInv
<1> SUFFICES ASSUME Init PROVE PodsInv /\ PoliciesInv
  OBVIOUS
<1>1. /\ podWatch = <<>> /\ podCache = apiPods
      /\ policyWatch = <<>> /\ policyCache = apiPolicies
      /\ policyQueue \in PolicyRequests /\ polRec = IdlePolRec
  BY DEF Init
<1>2. PodsInStep /\ PoliciesInStep
  BY SMT, <1>1 DEF PodsInStep, PoliciesInStep, InStep, Same
<1>3. ASSUME NEW p \in PodNames PROVE RunningHasIP(apiPods[p])
  <2>1. apiPods[p] \in StartingPods(p)
    BY DEF Init, ClusterInit
  <2>2. NoIP \notin IPsOf[p]
    BY SMT, ObjectsAssumption DEF IPs
  <2>3. CASE apiPods[p] = NoPod
    BY SMT, <2>3 DEF RunningHasIP, NoPod
  <2>4. CASE apiPods[p] \in [exists : {TRUE}, IP : IPsOf[p], Phase : {"Running"},
                             Labels : Labelings]
    BY <2>2, <2>4 DEF RunningHasIP
  <2> QED  BY <2>1, <2>3, <2>4 DEF StartingPods
<1>4. ASSUME NEW q \in PolicyNames PROVE PolicyTracked(q)
  <2>1. CASE apiPolicies[q].exists
    BY <1>1, <2>1, PoliciesQueued DEF PolicyTracked, PolicyPending
  <2>2. CASE ~apiPolicies[q].exists
    BY <1>1, <2>2 DEF PolicyTracked, PolicyCopyCurrent, PolicySettled
  <2> QED  BY <2>1, <2>2
<1> QED  BY <1>2, <1>3, <1>4 DEF PodsInv, PoliciesInv

\* So they are after a restart.
LEMMA InStepRestart == ASSUME PodsInv, Restart PROVE PodsInv' /\ PoliciesInv'
<1>1. /\ podWatch' = <<>> /\ podCache' = apiPods
      /\ policyWatch' = <<>> /\ policyCache' = apiPolicies
      /\ policyQueue' \in PolicyRequests /\ polRec' = IdlePolRec
      /\ UNCHANGED <<apiPods, apiPolicies>>
  BY DEF Restart
<1>2. PodsInStep' /\ PoliciesInStep'
  BY SMT, <1>1 DEF PodsInStep, PoliciesInStep, InStep, Same
<1>3. \A p \in PodNames : RunningHasIP(apiPods'[p])
  <2>1. \A p \in PodNames : RunningHasIP(apiPods[p])
    BY DEF PodsInv
  <2>2. \A p \in PodNames : apiPods'[p] = apiPods[p]
    BY <1>1
  <2> QED  BY <2>1, <2>2 DEF RunningHasIP
<1>4. ASSUME NEW q \in PolicyNames PROVE PolicyTracked(q)'
  <2>1. CASE apiPolicies[q].exists
    <3>1. q \in policyQueue'.dirty
      BY <1>1, <2>1, PoliciesQueued
    <3> QED  BY <3>1 DEF PolicyTracked, PolicyPending
  <2>2. CASE ~apiPolicies[q].exists
    BY <1>1, <2>2 DEF PolicyTracked, PolicyCopyCurrent, PolicySettled
  <2> QED  BY <2>1, <2>2
<1> QED  BY <1>2, <1>3, <1>4 DEF PodsInv, PoliciesInv

\* Steps of one kind of object leave the other kind in step.
LEMMA OtherInStep ==
    /\ UNCHANGED <<apiPods, podWatch, podCache>> /\ PodsInv => PodsInv'
    /\ UNCHANGED <<policyWatch, policyCache, apiPolicies, policyQueue, polRec, policies>>
           /\ PoliciesInv => PoliciesInv'
<1>1. ASSUME UNCHANGED <<apiPods, podWatch, podCache>>, PodsInv PROVE PodsInv'
  BY <1>1 DEF PodsInv, PodsInStep
<1>2. ASSUME UNCHANGED <<policyWatch, policyCache, apiPolicies, policyQueue, polRec, policies>>,
             PoliciesInv
      PROVE  PoliciesInv'
  <2>1. PoliciesInStep'
    BY <1>2 DEF PoliciesInv, PoliciesInStep
  <2>2. \A q \in PolicyNames : PolicyTracked(q)'
    BY <1>2 DEF PoliciesInv, PolicyTracked, PolicyPending, PolicyInHand, PolicyCopyCurrent,
                PolicySettled, Announced
  <2> QED  BY <2>1, <2>2 DEF PoliciesInv
<1> QED  BY <1>1, <1>2

\* Every step keeps the informers in step and track of the policies.
LEMMA InStepNext ==
    VersionInv /\ PodsInv /\ PoliciesInv /\ [Next]_vars => PodsInv' /\ PoliciesInv'
<1> SUFFICES ASSUME VersionInv, PodsInv, PoliciesInv, [Next]_vars
             PROVE  PodsInv' /\ PoliciesInv'
  OBVIOUS
<1>1. TypeInv
  BY DEF VersionInv
<1>2. CASE PodsChange /\ UNCHANGED <<podCtlVars, policyCtlVars, policies>>
  <2>1. UNCHANGED <<podCache, policyCache, policyQueue, polRec, policies, apiPolicies, policyWatch>>
    BY <1>2, PodsLeavePolicies DEF podCtlVars, policyCtlVars
  <2> QED  BY <1>1, <1>2, <2>1, OtherInStep, PodsChangeInStep
<1>3. CASE PoliciesChange /\ UNCHANGED <<podCtlVars, policyCtlVars, policies>>
  <2>1. UNCHANGED <<apiPods, podWatch, podCache>>
    BY <1>3 DEF PoliciesChange, CreatePolicy, EditPolicy, RequestPolicyDeletion,
                ReleasePolicy, UserWritesPolicy, podApiVars, podCtlVars
  <2> QED  BY <1>1, <1>3, <2>1, OtherInStep, PoliciesChangeTracked
<1>4. CASE PodSide /\ UNCHANGED policyCtlVars
  <2>1. UNCHANGED <<policyCache, policyQueue, polRec, policies, apiPolicies, policyWatch>>
    BY <1>4, PodsLeavePolicies, PodSideFrame DEF policyCtlVars
  <2> QED  BY <1>1, <1>4, <2>1, OtherInStep, PodSideInStep
<1>5. CASE PolicySide /\ UNCHANGED podCtlVars
  <2>1. UNCHANGED <<apiPods, podWatch, podCache>>
    BY <1>5
    DEF PolicySide, PolicyWorker, DeliverPolicyEvent, RelistPolicies, PolicyBackoffExpires,
        PolicyTake, PolicyGetFails, PolicyGone, PolicyFinalize, PolicyIgnored,
        PolicyNeedsFinalizer, PolicyInvalid, PolicyUpsert, PolicyRecalculate,
        PolicyCollectsOld, PolicyRecalculatesChange, PolicyWrites, PolicyWriteRejected,
        PolicyWriteFails, clusterVars, podApiVars, podCtlVars
  <2> QED  BY <1>5, <2>1, OtherInStep, PolicySideTracked
<1>6. CASE Restart
  BY <1>6, InStepRestart
<1>7. CASE UNCHANGED vars
  <2>1. UNCHANGED <<apiPods, podWatch, podCache, policyWatch, policyCache, apiPolicies,
                    policyQueue, polRec, policies>>
    BY <1>7 DEF vars, clusterVars, podApiVars, policyApiVars, podCtlVars, policyCtlVars
  <2> QED  BY <2>1, OtherInStep
<1> QED  BY <1>2, <1>3, <1>4, <1>5, <1>6, <1>7 DEF Next

-----------------------------------------------------------------------------
(* At rest.                                                                *)

\* At rest the informers know what the API server knows.
LEMMA QuietSame ==
    ASSUME PodsInv, PoliciesInv, Quiet
    PROVE  /\ \A p \in PodNames : Same(podCache[p], apiPods[p])
           /\ \A q \in PolicyNames : Same(policyCache[q], apiPolicies[q])
<1>1. podWatch = <<>> /\ policyWatch = <<>>
  BY DEF Quiet
<1>2. DOMAIN podWatch = {} /\ DOMAIN policyWatch = {}
  BY SMT, <1>1
<1> QED  BY <1>2 DEF PodsInv, PoliciesInv, PodsInStep, PoliciesInStep, InStep

\* At rest every policy is settled.
LEMMA QuietSettled ==
    ASSUME PoliciesInv, Quiet, NEW q \in PolicyNames PROVE PolicySettled(q)
<1>1. /\ DOMAIN policyWatch = {} /\ polRec.pc = "idle"
      /\ policyQueue.dirty = {} /\ policyQueue.waiting = {}
  BY SMT DEF Quiet, EmptyQueue
<1>2. ~PolicyPending(q) /\ ~PolicyInHand(q)
  BY <1>1 DEF PolicyPending, Announced, PolicyInHand, BusyPolicyPCs
<1> QED  BY <1>2 DEF PoliciesInv, PolicyTracked

\* At rest the indexes are what the API server says.
LEMMA QuietIndexes ==
    ASSUME VersionInv, PodsInv, PoliciesInv, PodsTracked, Quiet
    PROVE  /\ IndexesCaughtUp
           /\ DOMAIN policies =
                  {q \in PolicyNames : apiPolicies[q].exists /\ ~apiPolicies[q].Deleting}
           /\ \A q \in DOMAIN policies : policies[q] = apiPolicies[q].Spec
<1>1. DOMAIN policies \subseteq PolicyNames
  BY DEF VersionInv, TypeInv, TypeOK, PolicyIndexTypeOK
<1>2. ASSUME NEW p \in PodNames
      PROVE  /\ apiPods[p].Phase = "Running" =>
                    /\ p \in DOMAIN pods
                    /\ pods[p] = [IP |-> apiPods[p].IP, Labels |-> apiPods[p].Labels]
             /\ ~apiPods[p].exists => p \notin DOMAIN pods
  <2>1. podRec.pc = "idle" /\ podQueue.dirty = {} /\ podQueue.waiting = {}
    BY DEF Quiet, EmptyQueue
  <2>2. /\ podCache[p].Phase = "Running" /\ podCache[p].IP # NoIP =>
               /\ p \in DOMAIN pods
               /\ pods[p] = [IP |-> podCache[p].IP, Labels |-> podCache[p].Labels]
        /\ ~podCache[p].exists => p \notin DOMAIN pods
    BY <2>1 DEF PodsTracked
  <2>3. RunningHasIP(apiPods[p]) /\ Same(podCache[p], apiPods[p])
    BY QuietSame DEF PodsInv
  <2>4. apiPods[p].Phase = "Running" => apiPods[p].exists
    <3>1. apiPods[p] = NoPod \/ apiPods[p] \in ExistingPod(p)
      BY DEF VersionInv, TypeInv, TypeOK, ClusterTypeOK, Pod
    <3>2. NoPod.Phase # "Running"
      BY DEF NoPod
    <3>3. apiPods[p] \in ExistingPod(p) => apiPods[p].exists
      BY DEF ExistingPod
    <3> QED  BY <3>1, <3>2, <3>3
  <2> QED  BY <2>2, <2>3, <2>4 DEF RunningHasIP, Same
<1>3. ASSUME NEW q \in PolicyNames
      PROVE  /\ q \in DOMAIN policies <=> apiPolicies[q].exists /\ ~apiPolicies[q].Deleting
             /\ apiPolicies[q].exists /\ apiPolicies[q].Deleting => ~apiPolicies[q].Finalizer
             /\ apiPolicies[q].exists /\ ~apiPolicies[q].Deleting =>
                    /\ policies[q] = apiPolicies[q].Spec
                    /\ apiPolicies[q].ObservedGeneration = apiPolicies[q].Generation
  <2>1. PolicySettled(q) /\ Same(policyCache[q], apiPolicies[q])
    BY QuietSame, QuietSettled
  <2>2. q \in DOMAIN policies => apiPolicies[q].exists /\ apiPolicies[q].Finalizer
    BY DEF VersionInv, IndexedPoliciesExist
  <2> QED  BY <2>1, <2>2 DEF PolicySettled, Same
<1>4. IndexesCaughtUp
  BY <1>2, <1>3 DEF IndexesCaughtUp
<1> QED  BY <1>1, <1>3, <1>4

\* A controller with empty watches and work queues and idle workers has caught
\* up: every running pod and every policy is indexed as the API server has it,
\* and no policy waits for its finalizer or its status, whatever lost watches,
\* failed calls, rejected writes and restarts came before.
THEOREM RestingIndexes == Spec => [](Quiet => IndexesCaughtUp)
<1>1. VersionInv /\ PodsInv /\ PoliciesInv /\ PodsTracked => (Quiet => IndexesCaughtUp)
  BY QuietIndexes
<1> QED
  BY <1>1, VersionInit, VersionNext, InStepInit, InStepNext, PodsAlwaysTracked, PTL DEF Spec
=============================================================================
