--------------------------- MODULE CacheOperations ---------------------------
(***************************************************************************)
(* What the two indexes and the blocklist cache promise the goroutines     *)
(* that share them: every method takes effect in one atomic step (two for  *)
(* RecalculateForPolicyChange).                                            *)
(***************************************************************************)
EXTENDS BlocklistCache

CacheInit == NewPodIndex /\ NewPolicyIndex /\ NewBlocklistCache

Selectors(q) == {spec.TargetSelector : spec \in SpecsOf[q]}

IndexStep ==
    /\ \/ PodIndexNext /\ UNCHANGED policies
       \/ \E q \in PolicyNames :
             /\ DeletePolicy(q) \/ \E spec \in SpecsOf[q] : UpsertPolicy(q, spec)
             /\ UNCHANGED podIndexVars
    /\ UNCHANGED cacheVars

CacheStep ==
    /\ \/ \E n \in PodNames : RecalculatePod(n)
       \/ \E ip \in IPs : RemovePod(ip)
       \/ RecalculateAll
       \/ \E q \in PolicyNames : \E selector \in Selectors(q) :
             \/ RecalculateForPolicy(selector)
             \/ CollectOldSelector(selector)
             \/ mu /\ RecalculateForPolicyChange(selector)
    /\ UNCHANGED <<podIndexVars, policies>>

CacheNext == IndexStep \/ CacheStep

CacheSpec == CacheInit /\ [][CacheNext]_<<podIndexVars, policies, cacheVars>>
=============================================================================
