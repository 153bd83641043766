----------------------------- MODULE PolicyIndex -----------------------------
(***************************************************************************)
(* controller/internal/controller/policy_index.go: the in-memory index of  *)
(* DnsPolicy objects.  Every method holds the index's mutex throughout.    *)
(* Of a policy the index's readers use only the selector and the block     *)
(* list; the rest of DnsPolicySpec is stored and never read.               *)
(***************************************************************************)
EXTENDS Objects

VARIABLE policies   \* policy name -> spec

NewPolicyIndex == policies = EmptyMap

\* The selector Upsert and Delete return: that of the copy stored before, nil
\* (here the empty map) when the policy was not indexed.
OldSelector(q) ==
    IF q \in DOMAIN policies THEN policies[q].TargetSelector ELSE EmptyMap

UpsertPolicy(q, spec) == policies' = Put(policies, q, spec)

DeletePolicy(q) == policies' = Without(policies, {q})

PolicyIndexTypeOK ==
    /\ policies = [q \in DOMAIN policies |-> policies[q]]
    /\ DOMAIN policies \subseteq PolicyNames
    /\ \A q \in DOMAIN policies : policies[q] \in SpecsOf[q]
=============================================================================
