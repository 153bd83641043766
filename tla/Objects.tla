------------------------------- MODULE Objects -------------------------------
(***************************************************************************)
(* The API objects the controller reads and writes: DnsPolicy              *)
(* (controller/api/v1alpha1/dnspolicy_types.go) and the part of a Pod its  *)
(* pod reconciler looks at.  An object that does not exist is a record     *)
(* whose exists field is FALSE.                                            *)
(***************************************************************************)
EXTENDS GoMaps, Naturals

CONSTANTS
    PodNames,       \* namespaced names of pods
    PolicyNames,    \* namespaced names of DnsPolicy objects
    Keys, Values,   \* label keys and label values
    Domains,        \* domain names a policy can block
    Labelings,      \* label maps the pods of this cluster can carry
    IPsOf,          \* pod name -> the IPs that pod can be given
    SpecsOf,        \* policy name -> the specs users can give that policy
    DeletablePolicies,  \* policies that users may delete
    NoIP,           \* status.podIP = ""
    NoName          \* no request

\* Label maps and selectors.
LabelMaps == UNION {[D -> Values] : D \in SUBSET Keys}

IPs == UNION {IPsOf[p] : p \in PodNames}

\* DnsPolicySpec: the fields some code of the controller reads.
DnsPolicySpec == [TargetSelector : LabelMaps, BlockList : SUBSET Domains]

NoSpec == [TargetSelector |-> EmptyMap, BlockList |-> {}]

\* The keys are finitely many, said in the form that comparing label maps by
\* their lengths relies on; FiniteIsCounted, in PolicyCopiesProofs, proves that
\* every finite set of keys satisfies it.
ASSUME ObjectsAssumption ==
    /\ \A D, E \in SUBSET Keys :
           D \subseteq E /\ Cardinality(D) = Cardinality(E) => D = E
    /\ Labelings \subseteq LabelMaps
    /\ NoIP \notin IPs
    /\ \A q \in PolicyNames : SpecsOf[q] \subseteq DnsPolicySpec
    /\ DeletablePolicies \subseteq PolicyNames

Phases == {"Pending", "Running", "Succeeded", "Failed"}

NoPod == [exists |-> FALSE, IP |-> NoIP, Phase |-> "None", Labels |-> EmptyMap]

ExistingPod(p) ==
    [exists : {TRUE}, IP : IPsOf[p] \cup {NoIP}, Phase : Phases,
     Labels : LabelMaps]

Pod(p) == {NoPod} \cup ExistingPod(p)

\* DnsPolicy with its metadata and status.  Held stands for a finalizer of
\* someone else (foreground deletion); Ready and ReadyGeneration are the status
\* and the observedGeneration of the Ready condition.
DnsPolicy(q) ==
    {obj \in [exists : BOOLEAN, Spec : SpecsOf[q] \cup {NoSpec},
              Generation : Nat, ResourceVersion : Nat, Finalizer : BOOLEAN,
              Held : BOOLEAN, Deleting : BOOLEAN, ObservedGeneration : Nat,
              Ready : {"Unknown", "True", "False"}, ReadyGeneration : Nat] :
        /\ obj.exists => obj.Spec \in SpecsOf[q]
        /\ obj.Deleting => q \in DeletablePolicies}

\* No policy of that name, last written at resource version rv.
NoPolicy(rv) ==
    [exists |-> FALSE, Spec |-> NoSpec, Generation |-> 0,
     ResourceVersion |-> rv, Finalizer |-> FALSE, Held |-> FALSE,
     Deleting |-> FALSE, ObservedGeneration |-> 0, Ready |-> "Unknown",
     ReadyGeneration |-> 0]

-----------------------------------------------------------------------------
(* Assumptions some theorems and some runs make about a cluster.           *)

\* No IP is ever given to two pods, not even one after the other.
DisjointIPs ==
    \A m, n \in PodNames : m # n => IPsOf[m] \cap IPsOf[n] = {}

\* The selector of a policy that may be deleted is never edited.
FixedSelectors ==
    \A q \in DeletablePolicies : \A s, t \in SpecsOf[q] :
        s.TargetSelector = t.TargetSelector
=============================================================================
