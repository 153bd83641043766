---------------------------- MODULE PolicyCopies ----------------------------
(***************************************************************************)
(* The copies of one DnsPolicy spec in the process, and the hashes of      *)
(* controller/internal/controller/hash.go over them.  ComputeSpecHash      *)
(* sorts the block list it is given in place, so it matters which copies   *)
(* share an array: DeepCopyInto (zz_generated.deepcopy.go) must give each  *)
(* its own.  Nothing calls the hashes yet; here any holder of a copy may.  *)
(***************************************************************************)
EXTENDS GoMaps, Functions, Naturals, Sequences

CONSTANTS
    Specs,      \* specs users write, block lists of numbered domains
    Nil,        \* a nil map or slice
    NoHash      \* the hash of no selector

\* The informer's object, the copy r.Get returns to the reconciler, the copy
\* in the policy index and one that its Get or GetAll returned.
Holders == {"informer", "reconciler", "index", "caller"}

VARIABLES
    spec,   \* holder -> its spec; BlockList names the array behind the slice
    array,  \* the arrays
    given   \* holder -> the spec as the holder was given it

copyVars == <<spec, array, given>>

\* A selector is nil or a map of finitely many labels, and no map is the hash
\* of no selector; a block list is nil or a list of domains.
ASSUME SpecsAssumption ==
    /\ Nil \notin Holders /\ Nil \notin Seq(Nat)
    /\ \A s \in Specs :
          /\ s = [TargetSelector |-> s.TargetSelector, BlockList |-> s.BlockList]
          /\ \/ s.TargetSelector = Nil
             \/ /\ IsFiniteSet(DOMAIN s.TargetSelector)
                /\ s.TargetSelector = [k \in DOMAIN s.TargetSelector |-> s.TargetSelector[k]]
                /\ s.TargetSelector # NoHash
          /\ s.BlockList = Nil \/ s.BlockList \in Seq(Nat)

\* The spec of a holder with its list spelled out.
ValueOf(h) ==
    IF spec[h].BlockList = Nil THEN spec[h]
    ELSE [spec[h] EXCEPT !.BlockList = array[spec[h].BlockList]]

-----------------------------------------------------------------------------
(* hash.go.  A hash is the value that is marshalled: SHA-256 is taken to   *)
(* be injective.  Marshalling sorts map keys and keeps nil and empty apart.*)

\* A selector hash that tells a nil selector from an empty one.
ComputeSelectorHashOfNil(selector) == selector

ComputeSelectorHash(selector) ==
    IF selector = Nil \/ selector = EmptyMap THEN NoHash ELSE selector

\* sort.Strings: the elements of a list rearranged in ascending order.
Rearranged(list) ==
    {[i \in DOMAIN list |-> list[p[i]]] : p \in Bijection(DOMAIN list, DOMAIN list)}

Ascending(list) == \A i, j \in DOMAIN list : i < j => list[i] <= list[j]

Sorted(list) ==
    IF list = Nil THEN Nil ELSE CHOOSE t \in Rearranged(list) : Ascending(t)

\* A hash of the block list in the order it has.
ComputeSpecHashUnsorted(value) ==
    [TargetSelector |-> value.TargetSelector, BlockList |-> value.BlockList]

ComputeSpecHash(value) ==
    [TargetSelector |-> value.TargetSelector, BlockList |-> Sorted(value.BlockList)]

\* What a call leaves behind: the caller's array is sorted.
HashSpec(h) ==
    /\ spec[h].BlockList # Nil
    /\ array' = [array EXCEPT ![spec[h].BlockList] = Sorted(@)]
    /\ UNCHANGED <<spec, given>>

-----------------------------------------------------------------------------
(* Copies.  The array a holder allocates has the holder's name.            *)

Holds(h, value) ==
    /\ spec' = [spec EXCEPT ![h] =
           [value EXCEPT !.BlockList = IF @ = Nil THEN Nil ELSE h]]
    /\ array' = [array EXCEPT ![h] =
           IF value.BlockList = Nil THEN <<>> ELSE value.BlockList]
    /\ given' = [given EXCEPT ![h] = value]

\* *out = *in without what follows it.
ShallowCopyInto(from, to) ==
    /\ spec' = [spec EXCEPT ![to] = spec[from]]
    /\ given' = [given EXCEPT ![to] = ValueOf(from)]
    /\ UNCHANGED array

DeepCopyInto(from, to) == Holds(to, ValueOf(from))

CopiesInit ==
    \E value \in Specs :
        /\ spec = [h \in Holders |->
               [value EXCEPT !.BlockList = IF @ = Nil THEN Nil ELSE h]]
        /\ array = [h \in Holders |->
               IF value.BlockList = Nil THEN <<>> ELSE value.BlockList]
        /\ given = [h \in Holders |-> value]

CopiesNext ==
    \/ \E value \in Specs : Holds("informer", value)    \* decoded from the watch
    \/ DeepCopyInto("informer", "reconciler")           \* r.Get
    \/ DeepCopyInto("reconciler", "index")              \* PolicyIndex.Upsert
    \/ DeepCopyInto("index", "caller")                  \* PolicyIndex.Get, GetAll
    \/ HashSpec("reconciler")
    \/ HashSpec("caller")

CopiesSpec == CopiesInit /\ [][CopiesNext]_copyVars

-----------------------------------------------------------------------------
(* Properties.                                                             *)

\* Hashing a copy never reorders the informer's object or the index, which
\* other goroutines read without a lock on their contents.
SharedCopiesIntact ==
    \A h \in {"informer", "index"} : ValueOf(h) = given[h]

SameDomains(s, t) ==
    IF Nil \in {s, t} THEN s = t
    ELSE \A d \in {s[i] : i \in DOMAIN s} \cup {t[i] : i \in DOMAIN t} :
            Cardinality({i \in DOMAIN s : s[i] = d}) =
            Cardinality({i \in DOMAIN t : t[i] = d})

\* The hash tells copies apart exactly by selector and blocked domains: the
\* order in which the domains are listed does not count, and hashing a copy,
\* which reorders it, does not change its hash.
HashIgnoresOrder ==
    \A h, k \in Holders :
        ComputeSpecHash(ValueOf(h)) = ComputeSpecHash(ValueOf(k)) <=>
            /\ spec[h].TargetSelector = spec[k].TargetSelector
            /\ SameDomains(ValueOf(h).BlockList, ValueOf(k).BlockList)

AsMap(selector) == IF selector = Nil THEN EmptyMap ELSE selector

\* The selector hash agrees with selectorsEqual, by which the policy reconciler
\* decides whether a selector has changed.
SelectorHashAgrees ==
    \A h, k \in Holders :
        LET a == spec[h].TargetSelector
            b == spec[k].TargetSelector
        IN  ComputeSelectorHash(a) = ComputeSelectorHash(b) <=>
                selectorsEqual(AsMap(a), AsMap(b))
=============================================================================
