--------------------------- MODULE MCPolicyCopies ---------------------------
(***************************************************************************)
(* Instances of PolicyCopies for TLC: two domains, repeated or not, in     *)
(* either order, and nil and empty selectors and lists.                    *)
(***************************************************************************)
EXTENDS PolicyCopies

Selectors == {Nil, EmptyMap, [k \in {"app"} |-> "a"], [k \in {"app"} |-> "b"]}
Lists == {Nil, <<>>, <<2>>, <<1, 2>>, <<2, 1>>, <<2, 2, 1>>}

HashedSpecs ==
    [TargetSelector : {[k \in {"app"} |-> "a"]}, BlockList : Lists]
    \cup [TargetSelector : Selectors, BlockList : {<<2, 1>>}]
=============================================================================
