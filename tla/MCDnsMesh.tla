------------------------------ MODULE MCDnsMesh ------------------------------
(***************************************************************************)
(* Instances of DnsMesh for TLC.  Labels are app=a and app=b; a policy     *)
(* selects one of them (or nothing) and blocks one or two domains.         *)
(***************************************************************************)
EXTENDS DnsMesh, TLC

CONSTANTS p1, p2, q1, q2, ip1, ip2, ip3, d1, d2

App(v) == [k \in {"app"} |-> v]

MCKeys == {"app"}
MCValues == {"a", "b"}
BothLabelings == {App("a"), App("b")}
OneLabeling == {App("a")}

BlockSpec(v, blocked) == [TargetSelector |-> App(v), BlockList |-> blocked]
EmptySelectorSpec == [TargetSelector |-> EmptyMap, BlockList |-> {d1}]

\* One pod, on one IP or moving between two.
OneIPEach == [p \in PodNames |-> IF p = p1 THEN {ip1} ELSE {ip2}]
TwoIPsFirst == [p \in PodNames |-> IF p = p1 THEN {ip1, ip3} ELSE {ip2}]
\* The two IPs of p1 are alike.
AlikeIPs == Permutations({ip1, ip3})
SharedIP == [p \in PodNames |-> {ip1}]

\* Selectors that are edited to another one, and to the empty one.
EditedSelectors ==
    [q \in PolicyNames |->
        IF q = q1 THEN {BlockSpec("a", {d1}), BlockSpec("b", {d1})}
        ELSE {BlockSpec("a", {d2})}]
EditedToEmpty ==
    [q \in PolicyNames |-> {BlockSpec("a", {d1}), EmptySelectorSpec}]
=============================================================================
