--------------------------- MODULE MCCacheThreads ---------------------------
(***************************************************************************)
(* Instances of CacheThreads for TLC: pods labelled app=a or app=b, the    *)
(* second of which can have the IP of the first, and a policy for app=a.   *)
(***************************************************************************)
EXTENDS CacheThreads

CONSTANTS p1, p2, q1, ip1, ip2, d1, h1

App(v) == [k \in {"app"} |-> v]

MCLabelings == {App("a"), App("b")}
MCIPsOf == [p \in PodNames |-> IF p = p1 THEN {ip1} ELSE {ip1, ip2}]
MCSpecsOf == [q \in PolicyNames |-> {[TargetSelector |-> App("a"), BlockList |-> {d1}]}]
=============================================================================
