---------------------------- MODULE MCAPIServer ----------------------------
(***************************************************************************)
(* Instances of APIServer for TLC: one pod, one policy that blocks one     *)
(* domain for it.                                                          *)
(***************************************************************************)
EXTENDS APIServer

CONSTANTS p1, q1, ip1, d1, a1

App == [k \in {"app"} |-> "a"]

MCLabelings == {App}
MCIPsOf == [p \in PodNames |-> {ip1}]
MCSpecsOf == [q \in PolicyNames |-> {[TargetSelector |-> App, BlockList |-> {d1}]}]
=============================================================================
