------------------------------ MODULE MCEngine ------------------------------
(* Two payloads share their repr.  The priorities lie below, at the ends of,  *)
(* and above the range in which an objective steers the entity, and at the    *)
(* ends of the one in which it is obeyed at once; "other" is a target that    *)
(* names no state, and the last objective is not "single".  At priority 140   *)
(* INVALID would be the best of the successors of TRANSFORMED.                *)
EXTENDS Engine, TLC

CONSTANTS p1, p2, p3, c1, c2, s1, s2

MCPayload == {p1, p2, p3}
MCCode == {c1, c2}
MCEncode == (p1 :> c1) @@ (p2 :> c1) @@ (p3 :> c2)
MCSession == {s1, s2}
MCChains == {<<p1, p2, p1>>, <<p1, p2, p3>>, <<p1, p3, p1>>}
MCClusters == {<<>>, <<p1, p3, p2>>}

Single(target, priority) == [type |-> "single", target |-> target, priority |-> priority]

MCObjective ==
  {Single(t, 100) : t \in {NoTarget, "other", "TRANSFORMED"}}
    \union {Single("ARCHIVED", p) : p \in {10, 50, 100, 101}}
    \union {Single("STORED", 149), Single("ACTIVE", 149), Single("INVALID", 140)}
    \union {[type |-> "multi", target |-> "ARCHIVED", priority |-> 100]}
=============================================================================
