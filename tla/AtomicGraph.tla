---------------------------- MODULE AtomicGraph ----------------------------
(***************************************************************************)
(* What ATC-1 promises of a graph (soe_ddci/atc.py): seen from outside any *)
(* transaction, a transaction that commits adds its nodes in one step and  *)
(* one that is rolled back leaves no trace.  visible is the graph outside  *)
(* transactions, outcomes the results the outermost transactions reported, *)
(* each under the number of its report.                                    *)
(***************************************************************************)
EXTENDS Naturals

CONSTANT NoHash

VARIABLES visible, outcomes

(* k grew out of g: no node is gone, and a parent link is kept unless a    *)
(* root or a merge was stored over the node.                               *)
GrewFrom(g, k) ==
  /\ DOMAIN g.nodes \subseteq DOMAIN k.nodes
  /\ \A h \in DOMAIN g.nodes : k.nodes[h].parent \in {g.nodes[h].parent, NoHash}

(* One more result is reported, after those that were.                     *)
Reported(result) ==
  \E n \in DOMAIN outcomes' :
    /\ \A m \in DOMAIN outcomes : m < n /\ outcomes'[m] = outcomes[m]
    /\ DOMAIN outcomes' = DOMAIN outcomes \cup {n}
    /\ outcomes'[n] = result

Init == DOMAIN visible.nodes = {} /\ DOMAIN outcomes = {}

Commit == Reported("committed") /\ GrewFrom(visible, visible')

RollBack == Reported("rolled_back") /\ visible' = visible

(* A write outside any transaction: at most one node is stored.            *)
Write == /\ outcomes' = outcomes
         /\ GrewFrom(visible, visible')
         /\ \E h \in DOMAIN visible'.nodes :
              \A k \in DOMAIN visible'.nodes \ {h} :
                 /\ k \in DOMAIN visible.nodes
                 /\ visible'.nodes[k] = visible.nodes[k]

Next == Commit \/ RollBack \/ Write

Spec == Init /\ [][Next]_<<visible, outcomes>>
=============================================================================
