--------------------------- MODULE LineageProofs ---------------------------
(***************************************************************************)
(* Theorems of Lineage, proved for every value of its constants that       *)
(* satisfies HashAssumption and DigestAssumption.                          *)
(***************************************************************************)
EXTENDS Lineage, Induction

(* The parent of a node says which operation stored it: only propose gives *)
(* a node a parent.                                                        *)
OnlyProposedLinked ==
  \A h \in Known : nodes[h].parent # NoHash <=> nodes[h].kind = "propose"

(* The sources of a merge are nodes.                                       *)
SourcesKnown == \A h \in Known : nodes[h].sources \subseteq Known

(* The graph's inductive invariant up to acyclicity.                       *)
LinkInv == TypeOK /\ OnlyProposedLinked /\ SourcesKnown /\ GraphConsistent /\ Acyclic

-----------------------------------------------------------------------------
(* The empty graph is well typed.                                          *)
LEMMA TypeInit == Init => TypeOK
BY HashAssumption DEF Init, TypeOK, Known, Node

(* Every action stores one well-formed node and keeps the types.           *)
LEMMA TypeNext == TypeOK /\ [Next]_graph => TypeOK'
<1> SUFFICES ASSUME TypeOK, [Next]_graph PROVE TypeOK'
  OBVIOUS
<1> USE HashAssumption DEF TypeOK, Known
<1>1. ASSUME NEW h \in RootName, AddRoot(h) PROVE TypeOK'
  <2>1. RootNode \in Node  BY DEF RootNode, Node
  <2> QED  BY <1>1, <2>1 DEF AddRoot, Store
<1>2. ASSUME NEW p \in Hash, NEW h \in Payload, Propose(p, h) PROVE TypeOK'
  <2>1. ProposedNode(p) \in Node  BY DEF ProposedNode, Node
  <2>2. IndexChild(p, h) \in [Hash -> Seq(Hash)]  BY DEF IndexChild
  <2>3. Supersede({p}, h) \subseteq Hash  BY DEF Supersede
  <2> QED  BY <1>2, <2>1, <2>2, <2>3 DEF Propose, CanPropose, Store
<1>3. ASSUME NEW P \in ParentSets, NEW r \in Payload, Join(P, r) PROVE TypeOK'
  <2> DEFINE merged == MergedHash(r, P)
  <2>1. MergedNode(r, P) \in Node  BY DEF MergedNode, Node
  <2>2. merged \in Hash  BY <1>3 DEF Join
  <2>3. Supersede(P, merged) \subseteq Hash  BY <2>2 DEF Supersede
  <2> QED  BY <1>3, <2>1, <2>2, <2>3 DEF Join, Store
<1>4. CASE UNCHANGED graph  BY <1>4 DEF graph
<1> QED  BY <1>1, <1>2, <1>3, <1>4 DEF Next

(* The graph's four attributes always hold what they should.               *)
THEOREM TypeCorrect == Spec => []TypeOK
BY TypeInit, TypeNext, PTL DEF Spec

-----------------------------------------------------------------------------
LEMMA LinkInit == Init => LinkInv
<1> SUFFICES ASSUME Init PROVE LinkInv
  OBVIOUS
<1>1. TypeOK  BY TypeInit
<1> QED  BY <1>1 DEF Init, LinkInv, OnlyProposedLinked, SourcesKnown, GraphConsistent,
                    Acyclic, Known

(* Storing a node without parent over whatever was there opens no cycle.   *)
LEMMA StoreOriginAcyclic ==
  ASSUME NEW h, NEW n, n.parent = NoHash, h # NoHash, LinkInv,
         nodes' = Store(h, n)
  PROVE  Acyclic'
<1> USE HashAssumption DEF LinkInv, TypeOK, Known
<1>1. SUFFICES ASSUME NEW S \in SUBSET DOMAIN nodes', S # {}
               PROVE  \E k \in S : nodes'[k].parent \notin S
  BY DEF Acyclic
<1>2. NoHash \notin S \/ NoHash = h
  BY <1>1 DEF Store
<1>3. CASE h \in S
  BY <1>2, <1>3 DEF Store
<1>4. CASE h \notin S
  <2>1. S \in SUBSET DOMAIN nodes  BY <1>4 DEF Store
  <2>2. PICK k \in S : nodes[k].parent \notin S  BY <2>1, <1>1 DEF Acyclic
  <2> QED  BY <2>2, <2>1, <1>4 DEF Store
<1> QED  BY <1>3, <1>4

(* Storing a new node under a known parent closes no cycle: nothing links  *)
(* to the new node yet.                                                    *)
LEMMA StoreChildAcyclic ==
  ASSUME NEW p \in Known, NEW h \in Hash, h \notin Known, LinkInv,
         nodes' = Store(h, ProposedNode(p))
  PROVE  Acyclic'
<1> USE HashAssumption DEF LinkInv, TypeOK, Known
<1>1. SUFFICES ASSUME NEW S \in SUBSET DOMAIN nodes', S # {}
               PROVE  \E k \in S : nodes'[k].parent \notin S
  BY DEF Acyclic
<1>2. CASE S = {h}
  BY <1>2 DEF Store, ProposedNode
<1>3. CASE S # {h}
  <2>1. S \ {h} \in SUBSET DOMAIN nodes /\ S \ {h} # {}  BY <1>1, <1>3 DEF Store
  <2>2. PICK k \in S \ {h} : nodes[k].parent \notin S \ {h}  BY <2>1 DEF Acyclic
  <2>3. nodes[k].parent # h  BY <2>1, <2>2 DEF GraphConsistent
  <2> QED  BY <2>1, <2>2, <2>3 DEF Store
<1> QED  BY <1>2, <1>3

LEMMA LinkNext == LinkInv /\ [Next]_graph => LinkInv'
<1> SUFFICES ASSUME LinkInv, [Next]_graph PROVE LinkInv'
  OBVIOUS
<1>1. TypeOK /\ TypeOK'  BY TypeNext DEF LinkInv
<1>2. ASSUME NEW h \in RootName, AddRoot(h) PROVE LinkInv'
  <2>1. nodes' = Store(h, RootNode) /\ heads' = heads \cup {h}  BY <1>2 DEF AddRoot
  <2>2. Acyclic'  BY <2>1, StoreOriginAcyclic, HashAssumption DEF RootNode
  <2>3. OnlyProposedLinked'
    BY <2>1 DEF LinkInv, OnlyProposedLinked, Known, Store, RootNode
  <2>4. SourcesKnown'  BY <2>1 DEF LinkInv, SourcesKnown, Known, Store, RootNode
  <2>5. GraphConsistent'
    BY <2>1 DEF LinkInv, GraphConsistent, Known, Store, RootNode
  <2> QED  BY <1>1, <2>2, <2>3, <2>4, <2>5 DEF LinkInv
<1>3. ASSUME NEW p \in Hash, NEW h \in Payload, Propose(p, h) PROVE LinkInv'
  <2>1. /\ nodes' = Store(h, ProposedNode(p)) /\ heads' = Supersede({p}, h)
        /\ h \notin Known /\ p \in Known
    BY <1>3 DEF Propose, CanPropose
  <2>2. Acyclic'  BY <2>1, StoreChildAcyclic, HashAssumption
  <2>3. OnlyProposedLinked'
    BY <1>1, <2>1, HashAssumption
       DEF LinkInv, OnlyProposedLinked, Known, Store, ProposedNode, TypeOK
  <2>4. SourcesKnown'
    BY <2>1 DEF LinkInv, SourcesKnown, Known, Store, ProposedNode
  <2>5. GraphConsistent'
    BY <2>1 DEF LinkInv, GraphConsistent, Known, Store, ProposedNode, Supersede
  <2> QED  BY <1>1, <2>2, <2>3, <2>4, <2>5 DEF LinkInv
<1>4. ASSUME NEW P \in ParentSets, NEW r \in Payload, Join(P, r) PROVE LinkInv'
  <2> DEFINE merged == MergedHash(r, P)
  <2>1. /\ nodes' = Store(merged, MergedNode(r, P)) /\ heads' = Supersede(P, merged)
        /\ P \subseteq Known /\ merged \in Hash
    BY <1>4 DEF Join
  <2> HIDE DEF merged
  <2>2. Acyclic'  BY <2>1, StoreOriginAcyclic, HashAssumption DEF MergedNode
  <2>3. OnlyProposedLinked'
    BY <2>1 DEF LinkInv, OnlyProposedLinked, Known, Store, MergedNode
  <2>4. SourcesKnown'
    BY <2>1 DEF LinkInv, SourcesKnown, Known, Store, MergedNode
  <2>5. GraphConsistent'
    BY <2>1 DEF LinkInv, GraphConsistent, Known, Store, MergedNode, Supersede
  <2> QED  BY <1>1, <2>2, <2>3, <2>4, <2>5 DEF LinkInv
<1>5. CASE UNCHANGED graph
  BY <1>1, <1>5 DEF graph, LinkInv, OnlyProposedLinked, SourcesKnown, GraphConsistent,
                    Acyclic, Known
<1> QED  BY <1>2, <1>3, <1>4, <1>5 DEF Next

LEMMA LinkInvariant == Spec => []LinkInv
BY LinkInit, LinkNext, PTL DEF Spec

(* verify_graph_consistent never reports a problem of a graph that only    *)
(* the graph's own operations wrote.                                       *)
THEOREM StaysConsistent == Spec => []GraphConsistent
<1>1. LinkInv => GraphConsistent  BY DEF LinkInv
<1> QED  BY <1>1, LinkInvariant, PTL

(* Parent links never close a cycle.                                       *)
THEOREM NoCycle == Spec => []Acyclic
<1>1. LinkInv => Acyclic  BY DEF LinkInv
<1> QED  BY <1>1, LinkInvariant, PTL

-----------------------------------------------------------------------------
(* The child index.                                                        *)

IndexInv == LinkInv /\ ChildIndexSound

(* An action that stores a node without parent over a hash, whatever was   *)
(* there, and leaves the index alone keeps the index sound.                *)
LEMMA StoreOriginIndex ==
  ASSUME NEW h \in Hash, NEW n, n.parent = NoHash, IndexInv,
         nodes' = Store(h, n), UNCHANGED children
  PROVE  ChildIndexSound'
<1> USE HashAssumption DEF IndexInv, LinkInv, TypeOK, Known
<1>1. \A k \in DOMAIN nodes' : nodes'[k].parent # NoHash =>
        \E i \in DOMAIN children'[nodes'[k].parent] : children'[nodes'[k].parent][i] = k
  BY DEF ChildIndexSound, Store, Indexed
<1>2. \A p \in Hash \ DOMAIN nodes' : children'[p] = <<>>
  BY DEF ChildIndexSound, Store
<1>3. \A p \in DOMAIN nodes' : \A i \in DOMAIN children'[p] :
        /\ children'[p][i] \in DOMAIN nodes'
        /\ nodes'[children'[p][i]].parent \in {p, NoHash}
  BY DEF ChildIndexSound, Store
<1>4. \A p, q \in DOMAIN nodes' :
        \A i \in DOMAIN children'[p], j \in DOMAIN children'[q] :
          children'[p][i] = children'[q][j] => p = q /\ i = j
  BY DEF ChildIndexSound, Store
<1> QED  BY <1>1, <1>2, <1>3, <1>4 DEF ChildIndexSound, Indexed

(* So does propose, which appends to the list of the parent a hash that    *)
(* was not a node and hence was in no list.                                *)
LEMMA ProposeIndex ==
  ASSUME NEW p \in Hash, NEW h \in Payload, IndexInv, Propose(p, h)
  PROVE  ChildIndexSound'
<1> USE HashAssumption DEF IndexInv, LinkInv, TypeOK, Known
<1>1. /\ h \in Hash /\ h \notin DOMAIN nodes /\ p \in DOMAIN nodes
      /\ nodes' = Store(h, ProposedNode(p))
      /\ children' = IndexChild(p, h)
  BY DEF Propose, CanPropose
<1>2. children[p] \in Seq(Hash)
  BY <1>1
<1>3. /\ DOMAIN children'[p] = 1 .. Len(children[p]) + 1
      /\ children'[p][Len(children[p]) + 1] = h
      /\ \A i \in DOMAIN children[p] : children'[p][i] = children[p][i]
      /\ DOMAIN children[p] \subseteq DOMAIN children'[p]
      /\ \A i \in DOMAIN children'[p] : i \in DOMAIN children[p] \/ i = Len(children[p]) + 1
  BY <1>1, <1>2 DEF IndexChild
<1>4. \A q \in Hash : q # p => children'[q] = children[q]
  BY <1>1 DEF IndexChild
<1>5. /\ DOMAIN nodes' = DOMAIN nodes \cup {h}
      /\ nodes'[h].parent = p
      /\ \A k \in DOMAIN nodes : nodes'[k] = nodes[k]
  BY <1>1 DEF Store, ProposedNode
<1>6. \A q \in DOMAIN nodes : \A i \in DOMAIN children[q] : children[q][i] # h
  BY <1>1 DEF ChildIndexSound
<1>7. \A k \in DOMAIN nodes' : nodes'[k].parent # NoHash =>
        \E i \in DOMAIN children'[nodes'[k].parent] : children'[nodes'[k].parent][i] = k
  <2> SUFFICES ASSUME NEW k \in DOMAIN nodes', nodes'[k].parent # NoHash
               PROVE  \E i \in DOMAIN children'[nodes'[k].parent] :
                         children'[nodes'[k].parent][i] = k
    OBVIOUS
  <2>1. CASE k = h
    BY <2>1, <1>3, <1>5
  <2>2. CASE k # h
    <3>1. /\ Indexed(nodes[k].parent, k)
          /\ nodes'[k] = nodes[k] /\ nodes[k].parent \in Hash
      BY <2>2, <1>5 DEF ChildIndexSound, GraphConsistent
    <3>2. PICK i \in DOMAIN children[nodes[k].parent] :
                 children[nodes[k].parent][i] = k
      BY <3>1 DEF Indexed
    <3>3. CASE nodes[k].parent = p
      <4>1. i \in DOMAIN children[p] /\ children[p][i] = k  BY <3>2, <3>3
      <4>2. i \in DOMAIN children'[p] /\ children'[p][i] = k  BY <4>1, <1>3
      <4> QED  BY <3>1, <3>3, <4>2
    <3>4. CASE nodes[k].parent # p
      <4>1. children'[nodes[k].parent] = children[nodes[k].parent]  BY <3>1, <3>4, <1>4
      <4> QED  BY <3>1, <3>2, <4>1
    <3> QED  BY <3>3, <3>4
  <2> QED  BY <2>1, <2>2
<1>8. \A q \in Hash \ DOMAIN nodes' : children'[q] = <<>>
  BY <1>1, <1>4, <1>5 DEF ChildIndexSound
<1>9. \A q \in DOMAIN nodes' : \A i \in DOMAIN children'[q] :
        /\ children'[q][i] \in DOMAIN nodes'
        /\ nodes'[children'[q][i]].parent \in {q, NoHash}
  <2> SUFFICES ASSUME NEW q \in DOMAIN nodes', NEW i \in DOMAIN children'[q]
               PROVE  /\ children'[q][i] \in DOMAIN nodes'
                      /\ nodes'[children'[q][i]].parent \in {q, NoHash}
    OBVIOUS
  <2>1. CASE q = p
    <3>1. CASE i = Len(children[p]) + 1  BY <2>1, <3>1, <1>3, <1>5
    <3>2. CASE i \in DOMAIN children[p]
      <4>1. children'[q][i] = children[p][i]  BY <2>1, <3>2, <1>3
      <4>2. /\ children[p][i] \in DOMAIN nodes
            /\ nodes[children[p][i]].parent \in {p, NoHash}
        BY <3>2 DEF ChildIndexSound
      <4> QED  BY <2>1, <4>1, <4>2, <1>5
    <3> QED  BY <2>1, <3>1, <3>2, <1>3
  <2>2. CASE q # p
    <3>1. q \in DOMAIN nodes /\ i \in DOMAIN children[q]
      BY <2>2, <1>1, <1>4, <1>5 DEF ChildIndexSound
    <3> QED  BY <3>1, <2>2, <1>4, <1>5 DEF ChildIndexSound
  <2> QED  BY <2>1, <2>2
<1>10. \A q, s \in DOMAIN nodes' :
         \A i \in DOMAIN children'[q], j \in DOMAIN children'[s] :
           children'[q][i] = children'[s][j] => q = s /\ i = j
  <2> SUFFICES ASSUME NEW q \in DOMAIN nodes', NEW s \in DOMAIN nodes',
                      NEW i \in DOMAIN children'[q], NEW j \in DOMAIN children'[s],
                      children'[q][i] = children'[s][j]
               PROVE  q = s /\ i = j
    OBVIOUS
  <2> DEFINE Old(t, k) == /\ t \in DOMAIN nodes /\ k \in DOMAIN children[t]
                          /\ children'[t][k] = children[t][k]
             New(t, k) == t = p /\ k = Len(children[p]) + 1 /\ children'[t][k] = h
  <2>1. ASSUME NEW t \in DOMAIN nodes', NEW k \in DOMAIN children'[t]
        PROVE  Old(t, k) \/ New(t, k)
    <3>1. CASE t = p  BY <3>1, <1>1, <1>3
    <3>2. CASE t # p  BY <3>2, <1>1, <1>4, <1>5 DEF ChildIndexSound
    <3> QED  BY <3>1, <3>2
  <2>2. (Old(q, i) \/ New(q, i)) /\ (Old(s, j) \/ New(s, j))  BY <2>1
  <2>3. CASE Old(q, i) /\ Old(s, j)
    <3>1. children[q][i] = children[s][j]  BY <2>3
    <3> QED  BY <2>3, <3>1 DEF ChildIndexSound
  <2>4. CASE New(q, i) /\ New(s, j)  BY <2>4
  <2>5. CASE Old(q, i) /\ New(s, j)  BY <2>5, <1>6
  <2>6. CASE New(q, i) /\ Old(s, j)  BY <2>6, <1>6
  <2> QED  BY <2>2, <2>3, <2>4, <2>5, <2>6
<1> QED  BY <1>7, <1>8, <1>9, <1>10 DEF ChildIndexSound, Indexed

LEMMA IndexNext == IndexInv /\ [Next]_graph => IndexInv'
<1> SUFFICES ASSUME IndexInv, [Next]_graph PROVE IndexInv'
  OBVIOUS
<1>1. LinkInv'  BY LinkNext DEF IndexInv
<1>2. ASSUME NEW h \in RootName, AddRoot(h) PROVE ChildIndexSound'
  BY <1>2, StoreOriginIndex, HashAssumption DEF AddRoot, RootNode
<1>3. ASSUME NEW p \in Hash, NEW h \in Payload, Propose(p, h) PROVE ChildIndexSound'
  BY <1>3, ProposeIndex
<1>4. ASSUME NEW P \in ParentSets, NEW r \in Payload, Join(P, r) PROVE ChildIndexSound'
  BY <1>4, StoreOriginIndex DEF Join, MergedNode
<1>5. CASE UNCHANGED graph
  BY <1>1, <1>5 DEF graph, IndexInv, ChildIndexSound, Known, Indexed
<1> QED  BY <1>1, <1>2, <1>3, <1>4, <1>5 DEF Next, IndexInv

LEMMA IndexInvariant == Spec => []IndexInv
<1>1. Init => IndexInv
  BY LinkInit, HashAssumption DEF Init, IndexInv, ChildIndexSound, Known, Indexed
<1> QED  BY <1>1, IndexNext, PTL DEF Spec

(* The index of children agrees with the parent links in every state.      *)
THEOREM IndexSound == Spec => []ChildIndexSound
<1>1. IndexInv => ChildIndexSound  BY DEF IndexInv
<1> QED  BY <1>1, IndexInvariant, PTL

-----------------------------------------------------------------------------
(* Heads.                                                                  *)

(* A merge of some branches is named by their digest, so no payload or     *)
(* other merge ever takes its place.                                       *)
MergesNamed ==
  \A h \in Known : nodes[h].sources # {} =>
     /\ nodes[h].sources \in ParentSets
     /\ nodes[h].resolution \in Payload
     /\ h = MergedHash(nodes[h].resolution, nodes[h].sources)

HeadInv == IndexInv /\ MergesNamed /\ SupersededNotHead /\ NoStateLost

LEMMA MergesNamedNext == IndexInv /\ MergesNamed /\ [Next]_graph => MergesNamed'
<1> SUFFICES ASSUME IndexInv, MergesNamed, [Next]_graph PROVE MergesNamed'
  OBVIOUS
<1> USE DEF MergesNamed, Known, Store
<1>1. ASSUME NEW h \in RootName, AddRoot(h) PROVE MergesNamed'
  BY <1>1 DEF AddRoot, RootNode
<1>2. ASSUME NEW p \in Hash, NEW h \in Payload, Propose(p, h) PROVE MergesNamed'
  BY <1>2 DEF Propose, CanPropose, ProposedNode
<1>3. ASSUME NEW P \in ParentSets, NEW r \in Payload, Join(P, r) PROVE MergesNamed'
  BY <1>3 DEF Join, MergedNode
<1>4. CASE UNCHANGED graph  BY <1>4 DEF graph
<1> QED  BY <1>1, <1>2, <1>3, <1>4 DEF Next

(* No action overwrites a merge that has sources with anything but itself  *)
(* or a root, which leaves k overlaid.                                     *)
LEMMA SourcesKept ==
  ASSUME IndexInv, MergesNamed, [Next]_graph, NEW m \in Known, NEW k \in nodes[m].sources
  PROVE  m \in Known' /\ (k \in nodes'[m].sources \/ Overlaid(k)')
<1> USE HashAssumption, DigestAssumption DEF Known, Store
<1>0. PICK Q \in ParentSets \ {{}}, s \in Payload :
        Q = nodes[m].sources /\ m = MergedHash(s, Q)
  BY DEF MergesNamed
<1>1. ASSUME NEW h \in RootName, AddRoot(h)
      PROVE  m \in Known' /\ (k \in nodes'[m].sources \/ Overlaid(k)')
  <2>1. CASE m = h
    <3>1. m \in DOMAIN nodes' /\ nodes'[m].kind = "root"
      BY <1>1, <2>1 DEF AddRoot, RootNode
    <3> QED  BY <1>0, <3>1 DEF Overlaid
  <2>2. CASE m # h  BY <1>1, <2>2 DEF AddRoot
  <2> QED  BY <2>1, <2>2
<1>2. ASSUME NEW p \in Hash, NEW h \in Payload, Propose(p, h)
      PROVE  m \in Known' /\ k \in nodes'[m].sources
  BY <1>2 DEF Propose, CanPropose
<1>3. ASSUME NEW P \in ParentSets, NEW r \in Payload, Join(P, r)
      PROVE  m \in Known' /\ k \in nodes'[m].sources
  <2>1. m = MergedHash(r, P) => Q = P  BY <1>0
  <2> QED  BY <1>0, <1>3, <2>1 DEF Join, MergedNode
<1>4. CASE UNCHANGED graph  BY <1>4 DEF graph
<1> QED  BY <1>1, <1>2, <1>3, <1>4 DEF Next

(* A root over a merge of k stays, or the merge is made again.             *)
LEMMA OverlaidKept ==
  ASSUME [Next]_graph, NEW k, Overlaid(k)
  PROVE  Overlaid(k)' \/ \E m \in Known' : k \in nodes'[m].sources
<1> USE HashAssumption, DigestAssumption DEF Known, Store
<1>p. PICK Q \in ParentSets \ {{}}, s \in Payload :
        /\ k \in Q
        /\ MergedHash(s, Q) \in DOMAIN nodes
        /\ nodes[MergedHash(s, Q)].kind = "root"
  BY DEF Overlaid
<1>0. PICK m :
        k \in Q /\ m = MergedHash(s, Q) /\ m \in DOMAIN nodes /\ nodes[m].kind = "root"
  BY <1>p
<1> DEFINE Covered == \/ m \in DOMAIN nodes' /\ nodes'[m].kind = "root"
                      \/ m \in DOMAIN nodes' /\ k \in nodes'[m].sources
<1>1. ASSUME NEW h \in RootName, AddRoot(h) PROVE Covered
  BY <1>0, <1>1 DEF AddRoot, RootNode
<1>2. ASSUME NEW p \in Hash, NEW h \in Payload, Propose(p, h) PROVE Covered
  BY <1>0, <1>2 DEF Propose, CanPropose
<1>3. ASSUME NEW P \in ParentSets, NEW r \in Payload, Join(P, r) PROVE Covered
  <2>1. MergedHash(s, Q) = MergedHash(r, P) => Q = P  BY <1>0, DigestAssumption
  <2> QED  BY <1>0, <1>3, <2>1 DEF Join, MergedNode
<1>4. ASSUME UNCHANGED graph PROVE Covered  BY <1>0, <1>4 DEF graph
<1>5. Covered
  <2> HIDE DEF Covered
  <2> QED  BY <1>1, <1>2, <1>3, <1>4 DEF Next
<1> QED  BY <1>0, <1>5 DEF Overlaid

(* No action removes a node.                                               *)
LEMMA NodesKept == ASSUME [Next]_graph PROVE Known \subseteq Known'
BY DEF Next, AddRoot, Propose, Join, Store, Known, graph

(* No action takes a hash out of a list of children.                       *)
LEMMA IndexedKept ==
  ASSUME TypeOK, [Next]_graph, NEW p \in Hash, NEW k, Indexed(p, k)
  PROVE  Indexed(p, k)'
<1>1. PICK i \in DOMAIN children[p] : children[p][i] = k  BY DEF Indexed
<1>2. ASSUME NEW q \in Hash, NEW h \in Payload, Propose(q, h) PROVE Indexed(p, k)'
  <2>1. children' = [children EXCEPT ![q] = Append(children[q], h)]
    BY <1>2 DEF Propose, CanPropose, IndexChild
  <2>2. q \in Hash /\ h \in Hash /\ children[q] \in Seq(Hash)
    BY HashAssumption DEF TypeOK
  <2>3. CASE p = q
    <3>1. children'[p] = Append(children[p], h)  BY <2>1, <2>2, <2>3 DEF TypeOK
    <3>2. i \in DOMAIN children'[p] /\ children'[p][i] = k  BY <1>1, <2>2, <2>3, <3>1
    <3> QED  BY <3>2 DEF Indexed
  <2>4. CASE p # q
    <3>1. children'[p] = children[p]  BY <2>1, <2>2, <2>4 DEF TypeOK
    <3> QED  BY <1>1, <3>1 DEF Indexed
  <2> QED  BY <2>3, <2>4
<1>3. CASE UNCHANGED children  BY <1>3 DEF Indexed
<1> QED  BY <1>2, <1>3 DEF Next, AddRoot, Join, graph

LEMMA SupersededNext == IndexInv /\ SupersededNotHead /\ [Next]_graph => SupersededNotHead'
<1> SUFFICES ASSUME IndexInv, SupersededNotHead, [Next]_graph,
                    NEW k \in heads', nodes'[k].kind = "propose",
                    NEW c \in DOMAIN nodes', Indexed(k, c)'
             PROVE  FALSE
  BY DEF SupersededNotHead, Kids, Known
<1> USE HashAssumption DEF IndexInv, LinkInv, TypeOK, Known
<1>1. ASSUME NEW h \in RootName, AddRoot(h) PROVE FALSE
  <2>1. k \in heads /\ nodes[k].kind = "propose" /\ Indexed(k, c) /\ k \in DOMAIN nodes
    BY <1>1 DEF AddRoot, Store, RootNode, Indexed, GraphConsistent
  <2>2. c \in DOMAIN nodes  BY <2>1 DEF Indexed, ChildIndexSound
  <2> QED  BY <2>1, <2>2 DEF SupersededNotHead, Kids
<1>2. ASSUME NEW p \in Hash, NEW h \in Payload, Propose(p, h) PROVE FALSE
  <2>1. /\ children' = [children EXCEPT ![p] = Append(children[p], h)]
        /\ heads' = (heads \ {p}) \cup {h} /\ h \notin DOMAIN nodes /\ p \in DOMAIN nodes
        /\ nodes' = Store(h, ProposedNode(p))
    BY <1>2 DEF Propose, CanPropose, IndexChild, Supersede
  <2>2. k # p  BY <2>1
  <2>3. k \in Hash /\ children'[k] = children[k]  BY <2>1, <2>2
  <2>4. Indexed(k, c)  BY <2>3 DEF Indexed
  <2>5. k \in DOMAIN nodes  BY <2>3, <2>4 DEF Indexed, ChildIndexSound
  <2>6. c \in DOMAIN nodes  BY <2>5, <2>4 DEF Indexed, ChildIndexSound
  <2>7. k \in heads /\ nodes[k].kind = "propose"  BY <2>1, <2>5 DEF Store
  <2> QED  BY <2>4, <2>6, <2>7 DEF SupersededNotHead, Kids
<1>3. ASSUME NEW P \in ParentSets, NEW r \in Payload, Join(P, r) PROVE FALSE
  <2>1. k \in heads /\ nodes[k].kind = "propose" /\ Indexed(k, c) /\ k \in DOMAIN nodes
    BY <1>3 DEF Join, Store, MergedNode, Supersede, Indexed, GraphConsistent
  <2>2. c \in DOMAIN nodes  BY <2>1 DEF Indexed, ChildIndexSound
  <2> QED  BY <2>1, <2>2 DEF SupersededNotHead, Kids
<1>4. CASE UNCHANGED graph
  BY <1>4 DEF graph, SupersededNotHead, Kids, Indexed
<1> QED  BY <1>1, <1>2, <1>3, <1>4 DEF Next

LEMMA NoStateLostNext ==
  IndexInv /\ MergesNamed /\ NoStateLost /\ [Next]_graph => NoStateLost'
<1> SUFFICES ASSUME IndexInv, MergesNamed, NoStateLost, [Next]_graph,
                    NEW k \in DOMAIN nodes' \ heads'
             PROVE  \/ \E c \in DOMAIN nodes' : Indexed(k, c)'
                    \/ \E m \in DOMAIN nodes' : k \in nodes'[m].sources
                    \/ Overlaid(k)'
  BY DEF NoStateLost, Kids, Known
<1> USE HashAssumption DEF IndexInv, LinkInv, TypeOK, Known
<1> DEFINE Replaced == \/ \E c \in DOMAIN nodes' : Indexed(k, c)'
                       \/ \E m \in DOMAIN nodes' : k \in nodes'[m].sources
                       \/ Overlaid(k)'
(* What already stood in the place of k still does.                        *)
<1>1. ASSUME k \in DOMAIN nodes \ heads PROVE Replaced
  <2>1. CASE \E c \in DOMAIN nodes : Indexed(k, c)
    BY <1>1, <2>1, IndexedKept, NodesKept
  <2>2. CASE \E m \in DOMAIN nodes : k \in nodes[m].sources
    BY <2>2, SourcesKept
  <2>5. CASE Overlaid(k)  BY <2>5, OverlaidKept
  <2>3. Kids(k) # {} \/ (\E m \in DOMAIN nodes : k \in nodes[m].sources) \/ Overlaid(k)
    BY <1>1 DEF NoStateLost
  <2>4. Kids(k) # {} => \E c \in DOMAIN nodes : Indexed(k, c)
    BY DEF Kids
  <2> QED  BY <2>1, <2>2, <2>3, <2>4, <2>5
<1>2. ASSUME NEW h \in RootName, AddRoot(h) PROVE Replaced
  BY <1>1, <1>2 DEF AddRoot, Store
<1>3. ASSUME NEW p \in Hash, NEW h \in Payload, Propose(p, h) PROVE Replaced
  <2>1. /\ children' = [children EXCEPT ![p] = Append(children[p], h)]
        /\ heads' = (heads \ {p}) \cup {h}
        /\ nodes' = Store(h, ProposedNode(p))
    BY <1>3 DEF Propose, CanPropose, IndexChild, Supersede
  <2>2. CASE k = p
    <3>1. /\ children'[p] = Append(children[p], h)
          /\ children[p] \in Seq(Hash) /\ h \in Hash
      BY <2>1
    <3>2. /\ Len(children[p]) + 1 \in DOMAIN children'[p]
          /\ children'[p][Len(children[p]) + 1] = h
      BY <3>1
    <3>3. Indexed(p, h)'  BY <3>2 DEF Indexed
    <3> QED  BY <2>1, <2>2, <3>3 DEF Store
  <2>3. CASE k # p  BY <1>1, <2>1, <2>3 DEF Store
  <2> QED  BY <2>2, <2>3
<1>4. ASSUME NEW P \in ParentSets, NEW r \in Payload, Join(P, r) PROVE Replaced
  <2> DEFINE merged == MergedHash(r, P)
  <2>1. /\ nodes' = Store(merged, MergedNode(r, P))
        /\ heads' = (heads \ P) \cup {merged}
    BY <1>4 DEF Join, Supersede
  <2> HIDE DEF merged
  <2>2. CASE k \in P  BY <2>1, <2>2 DEF Store, MergedNode
  <2>3. CASE k \notin P  BY <1>1, <2>1, <2>3 DEF Store
  <2> QED  BY <2>2, <2>3
<1>5. CASE UNCHANGED graph  BY <1>1, <1>5 DEF graph
<1> QED  BY <1>2, <1>3, <1>4, <1>5 DEF Next

LEMMA HeadInvariant == Spec => []HeadInv
<1>1. Init => HeadInv
  <2>1. Init => IndexInv
    BY LinkInit, HashAssumption DEF Init, IndexInv, ChildIndexSound, Known, Indexed
  <2> QED  BY <2>1 DEF Init, HeadInv, MergesNamed, SupersededNotHead, NoStateLost, Known
<1>2. HeadInv /\ [Next]_graph => HeadInv'
  BY IndexNext, MergesNamedNext, SupersededNext, NoStateLostNext DEF HeadInv
<1> QED  BY <1>1, <1>2, PTL DEF Spec

(* A proposed state that was built upon is no head.                        *)
THEOREM HeadsAreTips == Spec => []SupersededNotHead
<1>1. HeadInv => SupersededNotHead  BY DEF HeadInv
<1> QED  BY <1>1, HeadInvariant, PTL

(* Whatever stops being a head is a parent of something or the source of a *)
(* merge for ever after, unless a root is laid over that merge.            *)
THEOREM NothingLost == Spec => []NoStateLost
<1>1. HeadInv => NoStateLost  BY DEF HeadInv
<1> QED  BY <1>1, HeadInvariant, PTL

-----------------------------------------------------------------------------
(* Merges without a resolution.                                            *)

(* A proposed node was there before with the same parent, or is new.       *)
LEMMA ProposedBefore ==
  ASSUME IndexInv, [Next]_graph, NEW k \in Known, nodes'[k].kind = "propose"
  PROVE  nodes[k] = nodes'[k]
<1> USE DEF Known, Store
<1>1. ASSUME NEW h \in RootName, AddRoot(h) PROVE nodes[k] = nodes'[k]
  BY <1>1 DEF AddRoot, RootNode
<1>2. ASSUME NEW p \in Hash, NEW h \in Payload, Propose(p, h) PROVE nodes[k] = nodes'[k]
  BY <1>2 DEF Propose, CanPropose
<1>3. ASSUME NEW P \in ParentSets, NEW r \in Payload, Join(P, r) PROVE nodes[k] = nodes'[k]
  BY <1>3 DEF Join, MergedNode
<1>4. CASE UNCHANGED graph  BY <1>4 DEF graph
<1> QED  BY <1>1, <1>2, <1>3, <1>4 DEF Next

(* Two siblings share the provenance of their parent, which is what a join *)
(* of both reports as a conflict.                                          *)
LEMMA SiblingsConflict ==
  ASSUME IndexInv, NEW P \in SUBSET Known, NEW a \in P, NEW b \in P, a # b,
         nodes[a].kind = "propose", nodes[b].kind = "propose",
         nodes[a].parent = nodes[b].parent
  PROVE  JoinConflicts(P) # {}
<1> USE DEF IndexInv, LinkInv
<1> DEFINE p == nodes[a].parent
           f == <<"parent", p>>
<1>1. p # NoHash /\ a \in Known /\ b \in Known
  BY DEF OnlyProposedLinked
<1>2. a \in Kids(p) /\ b \in Kids(p)
  BY <1>1 DEF ChildIndexSound, Kids
<1>3. Provenance(a) = {f} /\ Provenance(b) = {f}
  BY DEF Provenance
<1>4. f \in ForkFields(p)
  <2>1. f \in UNION {Provenance(k) : k \in Kids(p)}  BY <1>2, <1>3
  <2>2. f \in Provenance(a) \cap Provenance(b)  BY <1>3
  <2> QED  BY <1>2, <2>1, <2>2 DEF ForkFields
<1>5. a \in {x \in P : nodes[x].parent # NoHash /\ P # {x}}
  BY <1>1
<1> QED  BY <1>4, <1>5 DEF JoinConflicts

LEMMA SiblingsNext ==
  IndexInv /\ SiblingsJoinedExplicitly /\ [Next]_graph => SiblingsJoinedExplicitly'
<1> SUFFICES ASSUME IndexInv, SiblingsJoinedExplicitly, [Next]_graph,
                    NEW m \in DOMAIN nodes',
                    nodes'[m].kind = "join", nodes'[m].resolution = EmptyPayload,
                    NEW a \in nodes'[m].sources, NEW b \in nodes'[m].sources,
                    a # b, nodes'[a].kind = "propose", nodes'[b].kind = "propose",
                    nodes'[a].parent = nodes'[b].parent
             PROVE  FALSE
  BY DEF SiblingsJoinedExplicitly, Known
<1> USE DEF Known
(* The merge was there before, and so were its sources.                    *)
<1>1. CASE m \in DOMAIN nodes /\ nodes'[m] = nodes[m]
  <2>1. a \in DOMAIN nodes /\ b \in DOMAIN nodes
    BY <1>1 DEF IndexInv, LinkInv, SourcesKnown
  <2>2. nodes[a] = nodes'[a] /\ nodes[b] = nodes'[b]
    BY <2>1, ProposedBefore
  <2> QED  BY <1>1, <2>2 DEF SiblingsJoinedExplicitly
<1>2. ASSUME NEW h \in RootName, AddRoot(h) PROVE FALSE
  BY <1>1, <1>2 DEF AddRoot, Store, RootNode
<1>3. ASSUME NEW p \in Hash, NEW h \in Payload, Propose(p, h) PROVE FALSE
  BY <1>1, <1>3 DEF Propose, CanPropose, Store, ProposedNode
<1>4. ASSUME NEW P \in ParentSets, NEW r \in Payload, Join(P, r) PROVE FALSE
  <2>1. CASE m # MergedHash(r, P)  BY <1>1, <1>4, <2>1 DEF Join, Store
  <2>2. CASE m = MergedHash(r, P)
    <3>1. nodes'[m] = MergedNode(r, P) /\ P \subseteq DOMAIN nodes
      BY <1>4, <2>2 DEF Join, Store
    <3>2. r = EmptyPayload /\ a \in P /\ b \in P  BY <3>1 DEF MergedNode
    <3>3. JoinConflicts(P) = {}  BY <1>4, <3>2 DEF Join
    <3>4. nodes[a] = nodes'[a] /\ nodes[b] = nodes'[b]
      BY <3>1, <3>2, ProposedBefore
    <3> QED  BY <3>1, <3>2, <3>3, <3>4, SiblingsConflict
  <2> QED  BY <2>1, <2>2
<1>5. CASE UNCHANGED graph  BY <1>1, <1>5 DEF graph
<1> QED  BY <1>2, <1>3, <1>4, <1>5 DEF Next

(* Branches proposed from one parent are merged only under a resolution.   *)
THEOREM ExplicitSiblings == Spec => []SiblingsJoinedExplicitly
<1>1. Init => SiblingsJoinedExplicitly
  BY DEF Init, SiblingsJoinedExplicitly, Known
<1> QED  BY <1>1, SiblingsNext, IndexInvariant, PTL DEF Spec
-----------------------------------------------------------------------------
(* Ancestry.                                                               *)

(* Every action stores at most one node: the graph is always finite, which *)
(* is what ends the walk.                                                  *)
WalkInv == LinkInv /\ IsFiniteSet(Known)

LEMMA WalkInvariant == Spec => []WalkInv
<1>1. Init => WalkInv  BY LinkInit, FS_EmptySet DEF Init, WalkInv, Known
<1>2. WalkInv /\ [Next]_graph => WalkInv'
  <2> SUFFICES ASSUME WalkInv, [Next]_graph PROVE IsFiniteSet(DOMAIN nodes')
    BY LinkNext DEF WalkInv, Known
  <2>1. DOMAIN nodes' = DOMAIN nodes \/ \E h : DOMAIN nodes' = DOMAIN nodes \cup {h}
    BY DEF Next, AddRoot, Propose, Join, Store, Known, graph
  <2> QED  BY <2>1, FS_AddElement DEF WalkInv, Known
<1> QED  BY <1>1, <1>2, PTL DEF Spec

(* What a walk may start from, and the nodes it has not seen.              *)
Walks == (Hash \cup {NoHash}) \X SUBSET Hash
Ahead(w) == Cardinality(Known \ w[2])

(* One step of the walk, reading the rest of it from f.                    *)
WalkBy(f, w) == IF w[1] \in Known \ w[2]
                THEN Append(f[<<nodes[w[1]].parent, w[2] \cup {w[1]}>>], w[1])
                ELSE <<>>

(* The walk goes on with a node less to see.                               *)
LEMMA WalkOn ==
  ASSUME WalkInv, NEW w \in Walks
  PROVE  /\ Ahead(w) \in Nat
         /\ w[1] \in Known \ w[2] =>
              /\ <<nodes[w[1]].parent, w[2] \cup {w[1]}>> \in Walks
              /\ Ahead(<<nodes[w[1]].parent, w[2] \cup {w[1]}>>) = Ahead(w) - 1
              /\ Ahead(w) > 0
<1>1. IsFiniteSet(Known \ w[2]) /\ Ahead(w) \in Nat
  BY FS_Difference, FS_CardinalityType DEF WalkInv, Ahead
<1>2. ASSUME w[1] \in Known \ w[2]
      PROVE  /\ <<nodes[w[1]].parent, w[2] \cup {w[1]}>> \in Walks
             /\ Ahead(<<nodes[w[1]].parent, w[2] \cup {w[1]}>>) = Ahead(w) - 1
             /\ Ahead(w) > 0
  <2>1. nodes[w[1]].parent \in Hash \cup {NoHash} /\ w[1] \in Hash
    BY <1>2 DEF WalkInv, LinkInv, TypeOK, Node, Known
  <2>2. <<nodes[w[1]].parent, w[2] \cup {w[1]}>> \in Walks  BY <2>1 DEF Walks
  <2>3. Known \ (w[2] \cup {w[1]}) = (Known \ w[2]) \ {w[1]}  OBVIOUS
  <2>4. Cardinality((Known \ w[2]) \ {w[1]}) = Cardinality(Known \ w[2]) - 1
    BY <1>1, <1>2, FS_RemoveElement
  <2>5. Cardinality(Known \ w[2]) # 0  BY <1>1, <1>2, FS_EmptySet
  <2>6. Ahead(<<nodes[w[1]].parent, w[2] \cup {w[1]}>>) = Ahead(w) - 1
    BY <2>3, <2>4 DEF Ahead
  <2>7. Ahead(w) > 0  BY <1>1, <2>5 DEF Ahead
  <2> QED  BY <2>2, <2>6, <2>7
<1> QED  BY <1>1, <1>2

(* The recursion of Walk is well founded: Walk does satisfy its equation.  *)
LEMMA WalkStep ==
  ASSUME WalkInv, NEW w \in Walks PROVE Walk[w] = WalkBy(Walk, w)
<1> DEFINE D(n) == {x \in Walks : Ahead(x) =< n}
           Upto == {n \in Nat : \E f : f = [x \in D(n) |-> WalkBy(f, x)]}
<1>1. 0 \in Upto
  <2>1. \A x \in D(0) : \A f : WalkBy(f, x) = <<>>  BY WalkOn DEF WalkBy
  <2>2. PICK f : f = [x \in D(0) |-> <<>>]  OBVIOUS
  <2>3. f = [x \in D(0) |-> WalkBy(f, x)]
    <3> HIDE DEF D
    <3> QED  BY <2>1, <2>2
  <2> QED  BY <2>3
<1>2. ASSUME NEW n \in Nat, n \in Upto PROVE n + 1 \in Upto
  <2>1. PICK f : f = [x \in D(n) |-> WalkBy(f, x)]  BY <1>2
  <2>2. PICK g : g = [x \in D(n + 1) |-> WalkBy(f, x)]  OBVIOUS
  <2>3. \A x \in D(n) : x \in D(n + 1) /\ g[x] = f[x]
    <3>1. ASSUME NEW x \in Walks, Ahead(x) =< n PROVE Ahead(x) =< n + 1
      <4>1. Ahead(x) \in Nat  BY WalkOn
      <4> QED  BY <3>1, <4>1
    <3>2. \A x \in D(n) : x \in D(n + 1)  BY <3>1
    <3> HIDE DEF D
    <3> QED  BY <2>1, <2>2, <3>2
  <2>4. ASSUME NEW x \in D(n + 1) PROVE WalkBy(f, x) = WalkBy(g, x)
    <3> DEFINE y == <<nodes[x[1]].parent, x[2] \cup {x[1]}>>
    <3>1. CASE x[1] \in Known \ x[2]
      <4>1. y \in Walks /\ Ahead(y) = Ahead(x) - 1 /\ Ahead(x) \in Nat  BY <3>1, WalkOn
      <4>2. y \in D(n)  BY <4>1
      <4> QED  BY <2>3, <4>2 DEF WalkBy
    <3>2. CASE x[1] \notin Known \ x[2]  BY <3>2 DEF WalkBy
    <3> QED  BY <3>1, <3>2
  <2>5. g = [x \in D(n + 1) |-> WalkBy(g, x)]
    <3> HIDE DEF D
    <3> QED  BY <2>2, <2>4
  <2> QED  BY <2>5
<1> DEFINE N == Cardinality(Known)
<1>3. N \in Nat /\ \A x \in Walks : Ahead(x) =< N
  BY FS_CardinalityType, FS_Subset, WalkOn DEF WalkInv, Ahead
<1>4. D(N) = Walks  BY <1>3
<1>5. N \in Upto
  <2> HIDE DEF Upto, N
  <2> QED  BY <1>1, <1>2, <1>3, Induct
<1>6. PICK f : f = [x \in Walks |-> WalkBy(f, x)]
  <2> HIDE DEF D
  <2> QED  BY <1>4, <1>5
<1>7. Walk = [x \in Walks |-> WalkBy(Walk, x)]
  BY <1>6, Zenon DEF Walk, Walks, WalkBy
<1> QED  BY <1>7

(* The walk, oldest node first, visits nodes it had not seen, ends in the  *)
(* node it started from and passes from each to its parent, until the      *)
(* parent is no node or one it has seen.                                   *)
Follows(line, w) ==
  /\ line \in Seq(Known \ w[2])
  /\ Len(line) > 0 <=> w[1] \in Known \ w[2]
  /\ Len(line) > 0 => line[Len(line)] = w[1]
  /\ \A i \in 2 .. Len(line) : nodes[line[i]].parent = line[i - 1]
  /\ Len(line) > 0 => \/ nodes[line[1]].parent \notin Known
                      \/ nodes[line[1]].parent \in w[2]
                      \/ \E i \in 1 .. Len(line) : nodes[line[1]].parent = line[i]

LEMMA WalkFollows ==
  ASSUME WalkInv, NEW v \in Walks PROVE Follows(Walk[v], v)
<1> DEFINE D(n) == {x \in Walks : Ahead(x) =< n}
           Upto == {n \in Nat : \A x \in D(n) : Follows(Walk[x], x)}
<1>1. ASSUME NEW w \in Walks, w[1] \notin Known \ w[2] PROVE Follows(Walk[w], w)
  <2>1. Walk[w] = <<>>  BY <1>1, WalkStep DEF WalkBy
  <2> QED  BY <1>1, <2>1 DEF Follows
<1>2. ASSUME NEW w \in Walks, w[1] \in Known \ w[2],
             Follows(Walk[<<nodes[w[1]].parent, w[2] \cup {w[1]}>>],
                     <<nodes[w[1]].parent, w[2] \cup {w[1]}>>)
      PROVE  Follows(Walk[w], w)
  <2> DEFINE cur == w[1]
             up == nodes[w[1]].parent
             rest == Walk[<<up, w[2] \cup {cur}>>]
             line == Walk[w]
             l == Len(rest)
  <2>1. /\ rest \in Seq(Known \ (w[2] \cup {cur}))
        /\ l > 0 <=> up \in Known \ (w[2] \cup {cur})
        /\ l > 0 => rest[l] = up
        /\ \A i \in 2 .. l : nodes[rest[i]].parent = rest[i - 1]
        /\ l > 0 => \/ nodes[rest[1]].parent \notin Known
                    \/ nodes[rest[1]].parent \in w[2] \cup {cur}
                    \/ \E i \in 1 .. l : nodes[rest[1]].parent = rest[i]
    BY <1>2 DEF Follows
  <2>2. line = Append(rest, cur)  BY <1>2, WalkStep DEF WalkBy
  <2> HIDE DEF rest, line
  <2>3. /\ l \in Nat /\ Len(line) = l + 1 /\ line[l + 1] = cur
        /\ \A i \in 1 .. l : line[i] = rest[i]
        /\ line \in Seq(Known \ w[2])
    <3>1. rest \in Seq(Known \ w[2])
      BY <2>1
    <3>2. cur \in Known \ w[2]  BY <1>2
    <3> HIDE DEF cur
    <3> QED  BY <2>2, <3>1, <3>2
  <2>4. \A i \in 2 .. l + 1 : nodes[line[i]].parent = line[i - 1]
    <3> SUFFICES ASSUME NEW i \in 2 .. l + 1 PROVE nodes[line[i]].parent = line[i - 1]
      OBVIOUS
    <3>1. CASE i = l + 1
      <4>1. l > 0 /\ l \in 1 .. l /\ i - 1 = l  BY <2>3, <3>1
      <4>2. line[i] = cur /\ line[i - 1] = rest[l]  BY <2>3, <3>1, <4>1
      <4> QED  BY <2>1, <4>1, <4>2
    <3>2. CASE i # l + 1
      <4>1. i \in 1 .. l /\ i \in 2 .. l /\ i - 1 \in 1 .. l  BY <2>3, <3>2
      <4> QED  BY <2>1, <2>3, <4>1
    <3> QED  BY <3>1, <3>2
  <2>5. \/ nodes[line[1]].parent \notin Known
        \/ nodes[line[1]].parent \in w[2]
        \/ \E i \in 1 .. l + 1 : nodes[line[1]].parent = line[i]
    <3>1. CASE l = 0
      <4>1. line[1] = cur  BY <2>3, <3>1
      <4>2. up \notin Known \ (w[2] \cup {cur})  BY <2>1, <3>1
      <4>3. 1 \in 1 .. l + 1  BY <3>1
      <4> QED  BY <4>1, <4>2, <4>3
    <3>2. CASE l # 0
      <4>1. l > 0 /\ 1 \in 1 .. l /\ l + 1 \in 1 .. l + 1  BY <2>3, <3>2
      <4>2. line[1] = rest[1]  BY <2>3, <4>1
      <4>3. \A i \in 1 .. l : i \in 1 .. l + 1 /\ line[i] = rest[i]  BY <2>3
      <4> QED  BY <2>1, <2>3, <4>1, <4>2, <4>3
    <3> QED  BY <3>1, <3>2
  <2>6. Len(line) > 0 /\ line[Len(line)] = w[1] /\ w[1] \in Known \ w[2]
    BY <1>2, <2>3
  <2> QED
    <3> HIDE DEF cur, up, l
    <3> QED  BY <2>3, <2>4, <2>5, <2>6 DEF Follows, line
<1>3. 0 \in Upto
  <2>1. ASSUME NEW x \in D(0) PROVE x[1] \notin Known \ x[2]
    <3>1. Ahead(x) \in Nat /\ ~(Ahead(x) > 0)
      <4>1. Ahead(x) \in Nat /\ Ahead(x) =< 0  BY WalkOn
      <4> QED  BY <4>1
    <3> QED  BY <3>1, WalkOn
  <2> QED  BY <1>1, <2>1
<1>4. ASSUME NEW n \in Nat, n \in Upto PROVE n + 1 \in Upto
  <2> SUFFICES ASSUME NEW x \in D(n + 1) PROVE Follows(Walk[x], x)
    OBVIOUS
  <2>1. CASE x[1] \notin Known \ x[2]  BY <1>1, <2>1
  <2>2. CASE x[1] \in Known \ x[2]
    <3> DEFINE y == <<nodes[x[1]].parent, x[2] \cup {x[1]}>>
    <3>1. y \in Walks /\ Ahead(y) = Ahead(x) - 1 /\ Ahead(x) \in Nat  BY <2>2, WalkOn
    <3>2. y \in D(n)  BY <3>1
    <3>3. Follows(Walk[y], y)  BY <1>4, <3>2
    <3> QED  BY <1>2, <2>2, <3>3
  <2> QED  BY <2>1, <2>2
<1>5. v \in D(Ahead(v)) /\ Ahead(v) \in Nat
  <2>1. Ahead(v) \in Nat  BY WalkOn
  <2>2. Ahead(v) =< Ahead(v)  BY <2>1
  <2> QED  BY <2>1, <2>2
<1>6. Ahead(v) \in Upto
  <2> HIDE DEF Upto
  <2> QED  BY <1>3, <1>4, <1>5, Induct
<1> QED  BY <1>5, <1>6

(* So a lineage is the chain of its last node's parents, up to a node that *)
(* has none: going on among its own nodes would close a cycle.             *)
LEMMA LineageChain ==
  ASSUME WalkInv, NEW h \in Known
  PROVE  LET line == LineageOf(h)
         IN  /\ line \in Seq(Known)
             /\ Len(line) > 0 /\ line[Len(line)] = h
             /\ \A i \in 2 .. Len(line) : nodes[line[i]].parent = line[i - 1]
             /\ nodes[line[1]].parent = NoHash
<1> DEFINE w == <<h, {}>>
           line == LineageOf(h)
<1>1. w \in Walks  BY DEF WalkInv, LinkInv, TypeOK, Walks
<1>2. Follows(line, w)  BY <1>1, WalkFollows DEF LineageOf
<1> HIDE DEF line
<1>3. /\ line \in Seq(Known) /\ Len(line) \in Nat
      /\ Len(line) > 0 /\ line[Len(line)] = h
      /\ \A i \in 2 .. Len(line) : nodes[line[i]].parent = line[i - 1]
      /\ \/ nodes[line[1]].parent \notin Known
         \/ \E i \in 1 .. Len(line) : nodes[line[1]].parent = line[i]
  BY <1>2 DEF Follows
<1>4. ~ \E i \in 1 .. Len(line) : nodes[line[1]].parent = line[i]
  <2> SUFFICES ASSUME \E i \in 1 .. Len(line) : nodes[line[1]].parent = line[i]
               PROVE  FALSE
    OBVIOUS
  <2> DEFINE S == {line[i] : i \in 1 .. Len(line)}
  <2>1. \A i \in 1 .. Len(line) : nodes[line[i]].parent \in S
    <3> TAKE i \in 1 .. Len(line)
    <3>1. CASE i = 1  BY <3>1
    <3>2. CASE i # 1
      <4>1. i \in 2 .. Len(line) /\ i - 1 \in 1 .. Len(line)  BY <1>3, <3>2
      <4> QED  BY <1>3, <4>1
    <3> QED  BY <3>1, <3>2
  <2>2. S \in SUBSET Known /\ line[1] \in S  BY <1>3
  <2> QED  BY <2>1, <2>2 DEF WalkInv, LinkInv, Acyclic
<1>5. 1 \in 1 .. Len(line) /\ line[1] \in Known  BY <1>3
<1>6. nodes[line[1]].parent = NoHash
  BY <1>3, <1>4, <1>5 DEF WalkInv, LinkInv, GraphConsistent
<1> QED  BY <1>3, <1>6 DEF line

(* Every lineage reaches back to a node without parent, and no two states  *)
(* are each other's ancestor: the parts of the two lineages between them   *)
(* would be a set of nodes that parent links never leave.                  *)
LEMMA AncestryInState == WalkInv => AncestryOrdered
<1> SUFFICES ASSUME WalkInv PROVE AncestryOrdered
  OBVIOUS
<1>1. \A h \in Known : nodes[LineageOf(h)[1]].parent = NoHash  BY LineageChain
<1>2. ASSUME NEW a \in Known, NEW d \in Known, a # d, IsAncestor(a, d), IsAncestor(d, a)
      PROVE  FALSE
  (* The nodes of the lineage of y after its ancestor x.                   *)
  <2>1. ASSUME NEW x \in Known, NEW y \in Known, x # y, IsAncestor(x, y)
        PROVE  \E S \in SUBSET Known : y \in S /\ \A k \in S : nodes[k].parent \in S \cup {x}
    <3> DEFINE line == LineageOf(y)
    <3>1. PICK j \in DOMAIN line : line[j] = x  BY <2>1 DEF IsAncestor
    <3>2. /\ line \in Seq(Known) /\ Len(line) \in Nat /\ Len(line) > 0
          /\ line[Len(line)] = y
          /\ \A i \in 2 .. Len(line) : nodes[line[i]].parent = line[i - 1]
      <4>1. line \in Seq(Known) /\ Len(line) > 0 /\ line[Len(line)] = y  BY LineageChain
      <4>2. \A i \in 2 .. Len(line) : nodes[line[i]].parent = line[i - 1]  BY LineageChain
      <4> HIDE DEF line
      <4> QED  BY <4>1, <4>2
    <3> HIDE DEF line
    <3>3. j \in 1 .. Len(line) /\ j # Len(line)  BY <2>1, <3>1, <3>2
    <3> DEFINE S == {line[i] : i \in j + 1 .. Len(line)}
    <3>4. S \in SUBSET Known /\ y \in S
      <4>1. \A i \in j + 1 .. Len(line) : line[i] \in Known  BY <3>2, <3>3
      <4>2. Len(line) \in j + 1 .. Len(line)  BY <3>2, <3>3
      <4> QED  BY <3>2, <4>1, <4>2
    <3>5. \A i \in j + 1 .. Len(line) : nodes[line[i]].parent \in S \cup {x}
      <4> TAKE i \in j + 1 .. Len(line)
      <4>1. nodes[line[i]].parent = line[i - 1]  BY <3>2, <3>3
      <4>2. CASE i = j + 1  BY <3>1, <3>3, <4>1, <4>2
      <4>3. CASE i # j + 1
        <5>1. i - 1 \in j + 1 .. Len(line)  BY <3>2, <3>3, <4>3
        <5> QED  BY <4>1, <5>1
      <4> QED  BY <4>2, <4>3
    <3>6. \A k \in S : nodes[k].parent \in S \cup {x}  BY <3>5
    <3> HIDE DEF S
    <3> QED  BY <3>4, <3>6
  <2>2. PICK S \in SUBSET Known : d \in S /\ \A k \in S : nodes[k].parent \in S \cup {a}
    BY <1>2, <2>1
  <2>3. PICK T \in SUBSET Known : a \in T /\ \A k \in T : nodes[k].parent \in T \cup {d}
    BY <1>2, <2>1
  <2>4. S \cup T \in SUBSET Known /\ S \cup T # {}
        /\ \A k \in S \cup T : nodes[k].parent \in S \cup T
    BY <2>2, <2>3
  <2> QED  BY <2>4 DEF WalkInv, LinkInv, Acyclic
<1> QED  BY <1>1, <1>2 DEF AncestryOrdered

(* The walk's guard against cycles never decides a lineage.                *)
THEOREM LineageReachesOrigin == Spec => []AncestryOrdered
BY AncestryInState, WalkInvariant, PTL
=============================================================================
