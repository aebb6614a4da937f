------------------------------ MODULE Lineage ------------------------------
(***************************************************************************)
(* LGC-1, the verifiable state graph of soe_ddci/lgc.py.                   *)
(*                                                                         *)
(* A LineageGraph keeps four attributes, the four variables below: the     *)
(* nodes by state hash, the index of the children of a hash, the set of    *)
(* head hashes and the root.  Its three writing operations are add_root,   *)
(* propose and join, one action each; the outcomes that write nothing (an  *)
(* unknown parent, a known digest, a conflict) leave every variable alone. *)
(*                                                                         *)
(* Digests are members of Hash: canonical_hash is modelled by what it      *)
(* identifies, Payload being the digests of the dictionaries callers pass  *)
(* and MergedHash(r, P) the digest join computes of resolution r extended  *)
(* with one link per parent in P.                                          *)
(***************************************************************************)
EXTENDS Naturals, Sequences, FiniteSets

CONSTANTS
  Hash,             \* every digest that can name a state
  NoHash,           \* the value None of a parent or root hash
  Payload,          \* digests of mutations and of conflict resolutions
  EmptyPayload,     \* the digest of {}, the resolution of a join that has none
  RootName,         \* the hashes callers give to add_root: any, a merge's too
  ParentSets,       \* the collections of parents callers ask to join
  MergedHash(_, _), \* the digest of a resolution with its parent links
  MaxNodes          \* bound on the number of nodes explored

ASSUME HashAssumption ==
  /\ NoHash \notin Hash
  /\ Payload \subseteq Hash
  /\ EmptyPayload \in Payload
  /\ RootName \subseteq Hash
  /\ ParentSets \subseteq SUBSET Hash
  /\ MaxNodes \in Nat

(* A digest tells its dictionaries apart.  With no parent there is no link *)
(* to add and the merged dictionary is the resolution itself; with parents *)
(* it is no payload (whose keys do not begin with "parent:"), it differs   *)
(* from the digests it contains, and it determines its resolution and its  *)
(* parents.  Nothing is assumed of the names of roots.                     *)
ASSUME DigestAssumption ==
  /\ \A r \in Payload : MergedHash(r, {}) = r
  /\ \A r \in Payload, P \in ParentSets \ {{}} :
       /\ MergedHash(r, P) \notin Payload \cup P \cup {NoHash}
       /\ \A s \in Payload, Q \in ParentSets :
            MergedHash(r, P) = MergedHash(s, Q) => r = s /\ P = Q

VARIABLES nodes, children, heads, root

graph == <<nodes, children, heads, root>>

Known == DOMAIN nodes

(* A LineageNode: the fields the graph's own code reads or digests. source *)
(* and resolution are what operation_hash commits a join to.               *)
Node == [parent     : Hash \cup {NoHash},
         kind       : {"root", "propose", "join"},
         sources    : SUBSET Hash,
         resolution : Payload]

RootNode == [parent |-> NoHash, kind |-> "root", sources |-> {},
             resolution |-> EmptyPayload]

(* The operators Mut... are mistakes this code could have had; no definition *)
(* uses them.                                                              *)
MutProposedNode(p) == [parent |-> p, kind |-> "proposed", sources |-> {},
                       resolution |-> EmptyPayload]

ProposedNode(p) == [parent |-> p, kind |-> "propose", sources |-> {},
                    resolution |-> EmptyPayload]

MergedNode(r, P) == [parent |-> NoHash, kind |-> "join", sources |-> P,
                     resolution |-> r]

Store(h, n) == [k \in Known \cup {h} |-> IF k = h THEN n ELSE nodes[k]]

MutIndexChild(p, h) == [children EXCEPT ![p] = <<h>>]

IndexChild(p, h) == [children EXCEPT ![p] = Append(@, h)]

MutSupersede(P, h) == heads \cup {h}
MutSupersedeAll(P, h) == {h}

Supersede(P, h) == (heads \ P) \cup {h}

----------------------------------------------------------------------------
(* Forks: children_of and detect_fork.                                     *)

Indexed(p, h) == \E i \in DOMAIN children[p] : children[p][i] = h

Kids(p) == {h \in Known : Indexed(p, h)}

MutProvenance(h) == {<<"node", h>>}

(* The provenance strings of a node, by the operation that stored it.      *)
Provenance(h) ==
  CASE nodes[h].kind = "root"    -> {<<"root">>}
    [] nodes[h].kind = "propose" -> {<<"parent", nodes[h].parent>>}
    [] nodes[h].kind = "join"    -> {<<"join", Cardinality(nodes[h].sources)>>,
                                     <<"merged", h>>}

(* The provenance that at least two children of p share.                   *)
ForkFields(p) ==
  {f \in UNION {Provenance(k) : k \in Kids(p)} :
     \E a, b \in Kids(p) : a # b /\ f \in Provenance(a) \cap Provenance(b)}

(* The conflict fields of join(P): those of the fork every parent that has *)
(* a sibling in the request comes from.                                    *)
JoinConflicts(P) ==
  UNION {ForkFields(nodes[a].parent) :
           a \in {x \in P : nodes[x].parent # NoHash /\ P # {x}}}

(* lineage and is_ancestor: the walk along parent links, which stops at a  *)
(* hash that is None, unknown or already seen; oldest node first.          *)
Walk[w \in (Hash \cup {NoHash}) \X SUBSET Hash] ==
  LET cur == w[1]
      seen == w[2]
  IN  IF cur \in Known \ seen
      THEN Append(Walk[<<nodes[cur].parent, seen \cup {cur}>>], cur)
      ELSE <<>>

LineageOf(h) == Walk[<<h, {}>>]

IsAncestor(a, d) == LET line == LineageOf(d)
                    IN  \E i \in DOMAIN line : line[i] = a

----------------------------------------------------------------------------
Init ==
  /\ nodes = [h \in {} |-> RootNode]
  /\ children = [h \in Hash |-> <<>>]
  /\ heads = {}
  /\ root = NoHash

Fits(h) == Cardinality(Known \cup {h}) =< MaxNodes

(* add_root stores without asking whether the hash is already a node.      *)
AddRoot(h) ==
  /\ Fits(h)
  /\ nodes' = Store(h, RootNode)
  /\ heads' = heads \cup {h}
  /\ root' = h
  /\ UNCHANGED children

MutProposeOrphan(p, h) == h \notin Known
MutProposeKnown(p, h) == p \in Known

(* propose(p, mutation), h being the digest of the mutation: an unknown    *)
(* parent and a known digest both leave the graph as it is.                *)
CanPropose(p, h) == p \in Known /\ h \notin Known

Propose(p, h) ==
  /\ CanPropose(p, h)
  /\ Fits(h)
  /\ nodes' = Store(h, ProposedNode(p))
  /\ children' = IndexChild(p, h)
  /\ heads' = Supersede({p}, h)
  /\ UNCHANGED root

(* join of the branches P under the conflict resolution r.                 *)
Join(P, r) ==
  LET merged == MergedHash(r, P)
  IN  /\ P \subseteq Known
      /\ JoinConflicts(P) = {} \/ r # EmptyPayload
      /\ merged \in Hash
      /\ Fits(merged)
      /\ nodes' = Store(merged, MergedNode(r, P))
      /\ heads' = Supersede(P, merged)
      /\ UNCHANGED <<children, root>>

Next ==
  \/ \E h \in RootName : AddRoot(h)
  \/ \E p \in Hash, h \in Payload : Propose(p, h)
  \/ \E P \in ParentSets, r \in Payload : Join(P, r)

Spec == Init /\ [][Next]_graph

----------------------------------------------------------------------------
(* The graph holds nodes, lists of hashes, hashes and a root.              *)
TypeOK ==
  /\ Known \subseteq Hash
  /\ nodes \in [Known -> Node]
  /\ children \in [Hash -> Seq(Hash)]
  /\ heads \subseteq Hash
  /\ root \in Hash \cup {NoHash}

(* What verify_graph_consistent of atc.py asks: every parent link resolves *)
(* and every head is a node.                                               *)
GraphConsistent ==
  /\ \A h \in Known : nodes[h].parent \in Known \cup {NoHash}
  /\ heads \subseteq Known

(* Parent links never close a cycle: every non-empty set of nodes has one  *)
(* whose parent is outside it.                                             *)
Acyclic ==
  \A S \in SUBSET Known : S # {} => \E h \in S : nodes[h].parent \notin S

(* Every lineage reaches back to a node without parent, so the guard of    *)
(* the walk against cycles never decides, and no two states are each       *)
(* other's ancestor.                                                       *)
AncestryOrdered ==
  /\ \A h \in Known : nodes[LineageOf(h)[1]].parent = NoHash
  /\ \A a, d \in Known : a # d /\ IsAncestor(a, d) => ~IsAncestor(d, a)

(* The index of children agrees with the parent links: every linked node   *)
(* is indexed under its parent; an indexed hash is a node, of that parent  *)
(* unless a later root or join overwrote it; and no hash is indexed twice, *)
(* under one parent or under two.                                          *)
ChildIndexSound ==
  /\ \A h \in Known : nodes[h].parent # NoHash => Indexed(nodes[h].parent, h)
  /\ \A p \in Hash \ Known : children[p] = <<>>
  /\ \A p \in Known : \A i \in DOMAIN children[p] :
       /\ children[p][i] \in Known
       /\ nodes[children[p][i]].parent \in {p, NoHash}
  /\ \A p, q \in Known : \A i \in DOMAIN children[p], j \in DOMAIN children[q] :
       children[p][i] = children[q][j] => p = q /\ i = j

(* A proposed state that has been built upon is no head.  (A root or a     *)
(* merge may be: add_root and a retried join add theirs to the heads       *)
(* whatever it already carries.)                                           *)
SupersededNotHead ==
  \A h \in heads : nodes[h].kind = "propose" => Kids(h) = {}

(* A state stops being a head only because something stands in its place:  *)
(* a child indexed under it or a merge that names it as a source.  The one *)
(* way to forget it is a root laid over that merge, whose node then names  *)
(* no source (lgc.py:164).                                                 *)
Overlaid(h) ==
  \E P \in ParentSets, r \in Payload :
     LET merge == MergedHash(r, P)
     IN  h \in P /\ merge \in Known /\ nodes[merge].kind = "root"

NoStateLost ==
  \A h \in Known \ heads :
     Kids(h) # {} \/ (\E m \in Known : h \in nodes[m].sources) \/ Overlaid(h)

(* Sibling branches are never merged without a resolution: a merge made    *)
(* with the empty one has no two sources proposed from the same parent.    *)
SiblingsJoinedExplicitly ==
  \A m \in Known :
     nodes[m].kind = "join" /\ nodes[m].resolution = EmptyPayload =>
       \A a, b \in nodes[m].sources :
          /\ a # b
          /\ nodes[a].kind = "propose"
          /\ nodes[b].kind = "propose"
          => nodes[a].parent # nodes[b].parent
=============================================================================
