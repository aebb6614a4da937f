------------------------- MODULE TransactionProofs -------------------------
(***************************************************************************)
(* Theorems of Transactions and of Recovery, which wraps it, proved for    *)
(* any graph and any number and depth of runs, checkpoints and journal     *)
(* entries.                                                                *)
(*                                                                         *)
(* Of Transactions: its types, that snapshots nest, that what was          *)
(* committed stays, and that it implements AtomicGraph.  The argument is   *)
(* about Levels: the snapshots of the open runs, outermost first, and the  *)
(* graph on top of them.  The first level is what is visible from outside; *)
(* a write changes only the last one, a commit drops the last but one, a   *)
(* rollback the last.                                                      *)
(*                                                                         *)
(* Of Recovery, interrupts included: a graph left between two statements   *)
(* of add_root, propose or join, or with part of a run in it, is still a   *)
(* consistent one, and so is every snapshot taken of it, unless a restore  *)
(* was interrupted between the nodes and the heads.                        *)
(***************************************************************************)
EXTENDS Recovery, LineageProofs, SequenceTheorems

NodeMap == UNION {[D -> Node] : D \in SUBSET Hash}

Graph == [nodes : NodeMap, children : [Hash -> Seq(Hash)],
          heads : SUBSET Hash, root : Hash \cup {NoHash}]

Run == [before : Graph, created : SUBSET Hash]

Report == [status : {"COMMITTED", "ROLLED_BACK"}, nodes : SUBSET Hash, depth : 1 .. MaxDepth]

(* What verify_graph_consistent asks, of a snapshot.                       *)
Sound(g) ==
  /\ g.heads \subseteq DOMAIN g.nodes
  /\ \A h \in DOMAIN g.nodes : g.nodes[h].parent \in DOMAIN g.nodes \cup {NoHash}

Depth == Len(open)

LevelsOf(stack, g) ==
  [i \in 1 .. Len(stack) + 1 |-> IF i = Len(stack) + 1 THEN g ELSE stack[i].before]

Levels == LevelsOf(open, Snapshot)

(* The inductive invariant: every level is a sound graph grown from the    *)
(* one below it, and has the nodes that the runs below it created.         *)
StackTyped == open \in Seq(Run) /\ Depth =< MaxDepth

LevelsSound == \A i \in 1 .. Depth + 1 : Levels[i] \in Graph /\ Sound(Levels[i])

LevelsGrow ==
  \A i, j \in 1 .. Depth + 1 : i < j => Atomic!GrewFrom(Levels[i], Levels[j])

CreatedKept ==
  \A i \in 1 .. Depth, j \in 1 .. Depth + 1 :
    i < j => open[i].created \subseteq DOMAIN Levels[j].nodes

StackInv == StackTyped /\ LevelsSound /\ LevelsGrow /\ CreatedKept

TxInv == StackInv /\ history \in Seq(Report) /\ CommittedKept

-----------------------------------------------------------------------------
LEMMA NodeMaps ==
  ASSUME NEW m PROVE m \in NodeMap <=> DOMAIN m \subseteq Hash /\ m \in [DOMAIN m -> Node]
BY DEF NodeMap

LEMMA GraphTypes == (Snapshot \in Graph <=> TypeOK) /\ (Snapshot' \in Graph <=> TypeOK')
<1>1. ASSUME NEW n, NEW c, NEW h, NEW r
      PROVE  [nodes |-> n, children |-> c, heads |-> h, root |-> r] \in Graph
             <=> /\ DOMAIN n \subseteq Hash /\ n \in [DOMAIN n -> Node]
                 /\ c \in [Hash -> Seq(Hash)] /\ h \subseteq Hash /\ r \in Hash \cup {NoHash}
  <2>1. [nodes |-> n, children |-> c, heads |-> h, root |-> r] \in Graph
        <=> n \in NodeMap /\ c \in [Hash -> Seq(Hash)] /\ h \in SUBSET Hash
            /\ r \in Hash \cup {NoHash}
    BY DEF Graph
  <2> QED  BY <2>1, NodeMaps
<1> QED  BY <1>1 DEF Snapshot, TypeOK, Known

LEMMA SnapshotTypes ==
  ASSUME NEW g \in Graph PROVE IsSnapshot(g)
<1>1. g.nodes \in NodeMap  BY DEF Graph
<1>2. DOMAIN g = {"nodes", "children", "heads", "root"}  BY DEF Graph
<1>3. /\ g.children \in [Hash -> Seq(Hash)] /\ g.heads \subseteq Hash
      /\ g.root \in Hash \cup {NoHash}
  BY DEF Graph
<1> QED  BY <1>1, <1>2, <1>3, NodeMaps DEF IsSnapshot

LEMMA SoundGraph ==
  ASSUME Snapshot \in Graph, Sound(Snapshot) PROVE TypeOK /\ GraphConsistent
<1>1. GraphConsistent  BY DEF Sound, Snapshot, GraphConsistent, Known
<1> QED  BY <1>1, GraphTypes

(* A snapshot put back is the graph.                                       *)
LEMMA Restored ==
  ASSUME NEW s \in Graph, Restore(s) PROVE Snapshot' = s
BY DEF Graph, Restore, Snapshot

LEMMA GrewRefl == ASSUME NEW g PROVE Atomic!GrewFrom(g, g)
BY DEF Atomic!GrewFrom

LEMMA GrewTrans ==
  ASSUME NEW g, NEW k, NEW l, Atomic!GrewFrom(g, k), Atomic!GrewFrom(k, l)
  PROVE  Atomic!GrewFrom(g, l)
<1>1. DOMAIN g.nodes \subseteq DOMAIN l.nodes  BY DEF Atomic!GrewFrom
<1>2. ASSUME NEW h \in DOMAIN g.nodes
      PROVE  l.nodes[h].parent \in {g.nodes[h].parent, NoHash}
  <2>1. k.nodes[h].parent \in {g.nodes[h].parent, NoHash} /\ h \in DOMAIN k.nodes
    BY <1>2 DEF Atomic!GrewFrom
  <2>2. l.nodes[h].parent \in {k.nodes[h].parent, NoHash}
    BY <2>1 DEF Atomic!GrewFrom
  <2> QED  BY <2>1, <2>2
<1> QED  BY <1>1, <1>2 DEF Atomic!GrewFrom

-----------------------------------------------------------------------------
(* A step of the graph that stores at most the node h.                     *)
Stores(h) ==
  /\ h \in Known'
  /\ Sound(Snapshot')
  /\ Atomic!GrewFrom(Snapshot, Snapshot')
  /\ \A k \in Known' \ {h} : k \in Known /\ nodes'[k] = nodes[k]

LEMMA StoreStores ==
  ASSUME TypeOK, GraphConsistent, NEW h \in Hash, NEW n,
         nodes' = Store(h, n),
         n.parent \in Known \cup {NoHash},
         h \in Known => n.parent = NoHash,
         heads' \subseteq Known'
  PROVE  Stores(h)
<1>1. Known' = Known \cup {h} /\ nodes'[h] = n
      /\ \A k \in Known \ {h} : nodes'[k] = nodes[k]
  BY DEF Store, Known
<1>2. /\ Snapshot.nodes = nodes
      /\ Snapshot'.nodes = nodes' /\ Snapshot'.heads = heads'
  BY DEF Snapshot
<1>3. Sound(Snapshot')
  BY <1>1, <1>2 DEF Sound, GraphConsistent, Known
<1>4. Atomic!GrewFrom(Snapshot, Snapshot')
  BY <1>1, <1>2 DEF Atomic!GrewFrom, Known
<1> QED  BY <1>1, <1>3, <1>4 DEF Stores

LEMMA WriteStores ==
  ASSUME TypeOK, GraphConsistent, Write
  PROVE  \E h \in Hash : Stores(h) /\ Wrote(h)
<1> USE HashAssumption
<1>1. CASE \E h \in RootName : AddRoot(h) /\ Wrote(h)
  <2>1. PICK h \in RootName : AddRoot(h) /\ Wrote(h)  BY <1>1
  <2>2. /\ nodes' = Store(h, RootNode) /\ heads' = heads \cup {h}
        /\ RootNode.parent = NoHash
    BY <2>1 DEF AddRoot, RootNode
  <2>3. heads' \subseteq Known'  BY <2>2 DEF Store, Known, GraphConsistent
  <2>4. Stores(h)  BY <2>2, <2>3, StoreStores
  <2> QED  BY <2>1, <2>4
<1>2. CASE \E p \in Hash, h \in Payload : Propose(p, h) /\ Wrote(h)
  <2>1. PICK p \in Hash, h \in Payload : Propose(p, h) /\ Wrote(h)  BY <1>2
  <2>2. /\ nodes' = Store(h, ProposedNode(p)) /\ heads' = Supersede({p}, h)
        /\ ProposedNode(p).parent = p /\ p \in Known /\ h \notin Known
    BY <2>1 DEF Propose, CanPropose, ProposedNode
  <2>3. heads' \subseteq Known'  BY <2>2 DEF Store, Known, GraphConsistent, Supersede
  <2>4. Stores(h)  BY <2>2, <2>3, StoreStores
  <2> QED  BY <2>1, <2>4
<1>3. CASE \E P \in ParentSets, r \in Payload : Join(P, r) /\ Wrote(MergedHash(r, P))
  <2>1. PICK P \in ParentSets, r \in Payload : Join(P, r) /\ Wrote(MergedHash(r, P))
    BY <1>3
  <2> DEFINE h == MergedHash(r, P)
  <2>2. /\ nodes' = Store(h, MergedNode(r, P)) /\ heads' = Supersede(P, h)
        /\ MergedNode(r, P).parent = NoHash /\ h \in Hash /\ Wrote(h)
    BY <2>1 DEF Join, MergedNode
  <2> HIDE DEF h
  <2>3. heads' \subseteq Known'  BY <2>2 DEF Store, Known, GraphConsistent, Supersede
  <2>4. Stores(h)  BY <2>2, <2>3, StoreStores
  <2> QED  BY <2>2, <2>4
<1> QED  BY <1>1, <1>2, <1>3 DEF Write

LEMMA WriteTypes == ASSUME TypeOK, Write PROVE TypeOK'
<1>1. Next  BY DEF Write, Next
<1> QED  BY <1>1, TypeNext

-----------------------------------------------------------------------------
(* The beginning of a sequence.                                            *)
LEMMA Prefix ==
  ASSUME NEW S, NEW s \in Seq(S), NEW n \in Nat, n =< Len(s)
  PROVE  /\ SubSeq(s, 1, n) \in Seq(S)
         /\ Len(SubSeq(s, 1, n)) = n
         /\ \A i \in 1 .. n : SubSeq(s, 1, n)[i] = s[i]
<1>1. 1 \in Int /\ n \in Int /\ n - 1 + 1 = n /\ \A i \in 1 .. n : s[i] \in S  OBVIOUS
<1>2. /\ SubSeq(s, 1, n) \in Seq(S)
      /\ Len(SubSeq(s, 1, n)) = IF 1 =< n THEN n - 1 + 1 ELSE 0
      /\ \A i \in 1 .. n - 1 + 1 : SubSeq(s, 1, n)[i] = s[1 + i - 1]
  BY <1>1, SubSeqProperties
<1> QED  BY <1>1, <1>2

(* The stack without its innermost run.                                    *)
LEMMA OuterRuns ==
  ASSUME open \in Seq(Run), open # <<>>
  PROVE  /\ Depth \in Nat \ {0}
         /\ Outer \in Seq(Run)
         /\ Len(Outer) = Depth - 1
         /\ \A i \in 1 .. Depth - 1 : Outer[i] = open[i]
         /\ Top = open[Depth] /\ Top \in Run
         /\ (Outer = <<>>) <=> (Depth = 1)
<1>1. Depth \in Nat \ {0}  BY DEF Depth
<1>2. Depth - 1 \in Nat /\ Depth - 1 =< Len(open) /\ Outer = SubSeq(open, 1, Depth - 1)
  BY <1>1 DEF Outer, Depth
<1>3. /\ Outer \in Seq(Run) /\ Len(Outer) = Depth - 1
      /\ \A i \in 1 .. Depth - 1 : Outer[i] = open[i]
  <2> DEFINE n == Depth - 1
  <2>1. n \in Nat /\ n =< Len(open)  BY <1>2
  <2> HIDE DEF n
  <2>2. /\ SubSeq(open, 1, n) \in Seq(Run) /\ Len(SubSeq(open, 1, n)) = n
        /\ \A i \in 1 .. n : SubSeq(open, 1, n)[i] = open[i]
    BY <2>1, Prefix
  <2> QED  BY <1>2, <2>2 DEF n
<1>4. Top = open[Depth] /\ Top \in Run  BY <1>1 DEF Top, Depth
<1> QED  BY <1>1, <1>3, <1>4

(* Noting hashes adds them to the list of the innermost run, if there is   *)
(* one.                                                                    *)
LEMMA NotedRuns ==
  ASSUME NEW stack \in Seq(Run), NEW H \in SUBSET Hash
  PROVE  /\ Noted(stack, H) \in Seq(Run)
         /\ Len(Noted(stack, H)) = Len(stack)
         /\ \A i \in 1 .. Len(stack) :
              /\ Noted(stack, H)[i].before = stack[i].before
              /\ Noted(stack, H)[i].created =
                   IF i = Len(stack) THEN stack[i].created \cup H ELSE stack[i].created
<1>1. CASE stack = <<>>  BY <1>1 DEF Noted
<1>2. CASE stack # <<>>
  <2> DEFINE n == Len(stack)
             run == [stack[n] EXCEPT !.created = @ \cup H]
  <2>1. n \in Nat \ {0} /\ stack[n] \in Run  BY <1>2
  <2>2. /\ run \in Run /\ run.before = stack[n].before
        /\ run.created = stack[n].created \cup H
    BY <2>1 DEF Run
  <2>3. Noted(stack, H) = [stack EXCEPT ![n] = run]
    BY <1>2 DEF Noted
  <2> HIDE DEF run
  <2>4. /\ Noted(stack, H) \in Seq(Run) /\ Len(Noted(stack, H)) = n
        /\ \A i \in 1 .. n : Noted(stack, H)[i] = IF i = n THEN run ELSE stack[i]
    BY <2>1, <2>2, <2>3, ExceptSeq
  <2> QED  BY <2>1, <2>2, <2>4
<1> QED  BY <1>1, <1>2

-----------------------------------------------------------------------------
LEMMA LevelsOfStack ==
  ASSUME NEW stack \in Seq(Run), NEW g
  PROVE  /\ \A i \in 1 .. Len(stack) : LevelsOf(stack, g)[i] = stack[i].before
         /\ LevelsOf(stack, g)[Len(stack) + 1] = g
         /\ (IF stack = <<>> THEN g ELSE stack[1].before) = LevelsOf(stack, g)[1]
<1>1. Len(stack) \in Nat /\ (stack = <<>> <=> Len(stack) = 0)  OBVIOUS
<1>2. /\ \A i \in 1 .. Len(stack) : LevelsOf(stack, g)[i] = stack[i].before
      /\ LevelsOf(stack, g)[Len(stack) + 1] = g
  BY <1>1 DEF LevelsOf
<1> QED  BY <1>1, <1>2

LEMMA LevelsAre ==
  ASSUME open \in Seq(Run)
  PROVE  /\ Depth \in Nat
         /\ \A i \in 1 .. Depth : Levels[i] = open[i].before
         /\ Levels[Depth + 1] = Snapshot
         /\ Visible = Levels[1]
BY LevelsOfStack DEF Depth, Levels, Visible

LEMMA LevelsNext ==
  ASSUME open' \in Seq(Run)
  PROVE  /\ Depth' \in Nat
         /\ \A i \in 1 .. Depth' : Levels'[i] = open'[i].before
         /\ Levels'[Depth' + 1] = Snapshot'
         /\ Visible' = Levels'[1]
BY LevelsOfStack DEF Depth, Levels, Visible

(* A run begins: one more level, equal to the last.                        *)
LEMMA BeginStep ==
  ASSUME StackInv, Begin
  PROVE  StackInv' /\ Visible' = Visible
<1>1. open \in Seq(Run)  BY DEF StackInv, StackTyped
<1>2. /\ Depth \in Nat /\ Levels[Depth + 1] = Snapshot /\ Visible = Levels[1]
      /\ \A i \in 1 .. Depth : Levels[i] = open[i].before
  BY <1>1, LevelsAre
<1>3. Snapshot' = Snapshot  BY DEF Begin, Snapshot, graph
<1>4. Snapshot \in Graph /\ Sound(Snapshot)  BY <1>2 DEF StackInv, LevelsSound
<1> DEFINE run == [before |-> Snapshot, created |-> {}]
<1>5. run \in Run /\ run.before = Snapshot /\ run.created = {}  BY <1>4 DEF Run
<1>6. open' = Append(open, run) /\ Depth < MaxDepth  BY DEF Begin, Depth
<1> HIDE DEF run
<1>7. /\ open' \in Seq(Run) /\ Depth' = Depth + 1 /\ open'[Depth + 1] = run
      /\ \A i \in 1 .. Depth : open'[i] = open[i]
  BY <1>1, <1>5, <1>6 DEF Depth
<1>8. /\ Levels'[Depth + 2] = Snapshot /\ Levels'[Depth + 1] = Snapshot
      /\ \A i \in 1 .. Depth : Levels'[i] = Levels[i]
  BY <1>2, <1>3, <1>5, <1>7, LevelsNext
<1>9. StackTyped'  BY <1>2, <1>6, <1>7, TxAssumption DEF StackTyped
<1>10. LevelsSound'  BY <1>2, <1>4, <1>7, <1>8 DEF StackInv, LevelsSound
<1>11. LevelsGrow'
  <2> SUFFICES ASSUME NEW i \in 1 .. Depth + 2, NEW j \in 1 .. Depth + 2, i < j
               PROVE  Atomic!GrewFrom(Levels'[i], Levels'[j])
    BY <1>2, <1>7 DEF LevelsGrow
  <2>1. CASE i = Depth + 1
    BY <2>1, <1>2, <1>8, GrewRefl
  <2>2. CASE i < Depth + 1
    <3>1. PICK k \in 1 .. Depth + 1 : i < k /\ Levels'[j] = Levels[k]
      BY <2>2, <1>2, <1>8
    <3> QED  BY <3>1, <2>2, <1>2, <1>8 DEF StackInv, LevelsGrow
  <2> QED  BY <2>1, <2>2, <1>2
<1>12. CreatedKept'
  <2> SUFFICES ASSUME NEW i \in 1 .. Depth + 1, NEW j \in 1 .. Depth + 2, i < j
               PROVE  open'[i].created \subseteq DOMAIN Levels'[j].nodes
    BY <1>2, <1>7 DEF CreatedKept
  <2>1. CASE i = Depth + 1  BY <2>1, <1>5, <1>7
  <2>2. CASE i < Depth + 1
    <3>1. PICK k \in 1 .. Depth + 1 : i < k /\ Levels'[j] = Levels[k]
      BY <2>2, <1>2, <1>8
    <3> QED  BY <3>1, <2>2, <1>2, <1>7 DEF StackInv, CreatedKept
  <2> QED  BY <2>1, <2>2, <1>2
<1>13. Visible' = Visible
  <2>1. Visible' = Levels'[1]  BY <1>7, LevelsNext
  <2> QED  BY <2>1, <1>2, <1>8
<1> QED  BY <1>9, <1>10, <1>11, <1>12, <1>13 DEF StackInv

(* A write, or a propose of what is known, changes the last level only.    *)
LEMMA WriteStep ==
  ASSUME StackInv, NEW h \in Hash, Wrote(h), h \in Known',
         Snapshot' \in Graph, Sound(Snapshot'), Atomic!GrewFrom(Snapshot, Snapshot')
  PROVE  StackInv' /\ (open # <<>> => Visible' = Visible)
<1>1. open \in Seq(Run)  BY DEF StackInv, StackTyped
<1>2. /\ Depth \in Nat /\ Levels[Depth + 1] = Snapshot /\ Visible = Levels[1]
      /\ \A i \in 1 .. Depth : Levels[i] = open[i].before
      /\ open # <<>> => Depth > 0
  BY <1>1, LevelsAre DEF Depth
<1>3. {h} \in SUBSET Hash /\ open' = Noted(open, {h})  BY DEF Wrote
<1>4. /\ open' \in Seq(Run) /\ Depth' = Depth
      /\ \A i \in 1 .. Depth :
           /\ open'[i].before = open[i].before
           /\ open'[i].created = IF i = Depth THEN open[i].created \cup {h}
                                              ELSE open[i].created
  BY <1>1, <1>3, NotedRuns DEF Depth
<1>5. /\ Levels'[Depth + 1] = Snapshot'
      /\ \A i \in 1 .. Depth : Levels'[i] = Levels[i]
  BY <1>2, <1>4, LevelsNext
<1>6. StackTyped'  BY <1>4 DEF StackInv, StackTyped
<1>7. LevelsSound'  BY <1>2, <1>4, <1>5 DEF StackInv, LevelsSound
<1>8. LevelsGrow'
  <2> SUFFICES ASSUME NEW i \in 1 .. Depth + 1, NEW j \in 1 .. Depth + 1, i < j
               PROVE  Atomic!GrewFrom(Levels'[i], Levels'[j])
    BY <1>4 DEF LevelsGrow
  <2>1. Atomic!GrewFrom(Levels[i], Levels[j]) /\ Levels'[i] = Levels[i]
    BY <1>2, <1>5 DEF StackInv, LevelsGrow
  <2>2. CASE j < Depth + 1  BY <2>1, <2>2, <1>2, <1>5
  <2>3. CASE j = Depth + 1
    <3>1. Atomic!GrewFrom(Levels[i], Snapshot)  BY <2>1, <2>3, <1>2
    <3>2. Atomic!GrewFrom(Levels[i], Snapshot')  BY <3>1, GrewTrans
    <3> QED  BY <3>2, <2>1, <2>3, <1>5
  <2> QED  BY <2>2, <2>3, <1>2
<1>9. CreatedKept'
  <2>1. /\ DOMAIN Snapshot.nodes \subseteq DOMAIN Snapshot'.nodes
        /\ h \in DOMAIN Snapshot'.nodes
    BY DEF Atomic!GrewFrom, Snapshot, Known
  <2> SUFFICES ASSUME NEW i \in 1 .. Depth, NEW j \in 1 .. Depth + 1, i < j
               PROVE  open'[i].created \subseteq DOMAIN Levels'[j].nodes
    BY <1>4 DEF CreatedKept
  <2>2. open[i].created \subseteq DOMAIN Levels[j].nodes
    BY DEF StackInv, CreatedKept
  <2>3. CASE j < Depth + 1
    <3>1. i # Depth /\ j \in 1 .. Depth  BY <2>3, <1>2
    <3> QED  BY <3>1, <2>2, <1>4, <1>5
  <2>4. CASE j = Depth + 1  BY <2>1, <2>2, <2>4, <1>2, <1>4, <1>5
  <2> QED  BY <2>3, <2>4, <1>2
<1>10. open # <<>> => Visible' = Visible
  <2>1. Visible' = Levels'[1]  BY <1>4, LevelsNext
  <2> QED  BY <2>1, <1>2, <1>5
<1> QED  BY <1>6, <1>7, <1>8, <1>9, <1>10 DEF StackInv

(* A commit keeps the graph and gives up the snapshot below it.            *)
LEMMA CommitStep ==
  ASSUME StackInv, open # <<>>, UNCHANGED graph,
         NEW H \in {{}, Top.created}, open' = Noted(Outer, H)
  PROVE  /\ StackInv'
         /\ Depth = 1 => Visible' = Snapshot
         /\ Depth # 1 => Visible' = Visible
<1>1. open \in Seq(Run)  BY DEF StackInv, StackTyped
<1>2. /\ Levels[Depth + 1] = Snapshot /\ Visible = Levels[1]
      /\ \A i \in 1 .. Depth : Levels[i] = open[i].before
  BY <1>1, LevelsAre
<1>3. /\ Depth \in Nat \ {0} /\ Outer \in Seq(Run) /\ Len(Outer) = Depth - 1
      /\ \A i \in 1 .. Depth - 1 : Outer[i] = open[i]
      /\ Top = open[Depth] /\ Top \in Run
  BY <1>1, OuterRuns
<1>4. H \in SUBSET Hash /\ H \subseteq Top.created  BY <1>3 DEF Run
<1>5. /\ open' \in Seq(Run) /\ Len(open') = Len(Outer)
      /\ \A i \in 1 .. Len(Outer) :
           /\ open'[i].before = Outer[i].before
           /\ open'[i].created = IF i = Len(Outer) THEN Outer[i].created \cup H
                                                   ELSE Outer[i].created
  BY <1>3, <1>4, NotedRuns
<1>6. /\ Depth' = Depth - 1
      /\ \A i \in 1 .. Depth - 1 :
           /\ open'[i].before = open[i].before
           /\ open'[i].created \subseteq open[i].created \cup open[Depth].created
           /\ i < Depth - 1 => open'[i].created = open[i].created
  <2>1. Depth' = Depth - 1  BY <1>3, <1>5 DEF Depth
  <2>2. ASSUME NEW i \in 1 .. Depth - 1
        PROVE  /\ open'[i].before = open[i].before
               /\ open'[i].created \subseteq open[i].created \cup open[Depth].created
               /\ i < Depth - 1 => open'[i].created = open[i].created
    <3>1. i \in 1 .. Len(Outer) /\ Outer[i] = open[i]  BY <1>3
    <3>2. /\ open'[i].before = open[i].before
          /\ open'[i].created = IF i = Depth - 1 THEN open[i].created \cup H
                                                 ELSE open[i].created
      BY <3>1, <1>3, <1>5
    <3> QED  BY <3>2, <1>3, <1>4
  <2> QED  BY <2>1, <2>2
<1>7. Snapshot' = Snapshot  BY DEF Snapshot, graph
<1>8. /\ Levels'[Depth] = Levels[Depth + 1]
      /\ \A i \in 1 .. Depth - 1 : Levels'[i] = Levels[i]
  BY <1>2, <1>3, <1>5, <1>6, <1>7, LevelsNext
<1>9. StackTyped'  BY <1>3, <1>5, <1>6, TxAssumption DEF StackInv, StackTyped
<1>10. LevelsSound'
  BY <1>3, <1>6, <1>8 DEF StackInv, LevelsSound
<1>11. LevelsGrow'
  <2> SUFFICES ASSUME NEW i \in 1 .. Depth, NEW j \in 1 .. Depth, i < j
               PROVE  Atomic!GrewFrom(Levels'[i], Levels'[j])
    BY <1>3, <1>6 DEF LevelsGrow
  <2>1. PICK k \in 1 .. Depth + 1 : i < k /\ Levels'[j] = Levels[k]
    BY <1>3, <1>8
  <2> QED  BY <2>1, <1>3, <1>8 DEF StackInv, LevelsGrow
<1>12. CreatedKept'
  <2> SUFFICES ASSUME NEW i \in 1 .. Depth - 1, NEW j \in 1 .. Depth, i < j
               PROVE  open'[i].created \subseteq DOMAIN Levels'[j].nodes
    BY <1>3, <1>6 DEF CreatedKept
  <2>1. CASE j < Depth
    BY <2>1, <1>3, <1>6, <1>8 DEF StackInv, CreatedKept
  <2>2. CASE j = Depth
    <3>1. /\ open[i].created \subseteq DOMAIN Levels[Depth + 1].nodes
          /\ open[Depth].created \subseteq DOMAIN Levels[Depth + 1].nodes
      BY <1>3 DEF StackInv, CreatedKept
    <3> QED  BY <3>1, <2>2, <1>6, <1>8
  <2> QED  BY <2>1, <2>2, <1>3
<1>13. Visible' = Levels'[1]
  BY <1>5, LevelsNext
<1> QED  BY <1>2, <1>3, <1>8, <1>9, <1>10, <1>11, <1>12, <1>13 DEF StackInv

(* What puts a run's snapshot back gives up the last level.                *)
LEMMA UndoStep ==
  ASSUME StackInv, open # <<>>, Restore(Top.before), open' = Outer
  PROVE  StackInv' /\ Visible' = Visible
<1>1. open \in Seq(Run)  BY DEF StackInv, StackTyped
<1>2. /\ Visible = Levels[1]
      /\ \A i \in 1 .. Depth : Levels[i] = open[i].before
  BY <1>1, LevelsAre
<1>3. /\ Depth \in Nat \ {0} /\ Outer \in Seq(Run) /\ Len(Outer) = Depth - 1
      /\ \A i \in 1 .. Depth - 1 : Outer[i] = open[i]
      /\ Top = open[Depth] /\ Top \in Run
  BY <1>1, OuterRuns
<1>4. Snapshot' = Levels[Depth]
  <2>1. Top.before \in Graph  BY <1>3 DEF Run
  <2> QED  BY <2>1, <1>2, <1>3, Restored
<1>5. /\ open' \in Seq(Run) /\ Depth' = Depth - 1
      /\ \A i \in 1 .. Depth - 1 : open'[i] = open[i]
  BY <1>3 DEF Depth
<1>6. \A i \in 1 .. Depth : Levels'[i] = Levels[i]
  BY <1>2, <1>3, <1>4, <1>5, LevelsNext
<1>7. StackTyped'  BY <1>3, <1>5, TxAssumption DEF StackInv, StackTyped
<1>8. LevelsSound'
  <2> SUFFICES ASSUME NEW i \in 1 .. Depth PROVE Levels'[i] \in Graph /\ Sound(Levels'[i])
    BY <1>3, <1>5 DEF LevelsSound, Sound
  <2> QED  BY <1>3, <1>6 DEF StackInv, LevelsSound
<1>9. LevelsGrow'  BY <1>3, <1>5, <1>6 DEF StackInv, LevelsGrow
<1>10. CreatedKept'  BY <1>3, <1>5, <1>6 DEF StackInv, CreatedKept
<1>11. Visible' = Levels'[1]
  BY <1>5, LevelsNext
<1> QED  BY <1>2, <1>3, <1>6, <1>7, <1>8, <1>9, <1>10, <1>11 DEF StackInv

-----------------------------------------------------------------------------
LEMMA StackInit == TxInit => StackInv
<1> SUFFICES ASSUME TxInit PROVE StackInv
  OBVIOUS
<1>1. open = <<>> /\ open \in Seq(Run) /\ Depth = 0  BY DEF TxInit, Depth
<1>2. Levels[1] = Snapshot  BY <1>1, LevelsAre
<1>3. Snapshot \in Graph  BY TypeInit, GraphTypes DEF TxInit
<1>4. Sound(Snapshot)  BY DEF TxInit, Init, Sound, Snapshot
<1> QED  BY <1>1, <1>2, <1>3, <1>4, TxAssumption
         DEF StackInv, StackTyped, LevelsSound, LevelsGrow, CreatedKept

(* The graph itself is the last level.                                     *)
LEMMA GraphSound ==
  ASSUME StackInv
  PROVE  Snapshot \in Graph /\ Sound(Snapshot) /\ TypeOK /\ GraphConsistent
<1>1. Depth \in Nat /\ Levels[Depth + 1] = Snapshot
  BY LevelsAre DEF StackInv, StackTyped
<1> QED  BY <1>1, SoundGraph DEF StackInv, LevelsSound

(* Every step keeps the stack in order, and what is visible changes with   *)
(* an outermost commit or a write outside all runs, and otherwise not.     *)
LEMMA StackNext ==
  ASSUME StackInv, [TxNext]_vars
  PROVE  /\ StackInv'
         /\ \/ Visible' = Visible
            \/ Write /\ open = <<>> /\ open' = <<>>
            \/ Commit /\ Depth = 1 /\ Visible' = Snapshot
<1>1. CASE Begin  BY <1>1, BeginStep
<1>2. CASE Write
  <2>1. PICK h \in Hash : Stores(h) /\ Wrote(h)  BY <1>2, GraphSound, WriteStores
  <2>2. Snapshot' \in Graph  BY <1>2, GraphSound, WriteTypes, GraphTypes
  <2>3. StackInv' /\ (open # <<>> => Visible' = Visible)
    BY <2>1, <2>2, WriteStep DEF Stores
  <2>4. open = <<>> => open' = <<>>  BY <2>1 DEF Wrote, Noted
  <2> QED  BY <1>2, <2>3, <2>4
<1>3. CASE \E h \in Payload : Reuse(h)
  <2>1. PICK h \in Payload : Reuse(h)  BY <1>3
  <2>2. h \in Hash /\ Wrote(h) /\ open # <<>> /\ Snapshot' = Snapshot /\ h \in Known'
    BY <2>1, HashAssumption DEF Reuse, Snapshot, graph, Known
  <2> QED  BY <2>2, GraphSound, GrewRefl, WriteStep
<1>4. CASE Commit
  <2>1. PICK H \in {{}, Top.created} : open' = Noted(Outer, H)  BY <1>4 DEF Commit
  <2>2. open # <<>> /\ UNCHANGED graph  BY <1>4 DEF Commit
  <2> QED  BY <1>4, <2>1, <2>2, CommitStep
<1>5. CASE Abort  BY <1>5, UndoStep DEF Abort
<1>6. CASE ReturnNone  BY <1>6, UndoStep DEF ReturnNone
<1>7. CASE UNCHANGED vars
  <2>1. open' = open /\ Snapshot' = Snapshot  BY <1>7 DEF vars, Snapshot
  <2>2. Depth' = Depth /\ Levels' = Levels /\ Visible' = Visible
    BY <2>1 DEF Depth, Levels, Visible
  <2>3. StackTyped' /\ CreatedKept'
    BY <2>1, <2>2 DEF StackInv, StackTyped, CreatedKept
  <2>4. LevelsSound' /\ LevelsGrow'
    BY <2>2 DEF StackInv, LevelsSound, LevelsGrow, Sound
  <2> QED  BY <2>2, <2>3, <2>4 DEF StackInv
<1> QED  BY <1>1, <1>2, <1>3, <1>4, <1>5, <1>6, <1>7 DEF TxNext

LEMMA StackInvariant == TxSpec => []StackInv
<1>1. StackInv /\ [TxNext]_vars => StackInv'  BY StackNext
<1> QED  BY <1>1, StackInit, PTL DEF TxSpec

(* Every snapshot a rollback could put back is consistent, the graph has   *)
(* grown from it, and so has every snapshot taken later.                   *)
THEOREM Nested == TxSpec => []SnapshotsNested
<1>1. StackInv => SnapshotsNested
  <2> SUFFICES ASSUME StackInv PROVE SnapshotsNested
    OBVIOUS
  <2>1. /\ Depth \in Nat /\ Levels[Depth + 1] = Snapshot
        /\ \A i \in 1 .. Depth : Levels[i] = open[i].before
        /\ DOMAIN open = 1 .. Depth
    BY LevelsAre DEF StackInv, StackTyped, Depth
  <2>2. ASSUME NEW i \in 1 .. Depth
        PROVE  Sound(open[i].before) /\ Atomic!GrewFrom(open[i].before, Snapshot)
    BY <2>1 DEF StackInv, LevelsSound, LevelsGrow
  <2>3. ASSUME NEW i \in 1 .. Depth, NEW j \in 1 .. Depth, i < j
        PROVE  Atomic!GrewFrom(open[i].before, open[j].before)
    BY <2>1, <2>3 DEF StackInv, LevelsGrow
  <2> QED  BY <2>1, <2>2, <2>3 DEF SnapshotsNested, Sound
<1> QED  BY <1>1, StackInvariant, PTL

-----------------------------------------------------------------------------
(* The record a run leaves is one more report.                             *)
LEMMA Recorded ==
  ASSUME StackInv, history \in Seq(Report), open # <<>>,
         NEW status \in {"COMMITTED", "ROLLED_BACK"},
         history' = Append(history, Record(status))
  PROVE  /\ history' \in Seq(Report)
         /\ DOMAIN history = 1 .. Len(history) /\ Len(history) \in Nat
         /\ DOMAIN history' = 1 .. Len(history) + 1
         /\ \A i \in 1 .. Len(history) : history'[i] = history[i]
         /\ history'[Len(history) + 1] = Record(status)
         /\ Record(status).status = status
         /\ Record(status).depth = Depth
         /\ Record(status).nodes = Top.created
         /\ Top.created \subseteq Known
<1>1. /\ Depth \in Nat \ {0} /\ Top = open[Depth] /\ Top \in Run /\ Depth =< MaxDepth
      /\ Levels[Depth + 1] = Snapshot
  BY OuterRuns, LevelsAre DEF StackInv, StackTyped
<1>2. Depth \in 1 .. MaxDepth  BY <1>1, TxAssumption
<1>3. Record(status) \in Report
  BY <1>1, <1>2 DEF Record, Report, Run, Depth
<1>4. Top.created \subseteq Known
  BY <1>1 DEF StackInv, CreatedKept, Snapshot, Known
<1> QED  BY <1>3, <1>4 DEF Record, Depth

(* What is visible never loses a node.                                     *)
LEMMA VisibleGrows ==
  ASSUME StackInv, [TxNext]_vars
  PROVE  Atomic!GrewFrom(Visible, Visible')
<1>1. CASE Visible' = Visible  BY <1>1, GrewRefl
<1>2. CASE Write /\ open = <<>> /\ open' = <<>>
  <2>1. \E h \in Hash : Stores(h) /\ Wrote(h)  BY <1>2, GraphSound, WriteStores
  <2>2. Atomic!GrewFrom(Snapshot, Snapshot')  BY <2>1 DEF Stores
  <2>3. Visible = Snapshot /\ Visible' = Snapshot'  BY <1>2 DEF Visible
  <2> QED  BY <2>2, <2>3
<1>3. CASE Commit /\ Depth = 1 /\ Visible' = Snapshot
  <2>1. Levels[2] = Snapshot /\ Visible = Levels[1]
    BY <1>3, LevelsAre DEF StackInv, StackTyped
  <2> QED  BY <2>1, <1>3 DEF StackInv, LevelsGrow
<1> QED  BY <1>1, <1>2, <1>3, StackNext

LEMMA TxInvNext == TxInv /\ [TxNext]_vars => TxInv'
<1> SUFFICES ASSUME TxInv, [TxNext]_vars PROVE TxInv'
  OBVIOUS
<1>1. StackInv /\ StackInv' /\ history \in Seq(Report)  BY StackNext DEF TxInv
<1>2. DOMAIN Visible.nodes \subseteq DOMAIN Visible'.nodes
  BY <1>1, VisibleGrows DEF Atomic!GrewFrom
<1>3. CASE history' = history
  BY <1>1, <1>2, <1>3 DEF TxInv, CommittedKept
<1>4. CASE Commit
  <2>1. history' = Append(history, Record("COMMITTED")) /\ open # <<>>  BY <1>4 DEF Commit
  <2>2. /\ history' \in Seq(Report) /\ Len(history) \in Nat
        /\ DOMAIN history = 1 .. Len(history) /\ DOMAIN history' = 1 .. Len(history) + 1
        /\ \A i \in 1 .. Len(history) : history'[i] = history[i]
        /\ history'[Len(history) + 1].depth = Depth
        /\ history'[Len(history) + 1].nodes \subseteq Known
    BY <1>1, <2>1, Recorded
  <2>3. Depth = 1 => Known = DOMAIN Visible'.nodes
    <3>1. PICK H \in {{}, Top.created} : open' = Noted(Outer, H)  BY <1>4 DEF Commit
    <3>2. Depth = 1 => Visible' = Snapshot
      BY <3>1, <2>1, <1>1, <1>4, CommitStep DEF Commit
    <3> QED  BY <3>2 DEF Snapshot, Known
  <2> QED  BY <1>1, <1>2, <2>2, <2>3 DEF TxInv, CommittedKept
<1>5. CASE Abort
  <2>1. history' = Append(history, Record("ROLLED_BACK")) /\ open # <<>>  BY <1>5 DEF Abort
  <2>2. /\ history' \in Seq(Report) /\ Len(history) \in Nat
        /\ DOMAIN history = 1 .. Len(history) /\ DOMAIN history' = 1 .. Len(history) + 1
        /\ \A i \in 1 .. Len(history) : history'[i] = history[i]
        /\ history'[Len(history) + 1].status = "ROLLED_BACK"
    BY <1>1, <2>1, Recorded
  <2> QED  BY <1>1, <1>2, <2>2 DEF TxInv, CommittedKept
<1>6. history' = history \/ Commit \/ Abort
  BY DEF TxNext, Begin, Write, Wrote, Reuse, ReturnNone, vars
<1> QED  BY <1>3, <1>4, <1>5, <1>6

LEMMA TxInvariant == TxSpec => []TxInv
<1>1. TxInit => TxInv
  BY StackInit DEF TxInit, TxInv, CommittedKept
<1> QED  BY <1>1, TxInvNext, PTL DEF TxSpec

(* The open runs hold a snapshot and a list, every record a status.        *)
THEOREM TxTypes == TxSpec => []TxTypeOK
<1>1. TxInv => TxTypeOK
  <2> SUFFICES ASSUME TxInv PROVE TxTypeOK
    OBVIOUS
  <2>1. TypeOK  BY GraphSound DEF TxInv
  <2>2. ASSUME NEW i \in DOMAIN open
        PROVE  IsSnapshot(open[i].before) /\ open[i].created \subseteq Hash
    <3>1. open[i] \in Run  BY DEF TxInv, StackInv, StackTyped
    <3> QED  BY <3>1, SnapshotTypes DEF Run
  <2> QED  BY <2>1, <2>2 DEF TxTypeOK, TxInv, Report
<1> QED  BY <1>1, TxInvariant, PTL

(* What an outermost run was committed with stays visible.                 *)
THEOREM Kept == TxSpec => []CommittedKept
<1>1. TxInv => CommittedKept  BY DEF TxInv
<1> QED  BY <1>1, TxInvariant, PTL

-----------------------------------------------------------------------------
(* A record of depth 1 is a report of AtomicGraph, one of a nested run is  *)
(* not seen.                                                               *)
LEMMA Reports ==
  ASSUME StackInv, history \in Seq(Report), open # <<>>,
         NEW status \in {"COMMITTED", "ROLLED_BACK"},
         history' = Append(history, Record(status))
  PROVE  /\ Depth # 1 => Outcomes' = Outcomes
         /\ Depth = 1 => Atomic!Reported(IF status = "COMMITTED" THEN "committed"
                                         ELSE "rolled_back")
<1> DEFINE n == Len(history) + 1
<1>1. /\ Len(history) \in Nat /\ DOMAIN history = 1 .. Len(history)
      /\ DOMAIN history' = DOMAIN history \cup {n}
      /\ \A i \in DOMAIN history : history'[i] = history[i] /\ i < n
      /\ history'[n].status = status /\ history'[n].depth = Depth
  BY Recorded
<1> HIDE DEF n
<1>2. CASE Depth # 1
  <2>1. Outermost' = Outermost  BY <1>1, <1>2 DEF Outermost
  <2> QED  BY <2>1, <1>1, <1>2 DEF Outcomes, Outcome, Outermost
<1>3. CASE Depth = 1
  <2>1. Outermost' = Outermost \cup {n}  BY <1>1, <1>3 DEF Outermost
  <2>2. /\ DOMAIN Outcomes = Outermost /\ DOMAIN Outcomes' = Outermost'
        /\ Outcomes'[n] = IF status = "COMMITTED" THEN "committed" ELSE "rolled_back"
        /\ \A m \in Outermost : m < n /\ Outcomes'[m] = Outcomes[m]
    BY <2>1, <1>1 DEF Outcomes, Outcome, Outermost
  <2> QED  BY <1>3, <2>1, <2>2 DEF Atomic!Reported
<1> QED  BY <1>2, <1>3

LEMMA AtomicStep ==
  TxInv /\ [TxNext]_vars => [Atomic!Next]_<<Visible, Outcomes>>
<1> SUFFICES ASSUME TxInv, [TxNext]_vars PROVE [Atomic!Next]_<<Visible, Outcomes>>
  OBVIOUS
<1>1. /\ StackInv /\ history \in Seq(Report)
      /\ Atomic!GrewFrom(Visible, Visible')
      /\ \/ Visible' = Visible
         \/ Write /\ open = <<>> /\ open' = <<>>
         \/ Commit /\ Depth = 1 /\ Visible' = Snapshot
  BY StackNext, VisibleGrows DEF TxInv
<1>2. CASE Commit
  <2>1. history' = Append(history, Record("COMMITTED")) /\ open # <<>>  BY <1>2 DEF Commit
  <2>2. /\ Depth # 1 => Outcomes' = Outcomes
        /\ Depth = 1 => Atomic!Reported("committed")
    BY <1>1, <2>1, Reports
  <2>3. Depth # 1 => Visible' = Visible
    <3>1. PICK H \in {{}, Top.created} : open' = Noted(Outer, H)  BY <1>2 DEF Commit
    <3> QED  BY <3>1, <2>1, <1>1, <1>2, CommitStep DEF Commit
  <2> QED  BY <1>1, <2>2, <2>3 DEF Atomic!Next, Atomic!Commit
<1>3. CASE Abort
  <2>1. history' = Append(history, Record("ROLLED_BACK")) /\ open # <<>>  BY <1>3 DEF Abort
  <2>2. /\ Depth # 1 => Outcomes' = Outcomes
        /\ Depth = 1 => Atomic!Reported("rolled_back")
    BY <1>1, <2>1, Reports
  <2>3. Visible' = Visible  BY <1>1, <1>3, UndoStep DEF Abort
  <2> QED  BY <2>2, <2>3 DEF Atomic!Next, Atomic!RollBack
<1>4. CASE Write /\ open = <<>> /\ open' = <<>>
  <2>1. PICK h \in Hash : Stores(h) /\ Wrote(h)  BY <1>1, <1>4, GraphSound, WriteStores
  <2>2. Visible = Snapshot /\ Visible' = Snapshot'  BY <1>4 DEF Visible
  <2>3. Outcomes' = Outcomes  BY <2>1 DEF Wrote, Outcomes, Outermost
  <2>4. /\ h \in DOMAIN Visible'.nodes
        /\ \A k \in DOMAIN Visible'.nodes \ {h} :
             k \in DOMAIN Visible.nodes /\ Visible'.nodes[k] = Visible.nodes[k]
    BY <2>1, <2>2 DEF Stores, Snapshot, Known
  <2> QED  BY <1>1, <2>3, <2>4 DEF Atomic!Next, Atomic!Write
<1>5. CASE history' = history /\ Visible' = Visible
  <2>1. Outcomes' = Outcomes  BY <1>5 DEF Outcomes, Outermost
  <2> QED  BY <2>1, <1>5
<1>6. history' = history \/ Commit \/ Abort
  BY DEF TxNext, Begin, Write, Wrote, Reuse, ReturnNone, vars
<1> QED  BY <1>1, <1>2, <1>3, <1>4, <1>5, <1>6

(* Transactions implement AtomicGraph: seen from outside any run, the      *)
(* graph changes by one write, by one commit that is reported, or not.     *)
THEOREM Implements == TxSpec => AtomicSpec
<1>1. TxInit => Atomic!Init
  <2> SUFFICES ASSUME TxInit PROVE Atomic!Init
    OBVIOUS
  <2>1. open = <<>> /\ history = <<>> /\ DOMAIN nodes = {}  BY DEF TxInit, Init
  <2>2. DOMAIN Visible.nodes = {}  BY <2>1 DEF Visible, Snapshot
  <2>3. DOMAIN Outcomes = {}  BY <2>1 DEF Outcomes, Outermost
  <2> QED  BY <2>2, <2>3 DEF Atomic!Init
<1> QED  BY <1>1, AtomicStep, TxInvariant, PTL DEF TxSpec, AtomicSpec, Atomic!Spec

-----------------------------------------------------------------------------
(* The recovery layer.                                                     *)

Entry == [status : {"COMMITTED", "ROLLED_BACK"}, nodes : SUBSET Hash]
Mark == [snapshot : Graph, at : Nat]

(* The inductive invariant, in three parts: the graph with its             *)
(* transactions, the checkpoints with the marks, and the journal.          *)
Fine(g) == mixed \/ Sound(g)

RunsInv ==
  /\ Snapshot \in Graph /\ Fine(Snapshot)
  /\ open \in Seq(Run) /\ Len(open) =< MaxDepth
  /\ \A i \in 1 .. Len(open) : Fine(open[i].before)
  /\ history \in Seq(Report)

MarksInv ==
  /\ checkpoints \in Seq(Mark)
  /\ \A i \in 1 .. Len(checkpoints) :
       Fine(checkpoints[i].snapshot) /\ checkpoints[i].at =< Len(journal)
  /\ MarkersBacked

JournalInv ==
  /\ journal \in Seq(Entry)
  /\ cursor \in Nat /\ cursor =< Len(journal)
  /\ replays \in [1 .. Len(journal) -> 0 .. 2]
  /\ NoEntrySkipped

CallsInv ==
  /\ recovery \in {"none", "EMPTY", "IndexError", "RECOVERED", "INCONSISTENT"}
  /\ NeverInconsistent
  /\ interrupts \in 0 .. MaxInterrupts
  /\ mixed \in BOOLEAN

RecInv == RunsInv /\ MarksInv /\ JournalInv /\ CallsInv

-----------------------------------------------------------------------------
(* Hashes noted, or runs given up: the snapshots that are left are the     *)
(* ones there were.                                                        *)
LEMMA RunsNoted ==
  ASSUME NEW stack \in Seq(Run), NEW H \in SUBSET Hash, Len(stack) =< MaxDepth,
         \A i \in 1 .. Len(stack) : Fine(stack[i].before),
         open' = Noted(stack, H), mixed => mixed'
  PROVE  /\ open' \in Seq(Run) /\ Len(open') =< MaxDepth
         /\ \A i \in 1 .. Len(open') : mixed' \/ Sound(open'[i].before)
<1>1. /\ open' \in Seq(Run) /\ Len(open') = Len(stack)
      /\ \A i \in 1 .. Len(stack) : open'[i].before = stack[i].before
  BY NotedRuns
<1> QED  BY <1>1 DEF Fine

LEMMA RunsOuter ==
  ASSUME RunsInv, open # <<>>
  PROVE  /\ Outer \in Seq(Run) /\ Len(Outer) =< MaxDepth
         /\ \A i \in 1 .. Len(Outer) : Fine(Outer[i].before)
         /\ Top \in Run /\ Fine(Top.before) /\ Len(open) \in 1 .. MaxDepth
<1>1. /\ Depth \in Nat \ {0} /\ Outer \in Seq(Run) /\ Len(Outer) = Depth - 1
      /\ \A i \in 1 .. Depth - 1 : Outer[i] = open[i]
      /\ Top = open[Depth] /\ Top \in Run
  BY OuterRuns DEF RunsInv
<1>2. Len(open) = Depth  BY DEF Depth
<1> QED  BY <1>1, <1>2, TxAssumption DEF RunsInv

LEMMA RunsUnwound ==
  ASSUME RunsInv, NEW n \in 0 .. Len(open), Unwound(n), mixed => mixed'
  PROVE  /\ open' \in Seq(Run) /\ Len(open') =< MaxDepth
         /\ \A i \in 1 .. Len(open') : mixed' \/ Sound(open'[i].before)
         /\ history' \in Seq(Report)
<1> DEFINE m == Len(open) - n
<1>1. /\ m \in Nat /\ m =< Len(open) /\ open \in Seq(Run)
      /\ \A i \in 1 .. m : Fine(open[i].before)
      /\ m =< MaxDepth
  BY TxAssumption DEF RunsInv
<1>2. open' = SubSeq(open, 1, m) /\ history' = history  BY DEF Unwound
<1> HIDE DEF m
<1>3. /\ open' \in Seq(Run) /\ Len(open') = m
      /\ \A i \in 1 .. m : open'[i] = open[i]
  BY <1>1, <1>2, Prefix
<1> QED  BY <1>1, <1>2, <1>3 DEF RunsInv, Fine

(* What a step has to show of the graph and of the runs.                   *)
LEMMA RunsPrimed ==
  ASSUME Snapshot' \in Graph, mixed' \/ Sound(Snapshot'),
         open' \in Seq(Run), Len(open') =< MaxDepth,
         \A i \in 1 .. Len(open') : mixed' \/ Sound(open'[i].before),
         history' \in Seq(Report)
  PROVE  RunsInv'
BY DEF RunsInv, Fine, Sound

(* Storing a node with a known parent, or none, is sound wherever in       *)
(* add_root, propose or join the interrupt strikes.                        *)
LEMMA TornSound ==
  ASSUME RunsInv, NEW h \in Hash, NEW n \in Node, NEW index \in [Hash -> Seq(Hash)], NEW P,
         n.parent \in Known \cup {NoHash}, h \in Known => n.parent = NoHash,
         TornWrite(h, n, index, P), root' \in {root, h}, UNCHANGED mixed
  PROVE  RunsInv'
<1>1. TypeOK  BY GraphTypes DEF RunsInv
<1>2. /\ nodes' = Store(h, n)
      /\ children' \in {index, children} /\ heads' \subseteq heads \cup {h}
  BY DEF TornWrite, Supersede
<1>3. TypeOK'  BY <1>1, <1>2 DEF TypeOK, Store, Known
<1>4. mixed' \/ Sound(Snapshot')
  <2> SUFFICES ASSUME Sound(Snapshot) PROVE Sound(Snapshot')
    BY DEF RunsInv, Fine
  <2>1. GraphConsistent  BY SoundGraph DEF RunsInv
  <2>2. heads' \subseteq Known'  BY <2>1, <1>2 DEF Store, Known, GraphConsistent
  <2>3. Stores(h)  BY <2>1, <2>2, <1>1, <1>2, StoreStores
  <2> QED  BY <2>3 DEF Stores
<1>5. PICK k \in 0 .. Len(open) : Unwound(k)  BY DEF TornWrite
<1>6. Snapshot' \in Graph  BY <1>3, GraphTypes
<1> QED  BY <1>4, <1>5, <1>6, RunsUnwound, RunsPrimed

LEMMA InterruptedNext == RunsInv /\ Interrupted /\ UNCHANGED mixed => RunsInv'
<1> SUFFICES ASSUME RunsInv, Interrupted, UNCHANGED mixed PROVE RunsInv'
  OBVIOUS
<1> USE HashAssumption
<1>1. TypeOK  BY GraphTypes DEF RunsInv
<1>2. CASE Interrupt
  <2>1. PICK n \in 1 .. Len(open) : Unwound(n) /\ UNCHANGED graph  BY <1>2 DEF Interrupt
  <2>2. Snapshot' = Snapshot  BY <2>1 DEF Snapshot, graph
  <2>3. n \in 0 .. Len(open)  BY <2>1
  <2> QED  BY <2>1, <2>2, <2>3, RunsUnwound, RunsPrimed DEF RunsInv, Fine
<1>3. CASE \E h \in RootName : TornAddRoot(h)
  <2>1. PICK h \in RootName : TornAddRoot(h)  BY <1>3
  <2>2. h \in Hash /\ TornWrite(h, RootNode, children, {}) /\ root' \in {root, h}
    BY <2>1 DEF TornAddRoot
  <2>3. RootNode \in Node /\ RootNode.parent = NoHash
    BY DEF RootNode, Node
  <2>4. children \in [Hash -> Seq(Hash)]  BY <1>1 DEF TypeOK
  <2> QED  BY <2>2, <2>3, <2>4, TornSound
<1>4. CASE \E p \in Hash, h \in Payload : TornPropose(p, h)
  <2>1. PICK p \in Hash, h \in Payload : TornPropose(p, h)  BY <1>4
  <2>2. /\ p \in Known /\ h \notin Known /\ h \in Hash /\ root' = root
        /\ TornWrite(h, ProposedNode(p), IndexChild(p, h), {p})
    BY <2>1 DEF TornPropose, CanPropose
  <2>3. ProposedNode(p) \in Node /\ ProposedNode(p).parent = p
    BY DEF ProposedNode, Node
  <2>4. IndexChild(p, h) \in [Hash -> Seq(Hash)]
    BY <1>1, <2>2 DEF IndexChild, TypeOK
  <2> QED  BY <2>2, <2>3, <2>4, TornSound
<1>5. CASE \E P \in ParentSets, r \in Payload : TornJoin(P, r)
  <2>1. PICK P \in ParentSets, r \in Payload : TornJoin(P, r)  BY <1>5
  <2> DEFINE h == MergedHash(r, P)
  <2>2. h \in Hash /\ TornWrite(h, MergedNode(r, P), children, P) /\ root' = root
    BY <2>1 DEF TornJoin
  <2>3. MergedNode(r, P) \in Node /\ MergedNode(r, P).parent = NoHash
    BY DEF MergedNode, Node
  <2>4. children \in [Hash -> Seq(Hash)]  BY <1>1 DEF TypeOK
  <2> HIDE DEF h
  <2> QED  BY <2>2, <2>3, <2>4, TornSound
<1> QED  BY <1>2, <1>3, <1>4, <1>5 DEF Interrupted

(* A restore that was interrupted leaves a graph of the right types, and a *)
(* sound one when the heads are back.                                      *)
LEMMA TornRestored ==
  ASSUME Snapshot \in Graph, NEW s \in Graph, TornRestore(s)
  PROVE  Snapshot' \in Graph /\ (heads' = s.heads /\ Sound(s) => Sound(Snapshot'))
<1>1. TypeOK  BY GraphTypes
<1>2. /\ s.nodes \in NodeMap /\ s.children \in [Hash -> Seq(Hash)]
      /\ s.heads \subseteq Hash /\ s.root \in Hash \cup {NoHash}
  BY DEF Graph
<1>3. /\ nodes' = s.nodes /\ children' \in {s.children, children}
      /\ heads' \in {s.heads, heads} /\ root' \in {s.root, root}
  BY DEF TornRestore
<1>4. TypeOK'  BY <1>1, <1>2, <1>3, NodeMaps DEF TypeOK, Known
<1>5. heads' = s.heads /\ Sound(s) => Sound(Snapshot')
  BY <1>3 DEF Sound, Snapshot
<1> QED  BY <1>4, <1>5, GraphTypes

LEMMA TornAbortNext ==
  ASSUME RunsInv, TornAbort, mixed' = (mixed \/ heads' # Top.before.heads)
  PROVE  RunsInv'
<1>1. PICK k \in 1 .. Len(open) : Unwound(k)  BY DEF TornAbort
<1>2. /\ Top \in Run /\ Top.before \in Graph /\ Fine(Top.before) /\ k \in 0 .. Len(open)
      /\ TornRestore(Top.before)
  BY <1>1, RunsOuter DEF TornAbort, Run
<1>3. /\ Snapshot' \in Graph
      /\ heads' = Top.before.heads /\ Sound(Top.before) => Sound(Snapshot')
  BY <1>2, TornRestored DEF RunsInv
<1>4. mixed' \/ Sound(Snapshot')  BY <1>2, <1>3 DEF Fine
<1> QED  BY <1>1, <1>2, <1>3, <1>4, RunsUnwound, RunsPrimed

(* The steps of transactions, from whatever a recovery or an interrupt     *)
(* left: here nothing is known of how the levels nest.                     *)
LEMMA RunsNext == RunsInv /\ TxNext /\ UNCHANGED mixed => RunsInv'
<1> SUFFICES ASSUME RunsInv, TxNext, UNCHANGED mixed PROVE RunsInv'
  OBVIOUS
<1>1. TypeOK  BY GraphTypes DEF RunsInv
<1>2. CASE Begin
  <2> DEFINE run == [before |-> Snapshot, created |-> {}]
  <2>1. run \in Run /\ run.before = Snapshot  BY DEF Run, RunsInv
  <2>2. open' = Append(open, run) /\ Len(open) < MaxDepth /\ history' = history
    BY <1>2 DEF Begin
  <2>3. Snapshot' = Snapshot  BY <1>2 DEF Begin, Snapshot, graph
  <2> HIDE DEF run
  <2>4. /\ open' \in Seq(Run) /\ Len(open') = Len(open) + 1 /\ Len(open) \in Nat
        /\ \A i \in 1 .. Len(open) : open'[i] = open[i]
        /\ open'[Len(open) + 1] = run
    BY <2>1, <2>2 DEF RunsInv
  <2>5. \A i \in 1 .. Len(open') : mixed' \/ Sound(open'[i].before)
    BY <2>1, <2>4 DEF RunsInv, Fine
  <2>6. Len(open') =< MaxDepth  BY <2>2, <2>4, TxAssumption
  <2> QED  BY <2>2, <2>3, <2>4, <2>5, <2>6, RunsPrimed DEF RunsInv, Fine
<1>3. CASE Write
  <2>1. PICK h \in Hash : Wrote(h)  BY <1>3, HashAssumption DEF Write, Join
  <2>2. Snapshot' \in Graph  BY <1>1, <1>3, WriteTypes, GraphTypes
  <2>3. open' = Noted(open, {h}) /\ history' = history /\ {h} \in SUBSET Hash
    BY <2>1 DEF Wrote
  <2>4. /\ open' \in Seq(Run) /\ Len(open') =< MaxDepth
        /\ \A i \in 1 .. Len(open') : mixed' \/ Sound(open'[i].before)
    BY <2>3, RunsNoted DEF RunsInv
  <2>5. history' \in Seq(Report)  BY <2>3 DEF RunsInv
  <2>6. mixed' \/ Sound(Snapshot')
    <3> SUFFICES ASSUME Sound(Snapshot) PROVE Sound(Snapshot')
      BY DEF RunsInv, Fine
    <3>1. GraphConsistent  BY SoundGraph DEF RunsInv
    <3>2. PICK k \in Hash : Stores(k)  BY <3>1, <1>1, <1>3, WriteStores
    <3> QED  BY <3>2 DEF Stores
  <2> QED  BY <2>2, <2>4, <2>5, <2>6, RunsPrimed
<1>4. CASE \E h \in Payload : Reuse(h)
  <2>1. PICK h \in Payload : Reuse(h)  BY <1>4
  <2>2. /\ open' = Noted(open, {h}) /\ history' = history /\ {h} \in SUBSET Hash
        /\ Snapshot' = Snapshot
    BY <2>1, HashAssumption DEF Reuse, Wrote, Snapshot, graph
  <2>3. /\ open' \in Seq(Run) /\ Len(open') =< MaxDepth
        /\ \A i \in 1 .. Len(open') : mixed' \/ Sound(open'[i].before)
    BY <2>2, RunsNoted DEF RunsInv
  <2> QED  BY <2>2, <2>3, RunsPrimed DEF RunsInv, Fine
<1>5. ASSUME NEW status \in {"COMMITTED", "ROLLED_BACK"}, open # <<>>,
             history' = Append(history, Record(status))
      PROVE  history' \in Seq(Report)
  <2>1. Top \in Run /\ Len(open) \in 1 .. MaxDepth  BY <1>5, RunsOuter
  <2>2. Record(status) \in Report  BY <2>1 DEF Record, Report, Run
  <2> QED  BY <2>2, <1>5 DEF RunsInv
<1>6. CASE Commit
  <2>1. PICK H \in {{}, Top.created} : open' = Noted(Outer, H)  BY <1>6 DEF Commit
  <2>2. /\ open # <<>> /\ history' = Append(history, Record("COMMITTED"))
        /\ Snapshot' = Snapshot
    BY <1>6 DEF Commit, Snapshot, graph
  <2>3. H \in SUBSET Hash  BY <2>1, <2>2, RunsOuter DEF Run
  <2>4. /\ open' \in Seq(Run) /\ Len(open') =< MaxDepth
        /\ \A i \in 1 .. Len(open') : mixed' \/ Sound(open'[i].before)
    BY <2>1, <2>2, <2>3, RunsOuter, RunsNoted
  <2>5. history' \in Seq(Report)  BY <2>2, <1>5
  <2> QED  BY <2>2, <2>4, <2>5, RunsPrimed DEF RunsInv, Fine
<1>7. CASE Abort \/ ReturnNone
  <2>1. /\ open # <<>> /\ Restore(Top.before) /\ open' = Outer
        /\ history' = history \/ history' = Append(history, Record("ROLLED_BACK"))
    BY <1>7 DEF Abort, ReturnNone
  <2>2. Snapshot' = Top.before /\ Top.before \in Graph /\ Fine(Top.before)
    BY <2>1, RunsOuter, Restored DEF Run
  <2>3. history' \in Seq(Report)  BY <2>1, <1>5 DEF RunsInv
  <2>4. /\ open' \in Seq(Run) /\ Len(open') =< MaxDepth
        /\ \A i \in 1 .. Len(open') : mixed' \/ Sound(open'[i].before)
    BY <2>1, RunsOuter DEF Fine
  <2> QED  BY <2>2, <2>3, <2>4, RunsPrimed DEF Fine
<1> QED  BY <1>2, <1>3, <1>4, <1>6, <1>7 DEF TxNext

-----------------------------------------------------------------------------
(* Transactions leave the recovery layer alone, and the recovery layer     *)
(* leaves runs and records alone.                                          *)
LEMMA RunsKept == RunsInv /\ UNCHANGED <<graph, txs, mixed>> => RunsInv'
BY DEF RunsInv, graph, txs, Snapshot, Fine, Sound

LEMMA JournalKept ==
  JournalInv /\ UNCHANGED <<checkpoints, journal, cursor, replays>> => JournalInv'
BY DEF JournalInv, NoEntrySkipped, LastCheckpoint

LEMMA CallsKept ==
  ASSUME CallsInv, recovery' \in {"none", "EMPTY", "IndexError"}, UNCHANGED interrupted
  PROVE  CallsInv'
BY DEF CallsInv, NeverInconsistent, interrupted

LEMMA CallsInterrupted ==
  ASSUME CallsInv, interrupts < MaxInterrupts, interrupts' = interrupts + 1,
         recovery' = "none", mixed' \in BOOLEAN
  PROVE  CallsInv'
<1>1. interrupts' \in 0 .. MaxInterrupts  BY RecoveryAssumption DEF CallsInv
<1> QED  BY <1>1 DEF CallsInv, NeverInconsistent

(* The hashes a marker may be for.                                         *)
Backed ==
  MarkedByCaller \cup UNION {checkpoints[i].snapshot.heads : i \in DOMAIN checkpoints}

LEMMA MarksStay ==
  ASSUME MarksInv, JournalInv, UNCHANGED checkpoints, mixed => mixed',
         Len(journal') \in {Len(journal), Len(journal) + 1},
         durable' \subseteq durable \cup Backed
  PROVE  MarksInv'
<1>1. MarkersBacked'  BY DEF MarksInv, MarkersBacked, Backed
<1>2. ASSUME NEW i \in 1 .. Len(checkpoints)
      PROVE  /\ mixed' \/ Sound(checkpoints[i].snapshot)
             /\ checkpoints[i].at =< Len(journal')
  <2>1. /\ checkpoints[i] \in Mark /\ checkpoints[i].at =< Len(journal)
        /\ mixed \/ Sound(checkpoints[i].snapshot)
    BY DEF MarksInv, Fine
  <2>2. checkpoints[i].at \in Nat /\ Len(journal) \in Nat  BY <2>1 DEF Mark, JournalInv
  <2> QED  BY <2>1, <2>2
<1> QED  BY <1>1, <1>2 DEF MarksInv, Fine, Sound

(* A checkpoint kept, with some of its heads marked: no entry journaled    *)
(* after it is behind the cursor.                                          *)
LEMMA MarksAdded ==
  ASSUME RecInv, Keep(Snapshot), UNCHANGED <<journal, replays, mixed>>,
         NEW D \in SUBSET heads, durable' = durable \cup D,
         cursor' \in {cursor, Len(journal)}
  PROVE  MarksInv' /\ JournalInv'
<1> DEFINE mark == [snapshot |-> Snapshot, at |-> Len(journal)]
           n == Len(checkpoints)
<1>1. Len(journal) \in Nat /\ n \in Nat /\ cursor \in Nat /\ cursor =< Len(journal)
  BY DEF RecInv, JournalInv, MarksInv
<1>2. /\ mark \in Mark /\ mark.at = Len(journal) /\ mark.snapshot = Snapshot
      /\ Snapshot.heads = heads /\ Fine(Snapshot) /\ checkpoints' = Append(checkpoints, mark)
  BY <1>1 DEF RecInv, RunsInv, Mark, Snapshot, Keep
<1> HIDE DEF mark
<1>3. /\ checkpoints' \in Seq(Mark) /\ Len(checkpoints') = n + 1
      /\ checkpoints'[n + 1] = mark
      /\ \A i \in 1 .. n : checkpoints'[i] = checkpoints[i]
      /\ DOMAIN checkpoints = 1 .. n /\ DOMAIN checkpoints' = 1 .. n + 1
  BY <1>1, <1>2 DEF RecInv, MarksInv
<1>4. MarkersBacked'
  <2> SUFFICES ASSUME NEW h \in durable', h \notin MarkedByCaller
               PROVE  \E i \in DOMAIN checkpoints' : h \in checkpoints'[i].snapshot.heads
    BY DEF MarkersBacked
  <2>1. CASE h \in durable
    <3>1. PICK i \in 1 .. n : h \in checkpoints[i].snapshot.heads
      BY <2>1, <1>3 DEF RecInv, MarksInv, MarkersBacked
    <3> QED  BY <3>1, <1>1, <1>3
  <2>2. CASE h \in D
    <3>1. h \in checkpoints'[n + 1].snapshot.heads  BY <2>2, <1>2, <1>3
    <3> QED  BY <3>1, <1>1, <1>3
  <2> QED  BY <2>1, <2>2
<1>5. MarksInv'
  <2> SUFFICES ASSUME NEW i \in 1 .. n + 1
               PROVE  /\ mixed' \/ Sound(checkpoints'[i].snapshot)
                      /\ checkpoints'[i].at =< Len(journal)
    BY <1>3, <1>4 DEF MarksInv, Fine, Sound
  <2>1. CASE i = n + 1  BY <2>1, <1>1, <1>2, <1>3 DEF Fine
  <2>2. CASE i # n + 1
    <3>1. i \in 1 .. n  BY <2>2, <1>1
    <3> QED  BY <3>1, <1>3 DEF RecInv, MarksInv, Fine
  <2> QED  BY <2>1, <2>2
<1>6. LastCheckpoint'.at = Len(journal) /\ checkpoints' # <<>>
  BY <1>1, <1>2, <1>3 DEF LastCheckpoint
<1>7. NoEntrySkipped'
  BY <1>1, <1>6 DEF NoEntrySkipped
<1>8. JournalInv'  BY <1>1, <1>7 DEF RecInv, JournalInv
<1> QED  BY <1>5, <1>8

LEMMA CheckpointNext == RecInv /\ Checkpoint => RecInv'
<1> SUFFICES ASSUME RecInv, Checkpoint PROVE RecInv'
  OBVIOUS
<1>1. RunsInv' /\ CallsInv'
  BY RunsKept, CallsKept DEF RecInv, Checkpoint, interrupted
<1>2. MarksInv' /\ JournalInv'
  BY MarksAdded DEF Checkpoint, Marked, interrupted
<1> QED  BY <1>1, <1>2 DEF RecInv

LEMMA TornCheckpointNext ==
  RecInv /\ TornCheckpoint => RunsInv' /\ MarksInv' /\ JournalInv'
<1> SUFFICES ASSUME RecInv, TornCheckpoint PROVE RunsInv' /\ MarksInv' /\ JournalInv'
  OBVIOUS
<1>1. PICK k \in 0 .. Len(open) : Unwound(k)  BY DEF TornCheckpoint
<1>2. Snapshot' = Snapshot /\ mixed' = mixed  BY DEF TornCheckpoint, Snapshot, graph
<1>3. RunsInv'  BY <1>1, <1>2, RunsUnwound, RunsPrimed DEF RecInv, RunsInv, Fine
<1>4. PICK D \in SUBSET heads : durable' = durable \cup D  BY DEF TornCheckpoint, Marked
<1>5. MarksInv' /\ JournalInv'  BY <1>4, MarksAdded DEF TornCheckpoint
<1> QED  BY <1>3, <1>5

LEMMA JournalNext ==
  ASSUME RecInv, NEW i \in DOMAIN history, JournalTx(history[i]) PROVE RecInv'
<1> DEFINE entry == [status |-> history[i].status, nodes |-> history[i].nodes]
<1>1. history[i] \in Report  BY DEF RecInv, RunsInv
<1>2. entry \in Entry  BY <1>1 DEF Report, Entry
<1>3. /\ RunsInv' /\ CallsInv' /\ checkpoints' = checkpoints /\ durable' = durable
      /\ cursor' = cursor /\ mixed' = mixed
      /\ journal' = Append(journal, entry) /\ replays' = Append(replays, 0)
  BY RunsKept, CallsKept DEF RecInv, JournalTx, interrupted
<1> HIDE DEF entry
<1> DEFINE n == Len(journal)
<1>4. n \in Nat /\ replays \in Seq(0 .. 2) /\ Len(replays) = n
  BY DEF RecInv, JournalInv
<1>5. /\ journal' \in Seq(Entry) /\ Len(journal') = n + 1
      /\ \A j \in 1 .. n : journal'[j] = journal[j]
  BY <1>2, <1>3 DEF RecInv, JournalInv
<1>6. /\ replays' \in [1 .. n + 1 -> 0 .. 2]
      /\ \A j \in 1 .. n : replays'[j] = replays[j]
  <2>1. /\ replays' \in Seq(0 .. 2) /\ Len(replays') = n + 1
        /\ \A j \in 1 .. n : replays'[j] = replays[j]
    BY <1>3, <1>4
  <2>2. replays' \in [1 .. Len(replays') -> 0 .. 2]  BY <2>1, LenProperties
  <2> QED  BY <2>1, <2>2
<1>7. NoEntrySkipped'
  <2> SUFFICES ASSUME NEW j \in 1 .. cursor, journal'[j].status = "COMMITTED",
                      checkpoints # <<>> => j > LastCheckpoint.at
               PROVE  replays'[j] > 0
    BY <1>3 DEF NoEntrySkipped, LastCheckpoint
  <2>1. cursor \in Nat /\ cursor =< n  BY DEF RecInv, JournalInv
  <2>2. j \in 1 .. n  BY <2>1, <1>4
  <2>3. journal[j].status = "COMMITTED"  BY <2>2, <1>5
  <2>4. replays[j] > 0  BY <2>3 DEF RecInv, JournalInv, NoEntrySkipped
  <2> QED  BY <2>2, <2>4, <1>6
<1>8. MarksInv'  BY <1>3, <1>5, MarksStay DEF RecInv
<1>9. JournalInv'
  <2>1. cursor' \in Nat /\ cursor' =< Len(journal')
    BY <1>3, <1>4, <1>5 DEF RecInv, JournalInv
  <2>2. replays' \in [1 .. Len(journal') -> 0 .. 2]  BY <1>5, <1>6
  <2> QED  BY <1>3, <1>5, <1>7, <2>1, <2>2 DEF RecInv, JournalInv
<1> QED  BY <1>3, <1>8, <1>9 DEF RecInv

-----------------------------------------------------------------------------
(* What is counted is the committed entries up to some place: one that is  *)
(* not counted lies beyond as many places as were counted.                 *)
LEMMA CountedFirst ==
  ASSUME RecInv, NEW s
  PROVE  /\ Cardinality(Replayable(s)) \in Nat
         /\ \A i \in Pending \ Replayable(s) : i > cursor + Cardinality(Replayable(s))
<1>1. cursor \in Nat /\ Len(journal) \in Nat  BY DEF RecInv, JournalInv
<1>2. Replayable(s) \subseteq Pending /\ Pending \subseteq cursor + 1 .. Len(journal)
  BY DEF Replayable, Pending
<1>3. IsFiniteSet(Replayable(s)) /\ Cardinality(Replayable(s)) \in Nat
  <2>1. IsFiniteSet(cursor + 1 .. Len(journal))  BY <1>1, FS_Interval
  <2> QED  BY <2>1, <1>2, FS_Subset, FS_CardinalityType
<1>4. ASSUME NEW i \in Pending \ Replayable(s)
      PROVE  i > cursor + Cardinality(Replayable(s))
  <2>1. i \in Nat /\ i > cursor  BY <1>1, <1>2
  <2>2. \A j \in Replayable(s) : j < i
    BY <1>1, <1>2, <2>1, <1>4 DEF Replayable
  <2>3. Replayable(s) \subseteq cursor + 1 .. i - 1
    <3>1. ASSUME NEW j \in Replayable(s) PROVE j \in cursor + 1 .. i - 1
      <4>1. j \in cursor + 1 .. Len(journal) /\ j < i  BY <1>2, <2>2
      <4> QED  BY <4>1, <1>1, <2>1
    <3> QED  BY <3>1
  <2>4. /\ IsFiniteSet(cursor + 1 .. i - 1)
        /\ Cardinality(cursor + 1 .. i - 1) = IF cursor + 1 > i - 1 THEN 0
                                              ELSE i - 1 - (cursor + 1) + 1
    <3>1. cursor + 1 \in Int /\ i - 1 \in Int  BY <1>1, <2>1
    <3> QED  BY <3>1, FS_Interval
  <2>5. Cardinality(Replayable(s)) =< Cardinality(cursor + 1 .. i - 1)
    BY <2>3, <2>4, FS_Subset
  <2> QED  BY <1>1, <1>3, <2>1, <2>4, <2>5
<1> QED  BY <1>3, <1>4

(* Counting moves the cursor past nothing it does not count.               *)
LEMMA CountingNext ==
  ASSUME RecInv, NEW s, Counting(Replayable(s)), UNCHANGED <<checkpoints, journal>>
  PROVE  JournalInv'
<1> DEFINE counted == Replayable(s)
           n == Len(journal)
<1>1. /\ cursor' = Advance(Cardinality(counted))
      /\ replays' = [i \in DOMAIN journal |->
                       IF i \in counted THEN MinOf(2, replays[i] + 1) ELSE replays[i]]
  BY DEF Counting
<1>2. cursor \in Nat /\ n \in Nat /\ DOMAIN journal = 1 .. n /\ cursor =< n
  BY DEF RecInv, JournalInv
<1>3. Cardinality(counted) \in Nat
      /\ \A i \in Pending \ counted : i > cursor + Cardinality(counted)
  BY CountedFirst
<1> HIDE DEF counted
<1>4. /\ cursor' \in Nat /\ cursor' =< n /\ cursor' =< cursor + Cardinality(counted)
  BY <1>1, <1>2, <1>3 DEF Advance, MinOf
<1>5. /\ replays' \in [1 .. n -> 0 .. 2]
      /\ \A i \in 1 .. n : replays'[i] >= replays[i] /\ (i \in counted => replays'[i] > 0)
  BY <1>1, <1>2 DEF RecInv, JournalInv, MinOf
<1>6. NoEntrySkipped'
  <2> SUFFICES ASSUME NEW i \in 1 .. cursor', journal[i].status = "COMMITTED",
                      checkpoints # <<>> => i > LastCheckpoint.at
               PROVE  replays'[i] > 0
    BY DEF NoEntrySkipped, LastCheckpoint
  <2>1. i \in 1 .. n /\ replays[i] \in Nat /\ replays'[i] \in Nat
    BY <1>2, <1>4, <1>5 DEF RecInv, JournalInv
  <2>2. CASE i =< cursor
    <3>1. replays[i] > 0
      BY <2>1, <2>2, <1>2 DEF RecInv, JournalInv, NoEntrySkipped
    <3> QED  BY <3>1, <2>1, <1>5
  <2>3. CASE i > cursor
    <3>1. i \in Pending  BY <2>1, <2>3, <1>2 DEF Pending
    <3>2. i \in counted  BY <3>1, <2>1, <1>2, <1>3, <1>4
    <3> QED  BY <3>2, <2>1, <1>5
  <2> QED  BY <2>2, <2>3, <2>1, <1>2
<1> QED  BY <1>4, <1>5, <1>6 DEF RecInv, JournalInv

LEMMA LastKept ==
  ASSUME RecInv, checkpoints # <<>>
  PROVE  /\ LastCheckpoint.snapshot \in Graph /\ Fine(LastCheckpoint.snapshot)
         /\ LastCheckpoint.snapshot.heads \subseteq Backed
<1> DEFINE n == Len(checkpoints)
<1>1. /\ n \in DOMAIN checkpoints /\ LastCheckpoint = checkpoints[n]
      /\ checkpoints[n] \in Mark /\ Fine(checkpoints[n].snapshot)
  BY DEF RecInv, MarksInv, LastCheckpoint
<1> QED  BY <1>1 DEF Mark, Backed

LEMMA RecoverNext == RecInv /\ Recover => RecInv'
<1> SUFFICES ASSUME RecInv, Recover PROVE RecInv'
  OBVIOUS
<1> DEFINE s == LastCheckpoint.snapshot
<1>1. /\ checkpoints # <<>> /\ Restore(s) /\ Counting(Replayable(s))
      /\ \/ recovery' = "RECOVERED" /\ durable' = durable \cup heads'
         \/ /\ recovery' = "INCONSISTENT" /\ durable' = durable
            /\ ~Consistent([nodes |-> nodes', heads |-> heads'])
      /\ UNCHANGED <<txs, checkpoints, journal, interrupts, mixed>>
  BY DEF Recover, Marked, interrupted
<1>2. s \in Graph /\ Fine(s) /\ s.heads \subseteq Backed  BY <1>1, LastKept
<1>3. JournalInv'  BY <1>1, CountingNext
<1> HIDE DEF s
<1>4. Snapshot' = s /\ nodes' = s.nodes /\ heads' = s.heads
  BY <1>1, <1>2, Restored DEF Restore
<1>5. Sound(s) => Consistent([nodes |-> nodes', heads |-> heads'])
  BY <1>4 DEF Consistent, Sound
<1>6. CallsInv'
  BY <1>1, <1>2, <1>5 DEF RecInv, CallsInv, NeverInconsistent, Fine
<1>7. RunsInv'
  <2>1. open' = open /\ history' = history  BY <1>1 DEF txs
  <2> QED  BY <2>1, <1>1, <1>2, <1>4, RunsPrimed DEF RecInv, RunsInv, Fine
<1>8. MarksInv'
  <2>1. durable' \subseteq durable \cup Backed  BY <1>1, <1>2, <1>4
  <2> QED  BY <2>1, <1>1, MarksStay DEF RecInv
<1> QED  BY <1>3, <1>6, <1>7, <1>8 DEF RecInv

LEMMA TornRecoverNext ==
  ASSUME RecInv, TornRecover
  PROVE  RunsInv' /\ MarksInv' /\ JournalInv' /\ mixed' \in BOOLEAN
<1> DEFINE s == LastCheckpoint.snapshot
<1>1. PICK k \in 0 .. Len(open) : Unwound(k)  BY DEF TornRecover
<1>2. /\ checkpoints # <<>> /\ mixed' = (mixed \/ heads' # s.heads)
      /\ UNCHANGED <<checkpoints, journal>>
  BY DEF TornRecover
<1>3. mixed' \in BOOLEAN /\ (mixed => mixed')  BY <1>2 DEF RecInv, CallsInv
<1>4. s \in Graph /\ Fine(s) /\ s.heads \subseteq Backed  BY <1>2, LastKept
<1>5. /\ Snapshot' \in Graph
      /\ mixed' \/ Sound(Snapshot')
      /\ durable' \subseteq durable \cup Backed /\ JournalInv'
  <2>1. CASE TornRestore(s) /\ UNCHANGED <<cursor, replays, durable>>
    <3>1. Snapshot' \in Graph /\ (heads' = s.heads /\ Sound(s) => Sound(Snapshot'))
      BY <2>1, <1>4, TornRestored DEF RecInv, RunsInv
    <3>2. JournalInv'  BY <2>1, <1>2, JournalKept DEF RecInv
    <3> QED  BY <3>1, <3>2, <2>1, <1>2, <1>4 DEF Fine
  <2>2. CASE /\ Restore(s) /\ Counting(Replayable(s))
             /\ \E D \in SUBSET s.heads : durable' = Marked(D)
    <3>1. Snapshot' = s  BY <2>2, <1>4, Restored
    <3>2. JournalInv'  BY <2>2, <1>2, CountingNext
    <3>3. durable' \subseteq durable \cup Backed  BY <2>2, <1>4 DEF Marked
    <3> QED  BY <3>1, <3>2, <3>3, <1>3, <1>4 DEF Fine
  <2> QED  BY <2>1, <2>2 DEF TornRecover
<1>6. RunsInv'
  <2>1. /\ open' \in Seq(Run) /\ Len(open') =< MaxDepth /\ history' \in Seq(Report)
        /\ \A i \in 1 .. Len(open') : mixed' \/ Sound(open'[i].before)
    BY <1>1, <1>3, RunsUnwound DEF RecInv
  <2> QED  BY <2>1, <1>5, RunsPrimed
<1>7. MarksInv'  BY <1>2, <1>3, <1>5, MarksStay DEF RecInv
<1> QED  BY <1>3, <1>5, <1>6, <1>7

-----------------------------------------------------------------------------
LEMMA RecInterruptedNext == RecInv /\ RecInterrupted => RecInv'
<1> SUFFICES ASSUME RecInv, RecInterrupted PROVE RecInv'
  OBVIOUS
<1>1. /\ interrupts < MaxInterrupts /\ interrupts' = interrupts + 1 /\ recovery' = "none"
      /\ CallsInv /\ mixed \in BOOLEAN
  BY DEF RecInterrupted, RecInv, CallsInv
<1>2. UNCHANGED drc /\ (mixed => mixed') => MarksInv' /\ JournalInv'
  BY MarksStay, JournalKept DEF RecInv, drc
<1>3. CASE Interrupted /\ UNCHANGED <<drc, mixed>>
  <2>1. RunsInv'  BY <1>3, InterruptedNext DEF RecInv
  <2>2. CallsInv'  BY <1>1, <1>3, CallsInterrupted
  <2> QED  BY <2>1, <2>2, <1>2, <1>3 DEF RecInv
<1>4. CASE TornAbort /\ mixed' = (mixed \/ heads' # Top.before.heads) /\ UNCHANGED drc
  <2>1. RunsInv'  BY <1>4, TornAbortNext DEF RecInv
  <2>2. CallsInv'  BY <1>1, <1>4, CallsInterrupted
  <2> QED  BY <2>1, <2>2, <1>2, <1>4 DEF RecInv
<1>5. CASE TornCheckpoint
  <2>1. mixed' = mixed  BY <1>5 DEF TornCheckpoint
  <2>2. CallsInv'  BY <1>1, <2>1, CallsInterrupted
  <2> QED  BY <2>2, <1>5, TornCheckpointNext DEF RecInv
<1>6. CASE TornRecover
  <2>1. RunsInv' /\ MarksInv' /\ JournalInv' /\ mixed' \in BOOLEAN
    BY <1>6, TornRecoverNext
  <2>2. CallsInv'  BY <2>1, <1>1, CallsInterrupted
  <2> QED  BY <2>1, <2>2 DEF RecInv
<1> QED  BY <1>3, <1>4, <1>5, <1>6 DEF RecInterrupted

LEMMA RecInvNext == RecInv /\ [RecNext]_recVars => RecInv'
<1> SUFFICES ASSUME RecInv, [RecNext]_recVars PROVE RecInv'
  OBVIOUS
<1>1. CASE TxNext /\ recovery' = "none" /\ UNCHANGED <<drc, interrupted>>
  <2>1. RunsInv' /\ CallsInv'
    BY <1>1, RunsNext, CallsKept DEF RecInv, interrupted
  <2>2. MarksInv' /\ JournalInv'
    BY <1>1, MarksStay, JournalKept DEF RecInv, drc, interrupted
  <2> QED  BY <2>1, <2>2 DEF RecInv
<1>2. CASE Checkpoint  BY <1>2, CheckpointNext
<1>3. CASE \E h \in MarkedByCaller : CommitHead(h)
  <2>1. PICK h \in MarkedByCaller : CommitHead(h)  BY <1>3
  <2>2. /\ RunsInv' /\ CallsInv' /\ durable' \subseteq durable \cup Backed
        /\ UNCHANGED <<checkpoints, journal, cursor, replays, mixed>>
    BY <2>1, RunsKept, CallsKept DEF CommitHead, Marked, RecInv, Backed, interrupted
  <2>3. MarksInv' /\ JournalInv'  BY <2>2, MarksStay, JournalKept DEF RecInv
  <2> QED  BY <2>2, <2>3 DEF RecInv
<1>4. CASE \E i \in DOMAIN history : JournalTx(history[i])  BY <1>4, JournalNext
<1>5. CASE RecoverEmpty \/ RecoverRaises
  <2>1. /\ RunsInv' /\ CallsInv'
        /\ UNCHANGED <<checkpoints, journal, cursor, durable, replays, mixed>>
    BY <1>5, RunsKept, CallsKept DEF RecoverEmpty, RecoverRaises, RecInv, interrupted
  <2>2. MarksInv' /\ JournalInv'  BY <2>1, MarksStay, JournalKept DEF RecInv
  <2> QED  BY <2>1, <2>2 DEF RecInv
<1>6. CASE Recover  BY <1>6, RecoverNext
<1>7. CASE RecInterrupted  BY <1>7, RecInterruptedNext
<1>8. CASE UNCHANGED recVars
  <2>1. /\ UNCHANGED <<graph, txs, mixed>>
        /\ UNCHANGED <<checkpoints, journal, cursor, durable, replays>>
        /\ UNCHANGED <<recovery, interrupts>>
    BY <1>8 DEF recVars, graph, txs
  <2>2. CallsInv'  BY <2>1 DEF RecInv, CallsInv, NeverInconsistent
  <2>3. MarksInv' /\ JournalInv'  BY <2>1, MarksStay, JournalKept DEF RecInv
  <2> QED  BY <2>1, <2>2, <2>3, RunsKept DEF RecInv
<1> QED  BY <1>1, <1>2, <1>3, <1>4, <1>5, <1>6, <1>7, <1>8 DEF RecNext

LEMMA RecInvariant == RecSpec => []RecInv
<1>1. RecInit => RecInv
  <2> SUFFICES ASSUME RecInit PROVE RecInv
    OBVIOUS
  <2>1. Snapshot \in Graph /\ Sound(Snapshot)
    BY TypeInit, GraphTypes DEF RecInit, TxInit, Init, Sound, Snapshot
  <2>2. RunsInv  BY <2>1, TxAssumption DEF RecInit, TxInit, RunsInv, Fine
  <2>3. MarksInv  BY DEF RecInit, MarksInv, MarkersBacked
  <2>4. JournalInv  BY DEF RecInit, JournalInv, NoEntrySkipped
  <2>5. CallsInv
    <3>1. 0 \in 0 .. MaxInterrupts  BY RecoveryAssumption
    <3>2. recovery = "none" /\ interrupts = 0 /\ mixed = FALSE  BY DEF RecInit
    <3>3. NeverInconsistent  BY <3>2 DEF NeverInconsistent
    <3> QED  BY <3>1, <3>2, <3>3 DEF CallsInv
  <2> QED  BY <2>2, <2>3, <2>4, <2>5 DEF RecInv
<1> QED  BY <1>1, RecInvNext, PTL DEF RecSpec

(* The lists, cursor and marks of the recovery layer.                      *)
THEOREM RecTypes == RecSpec => []RecTypeOK
<1>1. RecInv => RecTypeOK
  <2> SUFFICES ASSUME RecInv PROVE RecTypeOK
    OBVIOUS
  <2>1. TxTypeOK
    <3>1. TypeOK  BY GraphTypes DEF RecInv, RunsInv
    <3>2. ASSUME NEW i \in DOMAIN open
          PROVE  IsSnapshot(open[i].before) /\ open[i].created \subseteq Hash
      <4>1. open[i] \in Run  BY DEF RecInv, RunsInv
      <4> QED  BY <4>1, SnapshotTypes DEF Run
    <3> QED  BY <3>1, <3>2 DEF TxTypeOK, RecInv, RunsInv, Report
  <2>2. ASSUME NEW i \in DOMAIN checkpoints
        PROVE  IsSnapshot(checkpoints[i].snapshot) /\ checkpoints[i].at \in 0 .. Len(journal)
    <3>1. checkpoints[i] \in Mark /\ checkpoints[i].at =< Len(journal) /\ Len(journal) \in Nat
      BY DEF RecInv, MarksInv, JournalInv
    <3> QED  BY <3>1, SnapshotTypes DEF Mark
  <2>3. DOMAIN journal = 1 .. Len(journal) /\ Len(journal) \in Nat
    BY DEF RecInv, JournalInv
  <2>4. durable \subseteq Hash
    <3> SUFFICES ASSUME NEW h \in durable, h \notin MarkedByCaller PROVE h \in Hash
      BY RecoveryAssumption
    <3>1. PICK i \in DOMAIN checkpoints : h \in checkpoints[i].snapshot.heads
      BY DEF RecInv, MarksInv, MarkersBacked
    <3>2. checkpoints[i] \in Mark  BY DEF RecInv, MarksInv
    <3> QED  BY <3>1, <3>2 DEF Mark, Graph
  <2> QED  BY <2>1, <2>2, <2>3, <2>4 DEF RecTypeOK, RecInv, MarksInv, JournalInv, CallsInv, Entry
<1> QED  BY <1>1, RecInvariant, PTL

(* Only an interrupted restore makes recover bring back a graph that fails *)
(* its own check.                                                          *)
THEOREM AlwaysConsistent == RecSpec => []NeverInconsistent
<1>1. RecInv => NeverInconsistent  BY DEF RecInv, CallsInv
<1> QED  BY <1>1, RecInvariant, PTL

(* A marker is for a head of a kept checkpoint, or from the caller.        *)
THEOREM Backing == RecSpec => []MarkersBacked
<1>1. RecInv => MarkersBacked  BY DEF RecInv, MarksInv
<1> QED  BY <1>1, RecInvariant, PTL

(* No committed entry journaled since the last checkpoint is passed over.  *)
THEOREM NoneSkipped == RecSpec => []NoEntrySkipped
<1>1. RecInv => NoEntrySkipped  BY DEF RecInv, JournalInv
<1> QED  BY <1>1, RecInvariant, PTL
=============================================================================
