---------------------------- MODULE Transactions ----------------------------
(***************************************************************************)
(* ATC-1, atomic transactions on the lineage graph (soe_ddci/atc.py).      *)
(*                                                                         *)
(* AtomicTransaction.run takes a snapshot, calls the caller's mutate, and  *)
(* then records the transaction as committed, or, when mutate raised an    *)
(* Exception, restores the snapshot and records it as rolled back.  The    *)
(* time mutate is running is the time a transaction is open: the graph's   *)
(* operations, a nested run, or an interrupt happen then.                  *)
(***************************************************************************)
EXTENDS Lineage

CONSTANTS
  MaxTx,    \* bound on the transactions run
  MaxDepth  \* bound on the nesting of runs

ASSUME TxAssumption == MaxTx \in Nat /\ MaxDepth \in Nat

VARIABLES
  open,     \* the runs whose mutate has not returned, outermost first
  history   \* _history: the record of every run that left one, and its depth

txs == <<open, history>>
vars == <<nodes, children, heads, root, open, history>>

Snapshot == [nodes |-> nodes, children |-> children, heads |-> heads, root |-> root]

(* The operators Mut... are mistakes this code could have had.             *)
MutRestore(s) == nodes' = s.nodes /\ children' = s.children /\ root' = s.root
                 /\ UNCHANGED heads

(* _restore puts every attribute of the graph back.                        *)
Restore(s) ==
  /\ nodes' = s.nodes
  /\ children' = s.children
  /\ heads' = s.heads
  /\ root' = s.root

Top == open[Len(open)]
Outer == SubSeq(open, 1, Len(open) - 1)

Noted(stack, H) ==
  IF stack = <<>> THEN stack
  ELSE [stack EXCEPT ![Len(stack)].created = @ \cup H]

MutRecord(status) == [status |-> status, nodes |-> Top.created, depth |-> Len(Outer)]

Record(status) == [status |-> status, nodes |-> Top.created, depth |-> Len(open)]

----------------------------------------------------------------------------
TxInit == Init /\ open = <<>> /\ history = <<>>

(* run: the snapshot taken before mutate is called.                        *)
Begin ==
  /\ Len(open) < MaxDepth
  /\ Len(history) + Len(open) < MaxTx
  /\ open' = Append(open, [before |-> Snapshot, created |-> {}])
  /\ UNCHANGED <<graph, history>>

(* An operation on the graph, by mutate when a run is open, which lists    *)
(* the hash of the node it got; propose of a known digest gets one too.    *)
Wrote(h) == open' = Noted(open, {h}) /\ UNCHANGED history

Write ==
  \/ \E h \in RootName : AddRoot(h) /\ Wrote(h)
  \/ \E p \in Hash, h \in Payload : Propose(p, h) /\ Wrote(h)
  \/ \E P \in ParentSets, r \in Payload : Join(P, r) /\ Wrote(MergedHash(r, P))

Reuse(h) ==
  /\ open # <<>>
  /\ h \in Known \cap Payload
  /\ Wrote(h)
  /\ UNCHANGED graph

(* mutate returned its list: the run is recorded, and an enclosing mutate  *)
(* may add the list to its own.                                            *)
Commit ==
  /\ open # <<>>
  /\ history' = Append(history, Record("COMMITTED"))
  /\ \E H \in {{}, Top.created} : open' = Noted(Outer, H)
  /\ UNCHANGED graph

MutAbort ==
  /\ open # <<>>
  /\ Restore(Top.before)
  /\ history' = Append(history, Record("ROLLED_BACK"))
  /\ open' = Noted(Outer, Top.created)

(* mutate raised an Exception.                                             *)
Abort ==
  /\ open # <<>>
  /\ Restore(Top.before)
  /\ history' = Append(history, Record("ROLLED_BACK"))
  /\ open' = Outer

(* mutate returned no list: list(created) raises inside the try, and again *)
(* in the handler after the snapshot is back, so nothing is recorded.      *)
ReturnNone ==
  /\ open # <<>>
  /\ Restore(Top.before)
  /\ open' = Outer
  /\ UNCHANGED history

TxNext ==
  \/ Begin
  \/ Write
  \/ \E h \in Payload : Reuse(h)
  \/ Commit
  \/ Abort
  \/ ReturnNone

TxSpec == TxInit /\ [][TxNext]_vars

----------------------------------------------------------------------------
(* Interrupts: an exception that is not an Exception (KeyboardInterrupt,   *)
(* SystemExit) passes through run untouched until some caller catches it,  *)
(* unwinding n of the open runs with neither a restore nor a record.       *)
Unwound(n) == /\ n \in 0 .. Len(open)
              /\ open' = SubSeq(open, 1, Len(open) - n)
              /\ UNCHANGED history

Interrupt == \E n \in 1 .. Len(open) : Unwound(n) /\ UNCHANGED graph

(* It may strike between two statements of add_root, propose or join, once *)
(* the node is stored: the child is not indexed yet, or it is and some of  *)
(* the heads are discarded, or all is done but mutate does not learn it.   *)
TornWrite(h, n, index, P) ==
  /\ Fits(h)
  /\ nodes' = Store(h, n)
  /\ \/ children' = children /\ heads' = heads
     \/ /\ children' = index
        /\ heads' \in {heads \ D : D \in SUBSET P} \cup {Supersede(P, h)}
  /\ \E k \in 0 .. Len(open) : Unwound(k)

TornAddRoot(h) ==
  /\ TornWrite(h, RootNode, children, {})
  /\ root' \in {root} \cup (heads' \cap {h})

TornPropose(p, h) ==
  /\ CanPropose(p, h)
  /\ TornWrite(h, ProposedNode(p), IndexChild(p, h), {p})
  /\ UNCHANGED root

TornJoin(P, r) ==
  /\ P \subseteq Known
  /\ JoinConflicts(P) = {} \/ r # EmptyPayload
  /\ MergedHash(r, P) \in Hash
  /\ TornWrite(MergedHash(r, P), MergedNode(r, P), children, P)
  /\ UNCHANGED root

Interrupted ==
  \/ Interrupt
  \/ \E h \in RootName : TornAddRoot(h)
  \/ \E p \in Hash, h \in Payload : TornPropose(p, h)
  \/ \E P \in ParentSets, r \in Payload : TornJoin(P, r)

(* Or inside _restore, or behind it: done attributes of the graph are back. *)
TornRestore(s) ==
  \E done \in 1 .. 4 :
    /\ nodes' = s.nodes
    /\ children' = IF done > 1 THEN s.children ELSE children
    /\ heads' = IF done > 2 THEN s.heads ELSE heads
    /\ root' = IF done > 3 THEN s.root ELSE root

TornAbort ==
  /\ open # <<>>
  /\ TornRestore(Top.before)
  /\ \E k \in 1 .. Len(open) : Unwound(k)

InterruptedSpec == TxInit /\ [][TxNext \/ Interrupted \/ TornAbort]_vars

----------------------------------------------------------------------------
IsSnapshot(s) ==
  /\ DOMAIN s = {"nodes", "children", "heads", "root"}
  /\ DOMAIN s.nodes \subseteq Hash
  /\ s.nodes \in [DOMAIN s.nodes -> Node]
  /\ s.children \in [Hash -> Seq(Hash)]
  /\ s.heads \subseteq Hash
  /\ s.root \in Hash \cup {NoHash}

(* The open runs hold a snapshot and a list, the records a status.         *)
TxTypeOK ==
  /\ TypeOK
  /\ \A i \in DOMAIN open :
       IsSnapshot(open[i].before) /\ open[i].created \subseteq Hash
  /\ history \in Seq([status : {"COMMITTED", "ROLLED_BACK"},
                      nodes : SUBSET Hash, depth : 1 .. MaxDepth])

(* The graph as it is outside transactions.                                *)
Visible == IF open = <<>> THEN Snapshot ELSE open[1].before

(* What was recorded of outermost runs.                                    *)
Outcome(record) == IF record.status = "COMMITTED" THEN "committed" ELSE "rolled_back"

Outermost == {i \in DOMAIN history : history[i].depth = 1}

Outcomes == [i \in Outermost |-> Outcome(history[i])]

Atomic == INSTANCE AtomicGraph WITH visible <- Visible, outcomes <- Outcomes

(* Transactions keep what AtomicGraph promises: an outermost run is one    *)
(* step to its outcome, and a rolled back one leaves no trace.             *)
AtomicSpec == Atomic!Spec

(* atc.py:3 says a proposal completes fully or leaves no trace, and line   *)
(* 19 that a crash mid-flight rolls back to the prior snapshot: when the   *)
(* outermost run ends, it is recorded as committed or the graph is what it *)
(* was before.                                                             *)
WholeOrTraceless ==
  [][open # <<>> /\ open' = <<>> =>
       \/ history' # history /\ history'[Len(history')].status = "COMMITTED"
       \/ Snapshot' = open[1].before]_vars

(* The hashes an outermost run was committed with stay nodes of the visible *)
(* graph, whatever later runs roll back.  (A nested run's record can outlive *)
(* its nodes: the run around it may still be rolled back.)                 *)
CommittedKept ==
  \A i \in DOMAIN history :
     history[i].status = "COMMITTED" /\ history[i].depth = 1 =>
       history[i].nodes \subseteq DOMAIN Visible.nodes

(* Every snapshot a rollback could restore is a consistent graph that the  *)
(* graph has grown from, and so was the one around it.                     *)
SnapshotsNested ==
  /\ \A i \in DOMAIN open :
       LET s == open[i].before
       IN  /\ s.heads \subseteq DOMAIN s.nodes
           /\ \A h \in DOMAIN s.nodes : s.nodes[h].parent \in DOMAIN s.nodes \cup {NoHash}
           /\ Atomic!GrewFrom(s, Snapshot)
  /\ \A i, j \in DOMAIN open :
       i < j => Atomic!GrewFrom(open[i].before, open[j].before)
=============================================================================
