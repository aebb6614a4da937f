------------------------------ MODULE Recovery ------------------------------
(***************************************************************************)
(* DRC-1, checkpoints, journal and recovery (soe_ddci/drc.py), over the    *)
(* transactions of ATC-1 and a graph that interrupts may leave half        *)
(* written.  The caller takes checkpoints, journals transaction records    *)
(* and calls recover whenever it likes, and an interrupt may end each of   *)
(* these calls; nothing in the graph or in a transaction calls the         *)
(* recovery layer.                                                         *)
(***************************************************************************)
EXTENDS Transactions

CONSTANTS
  MarkedByCaller,  \* the hashes callers give to commit_head
  MaxCheckpoints,  \* bound on checkpoint calls
  MaxJournal,      \* bound on journal_tx calls
  MaxInterrupts    \* bound on interrupts

ASSUME RecoveryAssumption ==
  /\ MarkedByCaller \subseteq Hash
  /\ MaxCheckpoints \in Nat /\ MaxJournal \in Nat /\ MaxInterrupts \in Nat

VARIABLES
  checkpoints,  \* _checkpoints: their snapshots, and the journal's length then
  journal,      \* _journal: status and hash list of the transactions journaled
  cursor,       \* _replay_cursor: how many entries are behind the cursor
  durable,      \* _committed_heads: the hashes that have a commit marker
  recovery,     \* what the call just made came to, "none" if not of recover
  replays,      \* history variable: how often recover counted each entry, to 2
  interrupts,   \* history variable: how many interrupts there were
  mixed         \* history variable: an interrupted restore left the heads of
                \* one graph with the nodes of another

drc == <<checkpoints, journal, cursor, durable, replays>>
interrupted == <<interrupts, mixed>>
recVars == <<nodes, children, heads, root, open, history,
             checkpoints, journal, cursor, durable, recovery, replays, interrupts, mixed>>

LastCheckpoint == checkpoints[Len(checkpoints)]

MinOf(x, y) == IF x =< y THEN x ELSE y

(* verify_graph_consistent of atc.py on the graph a snapshot brings back.  *)
Consistent(s) ==
  /\ \A h \in DOMAIN s.nodes :
       s.nodes[h].parent # NoHash => s.nodes[h].parent \in DOMAIN s.nodes
  /\ s.heads \subseteq DOMAIN s.nodes

(* The entries a recovery to s counts: the committed ones after the cursor *)
(* up to the first whose nodes are not all in the graph.                   *)
Pending == {i \in cursor + 1 .. Len(journal) : journal[i].status = "COMMITTED"}

Replayable(s) ==
  {i \in Pending :
     \A j \in Pending : j =< i => journal[j].nodes \subseteq DOMAIN s.nodes}

----------------------------------------------------------------------------
RecInit ==
  /\ TxInit
  /\ checkpoints = <<>>
  /\ journal = <<>>
  /\ cursor = 0
  /\ durable = {}
  /\ recovery = "none"
  /\ replays = <<>>
  /\ interrupts = 0
  /\ mixed = FALSE

(* checkpoint keeps a snapshot, marks the graph's heads durable and then   *)
(* moves the cursor to the end of the journal.                             *)
Keep(s) == checkpoints' = Append(checkpoints, [snapshot |-> s, at |-> Len(journal)])

Marked(H) == durable \cup H

Checkpoint ==
  /\ Len(checkpoints) < MaxCheckpoints
  /\ Keep(Snapshot)
  /\ durable' = Marked(heads)
  /\ cursor' = Len(journal)
  /\ recovery' = "none"
  /\ UNCHANGED <<graph, txs, journal, replays, interrupted>>

(* An interrupt after the snapshot is kept: some of its heads are marked.  *)
MutTornCheckpoint ==
  /\ Len(checkpoints) < MaxCheckpoints
  /\ \E D \in SUBSET heads : durable' = Marked(D)
  /\ \E k \in 0 .. Len(open) : Unwound(k)
  /\ UNCHANGED <<graph, checkpoints, journal, cursor, replays, mixed>>

TornCheckpoint ==
  /\ Len(checkpoints) < MaxCheckpoints
  /\ Keep(Snapshot)
  /\ \E D \in SUBSET heads : durable' = Marked(D)
  /\ \E k \in 0 .. Len(open) : Unwound(k)
  /\ UNCHANGED <<graph, journal, cursor, replays, mixed>>

(* commit_head takes any hash, a node or not.                              *)
CommitHead(h) ==
  /\ durable' = Marked({h})
  /\ recovery' = "none"
  /\ UNCHANGED <<graph, txs, checkpoints, journal, cursor, replays, interrupted>>

(* journal_tx of a record some run left.                                   *)
JournalTx(record) ==
  /\ Len(journal) < MaxJournal
  /\ journal' = Append(journal, [status |-> record.status, nodes |-> record.nodes])
  /\ replays' = Append(replays, 0)
  /\ recovery' = "none"
  /\ UNCHANGED <<graph, txs, checkpoints, cursor, durable, interrupted>>

(* recover with neither checkpoint nor journal.                            *)
RecoverEmpty ==
  /\ checkpoints = <<>> /\ journal = <<>>
  /\ recovery' = "EMPTY"
  /\ UNCHANGED <<graph, txs, checkpoints, journal, cursor, durable, replays, interrupted>>

(* recover with a journal but no checkpoint: _checkpoints[-1] raises.      *)
RecoverRaises ==
  /\ checkpoints = <<>> /\ journal # <<>>
  /\ recovery' = "IndexError"
  /\ UNCHANGED <<graph, txs, checkpoints, journal, cursor, durable, replays, interrupted>>

(* recover: the last checkpoint is restored, the replayable entries are    *)
(* counted, and the cursor moves by their number.                          *)
MutAdvance(count) == Len(journal)
MutAdvanceOne(count) == cursor + count + 1
Advance(count) == MinOf(Len(journal), cursor + count)

Counting(counted) ==
  /\ cursor' = Advance(Cardinality(counted))
  /\ replays' = [i \in DOMAIN journal |->
                   IF i \in counted THEN MinOf(2, replays[i] + 1) ELSE replays[i]]

Recover ==
  LET s == LastCheckpoint.snapshot
  IN  /\ checkpoints # <<>>
      /\ Restore(s)
      /\ Counting(Replayable(s))
      /\ \/ /\ Consistent([nodes |-> nodes', heads |-> heads'])
            /\ recovery' = "RECOVERED"
            /\ durable' = Marked(heads')
         \/ /\ ~Consistent([nodes |-> nodes', heads |-> heads'])
            /\ recovery' = "INCONSISTENT"
            /\ UNCHANGED durable
      /\ UNCHANGED <<txs, checkpoints, journal, interrupted>>

(* An interrupt inside recover: in the restore, before the cursor moves,   *)
(* or while the heads are marked.  The call comes to nothing.              *)
TornRecover ==
  LET s == LastCheckpoint.snapshot
  IN  /\ checkpoints # <<>>
      /\ \/ TornRestore(s) /\ UNCHANGED <<cursor, replays, durable>>
         \/ /\ Restore(s)
            /\ Counting(Replayable(s))
            /\ \E D \in SUBSET s.heads :
                 /\ D # {} => Consistent(s)
                 /\ durable' = Marked(D)
      /\ \E k \in 0 .. Len(open) : Unwound(k)
      /\ mixed' = (mixed \/ heads' # s.heads)
      /\ UNCHANGED <<checkpoints, journal>>

(* Every way an interrupt may strike.                                      *)
RecInterrupted ==
  /\ interrupts < MaxInterrupts
  /\ interrupts' = interrupts + 1
  /\ recovery' = "none"
  /\ \/ Interrupted /\ UNCHANGED <<drc, mixed>>
     \/ TornAbort /\ mixed' = (mixed \/ heads' # Top.before.heads) /\ UNCHANGED drc
     \/ TornCheckpoint
     \/ TornRecover

RecNext ==
  \/ TxNext /\ recovery' = "none" /\ UNCHANGED <<drc, interrupted>>
  \/ Checkpoint
  \/ \E h \in MarkedByCaller : CommitHead(h)
  \/ \E i \in DOMAIN history : JournalTx(history[i])
  \/ RecoverEmpty
  \/ RecoverRaises
  \/ Recover
  \/ RecInterrupted

RecSpec == RecInit /\ [][RecNext]_recVars

----------------------------------------------------------------------------
(* The recovery layer's lists, cursor and marks.                           *)
RecTypeOK ==
  /\ TxTypeOK
  /\ \A i \in DOMAIN checkpoints :
       IsSnapshot(checkpoints[i].snapshot) /\ checkpoints[i].at \in 0 .. Len(journal)
  /\ journal \in Seq([status : {"COMMITTED", "ROLLED_BACK"}, nodes : SUBSET Hash])
  /\ cursor \in 0 .. Len(journal)
  /\ durable \subseteq Hash
  /\ recovery \in {"none", "EMPTY", "IndexError", "RECOVERED", "INCONSISTENT"}
  /\ replays \in [DOMAIN journal -> 0 .. 2]
  /\ interrupts \in 0 .. MaxInterrupts
  /\ mixed \in BOOLEAN

(* Whatever was interrupted before the checkpoint or after it, recover     *)
(* never brings back a graph that fails its own consistency check, unless  *)
(* a restore was itself interrupted between its nodes and its heads        *)
(* (atc.py:99-101): a checkpoint of what that leaves is kept unverified.   *)
NeverInconsistent == recovery = "INCONSISTENT" => mixed

(* has_commit_record answers only for heads that a kept checkpoint can     *)
(* bring back or the caller committed: checkpoint keeps the snapshot       *)
(* before it marks, so that an interrupt leaves no marker without one.     *)
MarkersBacked ==
  durable \subseteq
    MarkedByCaller \cup UNION {checkpoints[i].snapshot.heads : i \in DOMAIN checkpoints}

(* The cursor never passes a committed entry, journaled after the last     *)
(* checkpoint, that no recovery has counted.                               *)
NoEntrySkipped ==
  \A i \in 1 .. cursor :
     /\ journal[i].status = "COMMITTED"
     /\ (checkpoints # <<>> => i > LastCheckpoint.at)
     => replays[i] > 0

(* README.md:49-53 and drc.py:124-126 say every visible head has a durable *)
(* commit record.                                                          *)
VisibleHeadsDurable == open = <<>> => heads \subseteq durable

(* drc.py:15 and 183-185 say a recovery brings back the last valid         *)
(* committed state: it keeps the nodes of every journaled commit.          *)
CommittedSurvivesRecovery ==
  [][Recover => \A i \in DOMAIN journal :
       journal[i].status = "COMMITTED" => journal[i].nodes \subseteq Known']_recVars

(* README.md:43-46 and drc.py:120-122 say a second recovery replays only   *)
(* what is after the cursor and never counts an entry twice.               *)
ReplayedOnce == \A i \in DOMAIN replays : replays[i] =< 1
=============================================================================
