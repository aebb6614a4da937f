# SOE-DDCI in TLA+

A verification project for the Python package `src/soe_ddci`: a state machine
for one entity (states, context, decisions), a zero-reasoning selector (RCS-0,
F4), and a stack of control layers over state digests: a write gate (RWA-1), a
lineage graph (LGC-1), atomic transactions (ATC-1), recovery (DRC-1) and a
device registry (BRN-1). The modules are translated from the code; the
docstrings, `src/README.md` and the tests are read as statements of intent, and
where the code does something else a run and a finding in `PROJECT.json` say so.

## Inventory

| Component | State | Operations | Depends on |
|---|---|---|---|
| LGC-1 `lgc.py` | `_nodes`, `_children`, `_heads`, `_root` | `add_root`, `propose`, `join`; read: `children_of`, `detect_fork`, `heads`, `lineage`, `is_ancestor`, `verify_lineage` | digests |
| ATC-1 `atc.py` | `_history`; snapshots on the stack of `run` | `snapshot`, `_restore`, `run(mutate)`, `verify_graph_consistent` | replaces all four attributes of the graph |
| DRC-1 `drc.py` | `_checkpoints`, `_journal`, `_replay_cursor`, `_committed_heads`, `_last_valid` | `checkpoint`, `commit_head`, `journal_tx`, `recover` | reads and replaces the graph; is called by neither graph nor transactions |
| RWA-1 `rwa.py` | `_state` (one digest per target), `_history` | `current_hash`, `make_capability`, `write`, `read` | HMAC of `authenticity.py`, the clock |
| BRN-1 `brn.py` | `_registry`, `_seeds` | `register_seed`, `register`, `attention`, `authorize`, `devices_for_seed`, `prune_expired` | the clock |
| Entity `entity.py`, `states.py`, `data_bank.py`, `relations.py`, `history.py` | state, records by domain, edges, event log | `transition_to`, `remember`, `relate_to` | |
| Engine `engine.py`, `context.py`, `decision.py` | session id, objective | `process`, `new_session`, `relate`, `produce_remain`, `produce_formation` | entity, RCS-0, F4 |
| RCS-0, F4 `rcs.py`, `formation.py` | none | `cluster`, `select`, `utt_match`, `form` | encodings |
| Canonical form `canonical.py` | none | `canonical_bytes`, `round_trip_stable`, `verify_formation`, `formation_canonical` | items and formations of RCS-0, F4 |
| Authenticity `authenticity.py` | a key | `sign`, `verify`, `sign_canonical`, `verify_canonical` | canonical bytes |
| Demo, exports | none | | |

Nothing in the package starts a thread or writes a file. What is hard is
therefore not parallelism inside one call but the order of calls: several
callers who hold digests, capabilities, answers or snapshots obtained earlier;
operations that fail or are interrupted half way; runs inside runs; recoveries
at arbitrary moments; the clock; and scores whose ties and clamps decide where
an entity goes. `PROJECT.json` lists these hazards at their lines.

What makes each component correct: the graph stays consistent, acyclic and
indexed, loses no state and merges siblings only explicitly (LGC-1); a run is
all or nothing (ATC-1); recovery returns to a consistent graph and counts each
commit once (DRC-1); commits to a target form one chain, each authorised for
the digest it replaced (RWA-1); expiry and pruning agree (BRN-1); the log
explains the state and objectives are reached (engine); index, log, context and
edges agree (the entity's stores); what remains is exactly what matched (RCS-0,
F4); canonical bytes follow meaning, and a tag that verifies keeps what was true
when it was made (canonical form, authenticity).

## Modules

`Lineage` (LGC-1). The four variables are the graph's four attributes. `AddRoot`,
`Propose` and `Join` are the three writing methods, each whole; the calls that
return early (unknown parent, known digest, conflict) change nothing and are the
guards. A digest is a member of `Hash`: a mutation is given by its digest, and
`MergedHash(r, P)` is what `join` computes from a resolution extended with one
link per parent. Facts about digests are assumed (`DigestAssumption`): a merge
with parents differs from payloads and from the digests it contains, and it
determines its resolution and parents; a merge without parents is the resolution
itself. Nothing is assumed of the names of roots, which callers choose freely: a
root may be given the hash of a proposed state or of a merge. `Provenance` keeps of the provenance
strings what `detect_fork` compares; `JoinConflicts` is its use in `join`.

`Transactions` (ATC-1) extends `Lineage` with the stack of open runs and the
history. While a run is open its `mutate` is executing, so graph operations,
nested runs and failures happen then. `Commit`, `Abort` and `ReturnNone` are the
three ways `run` ends: normally, by an `Exception`, and by a `mutate` that
returns `None`, where `list(None)` raises inside the handler too (atc.py:128)
after the graph has been restored. `Interrupted` adds exceptions that are no
`Exception`: they pass through any number of runs and may strike between two
statements of `add_root`, `propose` or `join` (`TornAddRoot`, `TornPropose`,
`TornJoin`; in `join` also with some of the parents' heads discarded) and inside
`_restore`, with the first one to four attributes back (`TornRestore`).

`AtomicGraph` is the abstract specification of a transaction layer: outside
transactions the graph changes by one write, one commit, or not at all. The
refinement mapping takes for `visible` the snapshot of the outermost open run,
or the graph when none is open, and for `outcomes` the records of depth 1, each
under its place in the history: a function from report numbers, so that no
position has to be recomputed and the step can be proved.

`Recovery` (DRC-1) extends `Transactions`: checkpoints, journal, cursor and
commit markers. Every step of `InterruptedSpec` is a step of it too, so the graph
a checkpoint captures may be half written or uncommitted, and an interrupt may
strike inside `checkpoint`, once the snapshot is kept (`TornCheckpoint`: some heads
are marked, the cursor is not moved), and inside `recover` (`TornRecover`: in the
restore, before the cursor moves, or while heads are marked). `MaxInterrupts`
bounds their number. Three history variables: `replays`, how often each entry was
counted, `interrupts`, and `mixed`, whether an interrupted restore left the heads of
one graph with the nodes of another.

`WriteGate` (RWA-1): several writers observe the digest of a target, an issuer
mints capabilities, and writes are submitted later. `Checks` lists the checks of
`write` in their order (4 and 6 are hooks that return `True`); the first that
fails gives the reason. An HMAC tag is the pair of key and digest. The version a
writer observed is kept in the log for the properties and read by no check.
`Write` reads the time, which may be anything: `time.time()` can be set back.
`lapsed` is a history variable for the properties, the capabilities refused as
expired since the clock was last set back.

`Selection` (RCS-0, F4) holds pure operators: an item is its position with its
encoding, `Encode` need not be injective (it hashes a `repr`), `CanForm` says
when `form` raises neither `ValueError` nor `AssertionError`.

`Engine` extends `Selection` with the entity, its bank, relations, session and
log. The log is never read by a decision, so only what the last call appended is
kept (`appended`); of the bank a decision reads only whether the `Window` newest
records are more than half of it, so counting stops at `2 * Window`. `Process` is
the whole of `process`: activation, the attempt to observe, the EVENT record,
reconstruction, decision and transition, in that order. Scores are integers in
units of 1/10000. The code's scores are floats; for the weights and priorities
of the instance the integer order and the code's order of candidates agree in
every state (they can differ only where two scores are equal in exact
arithmetic, as at priority 1.5, which is not in the instance).

`Devices` (BRN-1): the registry, the clock, which may be set to any time, and the
answer of `attention` a caller keeps. The registry of a seed is a sequence;
`attention` without a seed goes through a Python set, so the seed it names is any
of those that match. `EmptySeed` is the empty string: as `branch_seed` it is no seed
for the search (brn.py:106 tests truth) and one for the comparison that follows
(brn.py:122 tests for `None`), so `Answers` keeps the two tests apart. `pruned` is a
history variable: the latest time a prune ran at since the answer was given. `Among` is
the loop that `devices_for_seed` and `prune_expired` share, collecting the entries
that have not expired one after the other.

`Memory` (data bank, relations, event log, and the context read of them): the
stores that `Engine` abstracts. A record has a number, its place in the order of
all stores; its id is new or one in use, because callers may pass an id and
`connect` and `store` accept a known one. `Recent` is `query` with a limit: domain
by domain, then sorted by a time that can stand still or be set back, then the
end of the list, where a limit of 0 gives all of it. `RelateTo` and `Connect` add
edges; nothing takes back what `_adj` and `_rev` know of a replaced edge.

`Canonical` (canonical.py) has values and their JSON text. A text is given by the
value `json.loads` makes of it with its keys in written order. Keys are numbers
or strings that spell one: `sort_keys` compares the keys, not their texts, and
that is where the two orders differ. `Fit` is what `json.dumps` does not refuse.
`Value` is a parameter: any values nested to at most `MaxDepth` (a nesting beyond
the interpreter's limit makes `json.dumps` raise), with the values they hold and
those their texts are read as, so that `Parts`, `Text` and `Meaning` are recursive
*functions*, which can be proved about. `Sorted` gives each entry of a dict the
place its key has among the keys. `SameMeaning` is the reference a canonical form
is measured against, and `Faithful` says by how much canonical bytes agree with it.
A dataclass passed as a payload is written as its `asdict` (canonical.py:35-36) and
so is here the dict of its fields, in their order.

`Authenticity` (canonical.py, authenticity.py with rcs.py and formation.py)
extends `Selection` and `Canonical`: payloads are values. What tags rest on besides
is named in `MeaningAssumption`: equal encodings are only of payloads that mean the
same. Items are shared objects: a cluster, every kept result and the formation
refer to them by position, payloads by object. So
`Alter` (a payload changed in place) and `EncodeItem` (`encode` writes in place)
are seen by all holders, and `Form` reads the encoding of the item as it is now
but everything else of the result as it was kept. `Form(given)` tells a call with
the cluster, which counts the matches (formation.py:114), from one without, which
only needs a survivor. `FormationBytes` is the
formation's canonical form with its item, `FormationCanonical` the identity that
keeps only the item's id. The tag remembers, for the properties only, what was so
when it was made.

The `MC...` modules give the constants for TLC, the `...Proofs` modules hold the
proofs, `TransactionProofs` those of `Transactions` and of `Recovery`. `Induction`
has the few facts about numbers that several proofs need.
Operators named `Mut...` are plausible mistakes; no definition uses them. They
serve to show that each property can fail.

## Runs

| Run | Bounds | Shows |
|---|---|---|
| `lineage` | 4 nodes; 3 root names, one of them also a payload and one the digest of a merge; 3 payloads; merges of at most 2 branches | all eight properties of the graph, with roots and merges stored over existing nodes |
| `transactions` | 3 nodes, 1 root name, 2 runs, nesting 2 | refinement of `AtomicGraph`; snapshots nest; committed nodes stay |
| `recovery` | 2 nodes, one a root with the name of a merge of the other, 2 runs, no nesting, 1 checkpoint, 2 journal entries, one interrupt anywhere | recovery is consistent; markers have a checkpoint behind them; nothing journaled after the checkpoint is skipped |
| `gate` | 2 writers, 2 targets, 2 digests, 2 keys, 2 capabilities of 3 shapes, 3 requests, each at any time to 2, expiry at 1 or never | the chain of digests, capabilities and stale writes |
| `engine` | window 3, 11 objectives, every initial state, 1 transition by the caller | log, decisions, objectives obeyed at once and in time, selections |
| `devices` | 2 devices and keys; a seed and the empty one; 3 attestations; expiry at 1 or never; the clock set to any time to 2 | pruning, expiry and kept answers |
| `memory` | 2 domains, 2 entities, 4 records, 3 events, 2 relations, time 0 or 1, windows 2 and 2 | index, log and context agree, neighbours and density agree with the edges |
| `authenticity` | 6 payload objects, clusters of 2 items (one with a shared object), 9 payload values, 1 key, 1 formation | canonical bytes and their exceptions, tags over formations and identities |

The bounds are the least at which the cases arise: a fork needs a root and two
payloads, a merge of it a fourth node, and a merge a root is laid over three; a nested rollback needs depth 2; a digest
that returns needs three commits by two writers; a score that flips with the
context needs a bank that outgrows twice the window within the run (window 50 in
the code, 3 here: a few cycles on either side of it). One checkpoint is enough
for what recovery does, as only the last is read. A context that omits a record
the log shows needs windows smaller than the bank and a clock that goes back: two
times and four records (400 thousand states). The payloads of `authenticity`
differ pairwise in contents, in insertion order, in the kind of their keys or in
whether JSON can write them, and 2 and 10 are the least numbers whose texts sort
the other way (510 thousand states). The exact values are in the `.cfg` files and
`MC` modules; every bound (`Max...`, `Window`) is a constant guarding an action.

Four runs show a disagreement between what the code does and what a text says:

| Run | Text | Code |
|---|---|---|
| `tx_interrupt` | complete fully or leave no trace (atc.py:3, 19) | only `Exception` is rolled back (atc.py:121) |
| `recovery_heads` | visible heads are durable (README.md:49) | heads are published without a marker |
| `recovery_committed` | restart gives the last committed state (drc.py:15) | commits since the checkpoint are counted, not rebuilt |
| `recovery_replay` | a second recovery replays nothing new (README.md:46) | the cursor moves by a count, not to a position (drc.py:224) |

Three more do so without a run of their own: their property says exactly when the
code keeps to the text, so the run that checks it passes and its mutant shows that
it would notice another answer.

| Run, property | Text | Code |
|---|---|---|
| `engine`, `DemandTaken` | a non-INVALID state is preferred unless the objective explicitly demands INVALID (decision.py:79-80) | the objective is not looked at: no objective reaches INVALID, while any other adjacent target of priority between 1.0 and 1.5 is taken at once |
| `authenticity`, `CanonicalFaithful` | canonical form survives reading back, byte for byte (canonical.py:8, 79) | not of dicts whose numeric keys sort otherwise as texts, nor of values that are no container |
| `devices`, `AmbiguousIfEmptySeed` | AMBIGUOUS means that a candidate matches several seeds (brn.py:130) | it is answered only for `branch_seed=""`, of a single match; a candidate of several seeds is MATCHED to one of them |

Other things the code does that its texts may not lead one to expect are stated
by properties that hold, as the exact conditions under which they do:

- equal digests at the gate hide a change and its return: a stale write is
  committed only when the digest came back (`StaleNeedsReturn`);
- `add_root` stores over any node. Over a proposed state it removes the parent link;
  no cycle arises and no state is forgotten. Over a merge it removes the sources, so
  the graph forgets what was joined there: a branch may then be no head, have no
  child and be named by no merge. That is the only way (`NoStateLost`, `Acyclic`);
- an interrupt between the attributes of a `_restore` may leave the heads of one
  graph with the nodes of another, a checkpoint keeps that unverified, and recovery
  answers INCONSISTENT; nothing else does that (`NeverInconsistent`);
- a refused expired capability, and a match of an expired attestation that was
  pruned, are as final as the clock is monotone (`CapabilitySpent`, `MatchStaysValid`);
- `join` asks for a resolution for siblings, not for their descendants
  (`SiblingsJoinedExplicitly`);
- canonical bytes do not depend on the order a dict was filled in, but a dict with
  numbers for keys is written in the order of the numbers and one with the strings
  that spell them in the order of the strings, so where these differ a text read
  back is written otherwise; so is that of a value that is no container. There
  are no other exceptions (`CanonicalFaithful`);
- `verify_formation` compares the encoding only, and derives it from the item as
  it is now: with a tag over the formation it vouches for the payload, with a tag
  over the canonical identity only for the encoding (`TagKeepsVerdict`,
  `CertifiedOrigin`);
- a density above 1 takes parallel edges or an edge of an entity to itself
  (`RelationsExplained`).

Deadlock is not checked where the bounds stop the model (`CHECK_DEADLOCK FALSE`).
In `engine`, `devices`, `memory` and `authenticity` some action is always enabled
and it is checked.

Fairness is assumed in `engine` only: `WF` of a cycle, that is, the host keeps
giving inputs. Nothing in the package schedules them, so `ObjectiveReached` is a
claim about hosts that do. It holds for priorities from 0.5 to 1.0 and targets
that cycles can reach, once the caller makes no more transitions of its own. The
range matters: at 0.1 an objective of ARCHIVED is never reached, because the
archival penalty (decision.py:152) outweighs it, and the instance contains that
objective. At the other end, from 1.5 on, the clamp of scores (decision.py) lets
a relevant ACTIVE tie with a target STORED, and at equal scores the entity may
circle between ACTIVE and OBSERVED; 149, just below, is in the instance for
`DemandTaken`.

## Proofs

Of the 40 properties of the passing runs 39 are proved, the refinement included,
for every value of the constants and under the assumptions the modules name. The
other one, which is about liveness, is at the end of this section.

`Induction`. The library's induction theorems take an operator as a parameter,
which the provers here cannot instantiate; what it states about sets can be used.
So `Least` (a set of numbers has a least member) follows from the well-foundedness
of `<`, and `Greatest` and `Induct` follow from `Least`. With `Induct` a recursive
*function* can be reasoned about: first that a function satisfying its equation
exists, built up argument by argument, so that the `CHOOSE` behind the definition
has the value the equation gives (`Collected`, `WalkStep`, `TextStep`), then what it
computes. That is how `Among`, `Walk` and the functions of `Canonical` are proved
about. No module declares a RECURSIVE operator, which the provers cannot expand.

`LineageProofs` proves the eight properties of the run `lineage` for
every value of the constants, under the two assumptions `Lineage` makes of them.
The types come first (`TypeCorrect`). The other invariants are inductive only
together with facts that the properties do not state, added in three layers:

- `LinkInv`: types, consistency and acyclicity, with `OnlyProposedLinked` (a node
  has a parent exactly when `propose` stored it) and `SourcesKnown` (the sources
  of a merge are nodes). It gives `StaysConsistent` and `NoCycle`.
- `IndexInv`: `LinkInv` with `ChildIndexSound`, since what `propose` appends to the
  list of a parent is in no list only if the index was sound. It gives `IndexSound`.
- `HeadInv`: `IndexInv` with `MergesNamed` (a merge of some branches is named by
  their digest), `SupersededNotHead` and `NoStateLost`. Since `add_root` may store over
  a merge, `NoStateLost` has a third case (`Overlaid`): a root stands where a merge of
  the state would. `SourcesKept` uses `MergesNamed` to show that a step keeps the
  sources of a merge or makes them `Overlaid`, `OverlaidKept` that this lasts until
  the merge is made again. It gives `HeadsAreTips` and `NothingLost`.

`NoCycle` states acyclicity as "every non-empty set of nodes has a member whose
parent is outside": a proposal adds a node nothing points to, and roots and
merges only remove links. `ExplicitSiblings` is inductive over `IndexInv`: two
siblings share the provenance of their parent, which `join` reports as a
conflict (`SiblingsConflict`), and a proposed node was there with the same parent
before the step or is new (`ProposedBefore`).

`LineageReachesOrigin` (`AncestryOrdered`) is about what `lineage` and `is_ancestor`
compute. `WalkInv` adds to `LinkInv` that the graph is finite, which is why the walk
ends: each step has one node less ahead of it (`WalkOn`). By induction on that
number, the walk visits nodes it has not seen, each the parent of the next, until
a parent is no node or one it has seen (`Follows`). Acyclicity excludes the last,
so a lineage begins at a node without parent (`LineageChain`); and two states that
were each other's ancestor would give, with the parts of the two lineages between
them, a set of nodes that parent links never leave.

`WriteGateProofs` proves all six properties of the run `gate` for every number of
writers, targets, digests, keys and grants and for every bound, under
`GateAssumption` and `GrantAssumption`. Three layers:

- `GateInv`: types of the map, the log and the capabilities, with
  `CommitsChecked` (a committed write stored a digest, named the digest it
  replaced, and had it signed by the gate's key), which follows from the checks
  of `write` that passed. It gives `GateTypes`, `Authorised` and `CommitsChange`.
- `ChainInv`: `GateInv` with `LastHolds` (the gate holds what the last commit
  stored), `PreviousLinked` and `NextLinked` (each commit replaced what the one
  before it stored). The last two are stated with a witness for the neighbouring
  commit, which each step carries along. It gives `Chain`, `Spent` and
  `Stale`: the commit just before an outdated or repeated one stored the digest
  that was named, and it lies between the two.
- `ExpiryInv`: `GateInv` with `LapsedOver` (what was refused as expired since the clock
  was last set back has an expiry, and its time is over) and `SpentOnExpiry`, the
  second half of `Spent`: a write that reads no earlier a time finds it expired again
  (`LapsedExpired`), so once refused for its age a capability carries no write until
  the clock is set back.

`TransactionProofs` proves all four properties of the run `transactions`, for every
number and depth of runs. The argument is about `Levels`: the snapshots of the
open runs, outermost first, and the graph on top. `StackInv` says that every
level is a well-typed, consistent graph, that each grew from every one below it,
and that it has the nodes created by the runs below it. A write changes the top
level only and what it stores extends it; `Begin` repeats the top; a commit drops
the level below the top and hands its nodes to the run around it; a rollback drops
the top. `Nested` is a reading of `StackInv`; `Kept` needs `CommittedKept` itself
besides, as the first level is what it speaks of. `Implements` is the refinement:
`AtomicStep` shows that, under `TxInv`, every step is a step of `AtomicGraph` or
leaves `visible` and `outcomes` as they were: only steps at depth 0 and the end
of the outermost run are seen from outside, and `Outcomes` grows by one report
numbered after all the others (`Reports`).

The second part of `TransactionProofs` proves all four properties of the run
`recovery`, interrupts included. `SnapshotsNested` does not hold there (a recovery in the middle of a run
replaces the graph by an older one), so `RunsInv` asks less: the graph and each open snapshot are consistent.
It survives interrupts of the graph's operations because they store the node before
they publish the head (`TornSound`): whatever is missing is a head or an index
entry, never a node that something points to. An interrupt inside `_restore` may
leave heads that are no nodes of the graph restored. `mixed` records it, and the
invariant asks for consistency only while it has not happened (`Fine`,
`TornRestored`). `MarksInv` says the same of checkpoints and contains `MarkersBacked`:
every marker is of a head some checkpoint holds or of a hash the caller committed,
which the order in `checkpoint`, keep and then mark, carries through its interrupts.
`JournalInv` bounds the cursor and contains `NoEntrySkipped`,
which is inductive with it: the cursor moves by the number of entries counted,
and `CountedFirst` shows by cardinality that no committed entry up to there was
passed over, although the count may fall short of the position. The results are
`RecTypes`, `AlwaysConsistent`, `Backing` and `NoneSkipped`.

`MemoryProofs` proves the four properties of the run `memory`, for any domains,
entities and windows. `MemInv` adds to the types that a record's number
is at most the count of records, so that a new one is told apart from all
others, and that what is stored and logged is in the index; it gives `TypeCorrect`
and `Newest`. `RelInv` relates the adjacency maps to the edges, exactly as long as
no relation id has been reused; the bound on the density is a cardinality argument
over ordered pairs of distinct entities (`Explained`). `ContextCovers` counts along
log and bank together (`Followed`): after the event that names a record there are
at least as many events as records were stored after that record. So a record
missing from the context although its event is shown was pushed out by as many
records as the window has, of which too few are newer: one is older by number and
not by time. It needs `EventWindow =< RecordWindow` (20 and 50 in context.py:68,
100).

`DevicesProofs` proves the four properties of the run `devices`. `Inv` says that
what is registered under a seed names that seed (`FiledUnderSeed`), so `attention`
finds a match under another seed only when it was asked with the empty one
(`AttentionDecides`), and that every attestation of a kept answer is still in the
list of its seed unless it had expired at the latest time a prune ran at since
(`Attested`), which gives `MatchAuthorized` wherever the clock is set. The loops: `Among` keeps the entries in the set and
no others (`AmongProperties`), and keeps the whole of a list that has no others
(`AmongAll`), so that collecting the unexpired of what was collected already
changes nothing and a prune cannot be seen (`PruneHarmless`).

`EngineProofs` proves the five safety properties of the run `engine`, for any
payloads, objectives, sessions and windows.

- Selections: a set of positions below a bound has a greatest, so the survivor is
  the last match (`Survivor`); `SelectExact` and `ChainExact` follow, and `form` is
  refused unless exactly one item remained. They give `SelectionsExact`.
- Decisions: `FirstExists` finds the candidate `decide` takes: the best score of
  finitely many, and among those of that score the least id. `DecideNotInvalid`,
  `DemandScores` with `DemandDecided`, and `UndirectedDecides` compare the scores of
  the candidates; with `Route`, where the entity stands when a cycle decides, they
  give `DemandObeyed` and `UndirectedActive`, for every size of the bank and, as far as
  INVALID is concerned, every priority.
- The log: `Told` says that a list of events leads from one state to another;
  appending an event that is no transition (`ToldOther`) or the next transition
  (`ToldMove`) keeps it, and each action is a composition of these (`StepTold`).
  It gives `LogTells`.

`AuthenticityProofs` proves `CanonicalFaithful`, the types, `TagKeepsVerdict` and
`CertifiedOrigin`.

Canonical bytes first, for all values and not only for those some object comes to
hold (`AllFaithful`), by induction on the depth of values (`ByDepth`):

- `Places`: in a dict that can be written, the place of a key, the number of keys up
  to it, is a bijection between the keys and `1 .. Len` that keeps their order. So
  `Sorted` has every entry once (`SortedPlaces`), and `Text` and `Meaning` satisfy
  their equations (`TextStep`, `MeaningStep`).
- `TextMeans`: the meaning of a text, read as a value, is that of the value. So equal
  texts are of values that mean the same (`TextTells`).
- `MeaningTells`: where the keys of dicts are in the order of their texts, the place
  of a key is known from the names alone (`PlaceByName`), so values that mean the
  same have the same text. A text is such a value itself (`TextOrdered`), hence one
  of such a value survives reading back.
- `ReadBackOrdered`: the other direction. If a text is written again as it was, its
  keys were sorted as they stood, so the value's own keys are in text order, and
  those of all it holds.

Then tags. `TagInv` reads what was so at the signing back out of the mac: the bytes
of a formation hold the item's text and the two encodings `verify_formation`
compares. A tag that verifies has the same bytes now (`VerifiesSays`), so the
verdict is the same and, by `TextTells`, so is what the payload means
(`VerdictLasts`). `OriginLasts` needs `MeaningAssumption` besides: an encoding is
the hash of a `repr`, and an object of the caller whose `repr` is that of another
value could be what the formation was made of.

Attempts that failed said something about the models, which were changed: two arms
of `Decide` overlapped when there is no candidate, so its value was not determined
by the code's order of tests; the clock of `Devices` needs `MaxTime` to be at least
1; types given as `STRING` say nothing a prover can use, and are now the sets of
event types and actions the code writes; and `CertifiedOrigin` held in the run
because the instance's encodings happen to be one to one, which is now a named
assumption.

What is only model-checked, and why:

- `ObjectiveReached` is liveness under fairness.
- The four statements that the code does not keep (see Runs) are refuted by TLC.

## Not modelled

- Process death: the "durable" layer lives in memory, so a crash loses it with
  the graph and there is no state to recover; what is modelled is an exception
  that unwinds the stack and a caller that goes on.
- Digest and prefix collisions: provenance shows 12 characters of a digest; they
  are taken to identify it. Mutations and resolutions do not use keys that begin
  with `parent:`, with which a caller could spell the links of a merge.
- The empty string as the hash of a root: `join` tests a node's parent by truth
  (lgc.py:227-228), so a state proposed from it would count as having none.
- `parents` of a join is a set: a repeated parent changes only the count in a
  provenance string.
- Fields no operation reads: timestamps of nodes and records of runs, authors,
  markers' values, parent links of journal entries, confidences, embeddings,
  `vector`, and `committed_tx_count`, which `checkpoint` takes of a transaction
  object made one line earlier and is therefore always 0 (drc.py:142).
- Reading helpers that keep no state and that no operation calls: keyword
  retrieval, `find_contradictions` and the other filters of relations and history,
  the read methods of the session, `read` of the gate, `verify_provenance`,
  `cluster_canonical`, `derive_key`.
- The demo and the package exports. No code of the package connects the gate,
  the transactions, the engine and the registry with each other; the demo calls
  them one after the other. A composition of all of them would model a caller that
  does not exist, so only what the code composes is composed: recovery over
  transactions over the graph, the engine and authenticity over selection.
- Dataclasses inside plain containers: `json.dumps` refuses them, so they are among
  the opaque values; only a payload that is one itself is written.

## Plan

Done, in this order: `Lineage` with its proofs, `Transactions` with `AtomicGraph`,
`Recovery`, `WriteGate` with its proofs, `Selection` and `Engine`, `Devices`,
`Canonical` and `Authenticity`, `Memory` with its proofs, the proofs of
`Transactions` (with the refinement) and of `Recovery`, then those of `Devices`,
`Engine` and `Authenticity`, with `Induction` those of `AncestryOrdered` and
`ContextCoversLog`, and last, with `Canonical` written as functions on values,
that of `CanonicalFaithful`.

Considered and left out: an abstract specification of the gate, a register written
by compare and set. `ChainIntact`, `AuthorisedForReplaced` and `StaleNeedsReturn`
say more: a register that compares digests cannot tell a digest that came back from
one that never left, and that is the case the gate is exposed to.
