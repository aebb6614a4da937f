------------------------------- MODULE Memory -------------------------------
(***************************************************************************)
(* The stores of one entity: its data bank (data_bank.py), its relation    *)
(* graph (relations.py) and its event log (history.py), written by the     *)
(* operations of entity.py, and the context a session reads of them        *)
(* (context.py).                                                           *)
(*                                                                         *)
(* Three orders meet here.  Records are filed by domain, stamped by a      *)
(* clock that may stand still or be set back, and found again by time; the *)
(* log keeps the order of the calls; the index and the edges keep the last *)
(* thing stored under an id.  An id is a number, new or in use: a caller   *)
(* may give an id of its own, and give one again.  What a record or event  *)
(* says, weights and confidences are left out.                             *)
(***************************************************************************)
EXTENDS Naturals, Sequences, FiniteSets

CONSTANTS
  Domains,        \* the domains, in the order of DataDomain
  EntityDomain,   \* the domain transition_to writes to
  Self,           \* the entity's own id
  Other,          \* the ids of others
  RecordWindow,   \* the records a context retrieves (50 in context.py)
  EventWindow,    \* the events it shows (20 in context.py)
  MaxTime, MaxRecords, MaxEvents, MaxRelations   \* bounds on the exploration

Domain == {Domains[i] : i \in DOMAIN Domains}
Entity == Other \cup {Self}

ASSUME MemoryAssumption ==
  /\ Domains \in Seq(Domain) /\ EntityDomain \in Domain
  /\ \A i, j \in DOMAIN Domains : Domains[i] = Domains[j] => i = j
  /\ Self \notin Other
  /\ {MaxTime, MaxRecords, MaxEvents, MaxRelations} \subseteq Nat
  /\ EventWindow \in Nat \ {0} /\ RecordWindow \in Nat /\ EventWindow =< RecordWindow

VARIABLES
  bank,     \* _domains: the records of each domain, oldest first
  index,    \* _index: the record each id stands for
  edges,    \* _edges: the relation each id stands for
  adj,      \* _adj: the targets of each source
  rev,      \* _rev: the sources of each target
  log,      \* _events, oldest first
  clock,    \* time.time()
  added     \* relations added so far, those since replaced included

stores == <<bank, index>>
relations == <<edges, adj, rev, added>>
vars == <<stores, relations, log, clock>>

----------------------------------------------------------------------------
(* A record is known by its number, the how-manieth it is of the bank.     *)
Record == [no : Nat, domain : Domain, id : Nat, time : 0 .. MaxTime]
Relation == [source : Entity, target : Entity]

(* An event says under which id something was stored or related, or 0.     *)
EventType == {"memory_written", "transition", "relation_added", "session"}
Event == [type : EventType, id : Nat]

Members(s) == {s[i] : i \in DOMAIN s}
Stored == UNION {Members(bank[d]) : d \in Domain}

(* The order of query: records are taken domain by domain, in each as they *)
(* came, and sorted by time, which keeps that order among equal times.     *)
Place(d) == CHOOSE i \in DOMAIN Domains : Domains[i] = d

Before(r, s) ==
  \/ r.time < s.time
  \/ r.time = s.time /\ Place(r.domain) < Place(s.domain)
  \/ r.time = s.time /\ r.domain = s.domain /\ r.no < s.no

(* recent(n), a query with a limit: the end of that order, pool[-n:]; and  *)
(* the end of the log.  Of either, the last 0 are all of it.  The          *)
(* operators Mut... are mistakes this code could have had: here, no sort.  *)
MutRecent(n) ==
  LET After(r) == {s \in Stored : \/ Place(r.domain) < Place(s.domain)
                                  \/ r.domain = s.domain /\ r.no < s.no}
  IN  {r \in Stored : n = 0 \/ Cardinality(After(r)) < n}

Recent(n) == {r \in Stored : n = 0 \/ Cardinality({s \in Stored : Before(r, s)}) < n}

RecentEvents(n) == {log[i] : i \in {i \in DOMAIN log : n = 0 \/ Len(log) - i < n}}

(* neighbors, outgoing and incoming.                                       *)
Neighbors(e) == adj[e] \cup rev[e]
Outgoing(e) == {r \in DOMAIN edges : edges[r].source = e}
Incoming(e) == {r \in DOMAIN edges : edges[r].target = e}

(* density divides the number of edges by the room for them, among the     *)
(* entities adj and rev know; the mutant leaves room for one direction.    *)
Linking == {e \in Entity : Neighbors(e) # {}}
MutRoom(n) == (n * (n - 1)) \div 2
Room(n) == n * (n - 1)

----------------------------------------------------------------------------
(* store, under an id that is new or in use.                               *)
NewRecord(d, id) == [no |-> Cardinality(Stored) + 1, domain |-> d, id |-> id, time |-> clock]

MutIndexed(r) == [id \in DOMAIN index \cup {r.id} |-> IF id \in DOMAIN index THEN index[id] ELSE r]
Indexed(r) == [id \in DOMAIN index \cup {r.id} |-> IF id = r.id THEN r ELSE index[id]]

MutStore(r) ==
  /\ Cardinality(Stored) < MaxRecords
  /\ bank' = [bank EXCEPT ![EntityDomain] = Append(@, r)]
  /\ index' = Indexed(r)

Store(r) ==
  /\ Cardinality(Stored) < MaxRecords
  /\ bank' = [bank EXCEPT ![r.domain] = Append(@, r)]
  /\ index' = Indexed(r)

(* append to the log.                                                      *)
Log(kind, id) ==
  /\ Len(log) < MaxEvents
  /\ log' = Append(log, [type |-> kind, id |-> id])

(* add, of connect: the edge replaces the one under its id, and nothing    *)
(* takes back what adj and rev know of that one.                           *)
MutLinked(f, a, b) == [f EXCEPT ![a] = {b}]
Linked(f, a, b) == [f EXCEPT ![a] = @ \cup {b}]

Add(rel, id) ==
  /\ added < MaxRelations
  /\ added' = added + 1
  /\ edges' = [i \in DOMAIN edges \cup {id} |-> IF i = id THEN rel ELSE edges[i]]
  /\ adj' = Linked(adj, rel.source, rel.target)
  /\ rev' = Linked(rev, rel.target, rel.source)

----------------------------------------------------------------------------
(* An entity begins with a record of itself, of which the log says nothing. *)
Init ==
  /\ clock \in 0 .. MaxTime
  /\ LET seed == [no |-> 1, domain |-> EntityDomain, id |-> 1, time |-> clock]
     IN  /\ bank = [d \in Domain |-> IF d = EntityDomain THEN <<seed>> ELSE <<>>]
         /\ index = [id \in {1} |-> seed]
  /\ edges = <<>>
  /\ adj = [e \in Entity |-> {}]
  /\ rev = [e \in Entity |-> {}]
  /\ log = <<>>
  /\ added = 0

Fresh == Cardinality(Stored) + 1

Remember(d, id) ==
  /\ Store(NewRecord(d, id))
  /\ Log("memory_written", id)
  /\ UNCHANGED <<relations, clock>>

(* transition_to, along an allowed edge.                                   *)
TransitionTo ==
  /\ Log("transition", 0)
  /\ Store(NewRecord(EntityDomain, Fresh))
  /\ UNCHANGED <<relations, clock>>

(* relate_to, perhaps itself, with a weight and a confidence in range; out *)
(* of range, Relation raises before anything is added or logged.           *)
RelateTo(other) ==
  /\ Add([source |-> Self, target |-> other], added + 1)
  /\ Log("relation_added", added + 1)
  /\ UNCHANGED <<stores, clock>>

(* connect, called on the entity's graph.                                  *)
Connect(rel, id) ==
  /\ Add(rel, id)
  /\ UNCHANGED <<stores, log, clock>>

(* What a session logs of itself: new_session, produce_remain and the like. *)
LogSession ==
  /\ Log("session", 0)
  /\ UNCHANGED <<stores, relations, clock>>

(* Time passes, or is set back.                                            *)
SetClock(t) ==
  /\ t # clock
  /\ clock' = t
  /\ UNCHANGED <<stores, relations, log>>

Next ==
  \/ \E d \in Domain, id \in DOMAIN index \cup {Fresh} : Remember(d, id)
  \/ TransitionTo
  \/ \E other \in Entity : RelateTo(other)
  \/ \E rel \in Relation, id \in DOMAIN edges \cup {added + 1} : Connect(rel, id)
  \/ LogSession
  \/ \E t \in 0 .. MaxTime : SetClock(t)

Spec == Init /\ [][Next]_vars

----------------------------------------------------------------------------
(* Every store keeps its shape, a domain holds its own records only, and   *)
(* numbers are given once.                                                 *)
TypeOK ==
  /\ \A d \in Domain : \A r \in Members(bank[d]) : r \in Record /\ r.domain = d
  /\ \A r, s \in Stored : r.no = s.no => r = s
  /\ \A id \in DOMAIN index : index[id] \in Record
  /\ \A id \in DOMAIN edges : edges[id] \in Relation
  /\ adj \in [Entity -> SUBSET Entity]
  /\ rev \in [Entity -> SUBSET Entity]
  /\ log \in Seq(Event)
  /\ clock \in 0 .. MaxTime
  /\ added \in 0 .. MaxRelations

(* get() answers every id a record was stored under or the log mentions,   *)
(* with the record stored last under it, in whichever domain: the lists    *)
(* keep those before it (data_bank.py:100-101).                            *)
IndexNewest ==
  /\ \A i \in DOMAIN log : log[i].type = "memory_written" => log[i].id \in DOMAIN index
  /\ \A r \in Stored : r.id \in DOMAIN index
  /\ \A id \in DOMAIN index :
       /\ index[id] \in Stored
       /\ index[id].id = id
       /\ \A r \in Stored : r.id = id => r.no =< index[id].no

(* A context that shows that something was remembered holds the record of  *)
(* it, unless the clock gave that record no later time than one it holds   *)
(* that was stored before: the end of the log and the end of the bank are  *)
(* of different orders, over several domains, and still agree              *)
(* (context.py:68-71, 100; data_bank.py:107-123).                          *)
ContextCoversLog ==
  \A e \in RecentEvents(EventWindow) :
    e.type = "memory_written" =>
      LET r == index[e.id]
          context == Recent(RecordWindow)
      IN  r \in context \/ \E s \in context : s.no < r.no /\ s.time >= r.time

(* Neighbours are mutual, and are the ends of an entity's edges; one with  *)
(* no edge left is there only because a relation's id was given again      *)
(* (relations.py:68-71).                                                   *)
NeighborsExplained ==
  \A e, f \in Entity :
    LET joined == \E id \in Outgoing(e) \cup Incoming(e) :
                    {edges[id].source, edges[id].target} = {e, f}
    IN  /\ f \in Neighbors(e) <=> e \in Neighbors(f)
        /\ joined => f \in Neighbors(e)
        /\ f \in Neighbors(e) /\ Cardinality(DOMAIN edges) = added => joined

(* A density over 1 shows two relations of one entity to another, or one   *)
(* to itself (relations.py:118-125).                                       *)
DensityWithinOne ==
  LET pairs == {edges[id] : id \in DOMAIN edges}
      n == Cardinality(Linking)
  IN  /\ Cardinality(pairs) = Cardinality(DOMAIN edges)
      /\ \A rel \in pairs : rel.source # rel.target
      => Cardinality(DOMAIN edges) =< Room(n)

(* What neighbors() and density() tell of the graph agrees with its edges. *)
RelationsExplained == NeighborsExplained /\ DensityWithinOne
=============================================================================
