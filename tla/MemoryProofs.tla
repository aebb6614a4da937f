---------------------------- MODULE MemoryProofs ----------------------------
(***************************************************************************)
(* Theorems of Memory, proved for any domains, any entities and any bounds. *)
(* The index and the relations need what the stores leave unsaid of their  *)
(* counts; the context needs the log and the bank counted together, since  *)
(* it cuts one by order of call and the other by order of time.            *)
(***************************************************************************)
EXTENDS Memory, Induction

(* The inductive invariant, in parts: the types and the property of the    *)
(* index, split by the stores they are about, with what they leave unsaid. *)
BankOK ==
  /\ \A d \in Domain : \A r \in Members(bank[d]) : r \in Record /\ r.domain = d
  /\ \A r, s \in Stored : r.no = s.no => r = s
  /\ \A id \in DOMAIN index : index[id] \in Record

(* Numbers count the records.                                              *)
BankTyped ==
  /\ bank \in [Domain -> Seq(Record)]
  /\ IsFiniteSet(Stored)
  /\ \A r \in Stored : r.no =< Cardinality(Stored)
  /\ DOMAIN index \subseteq Nat

IndexOK ==
  /\ \A r \in Stored : r.id \in DOMAIN index
  /\ \A id \in DOMAIN index :
       /\ index[id] \in Stored
       /\ index[id].id = id
       /\ \A r \in Stored : r.id = id => r.no =< index[id].no

LogOK == \A i \in DOMAIN log : log[i].type = "memory_written" => log[i].id \in DOMAIN index

EdgesOK ==
  /\ \A id \in DOMAIN edges : edges[id] \in Relation
  /\ adj \in [Entity -> SUBSET Entity]
  /\ rev \in [Entity -> SUBSET Entity]
  /\ added \in 0 .. MaxRelations

EdgesTyped ==
  /\ DOMAIN edges \subseteq Nat
  /\ IsFiniteSet(DOMAIN edges)
  /\ IsFiniteSet(Linking)

BankInv == BankOK /\ BankTyped /\ IndexOK
LogInv == LogOK /\ log \in Seq(Event)
EdgesInv == EdgesOK /\ EdgesTyped
ClockInv == clock \in 0 .. MaxTime

MemInv == BankInv /\ LogInv /\ EdgesInv /\ ClockInv

LEMMA Parts == MemInv => TypeOK /\ IndexNewest
BY DEF MemInv, BankInv, LogInv, EdgesInv, ClockInv, BankOK, IndexOK, LogOK, EdgesOK,
       TypeOK, IndexNewest

-----------------------------------------------------------------------------
(* Appending adds one member to a sequence.                                *)
LEMMA MembersAppend ==
  ASSUME NEW S, NEW s \in Seq(S), NEW x \in S
  PROVE  Append(s, x) \in Seq(S) /\ Members(Append(s, x)) = Members(s) \cup {x}
<1>1. /\ Append(s, x) \in Seq(S) /\ Len(s) \in Nat
      /\ DOMAIN s = 1 .. Len(s) /\ DOMAIN Append(s, x) = 1 .. Len(s) + 1
      /\ \A i \in 1 .. Len(s) : Append(s, x)[i] = s[i]
      /\ Append(s, x)[Len(s) + 1] = x
  OBVIOUS
<1>2. ASSUME NEW y \in Members(Append(s, x)) PROVE y \in Members(s) \cup {x}
  BY <1>1, <1>2 DEF Members
<1>3. ASSUME NEW y \in Members(s) PROVE y \in Members(Append(s, x))
  <2>1. PICK i \in 1 .. Len(s) : y = s[i]  BY <1>1, <1>3 DEF Members
  <2> QED  BY <1>1, <2>1 DEF Members
<1>4. x \in Members(Append(s, x))  BY <1>1 DEF Members
<1> QED  BY <1>1, <1>2, <1>3, <1>4

(* A new record is numbered one above those stored, so it is none of them. *)
LEMMA NewRecordTyped ==
  ASSUME BankInv, ClockInv, NEW d \in Domain, NEW id \in Nat, NEW r, r = NewRecord(d, id)
  PROVE  /\ r \in Record /\ r.domain = d /\ r.id = id
         /\ r.no = Cardinality(Stored) + 1 /\ r \notin Stored
         /\ \A s \in Stored : s.no \in Nat /\ s.no < r.no
<1>1. Cardinality(Stored) \in Nat  BY FS_CardinalityType DEF BankInv, BankTyped
<1>2. r \in Record /\ r.domain = d /\ r.id = id /\ r.no = Cardinality(Stored) + 1
  BY <1>1 DEF ClockInv, NewRecord, Record
<1>3. \A s \in Stored : s \in Record  BY DEF BankInv, BankOK, Stored
<1>4. \A s \in Stored : s.no \in Nat /\ s.no =< Cardinality(Stored)
  BY <1>3 DEF BankInv, BankTyped, Record
<1>5. \A s \in Stored : s.no \in Nat /\ s.no < r.no  BY <1>1, <1>2, <1>4
<1> QED  BY <1>2, <1>5

(* store adds its record, and nothing else, to those stored.               *)
LEMMA StoreEffect ==
  ASSUME BankInv, NEW r \in Record, r.domain \in Domain, r \notin Stored, Store(r)
  PROVE  /\ bank' \in [Domain -> Seq(Record)]
         /\ \A d \in Domain : Members(bank'[d]) =
              IF d = r.domain THEN Members(bank[d]) \cup {r} ELSE Members(bank[d])
         /\ Stored' = Stored \cup {r}
         /\ IsFiniteSet(Stored') /\ Cardinality(Stored)' = Cardinality(Stored) + 1
         /\ DOMAIN index' = DOMAIN index \cup {r.id}
         /\ index'[r.id] = r
         /\ \A id \in DOMAIN index : id # r.id => index'[id] = index[id]
<1>1. /\ bank \in [Domain -> Seq(Record)] /\ bank[r.domain] \in Seq(Record)
      /\ bank' = [bank EXCEPT ![r.domain] = Append(bank[r.domain], r)]
  BY DEF BankInv, BankTyped, Store
<1>2. /\ Append(bank[r.domain], r) \in Seq(Record)
      /\ Members(Append(bank[r.domain], r)) = Members(bank[r.domain]) \cup {r}
  BY <1>1, MembersAppend
<1>3. bank' \in [Domain -> Seq(Record)]  BY <1>1, <1>2
<1>4. \A d \in Domain : bank'[d] = IF d = r.domain THEN Append(bank[r.domain], r) ELSE bank[d]
  BY <1>1
<1>5. \A d \in Domain : Members(bank'[d]) =
        IF d = r.domain THEN Members(bank[d]) \cup {r} ELSE Members(bank[d])
  BY <1>2, <1>4
<1>6. Stored' = Stored \cup {r}  BY <1>5 DEF Stored
<1>7. IsFiniteSet(Stored') /\ Cardinality(Stored') = Cardinality(Stored) + 1
  BY <1>6, FS_AddElement DEF BankInv, BankTyped
<1>8. index' = [id \in DOMAIN index \cup {r.id} |-> IF id = r.id THEN r ELSE index[id]]
  BY DEF Store, Indexed
<1> QED  BY <1>3, <1>5, <1>6, <1>7, <1>8

(* An event appended to the log.                                           *)
LEMMA LogEffect ==
  ASSUME LogInv, NEW kind \in EventType, NEW id \in Nat, Log(kind, id), NEW n, n = Len(log) + 1
  PROVE  /\ log' \in Seq(Event) /\ DOMAIN log' = DOMAIN log \cup {n} /\ n \notin DOMAIN log
         /\ log'[n] = [type |-> kind, id |-> id]
         /\ \A i \in DOMAIN log : log'[i] = log[i]
<1>1. log \in Seq(Event) /\ [type |-> kind, id |-> id] \in Event
  BY DEF LogInv, Event
<1>2. log' = Append(log, [type |-> kind, id |-> id])  BY DEF Log
<1>3. /\ log' \in Seq(Event) /\ Len(log) \in Nat /\ DOMAIN log = 1 .. Len(log)
      /\ DOMAIN log' = 1 .. Len(log) + 1
      /\ \A i \in 1 .. Len(log) : log'[i] = log[i]
      /\ log'[Len(log) + 1] = [type |-> kind, id |-> id]
  BY <1>1, <1>2
<1> QED  BY <1>3

(* Whatever is stored under whatever id, the bank stays well formed and    *)
(* the index answers with the newest record.                               *)
LEMMA StoreKeeps ==
  ASSUME BankInv, ClockInv, NEW d \in Domain, NEW id \in Nat, Store(NewRecord(d, id))
  PROVE  /\ BankInv'
         /\ DOMAIN index' = DOMAIN index \cup {id}
<1>1. PICK r : r = NewRecord(d, id)  OBVIOUS
<1>2. /\ r \in Record /\ r.domain = d /\ r.id = id
      /\ r.no = Cardinality(Stored) + 1 /\ r \notin Stored
      /\ \A s \in Stored : s.no \in Nat /\ s.no < r.no
  BY <1>1, NewRecordTyped
<1>3. /\ bank' \in [Domain -> Seq(Record)]
      /\ \A e \in Domain : Members(bank'[e]) =
           IF e = d THEN Members(bank[e]) \cup {r} ELSE Members(bank[e])
      /\ Stored' = Stored \cup {r}
      /\ IsFiniteSet(Stored') /\ Cardinality(Stored)' = Cardinality(Stored) + 1
      /\ DOMAIN index' = DOMAIN index \cup {id}
      /\ index'[id] = r
      /\ \A x \in DOMAIN index : x # id => index'[x] = index[x]
  BY <1>1, <1>2, StoreEffect
<1>4. BankOK /\ IndexOK /\ BankTyped  BY DEF BankInv
<1>5. Cardinality(Stored) \in Nat  BY <1>4, FS_CardinalityType DEF BankTyped
<1>6. r.no \in Nat  BY <1>2, <1>5
<1>7. BankOK'
  <2>1. \A e \in Domain : \A s \in Members(bank'[e]) : s \in Record /\ s.domain = e
    BY <1>2, <1>3, <1>4 DEF BankOK
  <2>2. \A s, t \in Stored' : s.no = t.no => s = t
    BY <1>2, <1>3, <1>4, <1>6 DEF BankOK
  <2>3. \A x \in DOMAIN index' : index'[x] \in Record
    BY <1>2, <1>3, <1>4 DEF BankOK
  <2> QED  BY <2>1, <2>2, <2>3, <1>3 DEF BankOK, Members
<1>8. BankTyped'
  <2>1. \A s \in Stored : s.no =< Cardinality(Stored) + 1
    BY <1>2, <1>4, <1>5 DEF BankTyped
  <2> QED  BY <1>2, <1>3, <1>4, <1>5, <2>1 DEF BankTyped
<1>9. IndexOK'
  <2>1. \A s \in Stored' : s.id \in DOMAIN index'
    BY <1>2, <1>3, <1>4 DEF IndexOK
  <2>2. ASSUME NEW x \in DOMAIN index'
        PROVE  /\ index'[x] \in Stored' /\ index'[x].id = x
               /\ \A s \in Stored' : s.id = x => s.no =< index'[x].no
    <3>1. CASE x = id  BY <1>2, <1>3, <1>5, <1>6, <3>1
    <3>2. CASE x # id
      <4>1. x \in DOMAIN index /\ index'[x] = index[x]  BY <1>3, <3>2
      <4> QED  BY <1>2, <1>3, <1>4, <3>2, <4>1 DEF IndexOK
    <3> QED  BY <3>1, <3>2
  <2> QED  BY <2>1, <2>2 DEF IndexOK
<1> QED  BY <1>3, <1>7, <1>8, <1>9 DEF BankInv

(* What is logged under an id the index knows keeps the log answered, as   *)
(* the index only grows.                                                   *)
LEMMA LogKeeps ==
  ASSUME LogInv, NEW kind \in EventType, NEW id \in Nat, Log(kind, id),
         DOMAIN index \subseteq DOMAIN index',
         kind = "memory_written" => id \in DOMAIN index'
  PROVE  LogInv'
<1>1. PICK n : n = Len(log) + 1  OBVIOUS
<1>2. /\ log' \in Seq(Event) /\ DOMAIN log' = DOMAIN log \cup {n} /\ n \notin DOMAIN log
      /\ log'[n] = [type |-> kind, id |-> id]
      /\ \A i \in DOMAIN log : log'[i] = log[i]
  BY <1>1, LogEffect
<1> QED  BY <1>2 DEF LogInv, LogOK

(* add keeps the edges well formed and their ends finitely many.           *)
LEMMA AddKeeps ==
  ASSUME EdgesInv, NEW rel \in Relation, NEW id \in Nat, Add(rel, id)
  PROVE  /\ EdgesInv'
         /\ \A e, f \in Entity :
              /\ f \in adj'[e] <=> f \in adj[e] \/ (e = rel.source /\ f = rel.target)
              /\ f \in rev'[e] <=> f \in rev[e] \/ (e = rel.target /\ f = rel.source)
         /\ added' = added + 1
         /\ DOMAIN edges' = DOMAIN edges \cup {id}
         /\ edges'[id] = rel
         /\ \A i \in DOMAIN edges : i # id => edges'[i] = edges[i]
         /\ Linking' = Linking \cup {rel.source, rel.target}
<1>1. EdgesOK /\ EdgesTyped  BY DEF EdgesInv
<1>2. rel.source \in Entity /\ rel.target \in Entity  BY DEF Relation
<1>3. /\ adj' = [adj EXCEPT ![rel.source] = adj[rel.source] \cup {rel.target}]
      /\ rev' = [rev EXCEPT ![rel.target] = rev[rel.target] \cup {rel.source}]
  BY DEF Add, Linked
<1>4. /\ adj' \in [Entity -> SUBSET Entity] /\ rev' \in [Entity -> SUBSET Entity]
  BY <1>1, <1>2, <1>3 DEF EdgesOK
<1>5. \A e, f \in Entity :
        /\ f \in adj'[e] <=> f \in adj[e] \/ (e = rel.source /\ f = rel.target)
        /\ f \in rev'[e] <=> f \in rev[e] \/ (e = rel.target /\ f = rel.source)
  BY <1>1, <1>2, <1>3 DEF EdgesOK
<1>6. /\ DOMAIN edges' = DOMAIN edges \cup {id}
      /\ edges'[id] = rel
      /\ \A i \in DOMAIN edges : i # id => edges'[i] = edges[i]
  BY DEF Add
<1>7. added' = added + 1 /\ added' \in 0 .. MaxRelations
  BY <1>1, MemoryAssumption DEF Add, EdgesOK
<1>8. EdgesOK'  BY <1>1, <1>4, <1>6, <1>7 DEF EdgesOK
<1>9. Linking' = Linking \cup {rel.source, rel.target}
  <2>1. \A e \in Entity : e \in Linking <=> \E f \in Entity : f \in adj[e] \/ f \in rev[e]
    BY <1>1 DEF Linking, Neighbors, EdgesOK
  <2>2. \A e \in Entity : e \in Linking' <=> \E f \in Entity : f \in adj'[e] \/ f \in rev'[e]
    BY <1>4 DEF Linking, Neighbors
  <2>3. \A e \in Entity : e \in Linking' <=> e \in Linking \/ e \in {rel.source, rel.target}
    BY <1>2, <1>5, <2>1, <2>2
  <2> QED  BY <1>2, <2>3 DEF Linking
<1>10. EdgesTyped'
  <2>1. IsFiniteSet(DOMAIN edges \cup {id})
    BY <1>1, FS_AddElement DEF EdgesTyped
  <2>2. IsFiniteSet((Linking \cup {rel.source}) \cup {rel.target})
    BY <1>1, FS_AddElement DEF EdgesTyped
  <2>3. (Linking \cup {rel.source}) \cup {rel.target} = Linking \cup {rel.source, rel.target}
    OBVIOUS
  <2> QED  BY <1>1, <1>6, <1>9, <2>1, <2>2, <2>3 DEF EdgesTyped
<1> QED  BY <1>5, <1>6, <1>7, <1>8, <1>9, <1>10 DEF EdgesInv

-----------------------------------------------------------------------------
LEMMA MemInit == Init => MemInv
<1> SUFFICES ASSUME Init PROVE MemInv  OBVIOUS
<1>1. PICK seed : /\ seed = [no |-> 1, domain |-> EntityDomain, id |-> 1, time |-> clock]
                  /\ bank = [d \in Domain |-> IF d = EntityDomain THEN <<seed>> ELSE <<>>]
                  /\ index = [id \in {1} |-> seed]
  BY DEF Init
<1>2. clock \in 0 .. MaxTime /\ EntityDomain \in Domain /\ seed \in Record
  BY <1>1, MemoryAssumption DEF Init, Record
<1>3. \A d \in Domain : Members(bank[d]) = IF d = EntityDomain THEN {seed} ELSE {}
  BY <1>1 DEF Members
<1>4. Stored = {seed}  BY <1>2, <1>3 DEF Stored
<1>5. IsFiniteSet(Stored) /\ Cardinality(Stored) = 1  BY <1>4, FS_Singleton
<1>6. BankOK /\ IndexOK
  BY <1>1, <1>2, <1>3, <1>4 DEF BankOK, IndexOK, Record
<1>7. BankTyped
  <2>1. bank \in [Domain -> Seq(Record)]  BY <1>1, <1>2
  <2> QED  BY <1>1, <1>4, <1>5, <2>1 DEF BankTyped
<1>8. log \in Seq(Event) /\ LogOK  BY DEF Init, LogOK
<1>9. EdgesOK  BY MemoryAssumption DEF Init, EdgesOK
<1>10. EdgesTyped
  <2>1. DOMAIN edges = {} /\ Linking = {}
    BY DEF Init, Linking, Neighbors
  <2> QED  BY <2>1, FS_EmptySet DEF EdgesTyped
<1> QED  BY <1>2, <1>6, <1>7, <1>8, <1>9, <1>10
  DEF MemInv, BankInv, LogInv, EdgesInv, ClockInv

LEMMA MemNext == MemInv /\ [Next]_vars => MemInv'
<1> SUFFICES ASSUME MemInv, [Next]_vars PROVE MemInv'  OBVIOUS
<1>1. BankInv /\ LogInv /\ EdgesInv /\ ClockInv  BY DEF MemInv
<1>2. BankInv' /\ LogInv' /\ EdgesInv' /\ ClockInv' => MemInv'  BY DEF MemInv
<1>3. ASSUME UNCHANGED stores PROVE BankInv'
  <2>1. bank' = bank /\ index' = index  BY <1>3 DEF stores
  <2>2. Stored' = Stored  BY <2>1 DEF Stored
  <2> QED  BY <1>1, <2>1, <2>2 DEF BankInv, BankOK, BankTyped, IndexOK
<1>4. ASSUME UNCHANGED <<stores, log>> PROVE LogInv'
  BY <1>1, <1>4 DEF stores, LogInv, LogOK
<1>5. ASSUME UNCHANGED relations PROVE EdgesInv'
  <2>1. edges' = edges /\ adj' = adj /\ rev' = rev /\ added' = added
    BY <1>5 DEF relations
  <2>2. Linking' = Linking  BY <2>1 DEF Linking, Neighbors
  <2> QED  BY <1>1, <2>1, <2>2 DEF EdgesInv, EdgesOK, EdgesTyped
<1>6. ASSUME UNCHANGED clock PROVE ClockInv'  BY <1>1, <1>6 DEF ClockInv
<1>7. Fresh \in Nat /\ DOMAIN index \subseteq Nat /\ DOMAIN edges \subseteq Nat
      /\ added \in Nat /\ EntityDomain \in Domain
  BY <1>1, FS_CardinalityType, MemoryAssumption
  DEF BankInv, BankTyped, EdgesInv, EdgesTyped, EdgesOK, Fresh
<1>8. ASSUME NEW d \in Domain, NEW id \in DOMAIN index \cup {Fresh}, Remember(d, id)
      PROVE  MemInv'
  <2>1. id \in Nat /\ Store(NewRecord(d, id)) /\ Log("memory_written", id)
        /\ UNCHANGED <<relations, clock>>
    BY <1>7, <1>8 DEF Remember
  <2>2. BankInv' /\ DOMAIN index' = DOMAIN index \cup {id}  BY <1>1, <2>1, StoreKeeps
  <2>3. LogInv'
    <3>1. "memory_written" \in EventType  BY DEF EventType
    <3>2. DOMAIN index \subseteq DOMAIN index' /\ id \in DOMAIN index'  BY <2>2
    <3> QED  BY <1>1, <2>1, <3>1, <3>2, LogKeeps
  <2> QED  BY <1>2, <1>5, <1>6, <2>1, <2>2, <2>3
<1>9. CASE TransitionTo
  <2>1. PICK fresh \in Nat : fresh = Fresh  BY <1>7
  <2>2. Store(NewRecord(EntityDomain, fresh)) /\ Log("transition", 0)
        /\ UNCHANGED <<relations, clock>>
    BY <1>9, <2>1 DEF TransitionTo
  <2>3. BankInv' /\ DOMAIN index' = DOMAIN index \cup {fresh}
    BY <1>1, <1>7, <2>2, StoreKeeps
  <2>4. LogInv'
    <3>1. "transition" \in EventType /\ 0 \in Nat  BY DEF EventType
    <3>2. DOMAIN index \subseteq DOMAIN index' /\ "transition" # "memory_written"
      BY <2>3
    <3> QED  BY <1>1, <2>2, <3>1, <3>2, LogKeeps
  <2> QED  BY <1>2, <1>5, <1>6, <2>2, <2>3, <2>4
<1>10. ASSUME NEW other \in Entity, RelateTo(other) PROVE MemInv'
  <2> DEFINE link == [source |-> Self, target |-> other]
  <2>1. added + 1 \in Nat /\ link \in Relation  BY <1>7 DEF Relation, Entity
  <2>2. PICK id \in Nat, rel \in Relation : id = added + 1 /\ rel = link
    BY <2>1
  <2>3. Add(rel, id) /\ Log("relation_added", id) /\ UNCHANGED <<stores, clock>>
    BY <1>10, <2>2 DEF RelateTo
  <2>4. EdgesInv'  BY <1>1, <2>3, AddKeeps
  <2>5. LogInv'
    <3>1. "relation_added" \in EventType  BY DEF EventType
    <3>2. DOMAIN index \subseteq DOMAIN index' /\ "relation_added" # "memory_written"
      BY <2>3 DEF stores
    <3> QED  BY <1>1, <2>3, <3>1, <3>2, LogKeeps
  <2> QED  BY <1>2, <1>3, <1>6, <2>3, <2>4, <2>5
<1>11. ASSUME NEW rel \in Relation, NEW id \in DOMAIN edges \cup {added + 1}, Connect(rel, id)
       PROVE  MemInv'
  <2>1. id \in Nat /\ Add(rel, id) /\ UNCHANGED <<stores, log, clock>>
    BY <1>7, <1>11 DEF Connect
  <2>2. EdgesInv'  BY <1>1, <2>1, AddKeeps
  <2> QED  BY <1>2, <1>3, <1>4, <1>6, <2>1, <2>2
<1>12. CASE LogSession
  <2>1. Log("session", 0) /\ UNCHANGED <<stores, relations, clock>>
    BY <1>12 DEF LogSession
  <2>2. "session" \in EventType /\ 0 \in Nat /\ "session" # "memory_written"
    BY DEF EventType
  <2>3. DOMAIN index \subseteq DOMAIN index'  BY <2>1 DEF stores
  <2>4. LogInv'  BY <1>1, <2>1, <2>2, <2>3, LogKeeps
  <2> QED  BY <1>2, <1>3, <1>5, <1>6, <2>1, <2>4
<1>13. ASSUME NEW t \in 0 .. MaxTime, SetClock(t) PROVE MemInv'
  <2>1. UNCHANGED <<stores, relations, log>> /\ ClockInv'
    BY <1>13 DEF SetClock, ClockInv
  <2> QED  BY <1>2, <1>3, <1>4, <1>5, <2>1
<1>14. CASE UNCHANGED vars
  <2>1. UNCHANGED <<stores, relations, log, clock>>  BY <1>14 DEF vars
  <2> QED  BY <1>2, <1>3, <1>4, <1>5, <1>6, <2>1
<1> QED  BY <1>8, <1>9, <1>10, <1>11, <1>12, <1>13, <1>14 DEF Next

LEMMA MemInvariant == Spec => []MemInv
BY MemInit, MemNext, PTL DEF Spec

(* The bank, the log and the relations keep their shape: records are filed *)
(* under their own domain, whoever names it, and are told apart.           *)
THEOREM TypeCorrect == Spec => []TypeOK
BY Parts, MemInvariant, PTL

(* An id answers, for good, with the record last stored under it, although *)
(* ids may be given again and in another domain.                           *)
THEOREM Newest == Spec => []IndexNewest
BY Parts, MemInvariant, PTL

-----------------------------------------------------------------------------
(* The graph of relations.                                                 *)

Mutual == \A e, f \in Entity : f \in adj[e] <=> e \in rev[f]

EdgesShown == \A id \in DOMAIN edges : edges[id].target \in adj[edges[id].source]

(* Each relation added is still there unless its id was given again, so    *)
(* that what adj holds is explained while none was.                        *)
EdgesCounted ==
  /\ Cardinality(DOMAIN edges) =< added
  /\ Cardinality(DOMAIN edges) = added =>
       \A e, f \in Entity :
         f \in adj[e] => \E id \in DOMAIN edges : edges[id] = [source |-> e, target |-> f]

(* The ends of an edge are among the entities the graph knows.             *)
EdgesLinked ==
  \A id \in DOMAIN edges : edges[id].source \in Linking /\ edges[id].target \in Linking

RelInv == EdgesInv /\ Mutual /\ EdgesShown /\ EdgesCounted /\ EdgesLinked

LEMMA AddRelates ==
  ASSUME RelInv, NEW rel \in Relation, NEW id \in Nat, Add(rel, id)
  PROVE  RelInv'
<1>1. /\ EdgesInv'
      /\ \A e, f \in Entity :
           /\ f \in adj'[e] <=> f \in adj[e] \/ (e = rel.source /\ f = rel.target)
           /\ f \in rev'[e] <=> f \in rev[e] \/ (e = rel.target /\ f = rel.source)
      /\ added' = added + 1
      /\ DOMAIN edges' = DOMAIN edges \cup {id}
      /\ edges'[id] = rel
      /\ \A i \in DOMAIN edges : i # id => edges'[i] = edges[i]
      /\ Linking' = Linking \cup {rel.source, rel.target}
  BY AddKeeps DEF RelInv
<1>2. rel.source \in Entity /\ rel.target \in Entity
      /\ rel = [source |-> rel.source, target |-> rel.target]
  BY DEF Relation
<1>3. \A i \in DOMAIN edges : edges[i].source \in Entity /\ edges[i].target \in Entity
  BY DEF RelInv, EdgesInv, EdgesOK, Relation
<1>4. Mutual'  BY <1>1, <1>2 DEF RelInv, Mutual
<1>5. EdgesShown'
  <2> SUFFICES ASSUME NEW i \in DOMAIN edges' PROVE edges'[i].target \in adj'[edges'[i].source]
    BY DEF EdgesShown
  <2>1. CASE i = id  BY <1>1, <1>2, <2>1
  <2>2. CASE i # id
    <3>1. i \in DOMAIN edges /\ edges'[i] = edges[i]  BY <1>1, <2>2
    <3> QED  BY <1>1, <1>3, <3>1 DEF RelInv, EdgesShown
  <2> QED  BY <2>1, <2>2
<1>6. EdgesCounted'
  <2>1. /\ Cardinality(DOMAIN edges) \in Nat /\ added \in Nat
        /\ Cardinality(DOMAIN edges) =< added
    BY FS_CardinalityType, MemoryAssumption
    DEF RelInv, EdgesInv, EdgesOK, EdgesTyped, EdgesCounted
  <2>2. Cardinality(DOMAIN edges') = IF id \in DOMAIN edges THEN Cardinality(DOMAIN edges)
                                     ELSE Cardinality(DOMAIN edges) + 1
    BY <1>1, FS_AddElement DEF RelInv, EdgesInv, EdgesTyped
  <2>3. Cardinality(DOMAIN edges') =< added'  BY <1>1, <2>1, <2>2
  <2>4. ASSUME Cardinality(DOMAIN edges') = added',
               NEW e \in Entity, NEW f \in Entity, f \in adj'[e]
        PROVE  \E i \in DOMAIN edges' : edges'[i] = [source |-> e, target |-> f]
    <3>1. id \notin DOMAIN edges /\ Cardinality(DOMAIN edges) = added
      BY <1>1, <2>1, <2>2, <2>4
    <3>2. CASE e = rel.source /\ f = rel.target  BY <1>1, <1>2, <3>2
    <3>3. CASE f \in adj[e]
      <4>1. PICK i \in DOMAIN edges : edges[i] = [source |-> e, target |-> f]
        BY <3>1, <3>3 DEF RelInv, EdgesCounted
      <4> QED  BY <1>1, <3>1, <4>1
    <3> QED  BY <1>1, <2>4, <3>2, <3>3
  <2> QED  BY <2>3, <2>4 DEF EdgesCounted
<1>7. EdgesLinked'
  <2> SUFFICES ASSUME NEW i \in DOMAIN edges'
               PROVE  edges'[i].source \in Linking' /\ edges'[i].target \in Linking'
    BY DEF EdgesLinked
  <2>1. CASE i = id  BY <1>1, <2>1
  <2>2. CASE i # id  BY <1>1, <2>2 DEF RelInv, EdgesLinked
  <2> QED  BY <2>1, <2>2
<1> QED  BY <1>1, <1>4, <1>5, <1>6, <1>7 DEF RelInv

LEMMA RelNext == RelInv /\ MemInv /\ [Next]_vars => RelInv'
<1> SUFFICES ASSUME RelInv, MemInv, [Next]_vars PROVE RelInv'  OBVIOUS
<1>1. added \in Nat /\ DOMAIN edges \subseteq Nat
  BY MemoryAssumption DEF RelInv, EdgesInv, EdgesOK, EdgesTyped
<1>2. ASSUME NEW rel \in Relation, NEW id \in DOMAIN edges \cup {added + 1}, Add(rel, id)
      PROVE  RelInv'
  BY <1>1, <1>2, AddRelates
<1>3. CASE UNCHANGED relations
  <2>1. edges' = edges /\ adj' = adj /\ rev' = rev /\ added' = added
    BY <1>3 DEF relations
  <2>2. Linking' = Linking  BY <2>1 DEF Linking, Neighbors
  <2>3. EdgesInv'  BY <2>1, <2>2 DEF RelInv, EdgesInv, EdgesOK, EdgesTyped
  <2>4. Mutual' /\ EdgesShown' /\ EdgesCounted' /\ EdgesLinked'
    BY <2>1, <2>2 DEF RelInv, Mutual, EdgesShown, EdgesCounted, EdgesLinked
  <2> QED  BY <2>3, <2>4 DEF RelInv
<1>4. ASSUME NEW other \in Entity, RelateTo(other) PROVE RelInv'
  <2> DEFINE link == [source |-> Self, target |-> other]
  <2>1. link \in Relation  BY DEF Relation, Entity
  <2>2. PICK id \in DOMAIN edges \cup {added + 1}, rel \in Relation : id = added + 1 /\ rel = link
    BY <2>1
  <2> QED  BY <1>2, <1>4, <2>2 DEF RelateTo
<1>5. CASE \E rel \in Relation, id \in DOMAIN edges \cup {added + 1} : Connect(rel, id)
  BY <1>2, <1>5 DEF Connect
<1>6. \/ UNCHANGED relations
      \/ \E other \in Entity : RelateTo(other)
      \/ \E rel \in Relation, id \in DOMAIN edges \cup {added + 1} : Connect(rel, id)
  BY DEF Next, Remember, TransitionTo, LogSession, SetClock, vars
<1> QED  BY <1>3, <1>4, <1>5, <1>6

LEMMA RelInvariant == Spec => []RelInv
<1>1. Init => RelInv
  <2> SUFFICES ASSUME Init PROVE RelInv  OBVIOUS
  <2>1. EdgesInv  BY MemInit DEF MemInv
  <2>2. DOMAIN edges = {} /\ added = 0 /\ \A e \in Entity : adj[e] = {} /\ rev[e] = {}
    BY DEF Init
  <2> QED  BY <2>1, <2>2, FS_EmptySet
           DEF RelInv, Mutual, EdgesShown, EdgesCounted, EdgesLinked
<1> QED  BY <1>1, RelNext, MemInvariant, PTL DEF Spec

(* Of n things there are n * (n - 1) pairs of two different ones.          *)
LEMMA OrderedPairs ==
  ASSUME NEW L, IsFiniteSet(L), NEW n \in Nat, n = Cardinality(L)
  PROVE  /\ IsFiniteSet({p \in L \X L : p[1] # p[2]})
         /\ Cardinality({p \in L \X L : p[1] # p[2]}) = n * (n - 1)
<1> DEFINE Off == {p \in L \X L : p[1] # p[2]}
           Diagonal == {p \in L \X L : p[1] = p[2]}
           f == [e \in L |-> <<e, e>>]
<1>1. Off = (L \X L) \ Diagonal /\ (L \X L) \cap Diagonal = Diagonal  OBVIOUS
<1>2. IsFiniteSet(L \X L) /\ Cardinality(L \X L) = n * n  BY FS_Product
<1>3. f \in Injection(L, Diagonal) /\ f \in Surjection(L, Diagonal)
  <2>1. f \in [L -> Diagonal]  OBVIOUS
  <2>2. \A d \in L, e \in L : f[d] = f[e] => d = e  OBVIOUS
  <2>3. \A p \in Diagonal : \E e \in L : f[e] = p  OBVIOUS
  <2> QED  BY <2>1, <2>2, <2>3 DEF Injection, IsInjective, Surjection
<1>4. ExistsBijection(L, Diagonal)  BY <1>3 DEF ExistsBijection, Bijection
<1>5. IsFiniteSet(Diagonal) /\ Cardinality(Diagonal) = n  BY <1>4, FS_Bijection
<1> HIDE DEF Off, Diagonal
<1>6. /\ IsFiniteSet((L \X L) \ Diagonal)
      /\ Cardinality((L \X L) \ Diagonal) = n * n - Cardinality((L \X L) \cap Diagonal)
  BY <1>2, FS_Difference
<1>7. n * n - n = n * (n - 1)  OBVIOUS
<1>8. IsFiniteSet(Off) /\ Cardinality(Off) = n * (n - 1)
  BY <1>1, <1>5, <1>6, <1>7
<1> QED  BY <1>8 DEF Off

(* Edges no two of which are alike, and none of them a loop, fit into the  *)
(* room density() gives them.                                              *)
LEMMA Fits ==
  ASSUME RelInv,
         Cardinality({edges[id] : id \in DOMAIN edges}) = Cardinality(DOMAIN edges),
         \A id \in DOMAIN edges : edges[id].source # edges[id].target
  PROVE  Cardinality(DOMAIN edges) =< Room(Cardinality(Linking))
<1> DEFINE L == Linking
           Off == {p \in L \X L : p[1] # p[2]}
           P == {edges[id] : id \in DOMAIN edges}
           g == [r \in P |-> <<r.source, r.target>>]
<1>1. PICK n \in Nat : n = Cardinality(L)
  BY FS_CardinalityType DEF RelInv, EdgesInv, EdgesTyped
<1>2. IsFiniteSet(L)  BY DEF RelInv, EdgesInv, EdgesTyped
<1>3. IsFiniteSet(Off) /\ Cardinality(Off) = n * (n - 1)
  BY <1>1, <1>2, OrderedPairs
<1>4. \A r \in P : r \in Relation /\ r.source \in L /\ r.target \in L /\ r.source # r.target
  BY DEF RelInv, EdgesInv, EdgesOK, EdgesLinked
<1>5. g \in Injection(P, Off)
  <2>1. g \in [P -> Off]  BY <1>4
  <2>2. \A r \in P, s \in P : g[r] = g[s] => r = s  BY <1>4 DEF Relation
  <2> QED  BY <2>1, <2>2 DEF Injection, IsInjective
<1>6. Cardinality(P) =< Cardinality(Off)  BY <1>3, <1>5, FS_Injection
<1> QED  BY <1>1, <1>3, <1>6 DEF Room

(* Neighbours are mutual and explained by edges, and a density over 1 by   *)
(* repeated relations or loops, whatever is connected under whatever id.   *)
THEOREM Explained == Spec => []RelationsExplained
<1>1. ASSUME RelInv PROVE NeighborsExplained
  <2> SUFFICES ASSUME NEW e \in Entity, NEW f \in Entity
      PROVE LET joined == \E id \in Outgoing(e) \cup Incoming(e) :
                            {edges[id].source, edges[id].target} = {e, f}
            IN  /\ f \in Neighbors(e) <=> e \in Neighbors(f)
                /\ joined => f \in Neighbors(e)
                /\ f \in Neighbors(e) /\ Cardinality(DOMAIN edges) = added => joined
    BY DEF NeighborsExplained
  <2>1. /\ f \in adj[e] <=> e \in rev[f]
        /\ e \in adj[f] <=> f \in rev[e]
    BY <1>1 DEF RelInv, Mutual
  <2>2. ASSUME NEW id \in Outgoing(e) \cup Incoming(e),
               {edges[id].source, edges[id].target} = {e, f}
        PROVE  f \in Neighbors(e)
    <3>1. id \in DOMAIN edges /\ edges[id].target \in adj[edges[id].source]
      BY <1>1 DEF RelInv, EdgesShown, Outgoing, Incoming
    <3>2. \/ edges[id].source = e /\ edges[id].target = f
          \/ edges[id].source = f /\ edges[id].target = e
      BY <2>2
    <3> QED  BY <2>1, <3>1, <3>2 DEF Neighbors
  <2>3. ASSUME f \in Neighbors(e), Cardinality(DOMAIN edges) = added
        PROVE  \E id \in Outgoing(e) \cup Incoming(e) :
                 {edges[id].source, edges[id].target} = {e, f}
    <3>1. CASE f \in adj[e]
      <4>1. PICK id \in DOMAIN edges : edges[id] = [source |-> e, target |-> f]
        BY <1>1, <2>3, <3>1 DEF RelInv, EdgesCounted
      <4> QED  BY <4>1 DEF Outgoing
    <3>2. CASE e \in adj[f]
      <4>1. PICK id \in DOMAIN edges : edges[id] = [source |-> f, target |-> e]
        BY <1>1, <2>3, <3>2 DEF RelInv, EdgesCounted
      <4> QED  BY <4>1 DEF Incoming
    <3> QED  BY <2>1, <2>3, <3>1, <3>2 DEF Neighbors
  <2>4. f \in Neighbors(e) <=> e \in Neighbors(f)  BY <2>1 DEF Neighbors
  <2> QED  BY <2>2, <2>3, <2>4
<1>2. ASSUME RelInv PROVE DensityWithinOne  BY <1>2, Fits DEF DensityWithinOne
<1> QED  BY <1>1, <1>2, RelInvariant, PTL DEF RelationsExplained
-----------------------------------------------------------------------------
(* The end of the log and the end of the bank.                             *)

(* Every record but the first was logged, so that as many records at most  *)
(* came after the one an event tells of as events came after that event.   *)
Followed ==
  \A i \in DOMAIN log : log[i].type = "memory_written" =>
    Cardinality(Stored) - index[log[i].id].no =< Len(log) - i

CoverInv == MemInv /\ Followed

LEMMA StoredTyped ==
  ASSUME MemInv
  PROVE  /\ IsFiniteSet(Stored) /\ Cardinality(Stored) \in Nat
         /\ \A r \in Stored : /\ r.no \in Nat /\ r.no =< Cardinality(Stored)
                              /\ r.time \in Nat /\ r.time =< MaxTime
                              /\ r.domain \in Domain
         /\ \A r, s \in Stored : r.no = s.no => r = s
         /\ \A id \in DOMAIN index : index[id] \in Stored
         /\ log \in Seq(Event)
         /\ \A i \in DOMAIN log : log[i].type = "memory_written" => log[i].id \in DOMAIN index
         /\ DOMAIN index \subseteq Nat
<1>1. MaxTime \in Nat  BY MemoryAssumption
<1>2. \A r \in Stored : r \in Record  BY DEF MemInv, BankInv, BankOK, Stored
<1>3. \A r \in Stored : r.no \in Nat /\ r.time \in 0 .. MaxTime /\ r.domain \in Domain
  BY <1>2 DEF Record
<1>4. \A r \in Stored : r.time \in Nat /\ r.time =< MaxTime  BY <1>1, <1>3
<1> QED
  BY <1>3, <1>4, FS_CardinalityType
  DEF MemInv, BankInv, BankOK, BankTyped, IndexOK, LogInv, LogOK

(* What a record logged or stored under id changes of the count.           *)
LEMMA FollowedStore ==
  ASSUME CoverInv, NEW d \in Domain, NEW id \in Nat, NEW kind \in EventType, NEW on \in Nat,
         Store(NewRecord(d, id)), Log(kind, on),
         kind = "memory_written" => on = id
  PROVE  Followed'
<1>1. BankInv /\ ClockInv /\ LogInv  BY DEF CoverInv, MemInv
<1>2. PICK r : r = NewRecord(d, id)  OBVIOUS
<1>3. /\ r \in Record /\ r.domain = d /\ r.id = id /\ r.no = Cardinality(Stored) + 1
      /\ r \notin Stored /\ \A s \in Stored : s.no \in Nat /\ s.no < r.no
  BY <1>1, <1>2, NewRecordTyped
<1>4. /\ Stored' = Stored \cup {r} /\ Cardinality(Stored)' = Cardinality(Stored) + 1
      /\ DOMAIN index' = DOMAIN index \cup {id}
      /\ index'[id] = r
      /\ \A x \in DOMAIN index : x # id => index'[x] = index[x]
  BY <1>1, <1>2, <1>3, StoreEffect
<1>5. PICK n : n = Len(log) + 1  OBVIOUS
<1>6. /\ log' \in Seq(Event) /\ DOMAIN log' = DOMAIN log \cup {n} /\ n \notin DOMAIN log
      /\ log'[n] = [type |-> kind, id |-> on]
      /\ \A i \in DOMAIN log : log'[i] = log[i]
  BY <1>1, <1>5, LogEffect
<1>7. /\ Cardinality(Stored) \in Nat
      /\ \A x \in DOMAIN index : index[x] \in Stored /\ index[x].no \in Nat
      /\ \A i \in DOMAIN log : log[i].type = "memory_written" => log[i].id \in DOMAIN index
      /\ log \in Seq(Event) /\ Len(log) \in Nat /\ DOMAIN log = 1 .. Len(log)
  BY StoredTyped DEF CoverInv
<1>8. Len(log') = n
  <2>1. log' = Append(log, [type |-> kind, id |-> on])  BY DEF Log
  <2> QED  BY <1>5, <1>7, <2>1
<1>9. PICK c \in Nat : c = Cardinality(Stored) /\ Cardinality(Stored)' = c + 1  BY <1>4, <1>7
<1> SUFFICES ASSUME NEW i \in DOMAIN log', log'[i].type = "memory_written"
    PROVE  Cardinality(Stored') - index'[log'[i].id].no =< Len(log') - i
  BY Zenon DEF Followed
<1> SUFFICES \E k \in Nat : k = index'[log'[i].id].no /\ c + 1 - k =< n - i
  BY <1>8, <1>9
<1>10. CASE i = n
  <2>1. log'[i].id = id  BY <1>6, <1>10
  <2>2. index'[log'[i].id].no = c + 1 /\ c + 1 \in Nat  BY <1>3, <1>4, <1>9, <2>1
  <2> QED  BY <1>5, <1>7, <1>10, <2>2
<1>11. CASE i \in DOMAIN log
  <2>1. log'[i] = log[i] /\ log[i].id \in DOMAIN index  BY <1>6, <1>7, <1>11
  <2>2. PICK k \in Nat : k = index[log[i].id].no  BY <1>7, <2>1
  <2>3. c - k =< Len(log) - i
    BY <1>9, <1>11, <2>1, <2>2 DEF CoverInv, Followed
  <2>4. CASE log[i].id = id
    <3>1. index'[log'[i].id].no = c + 1 /\ c + 1 \in Nat  BY <1>3, <1>4, <1>9, <2>1, <2>4
    <3> QED  BY <1>5, <1>7, <1>11, <3>1
  <2>5. CASE log[i].id # id
    <3>1. index'[log'[i].id].no = k  BY <1>4, <2>1, <2>2, <2>5
    <3> QED  BY <1>5, <1>7, <1>11, <2>3, <3>1
  <2> QED  BY <2>4, <2>5
<1> QED  BY <1>6, <1>10, <1>11

(* An event of something else only adds to what followed.                  *)
LEMMA FollowedLog ==
  ASSUME CoverInv, NEW kind \in EventType, kind # "memory_written", NEW on \in Nat,
         Log(kind, on), UNCHANGED stores
  PROVE  Followed'
<1>1. LogInv  BY DEF CoverInv, MemInv
<1>2. PICK n : n = Len(log) + 1  OBVIOUS
<1>3. /\ DOMAIN log' = DOMAIN log \cup {n} /\ log'[n] = [type |-> kind, id |-> on]
      /\ \A i \in DOMAIN log : log'[i] = log[i]
  BY <1>1, <1>2, LogEffect
<1>4. /\ Cardinality(Stored) \in Nat
      /\ \A x \in DOMAIN index : index[x] \in Stored /\ index[x].no \in Nat
      /\ \A i \in DOMAIN log : log[i].type = "memory_written" => log[i].id \in DOMAIN index
      /\ log \in Seq(Event) /\ Len(log) \in Nat /\ DOMAIN log = 1 .. Len(log)
  BY StoredTyped DEF CoverInv
<1>5. Len(log') = n
  <2>1. log' = Append(log, [type |-> kind, id |-> on])  BY DEF Log
  <2> QED  BY <1>2, <1>4, <2>1
<1>6. index' = index /\ Stored' = Stored  BY DEF stores, Stored
<1> SUFFICES ASSUME NEW i \in DOMAIN log', log'[i].type = "memory_written"
    PROVE  Cardinality(Stored) - index[log'[i].id].no =< n - i
  BY <1>5, <1>6 DEF Followed
<1>7. i \in DOMAIN log /\ log'[i] = log[i]  BY <1>3
<1>8. Cardinality(Stored) - index[log[i].id].no =< Len(log) - i
  BY <1>7 DEF CoverInv, Followed
<1>9. index[log[i].id].no \in Nat  BY <1>4, <1>7
<1> QED  BY <1>2, <1>4, <1>7, <1>8, <1>9

LEMMA CoverInvariant == Spec => []CoverInv
<1>1. Init => CoverInv
  <2> SUFFICES ASSUME Init PROVE CoverInv  OBVIOUS
  <2>1. DOMAIN log = {}  BY DEF Init
  <2> QED  BY <2>1, MemInit DEF CoverInv, Followed
<1>2. CoverInv /\ [Next]_vars => CoverInv'
  <2> SUFFICES ASSUME CoverInv, [Next]_vars PROVE Followed'
    BY MemNext DEF CoverInv
  <2>1. /\ Fresh \in Nat /\ DOMAIN index \subseteq Nat /\ added \in Nat
        /\ EntityDomain \in Domain
    BY StoredTyped, MemoryAssumption DEF CoverInv, Fresh, MemInv, EdgesInv, EdgesOK
  <2>2. ASSUME UNCHANGED <<stores, log>> PROVE Followed'
    BY <2>2 DEF CoverInv, Followed, stores, Stored
  <2>3. ASSUME NEW d \in Domain, NEW id \in DOMAIN index \cup {Fresh}, Remember(d, id)
        PROVE  Followed'
    <3>1. id \in Nat /\ "memory_written" \in EventType  BY <2>1 DEF EventType
    <3> QED  BY <2>3, <3>1, FollowedStore DEF Remember
  <2>4. ASSUME TransitionTo PROVE Followed'
    <3>1. PICK fresh \in Nat : fresh = Fresh  BY <2>1
    <3>2. Store(NewRecord(EntityDomain, fresh)) /\ Log("transition", 0)
      BY <2>4, <3>1 DEF TransitionTo
    <3>3. "transition" \in EventType /\ 0 \in Nat /\ "transition" # "memory_written"
      BY DEF EventType
    <3> QED  BY <2>1, <3>2, <3>3, FollowedStore
  <2>5. ASSUME NEW other \in Entity, RelateTo(other) PROVE Followed'
    <3>1. PICK on \in Nat : on = added + 1  BY <2>1
    <3>2. Log("relation_added", on) /\ UNCHANGED stores  BY <2>5, <3>1 DEF RelateTo
    <3>3. "relation_added" \in EventType /\ "relation_added" # "memory_written"
      BY DEF EventType
    <3> QED  BY <3>2, <3>3, FollowedLog
  <2>6. ASSUME LogSession PROVE Followed'
    <3>1. Log("session", 0) /\ UNCHANGED stores  BY <2>6 DEF LogSession
    <3>2. "session" \in EventType /\ 0 \in Nat /\ "session" # "memory_written"
      BY DEF EventType
    <3> QED  BY <3>1, <3>2, FollowedLog
  <2> QED
    BY <2>2, <2>3, <2>4, <2>5, <2>6 DEF Next, Connect, SetClock, vars
<1> QED  BY <1>1, <1>2, PTL DEF Spec

LEMMA Places == \A d \in Domain : Place(d) \in Nat /\ Place(d) =< Len(Domains)
<1> SUFFICES ASSUME NEW d \in Domain PROVE Place(d) \in Nat /\ Place(d) =< Len(Domains)  OBVIOUS
<1>1. \E i \in DOMAIN Domains : Domains[i] = d  BY DEF Domain
<1>2. Place(d) \in DOMAIN Domains  BY <1>1 DEF Place
<1>3. DOMAIN Domains = 1 .. Len(Domains) /\ Len(Domains) \in Nat  BY MemoryAssumption
<1> QED  BY <1>2, <1>3

LEMMA BeforeTransitive ==
  ASSUME MemInv, NEW r \in Stored, NEW s \in Stored, NEW t \in Stored, Before(r, s), Before(s, t)
  PROVE  Before(r, t)
<1>1. /\ r.time \in Nat /\ s.time \in Nat /\ t.time \in Nat
      /\ r.no \in Nat /\ s.no \in Nat /\ t.no \in Nat
      /\ r.domain \in Domain /\ s.domain \in Domain /\ t.domain \in Domain
  BY StoredTyped
<1>2. Place(r.domain) \in Nat /\ Place(s.domain) \in Nat /\ Place(t.domain) \in Nat
  BY <1>1, Places
<1> QED  BY <1>1, <1>2 DEF Before

(* Some record of a set of them is the last: of the latest, those furthest *)
(* in the order of domains, and of these the one with the greatest number. *)
LEMMA LastExists ==
  ASSUME MemInv, NEW A \in SUBSET Stored, A # {}
  PROVE  \E s \in A : \A t \in A : ~Before(s, t)
<1> DEFINE Times == {r.time : r \in A}
<1>1. PICK latest \in Times : \A k \in Times : k =< latest
  <2>1. Times \in SUBSET Nat /\ Times # {} /\ \A k \in Times : k =< MaxTime  BY StoredTyped
  <2> HIDE DEF Times
  <2> QED  BY <2>1, Greatest, MemoryAssumption
<1> DEFINE B == {r \in A : r.time = latest}
           Placed == {Place(r.domain) : r \in B}
<1>2. PICK furthest \in Placed : \A k \in Placed : k =< furthest
  <2>1. Placed # {}  BY <1>1
  <2>2. Placed \in SUBSET Nat /\ \A k \in Placed : k =< Len(Domains)
    <3>1. \A r \in B : r.domain \in Domain  BY StoredTyped
    <3> QED  BY <3>1, Places
  <2>3. Len(Domains) \in Nat  BY MemoryAssumption
  <2> HIDE DEF Placed
  <2> QED  BY <2>1, <2>2, <2>3, Greatest
<1> DEFINE C == {r \in B : Place(r.domain) = furthest}
           Numbers == {r.no : r \in C}
<1>3. PICK no \in Numbers : \A k \in Numbers : k =< no
  <2>1. Numbers # {}  BY <1>2
  <2>2. Numbers \in SUBSET Nat /\ \A k \in Numbers : k =< Cardinality(Stored)  BY StoredTyped
  <2>3. Cardinality(Stored) \in Nat  BY StoredTyped
  <2> HIDE DEF Numbers
  <2> QED  BY <2>1, <2>2, <2>3, Greatest
<1>4. PICK s \in C : s.no = no  BY <1>3
<1>5. ASSUME NEW t \in A, Before(s, t) PROVE FALSE
  <2>1. /\ s \in A /\ s \in Stored /\ t \in Stored
        /\ s.time \in Nat /\ t.time \in Nat /\ s.no \in Nat /\ t.no \in Nat
        /\ s.domain \in Domain /\ t.domain \in Domain
    BY <1>4, StoredTyped
  <2>2. Place(s.domain) \in Nat /\ Place(t.domain) \in Nat  BY <2>1, Places
  <2>3. t.time =< s.time  BY <1>1, <1>4
  <2>4. t.time = s.time => Place(t.domain) =< Place(s.domain)  BY <1>2, <1>4
  <2>5. t.time = s.time /\ t.domain = s.domain => t.no =< s.no  BY <1>3, <1>4
  <2> QED  BY <1>5, <2>1, <2>2, <2>3, <2>4, <2>5 DEF Before
<1> QED  BY <1>4, <1>5

(* Records numbered above k are no more than there are numbers above k.    *)
LEMMA NumberedAbove ==
  ASSUME MemInv, NEW k \in Nat, k =< Cardinality(Stored)
  PROVE  LET above == {s \in Stored : k < s.no}
         IN  IsFiniteSet(above) /\ Cardinality(above) =< Cardinality(Stored) - k
<1> DEFINE above == {s \in Stored : k < s.no}
           number == [s \in above |-> s.no]
<1>1. PICK n \in Nat : n = Cardinality(Stored)  BY StoredTyped
<1>2. PICK room : room = (k + 1) .. n  OBVIOUS
<1>3. /\ IsFiniteSet(room)
      /\ Cardinality(room) = n - k
  <2>1. PICK first \in Int : first = k + 1  OBVIOUS
  <2>2. n \in Int  BY <1>1
  <2>3. /\ IsFiniteSet(first .. n)
        /\ Cardinality(first .. n) = IF first > n THEN 0 ELSE n - first + 1
    BY <2>2, FS_Interval, Zenon
  <2>4. room = first .. n  BY <1>2, <2>1
  <2>5. Cardinality(room) = IF first > n THEN 0 ELSE n - first + 1  BY <2>3, <2>4
  <2> QED  BY <1>1, <2>1, <2>3, <2>4, <2>5
<1>4. number \in Injection(above, room)
  <2>1. number \in [above -> room]  BY <1>1, <1>2, StoredTyped
  <2>2. \A s \in above, t \in above : number[s] = number[t] => s = t  BY StoredTyped
  <2> QED  BY <2>1, <2>2 DEF Injection, IsInjective
<1>5. IsFiniteSet(above) /\ Cardinality(above) =< Cardinality(room)
  BY <1>3, <1>4, FS_Injection
<1> QED  BY <1>1, <1>3, <1>5

(* What a context shows to have been remembered it holds, or it holds one  *)
(* stored before it that the clock gave no earlier time.                   *)
THEOREM ContextCovers == Spec => []ContextCoversLog
<1>1. ASSUME CoverInv PROVE ContextCoversLog
  <2>1. MemInv /\ Followed  BY <1>1 DEF CoverInv
  <2> SUFFICES ASSUME NEW e \in RecentEvents(EventWindow), e.type = "memory_written",
                      NEW r, r = index[e.id], r \notin Recent(RecordWindow)
      PROVE  \E s \in Recent(RecordWindow) : s.no < r.no /\ s.time >= r.time
    BY DEF ContextCoversLog
  <2>2. PICK i \in DOMAIN log : e = log[i] /\ Len(log) - i < EventWindow
    BY MemoryAssumption DEF RecentEvents
  <2>3. /\ Cardinality(Stored) \in Nat /\ IsFiniteSet(Stored) /\ r \in Stored
        /\ r.no \in Nat /\ r.no =< Cardinality(Stored)
        /\ Len(log) \in Nat /\ i \in Nat
    BY <2>1, <2>2, StoredTyped
  <2>4. Cardinality(Stored) - r.no =< Len(log) - i  BY <2>1, <2>2 DEF Followed
  <2> DEFINE above == {s \in Stored : r.no < s.no}
             After(s) == {t \in Stored : Before(s, t)}
             A == {s \in After(r) : s.no < r.no}
  <2>6. RecordWindow \in Nat /\ EventWindow =< RecordWindow /\ EventWindow \in Nat
    BY MemoryAssumption
  <2>5. /\ IsFiniteSet(above) /\ Cardinality(above) \in Nat
        /\ Cardinality(above) < EventWindow
    <3>1. IsFiniteSet(above) /\ Cardinality(above) =< Cardinality(Stored) - r.no
      BY <2>1, <2>3, NumberedAbove
    <3>2. Cardinality(above) \in Nat  BY <3>1, FS_CardinalityType
    <3> HIDE DEF above
    <3> QED  BY <2>2, <2>3, <2>4, <2>6, <3>1, <3>2
  <2>7. ~(Cardinality(After(r)) < RecordWindow)  BY <2>3 DEF Recent
  <2>8. \A t \in After(r) : t \in above \/ t \in A
    <3> SUFFICES ASSUME NEW t \in Stored, Before(r, t) PROVE r.no < t.no \/ t.no < r.no  OBVIOUS
    <3>1. t.no \in Nat /\ (t.no = r.no => t = r)  BY <2>1, <2>3, StoredTyped
    <3>2. ~Before(r, r)
      <4>1. r.time \in Nat /\ r.domain \in Domain  BY <2>1, <2>3, StoredTyped
      <4>2. Place(r.domain) \in Nat  BY <4>1, Places
      <4> QED  BY <2>3, <4>1, <4>2 DEF Before
    <3> QED  BY <2>3, <3>1, <3>2
  <2>9. A # {}
    <3>1. SUFFICES ASSUME A = {} PROVE FALSE  OBVIOUS
    <3>2. After(r) \in SUBSET above  BY <2>8, <3>1
    <3>3. IsFiniteSet(After(r)) /\ Cardinality(After(r)) =< Cardinality(above)
      BY <2>5, <3>2, FS_Subset
    <3>4. Cardinality(After(r)) \in Nat  BY <3>3, FS_CardinalityType
    <3> HIDE DEF above, After
    <3> QED  BY <2>5, <2>6, <2>7, <3>3, <3>4
  <2>10. PICK s \in A : \A t \in A : ~Before(s, t)
    <3>1. A \in SUBSET Stored  OBVIOUS
    <3> HIDE DEF A
    <3> QED  BY <2>1, <2>9, <3>1, LastExists
  <2>11. After(s) \in SUBSET above
    <3> SUFFICES ASSUME NEW t \in Stored, Before(s, t) PROVE t \in above  OBVIOUS
    <3>1. t \in After(r)  BY <2>1, <2>3, BeforeTransitive
    <3> QED  BY <2>8, <2>10, <3>1
  <2>12. s \in Recent(RecordWindow)
    <3>1. IsFiniteSet(After(s)) /\ Cardinality(After(s)) =< Cardinality(above)
      BY <2>5, <2>11, FS_Subset
    <3>2. Cardinality(After(s)) \in Nat  BY <3>1, FS_CardinalityType
    <3>3. Cardinality(After(s)) < RecordWindow
      <4> HIDE DEF above, After
      <4> QED  BY <2>5, <2>6, <3>1, <3>2
    <3> QED  BY <3>3 DEF Recent
  <2>13. s.no < r.no /\ s.time >= r.time
    <3>1. s.time \in Nat /\ r.time \in Nat  BY <2>1, <2>3, StoredTyped
    <3> QED  BY <3>1 DEF Before
  <2> QED  BY <2>12, <2>13
<1> QED  BY <1>1, CoverInvariant, PTL
=============================================================================
