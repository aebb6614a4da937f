---------------------------- MODULE EngineProofs ----------------------------
(***************************************************************************)
(* What the engine promises, for any payloads, encodings, objectives,      *)
(* sessions and window.  A selection's promises follow from its survivor   *)
(* being the last match; a decision's, from the candidates having a first; *)
(* a log's, from each event appended to it going on where the transitions  *)
(* before it ended.                                                        *)
(***************************************************************************)
EXTENDS Engine, Induction, TLAPS

-----------------------------------------------------------------------------
(* Selections.                                                             *)

(* Two elements make a set of two.                                         *)
LEMMA TwoElements ==
  ASSUME NEW a, NEW b, a # b PROVE IsFiniteSet({a, b}) /\ Cardinality({a, b}) = 2
<1>1. IsFiniteSet({a}) /\ Cardinality({a}) = 1  BY FS_Singleton
<1>2. IsFiniteSet({a} \union {b}) /\ Cardinality({a} \union {b}) = 2
  BY <1>1, FS_AddElement
<1>3. {a} \union {b} = {a, b}  OBVIOUS
<1> QED  BY <1>2, <1>3

(* A cluster's items lie in it at the positions they carry.                *)
LEMMA ClusterItems ==
  ASSUME NEW items \in Seq(Payload), NEW c, c = Cluster(items)
  PROVE  /\ Len(items) \in Nat
         /\ c \in Seq(Nat \X Code) /\ DOMAIN c = 1 .. Len(items) /\ Len(c) = Len(items)
         /\ \A i \in 1 .. Len(items) : c[i] = <<i, Encode[items[i]]>>
         /\ \A item \in Members(c) : /\ item \in Nat \X Code
                                     /\ item[1] \in 1 .. Len(items)
                                     /\ item = c[item[1]]
<1>1. Len(items) \in Nat /\ \A i \in 1 .. Len(items) : items[i] \in Payload  OBVIOUS
<1>2. c = [i \in 1 .. Len(items) |-> <<i, Encode[items[i]]>>]  BY DEF Cluster
<1>3. \A i \in 1 .. Len(items) : c[i] = <<i, Encode[items[i]]>>  BY <1>2
<1>4. \A i \in 1 .. Len(items) : <<i, Encode[items[i]]>> \in Nat \X Code
  BY <1>1, EncodeAssumption
<1>5. DOMAIN c = 1 .. Len(items)  BY <1>2
<1>6. c \in Seq(Nat \X Code) /\ Len(c) = Len(items)  BY <1>1, <1>2, <1>4
<1>7. ASSUME NEW item \in Members(c)
      PROVE  item \in Nat \X Code /\ item[1] \in 1 .. Len(items) /\ item = c[item[1]]
  <2>1. PICK i \in 1 .. Len(items) : item = c[i]  BY <1>5, <1>7 DEF Members
  <2>2. item = <<i, Encode[items[i]]>>  BY <1>3, <2>1
  <2>3. item[1] = i  BY <2>2
  <2>4. item \in Nat \X Code  BY <1>4, <2>2
  <2> QED  BY <2>1, <2>3, <2>4
<1> QED  BY <1>1, <1>3, <1>5, <1>6, <1>7

(* The items that match are finitely many, and the survivor is the last.   *)
LEMMA Survivor ==
  ASSUME NEW items \in Seq(Payload), NEW u \in Code, NEW M, M = Matched(Cluster(items), u)
  PROVE  /\ IsFiniteSet(M) /\ Cardinality(M) \in Nat
         /\ M # {} => /\ LastOf(M) \in M
                      /\ \A item \in M : item[1] =< LastOf(M)[1]
<1>1. PICK c : c = Cluster(items)  OBVIOUS
<1>2. /\ Len(items) \in Nat /\ DOMAIN c = 1 .. Len(items)
      /\ \A item \in Members(c) : item[1] \in 1 .. Len(items) /\ item = c[item[1]]
  BY <1>1, ClusterItems
<1>3. M \subseteq Members(c)  BY <1>1 DEF Matched
<1>4. IsFiniteSet(M) /\ Cardinality(M) \in Nat
  <2>1. IsFiniteSet(1 .. Len(items))  BY <1>2, FS_Interval
  <2>2. PICK f : f = [i \in 1 .. Len(items) |-> c[i]]  OBVIOUS
  <2>3. Members(c) = {f[i] : i \in 1 .. Len(items)}  BY <1>2, <2>2 DEF Members
  <2>4. f \in Surjection(1 .. Len(items), Members(c))  BY <2>2, <2>3 DEF Surjection
  <2>5. IsFiniteSet(Members(c))  BY <2>1, <2>4, FS_Surjection
  <2> QED  BY <1>3, <2>5, FS_Subset, FS_CardinalityType
<1>5. ASSUME M # {} PROVE LastOf(M) \in M /\ \A item \in M : item[1] =< LastOf(M)[1]
  <2> DEFINE At == {item[1] : item \in M}
  <2>1. At \in SUBSET Nat /\ At # {} /\ \A n \in At : n =< Len(items)  BY <1>2, <1>3, <1>5
  <2>2. PICK n \in At : \A m \in At : m =< n  BY <1>2, <2>1, Greatest
  <2>3. PICK item \in M : item[1] = n  BY <2>2
  <2>4. \A other \in M : other[1] =< item[1]  BY <2>2, <2>3
  <2> QED  BY <2>3, <2>4 DEF LastOf
<1> QED  BY <1>4, <1>5

(* Selecting keeps its promises.                                           *)
LEMMA SelectExact ==
  ASSUME NEW items \in Seq(Payload), NEW u \in Code, NEW r, r = Select(Cluster(items), u)
  PROVE  /\ r \in RemainResult
         /\ r.direct \in 0 .. Len(r.cluster)
         /\ ExactSplit(r)
         /\ CanForm(r) <=> r.matched = 1
<1>1. PICK c : c = Cluster(items)  OBVIOUS
<1>2. PICK M : M = Matched(c, u)  OBVIOUS
<1>3. /\ Len(items) \in Nat /\ DOMAIN c = 1 .. Len(items) /\ Len(c) = Len(items)
      /\ c \in Seq(Nat \X Code)
      /\ \A item \in Members(c) : /\ item \in Nat \X Code
                                  /\ item[1] \in 1 .. Len(items)
                                  /\ item = c[item[1]]
  BY <1>1, ClusterItems
<1>4. /\ IsFiniteSet(M) /\ Cardinality(M) \in Nat
      /\ M # {} => LastOf(M) \in M /\ \A item \in M : item[1] =< LastOf(M)[1]
  BY <1>1, <1>2, Survivor
<1>5. M \subseteq Members(c) /\ \A item \in Members(c) : item \in M <=> item[2] = u
  BY <1>2 DEF Matched
<1>6. PICK last : last = LastOf(M)  OBVIOUS
<1>7. /\ r.cluster = c /\ r.sequence = u /\ r.matched = Cardinality(M) /\ r.remains = M
      /\ r.survivor = (IF M = {} THEN NoItem ELSE last)
      /\ r.eliminated = Members(c) \ M
      /\ r.direct = (IF M = {} THEN 0 ELSE last[1])
  BY <1>1, <1>2, <1>6 DEF Select
<1>8. M # {} => last \in Members(c) /\ last[1] \in 1 .. Len(items) /\ last = c[last[1]]
  BY <1>3, <1>4, <1>5, <1>6
<1>9. r.direct \in 0 .. Len(r.cluster)  BY <1>3, <1>7, <1>8
<1>10. r \in RemainResult
  <2>1. r = [cluster |-> r.cluster, sequence |-> r.sequence, matched |-> r.matched,
             remains |-> r.remains, survivor |-> r.survivor, eliminated |-> r.eliminated,
             direct |-> r.direct]
    BY DEF Select
  <2>2. /\ r.cluster \in Seq(Nat \X Code) /\ r.sequence \in Code /\ r.matched \in Nat
        /\ r.remains \in SUBSET (Nat \X Code) /\ r.eliminated \in SUBSET (Nat \X Code)
        /\ r.direct \in Nat
    BY <1>3, <1>4, <1>5, <1>7, <1>8
  <2>3. r.survivor \in (Nat \X Code) \union {NoItem}  BY <1>3, <1>7, <1>8
  <2> QED  BY <2>1, <2>2, <2>3, Zenon DEF RemainResult
<1>11. ExactSplit(r)
  <2>1. r.remains \union r.eliminated = Members(r.cluster)  BY <1>5, <1>7
  <2>2. \A item \in Members(r.cluster) : /\ item \in r.remains <=> item[2] = r.sequence
                                         /\ item \in r.eliminated <=> item[2] # r.sequence
    BY <1>5, <1>7
  <2>3. r.direct = 0 <=> r.remains = {}  BY <1>3, <1>7, <1>8
  <2>4. r.remains # {} => /\ r.survivor = r.cluster[r.direct]
                          /\ \A item \in r.remains : item[1] =< r.direct
    BY <1>4, <1>6, <1>7, <1>8
  <2> QED  BY <1>7, <2>1, <2>2, <2>3, <2>4 DEF ExactSplit
<1>12. CanForm(r) => r.matched = 1
  <2> SUFFICES ASSUME CanForm(r) PROVE r.matched = 1  OBVIOUS
  <2>1. PICK x : r.remains = {x}  BY DEF CanForm
  <2>2. Cardinality({x}) = 1  BY FS_Singleton
  <2> QED  BY <1>7, <2>1, <2>2
<1>13. ASSUME r.matched = 1 PROVE CanForm(r)
  <2>1. PICK x : M = {x}  BY <1>4, <1>7, <1>13, FS_Singleton
  <2>2. last = x /\ M # {}  BY <1>4, <1>6, <2>1
  <2>3. last \in Nat \X Code  BY <1>3, <1>8, <2>2
  <2>4. r.survivor # NoItem  BY <1>7, <2>2, <2>3, NoItemAssumption
  <2>5. r.direct \in DOMAIN r.cluster  BY <1>3, <1>7, <1>8, <2>2
  <2>6. r.remains = {r.cluster[r.direct]}  BY <1>7, <1>8, <2>1, <2>2
  <2> QED  BY <2>4, <2>5, <2>6 DEF CanForm
<1> QED  BY <1>9, <1>10, <1>11, <1>12, <1>13

(* A chain resolves at its third element when all three codes agree.       *)
LEMMA ChainExact ==
  ASSUME NEW g \in Payload, NEW q \in Payload, NEW p \in Payload, NEW r, r = UttMatch(g, q, p)
  PROVE  /\ r \in RemainResult
         /\ r.direct \in 0 .. Len(r.cluster)
         /\ ChainResolved(r)
<1>1. PICK items : items = <<g, q, p>>  OBVIOUS
<1>2. items \in Seq(Payload) /\ Len(items) = 3  BY <1>1
<1>3. PICK c : c = Cluster(items)  OBVIOUS
<1>4. /\ DOMAIN c = 1 .. 3 /\ Len(c) = 3 /\ c \in Seq(Nat \X Code)
      /\ \A i \in 1 .. 3 : c[i] = <<i, Encode[items[i]]>>
      /\ \A item \in Members(c) : item \in Nat \X Code
  BY <1>2, <1>3, ClusterItems
<1>5. PICK x, y, z : x = Encode[g] /\ y = Encode[q] /\ z = Encode[p]  OBVIOUS
<1>6. x \in Code /\ y \in Code /\ z \in Code  BY <1>5, EncodeAssumption
<1>7. c[1] = <<1, x>> /\ c[2] = <<2, y>> /\ c[3] = <<3, z>>  BY <1>1, <1>4, <1>5
<1>8. Members(c) = {<<1, x>>, <<2, y>>, <<3, z>>}
  <2>1. 1 .. 3 = {1, 2, 3}  OBVIOUS
  <2> QED  BY <1>4, <1>7, <2>1 DEF Members
<1>9. PICK same \in BOOLEAN : same <=> (x = y /\ y = z)  OBVIOUS
<1>10. /\ r.cluster = c /\ r.sequence = z /\ r.matched = (IF same THEN 3 ELSE 0)
       /\ r.remains = (IF same THEN {c[3]} ELSE {})
       /\ r.survivor = (IF same THEN c[3] ELSE NoItem)
       /\ r.eliminated = (IF same THEN {} ELSE Members(c))
       /\ r.direct = (IF same THEN 3 ELSE 0)
  BY <1>1, <1>3, <1>5, <1>9 DEF UttMatch, Identity
<1>11. r \in RemainResult
  <2>1. r = [cluster |-> r.cluster, sequence |-> r.sequence, matched |-> r.matched,
             remains |-> r.remains, survivor |-> r.survivor, eliminated |-> r.eliminated,
             direct |-> r.direct]
    BY DEF UttMatch
  <2>2. c[3] \in Nat \X Code  BY <1>6, <1>7
  <2>3. /\ r.cluster \in Seq(Nat \X Code) /\ r.sequence \in Code /\ r.matched \in Nat
        /\ r.remains \in SUBSET (Nat \X Code) /\ r.eliminated \in SUBSET (Nat \X Code)
        /\ r.direct \in Nat /\ r.survivor \in (Nat \X Code) \union {NoItem}
    BY <1>4, <1>6, <1>10, <2>2
  <2> QED  BY <2>1, <2>3, Zenon DEF RemainResult
<1>12. r.direct \in 0 .. Len(r.cluster)
  <2>1. Len(r.cluster) = 3 /\ (r.direct = 0 \/ r.direct = 3)  BY <1>4, <1>10
  <2> QED  BY <2>1
<1>13. PICK M : M = Matched(c, z)  OBVIOUS
<1>14. M = {item \in {<<1, x>>, <<2, y>>, <<3, z>>} : item[2] = z}  BY <1>8, <1>13 DEF Matched
<1>15. /\ IsFiniteSet({<<3, z>>, <<2, y>>}) /\ Cardinality({<<3, z>>, <<2, y>>}) = 2
       /\ IsFiniteSet({<<3, z>>, <<1, x>>}) /\ Cardinality({<<3, z>>, <<1, x>>}) = 2
  <2>1. <<3, z>> # <<2, y>> /\ <<3, z>> # <<1, x>>  OBVIOUS
  <2> QED  BY <2>1, TwoElements
<1>16. CASE same
  <2>1. PICK S : S = {<<3, z>>, <<2, y>>}  OBVIOUS
  <2>2. PICK w : w = <<1, x>>  OBVIOUS
  <2>3. M = S \union {w} /\ w \notin S  BY <1>9, <1>14, <1>16, <2>1, <2>2
  <2>4. Cardinality(S \union {w}) = Cardinality(S) + 1  BY <1>15, <2>1, <2>3, FS_AddElement
  <2>5. Cardinality(M) = 3  BY <1>15, <2>1, <2>3, <2>4
  <2> QED  BY <1>10, <1>11, <1>12, <1>13, <1>16, <2>5 DEF ChainResolved
<1>17. CASE ~same
  <2>1. M \subseteq {<<3, z>>, <<2, y>>} \/ M \subseteq {<<3, z>>, <<1, x>>}
    BY <1>9, <1>14, <1>17
  <2>2. Cardinality(M) =< 2  BY <1>15, <2>1, FS_Subset
  <2>3. IsFiniteSet(M)  BY <1>15, <2>1, FS_Subset
  <2>4. Cardinality(M) # 3  BY <2>2, <2>3, FS_CardinalityType
  <2> QED  BY <1>10, <1>11, <1>12, <1>13, <1>17, <2>4 DEF ChainResolved
<1> QED  BY <1>16, <1>17
-----------------------------------------------------------------------------
(* Decisions.                                                              *)

LEMMA Ids ==
  /\ \A s \in State : Id[s] \in Nat
  /\ \A s, t \in State : Id[s] = Id[t] => s = t
BY DEF Id, State

LEMMA BaseScore ==
  ASSUME objective \in Objective, NEW s
  PROVE  /\ Base(s) \in Nat
         /\ ~Directed => Base(s) = 5000
         /\ Directed => objective.priority \in Nat
<1>1. CASE ~Directed  BY <1>1 DEF Base
<1>2. CASE Directed
  <2>1. objective.priority \in Nat  BY ObjectiveAssumption
  <2>2. PICK p \in Nat : p = objective.priority  BY <2>1
  <2>3. PICK k \in {100, 80, 60, 30} : Base(s) = p * k  BY <1>2, <2>2 DEF Base
  <2>4. p * 100 \in Nat /\ p * 80 \in Nat /\ p * 60 \in Nat /\ p * 30 \in Nat  OBVIOUS
  <2> QED  BY <1>2, <2>1, <2>3, <2>4
<1> QED  BY <1>1, <1>2

(* A score is at most 1, and it is 0 only when the losses reach the gains. *)
LEMMA Scores ==
  ASSUME objective \in Objective, NEW s \in State, NEW input, NEW n
  PROVE  /\ Score(s, input, n) \in Nat /\ Score(s, input, n) =< 10000
         /\ Score(s, input, n) > 0 <=> Base(s) + Gain(s, input, n) > Loss(s)
         /\ Base(s) \in Nat /\ Gain(s, input, n) \in {0, 1000}
         /\ Loss(s) \in Nat
<1>1. Base(s) \in Nat  BY BaseScore
<1>2. Gain(s, input, n) \in {0, 1000}  BY DEF Gain
<1>3. Loss(s) \in {5000, 3000, 0}  BY DEF Loss
<1>4. PICK raw \in Nat : raw = Base(s) + Gain(s, input, n)  BY <1>1, <1>2
<1>5. PICK loss \in Nat : loss = Loss(s)  BY <1>3
<1>6. Score(s, input, n) = CASE raw < loss -> 0
                             [] raw >= loss /\ raw - loss > 10000 -> 10000
                             [] OTHER -> raw - loss
  BY <1>4, <1>5 DEF Score
<1>7. PICK score : score = Score(s, input, n)  OBVIOUS
<1>8. score \in Nat /\ score =< 10000 /\ (score > 0 <=> raw > loss)
  <2>1. CASE raw < loss
    <3>1. score = 0  BY <1>6, <1>7, <2>1
    <3> QED  BY <2>1, <3>1
  <2>2. CASE raw >= loss /\ raw - loss > 10000
    <3>1. score = 10000  BY <1>6, <1>7, <2>2
    <3> QED  BY <2>2, <3>1
  <2>3. CASE raw >= loss /\ ~(raw - loss > 10000)
    <3>1. score = raw - loss  BY <1>6, <1>7, <2>3
    <3> QED  BY <2>3, <3>1
  <2> QED  BY <2>1, <2>2, <2>3
<1> QED  BY <1>1, <1>2, <1>4, <1>5, <1>7, <1>8

(* Some candidate comes before all the others: of those with the best      *)
(* score, the one with the smallest id.                                    *)
LEMMA FirstExists ==
  ASSUME objective \in Objective, NEW C \in SUBSET State, C # {}, NEW input, NEW n
  PROVE  /\ First(C, input, n) \in C
         /\ \A t \in C \ {First(C, input, n)} : Before(First(C, input, n), t, input, n)
<1> DEFINE Marks == {Score(s, input, n) : s \in C}
           Best(m) == {s \in C : Score(s, input, n) = m}
           BestIds(m) == {Id[s] : s \in Best(m)}
<1>1. \A s \in C : Score(s, input, n) \in Nat /\ Score(s, input, n) =< 10000  BY Scores
<1>2. PICK top \in Nat : top = 10000  OBVIOUS
<1>3. PICK m \in Marks : \A k \in Marks : k =< m
  <2>1. \A s \in C : Score(s, input, n) \in Nat /\ Score(s, input, n) =< top  BY <1>1, <1>2
  <2>2. Marks \in SUBSET Nat /\ Marks # {} /\ \A k \in Marks : k =< top  BY <2>1
  <2> HIDE DEF Marks
  <2> QED  BY <2>2, Greatest
<1>4. BestIds(m) \in SUBSET Nat /\ BestIds(m) # {}  BY <1>3, Ids
<1>5. PICK i \in BestIds(m) : \A j \in BestIds(m) : i =< j
  <2> HIDE DEF BestIds
  <2> QED  BY <1>4, Least
<1>6. PICK s \in Best(m) : Id[s] = i  BY <1>5
<1>7. ASSUME NEW t \in C \ {s} PROVE Before(s, t, input, n)
  <2>1. Score(t, input, n) =< Score(s, input, n)  BY <1>3, <1>6
  <2>2. Score(t, input, n) = Score(s, input, n) => Id[s] =< Id[t] /\ Id[s] # Id[t]
    <3> SUFFICES ASSUME Score(t, input, n) = Score(s, input, n)
        PROVE  Id[s] =< Id[t] /\ Id[s] # Id[t]
      OBVIOUS
    <3>1. t \in Best(m)  BY <1>6
    <3>2. Id[s] =< Id[t]  BY <1>5, <1>6, <3>1
    <3> QED  BY <1>6, <3>2, Ids
  <2>3. Score(t, input, n) \in Nat /\ Score(s, input, n) \in Nat  BY <1>1, <1>6
  <2>4. Id[s] \in Nat /\ Id[t] \in Nat  BY <1>6, Ids
  <2> QED  BY <2>1, <2>2, <2>3, <2>4 DEF Before
<1>8. s \in C /\ \A t \in C \ {s} : Before(s, t, input, n)  BY <1>6, <1>7
<1> QED  BY <1>8, Zenon DEF First

LEMMA AvailableStates == \A s : AvailableFrom(s) \in SUBSET State
BY DEF AvailableFrom

(* A decision keeps the state or takes one of its edges.                   *)
LEMMA DecideAvailable ==
  ASSUME objective \in Objective, NEW s \in State, NEW input, NEW n
  PROVE  /\ AvailableFrom(s) = {} => Decide(s, input, n) = s
         /\ AvailableFrom(s) # {} => Decide(s, input, n) \in AvailableFrom(s)
<1>1. PICK C \in SUBSET State : C = AvailableFrom(s)  BY AvailableStates
<1>2. PICK best : best = First(C, input, n)  OBVIOUS
<1>3. PICK second : second = First(C \ {best}, input, n)  OBVIOUS
<1>4. Decide(s, input, n) =
        IF C = {} THEN s
        ELSE IF best = "INVALID" /\ C # {best} /\ Score(second, input, n) > 0 THEN second
        ELSE best
  BY <1>1, <1>2, <1>3 DEF Decide
<1>5. C # {} => best \in C  BY <1>2, FirstExists
<1>6. C # {} /\ C # {best} => second \in C
  <2>1. C # {} /\ C # {best} => C \ {best} # {} /\ C \ {best} \in SUBSET State  BY <1>5
  <2> QED  BY <1>3, <2>1, FirstExists
<1>7. CASE C = {}  BY <1>1, <1>4, <1>7
<1>8. CASE C # {}
  <2>1. (Decide(s, input, n) = second /\ C # {best}) \/ Decide(s, input, n) = best
    BY <1>4, <1>8
  <2> QED  BY <1>1, <1>5, <1>6, <1>8, <2>1
<1> QED  BY <1>7, <1>8

(* The candidates of TRANSFORMED are the only ones with INVALID, and when  *)
(* it scores best, another that scores at all is taken instead.            *)
LEMMA DecideNotInvalid ==
  ASSUME objective \in Objective, NEW s \in State, s # "INVALID", NEW input, NEW n
  PROVE  Decide(s, input, n) # "INVALID"
<1>1. CASE s # "TRANSFORMED"
  <2>1. "INVALID" \notin AvailableFrom(s)  BY <1>1 DEF AvailableFrom, ValidTransitions
  <2> QED  BY <2>1, DecideAvailable
<1>2. CASE s = "TRANSFORMED"
  <2>1. PICK C : C = AvailableFrom(s)  OBVIOUS
  <2>2. C = {"ACTIVE", "ARCHIVED", "INVALID"}
    BY <1>2, <2>1 DEF AvailableFrom, ValidTransitions, State
  <2>3. PICK best : best = First(C, input, n)  OBVIOUS
  <2>4. PICK second : second = First(C \ {best}, input, n)  OBVIOUS
  <2>5. Decide(s, input, n) =
          IF best = "INVALID" /\ C # {best} /\ Score(second, input, n) > 0 THEN second ELSE best
    BY <2>1, <2>2, <2>3, <2>4 DEF Decide
  <2>6. C \in SUBSET State /\ C # {} /\ C \ {best} \in SUBSET State
    BY <2>2 DEF State
  <2>7. best \in C /\ \A t \in C \ {best} : Before(best, t, input, n)
    BY <2>3, <2>6, FirstExists
  <2>8. CASE best # "INVALID"  BY <2>5, <2>8
  <2>9. CASE best = "INVALID"
    <3>1. C \ {best} = {"ACTIVE", "ARCHIVED"}  BY <2>2, <2>9
    <3>2. second \in {"ACTIVE", "ARCHIVED"}
          /\ \A t \in {"ACTIVE", "ARCHIVED"} \ {second} : Before(second, t, input, n)
      BY <2>4, <2>6, <3>1, FirstExists
    <3>3. PICK x, y, z : /\ x = Score("INVALID", input, n) /\ y = Score("ACTIVE", input, n)
                         /\ z = Score(second, input, n)
      OBVIOUS
    <3>4. /\ "INVALID" \in State /\ "ACTIVE" \in State /\ second \in State
      BY <3>2 DEF State
    <3>5. x \in Nat /\ y \in Nat /\ z \in Nat  BY <3>3, <3>4, Scores
    <3>6. x > y
      <4>1. Before("INVALID", "ACTIVE", input, n)  BY <2>7, <2>9, <3>1
      <4>2. ~(Id["INVALID"] < Id["ACTIVE"])  BY DEF Id, State
      <4> QED  BY <3>3, <4>1, <4>2 DEF Before
    <3>7. z >= y
      <4>1. CASE second = "ACTIVE"  BY <3>3, <3>5, <4>1
      <4>2. CASE second # "ACTIVE"
        <5>1. Before(second, "ACTIVE", input, n)  BY <3>2, <4>2
        <5> QED  BY <3>3, <3>5, <5>1 DEF Before
      <4> QED  BY <4>1, <4>2
    <3>8. x > 0  BY <3>5, <3>6
    <3>9. Base("INVALID") > 5000 /\ Directed
      <4>1. Base("INVALID") + Gain("INVALID", input, n) > Loss("INVALID")
        BY <3>3, <3>4, <3>8, Scores
      <4>2. Gain("INVALID", input, n) = 0 /\ Loss("INVALID") = 5000  BY DEF Gain, Loss
      <4>3. Base("INVALID") \in Nat  BY BaseScore
      <4>4. Base("INVALID") > 5000  BY <4>1, <4>2, <4>3
      <4> QED  BY <4>4, BaseScore
    <3>10. PICK p \in Nat : p = objective.priority  BY <3>9, BaseScore
    <3>11. p > 0
      <4>1. Base("INVALID") = p * 100 \/ Base("INVALID") = p * 30
        BY <3>9, <3>10 DEF Base
      <4> QED  BY <3>9, <4>1
    <3>12. Base("ACTIVE") = p * 100 \/ Base("ACTIVE") = p * 60  BY <3>9, <3>10 DEF Base
    <3>13. Base("ACTIVE") > 0  BY <3>11, <3>12
    <3>14. y > 0
      <4>1. /\ y > 0 <=> Base("ACTIVE") + Gain("ACTIVE", input, n) > Loss("ACTIVE")
            /\ Gain("ACTIVE", input, n) \in {0, 1000} /\ Base("ACTIVE") \in Nat
        BY <3>3, <3>4, Scores
      <4>2. Loss("ACTIVE") = 0  BY DEF Loss
      <4> QED  BY <3>13, <4>1, <4>2
    <3>15. C # {best} /\ z > 0  BY <2>2, <2>9, <3>5, <3>7, <3>14
    <3> QED  BY <2>5, <2>9, <3>2, <3>3, <3>15
  <2> QED  BY <2>8, <2>9
<1> QED  BY <1>1, <1>2

(* What a target and another candidate score under a weight between 1.0    *)
(* and 1.5.                                                                *)
LEMMA DemandScores ==
  ASSUME objective \in Objective, Directed, NEW p \in 101 .. 149, objective.priority = p,
         NEW target \in State, target = objective.target,
         NEW t \in State, t # target, NEW input, NEW n
  PROVE  /\ target \notin {"INVALID", "ARCHIVED"} => Score(target, input, n) = 10000
         /\ target = "ARCHIVED" => \/ Score(target, input, n) = 10000
                                   \/ Score(target, input, n) = p * 100 - 3000
         /\ Score(t, input, n) \in Nat /\ Score(t, input, n) =< 10000
         /\ t # "STORED" => Score(t, input, n) =< p * 60 + 1000
<1>1. Base(target) = p * 100  BY DEF Base
<1>2. Base(t) = (CASE t = "STORED" -> p * 80 [] t = "ACTIVE" -> p * 60 [] OTHER -> p * 30)
  BY DEF Base, Directed
<1>3. Gain(target, input, n) \in {0, 1000} /\ Gain(t, input, n) \in {0, 1000}  BY DEF Gain
<1>4. Loss(target) = (CASE target = "INVALID" -> 5000 [] target = "ARCHIVED" -> 3000 [] OTHER -> 0)
  BY DEF Loss
<1>5. Loss(t) \in {5000, 3000, 0}  BY DEF Loss
<1>6. PICK raw, loss, score : /\ raw = Base(t) + Gain(t, input, n) /\ loss = Loss(t)
                              /\ score = Score(t, input, n)
  OBVIOUS
<1>7. score = CASE raw < loss -> 0
                [] raw >= loss /\ raw - loss > 10000 -> 10000
                [] OTHER -> raw - loss
  BY <1>6 DEF Score
<1>8. raw \in Nat /\ loss \in Nat /\ (t # "STORED" => raw =< p * 60 + 1000)
  BY <1>2, <1>3, <1>5, <1>6
<1>9. score \in Nat /\ score =< 10000 /\ (t # "STORED" => score =< p * 60 + 1000)
  <2>1. CASE raw < loss  BY <1>7, <1>8, <2>1
  <2>2. CASE raw >= loss /\ raw - loss > 10000  BY <1>7, <1>8, <2>2
  <2>3. CASE raw >= loss /\ ~(raw - loss > 10000)  BY <1>7, <1>8, <2>3
  <2> QED  BY <1>8, <2>1, <2>2, <2>3
<1>10. PICK all, lost, mark : /\ all = Base(target) + Gain(target, input, n)
                              /\ lost = Loss(target) /\ mark = Score(target, input, n)
  OBVIOUS
<1>11. mark = CASE all < lost -> 0
                [] all >= lost /\ all - lost > 10000 -> 10000
                [] OTHER -> all - lost
  BY <1>10 DEF Score
<1>12. ASSUME target \notin {"INVALID", "ARCHIVED"} PROVE mark = 10000
  <2>1. lost = 0 /\ all \in Nat /\ all > 10000  BY <1>1, <1>3, <1>4, <1>10, <1>12
  <2> QED  BY <1>11, <2>1
<1>13. ASSUME target = "ARCHIVED" PROVE mark = 10000 \/ mark = p * 100 - 3000
  <2>1. Gain(target, input, n) = 0  BY <1>13 DEF Gain
  <2>2. lost = 3000 /\ all = p * 100  BY <1>1, <1>4, <1>10, <1>13, <2>1
  <2>3. all \in Nat /\ all >= lost  BY <2>2
  <2>4. CASE all - lost > 10000  BY <1>11, <2>2, <2>3, <2>4
  <2>5. CASE ~(all - lost > 10000)  BY <1>11, <2>2, <2>3, <2>5
  <2> QED  BY <2>4, <2>5
<1> QED  BY <1>6, <1>9, <1>10, <1>12, <1>13

(* A target next to s, other than INVALID, comes before every other        *)
(* candidate: only ACTIVE is ever next to the same state as STORED, and    *)
(* has the smaller id when both are at the cap.                            *)
LEMMA DemandDecided ==
  ASSUME objective \in Objective, Directed, objective.priority \in 101 .. 149,
         NEW s, objective.target \in AvailableFrom(s) \ {"INVALID"}, NEW input, NEW n
  PROVE  Decide(s, input, n) = objective.target
<1>1. PICK C : C = AvailableFrom(s)  OBVIOUS
<1>2. PICK p \in 101 .. 149 : objective.priority = p  OBVIOUS
<1>3. PICK target \in C : target = objective.target /\ target # "INVALID"  BY <1>1
<1>4. C \in SUBSET State /\ C # {} /\ target \in State  BY <1>1, <1>3, AvailableStates
<1>5. ASSUME NEW t \in C \ {target} PROVE Before(target, t, input, n) /\ ~Before(t, target, input, n)
  <2>1. PICK x, y : x = Score(target, input, n) /\ y = Score(t, input, n)  OBVIOUS
  <2>2. /\ target # "ARCHIVED" => x = 10000
        /\ target = "ARCHIVED" => x = 10000 \/ x = p * 100 - 3000
        /\ y \in Nat /\ y =< 10000
        /\ t # "STORED" => y =< p * 60 + 1000
    BY <1>2, <1>3, <1>4, <1>5, <2>1, DemandScores
  <2>3. CASE t # "STORED"
    <3>1. x \in Nat /\ x > y  BY <2>2, <2>3
    <3> QED  BY <2>1, <2>2, <3>1 DEF Before
  <2>4. CASE t = "STORED"
    <3>1. s \in {"CREATED", "OBSERVED"}
      BY <1>1, <1>5, <2>4 DEF AvailableFrom, ValidTransitions
    <3>2. target = "ACTIVE"
      BY <1>1, <1>3, <1>5, <2>4, <3>1 DEF AvailableFrom, ValidTransitions
    <3>3. Id[target] < Id[t] /\ ~(Id[t] < Id[target])  BY <2>4, <3>2 DEF Id, State
    <3>4. x = 10000 /\ (x > y \/ x = y) /\ ~(y > x)  BY <2>2, <3>2
    <3> QED  BY <2>1, <3>3, <3>4 DEF Before
  <2> QED  BY <2>3, <2>4
<1>6. PICK best : best = First(C, input, n)  OBVIOUS
<1>7. best \in C /\ \A t \in C \ {best} : Before(best, t, input, n)
  BY <1>4, <1>6, FirstExists
<1>8. best = target  BY <1>5, <1>7
<1>9. Decide(s, input, n) = best
  BY <1>1, <1>3, <1>4, <1>6, <1>8 DEF Decide
<1> QED  BY <1>3, <1>8, <1>9

(* Without a target, ACTIVE is decided from OBSERVED.                      *)
LEMMA UndirectedDecides ==
  ASSUME objective \in Objective, ~Directed, NEW input, NEW n
  PROVE  Decide("OBSERVED", input, n) = "ACTIVE"
<1>1. PICK C : C = AvailableFrom("OBSERVED")  OBVIOUS
<1>2. C = {"ACTIVE", "STORED"}  BY <1>1 DEF AvailableFrom, ValidTransitions, State
<1>3. "ACTIVE" \in State /\ "STORED" \in State  BY DEF State
<1>4. C \in SUBSET State /\ C # {}  BY <1>2, <1>3
<1>5. PICK best : best = First(C, input, n)  OBVIOUS
<1>6. best \in C /\ \A t \in C \ {best} : Before(best, t, input, n)
  BY <1>4, <1>5, FirstExists
<1>7. ~Before("STORED", "ACTIVE", input, n)
  <2>1. Base("ACTIVE") = 5000 /\ Base("STORED") = 5000  BY BaseScore
  <2>2. Gain("STORED", input, n) = 0 /\ Gain("ACTIVE", input, n) \in {0, 1000}
    BY DEF Gain
  <2>3. Loss("STORED") = 0 /\ Loss("ACTIVE") = 0  BY DEF Loss
  <2>4. Score("STORED", input, n) = 5000  BY <2>1, <2>2, <2>3 DEF Score
  <2>5. Score("ACTIVE", input, n) \in {5000, 6000}  BY <2>1, <2>2, <2>3 DEF Score
  <2>6. ~(Id["STORED"] < Id["ACTIVE"])  BY DEF Id, State
  <2> QED  BY <2>4, <2>5, <2>6 DEF Before
<1>8. best = "ACTIVE"  BY <1>2, <1>6, <1>7
<1>9. Decide("OBSERVED", input, n) = best  BY <1>1, <1>2, <1>5, <1>8 DEF Decide
<1> QED  BY <1>8, <1>9
-----------------------------------------------------------------------------
(* Logs.                                                                   *)

EventRec == [type : EventType, session : Session, action : Action,
             from : State \union {NoState}, to : State \union {NoState}]

(* What a log of session x must tell of a call that took the entity from s *)
(* to t.                                                                   *)
Told(log, s, t, x) == /\ log \in Seq(EventRec)
                      /\ \A i \in DOMAIN log : log[i].session = x
                      /\ Leads(log, s, t)

LEMMA ToldNothing == \A s, x : Told(<<>>, s, s, x)
BY DEF Told, Leads

(* What an event appended to a log adds to its positions.                  *)
LEMMA Appended ==
  ASSUME NEW log \in Seq(EventRec), NEW e \in EventRec
  PROVE  /\ Append(log, e) \in Seq(EventRec)
         /\ Len(log) \in Nat
         /\ DOMAIN log = 1 .. Len(log)
         /\ DOMAIN Append(log, e) = 1 .. Len(log) + 1
         /\ Append(log, e)[Len(log) + 1] = e
         /\ \A i \in 1 .. Len(log) : Append(log, e)[i] = log[i]
OBVIOUS

LEMMA ToldOther ==
  ASSUME NEW log, NEW s, NEW t, NEW x, Told(log, s, t, x),
         NEW e \in EventRec, e.session = x, e.from = NoState
  PROVE  Told(Append(log, e), s, t, x)
<1>1. PICK longer, n : longer = Append(log, e) /\ n = Len(log)  OBVIOUS
<1>2. log \in Seq(EventRec)  BY DEF Told
<1>3. /\ longer \in Seq(EventRec) /\ n \in Nat
      /\ DOMAIN log = 1 .. n /\ DOMAIN longer = 1 .. n + 1
      /\ longer[n + 1] = e
      /\ \A i \in 1 .. n : longer[i] = log[i]
  BY <1>1, <1>2, Appended
<1>4. \A i \in DOMAIN longer : longer[i].session = x
  <2> SUFFICES ASSUME NEW i \in 1 .. n + 1 PROVE longer[i].session = x  BY <1>3
  <2>1. i = n + 1 \/ i \in 1 .. n  BY <1>3
  <2> QED  BY <1>3, <2>1 DEF Told
<1>5. \A i : i \in DOMAIN longer /\ longer[i].from # NoState
             <=> i \in DOMAIN log /\ log[i].from # NoState
  <2>1. 1 .. n + 1 = (1 .. n) \union {n + 1}  BY <1>3
  <2> QED  BY <1>3, <2>1
<1>6. Leads(longer, s, t)
  <2> DEFINE before == {i \in DOMAIN log : log[i].from # NoState}
             moves == {i \in DOMAIN longer : longer[i].from # NoState}
  <2>1. moves = before  BY <1>5
  <2>2. \A i \in before : longer[i] = log[i]  BY <1>3
  <2> QED  BY <2>1, <2>2 DEF Told, Leads
<1> QED  BY <1>1, <1>3, <1>4, <1>6 DEF Told

LEMMA ToldMove ==
  ASSUME NEW log, NEW s, NEW t, NEW x, Told(log, s, t, x), t # NoState,
         NEW e \in EventRec, e.session = x, e.from = t, <<t, e.to>> \in ValidTransitions
  PROVE  Told(Append(log, e), s, e.to, x)
<1>1. PICK longer, n : longer = Append(log, e) /\ n = Len(log)  OBVIOUS
<1>2. log \in Seq(EventRec)  BY DEF Told
<1>3. /\ longer \in Seq(EventRec) /\ n \in Nat
      /\ DOMAIN log = 1 .. n /\ DOMAIN longer = 1 .. n + 1
      /\ longer[n + 1] = e
      /\ \A i \in 1 .. n : longer[i] = log[i]
  BY <1>1, <1>2, Appended
<1>4. 1 .. n + 1 = (1 .. n) \union {n + 1} /\ n + 1 \notin 1 .. n  BY <1>3
<1>5. \A i \in DOMAIN longer : longer[i].session = x  BY <1>3, <1>4 DEF Told
<1> DEFINE before == {i \in DOMAIN log : log[i].from # NoState}
           moves == {i \in DOMAIN longer : longer[i].from # NoState}
           Earlier(i) == {j \in before : j < i}
           Sooner(i) == {j \in moves : j < i}
<1>6. moves = before \union {n + 1}  BY <1>3, <1>4
<1>7. Sooner(n + 1) = before
  <2>1. \A j \in before : j < n + 1  BY <1>3
  <2>2. ~(n + 1 < n + 1)  BY <1>3
  <2> QED  BY <1>6, <2>1, <2>2
<1>8. \A i \in before : Sooner(i) = Earlier(i)
  <2>1. \A i \in before : ~(n + 1 < i)  BY <1>3
  <2> QED  BY <1>6, <2>1
<1>9. /\ before = {} => s = t
      /\ \A i \in before :
           /\ <<log[i].from, log[i].to>> \in ValidTransitions
           /\ Earlier(i) = {} => log[i].from = s
           /\ before = Earlier(i) \union {i} => log[i].to = t
           /\ \A j \in before : Earlier(j) = Earlier(i) \union {i} => log[j].from = log[i].to
  BY DEF Told, Leads
<1>10. before \subseteq 1 .. n /\ \A i \in before : longer[i] = log[i]  BY <1>3
<1>11. longer[n + 1] = e  BY <1>3
<1> HIDE DEF before, moves, Earlier, Sooner
<1>12. ASSUME NEW i \in moves
       PROVE  /\ <<longer[i].from, longer[i].to>> \in ValidTransitions
              /\ Sooner(i) = {} => longer[i].from = s
              /\ moves = Sooner(i) \union {i} => longer[i].to = e.to
              /\ \A j \in moves : Sooner(j) = Sooner(i) \union {i} => longer[j].from = longer[i].to
  <2>1. CASE i = n + 1
    <3>1. \A j \in moves : n + 1 \notin Sooner(j)
      <4>1. \A j \in moves : ~(n + 1 < j)  BY <1>3, <1>6, <1>10
      <4> QED  BY <4>1 DEF Sooner
    <3>2. \A j \in moves : Sooner(j) # Sooner(i) \union {i}  BY <2>1, <3>1
    <3> QED  BY <1>7, <1>9, <1>11, <2>1, <3>2
  <2>2. CASE i \in before
    <3>1. longer[i] = log[i] /\ Sooner(i) = Earlier(i)  BY <1>8, <1>10, <2>2
    <3>2. n + 1 \in moves /\ n + 1 \notin Sooner(i) \union {i}
      <4>1. n + 1 \notin before  BY <1>4, <1>10
      <4> QED  BY <1>6, <2>2, <3>1, <4>1 DEF Earlier
    <3>3. ASSUME NEW j \in moves, Sooner(j) = Sooner(i) \union {i}
          PROVE  longer[j].from = longer[i].to
      <4>1. CASE j \in before
        <5>1. longer[j] = log[j] /\ Sooner(j) = Earlier(j)  BY <1>8, <1>10, <4>1
        <5> QED  BY <1>9, <2>2, <3>1, <3>3, <4>1, <5>1
      <4>2. CASE j = n + 1
        <5>1. before = Earlier(i) \union {i}  BY <1>7, <3>1, <3>3, <4>2
        <5>2. log[i].to = t  BY <1>9, <2>2, <5>1
        <5> QED  BY <1>11, <3>1, <4>2, <5>2
      <4> QED  BY <1>6, <4>1, <4>2
    <3> QED  BY <1>9, <2>2, <3>1, <3>2, <3>3
  <2> QED  BY <1>6, <2>1, <2>2
<1>13. moves # {}  BY <1>6
<1>14. Leads(longer, s, e.to)  BY <1>12, <1>13 DEF Leads, moves, Sooner
<1> QED  BY <1>1, <1>3, <1>5, <1>14 DEF Told

LEMMA EventTyped ==
  ASSUME session \in Session, NEW kind \in EventType, NEW action \in Action
  PROVE  /\ Event(kind, action) \in EventRec
         /\ Event(kind, action).session = session
         /\ Event(kind, action).from = NoState
         /\ Event(kind, action).action = action
BY DEF Event, EventRec

LEMMA MovedTyped ==
  ASSUME session \in Session, NEW s \in State, NEW t \in State
  PROVE  /\ s = t => Moved(s, t) = <<>>
         /\ s # t => \E m \in EventRec : /\ Moved(s, t) = <<m>>
                                         /\ m.session = session /\ m.from = s /\ m.to = t
         /\ Moved(s, t) \in Seq(EventRec)
<1>1. PICK kind : kind = EventKind(t) /\ kind \in EventType
  <2>1. EventKind(t) \in EventType  BY DEF EventKind, EventType
  <2> QED  BY <2>1
<1>2. PICK m : m = [Event(EventKind(t), "transition") EXCEPT !.from = s, !.to = t]  OBVIOUS
<1>3. m \in EventRec /\ m.session = session /\ m.from = s /\ m.to = t
  <2>1. m = [type |-> kind, session |-> session, action |-> "transition",
             from |-> s, to |-> t]
    BY <1>1, <1>2 DEF Event
  <2>2. "transition" \in Action  BY DEF Action
  <2>3. m \in EventRec  BY <1>1, <2>1, <2>2 DEF EventRec
  <2> QED  BY <2>1, <2>3
<1>4. Moved(s, t) = IF s = t THEN <<>> ELSE <<m>>  BY <1>2 DEF Moved
<1>5. <<>> \in Seq(EventRec) /\ <<m>> \in Seq(EventRec)  BY <1>3
<1> QED  BY <1>3, <1>4, <1>5

(* A log goes on with the transition from t to u, when there is one.       *)
LEMMA ToldMoved ==
  ASSUME session \in Session, NEW log, NEW s, NEW t \in State, NEW u \in State,
         Told(log, s, t, session), t = u \/ <<t, u>> \in ValidTransitions
  PROVE  Told(log \o Moved(t, u), s, u, session)
<1>1. log \in Seq(EventRec)  BY DEF Told
<1>2. CASE t = u
  <2>1. Moved(t, u) = <<>>  BY <1>2, MovedTyped
  <2>2. log \o <<>> = log  BY <1>1
  <2> QED  BY <1>2, <2>1, <2>2
<1>3. CASE t # u
  <2>1. PICK m \in EventRec : /\ Moved(t, u) = <<m>>
                              /\ m.session = session /\ m.from = t /\ m.to = u
    BY <1>3, MovedTyped
  <2>2. log \o <<m>> = Append(log, m)  BY <1>1, <2>1
  <2>3. t # NoState  BY StateAssumption
  <2>4. Told(Append(log, m), s, m.to, session)  BY <1>3, <2>1, <2>3, ToldMove
  <2> QED  BY <2>1, <2>2, <2>4
<1> QED  BY <1>2, <1>3
-----------------------------------------------------------------------------
(* The inductive invariant.                                                *)

Selected == out.call \in {"remain", "formation", "raised", "chain"} =>
              out.remain \in RemainResult /\ out.remain.direct \in 0 .. Len(out.remain.cluster)

Settled == /\ objective \in Objective
           /\ state \in State
           /\ bank \in [records : 1 .. (2 * Window), current : State]
           /\ bank.current = state
           /\ related \in BOOLEAN
           /\ session \in Session
           /\ calls \in 0 .. MaxCalls

EngInv == /\ Settled
          /\ appended \in Seq(EventRec)
          /\ Selected
          /\ RemainExact

LEMMA CapTyped == ASSUME NEW n \in Nat, n >= 1 PROVE Cap(n) \in 1 .. (2 * Window)
BY WindowAssumption DEF Cap

LEMMA BankTyped ==
  ASSUME Settled
  PROVE  bank = [records |-> bank.records, current |-> state]
         /\ bank.records \in Nat /\ bank.records >= 1
BY WindowAssumption DEF Settled

(* Where a cycle observes from, and what it logs on the way there.         *)
LEMMA Route ==
  ASSUME Settled
  PROVE  /\ Observed \in State
         /\ state \in {"CREATED", "ACTIVE", "OBSERVED"} => Observed = "OBSERVED"
         /\ state \notin {"CREATED", "ACTIVE"} => Observed = state
         /\ Told(Routed, state, Observed, session)
         /\ Routed = <<>> => Observed = state
<1>1. state \in State /\ session \in Session  BY DEF Settled
<1>2. /\ Activated \in State
      /\ state = Activated \/ <<state, Activated>> \in ValidTransitions
      /\ state = "CREATED" => Activated = "ACTIVE"
      /\ state # "CREATED" => Activated = state
  BY <1>1 DEF Activated, Land, ValidTransitions, State
<1>3. /\ Observed \in State
      /\ Activated = Observed \/ <<Activated, Observed>> \in ValidTransitions
      /\ Activated = "ACTIVE" => Observed = "OBSERVED"
      /\ Activated # "ACTIVE" /\ Activated # "CREATED" => Observed = Activated
  BY <1>2 DEF Observed, Land, ValidTransitions, State
<1>4. Told(<<>> \o Moved(state, Activated), state, Activated, session)
  BY <1>1, <1>2, ToldNothing, ToldMoved
<1>5. <<>> \o Moved(state, Activated) = Moved(state, Activated)
  <2>1. Moved(state, Activated) \in Seq(EventRec)  BY <1>1, <1>2, MovedTyped
  <2> QED  BY <2>1
<1>6. Told(Routed, state, Observed, session)
  <2>1. Told(Moved(state, Activated), state, Activated, session)  BY <1>4, <1>5
  <2> QED  BY <1>1, <1>2, <1>3, <2>1, ToldMoved DEF Routed
<1>7. Routed = <<>> => Observed = state
  BY <1>6 DEF Told, Leads
<1> QED  BY <1>2, <1>3, <1>6, <1>7

(* What a cycle does.                                                      *)
LEMMA ProcessStep ==
  ASSUME EngInv, NEW input, Process(input)
  PROVE  /\ state' = Land(Observed, Decide(Observed, input, Known))
         /\ state' \in State
         /\ Told(appended', state, state', session)
         /\ Settled'
         /\ out'.call = "process"
         /\ UNCHANGED <<objective, session>>
<1> DEFINE decided == Decide(Observed, input, Known)
           moved == Moved(Observed, Land(Observed, decided))
<1>1. /\ state' = Land(Observed, decided)
      /\ bank' = [records |-> Cap(Known + Len(moved)),
                  current |-> IF Routed \o moved = <<>> THEN bank.current ELSE state']
      /\ appended' = Routed \o <<Event("memory_written", "store_D2")>> \o moved
      /\ out' = [call |-> "process", before |-> Observed, after |-> decided,
                 ok |-> moved # <<>>, relevant |-> Relevant(Known)]
      /\ UNCHANGED <<objective, related, session, calls>>
  BY DEF Process
<1>2. /\ objective \in Objective /\ session \in Session /\ Settled
      /\ Observed \in State /\ Told(Routed, state, Observed, session)
      /\ Routed = <<>> => Observed = state
  BY Route DEF EngInv, Settled
<1>3. decided \in State  BY <1>2, DecideAvailable, AvailableStates
<1>4. /\ Land(Observed, decided) \in State
      /\ Observed = Land(Observed, decided)
         \/ <<Observed, Land(Observed, decided)>> \in ValidTransitions
  BY <1>2, <1>3 DEF Land
<1> HIDE DEF decided
<1>5. PICK w : w = Event("memory_written", "store_D2")  OBVIOUS
<1>6. w \in EventRec /\ w.session = session /\ w.from = NoState
  <2>1. "memory_written" \in EventType /\ "store_D2" \in Action  BY DEF EventType, Action
  <2> QED  BY <1>2, <1>5, <2>1, EventTyped
<1>7. Routed \in Seq(EventRec)  BY <1>2 DEF Told
<1>8. Told(Routed \o <<w>>, state, Observed, session)
  <2>1. Routed \o <<w>> = Append(Routed, w)  BY <1>6, <1>7
  <2>2. Told(Append(Routed, w), state, Observed, session)  BY <1>2, <1>6, ToldOther
  <2> QED  BY <2>1, <2>2
<1>9. Told(appended', state, state', session)
  <2>1. Told((Routed \o <<w>>) \o moved, state, Land(Observed, decided), session)
    BY <1>2, <1>4, <1>8, ToldMoved
  <2> QED  BY <1>1, <1>5, <2>1
<1>10. moved \in Seq(EventRec) /\ (moved = <<>> => Observed = Land(Observed, decided))
  <2>1. CASE Observed = Land(Observed, decided)
    <3>1. moved = <<>>  BY <1>2, <1>4, <2>1, MovedTyped
    <3> QED  BY <2>1, <3>1
  <2>2. CASE Observed # Land(Observed, decided)
    <3>1. PICK m \in EventRec : moved = <<m>>  BY <1>2, <1>4, <2>2, MovedTyped
    <3>2. <<m>> # <<>>  OBVIOUS
    <3> HIDE DEF moved
    <3> QED  BY <3>1, <3>2
  <2> QED  BY <2>1, <2>2
<1> HIDE DEF moved
<1>11. Routed \o moved = <<>> => state' = state
  <2>1. Routed \o moved = <<>> => Routed = <<>> /\ moved = <<>>
    <3>1. Len(Routed \o moved) = Len(Routed) + Len(moved)  BY <1>7, <1>10
    <3> QED  BY <1>7, <1>10, <3>1
  <2> QED  BY <1>1, <1>2, <1>10, <2>1
<1>12. bank'.current = state'  BY <1>1, <1>2, <1>11 DEF Settled
<1>13. bank' \in [records : 1 .. (2 * Window), current : State]
  <2>1. Len(Routed) \in Nat /\ Len(moved) \in Nat  BY <1>7, <1>10
  <2>2. PICK r \in Nat : r = bank.records /\ r >= 1  BY <1>2, BankTyped
  <2>3. Cap(r + Len(Routed) + 1) \in 1 .. (2 * Window)
    <3>1. r + Len(Routed) + 1 \in Nat /\ r + Len(Routed) + 1 >= 1  BY <2>1, <2>2
    <3> QED  BY <3>1, CapTyped
  <2>4. PICK k \in 1 .. (2 * Window) : k = Known  BY <2>2, <2>3 DEF Known
  <2>5. Cap(k + Len(moved)) \in 1 .. (2 * Window)
    <3>1. k \in Nat /\ k >= 1  BY WindowAssumption
    <3>2. k + Len(moved) \in Nat /\ k + Len(moved) >= 1  BY <2>1, <3>1
    <3> QED  BY <3>2, CapTyped
  <2>6. bank' = [records |-> Cap(k + Len(moved)), current |-> bank'.current]
    BY <1>1, <2>4
  <2>7. bank'.current \in State  BY <1>1, <1>4, <1>12
  <2> QED  BY <2>5, <2>6, <2>7
<1>14. Settled'
  <2>1. state' \in State  BY <1>1, <1>4
  <2> QED  BY <1>1, <1>2, <1>12, <1>13, <2>1 DEF Settled
<1>15. state' \in State  BY <1>1, <1>4
<1>16. state' = Land(Observed, Decide(Observed, input, Known))  BY <1>1 DEF decided
<1> QED  BY <1>1, <1>9, <1>14, <1>15, <1>16

(* What a step of the engine does: its log tells of it.                    *)
LEMMA StepTold ==
  ASSUME EngInv, Next
  PROVE  Settled' /\ Told(appended', state, state', session')
<1>1. Settled /\ session \in Session /\ state \in State  BY DEF EngInv, Settled
<1>2. ASSUME NEW kind \in EventType, NEW action \in Action
      PROVE  Told(<<Event(kind, action)>>, state, state, session)
  <2>1. PICK e : e = Event(kind, action)  OBVIOUS
  <2>2. e \in EventRec /\ e.session = session /\ e.from = NoState  BY <1>1, <2>1, EventTyped
  <2>3. Told(Append(<<>>, e), state, state, session)  BY <2>2, ToldNothing, ToldOther
  <2>4. Append(<<>>, e) = <<e>>  OBVIOUS
  <2> QED  BY <2>1, <2>3, <2>4
<1>3. ASSUME NEW input, Process(input) PROVE Settled' /\ Told(appended', state, state', session')
  BY <1>3, ProcessStep
<1>4. ASSUME NEW t \in State, TransitionTo(t)
      PROVE  Settled' /\ Told(appended', state, state', session')
  <2>1. <<state, t>> \in ValidTransitions /\ Land(state, t) = t
    BY <1>4 DEF TransitionTo, AvailableFrom, Land
  <2>2. /\ state' = t /\ appended' = Moved(state, t)
        /\ bank' = [records |-> Cap(bank.records + 1), current |-> t]
        /\ calls < MaxCalls /\ calls' = calls + 1
        /\ UNCHANGED <<objective, related, session>>
    BY <1>4, <2>1 DEF TransitionTo
  <2>3. Told(<<>> \o Moved(state, t), state, t, session)
    BY <1>1, <2>1, ToldNothing, ToldMoved
  <2>4. <<>> \o Moved(state, t) = Moved(state, t)
    <3>1. Moved(state, t) \in Seq(EventRec)  BY <1>1, MovedTyped
    <3> QED  BY <3>1
  <2>5. Cap(bank.records + 1) \in 1 .. (2 * Window)
    <3>1. PICK r \in Nat : r = bank.records /\ r >= 1  BY <1>1, BankTyped
    <3>2. Cap(r + 1) \in 1 .. (2 * Window)  BY <3>1, CapTyped
    <3> QED  BY <3>1, <3>2
  <2>6. calls' \in 0 .. MaxCalls  BY <1>1, <2>2, WindowAssumption DEF Settled
  <2>7. bank' \in [records : 1 .. (2 * Window), current : State] /\ bank'.current = t
    BY <2>2, <2>5
  <2>8. Settled'  BY <1>1, <2>2, <2>6, <2>7 DEF Settled
  <2> QED  BY <2>2, <2>3, <2>4, <2>8
<1>5. ASSUME Remember PROVE Settled' /\ Told(appended', state, state', session')
  <2>1. /\ bank' = [bank EXCEPT !.records = Cap(bank.records + 1)]
        /\ appended' = <<Event("memory_written", "store")>>
        /\ UNCHANGED <<objective, state, related, session, calls>>
    BY <1>5 DEF Remember
  <2>2. Cap(bank.records + 1) \in 1 .. (2 * Window)
    <3>1. PICK r \in Nat : r = bank.records /\ r >= 1  BY <1>1, BankTyped
    <3>2. Cap(r + 1) \in 1 .. (2 * Window)  BY <3>1, CapTyped
    <3> QED  BY <3>1, <3>2
  <2>3. bank' \in [records : 1 .. (2 * Window), current : State] /\ bank'.current = bank.current
    BY <1>1, <2>1, <2>2 DEF Settled
  <2>4. "memory_written" \in EventType /\ "store" \in Action  BY DEF EventType, Action
  <2>5. Settled'  BY <1>1, <2>1, <2>3 DEF Settled
  <2> QED  BY <1>2, <2>1, <2>4, <2>5
<1>6. ASSUME Relate PROVE Settled' /\ Told(appended', state, state', session')
  <2>1. /\ related' = TRUE /\ appended' = <<Event("relation_added", "relate")>>
        /\ UNCHANGED <<objective, state, bank, session, calls>>
    BY <1>6 DEF Relate
  <2>2. "relation_added" \in EventType /\ "relate" \in Action  BY DEF EventType, Action
  <2>3. Settled'  BY <1>1, <2>1 DEF Settled
  <2> QED  BY <1>2, <2>1, <2>2, <2>3
<1>7. ASSUME NEW s \in Session, NewSession(s)
      PROVE  Settled' /\ Told(appended', state, state', session')
  <2>1. PICK e : e = [Event("context_reconstructed", "new_session") EXCEPT !.session = s]
    OBVIOUS
  <2>2. /\ session' = s /\ appended' = <<e>>
        /\ UNCHANGED <<objective, state, bank, related, calls>>
    BY <1>7, <2>1 DEF NewSession
  <2>3. e = [type |-> "context_reconstructed", session |-> s, action |-> "new_session",
             from |-> NoState, to |-> NoState]
    BY <2>1 DEF Event
  <2>4. "context_reconstructed" \in EventType /\ "new_session" \in Action
    BY DEF EventType, Action
  <2>5. e \in EventRec  BY <2>3, <2>4 DEF EventRec
  <2>6. e.session = s /\ e.from = NoState  BY <2>3
  <2>7. Told(Append(<<>>, e), state, state, s)  BY <2>5, <2>6, ToldNothing, ToldOther
  <2>8. Append(<<>>, e) = <<e>>  OBVIOUS
  <2>9. Settled'  BY <1>1, <2>2 DEF Settled
  <2> QED  BY <2>2, <2>7, <2>8, <2>9
<1>8. ASSUME UNCHANGED <<objective, state, bank, related, session, calls>>,
             \/ appended' = <<>>
             \/ appended' = <<Event("transformed", "rcs0_select")>>
             \/ appended' = <<Event("transformed", "f4_form")>>
      PROVE  Settled' /\ Told(appended', state, state', session')
  <2>1. /\ "transformed" \in EventType /\ "rcs0_select" \in Action /\ "f4_form" \in Action
    BY DEF EventType, Action
  <2>2. Told(appended', state, state, session)  BY <1>2, <1>8, <2>1, ToldNothing
  <2>3. Settled'  BY <1>1, <1>8 DEF Settled
  <2> QED  BY <1>8, <2>2, <2>3
<1>9. ASSUME NEW items, NEW u, ProduceRemain(items, u) \/ ProduceFormation(items, u)
      PROVE  Settled' /\ Told(appended', state, state', session')
  <2>1. /\ UNCHANGED <<objective, state, bank, related, session, calls>>
        /\ \/ appended' = <<>>
           \/ appended' = <<Event("transformed", "rcs0_select")>>
           \/ appended' = <<Event("transformed", "f4_form")>>
    BY <1>9 DEF ProduceRemain, ProduceFormation
  <2> QED  BY <1>8, <2>1
<1>10. ASSUME NEW g, NEW q, NEW r, UseChain(g, q, r)
       PROVE  Settled' /\ Told(appended', state, state', session')
  BY <1>8, <1>10 DEF UseChain
<1> QED
  BY <1>3, <1>4, <1>5, <1>6, <1>7, <1>9, <1>10 DEF Next, Cycle

(* What a call returns.                                                    *)
LEMMA StepReturns ==
  ASSUME EngInv, Next
  PROVE  Selected' /\ RemainExact'
<1>1. ASSUME out'.call \notin {"remain", "formation", "raised", "chain"}
      PROVE  Selected' /\ RemainExact'
  BY <1>1 DEF Selected, RemainExact
<1>2. ASSUME NEW input, Process(input) PROVE Selected' /\ RemainExact'
  <2>1. out'.call = "process"  BY <1>2, ProcessStep
  <2> QED  BY <1>1, <2>1
<1>3. ASSUME NEW t, TransitionTo(t) PROVE Selected' /\ RemainExact'
  <2>1. out'.call = "transition_to"  BY <1>3 DEF TransitionTo
  <2> QED  BY <1>1, <2>1
<1>4. ASSUME Remember PROVE Selected' /\ RemainExact'
  <2>1. out'.call = "remember"  BY <1>4 DEF Remember
  <2> QED  BY <1>1, <2>1
<1>5. ASSUME Relate PROVE Selected' /\ RemainExact'
  <2>1. out'.call = "relate"  BY <1>5 DEF Relate
  <2> QED  BY <1>1, <2>1
<1>6. ASSUME NEW s, NewSession(s) PROVE Selected' /\ RemainExact'
  <2>1. out'.call = "new_session"  BY <1>6 DEF NewSession
  <2> QED  BY <1>1, <2>1
<1>7. ASSUME NEW items \in Clusters, NEW u \in Code, ProduceRemain(items, u)
      PROVE  Selected' /\ RemainExact'
  <2>1. items \in Seq(Payload)  BY ClustersAssumption
  <2>2. PICK r : r = Select(Cluster(items), u)  OBVIOUS
  <2>3. out'.call = "remain" /\ out'.remain = r  BY <1>7, <2>2 DEF ProduceRemain
  <2>4. r \in RemainResult /\ r.direct \in 0 .. Len(r.cluster) /\ ExactSplit(r)
    BY <2>1, <2>2, SelectExact
  <2>5. Selected'  BY <2>3, <2>4 DEF Selected
  <2>6. RemainExact'  BY <2>3, <2>4 DEF RemainExact
  <2> QED  BY <2>5, <2>6
<1>8. ASSUME NEW items \in Clusters, NEW u \in Code, ProduceFormation(items, u)
      PROVE  Selected' /\ RemainExact'
  <2>1. items \in Seq(Payload)  BY ClustersAssumption
  <2>2. PICK r : r = Select(Cluster(items), u)  OBVIOUS
  <2>3. /\ CanForm(r) => out' = [call |-> "formation", remain |-> r]
                         /\ appended' = <<Event("transformed", "f4_form")>>
        /\ ~CanForm(r) => out' = [call |-> "raised", remain |-> r] /\ appended' = <<>>
    BY <1>8, <2>2 DEF ProduceFormation
  <2>4. /\ r \in RemainResult /\ r.direct \in 0 .. Len(r.cluster) /\ ExactSplit(r)
        /\ CanForm(r) <=> r.matched = 1
    BY <2>1, <2>2, SelectExact
  <2>5. out'.remain = r /\ out'.call \in {"formation", "raised"}  BY <2>3
  <2>6. Selected'  BY <2>4, <2>5 DEF Selected
  <2>7. CASE CanForm(r)
    <3>1. out'.call = "formation"  BY <2>3, <2>7
    <3>2. PICK e : e = Event("transformed", "f4_form")  OBVIOUS
    <3>3. e.action = "f4_form"  BY <3>2 DEF Event
    <3>4. appended' = <<e>>  BY <2>3, <2>7, <3>2
    <3>5. 1 \in DOMAIN appended' /\ appended'[1].action = "f4_form"  BY <3>3, <3>4
    <3> QED  BY <2>4, <2>5, <2>6, <2>7, <3>1, <3>5 DEF RemainExact
  <2>8. CASE ~CanForm(r)
    <3>1. out'.call = "raised" /\ appended' = <<>>  BY <2>3, <2>8
    <3> QED  BY <2>4, <2>5, <2>6, <2>8, <3>1 DEF RemainExact
  <2> QED  BY <2>7, <2>8
<1>9. ASSUME NEW chain \in Chains, UseChain(chain[1], chain[2], chain[3])
      PROVE  Selected' /\ RemainExact'
  <2>1. chain[1] \in Payload /\ chain[2] \in Payload /\ chain[3] \in Payload
    BY ChainsAssumption
  <2>2. PICK r : r = UttMatch(chain[1], chain[2], chain[3])  OBVIOUS
  <2>3. out'.call = "chain" /\ out'.remain = r  BY <1>9, <2>2 DEF UseChain
  <2>4. r \in RemainResult /\ r.direct \in 0 .. Len(r.cluster) /\ ChainResolved(r)
    BY <2>1, <2>2, ChainExact
  <2>5. Selected'  BY <2>3, <2>4 DEF Selected
  <2>6. RemainExact'  BY <2>3, <2>4 DEF RemainExact
  <2> QED  BY <2>5, <2>6
<1> QED
  BY <1>2, <1>3, <1>4, <1>5, <1>6, <1>7, <1>8, <1>9 DEF Next, Cycle

LEMMA EngInit == Init => EngInv
<1> SUFFICES ASSUME Init PROVE EngInv  OBVIOUS
<1>1. out.call = "new" /\ appended = <<>>  BY DEF Init
<1>2. bank = [records |-> 1, current |-> state] /\ state \in State  BY DEF Init
<1>3. 1 \in 1 .. (2 * Window) /\ 0 \in 0 .. MaxCalls  BY WindowAssumption
<1>4. bank \in [records : 1 .. (2 * Window), current : State] /\ bank.current = state
  BY <1>2, <1>3
<1>5. Settled  BY <1>3, <1>4 DEF Init, Settled
<1> QED  BY <1>1, <1>5 DEF EngInv, Selected, RemainExact

LEMMA EngNext == EngInv /\ [Next]_vars => EngInv'
<1> SUFFICES ASSUME EngInv, [Next]_vars PROVE EngInv'  OBVIOUS
<1>1. CASE Next
  <2>1. Settled' /\ appended' \in Seq(EventRec)  BY <1>1, StepTold DEF Told
  <2> QED  BY <1>1, <2>1, StepReturns DEF EngInv
<1>2. CASE UNCHANGED vars
  BY <1>2 DEF vars, EngInv, Settled, Selected, RemainExact
<1> QED  BY <1>1, <1>2

LEMMA EngAlways == Spec => []EngInv
BY EngInit, EngNext, PTL DEF Spec

-----------------------------------------------------------------------------
(* Every variable keeps its shape, the bank's count its bound, and what a  *)
(* selection returns is a result that addresses its own cluster.           *)
THEOREM TypeCorrect == Spec => []TypeOK
<1>1. EngInv => TypeOK
  <2> SUFFICES ASSUME EngInv PROVE TypeOK  OBVIOUS
  <2>1. \A i \in DOMAIN appended : appended[i] \in EventRec  BY DEF EngInv
  <2> QED  BY <2>1 DEF EngInv, Settled, Selected, TypeOK, EventRec
<1> QED  BY <1>1, EngAlways, PTL

(* A selection keeps exactly what the sequence names, a chain resolves when *)
(* its three elements agree, and a formation is made and logged exactly     *)
(* when one item alone remains, for every encoding and every cluster.       *)
THEOREM SelectionsExact == Spec => []RemainExact
<1>1. EngInv => RemainExact  BY DEF EngInv
<1> QED  BY <1>1, EngAlways, PTL

(* Every call's log tells the path the entity took in it, along allowed    *)
(* edges, and the bank's newest entity record the state it ended in.       *)
THEOREM LogTells == Spec => LogExplainsState
<1>1. EngInv /\ [Next]_vars
      => [/\ Leads(appended', state, state')
          /\ \A i \in DOMAIN appended' : appended'[i].session = session'
          /\ bank'.current = state']_vars
  <2> SUFFICES ASSUME EngInv, Next
      PROVE  /\ Leads(appended', state, state')
             /\ \A i \in DOMAIN appended' : appended'[i].session = session'
             /\ bank'.current = state'
    OBVIOUS
  <2> QED  BY StepTold DEF Told, Settled
<1> QED  BY <1>1, EngAlways, PTL DEF Spec, LogExplainsState

(* A step that ends with a cycle's result is a cycle, or changes nothing.  *)
LEMMA CycleStep ==
  ASSUME Next, out'.call = "process" PROVE \E input \in BOOLEAN : Process(input)
BY DEF Next, Cycle, TransitionTo, Remember, Relate, NewSession, ProduceRemain,
       ProduceFormation, UseChain

(* A cycle obeys at once an objective of weight between 1.0 and 1.5 whose  *)
(* target is next, for any bank, input and relations; but it takes no      *)
(* entity to INVALID for any objective and any weight: a decision that     *)
(* INVALID scores best in has another candidate with a score.              *)
THEOREM DemandObeyed == Spec => DemandTaken
<1>1. EngInv /\ [Next]_vars
      => [out'.call = "process" =>
            /\ state' = "INVALID" => state = "INVALID"
            /\ /\ Directed
               /\ objective.priority \in 101..149
               /\ objective.target \in AvailableFrom(out'.before) \ {"INVALID"}
               => state' = objective.target]_vars
  <2> SUFFICES ASSUME EngInv, Next, out'.call = "process"
      PROVE  /\ state' = "INVALID" => state = "INVALID"
             /\ /\ Directed
                /\ objective.priority \in 101..149
                /\ objective.target \in AvailableFrom(out'.before) \ {"INVALID"}
                => state' = objective.target
    OBVIOUS
  <2>1. PICK input \in BOOLEAN : Process(input)  BY CycleStep
  <2>2. PICK decided : /\ decided = Decide(Observed, input, Known)
                       /\ state' = Land(Observed, decided)
    BY <2>1, ProcessStep
  <2>3. /\ objective \in Objective /\ Observed \in State /\ state \in State
        /\ state \in {"CREATED", "ACTIVE", "OBSERVED"} => Observed = "OBSERVED"
        /\ state \notin {"CREATED", "ACTIVE"} => Observed = state
    BY Route DEF EngInv, Settled
  <2>4. ASSUME state' = "INVALID" PROVE state = "INVALID"
    <3>1. CASE Observed = "INVALID"  BY <2>3, <3>1
    <3>2. CASE Observed # "INVALID"
      <4>1. decided # "INVALID"  BY <2>2, <2>3, <3>2, DecideNotInvalid
      <4> QED  BY <2>2, <2>4, <3>2, <4>1 DEF Land
    <3> QED  BY <3>1, <3>2
  <2>5. ASSUME Directed, objective.priority \in 101..149,
               objective.target \in AvailableFrom(out'.before) \ {"INVALID"}
        PROVE  state' = objective.target
    <3>1. out'.before = Observed  BY <2>1 DEF Process
    <3>2. decided = objective.target  BY <2>2, <2>3, <2>5, <3>1, DemandDecided
    <3>3. <<Observed, decided>> \in ValidTransitions  BY <2>5, <3>1, <3>2 DEF AvailableFrom
    <3> QED  BY <2>2, <3>2, <3>3 DEF Land
  <2> QED  BY <2>4, <2>5
<1> QED  BY <1>1, EngAlways, PTL DEF Spec, DemandTaken

(* Without a target every cycle of a created, active or observed entity    *)
(* ends in ACTIVE, however much it has remembered.                         *)
THEOREM UndirectedActive == Spec => UndirectedStaysActive
<1>1. EngInv /\ [Next]_vars
      => [ /\ out'.call = "process"
           /\ ~Directed
           /\ state \in {"CREATED", "ACTIVE", "OBSERVED"}
           => state' = "ACTIVE" ]_vars
  <2> SUFFICES ASSUME EngInv, Next, out'.call = "process", ~Directed,
                      state \in {"CREATED", "ACTIVE", "OBSERVED"}
      PROVE  state' = "ACTIVE"
    OBVIOUS
  <2>1. PICK input \in BOOLEAN : Process(input)  BY CycleStep
  <2>2. objective \in Objective /\ Observed = "OBSERVED"  BY Route DEF EngInv, Settled
  <2>3. state' = Land("OBSERVED", Decide("OBSERVED", input, Known))
    BY <2>1, <2>2, ProcessStep
  <2>4. Decide("OBSERVED", input, Known) = "ACTIVE"  BY <2>2, UndirectedDecides
  <2> QED  BY <2>3, <2>4 DEF Land, ValidTransitions
<1> QED  BY <1>1, EngAlways, PTL DEF Spec, UndirectedStaysActive
=============================================================================
