-------------------------- MODULE WriteGateProofs --------------------------
(***************************************************************************)
(* Theorems of WriteGate, proved for every number of writers, targets,     *)
(* digests, keys and capabilities, and for every bound.                    *)
(***************************************************************************)
EXTENDS WriteGate, FiniteSetTheorems, TLAPS

Digest == State \cup {NoState}

Capability == [operation : {"READ", "WRITE"}, target : Name \cup {AnyTarget},
               scope : Name \cup {AnyTarget}, expires : Nat,
               tag : {NoTag} \cup (Key \X State)]

Question == [target : Name, parent : Digest, version : Nat, cap : Capability,
             mutation : State, now : 1 .. MaxTime]

Answer == [decision : {"ALLOW", "DENY"}, target : Name, previous : State,
           new : Digest, cap : Capability, reason : 0 .. 7, parent : Digest,
           observed : Nat, lapsed : BOOLEAN]

Observation == [target : Name, parent : Digest, version : Nat]

(* What the properties leave unsaid of the log and the capabilities.       *)
LogTyped ==
  /\ results \in Seq(Answer)
  /\ caps \subseteq Capability

(* A committed write stored a digest, had named the digest it replaced,    *)
(* and had it signed by the gate's key.                                    *)
CommitsChecked ==
  \A t \in Name : \A i \in Commits(t) :
     /\ results[i].new \in State
     /\ results[i].parent = results[i].previous
     /\ results[i].cap.tag = <<GateKey, results[i].previous>>

GateInv == TypeOK /\ LogTyped /\ CommitsChecked

-----------------------------------------------------------------------------
(* The commits to a target are finitely many.                              *)
LEMMA CommitsFinite ==
  ASSUME LogTyped, NEW t
  PROVE  /\ Commits(t) \subseteq 1 .. Len(results)
         /\ IsFiniteSet(Commits(t))
         /\ Version(t) \in Nat
<1>1. Commits(t) \subseteq 1 .. Len(results) /\ Len(results) \in Nat
  BY DEF LogTyped, Commits
<1>2. IsFiniteSet(1 .. Len(results))  BY <1>1, FS_Interval
<1>3. IsFiniteSet(Commits(t))  BY <1>1, <1>2, FS_Subset
<1> QED  BY <1>1, <1>3, FS_CardinalityType DEF Version

(* What a writer submits is a well-formed request.                         *)
LEMMA RequestTyped ==
  ASSUME TypeOK, LogTyped, NEW w \in Writer, NEW c \in caps, NEW m \in State,
         NEW now \in 1 .. MaxTime
  PROVE  Request(w, c, m, now) \in Question
BY DEF TypeOK, LogTyped, Request, Question, Digest

(* The least of the checks that failed is one of the seven.                *)
LEMMA FirstFailed ==
  ASSUME NEW q, Failed(q) # {}
  PROVE  Min(Failed(q)) \in 1 .. 7 /\ Min(Failed(q)) \in Failed(q)
<1> DEFINE F == Failed(q)
<1>1. F \subseteq 1 .. 7  BY DEF Failed, Checks
<1>2. F # {}  OBVIOUS
<1> HIDE DEF F
<1>3. \E x \in F : \A y \in F : x =< y
  <2>1. CASE F \cap 1 .. 3 # {}
    <3>1. CASE 1 \in F  BY <1>1, <3>1
    <3>2. CASE 1 \notin F /\ 2 \in F  BY <1>1, <3>2
    <3>3. CASE 1 \notin F /\ 2 \notin F /\ 3 \in F  BY <1>1, <3>3
    <3> QED  BY <2>1, <3>1, <3>2, <3>3
  <2>2. CASE F \cap 1 .. 3 = {}
    <3>1. F \subseteq 4 .. 7  BY <1>1, <2>2
    <3>2. CASE 4 \in F  BY <3>1, <3>2
    <3>3. CASE 4 \notin F /\ 5 \in F  BY <3>1, <3>3
    <3>4. CASE 4 \notin F /\ 5 \notin F /\ 6 \in F  BY <3>1, <3>4
    <3>5. CASE 4 \notin F /\ 5 \notin F /\ 6 \notin F
      <4>1. \A x \in F : x = 7  BY <3>1, <3>5
      <4> QED  BY <1>2, <4>1
    <3> QED  BY <3>2, <3>3, <3>4, <3>5
  <2> QED  BY <2>1, <2>2
<1>4. Min(F) \in F  BY <1>3 DEF Min
<1> QED  BY <1>1, <1>4 DEF F

(* A write that no check refuses names the digest it replaces, and holds   *)
(* the gate's signature of it.                                             *)
LEMMA PassedChecks ==
  ASSUME NEW q, Failed(q) = {}
  PROVE  /\ q.parent = state[q.target]
         /\ q.cap.tag = <<GateKey, q.parent>>
         /\ q.target # NoTarget
<1>1. \A i \in 1 .. 7 : Checks(q)[i]  BY DEF Failed, Checks
<1>2. Checks(q)[4] /\ Checks(q)[6] /\ Checks(q)[7]  BY <1>1
<1> QED  BY <1>2 DEF Checks, Verifies

-----------------------------------------------------------------------------
(* The invariant.                                                          *)
LEMMA GateInit == Init => GateInv
<1> SUFFICES ASSUME Init PROVE GateInv  OBVIOUS
<1>1. TypeOK  BY GateAssumption DEF Init, TypeOK, Name
<1>2. LogTyped  BY DEF Init, LogTyped
<1>3. CommitsChecked  BY DEF Init, CommitsChecked, Commits
<1> QED  BY <1>1, <1>2, <1>3 DEF GateInv

(* A minted capability is well formed.                                     *)
LEMMA MintedTyped ==
  ASSUME GateInv, NEW g \in Mintable, NEW parent \in Digest, MakeCapability(g, parent)
  PROVE  caps' \subseteq Capability
<1>1. /\ g \in Grant
      /\ Tag(g.key, parent) \in {NoTag} \cup (Key \X State)
  BY GrantAssumption DEF Grant, Tag, Digest
<1>2. g.expires \in Nat  BY <1>1, GateAssumption DEF Grant
<1> QED  BY <1>1, <1>2 DEF GateInv, LogTyped, MakeCapability, Grant, Capability

(* A committed write appends its answer and replaces the digest of its     *)
(* target; what was logged before stays.                                   *)
LEMMA AllowEffect ==
  ASSUME GateInv, NEW q \in Question, Allow(q), NEW n, n = Len(results) + 1
  PROVE  /\ results' \in Seq(Answer) /\ DOMAIN results' = 1 .. n /\ n \in Nat \ {0}
         /\ \A i \in DOMAIN results : i < n /\ results'[i] = results[i]
         /\ results'[n] = Result(q, "ALLOW", 0)
         /\ Commits(q.target)' = Commits(q.target) \cup {n}
         /\ n \notin Commits(q.target)
         /\ \A t \in Name \ {q.target} : Commits(t)' = Commits(t) /\ state'[t] = state[t]
         /\ state'[q.target] = q.mutation
         /\ state' \in [Name -> State]
<1>1. Result(q, "ALLOW", 0) \in Answer
  BY DEF GateInv, TypeOK, Question, Result, Answer, Digest
<1>2. /\ results \in Seq(Answer) /\ results' = Append(results, Result(q, "ALLOW", 0))
      /\ state' = [state EXCEPT ![q.target] = q.mutation]
      /\ state \in [Name -> State]
  BY DEF Allow, Stored, GateInv, LogTyped, TypeOK
<1>3. /\ results' \in Seq(Answer) /\ DOMAIN results' = 1 .. n /\ n \in Nat \ {0}
      /\ \A i \in DOMAIN results : i < n /\ results'[i] = results[i]
      /\ results'[n] = Result(q, "ALLOW", 0)
      /\ DOMAIN results = 1 .. (n - 1)
  BY <1>1, <1>2
<1>4. Result(q, "ALLOW", 0).decision = "ALLOW" /\ Result(q, "ALLOW", 0).target = q.target
  BY DEF Result
<1>5. Commits(q.target)' = Commits(q.target) \cup {n}  BY <1>3, <1>4 DEF Commits
<1>6. n \notin Commits(q.target)  BY <1>3 DEF Commits
<1>7. \A t \in Name \ {q.target} : Commits(t)' = Commits(t)  BY <1>3, <1>4 DEF Commits
<1> QED  BY <1>2, <1>3, <1>5, <1>6, <1>7 DEF Question

(* A denied write appends its answer and changes nothing else.             *)
LEMMA DenyEffect ==
  ASSUME GateInv, NEW q \in Question, Deny(q), NEW n, n = Len(results) + 1
  PROVE  /\ results' \in Seq(Answer) /\ DOMAIN results' = 1 .. n /\ n \in Nat \ {0}
         /\ \A i \in DOMAIN results : i < n /\ results'[i] = results[i]
         /\ results'[n] = Result(q, "DENY", Min(Failed(q)))
         /\ Min(Failed(q)) \in 1 .. 7
         /\ \A t : Commits(t)' = Commits(t)
         /\ state' = state
<1>1. Min(Failed(q)) \in 1 .. 7  BY FirstFailed DEF Deny
<1>2. Result(q, "DENY", Min(Failed(q))) \in Answer
  BY <1>1 DEF GateInv, TypeOK, Question, Result, Answer, Digest
<1>3. /\ results \in Seq(Answer)
      /\ results' = Append(results, Result(q, "DENY", Min(Failed(q))))
      /\ state' = state
  BY DEF Deny, GateInv, LogTyped
<1>4. /\ results' \in Seq(Answer) /\ DOMAIN results' = 1 .. n /\ n \in Nat \ {0}
      /\ \A i \in DOMAIN results : i < n /\ results'[i] = results[i]
      /\ results'[n] = Result(q, "DENY", Min(Failed(q)))
      /\ DOMAIN results = 1 .. (n - 1)
  BY <1>2, <1>3
<1>5. Result(q, "DENY", Min(Failed(q))).decision = "DENY"  BY DEF Result
<1>6. \A t : Commits(t)' = Commits(t)  BY <1>4, <1>5 DEF Commits
<1> QED  BY <1>1, <1>3, <1>4, <1>6

LEMMA GateNext == GateInv /\ [Next]_vars => GateInv'
<1> SUFFICES ASSUME GateInv, [Next]_vars PROVE GateInv'  OBVIOUS
<1>1. ASSUME NEW w \in Writer, NEW t \in Name, Observe(w, t) PROVE GateInv'
  <2>1. Version(t) \in Nat /\ state[t] \in State
    BY CommitsFinite DEF GateInv, TypeOK
  <2>2. [target |-> t, parent |-> state[t], version |-> Version(t)] \in Observation
    BY <2>1 DEF Observation, Digest
  <2>3. seen' \in [Writer -> Observation]
    BY <1>1, <2>2 DEF Observe, GateInv, TypeOK, Observation, Digest
  <2>4. UNCHANGED <<state, results, clock, caps>>  BY <1>1 DEF Observe
  <2>5. TypeOK'  BY <2>3, <2>4 DEF GateInv, TypeOK, Observation, Digest
  <2> QED  BY <2>4, <2>5 DEF GateInv, LogTyped, CommitsChecked, Commits
<1>2. ASSUME NEW g \in Mintable, NEW parent \in State \cup {NoState},
             MakeCapability(g, parent)
      PROVE  GateInv'
  <2>1. caps' \subseteq Capability  BY <1>2, MintedTyped DEF Digest
  <2>2. UNCHANGED <<state, results, clock, seen>>  BY <1>2 DEF MakeCapability
  <2> QED  BY <2>1, <2>2 DEF GateInv, TypeOK, LogTyped, CommitsChecked, Commits
<1>3. ASSUME NEW w \in Writer, NEW c \in caps, NEW m \in State,
             NEW now \in 1 .. MaxTime, Write(w, c, m, now)
      PROVE  GateInv'
  <2>1. PICK q \in Question : q = Request(w, c, m, now)  BY RequestTyped DEF GateInv
  <2>2. Allow(q) \/ Deny(q)  BY <1>3, <2>1 DEF Write
  <2>3. clock' \in 1 .. MaxTime /\ UNCHANGED <<caps, seen>>  BY <1>3 DEF Write
  <2>4. CASE Allow(q)
    <3>1. PICK n \in Nat : n = Len(results) + 1  BY DEF GateInv, LogTyped
    <3>2. /\ results' \in Seq(Answer) /\ DOMAIN results' = 1 .. n
          /\ \A i \in DOMAIN results : i < n /\ results'[i] = results[i]
          /\ results'[n] = Result(q, "ALLOW", 0)
          /\ Commits(q.target)' = Commits(q.target) \cup {n}
          /\ \A t \in Name \ {q.target} : Commits(t)' = Commits(t)
          /\ state' \in [Name -> State]
      BY <2>4, <3>1, AllowEffect
    <3>3. DOMAIN results = 1 .. (n - 1) /\ n \in Nat \ {0}
      BY <3>1 DEF GateInv, LogTyped
    <3>4. /\ results'[n].decision = "ALLOW" /\ results'[n].reason = 0
          /\ results'[n].new = q.mutation /\ results'[n].parent = q.parent
          /\ results'[n].previous = state[q.target] /\ results'[n].cap = q.cap
      BY <3>2 DEF Result
    <3>5. TypeOK'
      <4>1. ASSUME NEW i \in DOMAIN results'
            PROVE  /\ results'[i].decision \in {"ALLOW", "DENY"}
                   /\ results'[i].reason \in 0 .. 7
                   /\ results'[i].decision = "ALLOW" <=> results'[i].reason = 0
        BY <3>2, <3>3, <3>4 DEF GateInv, TypeOK
      <4> QED  BY <2>3, <3>2, <4>1 DEF GateInv, TypeOK
    <3>6. LogTyped'  BY <2>3, <3>2 DEF GateInv, LogTyped
    <3>7. /\ results'[n].new \in State
          /\ results'[n].parent = results'[n].previous
          /\ results'[n].cap.tag = <<GateKey, results'[n].previous>>
      BY <2>4, <3>4, PassedChecks DEF Allow, Question
    <3>8. ASSUME NEW t \in Name, NEW i \in Commits(t)'
          PROVE  /\ results'[i].new \in State
                 /\ results'[i].parent = results'[i].previous
                 /\ results'[i].cap.tag = <<GateKey, results'[i].previous>>
      <4>1. i = n \/ i \in Commits(t)  BY <3>2, <3>8
      <4>2. CASE i = n  BY <3>7, <4>2
      <4>3. CASE i \in Commits(t)
        <5>1. results'[i] = results[i]  BY <3>2, <4>3 DEF Commits
        <5> QED  BY <4>3, <5>1 DEF GateInv, CommitsChecked
      <4> QED  BY <4>1, <4>2, <4>3
    <3>9. CommitsChecked'  BY <3>8 DEF CommitsChecked
    <3> QED  BY <3>5, <3>6, <3>9 DEF GateInv
  <2>5. CASE Deny(q)
    <3>1. PICK n \in Nat : n = Len(results) + 1  BY DEF GateInv, LogTyped
    <3>2. /\ results' \in Seq(Answer) /\ DOMAIN results' = 1 .. n
          /\ \A i \in DOMAIN results : i < n /\ results'[i] = results[i]
          /\ results'[n] = Result(q, "DENY", Min(Failed(q)))
          /\ Min(Failed(q)) \in 1 .. 7
          /\ \A t : Commits(t)' = Commits(t)
          /\ state' = state
      BY <2>5, <3>1, DenyEffect
    <3>3. DOMAIN results = 1 .. (n - 1) /\ n \in Nat \ {0}
      BY <3>1 DEF GateInv, LogTyped
    <3>4. /\ results'[n].decision = "DENY"
          /\ results'[n].reason = Min(Failed(q))
      BY <3>2 DEF Result
    <3>5. TypeOK'
      <4>1. ASSUME NEW i \in DOMAIN results'
            PROVE  /\ results'[i].decision \in {"ALLOW", "DENY"}
                   /\ results'[i].reason \in 0 .. 7
                   /\ results'[i].decision = "ALLOW" <=> results'[i].reason = 0
        BY <3>2, <3>3, <3>4 DEF GateInv, TypeOK
      <4> QED  BY <2>3, <3>2, <4>1 DEF GateInv, TypeOK
    <3>6. LogTyped'  BY <2>3, <3>2 DEF GateInv, LogTyped
    <3>7. ASSUME NEW t \in Name, NEW i \in Commits(t)
          PROVE  results'[i] = results[i]
      BY <3>2, <3>7 DEF Commits
    <3>8. CommitsChecked'  BY <3>2, <3>7 DEF GateInv, CommitsChecked
    <3> QED  BY <3>5, <3>6, <3>8 DEF GateInv
  <2> QED  BY <2>2, <2>4, <2>5
<1>4. CASE UNCHANGED vars
  BY <1>4 DEF vars, GateInv, TypeOK, LogTyped, CommitsChecked, Commits
<1> QED  BY <1>1, <1>2, <1>3, <1>4 DEF Next

LEMMA GateInvariant == Spec => []GateInv
BY GateInit, GateNext, PTL DEF Spec

(* The gate's map and log hold what they should, and a write is denied     *)
(* exactly when a check gives a reason.                                    *)
THEOREM GateTypes == Spec => []TypeOK
<1>1. GateInv => TypeOK  BY DEF GateInv
<1> QED  BY <1>1, GateInvariant, PTL

(* No committed write was authorised for another digest than the one it    *)
(* replaced, or by a foreign key.                                          *)
THEOREM Authorised == Spec => []AuthorisedForReplaced
<1>1. GateInv => AuthorisedForReplaced
  BY DEF GateInv, CommitsChecked, AuthorisedForReplaced
<1> QED  BY <1>1, GateInvariant, PTL

-----------------------------------------------------------------------------
(* The chain of commits.                                                   *)

(* The gate holds what the last commit to a target stored.                 *)
LastHolds ==
  \A t \in Name :
     \/ Commits(t) = {} /\ state[t] = EmptyState
     \/ \E k \in Commits(t) :
          (\A j \in Commits(t) : j =< k) /\ results[k].new = state[t]

(* A commit that is not the first replaced what the one before it stored.  *)
PreviousLinked ==
  \A t \in Name : \A i \in Commits(t) :
     (\E j \in Commits(t) : j < i) =>
       \E k \in Commits(t) :
          /\ k < i
          /\ \A j \in Commits(t) : j < i => j =< k
          /\ results[k].new = results[i].previous

(* What a commit stored is what the one after it replaced.                 *)
NextLinked ==
  \A t \in Name : \A i \in Commits(t) :
     (\E j \in Commits(t) : j > i) =>
       \E k \in Commits(t) :
          /\ k > i
          /\ \A j \in Commits(t) : j > i => k =< j
          /\ results[i].new = results[k].previous

ChainInv == GateInv /\ LastHolds /\ PreviousLinked /\ NextLinked

(* A commit is linked to the one before it, and leaves other targets alone. *)
LEMMA AllowChained ==
  ASSUME ChainInv, NEW q \in Question, Allow(q)
  PROVE  LastHolds' /\ PreviousLinked' /\ NextLinked'
<1>1. PICK n \in Nat : n = Len(results) + 1
  BY DEF ChainInv, GateInv, LogTyped
<1>2. /\ \A i \in DOMAIN results : i < n /\ results'[i] = results[i]
      /\ results'[n] = Result(q, "ALLOW", 0)
      /\ Commits(q.target)' = Commits(q.target) \cup {n}
      /\ \A t \in Name \ {q.target} : Commits(t)' = Commits(t) /\ state'[t] = state[t]
      /\ state'[q.target] = q.mutation
  BY <1>1, AllowEffect DEF ChainInv
<1>3. results'[n].new = q.mutation /\ results'[n].previous = state[q.target]
  BY <1>2 DEF Result
<1>4. \A t : \A i \in Commits(t) : i \in Nat /\ i < n /\ results'[i] = results[i]
  BY <1>1, <1>2, CommitsFinite DEF ChainInv, GateInv, Commits
<1>5. ASSUME NEW t \in Name, t # q.target
      PROVE  Commits(t)' = Commits(t) /\ state'[t] = state[t]
  BY <1>2, <1>5
(* The new commit follows the last one, if there was any.                  *)
<1>6. \/ Commits(q.target) = {}
      \/ \E k \in Commits(q.target) :
           /\ \A j \in Commits(q.target) : j =< k
           /\ results'[k].new = results'[n].previous
  BY <1>3, <1>4 DEF ChainInv, LastHolds, Question
<1>7. LastHolds'
  <2>1. ASSUME NEW t \in Name
        PROVE  \/ Commits(t)' = {} /\ state'[t] = EmptyState
               \/ \E k \in Commits(t)' :
                    (\A j \in Commits(t)' : j =< k) /\ results'[k].new = state'[t]
    <3>1. CASE t = q.target  BY <1>1, <1>2, <1>3, <1>4, <3>1
    <3>2. CASE t # q.target  BY <1>4, <1>5, <3>2 DEF ChainInv, LastHolds
    <3> QED  BY <3>1, <3>2
  <2> QED  BY <2>1 DEF LastHolds
<1>8. PreviousLinked'
  <2>1. ASSUME NEW t \in Name, NEW i \in Commits(t)', NEW l \in Commits(t)', l < i
        PROVE  \E k \in Commits(t)' :
                  /\ k < i
                  /\ \A j \in Commits(t)' : j < i => j =< k
                  /\ results'[k].new = results'[i].previous
    <3>1. CASE i \in Commits(t)
      <4>1. l \in Commits(t)  BY <1>1, <1>2, <1>4, <1>5, <2>1, <3>1
      <4>2. PICK k \in Commits(t) : /\ k < i
                                    /\ \A j \in Commits(t) : j < i => j =< k
                                    /\ results[k].new = results[i].previous
        BY <2>1, <3>1, <4>1 DEF ChainInv, PreviousLinked
      <4>3. \A j \in Commits(t)' : j < i => j \in Commits(t)
        BY <1>1, <1>2, <1>4, <1>5, <3>1
      <4>4. k \in Commits(t)'  BY <1>2, <1>5
      <4> QED  BY <1>4, <3>1, <4>2, <4>3, <4>4
    <3>2. CASE i \notin Commits(t)
      <4>1. t = q.target /\ i = n  BY <1>2, <1>5, <2>1, <3>2
      <4>2. l \in Commits(t)  BY <1>1, <1>2, <2>1, <4>1
      <4> QED  BY <1>1, <1>2, <1>4, <1>6, <4>1, <4>2
    <3> QED  BY <3>1, <3>2
  <2> QED  BY <2>1 DEF PreviousLinked
<1>9. NextLinked'
  <2>1. ASSUME NEW t \in Name, NEW i \in Commits(t)', NEW l \in Commits(t)', l > i
        PROVE  \E k \in Commits(t)' :
                  /\ k > i
                  /\ \A j \in Commits(t)' : j > i => k =< j
                  /\ results'[i].new = results'[k].previous
    <3>1. i \in Commits(t)  BY <1>1, <1>2, <1>4, <1>5, <2>1
    <3>2. CASE \E j \in Commits(t) : j > i
      <4>1. PICK k \in Commits(t) : /\ k > i
                                    /\ \A j \in Commits(t) : j > i => k =< j
                                    /\ results[i].new = results[k].previous
        BY <3>1, <3>2 DEF ChainInv, NextLinked
      <4>2. k \in Commits(t)'  BY <1>2, <1>5
      <4>3. \A j \in Commits(t)' : j \in Commits(t) \/ (j = n /\ k =< j)
        BY <1>1, <1>2, <1>4, <1>5
      <4> QED  BY <1>4, <3>1, <4>1, <4>2, <4>3
    <3>3. CASE ~ \E j \in Commits(t) : j > i
      <4>1. t = q.target /\ l = n  BY <1>2, <1>5, <2>1, <3>3
      <4>2. PICK k \in Commits(t) : /\ \A j \in Commits(t) : j =< k
                                    /\ results'[k].new = results'[n].previous
        BY <1>6, <3>1, <4>1
      <4>3. k = i  BY <1>4, <3>1, <3>3, <4>2
      <4>4. n \in Commits(t)' /\ n > i  BY <1>2, <1>4, <3>1, <4>1
      <4>5. \A j \in Commits(t)' : j > i => j = n
        BY <1>2, <3>3, <4>1
      <4>6. \A j \in Commits(t)' : j > i => n =< j  BY <1>1, <4>5
      <4> QED  BY <4>2, <4>3, <4>4, <4>6
    <3> QED  BY <3>2, <3>3
  <2> QED  BY <2>1 DEF NextLinked
<1> QED  BY <1>7, <1>8, <1>9

(* A step that commits nothing keeps the chain.                            *)
LEMMA OthersChained ==
  ASSUME ChainInv, UNCHANGED state,
         \A t : Commits(t)' = Commits(t),
         \A i \in DOMAIN results : results'[i] = results[i]
  PROVE  LastHolds' /\ PreviousLinked' /\ NextLinked'
<1>1. \A t : \A i \in Commits(t) : results'[i] = results[i]  BY DEF Commits
<1>2. LastHolds'  BY <1>1 DEF ChainInv, LastHolds
<1>3. PreviousLinked'  BY <1>1 DEF ChainInv, PreviousLinked
<1>4. NextLinked'  BY <1>1 DEF ChainInv, NextLinked
<1> QED  BY <1>2, <1>3, <1>4

LEMMA ChainNext == ChainInv /\ [Next]_vars => ChainInv'
<1> SUFFICES ASSUME ChainInv, [Next]_vars PROVE ChainInv'  OBVIOUS
<1>1. GateInv'  BY GateNext DEF ChainInv
<1>2. CASE UNCHANGED <<state, results>>
  <2>1. \A t : Commits(t)' = Commits(t)  BY <1>2 DEF Commits
  <2> QED  BY <1>1, <1>2, <2>1, OthersChained DEF ChainInv
<1>3. ASSUME NEW w \in Writer, NEW c \in caps, NEW m \in State,
             NEW now \in 1 .. MaxTime, Write(w, c, m, now)
      PROVE  ChainInv'
  <2>1. PICK q \in Question : q = Request(w, c, m, now)
    BY RequestTyped DEF ChainInv, GateInv
  <2>2. CASE Allow(q)  BY <1>1, <2>2, AllowChained DEF ChainInv
  <2>3. CASE Deny(q)
    <3>1. PICK n \in Nat : n = Len(results) + 1
      BY DEF ChainInv, GateInv, LogTyped
    <3>2. /\ \A t : Commits(t)' = Commits(t)
          /\ \A i \in DOMAIN results : results'[i] = results[i]
          /\ state' = state
      BY <2>3, <3>1, DenyEffect DEF ChainInv
    <3> QED  BY <1>1, <3>2, OthersChained DEF ChainInv
  <2> QED  BY <1>3, <2>1, <2>2, <2>3 DEF Write
<1>4. CASE \E w \in Writer, c \in caps, m \in State, now \in 1 .. MaxTime :
             Write(w, c, m, now)
  BY <1>3, <1>4
<1>5. CASE ~ \E w \in Writer, c \in caps, m \in State, now \in 1 .. MaxTime :
             Write(w, c, m, now)
  <2>1. UNCHANGED <<state, results>>
    BY <1>5 DEF Next, Observe, MakeCapability, vars
  <2> QED  BY <1>2, <2>1
<1> QED  BY <1>4, <1>5

LEMMA ChainInvariant == Spec => []ChainInv
<1>1. Init => ChainInv
  <2>1. Init => LastHolds /\ PreviousLinked /\ NextLinked
    BY DEF Init, LastHolds, PreviousLinked, NextLinked, Commits
  <2> QED  BY <2>1, GateInit DEF ChainInv
<1> QED  BY <1>1, ChainNext, PTL DEF Spec

(* Nothing was committed beside the chain from the digest of {} to what    *)
(* the gate holds.                                                         *)
THEOREM Chain == Spec => []ChainIntact
<1>1. ASSUME ChainInv PROVE ChainIntact
  <2> SUFFICES ASSUME NEW t \in Name
               PROVE  /\ Commits(t) = {} => state[t] = EmptyState
                      /\ \A i \in Commits(t) :
                           LET later == {j \in Commits(t) : j > i}
                               next == results[Min(later)].previous
                           IN  results[i].new = IF later = {} THEN state[t] ELSE next
    BY DEF ChainIntact
  <2>1. Commits(t) \subseteq Nat  BY <1>1, CommitsFinite DEF ChainInv, GateInv
  <2>2. Commits(t) = {} => state[t] = EmptyState  BY <1>1 DEF ChainInv, LastHolds
  <2>3. ASSUME NEW i \in Commits(t), NEW later, later = {j \in Commits(t) : j > i}
        PROVE  results[i].new = IF later = {} THEN state[t]
                                ELSE results[Min(later)].previous
    <3>1. CASE later = {}
      <4>1. PICK k \in Commits(t) : /\ \A j \in Commits(t) : j =< k
                                    /\ results[k].new = state[t]
        BY <1>1 DEF ChainInv, LastHolds
      <4>2. k = i  BY <2>1, <2>3, <3>1, <4>1
      <4> QED  BY <3>1, <4>1, <4>2
    <3>2. CASE later # {}
      <4>1. PICK k \in Commits(t) : /\ k > i
                                    /\ \A j \in Commits(t) : j > i => k =< j
                                    /\ results[i].new = results[k].previous
        BY <1>1, <2>3, <3>2 DEF ChainInv, NextLinked
      <4>2. k \in later /\ \A j \in later : k =< j  BY <2>3, <4>1
      <4>3. Min(later) \in later /\ \A j \in later : Min(later) =< j
        BY <4>2 DEF Min
      <4>4. Min(later) = k  BY <2>1, <2>3, <4>2, <4>3
      <4> QED  BY <3>2, <4>1, <4>4
    <3> QED  BY <3>1, <3>2
  <2> QED  BY <2>2, <2>3
<1> QED  BY <1>1, ChainInvariant, PTL

(* The last commit before one with a predecessor stored what it replaced,  *)
(* and nothing else was committed in between.                              *)
LEMMA Predecessor ==
  ASSUME ChainInv, NEW t \in Name, NEW i \in Commits(t), NEW l \in Commits(t), l < i
  PROVE  \E k \in Commits(t) :
            /\ k < i /\ l =< k
            /\ \A j \in Commits(t) : j < i => j =< k
            /\ results[k].new = results[i].previous
BY DEF ChainInv, PreviousLinked

(* A capability refused as expired since the clock last went back had an   *)
(* expiry, and its time is over.                                           *)
LapsedOver ==
  lapsed \subseteq {c \in Capability : c.expires # 0 /\ clock > c.expires}

ExpiryInv == GateInv /\ LapsedOver /\ SpentOnExpiry

(* So write finds it expired again, when the clock has not gone back.      *)
LEMMA LapsedExpired ==
  ASSUME ExpiryInv, NEW q \in Question, q.cap \in Lapsed(q.now) PROVE Expired(q)
<1>1. /\ q.now >= clock /\ clock > q.cap.expires
      /\ q.cap.expires # 0 /\ q.cap.expires \in Nat
      /\ clock \in Nat /\ q.now \in Nat
  BY GateAssumption
     DEF Lapsed, ExpiryInv, LapsedOver, GateInv, TypeOK, Question, Capability
<1> QED  BY <1>1 DEF Expired

(* What is appended to the log under reason 2 has expired, and what is     *)
(* committed has not.                                                      *)
LEMMA ExpiryAppended ==
  ASSUME ExpiryInv, NEW q \in Question, Allow(q) \/ Deny(q), clock' = q.now
  PROVE  LapsedOver' /\ SpentOnExpiry'
<1>1. PICK n \in Nat : n = Len(results) + 1  BY DEF ExpiryInv, GateInv, LogTyped
<1>2. DOMAIN results = 1 .. (n - 1)  BY <1>1 DEF ExpiryInv, GateInv, LogTyped
<1>3. /\ DOMAIN results' = 1 .. n
      /\ \A i \in DOMAIN results : i < n /\ results'[i] = results[i]
      /\ results'[n].cap = q.cap /\ results'[n].lapsed = (q.cap \in Lapsed(q.now))
      /\ results'[n].decision = "DENY" \/ (~Expired(q) /\ results'[n].reason = 0)
      /\ results'[n].reason = 2 => Expired(q)
      /\ lapsed' \subseteq Lapsed(q.now) \cup {c \in {q.cap} : Expired(q)}
  <2>1. CASE Allow(q)
    <3>1. ~Expired(q)
      <4>1. Failed(q) = {}  BY <2>1 DEF Allow
      <4>2. Checks(q)[2]  BY <4>1 DEF Failed, Checks
      <4> QED  BY <4>2 DEF Checks
    <3>2. /\ DOMAIN results' = 1 .. n
          /\ \A i \in DOMAIN results : i < n /\ results'[i] = results[i]
          /\ results'[n] = Result(q, "ALLOW", 0)
      BY <1>1, <2>1, AllowEffect DEF ExpiryInv
    <3>3. /\ results'[n].cap = q.cap /\ results'[n].reason = 0
          /\ results'[n].lapsed = (q.cap \in Lapsed(q.now))
      BY <3>2 DEF Result
    <3>4. lapsed' = Lapsed(q.now)  BY <2>1 DEF Allow
    <3> QED  BY <3>1, <3>2, <3>3, <3>4
  <2>2. CASE Deny(q)
    <3>1. /\ DOMAIN results' = 1 .. n
          /\ \A i \in DOMAIN results : i < n /\ results'[i] = results[i]
          /\ results'[n] = Result(q, "DENY", Min(Failed(q)))
      BY <1>1, <2>2, DenyEffect DEF ExpiryInv
    <3>2. Min(Failed(q)) = 2 => Expired(q)
      <4>1. Failed(q) # {}  BY <2>2 DEF Deny
      <4>2. Min(Failed(q)) \in Failed(q)  BY <4>1, FirstFailed
      <4>3. 2 \in Failed(q) => ~Checks(q)[2]  BY DEF Failed
      <4> QED  BY <4>2, <4>3 DEF Checks
    <3>3. /\ results'[n].cap = q.cap /\ results'[n].decision = "DENY"
          /\ results'[n].reason = Min(Failed(q))
          /\ results'[n].lapsed = (q.cap \in Lapsed(q.now))
      BY <3>1 DEF Result
    <3>4. lapsed' = Lapsed(q.now) \cup {c \in {q.cap} : Min(Failed(q)) = 2}
      BY <2>2 DEF Deny
    <3> QED  BY <3>1, <3>2, <3>3, <3>4
  <2> QED  BY <2>1, <2>2
<1>4. LapsedOver'
  <2> SUFFICES ASSUME NEW c \in lapsed'
               PROVE  c \in Capability /\ c.expires # 0 /\ q.now > c.expires
    BY DEF LapsedOver
  <2>1. CASE c \in Lapsed(q.now)
    <3>1. /\ c \in Capability /\ c.expires # 0 /\ clock > c.expires /\ q.now >= clock
          /\ clock \in Nat /\ q.now \in Nat
      BY <2>1, GateAssumption
         DEF Lapsed, ExpiryInv, LapsedOver, GateInv, TypeOK, Question
    <3>2. c.expires \in Nat  BY <3>1 DEF Capability
    <3> QED  BY <3>1, <3>2
  <2>2. CASE c = q.cap /\ Expired(q)
    BY <2>2 DEF Expired, Question
  <2> QED  BY <2>1, <2>2, <1>3
<1>5. SpentOnExpiry'
  <2> SUFFICES ASSUME NEW i \in 1 .. n
               PROVE  /\ results'[i].reason = 2 => results'[i].cap.expires # 0
                      /\ results'[i].lapsed => results'[i].decision = "DENY"
    BY <1>3 DEF SpentOnExpiry
  <2>1. CASE i = n
    <3>1. results'[n].lapsed => Expired(q)  BY <1>3, LapsedExpired
    <3> QED  BY <2>1, <3>1, <1>3 DEF Expired
  <2>2. CASE i # n
    <3>1. i \in DOMAIN results /\ results'[i] = results[i]  BY <1>1, <1>2, <1>3, <2>2
    <3> QED  BY <3>1 DEF ExpiryInv, SpentOnExpiry
  <2> QED  BY <2>1, <2>2
<1> QED  BY <1>4, <1>5

LEMMA ExpiryInvariant == Spec => []ExpiryInv
<1>1. Init => ExpiryInv
  <2>1. Init => LapsedOver /\ SpentOnExpiry
    BY DEF Init, LapsedOver, SpentOnExpiry
  <2> QED  BY <2>1, GateInit DEF ExpiryInv
<1>2. ExpiryInv /\ [Next]_vars => ExpiryInv'
  <2> SUFFICES ASSUME ExpiryInv, [Next]_vars PROVE ExpiryInv'  OBVIOUS
  <2>1. GateInv'  BY GateNext DEF ExpiryInv
  <2>2. ASSUME NEW w \in Writer, NEW c \in caps, NEW m \in State,
               NEW now \in 1 .. MaxTime, Write(w, c, m, now)
        PROVE  ExpiryInv'
    <3>1. PICK q \in Question : q = Request(w, c, m, now)
      BY RequestTyped DEF ExpiryInv, GateInv
    <3>2. clock' = q.now  BY <2>2, <3>1 DEF Write, Request
    <3> QED  BY <2>1, <2>2, <3>1, <3>2, ExpiryAppended DEF Write, ExpiryInv
  <2>3. CASE UNCHANGED <<results, clock, lapsed>>
    BY <2>1, <2>3 DEF ExpiryInv, LapsedOver, SpentOnExpiry
  <2>4. \/ \E w \in Writer, c \in caps, m \in State, now \in 1 .. MaxTime :
             Write(w, c, m, now)
        \/ UNCHANGED <<results, clock, lapsed>>
    BY DEF Next, Observe, MakeCapability, vars
  <2> QED  BY <2>2, <2>3, <2>4
<1> QED  BY <1>1, <1>2, PTL DEF Spec

(* A capability is no standing permission: used twice on one target, the   *)
(* digest it names was brought back in between, and refused once for its   *)
(* age, it is of no use until the clock goes back.                         *)
THEOREM Spent == Spec => []CapabilitySpent
<1>1. ASSUME ChainInv PROVE SpentOnReturn
  <2> SUFFICES ASSUME NEW t \in Target, NEW i \in Commits(t), NEW j \in Commits(t),
                      i < j, results[i].cap = results[j].cap
               PROVE  \E k \in Commits(t) :
                        i =< k /\ k < j /\ results[k].new = results[i].previous
    BY DEF SpentOnReturn
  <2>1. t \in Name  BY DEF Name
  <2>2. results[i].previous = results[j].previous
    BY <1>1, <2>1 DEF ChainInv, GateInv, CommitsChecked
  <2> QED  BY <1>1, <2>1, <2>2, Predecessor
<1>2. ExpiryInv => SpentOnExpiry  BY DEF ExpiryInv
<1> QED  BY <1>1, <1>2, ChainInvariant, ExpiryInvariant, PTL DEF CapabilitySpent

(* An outdated write goes through only after the digest it was based on    *)
(* came back.                                                              *)
THEOREM Stale == Spec => []StaleNeedsReturn
<1>1. ASSUME ChainInv PROVE StaleNeedsReturn
  <2> SUFFICES ASSUME NEW t \in Target, NEW i \in Commits(t), NEW l \in Since(i)
               PROVE  \E j \in Since(i) : results[j].new = results[i].parent
    BY DEF StaleNeedsReturn
  <2>1. t \in Name  BY DEF Name
  <2>2. results[i].target = t /\ results[i].observed \in Nat
    <3>1. results \in Seq(Answer)  BY <1>1 DEF ChainInv, GateInv, LogTyped
    <3>2. i \in DOMAIN results /\ results[i].target = t  BY DEF Commits
    <3>3. results[i] \in Answer  BY <3>1, <3>2
    <3> QED  BY <3>2, <3>3 DEF Answer
  <2> DEFINE earlier == {j \in Commits(t) : j < i}
             Upto(k) == {j \in earlier : j =< k}
  <2>3. Since(i) = {j \in earlier : Cardinality(Upto(j)) > results[i].observed}
    BY <2>2 DEF Since
  <2>4. l \in Commits(t) /\ l < i /\ Cardinality(Upto(l)) > results[i].observed
    BY <2>3
  <2>5. PICK k \in Commits(t) : /\ k < i /\ l =< k
                                /\ results[k].new = results[i].previous
    BY <1>1, <2>1, <2>4, Predecessor
  <2>6. Commits(t) \subseteq Nat /\ IsFiniteSet(Commits(t))
    BY <1>1, CommitsFinite DEF ChainInv, GateInv
  <2>7. Upto(l) \subseteq Upto(k) /\ Upto(k) \subseteq Commits(t)
    BY <2>4, <2>5, <2>6
  <2> HIDE DEF Upto
  <2>8. /\ IsFiniteSet(Upto(k)) /\ IsFiniteSet(Upto(l))
        /\ Cardinality(Upto(l)) =< Cardinality(Upto(k))
        /\ Cardinality(Upto(l)) \in Nat /\ Cardinality(Upto(k)) \in Nat
    BY <2>6, <2>7, FS_Subset, FS_CardinalityType
  <2>9. k \in Since(i)  BY <2>2, <2>3, <2>4, <2>5, <2>8
  <2>10. results[k].new = results[i].parent
    BY <1>1, <2>1, <2>5 DEF ChainInv, GateInv, CommitsChecked
  <2> QED  BY <2>9, <2>10
<1> QED  BY <1>1, ChainInvariant, PTL

-----------------------------------------------------------------------------
(* A target changes only by a commit of its own.                           *)
THEOREM CommitsChange == Spec => OnlyCommitsChange
<1>1. ASSUME GateInv, [Next]_vars, NEW t \in Name, state'[t] # state[t]
      PROVE  Version(t)' = Version(t) + 1
  <2>1. PICK w \in Writer, c \in caps, m \in State, now \in 1 .. MaxTime :
             Write(w, c, m, now)
    BY <1>1 DEF Next, Observe, MakeCapability, vars
  <2>2. PICK q \in Question : q = Request(w, c, m, now)
    BY <1>1, RequestTyped DEF GateInv
  <2>3. PICK n \in Nat : n = Len(results) + 1  BY <1>1 DEF GateInv, LogTyped
  <2>4. ~ Deny(q)  BY <1>1 DEF Deny
  <2>5. Allow(q)  BY <2>1, <2>2, <2>4 DEF Write
  <2>6. /\ Commits(q.target)' = Commits(q.target) \cup {n}
        /\ n \notin Commits(q.target)
        /\ \A u \in Name \ {q.target} : state'[u] = state[u]
    BY <1>1, <2>3, <2>5, AllowEffect
  <2>7. t = q.target  BY <1>1, <2>6
  <2>8. IsFiniteSet(Commits(t))  BY <1>1, CommitsFinite DEF GateInv
  <2> QED  BY <2>6, <2>7, <2>8, FS_AddElement DEF Version
<1>2. GateInv /\ [Next]_vars =>
        [\A t \in Name : state'[t] # state[t] => Version(t)' = Version(t) + 1]_vars
  BY <1>1
<1> QED  BY <1>2, GateInvariant, PTL DEF Spec, OnlyCommitsChange
=============================================================================
