--------------------------- MODULE DevicesProofs ---------------------------
(***************************************************************************)
(* What the device registry promises, for any devices, keys, seeds and     *)
(* expiries.  Attention's answers rest on two facts about the lists: an    *)
(* attestation lies under the seed it names, and one that was matched and  *)
(* that no prune has seen expired still does.  The rest is about the loops that collect   *)
(* the unexpired: Among keeps all of them and nothing else, and everything *)
(* of a list that has nothing else, which makes a prune invisible.         *)
(***************************************************************************)
EXTENDS Devices, Induction, SequenceTheorems

(* What Among collects of the first n entries.                             *)
LEMMA Collected ==
  ASSUME NEW S, NEW list \in Seq(S), NEW T
  PROVE  \E kept : /\ kept[0] = <<>>
                   /\ \A n \in 1 .. Len(list) :
                        kept[n] = IF list[n] \in T THEN Append(kept[n - 1], list[n])
                                  ELSE kept[n - 1]
                   /\ Among(list, T) = kept[Len(list)]
<1> DEFINE Gather(f, n) == IF n = 0 THEN <<>>
                         ELSE IF list[n] \in T THEN Append(f[n - 1], list[n]) ELSE f[n - 1]
           Upto == {n \in Nat : \E f : f = [i \in 0 .. n |-> Gather(f, i)]}
<1>1. Len(list) \in Nat  OBVIOUS
<1>2. 0 \in Upto
  <2>1. [i \in 0 .. 0 |-> <<>>] = [i \in 0 .. 0 |-> Gather([j \in 0 .. 0 |-> <<>>], i)]
    OBVIOUS
  <2> QED  BY <2>1
<1>3. ASSUME NEW n \in Nat, n \in Upto PROVE n + 1 \in Upto
  <2>1. PICK f : f = [i \in 0 .. n |-> Gather(f, i)]  BY <1>3
  <2>2. PICK g : g = [i \in 0 .. n + 1 |-> IF i = n + 1 THEN Gather(f, i) ELSE f[i]]  OBVIOUS
  <2>3. \A i \in 0 .. n + 1 : g[i] = Gather(g, i)
    <3> SUFFICES ASSUME NEW i \in 0 .. n + 1 PROVE g[i] = Gather(g, i)  OBVIOUS
    <3>1. CASE i = 0  BY <2>1, <2>2, <3>1
    <3>2. CASE i # 0
      <4>1. i - 1 \in 0 .. n /\ g[i - 1] = f[i - 1]  BY <2>2, <3>2
      <4>2. CASE i = n + 1  BY <2>2, <4>1, <4>2
      <4>3. CASE i # n + 1
        <5>1. i \in 0 .. n  BY <4>3
        <5> QED  BY <2>1, <2>2, <4>1, <5>1
      <4> QED  BY <4>2, <4>3
    <3> QED  BY <3>1, <3>2
  <2>4. g = [i \in 0 .. n + 1 |-> Gather(g, i)]  BY <2>2, <2>3
  <2> QED  BY <2>4
<1>4. Len(list) \in Upto  
  <2> HIDE DEF Upto
  <2> QED BY <1>1, <1>2, <1>3, Induct
<1> DEFINE kept == CHOOSE f : f = [i \in 0 .. Len(list) |-> Gather(f, i)]
<1>5. kept = [i \in 0 .. Len(list) |-> Gather(kept, i)]  BY <1>4, Zenon
<1>6. Among(list, T) = kept[Len(list)]  BY Zenon DEF Among
<1> HIDE DEF kept
<1>7. kept[0] = <<>>  BY <1>1, <1>5
<1>8. ASSUME NEW n \in 1 .. Len(list)
      PROVE  kept[n] = IF list[n] \in T THEN Append(kept[n - 1], list[n]) ELSE kept[n - 1]
  <2>1. n \in 0 .. Len(list) /\ n # 0  BY <1>1
  <2> QED  BY <1>5, <2>1
<1> QED  BY <1>6, <1>7, <1>8

(* What is kept of a list is a list of those of its entries that are in T, *)
(* and no longer than it.                                                  *)
LEMMA AmongProperties ==
  ASSUME NEW S, NEW list \in Seq(S), NEW T
  PROVE  /\ Among(list, T) \in Seq(S)
         /\ Len(Among(list, T)) =< Len(list)
         /\ \A i \in DOMAIN Among(list, T) :
              Among(list, T)[i] \in T /\ \E j \in DOMAIN list : list[j] = Among(list, T)[i]
         /\ \A j \in DOMAIN list :
              list[j] \in T => \E i \in DOMAIN Among(list, T) : Among(list, T)[i] = list[j]
<1>1. PICK kept : /\ kept[0] = <<>>
                  /\ \A n \in 1 .. Len(list) :
                       kept[n] = IF list[n] \in T THEN Append(kept[n - 1], list[n])
                                 ELSE kept[n - 1]
                  /\ Among(list, T) = kept[Len(list)]
  BY Collected
<1> DEFINE From(n) == \A i \in 1 .. Len(kept[n]) :
                        kept[n][i] \in T /\ \E j \in 1 .. n : list[j] = kept[n][i]
           All(n) == \A j \in 1 .. n :
                       list[j] \in T => \E i \in 1 .. Len(kept[n]) : kept[n][i] = list[j]
           Sound(n) == kept[n] \in Seq(S) /\ Len(kept[n]) =< n /\ From(n) /\ All(n)
           Proved == {n \in Nat : n =< Len(list) => Sound(n)}
<1>2. 0 \in Proved
  <2>1. kept[0] \in Seq(S) /\ Len(kept[0]) = 0  BY <1>1
  <2>2. Sound(0)  BY <2>1
  <2> QED  BY <2>2
<1>3. ASSUME NEW n \in Nat, n \in Proved PROVE n + 1 \in Proved
  <2> SUFFICES ASSUME n + 1 =< Len(list) PROVE Sound(n + 1)
    <3> HIDE DEF Sound
    <3> QED  OBVIOUS
  <2>1. n + 1 \in 1 .. Len(list) /\ list[n + 1] \in S /\ n + 1 - 1 = n /\ Len(list) \in Nat
    OBVIOUS
  <2>2. Sound(n)  BY <1>3, <2>1
  <2>3. kept[n + 1] = IF list[n + 1] \in T THEN Append(kept[n], list[n + 1]) ELSE kept[n]
    BY <1>1, <2>1
  <2>5. CASE list[n + 1] \in T
    <3>1. kept[n + 1] = Append(kept[n], list[n + 1])  BY <2>3, <2>5
    <3>2. PICK l \in Nat : l = Len(kept[n])  BY <2>2
    <3>3. /\ kept[n + 1] \in Seq(S) /\ Len(kept[n + 1]) = l + 1
          /\ \A i \in 1 .. l : kept[n + 1][i] = kept[n][i]
          /\ kept[n + 1][l + 1] = list[n + 1]
      BY <2>1, <2>2, <3>1, <3>2
    <3>4. From(n + 1)
      <4> SUFFICES ASSUME NEW i \in 1 .. l + 1
          PROVE kept[n + 1][i] \in T /\ \E j \in 1 .. n + 1 : list[j] = kept[n + 1][i]
        BY <3>3
      <4>1. CASE i = l + 1  BY <2>1, <2>5, <3>3, <4>1
      <4>2. CASE i # l + 1
        <5>1. i \in 1 .. l  BY <3>2, <4>2
        <5>2. PICK j \in 1 .. n : list[j] = kept[n][i]  BY <2>2, <3>2, <5>1
        <5>3. kept[n][i] \in T  BY <2>2, <3>2, <5>1
        <5> QED  BY <3>3, <5>1, <5>2, <5>3
      <4> QED  BY <4>1, <4>2
    <3>5. All(n + 1)
      <4> SUFFICES ASSUME NEW j \in 1 .. n + 1, list[j] \in T
          PROVE \E i \in 1 .. l + 1 : kept[n + 1][i] = list[j]
        BY <3>3
      <4>1. CASE j = n + 1  BY <3>2, <3>3, <4>1
      <4>2. CASE j # n + 1
        <5>1. j \in 1 .. n  BY <4>2
        <5>2. PICK i \in 1 .. l : kept[n][i] = list[j]  BY <2>2, <3>2, <5>1
        <5> QED  BY <3>2, <3>3, <5>2
      <4> QED  BY <4>1, <4>2
    <3> QED  BY <2>2, <3>2, <3>3, <3>4, <3>5
  <2>6. CASE list[n + 1] \notin T
    <3>1. kept[n + 1] = kept[n]  BY <2>3, <2>6
    <3>2. From(n + 1)  BY <2>2, <3>1
    <3>3. All(n + 1)
      <4> SUFFICES ASSUME NEW j \in 1 .. n + 1, list[j] \in T
          PROVE \E i \in 1 .. Len(kept[n]) : kept[n][i] = list[j]
        BY <3>1
      <4>1. j \in 1 .. n  BY <2>6
      <4> QED  BY <2>2, <4>1
    <3> QED  BY <2>1, <2>2, <3>1, <3>2, <3>3
  <2> QED  BY <2>5, <2>6
<1>4. Len(list) \in Nat /\ DOMAIN list = 1 .. Len(list)  OBVIOUS
<1>5. Sound(Len(list))
  <2>1. Len(list) \in Proved
    <3> HIDE DEF Proved
    <3> QED  BY <1>2, <1>3, <1>4, Induct
  <2> HIDE DEF Sound
  <2> QED  BY <1>4, <2>1
<1>6. PICK L : L = kept[Len(list)] /\ L = Among(list, T)  BY <1>1
<1>7. L \in Seq(S) /\ Len(L) =< Len(list) /\ DOMAIN L = 1 .. Len(L)  BY <1>5, <1>6
<1>8. From(Len(list)) /\ All(Len(list))  BY <1>5
<1>9. \A i \in DOMAIN L : L[i] \in T /\ \E j \in DOMAIN list : list[j] = L[i]
  BY <1>4, <1>6, <1>7, <1>8
<1>10. \A j \in DOMAIN list : list[j] \in T => \E i \in DOMAIN L : L[i] = list[j]
  BY <1>4, <1>6, <1>7, <1>8
<1> QED  BY <1>6, <1>7, <1>9, <1>10

(* Nothing is dropped of a list all of whose entries are in T.             *)
LEMMA AmongAll ==
  ASSUME NEW S, NEW list \in Seq(S), NEW T, \A i \in DOMAIN list : list[i] \in T
  PROVE  Among(list, T) = list
<1>1. PICK kept : /\ kept[0] = <<>>
                  /\ \A n \in 1 .. Len(list) :
                       kept[n] = IF list[n] \in T THEN Append(kept[n - 1], list[n])
                                 ELSE kept[n - 1]
                  /\ Among(list, T) = kept[Len(list)]
  BY Collected
<1> DEFINE Same(n) == /\ kept[n] \in Seq(S) /\ Len(kept[n]) = n
                      /\ \A i \in 1 .. n : kept[n][i] = list[i]
           Proved == {n \in Nat : n =< Len(list) => Same(n)}
<1>2. 0 \in Proved
  <2>1. Same(0)  BY <1>1
  <2> QED  BY <2>1
<1>3. ASSUME NEW n \in Nat, n \in Proved PROVE n + 1 \in Proved
  <2> SUFFICES ASSUME n + 1 =< Len(list) PROVE Same(n + 1)
    <3> HIDE DEF Same
    <3> QED  OBVIOUS
  <2>1. n + 1 \in 1 .. Len(list) /\ list[n + 1] \in S /\ n + 1 - 1 = n /\ Len(list) \in Nat
    OBVIOUS
  <2>2. Same(n)  BY <1>3, <2>1
  <2>3. kept[n + 1] = IF list[n + 1] \in T THEN Append(kept[n], list[n + 1]) ELSE kept[n]
    BY <1>1, <2>1
  <2>4. list[n + 1] \in T  BY <2>1
  <2>5. kept[n + 1] = Append(kept[n], list[n + 1])  BY <2>3, <2>4
  <2> QED  BY <2>1, <2>2, <2>5
<1>4. Len(list) \in Nat  OBVIOUS
<1>5. Same(Len(list))
  <2>1. Len(list) \in Proved
    <3> HIDE DEF Proved
    <3> QED  BY <1>2, <1>3, <1>4, Induct
  <2> HIDE DEF Same
  <2> QED  BY <1>4, <2>1
<1> QED  BY <1>1, <1>5, SeqEqual
-----------------------------------------------------------------------------
(* The inductive invariant.                                                *)
Registered == /\ registry \in [Seed -> Seq(Attestation)]
              /\ IsFiniteSet(Slots)
              /\ Size =< MaxEntries
              /\ clock \in 1 .. MaxTime
              /\ pruned \in 0 .. MaxTime
FiledUnderSeed == \A s \in Seed : \A a \in Entries(s) : a.seed = s
Answered == /\ answer.asked \in Branch \union {NoSeed}
            /\ answer.status \in Status
            /\ answer.branch \in Branch
            /\ answer.matched \subseteq Attestation
Attested == \A a \in answer.matched :
              a.expires = 0 \/ pruned =< a.expires => a \in Entries(a.seed)

Inv == /\ seeds \subseteq Seed
       /\ Registered
       /\ FiledUnderSeed
       /\ Answered
       /\ Attested
       /\ AmbiguousIfEmptySeed

LEMMA EntriesTyped ==
  ASSUME registry \in [Seed -> Seq(Attestation)], NEW s \in Seed
  PROVE  /\ registry[s] \in Seq(Attestation)
         /\ Entries(s) \subseteq Attestation
<1>1. registry[s] \in Seq(Attestation)  OBVIOUS
<1>2. \A i \in DOMAIN registry[s] : registry[s][i] \in Attestation  BY <1>1
<1> QED  BY <1>1, <1>2 DEF Entries

(* What a prune leaves of the list of a seed.                              *)
LEMMA DevicesForSeedProperties ==
  ASSUME registry \in [Seed -> Seq(Attestation)], NEW s \in Seed
  PROVE  /\ DevicesForSeed(s) \in Seq(Attestation)
         /\ Len(DevicesForSeed(s)) =< Len(registry[s])
         /\ {DevicesForSeed(s)[i] : i \in DOMAIN DevicesForSeed(s)}
              = {a \in Entries(s) : ~Expired(a)}
<1>1. registry[s] \in Seq(Attestation) /\ Entries(s) \subseteq Attestation  BY EntriesTyped
<1>2. PICK L : L = DevicesForSeed(s) /\ L = Among(registry[s], Unexpired)  BY DEF DevicesForSeed
<1>3. L \in Seq(Attestation) /\ Len(L) =< Len(registry[s])  BY <1>1, <1>2, AmongProperties
<1>4. \A i \in DOMAIN L : L[i] \in Unexpired /\ \E j \in DOMAIN registry[s] : registry[s][j] = L[i]
  BY <1>1, <1>2, AmongProperties
<1>5. \A j \in DOMAIN registry[s] : registry[s][j] \in Unexpired
                                    => \E i \in DOMAIN L : L[i] = registry[s][j]
  BY <1>1, <1>2, AmongProperties
<1>6. ASSUME NEW i \in DOMAIN L PROVE L[i] \in Entries(s) /\ ~Expired(L[i])
  BY <1>4 DEF Entries, Unexpired
<1>7. ASSUME NEW a \in Entries(s), ~Expired(a) PROVE \E i \in DOMAIN L : L[i] = a
  <2>1. PICK j \in DOMAIN registry[s] : registry[s][j] = a  BY DEF Entries
  <2>2. a \in Unexpired  BY <1>1, <1>7 DEF Unexpired
  <2> QED  BY <1>5, <2>1, <2>2
<1>8. {L[i] : i \in DOMAIN L} = {a \in Entries(s) : ~Expired(a)}  BY <1>6, <1>7
<1> QED  BY <1>2, <1>3, <1>8

(* A match is found under the seed it is attested for, so that only the    *)
(* empty seed, which does not restrict the search, can differ from it.     *)
LEMMA AnswerIsTrue ==
  ASSUME Inv, NEW c \in Candidate, NEW b \in Branch \union {NoSeed}, NEW r \in Answers(c, b)
  PROVE  /\ r.asked = b
         /\ r.status \in Status
         /\ r.branch \in Branch
         /\ r.matched \subseteq Attestation
         /\ \A a \in r.matched : a \in Entries(a.seed)
         /\ r.status = "ambiguous" <=> b = EmptySeed /\ \E a \in r.matched : a.seed # EmptySeed
         /\ r.status = "matched" => \E a \in r.matched : a.seed = r.branch /\ Names(a, r.candidate)
<1> DEFINE S == IF b \in {NoSeed, EmptySeed} THEN seeds ELSE {b}
           named == IF b = NoSeed THEN EmptySeed ELSE b
           ambiguous == b # NoSeed /\ \E a \in Matches(c, S) : a.seed # b
<1>1. S \subseteq Seed /\ named \in Branch  BY DEF Inv, Branch
<1>2. PICK found : found = Matches(c, S)  OBVIOUS
<1>3. ASSUME NEW a \in found
      PROVE  /\ a \in Attestation /\ a.seed \in S
             /\ a \in Entries(a.seed) /\ Names(a, c)
  <2>1. PICK s \in S : a \in Entries(s)  BY <1>2, <1>3 DEF Matches
  <2>2. a.seed = s /\ a \in Attestation
    BY <1>1, <2>1, EntriesTyped DEF Inv, Registered, FiledUnderSeed
  <2>3. Names(a, c)  BY <1>2, <1>3 DEF Matches
  <2> QED  BY <2>1, <2>2, <2>3
<1>4. ambiguous <=> b = EmptySeed /\ \E a \in found : a.seed # EmptySeed
  <2>1. CASE b \in {NoSeed, EmptySeed}  BY <1>2, <2>1, SeedAssumption
  <2>2. CASE b \notin {NoSeed, EmptySeed}
    <3>1. \A a \in found : a.seed = b  BY <1>3, <2>2
    <3> QED  BY <1>2, <2>2, <3>1
  <2> QED  BY <2>1, <2>2
<1>5. \/ ambiguous /\ r = Answer(b, "ambiguous", named, c, found)
      \/ ~ambiguous /\ found = {} /\ r = Answer(b, "unmatched", named, c, {})
      \/ ~ambiguous /\ \E a \in found : r = Answer(b, "matched", a.seed, c, found)
  BY <1>2 DEF Answers
<1> HIDE DEF ambiguous
<1>6. CASE ambiguous /\ r = Answer(b, "ambiguous", named, c, found)
  <2>1. /\ r.asked = b /\ r.status = "ambiguous" /\ r.branch = named /\ r.matched = found
    BY <1>6 DEF Answer
  <2> QED  BY <1>1, <1>3, <1>4, <1>6, <2>1 DEF Status
<1>7. CASE ~ambiguous /\ r = Answer(b, "unmatched", named, c, {})
  <2>1. /\ r.asked = b /\ r.status = "unmatched" /\ r.branch = named /\ r.matched = {}
    BY <1>7 DEF Answer
  <2> QED  BY <1>1, <2>1 DEF Status
<1>8. ASSUME NEW a \in found, ~ambiguous, r = Answer(b, "matched", a.seed, c, found)
      PROVE  /\ r.asked = b /\ r.status = "matched" /\ r.branch = a.seed /\ r.matched = found
             /\ r.candidate = c
             /\ a.seed \in Branch
  <2>1. a.seed \in Branch  BY <1>1, <1>3 DEF Branch
  <2> QED  BY <1>8, <2>1 DEF Answer
<1>9. ASSUME NEW a \in found, ~ambiguous, r = Answer(b, "matched", a.seed, c, found)
      PROVE  /\ r.asked = b /\ r.status = "matched" /\ r.branch \in Branch /\ r.matched = found
             /\ \E d \in r.matched : d.seed = r.branch /\ Names(d, r.candidate)
  BY <1>3, <1>8, <1>9
<1> QED  BY <1>3, <1>4, <1>5, <1>6, <1>7, <1>9 DEF Status

LEMMA InvInit == Init => Inv
<1> SUFFICES ASSUME Init PROVE Inv  OBVIOUS
<1>1. \A s \in Seed : registry[s] = <<>> /\ Entries(s) = {}  BY DEF Init, Entries
<1>2. Slots = {}  BY <1>1 DEF Slots
<1>3. IsFiniteSet(Slots) /\ Size = 0  BY <1>2, FS_EmptySet DEF Size
<1>4. Registered
  <2>1. registry \in [Seed -> Seq(Attestation)]  BY DEF Init
  <2>2. clock \in 1 .. MaxTime  BY TimeAssumption DEF Init
  <2>3. pruned \in 0 .. MaxTime  BY TimeAssumption DEF Init
  <2> QED  BY <1>3, <2>1, <2>2, <2>3, TimeAssumption DEF Registered
<1>5. /\ answer.asked = NoSeed /\ answer.status = "unmatched" /\ answer.branch = EmptySeed
      /\ answer.matched = {}
  BY DEF Init, Answer
<1> QED
  BY <1>1, <1>4, <1>5 DEF Init, Inv, FiledUnderSeed, Answered, Attested, AmbiguousIfEmptySeed, Status,
                         Branch

LEMMA InvNext == Inv /\ [Next]_vars => Inv'
<1> SUFFICES ASSUME Inv, [Next]_vars PROVE Inv'  OBVIOUS
<1>1. ASSUME NEW s \in Seed, RegisterSeed(s) PROVE Inv'
  <2>1. UNCHANGED <<registry, clock, answer, pruned>> /\ seeds' \subseteq Seed
    BY <1>1 DEF RegisterSeed, Inv
  <2> QED
    BY <2>1 DEF Inv, Registered, FiledUnderSeed, Answered, Attested, AmbiguousIfEmptySeed,
                Slots, Size, Entries
<1>2. ASSUME NEW a \in Attestation, Register(a) PROVE Inv'
  <2> USE DEF Filed
  <2>1. /\ registry \in [Seed -> Seq(Attestation)] /\ a.seed \in Seed
        /\ registry[a.seed] \in Seq(Attestation)
    BY DEF Inv, Registered, Attestation
  <2>2. PICK n \in Nat : n = Len(registry[a.seed]) + 1  BY <2>1
  <2>3. /\ registry'[a.seed] = Append(registry[a.seed], a)
        /\ DOMAIN registry'[a.seed] = 1 .. n
        /\ DOMAIN registry[a.seed] = 1 .. n - 1
        /\ registry'[a.seed][n] = a
        /\ \A i \in 1 .. n - 1 : registry'[a.seed][i] = registry[a.seed][i]
    <3>1. registry'[a.seed] = Append(registry[a.seed], a)  BY <1>2, <2>1 DEF Register
    <3> QED  BY <2>1, <2>2, <3>1
  <2>4. \A s \in Seed : s # a.seed => registry'[s] = registry[s]  BY <1>2 DEF Register
  <2>5. registry' \in [Seed -> Seq(Attestation)]
    <3>1. \A s \in Seed : Append(registry[s], a) \in Seq(Attestation)  BY <2>1
    <3> QED  BY <1>2, <2>1, <3>1 DEF Register
  <2>6. Entries(a.seed)' = Entries(a.seed) \union {a}  BY <2>2, <2>3 DEF Entries
  <2>7. \A s \in Seed : s # a.seed => Entries(s)' = Entries(s)  BY <2>4 DEF Entries
  <2>8. Slots' = Slots \union {<<a.seed, n>>} /\ <<a.seed, n>> \notin Slots
    <3>1. 1 .. n = (1 .. n - 1) \union {n} /\ n \notin 1 .. n - 1  BY <2>2
    <3>2. \A s \in Seed : DOMAIN registry'[s] = DOMAIN registry[s]
                                              \union (IF s = a.seed THEN {n} ELSE {})
      BY <2>3, <2>4, <3>1
    <3>3. ASSUME NEW x PROVE x \in Slots' <=> x \in Slots \/ x = <<a.seed, n>>
      BY <2>1, <3>2 DEF Slots
    <3>4. <<a.seed, n>> \notin Slots
      BY <2>3, <3>1 DEF Slots
    <3> QED  BY <3>3, <3>4
  <2>9. IsFiniteSet(Slots') /\ Size' =< MaxEntries
    <3>1. IsFiniteSet(Slots) /\ Cardinality(Slots) < MaxEntries
      BY <1>2 DEF Inv, Registered, Register, Size
    <3>2. IsFiniteSet(Slots') /\ Cardinality(Slots') = Cardinality(Slots) + 1
      BY <2>8, <3>1, FS_AddElement
    <3>3. Cardinality(Slots) \in Nat  BY <3>1, FS_CardinalityType
    <3> QED  BY <3>1, <3>2, <3>3, TimeAssumption DEF Size
  <2>10. UNCHANGED <<seeds, clock, answer, pruned>>  BY <1>2 DEF Register
  <2>11. Registered'  BY <2>5, <2>9, <2>10 DEF Inv, Registered
  <2>12. FiledUnderSeed'  BY <2>6, <2>7 DEF Inv, FiledUnderSeed
  <2>13. Attested'
    <3> SUFFICES ASSUME NEW d \in answer.matched, d.expires = 0 \/ pruned =< d.expires
        PROVE d \in Entries(d.seed)'
      BY <2>10 DEF Attested
    <3>1. d \in Entries(d.seed) /\ d.seed \in Seed
      BY DEF Inv, Attested, Answered, Attestation
    <3> QED  BY <2>6, <2>7, <3>1
  <2> QED  BY <2>10, <2>11, <2>12, <2>13 DEF Inv, Answered, AmbiguousIfEmptySeed
<1>3. ASSUME NEW c \in Candidate, NEW b \in Branch \union {NoSeed}, Attention(c, b) PROVE Inv'
  <2>1. answer' \in Answers(c, b) /\ pruned' = 0 /\ UNCHANGED <<seeds, registry, clock>>
    BY <1>3 DEF Attention
  <2>2. PICK r \in Answers(c, b) : r = answer'  BY <2>1
  <2>3. Registered' /\ FiledUnderSeed'
    BY <2>1, TimeAssumption DEF Inv, Registered, FiledUnderSeed, Slots, Size, Entries
  <2>4. Answered'  BY <2>2, AnswerIsTrue DEF Answered
  <2>5. Attested'
    <3>1. \A a \in r.matched : a \in Entries(a.seed)  BY AnswerIsTrue
    <3> QED  BY <2>1, <2>2, <3>1 DEF Attested, Entries
  <2>6. AmbiguousIfEmptySeed'
    <3>1. /\ r.asked = b
          /\ r.status = "ambiguous" <=> b = EmptySeed /\ \E a \in r.matched : a.seed # EmptySeed
          /\ r.status = "matched" => \E a \in r.matched : a.seed = r.branch /\ Names(a, r.candidate)
      BY AnswerIsTrue
    <3> QED  BY <2>2, <3>1 DEF AmbiguousIfEmptySeed
  <2> QED  BY <2>1, <2>3, <2>4, <2>5, <2>6 DEF Inv
<1>4. ASSUME PruneExpired PROVE Inv'
  <2>1. /\ registry' = [s \in Seed |-> DevicesForSeed(s)]
        /\ pruned' = IF clock > pruned THEN clock ELSE pruned
        /\ UNCHANGED <<seeds, clock, answer>>
    BY <1>4 DEF PruneExpired, Kept
  <2>2. registry \in [Seed -> Seq(Attestation)]  BY DEF Inv, Registered
  <2>3. registry' \in [Seed -> Seq(Attestation)]  BY <2>1, <2>2, DevicesForSeedProperties
  <2>4. ASSUME NEW s \in Seed
        PROVE  /\ Entries(s)' = {a \in Entries(s) : ~Expired(a)}
               /\ DOMAIN registry'[s] \subseteq DOMAIN registry[s]
    <3>1. PICK L : L = DevicesForSeed(s)  OBVIOUS
    <3>2. registry'[s] = L  BY <2>1, <3>1
    <3>3. /\ L \in Seq(Attestation) /\ Len(L) =< Len(registry[s])
          /\ {L[i] : i \in DOMAIN L} = {a \in Entries(s) : ~Expired(a)}
      BY <2>2, <3>1, DevicesForSeedProperties
    <3>4. registry[s] \in Seq(Attestation)  BY <2>2
    <3> QED  BY <3>2, <3>3, <3>4 DEF Entries
  <2>5. Slots' \subseteq Slots  BY <2>4 DEF Slots
  <2>6. IsFiniteSet(Slots') /\ Size' =< MaxEntries
    <3>1. IsFiniteSet(Slots) /\ Cardinality(Slots) =< MaxEntries  BY DEF Inv, Registered, Size
    <3>2. /\ IsFiniteSet(Slots')
          /\ Cardinality(Slots') =< Cardinality(Slots)
      BY <2>5, <3>1, FS_Subset
    <3>3. Cardinality(Slots) \in Nat /\ Cardinality(Slots') \in Nat
      BY <3>1, <3>2, FS_CardinalityType
    <3> QED  BY <3>1, <3>2, <3>3, TimeAssumption DEF Size
  <2>7. Registered'  BY <2>1, <2>3, <2>6, TimeAssumption DEF Inv, Registered
  <2>8. FiledUnderSeed'  BY <2>4 DEF Inv, FiledUnderSeed
  <2>9. Attested'
    <3> SUFFICES ASSUME NEW d \in answer.matched, d.expires = 0 \/ pruned' =< d.expires
        PROVE d \in Entries(d.seed)'
      BY <2>1 DEF Attested
    <3>1. d \in Attestation  BY DEF Inv, Answered
    <3>2. d.expires \in Nat /\ d.seed \in Seed  BY <3>1, TimeAssumption DEF Attestation
    <3>3. clock \in Nat /\ pruned \in Nat  BY TimeAssumption DEF Inv, Registered
    <3>4. d.expires = 0 \/ (pruned =< d.expires /\ clock =< d.expires)  BY <2>1, <3>2, <3>3
    <3>5. d \in Entries(d.seed)  BY <3>4 DEF Inv, Attested
    <3>6. ~Expired(d)  BY <3>2, <3>3, <3>4 DEF Expired
    <3> QED  BY <2>4, <3>2, <3>5, <3>6
  <2> QED  BY <2>1, <2>7, <2>8, <2>9 DEF Inv, Answered, AmbiguousIfEmptySeed
<1>5. ASSUME NEW time \in 1 .. MaxTime, SetClock(time) PROVE Inv'
  <2>1. clock' \in 1 .. MaxTime /\ UNCHANGED <<seeds, registry, answer, pruned>>
    BY <1>5 DEF SetClock
  <2> QED
    BY <2>1 DEF Inv, Registered, FiledUnderSeed, Answered, Attested, AmbiguousIfEmptySeed,
                Slots, Size, Entries
<1>6. CASE UNCHANGED vars
  BY <1>6 DEF vars, Inv, Registered, FiledUnderSeed, Answered, Attested, AmbiguousIfEmptySeed,
              Slots, Size, Entries
<1> QED  BY <1>1, <1>2, <1>3, <1>4, <1>5, <1>6 DEF Next

LEMMA InvAlways == Spec => []Inv
BY InvInit, InvNext, PTL DEF Spec

-----------------------------------------------------------------------------
(* The registry keeps its shape and its bound: what is filed is an         *)
(* attestation, and a prune only frees slots (brn.py:88-102, 163-173).     *)
THEOREM TypeCorrect == Spec => []TypeOK
<1>1. Inv => TypeOK  BY DEF Inv, Registered, Answered, TypeOK
<1> QED  BY <1>1, InvAlways, PTL

(* Whatever is registered, pruned or asked after attention named a device, *)
(* and wherever the clock is set, its key is authorized while its          *)
(* attestation is not past its expiry and no prune has seen it so.         *)
THEOREM MatchAuthorized == Spec => []MatchStaysValid
<1>1. Inv => MatchStaysValid
  <2> SUFFICES ASSUME Inv, NEW a \in answer.matched, a.expires = 0 \/ (clock <= a.expires /\ pruned <= a.expires)
      PROVE  Authorize(a.seed, a.key)
    BY DEF MatchStaysValid
  <2>1. a.expires \in Nat /\ clock \in Nat
    <3>1. a \in Attestation /\ clock \in 1 .. MaxTime  BY DEF Inv, Registered, Answered
    <3>2. a.expires \in Expiry  BY <3>1 DEF Attestation
    <3>3. a.expires \in Nat  BY <3>2, TimeAssumption
    <3>4. clock \in Nat  BY <3>1, TimeAssumption
    <3> QED  BY <3>3, <3>4
  <2>2. ~Expired(a)  BY <2>1 DEF Expired
  <2>3. a \in Entries(a.seed)  BY DEF Inv, Attested
  <2> QED  BY <2>2, <2>3 DEF Authorize
<1> QED  BY <1>1, InvAlways, PTL

(* Attention is ambiguous of a search under the empty seed that matched an *)
(* attestation of another, and of nothing else; a match names a seed one   *)
(* of its devices is attested for.                                         *)
THEOREM AttentionDecides == Spec => []AmbiguousIfEmptySeed
<1>1. Inv => AmbiguousIfEmptySeed  BY DEF Inv
<1> QED  BY <1>1, InvAlways, PTL

(* A prune changes no list devices_for_seed returns and no authorization.  *)
THEOREM PruneHarmless == Spec => PruneInvisible
<1> DEFINE Seen == \A s \in Seed : /\ DevicesForSeed(s)' = DevicesForSeed(s)
                                  /\ \A k \in Key : Authorize(s, k)' <=> Authorize(s, k)
           Shrunk == clock' = clock /\ \A s \in Seed : Len(registry'[s]) <= Len(registry[s])
<1>1. ASSUME Inv, [Next]_vars, Shrunk PROVE Seen
  <2>1. ASSUME UNCHANGED <<registry, clock>> PROVE Seen
    BY <2>1 DEF DevicesForSeed, Authorize, Entries, Expired, Unexpired
  <2>2. ASSUME NEW a \in Attestation, Register(a) PROVE FALSE
    <3>1. a.seed \in Seed /\ registry[a.seed] \in Seq(Attestation)
      BY <1>1 DEF Inv, Registered, Attestation
    <3>2. registry'[a.seed] = Append(registry[a.seed], a)  BY <2>2, <3>1 DEF Register, Filed
    <3>3. Len(registry'[a.seed]) = Len(registry[a.seed]) + 1 /\ Len(registry[a.seed]) \in Nat
      BY <3>1, <3>2
    <3> QED  BY <1>1, <3>1, <3>3
  <2>3. ASSUME PruneExpired PROVE Seen
    <3>1. /\ registry' = [s \in Seed |-> DevicesForSeed(s)] /\ clock' = clock
      BY <2>3 DEF PruneExpired, Kept
    <3>2. registry \in [Seed -> Seq(Attestation)]  BY <1>1 DEF Inv, Registered
    <3>3. Unexpired' = Unexpired  BY <3>1 DEF Unexpired, Expired
    <3> SUFFICES ASSUME NEW s \in Seed
        PROVE  /\ DevicesForSeed(s)' = DevicesForSeed(s)
               /\ \A k \in Key : Authorize(s, k)' <=> Authorize(s, k)
      OBVIOUS
    <3>4. PICK L : L = DevicesForSeed(s) /\ L = registry'[s]  BY <3>1
    <3>5. /\ L \in Seq(Attestation)
          /\ {L[i] : i \in DOMAIN L} = {a \in Entries(s) : ~Expired(a)}
      BY <3>2, <3>4, DevicesForSeedProperties
    <3>6. \A i \in DOMAIN L : L[i] \in Unexpired
      BY <3>5, ElementOfSeq DEF Unexpired
    <3>7. Among(L, Unexpired) = L  BY <3>5, <3>6, AmongAll
    <3>8. DevicesForSeed(s)' = DevicesForSeed(s)  BY <3>3, <3>4, <3>7 DEF DevicesForSeed
    <3>9. Entries(s)' = {a \in Entries(s) : ~Expired(a)}  BY <3>4, <3>5 DEF Entries
    <3> QED  BY <3>1, <3>8, <3>9 DEF Authorize, Expired
  <2> QED
    BY <1>1, <2>1, <2>2, <2>3 DEF Next, RegisterSeed, Attention, SetClock, vars, Inv, Registered
<1>2. Inv /\ [Next]_vars
      => [clock' = clock /\ (\A s \in Seed : Len(registry'[s]) <= Len(registry[s]))
          => \A s \in Seed : /\ DevicesForSeed(s)' = DevicesForSeed(s)
                             /\ \A k \in Key : Authorize(s, k)' <=> Authorize(s, k)]_vars
  BY <1>1
<1> QED  BY <1>2, InvAlways, PTL DEF Spec, PruneInvisible
=============================================================================
