------------------------- MODULE AuthenticityProofs -------------------------
(***************************************************************************)
(* What canonical bytes and tags promise, for any values, keys and         *)
(* clusters and any number of formations.                                  *)
(*                                                                         *)
(* A text means what its value means, so equal texts are of values that    *)
(* mean the same; and where the keys of dicts are in the order of their    *)
(* texts, the meaning alone says in which order they are written.          *)
(*                                                                         *)
(* A tag is a mac of bytes that hold the item's text, its encoding and the *)
(* formation's: the inductive invariant reads what was so at the signing   *)
(* back out of the mac, and a tag that verifies says that the formation    *)
(* has the same bytes now.                                                 *)
(***************************************************************************)
EXTENDS Authenticity, Induction

-----------------------------------------------------------------------------
(* Values: what is so of a value because it is so of all the values it     *)
(* holds, and what the recursions of Canonical compute.                    *)

LEMMA HeldValues ==
  ASSUME NEW v \in Value
  PROVE  /\ Held(v) \subseteq Value
         /\ Depth[v] \in Nat /\ Depth[v] =< MaxDepth
         /\ \A w \in Held(v) : Depth[w] < Depth[v]
<1>1. \A w \in Held(v) : Depth[w] < Depth[v]  BY ValueAssumption
<1>2. Depth[v] \in Nat /\ Depth[v] =< MaxDepth  BY DepthAssumption
<1>3. CASE v.is \in {"list", "tuple"}
  <2>1. v.of \in Seq(Value)  BY <1>3, ValueAssumption
  <2>2. \A i \in DOMAIN v.of : v.of[i] \in Value  BY <2>1
  <2> QED  BY <1>1, <1>2, <1>3, <2>2 DEF Held
<1>4. CASE v.is = "dict"
  <2>1. v.of \in Seq(DictKey \X Value)  BY <1>4, ValueAssumption
  <2>2. \A i \in DOMAIN v.of : v.of[i][2] \in Value
    <3> HIDE DEF DictKey
    <3>1. \A i \in DOMAIN v.of : v.of[i] \in DictKey \X Value  BY <2>1
    <3> QED  BY <3>1
  <2> QED  BY <1>1, <1>2, <1>4, <2>2 DEF Held
<1>5. CASE v.is \notin {"list", "tuple", "dict"}  BY <1>2, <1>5 DEF Held
<1> QED  BY <1>3, <1>4, <1>5

(* Induction over values: what holds of a value when it holds of all it    *)
(* holds, holds of all values.                                             *)
LEMMA ByDepth ==
  ASSUME NEW S \in SUBSET Value, NEW G,
         \A v \in S : Held(v) \subseteq S,
         \A v \in S : Held(v) \subseteq G => v \in G
  PROVE  S \subseteq G
<1> DEFINE T == {n \in Nat : \A v \in S : Depth[v] < n => v \in G}
<1>1. 0 \in T  BY HeldValues
<1>2. ASSUME NEW n \in Nat, n \in T PROVE n + 1 \in T
  <2>1. ASSUME NEW v \in S, Depth[v] < n + 1 PROVE v \in G
    <3>1. ASSUME NEW w \in Held(v) PROVE w \in G
      <4>1. w \in S /\ Depth[w] < Depth[v] /\ Depth[w] \in Nat /\ Depth[v] \in Nat
        BY HeldValues
      <4>2. Depth[w] < n  BY <2>1, <4>1
      <4> QED  BY <1>2, <4>1, <4>2
    <3> QED  BY <3>1
  <2> QED  BY <2>1
<1>3. Nat \subseteq T
  <2> HIDE DEF T
  <2> QED  BY <1>1, <1>2, Induct
<1>4. ASSUME NEW v \in S PROVE v \in G
  <2>1. Depth[v] \in Nat  BY HeldValues
  <2>2. Depth[v] + 1 \in T  BY <1>3, <2>1
  <2> QED  BY <2>1, <2>2
<1> QED  BY <1>4

PartsBy(f, v) == {v} \cup UNION {f[w] : w \in Held(v)}

(* The recursions over values are well founded: the functions satisfy      *)
(* their equations.                                                        *)
LEMMA PartsStep ==
  ASSUME NEW v \in Value PROVE Parts[v] = PartsBy(Parts, v)
<1> DEFINE D(n) == {x \in Value : Depth[x] < n}
           Upto == {n \in Nat : \E f : f = [x \in D(n) |-> PartsBy(f, x)]}
<1>1. 0 \in Upto
  <2>1. D(0) = {}  BY HeldValues
  <2>2. PICK f : f = [x \in {} |-> {}]  OBVIOUS
  <2>3. f = [x \in D(0) |-> PartsBy(f, x)]  
    <3> HIDE DEF D
    <3> QED  BY <2>1, <2>2
  <2> QED  BY <2>3
<1>2. ASSUME NEW n \in Nat, n \in Upto PROVE n + 1 \in Upto
  <2>1. PICK f : f = [x \in D(n) |-> PartsBy(f, x)]  BY <1>2
  <2>2. PICK g : g = [x \in D(n + 1) |-> PartsBy(f, x)]  OBVIOUS
  <2>3. D(n) \subseteq D(n + 1) /\ \A x \in D(n + 1) : Held(x) \subseteq D(n)
    BY HeldValues
  <2> HIDE DEF D
  <2>4. \A x \in D(n) : g[x] = f[x]  BY <2>1, <2>2, <2>3
  <2>5. \A x \in D(n + 1) : PartsBy(f, x) = PartsBy(g, x)
    BY <2>3, <2>4 DEF PartsBy
  <2>6. g = [x \in D(n + 1) |-> PartsBy(g, x)]  BY <2>2, <2>5
  <2> QED  BY <2>6
<1>3. MaxDepth + 1 \in Upto
  <2> HIDE DEF Upto
  <2> QED  BY <1>1, <1>2, DepthAssumption, Induct
<1>4. D(MaxDepth + 1) = Value  BY HeldValues, DepthAssumption
<1>5. PICK f : f = [x \in Value |-> PartsBy(f, x)]
  <2> HIDE DEF D
  <2> QED  BY <1>3, <1>4
<1>6. Parts = [x \in Value |-> PartsBy(Parts, x)]
  BY <1>5, Zenon DEF Parts, PartsBy
<1> QED  BY <1>6

(* What a value is fit for, and in order by, is what all it holds is.      *)
Comparable(v) == v.is = "dict" => \A k, l \in Keys(v) : k.is = l.is
InTextOrder(v) ==
  v.is = "dict" => \A k, l \in Keys(v) : KeyBefore(k, l) => TextRank[k.of] < TextRank[l.of]

LEMMA FitHeld ==
  ASSUME NEW v \in Value
  PROVE  v \in Fit <=> v.is # "opaque" /\ Comparable(v) /\ Held(v) \subseteq Fit
<1>1. Parts[v] = {v} \cup UNION {Parts[w] : w \in Held(v)}  BY PartsStep DEF PartsBy
<1>2. Held(v) \subseteq Value  BY HeldValues
<1> QED  BY <1>1, <1>2 DEF Fit, Serialisable, Dicts, Comparable

LEMMA OrderedHeld ==
  ASSUME NEW v \in Fit
  PROVE  v \in Ordered <=> InTextOrder(v) /\ Held(v) \subseteq Ordered
<1>1. v \in Value /\ Held(v) \subseteq Fit  BY FitHeld DEF Fit
<1>2. Parts[v] = {v} \cup UNION {Parts[w] : w \in Held(v)}
  BY <1>1, PartsStep DEF PartsBy
<1>3. KeysInTextOrder(v) <=> InTextOrder(v) /\ \A w \in Held(v) : KeysInTextOrder(w)
  BY <1>2 DEF KeysInTextOrder, Dicts, InTextOrder
<1> QED  BY <1>1, <1>3 DEF Ordered

-----------------------------------------------------------------------------
(* Sorting.                                                                *)

(* A dict that has a text.                                                 *)
FitDict == {d \in Fit : d.is = "dict"}

LEMMA DictShape ==
  ASSUME NEW d \in FitDict
  PROVE  /\ Len(d.of) \in Nat /\ DOMAIN d.of = 1 .. Len(d.of)
         /\ Keys(d) \subseteq DictKey
         /\ \A i \in 1 .. Len(d.of) : d.of[i][1] \in Keys(d) /\ d.of[i][2] \in Held(d)
         /\ \A k \in Keys(d) : \E i \in 1 .. Len(d.of) : k = d.of[i][1]
         /\ \A i, j \in 1 .. Len(d.of) : d.of[i][1] = d.of[j][1] => i = j
         /\ \A k, l \in Keys(d) : k.is = l.is
<1>1. d \in Value /\ d.is = "dict"  BY DEF FitDict, Fit
<1>2. /\ d.of \in Seq(DictKey \X Value)
      /\ \A i, j \in DOMAIN d.of : d.of[i][1] = d.of[j][1] => i = j
  BY <1>1, ValueAssumption
<1>3. \A k, l \in Keys(d) : k.is = l.is  BY <1>1, FitHeld DEF FitDict, Comparable
<1> HIDE DEF DictKey
<1>4. /\ Len(d.of) \in Nat /\ DOMAIN d.of = 1 .. Len(d.of)
      /\ \A i \in 1 .. Len(d.of) : d.of[i] \in DictKey \X Value
  BY <1>2
<1>5. \A i \in 1 .. Len(d.of) : d.of[i][1] \in DictKey  BY <1>4
<1> QED  BY <1>1, <1>2, <1>3, <1>4, <1>5 DEF Keys, Held

(* Keys of one kind are ordered, and a key is known by its kind and name.  *)
LEMMA KeyOrder ==
  ASSUME NEW k \in DictKey, NEW l \in DictKey, NEW m \in DictKey,
         k.is = l.is, l.is = m.is
  PROVE  /\ ~KeyBefore(k, k)
         /\ k # l => KeyBefore(k, l) \/ KeyBefore(l, k)
         /\ KeyBefore(k, l) /\ KeyBefore(l, m) => KeyBefore(k, m)
         /\ k.of = l.of => k = l
<1>1. \A j \in DictKey : /\ j.of \in DOMAIN TextRank /\ j.of \in Nat /\ TextRank[j.of] \in Nat
                         /\ j = Number(j.of) \/ j = Spelled(j.of)
                         /\ j.is \in {"number", "string"}
                         /\ j.is = "number" <=> j = Number(j.of)
  BY TextRankAssumption DEF DictKey, Number, Spelled
<1>2. k.of = l.of => k = l  BY <1>1 DEF Number, Spelled
<1>3. TextRank[k.of] = TextRank[l.of] => k.of = l.of  BY <1>1, TextRankAssumption
<1> QED  BY <1>1, <1>2, <1>3 DEF KeyBefore

(* A key's place is the number of keys up to it, and keys are in the order *)
(* of their places.                                                        *)
LEMMA Places ==
  ASSUME NEW d \in FitDict
  PROVE  /\ \A k \in Keys(d) : Place(k, d) \in 1 .. Len(d.of)
         /\ \A k, l \in Keys(d) : KeyBefore(k, l) <=> Place(k, d) < Place(l, d)
         /\ \A k, l \in Keys(d) : Place(k, d) = Place(l, d) => k = l
         /\ Cardinality(Keys(d)) = Len(d.of) /\ IsFiniteSet(Keys(d))
<1> DEFINE N == Len(d.of)
           Below(k) == {l \in Keys(d) : KeyBefore(l, k)}
<1>1. N \in Nat /\ Cardinality(Keys(d)) = N /\ IsFiniteSet(Keys(d))
  <2>1. PICK f : f = [i \in 1 .. N |-> d.of[i][1]]  OBVIOUS
  <2>2. f \in Bijection(1 .. N, Keys(d))
    <3>1. \A i \in 1 .. N : f[i] \in Keys(d)  BY <2>1, DictShape
    <3>2. f \in [1 .. N -> Keys(d)]  BY <2>1, <3>1
    <3>3. \A i, j \in 1 .. N : f[i] = f[j] => i = j  BY <2>1, DictShape
    <3>4. \A k \in Keys(d) : \E i \in 1 .. N : f[i] = k  BY <2>1, DictShape
    <3>5. f \in Injection(1 .. N, Keys(d))  BY <3>2, <3>3 DEF Injection, IsInjective
    <3>6. f \in Surjection(1 .. N, Keys(d))  BY <3>2, <3>4 DEF Surjection
    <3> QED  BY <3>5, <3>6 DEF Bijection
  <2>3. ExistsBijection(1 .. N, Keys(d))  BY <2>2 DEF ExistsBijection
  <2> QED  BY <2>3, DictShape, FS_CountingElements, FS_NatBijection
<1>2. ASSUME NEW k \in Keys(d)
      PROVE  IsFiniteSet(Below(k)) /\ Cardinality(Below(k)) \in Nat /\ Cardinality(Below(k)) < N
  <2>1. IsFiniteSet(Below(k)) /\ Cardinality(Below(k)) =< N
    BY <1>1, FS_Subset
  <2>2. Cardinality(Below(k)) \in Nat  BY <2>1, FS_CardinalityType
  <2>3. k \notin Below(k)  BY DictShape, KeyOrder
  <2>4. Below(k) # Keys(d)  BY <2>3
  <2>5. Below(k) \in SUBSET Keys(d)  OBVIOUS
  <2> HIDE DEF Below
  <2>6. Cardinality(Below(k)) # N  BY <1>1, <2>4, <2>5, FS_Subset
  <2> QED  BY <1>1, <2>1, <2>2, <2>6
<1>3. ASSUME NEW k \in Keys(d), NEW l \in Keys(d), KeyBefore(k, l)
      PROVE  Cardinality(Below(k)) < Cardinality(Below(l))
  <2>1. \A m \in Keys(d) : KeyBefore(m, k) => KeyBefore(m, l)
    BY <1>3, DictShape, KeyOrder
  <2>2. Below(k) \in SUBSET Below(l)  BY <2>1
  <2>3. k \in Below(l) /\ k \notin Below(k)  BY <1>3, DictShape, KeyOrder
  <2>4. IsFiniteSet(Below(l)) /\ Cardinality(Below(l)) \in Nat /\ Cardinality(Below(k)) \in Nat
    BY <1>2
  <2> HIDE DEF Below
  <2> QED  BY <2>2, <2>3, <2>4, FS_Subset
<1>4. \A k \in Keys(d) : Place(k, d) = Cardinality(Below(k)) + 1  BY DEF Place
<1>5. \A k, l \in Keys(d) : k = l \/ KeyBefore(k, l) \/ KeyBefore(l, k)
  BY DictShape, KeyOrder
<1> HIDE DEF Below
<1>6. \A k \in Keys(d) : Place(k, d) \in 1 .. N  BY <1>1, <1>2, <1>4
<1>7. \A k, l \in Keys(d) : KeyBefore(k, l) => Place(k, d) < Place(l, d)
  BY <1>2, <1>3, <1>4
<1>8. \A k, l \in Keys(d) : Place(k, d) = Place(l, d) => k = l  BY <1>5, <1>6, <1>7
<1>9. \A k, l \in Keys(d) : Place(k, d) < Place(l, d) => KeyBefore(k, l)
  BY <1>5, <1>6, <1>7
<1> QED  BY <1>1, <1>6, <1>7, <1>8, <1>9

(* Every place is some key's, so sorting keeps every entry, in that order. *)
LEMMA SortedPlaces ==
  ASSUME NEW d \in FitDict
  PROVE  /\ DOMAIN Sorted(d) = 1 .. Len(d.of)
         /\ \A n \in 1 .. Len(d.of) : \E i \in 1 .. Len(d.of) :
              Place(d.of[i][1], d) = n /\ Sorted(d)[n] = d.of[i]
         /\ \A i \in 1 .. Len(d.of) : Sorted(d)[Place(d.of[i][1], d)] = d.of[i]
<1> DEFINE N == Len(d.of)
           P(i) == Place(d.of[i][1], d)
<1>1. N \in Nat /\ DOMAIN d.of = 1 .. N  BY DictShape
<1>2. \A i \in 1 .. N : P(i) \in 1 .. N  BY DictShape, Places
<1>3. \A i, j \in 1 .. N : P(i) = P(j) => i = j  BY DictShape, Places
<1>4. Sorted(d) = [n \in 1 .. N |-> d.of[CHOOSE i \in 1 .. N : P(i) = n]]
  BY <1>1 DEF Sorted
<1> HIDE DEF P
<1>5. \A n \in 1 .. N : \E i \in 1 .. N : P(i) = n
  <2>1. PICK f : f = [i \in 1 .. N |-> P(i)]  OBVIOUS
  <2>2. f \in Injection(1 .. N, 1 .. N)
    BY <1>2, <1>3, <2>1 DEF Injection, IsInjective
  <2>3. IsFiniteSet(1 .. N)  BY <1>1, FS_Interval
  <2>4. f \in Surjection(1 .. N, 1 .. N)  BY <2>2, <2>3, FS_Injection
  <2> QED  BY <2>1, <2>4 DEF Surjection
<1>6. \A n \in 1 .. N : /\ (CHOOSE i \in 1 .. N : P(i) = n) \in 1 .. N
                        /\ P(CHOOSE i \in 1 .. N : P(i) = n) = n
  BY <1>5
<1>7. \A n \in 1 .. N : \E i \in 1 .. N : P(i) = n /\ Sorted(d)[n] = d.of[i]
  BY <1>4, <1>6
<1>8. \A i \in 1 .. N : Sorted(d)[P(i)] = d.of[i]  BY <1>2, <1>3, <1>7
<1>9. DOMAIN Sorted(d) = 1 .. N  BY <1>4
<1> QED  BY <1>7, <1>8, <1>9 DEF P

-----------------------------------------------------------------------------
(* Texts and meanings.                                                     *)

TextBy(f, v) ==
  LET sorted == Sorted(v)
  IN  CASE v.is \in {"list", "tuple"} -> List([i \in DOMAIN v.of |-> f[v.of[i]]])
        [] v.is = "dict" ->
             Dict([n \in DOMAIN v.of |-> <<Spelled(sorted[n][1].of), f[sorted[n][2]]>>])
        [] OTHER -> v

MeaningBy(f, v) ==
  CASE v.is \in {"list", "tuple"} -> List([i \in DOMAIN v.of |-> f[v.of[i]]])
    [] v.is = "dict" -> Dict({<<v.of[i][1].of, f[v.of[i][2]]>> : i \in DOMAIN v.of})
    [] OTHER -> v

(* Both depend on those of the values held, and on nothing else.           *)
LEMMA TextOfHeld ==
  ASSUME NEW v \in Fit, NEW f, NEW g, \A w \in Held(v) : f[w] = g[w]
  PROVE  TextBy(f, v) = TextBy(g, v)
<1>1. CASE v.is \in {"list", "tuple"}
  <2>1. \A i \in DOMAIN v.of : f[v.of[i]] = g[v.of[i]]  BY <1>1 DEF Held
  <2>2. [i \in DOMAIN v.of |-> f[v.of[i]]] = [i \in DOMAIN v.of |-> g[v.of[i]]]  BY <2>1
  <2> QED  BY <1>1, <2>2 DEF TextBy
<1>2. CASE v.is = "dict"
  <2>1. v \in FitDict  BY <1>2 DEF FitDict
  <2>2. \A n \in DOMAIN v.of : Sorted(v)[n][2] \in Held(v)
    <3>1. \A i \in 1 .. Len(v.of) : v.of[i][2] \in Held(v)  BY <2>1, DictShape
    <3>2. \A n \in 1 .. Len(v.of) : \E i \in 1 .. Len(v.of) : Sorted(v)[n] = v.of[i]
      BY <2>1, SortedPlaces
    <3>3. DOMAIN v.of = 1 .. Len(v.of)  BY <2>1, DictShape
    <3> QED  BY <3>1, <3>2, <3>3
  <2>3. \A n \in DOMAIN v.of : f[Sorted(v)[n][2]] = g[Sorted(v)[n][2]]  BY <2>2
  <2>4. [n \in DOMAIN v.of |-> <<Spelled(Sorted(v)[n][1].of), f[Sorted(v)[n][2]]>>]
          = [n \in DOMAIN v.of |-> <<Spelled(Sorted(v)[n][1].of), g[Sorted(v)[n][2]]>>]
    BY <2>3
  <2> QED  BY <1>2, <2>4 DEF TextBy
<1>3. CASE v.is \notin {"list", "tuple", "dict"}  BY <1>3 DEF TextBy
<1> QED  BY <1>1, <1>2, <1>3

LEMMA MeaningOfHeld ==
  ASSUME NEW v \in Value, NEW f, NEW g, \A w \in Held(v) : f[w] = g[w]
  PROVE  MeaningBy(f, v) = MeaningBy(g, v)
<1>1. CASE v.is \in {"list", "tuple"}
  <2>1. \A i \in DOMAIN v.of : f[v.of[i]] = g[v.of[i]]  BY <1>1 DEF Held
  <2>2. [i \in DOMAIN v.of |-> f[v.of[i]]] = [i \in DOMAIN v.of |-> g[v.of[i]]]  BY <2>1
  <2> QED  BY <1>1, <2>2 DEF MeaningBy
<1>2. CASE v.is = "dict"
  <2>1. \A i \in DOMAIN v.of : f[v.of[i][2]] = g[v.of[i][2]]  BY <1>2 DEF Held
  <2>2. {<<v.of[i][1].of, f[v.of[i][2]]>> : i \in DOMAIN v.of}
          = {<<v.of[i][1].of, g[v.of[i][2]]>> : i \in DOMAIN v.of}  BY <2>1
  <2> QED  BY <1>2, <2>2 DEF MeaningBy
<1>3. CASE v.is \notin {"list", "tuple", "dict"}  BY <1>3 DEF MeaningBy
<1> QED  BY <1>1, <1>2, <1>3

LEMMA TextStep ==
  ASSUME NEW v \in Fit PROVE Text[v] = TextBy(Text, v)
<1> DEFINE D(n) == {x \in Fit : Depth[x] < n}
           Upto == {n \in Nat : \E f : f = [x \in D(n) |-> TextBy(f, x)]}
<1>0. \A x \in Fit : x \in Value /\ Held(x) \subseteq Fit  BY FitHeld DEF Fit
<1>1. 0 \in Upto
  <2>1. D(0) = {}  BY <1>0, HeldValues
  <2>2. PICK f : f = [x \in {} |-> {}]  OBVIOUS
  <2>3. f = [x \in D(0) |-> TextBy(f, x)]
    <3> HIDE DEF D
    <3> QED  BY <2>1, <2>2
  <2> QED  BY <2>3
<1>2. ASSUME NEW n \in Nat, n \in Upto PROVE n + 1 \in Upto
  <2>1. PICK f : f = [x \in D(n) |-> TextBy(f, x)]  BY <1>2
  <2>2. PICK g : g = [x \in D(n + 1) |-> TextBy(f, x)]  OBVIOUS
  <2>3. /\ D(n) \subseteq D(n + 1) /\ D(n + 1) \subseteq Fit
        /\ \A x \in D(n + 1) : Held(x) \subseteq D(n)
    BY <1>0, HeldValues
  <2> HIDE DEF D
  <2>4. \A x \in D(n) : g[x] = f[x]  BY <2>1, <2>2, <2>3
  <2>5. \A x \in D(n + 1) : TextBy(f, x) = TextBy(g, x)
    BY <2>3, <2>4, TextOfHeld
  <2>6. g = [x \in D(n + 1) |-> TextBy(g, x)]  BY <2>2, <2>5
  <2> QED  BY <2>6
<1>3. MaxDepth + 1 \in Upto
  <2> HIDE DEF Upto
  <2> QED  BY <1>1, <1>2, DepthAssumption, Induct
<1>4. D(MaxDepth + 1) = Fit  BY <1>0, HeldValues, DepthAssumption
<1>5. PICK f : f = [x \in Fit |-> TextBy(f, x)]
  <2> HIDE DEF D
  <2> QED  BY <1>3, <1>4
<1>6. Text = [x \in Fit |-> TextBy(Text, x)]
  BY <1>5, Zenon DEF Text, TextBy
<1> QED  BY <1>6

LEMMA MeaningStep ==
  ASSUME NEW v \in Value PROVE Meaning[v] = MeaningBy(Meaning, v)
<1> DEFINE D(n) == {x \in Value : Depth[x] < n}
           Upto == {n \in Nat : \E f : f = [x \in D(n) |-> MeaningBy(f, x)]}
<1>1. 0 \in Upto
  <2>1. D(0) = {}  BY HeldValues
  <2>2. PICK f : f = [x \in {} |-> {}]  OBVIOUS
  <2>3. f = [x \in D(0) |-> MeaningBy(f, x)]
    <3> HIDE DEF D
    <3> QED  BY <2>1, <2>2
  <2> QED  BY <2>3
<1>2. ASSUME NEW n \in Nat, n \in Upto PROVE n + 1 \in Upto
  <2>1. PICK f : f = [x \in D(n) |-> MeaningBy(f, x)]  BY <1>2
  <2>2. PICK g : g = [x \in D(n + 1) |-> MeaningBy(f, x)]  OBVIOUS
  <2>3. /\ D(n) \subseteq D(n + 1) /\ D(n + 1) \subseteq Value
        /\ \A x \in D(n + 1) : Held(x) \subseteq D(n)
    BY HeldValues
  <2> HIDE DEF D
  <2>4. \A x \in D(n) : g[x] = f[x]  BY <2>1, <2>2, <2>3
  <2>5. \A x \in D(n + 1) : MeaningBy(f, x) = MeaningBy(g, x)
    BY <2>3, <2>4, MeaningOfHeld
  <2>6. g = [x \in D(n + 1) |-> MeaningBy(g, x)]  BY <2>2, <2>5
  <2> QED  BY <2>6
<1>3. MaxDepth + 1 \in Upto
  <2> HIDE DEF Upto
  <2> QED  BY <1>1, <1>2, DepthAssumption, Induct
<1>4. D(MaxDepth + 1) = Value  BY HeldValues, DepthAssumption
<1>5. PICK f : f = [x \in Value |-> MeaningBy(f, x)]
  <2> HIDE DEF D
  <2> QED  BY <1>3, <1>4
<1>6. Meaning = [x \in Value |-> MeaningBy(Meaning, x)]
  BY <1>5, Zenon DEF Meaning, MeaningBy
<1> QED  BY <1>6

(* What the text of a dict is, entry by entry.                             *)
LEMMA DictText ==
  ASSUME NEW d \in FitDict
  PROVE  /\ Text[d].is = "dict"
         /\ DOMAIN Text[d].of = 1 .. Len(d.of) /\ Len(Text[d].of) = Len(d.of)
         /\ \A n \in 1 .. Len(d.of) :
              Text[d].of[n] = <<Spelled(Sorted(d)[n][1].of), Text[Sorted(d)[n][2]]>>
<1>1. d \in Fit /\ d.is = "dict"  BY DEF FitDict
<1>2. DOMAIN d.of = 1 .. Len(d.of) /\ Len(d.of) \in Nat  BY DictShape
<1>3. Text[d] =
        Dict([n \in 1 .. Len(d.of) |-> <<Spelled(Sorted(d)[n][1].of), Text[Sorted(d)[n][2]]>>])
  BY <1>1, <1>2, TextStep DEF TextBy
<1> QED  BY <1>2, <1>3 DEF Dict

LEMMA ListText ==
  ASSUME NEW v \in Fit, v.is \in {"list", "tuple"}
  PROVE  /\ Text[v].is = "list"
         /\ DOMAIN Text[v].of = DOMAIN v.of
         /\ \A i \in DOMAIN v.of : Text[v].of[i] = Text[v.of[i]] /\ v.of[i] \in Held(v)
         /\ DOMAIN v.of = 1 .. Len(v.of) /\ Len(v.of) \in Nat
<1>1. Text[v] = List([i \in DOMAIN v.of |-> Text[v.of[i]]])  BY TextStep DEF TextBy
<1>2. v.of \in Seq(Value)  BY ValueAssumption DEF Fit
<1> QED  BY <1>1, <1>2 DEF List, Held

(* A text is a value in the order of its keys, as they are its strings.    *)
LEMMA TextKind ==
  ASSUME NEW v \in Fit
  PROVE  /\ Text[v] \in Value
         /\ v.is \in {"list", "tuple"} => Text[v].is = "list"
         /\ v.is = "dict" => Text[v].is = "dict"
         /\ v.is \notin {"list", "tuple", "dict"} => Text[v] = v
         /\ Held(Text[v]) \subseteq {Text[w] : w \in Held(v)}
<1>1. Text[v] \in Value  BY ReadBackAssumption
<1>2. CASE v.is \in {"list", "tuple"}
  <2>1. Text[v].is = "list"  BY <1>2, ListText
  <2>2. Held(Text[v]) = {Text[v].of[i] : i \in DOMAIN Text[v].of}  BY <2>1 DEF Held
  <2>3. Held(Text[v]) \subseteq {Text[w] : w \in Held(v)}  BY <1>2, <2>2, ListText
  <2> QED  BY <1>1, <1>2, <2>1, <2>3
<1>3. CASE v.is = "dict"
  <2>0. v \in FitDict  BY <1>3 DEF FitDict
  <2>1. Text[v].is = "dict"  BY <2>0, DictText
  <2>2. Held(Text[v]) = {Text[v].of[n][2] : n \in DOMAIN Text[v].of}  BY <2>1 DEF Held
  <2>3. \A n \in 1 .. Len(v.of) : Sorted(v)[n][2] \in Held(v)
    <3>1. \A i \in 1 .. Len(v.of) : v.of[i][2] \in Held(v)  BY <2>0, DictShape
    <3>2. \A n \in 1 .. Len(v.of) : \E i \in 1 .. Len(v.of) : Sorted(v)[n] = v.of[i]
      BY <2>0, SortedPlaces
    <3> QED  BY <3>1, <3>2
  <2>4. \A n \in 1 .. Len(v.of) : Text[v].of[n][2] = Text[Sorted(v)[n][2]]
    BY <2>0, DictText
  <2>5. DOMAIN Text[v].of = 1 .. Len(v.of)  BY <2>0, DictText
  <2>6. Held(Text[v]) \subseteq {Text[w] : w \in Held(v)}  BY <2>2, <2>3, <2>4, <2>5
  <2> QED  BY <1>1, <1>3, <2>1, <2>6
<1>4. CASE v.is \notin {"list", "tuple", "dict"}
  <2>1. Text[v] = v  BY <1>4, TextStep DEF TextBy
  <2> QED  BY <1>1, <1>4, <2>1 DEF Held
<1> QED  BY <1>2, <1>3, <1>4

LEMMA TextOrdered == \A v \in Fit : Text[v] \in Ordered
<1> DEFINE G == {v \in Fit : Text[v] \in Ordered}
<1>1. ASSUME NEW v \in Fit, Held(v) \subseteq G PROVE v \in G
  <2>1. Held(Text[v]) \subseteq Ordered  BY <1>1, TextKind
  <2>2. Text[v].is # "opaque"
    BY TextKind, FitHeld DEF Fit
  <2>3. ASSUME Text[v].is = "dict"
        PROVE  \A k \in Keys(Text[v]) : k.is = "string"
    <3>1. v.is = "dict"  BY <2>3, TextKind
    <3>2. v \in FitDict  BY <3>1 DEF FitDict
    <3>3. ASSUME NEW n \in DOMAIN Text[v].of PROVE Text[v].of[n][1].is = "string"
      <4>1. Text[v].of[n] = <<Spelled(Sorted(v)[n][1].of), Text[Sorted(v)[n][2]]>>
        BY <3>2, DictText
      <4> QED  BY <4>1 DEF Spelled
    <3> QED  BY <3>3 DEF Keys
  <2>4. Comparable(Text[v]) /\ InTextOrder(Text[v])
    BY <2>3 DEF Comparable, InTextOrder, KeyBefore
  <2>5. Text[v] \in Fit
    BY <2>1, <2>2, <2>4, TextKind, FitHeld DEF Ordered
  <2>6. Text[v] \in Ordered  BY <2>1, <2>4, <2>5, OrderedHeld
  <2> QED  BY <2>6
<1>2. \A v \in Fit : v \in Value /\ Held(v) \subseteq Fit  BY FitHeld DEF Fit
<1>3. Fit \subseteq G
  <2> HIDE DEF G
  <2> QED  BY <1>1, <1>2, ByDepth
<1> QED  BY <1>3

(* What a text means is what the value means.                              *)
LEMMA TextMeans == \A v \in Fit : Meaning[Text[v]] = Meaning[v]
<1> DEFINE G == {v \in Fit : Meaning[Text[v]] = Meaning[v]}
<1>1. ASSUME NEW v \in Fit, Held(v) \subseteq G PROVE v \in G
  <2>0. v \in Value /\ Text[v] \in Value  BY TextKind DEF Fit
  <2>1. /\ Meaning[v] = MeaningBy(Meaning, v)
        /\ Meaning[Text[v]] = MeaningBy(Meaning, Text[v])
    BY <2>0, MeaningStep
  <2>2. CASE v.is \in {"list", "tuple"}
    <3>1. Text[v].is = "list"  BY <2>2, TextKind
    <3>2. DOMAIN Text[v].of = DOMAIN v.of  BY <2>2, ListText
    <3>3. \A i \in DOMAIN v.of : Meaning[Text[v].of[i]] = Meaning[v.of[i]]
      BY <1>1, <2>2, ListText
    <3>4. [i \in DOMAIN Text[v].of |-> Meaning[Text[v].of[i]]]
            = [i \in DOMAIN v.of |-> Meaning[v.of[i]]]
      BY <3>2, <3>3
    <3> QED  BY <2>1, <2>2, <3>1, <3>4 DEF MeaningBy
  <2>3. CASE v.is = "dict"
    <3>0. v \in FitDict  BY <2>3 DEF FitDict
    <3>1. Text[v].is = "dict"  BY <2>3, TextKind
    <3> DEFINE N == Len(v.of)
               Said(t, n) == <<t.of[n][1].of, Meaning[t.of[n][2]]>>
    <3>2. DOMAIN Text[v].of = 1 .. N /\ DOMAIN v.of = 1 .. N
      BY <3>0, DictText, DictShape
    <3>3. \A i \in 1 .. N : Meaning[Text[v.of[i][2]]] = Meaning[v.of[i][2]]
      BY <1>1, <3>0, DictShape
    <3>4. \A n \in 1 .. N, i \in 1 .. N :
            Sorted(v)[n] = v.of[i] => Said(Text[v], n) = Said(v, i)
      <4> SUFFICES ASSUME NEW n \in 1 .. N, NEW i \in 1 .. N, Sorted(v)[n] = v.of[i]
                   PROVE  Said(Text[v], n) = Said(v, i)
        OBVIOUS
      <4>1. Text[v].of[n] = <<Spelled(v.of[i][1].of), Text[v.of[i][2]]>>
        BY <3>0, DictText
      <4> QED  BY <3>3, <4>1 DEF Spelled
    <3> HIDE DEF Said
    <3>5. \A n \in 1 .. N : \E i \in 1 .. N : Said(Text[v], n) = Said(v, i)
      BY <3>0, <3>4, SortedPlaces
    <3>6. \A i \in 1 .. N : \E n \in 1 .. N : Said(Text[v], n) = Said(v, i)
      <4>1. \A i \in 1 .. N : Place(v.of[i][1], v) \in 1 .. N
        BY <3>0, DictShape, Places
      <4> QED  BY <3>0, <3>4, <4>1, SortedPlaces
    <3>7. {Said(Text[v], n) : n \in 1 .. N} = {Said(v, i) : i \in 1 .. N}
      BY <3>5, <3>6
    <3> QED  BY <2>1, <2>3, <3>1, <3>2, <3>7 DEF MeaningBy, Said
  <2>4. CASE v.is \notin {"list", "tuple", "dict"}  BY <2>4, TextKind
  <2> QED  BY <2>2, <2>3, <2>4
<1>2. \A v \in Fit : v \in Value /\ Held(v) \subseteq Fit  BY FitHeld DEF Fit
<1>3. Fit \subseteq G
  <2> HIDE DEF G
  <2> QED  BY <1>1, <1>2, ByDepth
<1> QED  BY <1>3

(* The keys of a dict by their names.                                      *)
Names(A) == {k.of : k \in A}

LEMMA NamesCount ==
  ASSUME NEW d \in FitDict, NEW A \in SUBSET Keys(d)
  PROVE  Cardinality(Names(A)) = Cardinality(A)
<1>1. IsFiniteSet(A)  BY Places, FS_Subset
<1>2. PICK f : f = [k \in A |-> k.of]  OBVIOUS
<1>3. \A k, l \in A : k.of = l.of => k = l  BY DictShape, KeyOrder
<1>4. f \in Bijection(A, Names(A))
  BY <1>2, <1>3 DEF Names, Bijection, Injection, Surjection, IsInjective
<1> QED  BY <1>1, <1>4, FS_Bijection DEF ExistsBijection

(* In a dict whose keys are in the order of their texts, the place of a    *)
(* key is known from the names alone.                                      *)
LEMMA PlaceByName ==
  ASSUME NEW d \in FitDict, d \in Ordered, NEW k \in Keys(d)
  PROVE  Place(k, d) =
           Cardinality({m \in Names(Keys(d)) : TextRank[m] < TextRank[k.of]}) + 1
<1> DEFINE Below == {l \in Keys(d) : KeyBefore(l, k)}
<1>1. \A l \in Keys(d) : KeyBefore(l, k) <=> TextRank[l.of] < TextRank[k.of]
  <2>1. \A l, m \in Keys(d) : KeyBefore(l, m) => TextRank[l.of] < TextRank[m.of]
    BY OrderedHeld DEF InTextOrder, FitDict
  <2>2. \A l \in Keys(d) : l = k \/ KeyBefore(l, k) \/ KeyBefore(k, l)
    BY DictShape, KeyOrder
  <2>3. \A l \in Keys(d) : TextRank[l.of] \in Nat
    BY DictShape, TextRankAssumption DEF DictKey, Number, Spelled
  <2> QED  BY <2>1, <2>2, <2>3
<1>2. {m \in Names(Keys(d)) : TextRank[m] < TextRank[k.of]} = Names(Below)
  BY <1>1 DEF Names
<1>3. Cardinality(Names(Below)) = Cardinality(Below)  BY NamesCount
<1> QED  BY <1>2, <1>3 DEF Place

(* Two dicts of one meaning have the same names for their keys.            *)
LEMMA SameNames ==
  ASSUME NEW v \in FitDict, NEW w \in FitDict, SameMeaning(v, w)
  PROVE  /\ Names(Keys(v)) = Names(Keys(w)) /\ Len(v.of) = Len(w.of)
         /\ \A i \in 1 .. Len(v.of) : \E j \in 1 .. Len(w.of) :
              /\ v.of[i][1].of = w.of[j][1].of
              /\ SameMeaning(v.of[i][2], w.of[j][2])
<1> DEFINE Said(d, i) == <<d.of[i][1].of, Meaning[d.of[i][2]]>>
<1>1. ASSUME NEW d \in FitDict
      PROVE  /\ Meaning[d] = Dict({Said(d, i) : i \in 1 .. Len(d.of)})
             /\ Names(Keys(d)) = {d.of[i][1].of : i \in 1 .. Len(d.of)}
             /\ Len(d.of) = Cardinality(Names(Keys(d)))
  <2>1. d \in Value /\ d.is = "dict" /\ DOMAIN d.of = 1 .. Len(d.of)
    BY DictShape DEF FitDict, Fit
  <2>2. Meaning[d] = Dict({Said(d, i) : i \in 1 .. Len(d.of)})
    BY <2>1, MeaningStep DEF MeaningBy
  <2>3. Names(Keys(d)) = {d.of[i][1].of : i \in 1 .. Len(d.of)}
    BY <2>1 DEF Names, Keys
  <2> QED  BY <2>2, <2>3, Places, NamesCount
<1>2. {Said(v, i) : i \in 1 .. Len(v.of)} = {Said(w, j) : j \in 1 .. Len(w.of)}
  <2>1. Meaning[v] = Meaning[w]  BY DEF SameMeaning
  <2> HIDE DEF Said
  <2>2. \A A, B : Dict(A) = Dict(B) => A = B  BY DEF Dict
  <2> QED  BY <1>1, <2>1, <2>2
<1>3. \A i \in 1 .. Len(v.of) : \E j \in 1 .. Len(w.of) : Said(v, i) = Said(w, j)
  BY <1>2
<1>4. \A j \in 1 .. Len(w.of) : \E i \in 1 .. Len(v.of) : Said(v, i) = Said(w, j)
  BY <1>2
<1>5. Names(Keys(v)) = Names(Keys(w))
  <2>1. \A i \in 1 .. Len(v.of), j \in 1 .. Len(w.of) :
          Said(v, i) = Said(w, j) => v.of[i][1].of = w.of[j][1].of
    OBVIOUS
  <2> HIDE DEF Said
  <2>2. \A i \in 1 .. Len(v.of) : \E j \in 1 .. Len(w.of) : v.of[i][1].of = w.of[j][1].of
    BY <1>3, <2>1
  <2>3. \A j \in 1 .. Len(w.of) : \E i \in 1 .. Len(v.of) : v.of[i][1].of = w.of[j][1].of
    BY <1>4, <2>1
  <2>4. {v.of[i][1].of : i \in 1 .. Len(v.of)} = {w.of[j][1].of : j \in 1 .. Len(w.of)}
    <3> DEFINE Name(d, i) == d.of[i][1].of
    <3>1. /\ \A i \in 1 .. Len(v.of) : \E j \in 1 .. Len(w.of) : Name(v, i) = Name(w, j)
          /\ \A j \in 1 .. Len(w.of) : \E i \in 1 .. Len(v.of) : Name(v, i) = Name(w, j)
      BY <2>2, <2>3
    <3> HIDE DEF Name
    <3>2. {Name(v, i) : i \in 1 .. Len(v.of)} = {Name(w, j) : j \in 1 .. Len(w.of)}
      BY <3>1
    <3> QED  BY <3>2 DEF Name
  <2> QED  BY <1>1, <2>4
<1>6. \A i \in 1 .. Len(v.of) : \E j \in 1 .. Len(w.of) :
        /\ v.of[i][1].of = w.of[j][1].of
        /\ SameMeaning(v.of[i][2], w.of[j][2])
  BY <1>3 DEF SameMeaning
<1> QED  BY <1>1, <1>5, <1>6

(* Values of one meaning, their keys in the order of their texts, have one *)
(* text.                                                                   *)
LEMMA MeaningTells ==
  \A v, w \in Ordered : SameMeaning(v, w) => Text[v] = Text[w]
<1> DEFINE G == {v \in Ordered : \A w \in Ordered : SameMeaning(v, w) => Text[v] = Text[w]}
<1>0. \A v \in Ordered : v \in Fit /\ v \in Value /\ Held(v) \subseteq Ordered
  BY OrderedHeld DEF Ordered, Fit
<1>1. ASSUME NEW v \in Ordered, Held(v) \subseteq G, NEW w \in Ordered, SameMeaning(v, w)
      PROVE  Text[v] = Text[w]
  <2>0. v \in Fit /\ w \in Fit /\ v \in Value /\ w \in Value  BY <1>0
  <2>1. /\ Meaning[v] = MeaningBy(Meaning, v) /\ Meaning[w] = MeaningBy(Meaning, w)
        /\ Text[v] = TextBy(Text, v) /\ Text[w] = TextBy(Text, w)
        /\ Meaning[v] = Meaning[w]
    BY <1>1, <2>0, MeaningStep, TextStep DEF SameMeaning
  <2>2. CASE v.is \in {"list", "tuple"}
    <3>1. Meaning[v] = List([i \in DOMAIN v.of |-> Meaning[v.of[i]]])
      BY <2>1, <2>2 DEF MeaningBy
    <3>2. w.is \in {"list", "tuple"}
      BY <2>1, <2>2, <3>1 DEF MeaningBy, List, Dict
    <3>3. Meaning[w] = List([i \in DOMAIN w.of |-> Meaning[w.of[i]]])
      BY <2>1, <3>2 DEF MeaningBy
    <3>4. [i \in DOMAIN v.of |-> Meaning[v.of[i]]] = [i \in DOMAIN w.of |-> Meaning[w.of[i]]]
      BY <2>1, <3>1, <3>3 DEF List
    <3>5. DOMAIN v.of = DOMAIN w.of /\ \A i \in DOMAIN v.of : SameMeaning(v.of[i], w.of[i])
      BY <3>4 DEF SameMeaning
    <3>6. \A i \in DOMAIN v.of : v.of[i] \in G /\ w.of[i] \in Ordered
      BY <1>0, <1>1, <2>2, <3>2, <3>5 DEF Held
    <3>7. \A i \in DOMAIN v.of : Text[v.of[i]] = Text[w.of[i]]  BY <3>5, <3>6
    <3>8. [i \in DOMAIN v.of |-> Text[v.of[i]]] = [i \in DOMAIN w.of |-> Text[w.of[i]]]
      BY <3>5, <3>7
    <3> QED  BY <2>1, <2>2, <3>2, <3>8 DEF TextBy
  <2>3. CASE v.is = "dict"
    <3>1. w.is = "dict"  BY <2>1, <2>3 DEF MeaningBy, List, Dict
    <3>2. v \in FitDict /\ w \in FitDict  BY <2>0, <2>3, <3>1 DEF FitDict
    <3> DEFINE N == Len(v.of)
               Line(t, n) == <<Spelled(Sorted(t)[n][1].of), Text[Sorted(t)[n][2]]>>
    <3>3. Len(w.of) = N /\ Names(Keys(v)) = Names(Keys(w))
      BY <1>1, <3>2, SameNames
    <3>4. ASSUME NEW n \in 1 .. N PROVE Line(v, n) = Line(w, n)
      <4>1. PICK i \in 1 .. N : Place(v.of[i][1], v) = n /\ Sorted(v)[n] = v.of[i]
        BY <3>2, SortedPlaces
      <4>2. PICK j \in 1 .. N : /\ v.of[i][1].of = w.of[j][1].of
                                /\ SameMeaning(v.of[i][2], w.of[j][2])
        BY <1>1, <3>2, <3>3, SameNames
      <4>3. /\ v.of[i][1] \in Keys(v) /\ v.of[i][2] \in Held(v)
            /\ w.of[j][1] \in Keys(w) /\ w.of[j][2] \in Held(w)
        BY <3>2, <3>3, DictShape
      <4>4. Place(v.of[i][1], v) = Place(w.of[j][1], w)
        BY <3>2, <3>3, <4>2, <4>3, PlaceByName
      <4>5. Sorted(w)[n] = w.of[j]  BY <3>2, <3>3, <4>1, <4>4, SortedPlaces
      <4>6. Text[v.of[i][2]] = Text[w.of[j][2]]  BY <1>0, <1>1, <4>2, <4>3
      <4> QED  BY <4>1, <4>2, <4>5, <4>6
    <3>5. DOMAIN v.of = 1 .. N /\ DOMAIN w.of = 1 .. N  BY <3>2, <3>3, DictShape
    <3>6. /\ Text[v] = Dict([n \in 1 .. N |-> Line(v, n)])
          /\ Text[w] = Dict([n \in 1 .. N |-> Line(w, n)])
      BY <2>1, <2>3, <3>1, <3>5 DEF TextBy
    <3> HIDE DEF Line
    <3> QED  BY <3>4, <3>6
  <2>4. CASE v.is \notin {"list", "tuple", "dict"}
    <3>1. Meaning[v] = v /\ Text[v] = v  BY <2>1, <2>4 DEF MeaningBy, TextBy
    <3>2. w.is \notin {"list", "tuple", "dict"}
      BY <2>1, <2>4, <3>1 DEF MeaningBy, List, Dict
    <3> QED  BY <2>1, <3>1, <3>2 DEF MeaningBy, TextBy
  <2> QED  BY <2>2, <2>3, <2>4
<1>2. Ordered \subseteq G
  <2>1. \A v \in Ordered : Held(v) \subseteq G => v \in G  BY <1>1
  <2>2. Ordered \in SUBSET Value  BY <1>0
  <2> HIDE DEF G
  <2> QED  BY <1>0, <2>1, <2>2, ByDepth
<1> QED  BY <1>2

(* Read back and written again, a text is the same only if the keys were   *)
(* in the order of their texts already.                                    *)
LEMMA ReadBackOrdered ==
  \A v \in Fit : Text[Text[v]] = Text[v] => v \in Ordered
<1> DEFINE G == {v \in Fit : Text[Text[v]] = Text[v] => v \in Ordered}
<1>0. \A v \in Fit : v \in Value /\ Held(v) \subseteq Fit  BY FitHeld DEF Fit
<1>1. ASSUME NEW v \in Fit, Held(v) \subseteq G, Text[Text[v]] = Text[v]
      PROVE  v \in Ordered
  <2> DEFINE T == Text[v]
  <2>0. T \in Fit /\ Text[T] = T  BY <1>1, TextOrdered DEF Ordered
  <2>1. CASE v.is \in {"list", "tuple"}
    <3>1. T.is = "list" /\ DOMAIN T.of = DOMAIN v.of  BY <2>1, ListText
    <3>2. \A i \in DOMAIN v.of : T.of[i] = Text[v.of[i]]  BY <2>1, ListText
    <3>3. \A i \in DOMAIN v.of : Text[T].of[i] = Text[T.of[i]]
      <4> HIDE DEF T
      <4> QED  BY <2>0, <3>1, ListText
    <3>4. \A i \in DOMAIN v.of : Text[Text[v.of[i]]] = Text[v.of[i]]
      <4> HIDE DEF T
      <4> QED  BY <2>0, <3>2, <3>3
    <3>5. \A i \in DOMAIN v.of : v.of[i] \in Held(v)  BY <2>1, ListText
    <3>6. \A i \in DOMAIN v.of : v.of[i] \in Ordered  BY <1>1, <3>4, <3>5
    <3>7. Held(v) \subseteq Ordered  BY <2>1, <3>6 DEF Held
    <3> QED  BY <2>1, <3>7, OrderedHeld DEF InTextOrder
  <2>2. CASE v.is = "dict"
    <3> DEFINE N == Len(v.of)
    <3>1. v \in FitDict  BY <2>2 DEF FitDict
    <3>2. T \in FitDict /\ DOMAIN T.of = 1 .. N /\ Len(T.of) = N
      BY <2>0, <3>1, DictText DEF FitDict
    <3>3. \A n \in 1 .. N : T.of[n] = <<Spelled(Sorted(v)[n][1].of), Text[Sorted(v)[n][2]]>>
      BY <3>1, DictText
    <3>4. \A n \in 1 .. N : Text[T].of[n] = <<Spelled(Sorted(T)[n][1].of), Text[Sorted(T)[n][2]]>>
      <4> HIDE DEF T
      <4> QED  BY <3>2, DictText
    <3> HIDE DEF T
    (* So T is sorted as it stands.                                        *)
    <3>5. ASSUME NEW n \in 1 .. N
          PROVE  Sorted(T)[n] = T.of[n] /\ Place(T.of[n][1], T) = n
      <4>1. PICK m \in 1 .. N : Place(T.of[m][1], T) = n /\ Sorted(T)[n] = T.of[m]
        BY <3>2, SortedPlaces
      <4>2. T.of[n][1] = Spelled(T.of[m][1].of)  BY <2>0, <3>4, <4>1
      <4>3. T.of[m][1] = Spelled(T.of[m][1].of)
        <5>1. T.of[m][1] = Spelled(Sorted(v)[m][1].of)  BY <3>3
        <5> QED  BY <5>1 DEF Spelled
      <4>4. m = n  BY <3>2, <4>2, <4>3, DictShape
      <4> QED  BY <4>1, <4>4
    <3>6. \A n \in 1 .. N : Text[Text[Sorted(v)[n][2]]] = Text[Sorted(v)[n][2]]
      BY <2>0, <3>3, <3>4, <3>5
    <3>7. \A i \in 1 .. N : \E n \in 1 .. N :
            n = Place(v.of[i][1], v) /\ Sorted(v)[n] = v.of[i]
      <4>1. \A i \in 1 .. N : Place(v.of[i][1], v) \in 1 .. N  BY <3>1, DictShape, Places
      <4> QED  BY <3>1, <4>1, SortedPlaces
    <3>8. \A i \in 1 .. N : v.of[i][2] \in Held(v) /\ v.of[i][1] \in Keys(v)
      BY <3>1, DictShape
    <3>9. \A i \in 1 .. N : v.of[i][2] \in Ordered
      <4> SUFFICES ASSUME NEW i \in 1 .. N PROVE v.of[i][2] \in Ordered
        OBVIOUS
      <4>1. PICK n \in 1 .. N : Sorted(v)[n] = v.of[i]  BY <3>7
      <4>2. Text[Text[v.of[i][2]]] = Text[v.of[i][2]]  BY <3>6, <4>1
      <4>3. v.of[i][2] \in Held(v)  BY <3>8
      <4> QED  BY <1>1, <4>2, <4>3
    <3>10. ASSUME NEW k \in Keys(v), NEW l \in Keys(v), KeyBefore(k, l)
           PROVE  TextRank[k.of] < TextRank[l.of]
      <4>1. PICK i \in 1 .. N, j \in 1 .. N : k = v.of[i][1] /\ l = v.of[j][1]
        BY <3>1, DictShape
      <4>2. PICK m \in 1 .. N, n \in 1 .. N :
              /\ m = Place(k, v) /\ Sorted(v)[m] = v.of[i]
              /\ n = Place(l, v) /\ Sorted(v)[n] = v.of[j]
        BY <3>7, <4>1
      <4>3. m < n  BY <3>1, <3>10, <4>2, Places
      <4>4. T.of[m][1] = Spelled(k.of) /\ T.of[n][1] = Spelled(l.of)
        BY <3>3, <4>1, <4>2
      <4>5. Place(T.of[m][1], T) = m /\ Place(T.of[n][1], T) = n  BY <3>5
      <4>6. T.of[m][1] \in Keys(T) /\ T.of[n][1] \in Keys(T)  BY <3>2, DictShape
      <4>7. KeyBefore(T.of[m][1], T.of[n][1])  BY <3>2, <4>3, <4>5, <4>6, Places
      <4> QED  BY <4>4, <4>7 DEF KeyBefore, Spelled
    <3>11. DOMAIN v.of = 1 .. N  BY <3>1, DictShape
    <3>12. Held(v) \subseteq Ordered  BY <2>2, <3>9, <3>11 DEF Held
    <3> QED  BY <3>10, <3>12, OrderedHeld DEF InTextOrder
  <2>3. CASE v.is \notin {"list", "tuple", "dict"}
    BY <2>3, OrderedHeld DEF InTextOrder, Held
  <2> QED  BY <2>1, <2>2, <2>3
<1>2. Fit \subseteq G
  <2>1. \A v \in Fit : Held(v) \subseteq G => v \in G  BY <1>1
  <2>2. Fit \in SUBSET Value  BY <1>0
  <2> HIDE DEF G
  <2> QED  BY <1>0, <2>1, <2>2, ByDepth
<1> QED  BY <1>2

(* The bytes of a value that is no container quote it.                     *)
LEMMA BytesOf ==
  ASSUME NEW v \in Fit
  PROVE  /\ Container(v) => Bytes[v] = Text[v] /\ Container(Text[v]) /\ Text[v] \in Fit
         /\ ~Container(v) => Bytes[v] = Quoted(v) /\ Text[v] = v
         /\ v.is # "quoted"
<1>1. v.is # "quoted"  BY ValueAssumption DEF Fit
<1>2. Bytes[v] = IF Container(v) THEN Text[v] ELSE Quoted(v)
  BY DEF Bytes, CanonicalBytes
<1>3. Text[v] \in Fit  BY TextOrdered DEF Ordered
<1> QED  BY <1>1, <1>2, <1>3, TextKind DEF Container

LEMMA StableWhen ==
  ASSUME NEW v \in Fit PROVE v \in Stable <=> Container(v) /\ v \in Ordered
<1>1. CASE Container(v)
  <2>1. RoundTripStable(v) <=> Text[Text[v]] = Text[v]
    BY <1>1, BytesOf DEF RoundTripStable, CanonicalBytes
  <2>2. v \in Ordered => Text[Text[v]] = Text[v]
    BY TextOrdered, TextMeans, MeaningTells DEF SameMeaning
  <2> QED  BY <1>1, <2>1, <2>2, ReadBackOrdered DEF Stable
<1>2. CASE ~Container(v)
  <2>1. CanonicalBytes(v) = Quoted(v) /\ ~Container(Quoted(v))
    BY <1>2 DEF CanonicalBytes, Container, Quoted
  <2>2. CanonicalBytes(CanonicalBytes(v)) = Quoted(Quoted(v))
    BY <2>1 DEF CanonicalBytes
  <2>3. v # Quoted(v)  BY BytesOf DEF Quoted
  <2>4. Quoted(v) # Quoted(Quoted(v))  BY <2>3 DEF Quoted
  <2> QED  BY <1>2, <2>1, <2>2, <2>4 DEF Stable, RoundTripStable
<1> QED  BY <1>1, <1>2

(* Equal texts, and equal bytes, are of values that mean the same.         *)
LEMMA TextTells ==
  ASSUME NEW v \in Fit, NEW w \in Fit, Text[v] = Text[w] PROVE SameMeaning(v, w)
BY TextMeans DEF SameMeaning

LEMMA AllFaithful == Faithful(Value)
<1>1. ASSUME NEW v \in Fit, NEW w \in Fit, Bytes[v] = Bytes[w] PROVE SameMeaning(v, w)
  <2>1. Text[v] = Text[w]
    <3>1. \A u \in Fit : Container(u) => Bytes[u].is # "quoted"
      BY BytesOf DEF Container
    <3>2. ASSUME NEW u \in Fit, ~Container(u)
          PROVE  Bytes[u].is = "quoted" /\ Bytes[u].of = Text[u]
      <4>1. Bytes[u] = Quoted(u) /\ Text[u] = u  BY <3>2, BytesOf
      <4> QED  BY <4>1 DEF Quoted
    <3>3. Container(v) <=> Container(w)  BY <1>1, <3>1, <3>2
    <3> QED  BY <1>1, <3>2, <3>3, BytesOf
  <2> QED  BY <2>1, TextTells
<1>2. ASSUME NEW v \in Ordered, NEW w \in Ordered, SameMeaning(v, w)
      PROVE  Bytes[v] = Bytes[w]
  <2>1. Text[v] = Text[w]  BY <1>2, MeaningTells
  <2>2. v \in Fit /\ w \in Fit  BY DEF Ordered
  <2>3. \A u \in Fit : Container(u) <=> Container(Text[u])
    BY BytesOf
  <2> QED  BY <2>1, <2>2, <2>3, BytesOf
<1> QED  BY <1>1, <1>2, StableWhen DEF Faithful

-----------------------------------------------------------------------------
(* Shapes.                                                                 *)

Item == [object : Object, encoding : Code, value : Payload]

ClusterInv ==
  /\ content \in [Object -> Payload]
  /\ cluster \in Seq(Item)
  /\ forms \in 0 .. MaxForms

RemainInv ==
  remain # NoRemain =>
    /\ remain.size \in Nat /\ remain.matched \in Nat
    /\ remain.remains \subseteq DOMAIN cluster
    /\ remain.direct \in remain.remains \cup {0}
    /\ remain.matched = Cardinality(remain.remains)
    /\ remain.sequence \in Sequences

FormationInv ==
  formation # NoFormation =>
    /\ formation \in Formations
    /\ formation.id \in 1 .. forms
    /\ {formation.source, formation.direct} \subseteq DOMAIN cluster

(* What the mac of a tag holds: the bytes of a formation have its item     *)
(* second and its encoding third, those of a canonical identity have its   *)
(* encoding second.                                                        *)
TagInv ==
  tag # NoTag =>
    /\ formation # NoFormation
    /\ tag.over \in {"formation", "identity"}
    /\ tag.verdict \in BOOLEAN /\ tag.encoding \in Code /\ tag.value \in Payload
    /\ tag.over = "formation" =>
         /\ Serialisable(tag.value)
         /\ tag.mac[2][2].payload = Text[tag.value]
         /\ tag.mac[2][2].encoding = tag.encoding
         /\ tag.verdict <=> tag.mac[2][2].id # 0 /\ tag.mac[2][3] = FormEncode(tag.encoding)
    /\ tag.over = "identity" /\ tag.verdict => tag.mac[2][2] = FormEncode(tag.encoding)

AuthInv == ClusterInv /\ RemainInv /\ FormationInv /\ TagInv

-----------------------------------------------------------------------------
(* The positions a selection of the items keeps.                           *)
LEMMA KeptPositions ==
  ASSUME ClusterInv, NEW u \in Sequences, NEW r, r = Kept(Select(Items, u))
  PROVE  /\ r.size \in Nat /\ r.matched \in Nat
         /\ r.remains \subseteq DOMAIN cluster
         /\ r.direct \in r.remains \cup {0}
         /\ r.matched = Cardinality(r.remains)
         /\ r.sequence \in Sequences
<1> DEFINE M == Matched(Items, u)
           At == {item[1] : item \in M}
<1>1. Len(cluster) \in Nat /\ DOMAIN cluster = 1 .. Len(cluster)  BY DEF ClusterInv
<1>2. \A item \in M : item[1] \in DOMAIN cluster /\ item = Items[item[1]]
  BY DEF Matched, Members, Items
<1>3. At \subseteq DOMAIN cluster  BY <1>2
<1>4. IsFiniteSet(At)
  <2>1. IsFiniteSet(DOMAIN cluster)  BY <1>1, FS_Interval
  <2> HIDE DEF At
  <2> QED  BY <1>3, <2>1, FS_Subset
<1>5. Cardinality(M) = Cardinality(At) /\ Cardinality(At) \in Nat
  <2>1. PICK f : f = [n \in At |-> Items[n]]  OBVIOUS
  <2>2. f \in Bijection(At, M)
    <3>1. \A n \in At : f[n] \in M /\ f[n][1] = n  BY <1>2, <2>1
    <3>2. \A item \in M : item[1] \in At /\ f[item[1]] = item  BY <1>2, <2>1
    <3> HIDE DEF M, At
    <3> QED  BY <2>1, <3>1, <3>2 DEF Bijection, Injection, Surjection, IsInjective
  <2> HIDE DEF M, At
  <2>3. ExistsBijection(At, M)  BY <2>2 DEF ExistsBijection
  <2> QED  BY <1>4, <2>3, FS_Bijection, FS_CardinalityType
<1>6. M # {} => LastOf(M)[1] \in At
  <2> SUFFICES ASSUME M # {} PROVE LastOf(M) \in M  OBVIOUS
  <2>1. PICK n \in At : \A m \in At : m =< n
    <3>1. At \in SUBSET Nat /\ At # {} /\ \A n \in At : n =< Len(cluster)  BY <1>1, <1>3
    <3> HIDE DEF At
    <3> QED  BY <1>1, <3>1, Greatest
  <2>2. PICK item \in M : \A other \in M : other[1] =< item[1]  BY <2>1
  <2> HIDE DEF M
  <2> QED  BY <2>2 DEF LastOf
<1>7. Len(Items) = Len(cluster)  BY <1>1 DEF Items
<1> HIDE DEF M
<1>8. /\ r.size = Len(Items) /\ r.sequence = u /\ r.matched = Cardinality(M)
      /\ r.remains = At /\ r.direct = IF M = {} THEN 0 ELSE LastOf(M)[1]
  BY DEF Kept, Select, M
<1> HIDE DEF At
<1> QED  BY <1>1, <1>3, <1>5, <1>6, <1>7, <1>8

-----------------------------------------------------------------------------
LEMMA AuthInit == Init => AuthInv
<1> SUFFICES ASSUME Init PROVE AuthInv  OBVIOUS
<1>1. content \in [Object -> Payload] /\ forms \in 0 .. MaxForms
  BY InputsAssumption, FormsAssumption DEF Init
<1>2. cluster \in Seq(Item)
  <2>1. PICK items \in Clusters : cluster = [i \in DOMAIN items |-> Encoded(items[i])]
    BY DEF Init
  <2>2. items \in Seq(Object)  BY ObjectsAssumption
  <2>3. Len(items) \in Nat /\ \A i \in 1 .. Len(items) : items[i] \in Object  BY <2>2
  <2>4. \A o \in Object : Encoded(o) \in Item
    BY <1>1, EncodeAssumption DEF Encoded, Item
  <2>5. cluster = [i \in 1 .. Len(items) |-> Encoded(items[i])]  BY <2>1, <2>2
  <2>6. \A i \in 1 .. Len(items) : Encoded(items[i]) \in Item  BY <2>3, <2>4
  <2> HIDE DEF Item
  <2> QED  BY <2>3, <2>5, <2>6
<1>3. remain = NoRemain /\ formation = NoFormation /\ tag = NoTag  BY DEF Init
<1> QED  BY <1>1, <1>2, <1>3 DEF AuthInv, ClusterInv, RemainInv, FormationInv, TagInv

(* What an edited formation still is.                                      *)
LEMMA EditedShape ==
  ASSUME AuthInv, Edit
  PROVE  /\ formation # NoFormation /\ formation' \in Formations
         /\ formation'.id = formation.id /\ formation'.source = formation.source
         /\ formation'.direct \in DOMAIN cluster
<1>1. /\ formation # NoFormation /\ formation \in Formations
      /\ formation.direct \in DOMAIN cluster
  BY DEF Edit, AuthInv, FormationInv
<1>2. Len(cluster) \in Nat /\ DOMAIN cluster = 1 .. Len(cluster)
  BY DEF AuthInv, ClusterInv
<1>3. CASE \E c \in Forged : formation' = [formation EXCEPT !.encoding = FormEncode(c)]
  <2>1. PICK c \in Forged : formation' = [formation EXCEPT !.encoding = FormEncode(c)]
    BY <1>3
  <2>2. c \in Code  BY InputsAssumption
  <2> QED  BY <1>1, <2>1, <2>2 DEF Formations
<1>4. CASE \E i \in 1 .. Len(cluster) : formation' = [formation EXCEPT !.direct = i]
  BY <1>1, <1>2, <1>4 DEF Formations
<1> QED  BY <1>3, <1>4 DEF Edit, Edited

(* What a signature makes of a formation.                                  *)
LEMMA SignedShape ==
  ASSUME AuthInv, NEW key \in Key, NEW over \in {"formation", "identity"}, Sign(key, over)
  PROVE  TagInv'
<1>0. formation' # NoFormation  BY DEF Sign
<1>1. /\ formation \in Formations /\ formation.source \in DOMAIN cluster
      /\ over = "formation" => Serialisable(PayloadOf(formation))
  BY DEF Sign, AuthInv, FormationInv
<1>2. /\ tag'.over = over /\ tag'.mac = <<key, Signed(over)>>
      /\ tag'.verdict = SourceVerifies(formation)
      /\ tag'.encoding = cluster[formation.source].encoding
      /\ tag'.value = PayloadOf(formation)
  BY DEF Sign
<1>3. cluster[formation.source] \in Item /\ formation.source # 0
  BY <1>1 DEF AuthInv, ClusterInv
<1>4. tag'.encoding \in Code /\ tag'.value \in Payload
  BY <1>2, <1>3 DEF PayloadOf, Item, AuthInv, ClusterInv
<1>5. tag'.verdict <=> formation.encoding = FormEncode(tag'.encoding)
  BY <1>2, <1>3 DEF SourceVerifies, VerifyFormation
<1>6. tag'.verdict \in BOOLEAN
  BY <1>2 DEF SourceVerifies, VerifyFormation
<1>7. CASE over = "formation"
  <2>1. /\ tag'.mac[2][2] = [id |-> formation.source, payload |-> Text[PayloadOf(formation)],
                             encoding |-> cluster[formation.source].encoding]
        /\ tag'.mac[2][3] = formation.encoding
    BY <1>2, <1>7 DEF Signed, FormationBytes
  <2> QED  BY <1>0, <1>1, <1>2, <1>3, <1>4, <1>5, <1>6, <1>7, <2>1 DEF TagInv
<1>8. CASE over = "identity"
  <2>1. tag'.mac[2][2] = formation.encoding
    BY <1>2, <1>8 DEF Signed, FormationCanonical
  <2> QED  BY <1>0, <1>2, <1>4, <1>5, <1>6, <1>8, <2>1 DEF TagInv
<1> QED  BY <1>7, <1>8

LEMMA AuthNext == AuthInv /\ [Next]_vars => AuthInv'
<1> SUFFICES ASSUME AuthInv, [Next]_vars PROVE AuthInv'  OBVIOUS
<1> USE DEF AuthInv
<1>1. ASSUME NEW object \in Object, NEW value \in Payload, Alter(object, value)
      PROVE  AuthInv'
  BY <1>1 DEF Alter, ClusterInv, RemainInv, FormationInv, TagInv
<1>2. ASSUME NEW i \in DOMAIN cluster, EncodeItem(i) PROVE AuthInv'
  <2>1. cluster[i] \in Item  BY DEF ClusterInv
  <2>2. Encoded(cluster[i].object) \in Item
    BY <2>1, EncodeAssumption DEF Encoded, Item, ClusterInv
  <2>3. cluster' = [cluster EXCEPT ![i] = Encoded(cluster[i].object)]
    BY <1>2 DEF EncodeItem
  <2>4. cluster' \in Seq(Item) /\ DOMAIN cluster' = DOMAIN cluster
    <3> HIDE DEF Item
    <3> QED  BY <2>2, <2>3 DEF ClusterInv
  <2> QED  BY <1>2, <2>4 DEF EncodeItem, ClusterInv, RemainInv, FormationInv, TagInv
<1>3. ASSUME NEW u \in Sequences, SelectRemain(u) PROVE AuthInv'
  <2>1. remain' = Kept(Select(Items, u))  BY <1>3 DEF SelectRemain
  <2>2. RemainInv'  BY <1>3, <2>1, KeptPositions DEF SelectRemain, RemainInv
  <2> QED  BY <1>3, <2>2 DEF SelectRemain, ClusterInv, FormationInv, TagInv
<1>4. ASSUME NEW given, Form(given) PROVE AuthInv'
  <2> DEFINE item == cluster[remain.direct]
  <2>1. /\ formation' = [id |-> forms + 1, source |-> remain.direct,
                         encoding |-> FormEncode(item.encoding), direct |-> remain.direct,
                         provenance |-> <<remain.size, remain.matched, remain.direct>>,
                         metadata |-> <<remain.size, remain.sequence>>,
                         value |-> item.value]
        /\ forms' = forms + 1 /\ forms < MaxForms /\ remain # NoRemain
        /\ remain.direct # 0
    BY <1>4 DEF Form
  <2>3. remain.direct \in DOMAIN cluster /\ remain.direct \in Nat
    BY <2>1 DEF RemainInv, ClusterInv
  <2>4. item \in Item  BY <2>3 DEF ClusterInv
  <2>5. item.encoding \in Code /\ item.value \in Payload  BY <2>4 DEF Item
  <2>6. FormEncode(item.encoding) \in {FormEncode(c) : c \in Code}  BY <2>5
  <2>7. remain.size \in Nat /\ remain.matched \in Nat /\ remain.sequence \in Code
    BY <2>1, InputsAssumption DEF RemainInv
  <2>8. forms \in Nat /\ forms + 1 \in 1 .. forms + 1 /\ forms + 1 \in 0 .. MaxForms
    BY <2>1, FormsAssumption DEF ClusterInv
  <2> HIDE DEF item
  <2>9. formation' \in Formations
    BY <2>1, <2>3, <2>5, <2>6, <2>7, <2>8 DEF Formations
  <2>10. FormationInv'
    BY <1>4, <2>1, <2>3, <2>8, <2>9 DEF Form, FormationInv
  <2>11. formation' # NoFormation  BY <2>9, NoFormationAssumption
  <2> QED  BY <1>4, <2>1, <2>8, <2>10, <2>11 DEF Form, ClusterInv, RemainInv, TagInv
<1>5. ASSUME Edit PROVE AuthInv'
  <2>1. FormationInv'  BY <1>5, EditedShape DEF Edit, FormationInv
  <2>2. formation' # NoFormation  BY <1>5, EditedShape, NoFormationAssumption
  <2> QED  BY <1>5, <2>1, <2>2 DEF Edit, ClusterInv, RemainInv, TagInv
<1>6. ASSUME NEW key \in Key, NEW over \in {"formation", "identity"}, Sign(key, over)
      PROVE  AuthInv'
  <2>1. TagInv'  BY <1>6, SignedShape
  <2> QED  BY <1>6, <2>1 DEF Sign, ClusterInv, RemainInv, FormationInv
<1>7. CASE UNCHANGED vars
  BY <1>7 DEF vars, ClusterInv, RemainInv, FormationInv, TagInv
<1> QED  BY <1>1, <1>2, <1>3, <1>4, <1>5, <1>6, <1>7 DEF Next

LEMMA AuthInvariant == Spec => []AuthInv
BY AuthInit, AuthNext, PTL DEF Spec

-----------------------------------------------------------------------------
(* Everything kept has its shape, and every item named is in the cluster.  *)
THEOREM TypeCorrect == Spec => []TypeOK
<1>1. AuthInv => TypeOK
  <2> SUFFICES ASSUME AuthInv PROVE TypeOK  OBVIOUS
  <2>1. \A i \in DOMAIN cluster : cluster[i] \in Item  BY DEF AuthInv, ClusterInv
  <2> QED
    BY <2>1 DEF TypeOK, AuthInv, ClusterInv, RemainInv, FormationInv, TagInv, Item
<1> QED  BY <1>1, AuthInvariant, PTL

(* Whatever the payload objects come to hold, its canonical bytes are the  *)
(* same exactly when its meaning is, and survive reading back, but for the *)
(* dicts whose keys are numbers ordered otherwise as texts.                *)
THEOREM BytesFollowMeaning == Spec => []CanonicalFaithful
<1>1. AuthInv => CanonicalFaithful
  <2> SUFFICES ASSUME AuthInv PROVE Faithful({content[o] : o \in Object})
    BY DEF CanonicalFaithful
  <2>1. {content[o] : o \in Object} \subseteq Value
    BY MeaningAssumption DEF AuthInv, ClusterInv
  <2> QED  BY <2>1, AllFaithful DEF Faithful
<1> QED  BY <1>1, AuthInvariant, PTL

(* A tag that verifies says of the formation what its mac holds.           *)
LEMMA VerifiesSays ==
  ASSUME AuthInv, tag # NoTag, \E key \in Key : Verifies(key)
  PROVE  /\ tag.over = "formation" =>
              /\ Serialisable(PayloadOf(formation))
              /\ tag.mac[2][2].id = formation.source
              /\ tag.mac[2][2].payload = Text[PayloadOf(formation)]
              /\ tag.mac[2][2].encoding = cluster[formation.source].encoding
              /\ tag.mac[2][3] = formation.encoding
         /\ tag.over = "identity" => tag.mac[2][2] = formation.encoding
<1>1. PICK key \in Key : Verifies(key)  OBVIOUS
<1>2. CASE tag.over = "formation"
  BY <1>1, <1>2 DEF Verifies, Signed, FormationBytes
<1>3. CASE tag.over = "identity"
  BY <1>1, <1>3 DEF Verifies, Signed, FormationCanonical
<1> QED  BY <1>2, <1>3
(* The formation a tag was made for, or the one in its place, is of a      *)
(* payload and of an item in the cluster.                                  *)
LEMMA FormedOf ==
  ASSUME AuthInv, tag # NoTag
  PROVE  /\ PayloadOf(formation) \in Payload
         /\ formation.value \in Payload
         /\ SourceVerifies(formation) <=>
              formation.encoding = FormEncode(cluster[formation.source].encoding)
<1>1. formation \in Formations /\ formation.source \in DOMAIN cluster
  BY DEF AuthInv, FormationInv, TagInv
<1>2. cluster[formation.source] \in Item /\ formation.source # 0
  BY <1>1 DEF AuthInv, ClusterInv
<1> QED
  BY <1>1, <1>2
  DEF PayloadOf, SourceVerifies, VerifyFormation, Item, Formations, AuthInv, ClusterInv

(* A formation's bytes have the text of the payload and both encodings     *)
(* that verify_formation compares; an identity's have the formation's.     *)
LEMMA VerdictKept == AuthInv => TagKeepsVerdict
<1> SUFFICES ASSUME AuthInv, tag # NoTag, \E key \in Key : Verifies(key)
             PROVE  /\ tag.over = "formation" =>
                         /\ SourceVerifies(formation) = tag.verdict
                         /\ SameMeaning(PayloadOf(formation), tag.value)
                    /\ tag.verdict /\ SourceVerifies(formation) =>
                         cluster[formation.source].encoding = tag.encoding
  BY DEF TagKeepsVerdict
<1>1. /\ tag.over \in {"formation", "identity"} /\ tag.verdict \in BOOLEAN
      /\ tag.value \in Payload
      /\ tag.over = "formation" =>
           /\ Serialisable(tag.value)
           /\ tag.mac[2][2].payload = Text[tag.value]
           /\ tag.mac[2][2].encoding = tag.encoding
           /\ tag.verdict <=> /\ tag.mac[2][2].id # 0
                              /\ tag.mac[2][3] = FormEncode(tag.encoding)
      /\ tag.over = "identity" /\ tag.verdict => tag.mac[2][2] = FormEncode(tag.encoding)
  BY DEF AuthInv, TagInv
<1>2. /\ PayloadOf(formation) \in Payload
      /\ SourceVerifies(formation) <=>
           formation.encoding = FormEncode(cluster[formation.source].encoding)
      /\ SourceVerifies(formation) \in BOOLEAN
  BY FormedOf DEF SourceVerifies, VerifyFormation
<1>3. formation.source # 0
  BY DEF AuthInv, TagInv, FormationInv, ClusterInv
<1>4. CASE tag.over = "formation"
  <2>1. SameMeaning(PayloadOf(formation), tag.value)
    <3>1. Text[PayloadOf(formation)] = Text[tag.value]  BY <1>1, <1>4, VerifiesSays
    <3>2. PayloadOf(formation) \in Fit /\ tag.value \in Fit
      BY <1>1, <1>2, <1>4, VerifiesSays, MeaningAssumption DEF Fit
    <3> QED  BY <3>1, <3>2, TextTells
  <2>2. cluster[formation.source].encoding = tag.encoding  BY <1>1, <1>4, VerifiesSays
  <2>3. tag.verdict <=> formation.encoding = FormEncode(tag.encoding)
    BY <1>1, <1>3, <1>4, VerifiesSays
  <2> QED  BY <1>1, <1>2, <2>1, <2>2, <2>3
<1>5. CASE tag.over = "identity"
  <2>1. tag.mac[2][2] = formation.encoding  BY <1>5, VerifiesSays
  <2> QED  BY <1>1, <1>2, <1>5, <2>1 DEF FormEncode
<1> QED  BY <1>1, <1>4, <1>5

(* While a tag verifies, the payload means what was signed and             *)
(* verify_formation answers as it did then.                                *)
THEOREM VerdictLasts == Spec => []TagKeepsVerdict
BY VerdictKept, AuthInvariant, PTL

(* The encoding at the signing is that of the payload signed and, by the   *)
(* verdict, that of the value the formation was made of: they are one in   *)
(* meaning, and the payload means what was signed.                         *)
LEMMA OriginCertified == AuthInv => CertifiedOrigin
<1> SUFFICES ASSUME AuthInv, tag # NoTag, tag.over = "formation",
                    \E key \in Key : Verifies(key), tag.verdict,
                    tag.encoding = Encode[tag.value],
                    formation.encoding = FormEncode(Encode[formation.value])
             PROVE  SameMeaning(PayloadOf(formation), formation.value)
  BY DEF CertifiedOrigin
<1>1. /\ Serialisable(tag.value) /\ tag.value \in Payload
      /\ tag.mac[2][3] = FormEncode(tag.encoding)
  BY DEF AuthInv, TagInv
<1>2. tag.mac[2][3] = formation.encoding  BY VerifiesSays
<1>3. Encode[tag.value] = Encode[formation.value]  BY <1>1, <1>2 DEF FormEncode
<1>4. PayloadOf(formation) \in Payload /\ formation.value \in Payload  BY FormedOf
<1>5. SameMeaning(tag.value, formation.value)  BY <1>1, <1>3, <1>4, MeaningAssumption
<1>6. SameMeaning(PayloadOf(formation), tag.value)  BY VerdictKept DEF TagKeepsVerdict
<1> QED  BY <1>5, <1>6 DEF SameMeaning

(* verify and verify_formation together reach back to the forming.         *)
THEOREM OriginLasts == Spec => []CertifiedOrigin
BY OriginCertified, AuthInvariant, PTL
=============================================================================
