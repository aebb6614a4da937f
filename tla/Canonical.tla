----------------------------- MODULE Canonical -----------------------------
(***************************************************************************)
(* The canonical form of soe_ddci/canonical.py: the JSON text, with sorted *)
(* keys, that digests and authenticity tags are computed from.             *)
(*                                                                         *)
(* A value is a record [is, of].  A number is itself, a string names what  *)
(* it spells, a list or tuple holds a sequence of values and a dict a      *)
(* sequence of <<key, value>> in insertion order; an "opaque" value (an    *)
(* object of the caller, a NaN) has a repr and no JSON text.  A text is    *)
(* given by the value that json.loads makes of it, its keys in the order   *)
(* they are written: JSON has lists and no tuples, and all its keys are    *)
(* strings.  Keys are decimal numbers or strings that spell one, the only  *)
(* ones for which the order of keys and of their texts may differ.  A      *)
(* dataclass, alone or in another, is given by the dict of its fields that *)
(* asdict makes of it; in a plain list or dict, where json.dumps refuses   *)
(* it, it is opaque.                                                       *)
(***************************************************************************)
EXTENDS Naturals, Sequences, FiniteSets

CONSTANTS
  TextRank,   \* the place of a number among numbers ordered as strings
  Value,      \* the values, with all they hold and what is read of their texts
  MaxDepth,   \* bound: how deep values are nested
  Depth       \* how deep each is

ASSUME TextRankAssumption ==
  /\ DOMAIN TextRank \subseteq Nat
  /\ \A m, n \in DOMAIN TextRank :
       TextRank[m] \in Nat /\ (TextRank[m] = TextRank[n] => m = n)

ASSUME DepthAssumption == MaxDepth \in Nat /\ Depth \in [Value -> 0 .. MaxDepth]

Number(n) == [is |-> "number", of |-> n]
Spelled(x) == [is |-> "string", of |-> x]
List(s) == [is |-> "list", of |-> s]
Tuple(s) == [is |-> "tuple", of |-> s]
Dict(s) == [is |-> "dict", of |-> s]
Opaque(x) == [is |-> "opaque", of |-> x]
Quoted(text) == [is |-> "quoted", of |-> text]   \* a string that holds a text

Container(v) == v.is \in {"list", "tuple", "dict"}
DictKey == {Number(n) : n \in DOMAIN TextRank} \cup {Spelled(n) : n \in DOMAIN TextRank}
Keys(d) == {d.of[i][1] : i \in DOMAIN d.of}

(* The values a value holds.                                               *)
Held(v) ==
  CASE v.is \in {"list", "tuple"} -> {v.of[i] : i \in DOMAIN v.of}
    [] v.is = "dict" -> {v.of[i][2] : i \in DOMAIN v.of}
    [] OTHER -> {}

(* Values are finite trees, and the keys of a dict are different.          *)
ASSUME ValueAssumption ==
  \A v \in Value :
    /\ v.is \in {"number", "string", "opaque", "list", "tuple", "dict"}
    /\ v.is \in {"list", "tuple"} => v.of \in Seq(Value)
    /\ v.is = "dict" =>
         /\ v.of \in Seq(DictKey \X Value)
         /\ \A i, j \in DOMAIN v.of : v.of[i][1] = v.of[j][1] => i = j
    /\ \A w \in Held(v) : Depth[w] < Depth[v]

(* A value and everything in it.                                           *)
Parts[v \in Value] == {v} \cup UNION {Parts[w] : w \in Held(v)}

Dicts(v) == {d \in Parts[v] : d.is = "dict"}

(* What json.dumps accepts: no NaN, no foreign object, and keys that can   *)
(* be compared with each other.  Anything else makes it raise.             *)
Serialisable(v) ==
  /\ \A p \in Parts[v] : p.is # "opaque"
  /\ \A d \in Dicts(v) : \A k, l \in Keys(d) : k.is = l.is

Fit == {v \in Value : Serialisable(v)}

(* sort_keys compares the keys themselves: numbers as numbers, strings as  *)
(* strings.                                                                *)
KeyBefore(k, l) == IF k.is = "number" THEN k.of < l.of ELSE TextRank[k.of] < TextRank[l.of]

Place(k, d) == Cardinality({l \in Keys(d) : KeyBefore(l, k)}) + 1

(* The operators Mut... are mistakes this code could have had: this one    *)
(* does not sort the keys.                                                 *)
MutSorted(d) == d.of

Sorted(d) ==
  [n \in DOMAIN d.of |-> d.of[CHOOSE i \in DOMAIN d.of : Place(d.of[i][1], d) = n]]

Text[v \in Fit] ==
  LET sorted == Sorted(v)
  IN  CASE v.is \in {"list", "tuple"} -> List([i \in DOMAIN v.of |-> Text[v.of[i]]])
        [] v.is = "dict" ->
             Dict([n \in DOMAIN v.of |-> <<Spelled(sorted[n][1].of), Text[sorted[n][2]]>>])
        [] OTHER -> v

(* json.loads makes a value of every text.                                 *)
ASSUME ReadBackAssumption == \A v \in Fit : Text[v] \in Value

(* A value that is neither container nor dataclass, which is its own text, *)
(* is written twice: the text of a string that holds the text.             *)
CanonicalBytes(v) == IF Container(v) THEN Text[v] ELSE Quoted(v)

RoundTripStable(v) == CanonicalBytes(CanonicalBytes(v)) = CanonicalBytes(v)

----------------------------------------------------------------------------
(* What a canonical form is measured against.                              *)

(* Two values mean the same when they hold the same things under the same  *)
(* keys, whatever the order a dict was filled in, and lists and tuples     *)
(* apart from their kind.                                                  *)
Meaning[v \in Value] ==
  CASE v.is \in {"list", "tuple"} -> List([i \in DOMAIN v.of |-> Meaning[v.of[i]]])
    [] v.is = "dict" -> Dict({<<v.of[i][1].of, Meaning[v.of[i][2]]>> : i \in DOMAIN v.of})
    [] OTHER -> v

SameMeaning(v, w) == Meaning[v] = Meaning[w]

(* The keys of no dict in v are numbers whose texts are ordered otherwise. *)
KeysInTextOrder(v) ==
  \A d \in Dicts(v) : \A k, l \in Keys(d) :
    KeyBefore(k, l) => TextRank[k.of] < TextRank[l.of]

Ordered == {v \in Fit : KeysInTextOrder(v)}
Stable == {v \in Fit : RoundTripStable(v)}
Bytes == [v \in Fit |-> CanonicalBytes(v)]

(* What is asked of the canonical form, over the values V: values that     *)
(* mean the same have the same canonical bytes, however a dict was filled, *)
(* and only they have; and a text read back and written again is the same  *)
(* text (canonical.py:78-83).  Both fail of dicts with numbers for keys,   *)
(* where their order is not that of their texts, and reading back fails of *)
(* what is no container: those are all the exceptions.                     *)
Faithful(V) ==
  \A v \in V \cap Fit :
    /\ v \in Stable <=> Container(v) /\ v \in Ordered
    /\ \A w \in V \cap Fit :
         /\ Bytes[v] = Bytes[w] => SameMeaning(v, w)
         /\ SameMeaning(v, w) /\ {v, w} \subseteq Ordered => Bytes[v] = Bytes[w]
=============================================================================
