------------------------------ MODULE Selection ------------------------------
(* RCS-0 and F4, the reduction of a cluster of payloads to what remains:      *)
(* rcs.py keeps the items whose encoding is the given sequence, formation.py  *)
(* crystallizes the one that remains.  An encoding is the SHA-256 of a        *)
(* payload's repr, so two payloads with one repr share their encoding: Encode *)
(* need not be injective.  An item is its position in the cluster, which is   *)
(* what its id is made of, with its encoding; cluster() numbers from 0 and    *)
(* direct_index from 1, and here both count from 1.                           *)
EXTENDS Naturals, Sequences, FiniteSets

CONSTANTS Payload,   \* what a memory cluster is made of
          Code,      \* the encodings
          Encode,    \* _default_encode
          NoItem     \* None, where an item is expected

ASSUME EncodeAssumption == Encode \in [Payload -> Code]
ASSUME NoItemAssumption == NoItem \notin (Nat \X Code)

(* Changed for a mutant: positions counted from 1 and increased once more.    *)
MutCluster(items) == [i \in 1..Len(items) |-> <<i + 1, Encode[items[i]]>>]

Cluster(items) == [i \in 1..Len(items) |-> <<i, Encode[items[i]]>>]

Members(c) == {c[i] : i \in DOMAIN c}

Matched(c, u) == {item \in Members(c) : item[2] = u}

(* Changed for a mutant: the first match survives instead of the last.        *)
MutLastOf(S) == CHOOSE item \in S : \A other \in S : item[1] <= other[1]

LastOf(S) == CHOOSE item \in S : \A other \in S : other[1] <= item[1]

Select(c, u) ==
  LET M == Matched(c, u)
  IN [cluster   |-> c,
      sequence  |-> u,
      matched   |-> Cardinality(M),
      remains   |-> M,
      survivor  |-> IF M = {} THEN NoItem ELSE LastOf(M),
      eliminated |-> Members(c) \ M,
      direct    |-> IF M = {} THEN 0 ELSE LastOf(M)[1]]

(* Changed for a mutant: the second link of the chain is not tested.          *)
MutIdentity(g, q, r) == Encode[g] = Encode[q]

Identity(g, q, r) == Encode[g] = Encode[q] /\ Encode[q] = Encode[r]

UttMatch(g, q, r) ==
  LET c == Cluster(<<g, q, r>>)
      identity == Identity(g, q, r)
  IN [cluster   |-> c,
      sequence  |-> Encode[r],
      matched   |-> IF identity THEN 3 ELSE 0,
      remains   |-> IF identity THEN {c[3]} ELSE {},
      survivor  |-> IF identity THEN c[3] ELSE NoItem,
      eliminated |-> IF identity THEN {} ELSE Members(c),
      direct    |-> IF identity THEN 3 ELSE 0]

(* form() raises ValueError without a survivor and AssertionError unless the  *)
(* remains are exactly the item direct_index points to.                       *)
CanForm(result) ==
  /\ result.survivor # NoItem
  /\ result.direct \in DOMAIN result.cluster
  /\ result.remains = {result.cluster[result.direct]}

RemainResult ==
  [cluster : Seq(Nat \X Code), sequence : Code, matched : Nat,
   remains : SUBSET (Nat \X Code), survivor : (Nat \X Code) \union {NoItem},
   eliminated : SUBSET (Nat \X Code), direct : Nat]

-----------------------------------------------------------------------------
(* What a selection promises of its result.                                   *)

(* remains and eliminated split the cluster by the sequence alone, and the    *)
(* address names the last item that survived.                                 *)
ExactSplit(result) ==
  /\ result.remains \union result.eliminated = Members(result.cluster)
  /\ \A item \in Members(result.cluster) :
        /\ item \in result.remains <=> item[2] = result.sequence
        /\ item \in result.eliminated <=> item[2] # result.sequence
  /\ result.matched = Cardinality(result.remains)
  /\ result.direct = 0 <=> result.remains = {}
  /\ result.remains # {} => /\ result.survivor = result.cluster[result.direct]
                            /\ \A item \in result.remains : item[1] <= result.direct

(* A chain resolves at its third element, and only when selecting that        *)
(* element's encoding would have kept all three.                              *)
ChainResolved(result) ==
  /\ result.direct = 3 <=> Cardinality(Matched(result.cluster, result.sequence)) = 3
  /\ result.direct # 3 => result.survivor = NoItem /\ result.direct = 0
=============================================================================
