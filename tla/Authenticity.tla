---------------------------- MODULE Authenticity ----------------------------
(***************************************************************************)
(* Formations and what vouches for them: verify_formation of canonical.py, *)
(* which derives the encoding of a formation anew, and the HMAC tags of    *)
(* authenticity.py over its canonical form.                                *)
(*                                                                         *)
(* A ClusterItem is one object shared by the cluster, by the result of     *)
(* every selection and by the formation made of it, and its payload is the *)
(* caller's own object, perhaps that of another item too.  So an item is   *)
(* its position in the cluster, and everything that holds it sees what     *)
(* happens to it: the caller changes a payload in place, encode() writes   *)
(* the encoding in place.  A digest is what it is computed of.             *)
(*                                                                         *)
(* A payload is a value of module Canonical; a dataclass, which asdict      *)
(* reaches wherever it is, the dict of its fields.                         *)
(***************************************************************************)
EXTENDS Selection, Canonical

CONSTANTS
  Object,       \* payload objects
  Contents,     \* what the objects may hold when the cluster is made
  Clusters,     \* the sequences of objects clusters are made of
  Sequences,    \* the encoded sequences asked of select
  Forged,       \* the encodings written into a formation
  Key,          \* HMAC keys
  NoRemain, NoFormation, NoTag,   \* None, where one of these is kept
  MaxForms      \* bound: formations made

ASSUME ObjectsAssumption == \A items \in Clusters : items \in Seq(Object)
ASSUME InputsAssumption ==
  Contents \subseteq [Object -> Payload] /\ Sequences \subseteq Code /\ Forged \subseteq Code
ASSUME FormsAssumption == MaxForms \in Nat

(* What the digest of a repr tells apart: no object of the caller has the  *)
(* repr of a value of another meaning.                                     *)
ASSUME MeaningAssumption ==
  /\ Payload \subseteq Value
  /\ \A v, w \in Payload :
       Serialisable(v) /\ Encode[v] = Encode[w] => SameMeaning(v, w)

FormEncode(encoding) == <<"formation", encoding>>

(* A FormationResult, and (read by no operation) the value its item was    *)
(* encoded from when it was formed.                                        *)
Formations ==
  [id : Nat, source : Nat, encoding : {FormEncode(c) : c \in Code}, direct : Nat,
   provenance : Nat \X Nat \X Nat, metadata : Nat \X Code, value : Payload]

ASSUME NoFormationAssumption == NoFormation \notin Formations

VARIABLES
  content,     \* what each payload object holds
  cluster,     \* the items: object, encoding, and (read by no operation) the
               \* value the encoding was computed from
  remain,      \* the RemainResult the caller keeps
  formation,   \* the FormationResult the caller keeps
  tag,         \* the tag the caller keeps, and what was so when it was made
  forms        \* formations made so far; gives their ids

vars == <<content, cluster, remain, formation, tag, forms>>

----------------------------------------------------------------------------
Encoded(object) ==
  [object |-> object, encoding |-> Encode[content[object]], value |-> content[object]]

(* The cluster as module Selection knows it, and a kept result with what   *)
(* its items are now.  The operators Mut... are mistakes this code could   *)
(* have had: here, an address that counts from 0.                          *)
Items == [i \in DOMAIN cluster |-> <<i, cluster[i].encoding>>]

MutKept(result) ==
  [size |-> Len(result.cluster), sequence |-> result.sequence, matched |-> result.matched,
   remains |-> {item[1] : item \in result.remains},
   direct |-> IF result.direct = 0 THEN 0 ELSE result.direct - 1]

Kept(result) ==
  [size |-> Len(result.cluster), sequence |-> result.sequence, matched |-> result.matched,
   remains |-> {item[1] : item \in result.remains}, direct |-> result.direct]

Live(r) ==
  [cluster |-> Items, remains |-> {Items[i] : i \in r.remains}, direct |-> r.direct,
   survivor |-> IF r.direct = 0 THEN NoItem ELSE Items[r.direct]]

(* verify_formation, with the encoding the remain's survivor has now.      *)
VerifyFormation(r, f) ==
  /\ r.direct # 0
  /\ f.encoding = FormEncode(cluster[r.direct].encoding)

(* The same, of a remain whose survivor is the item the formation is of.   *)
SourceVerifies(f) == VerifyFormation([direct |-> f.source], f)

PayloadOf(f) == content[cluster[f.source].object]

(* canonical_bytes of a formation: every field, and the item with its      *)
(* payload and encoding.  The mutants know an item by its id, or by its id *)
(* and encoding.                                                           *)
MutFormationBytes(f) ==
  <<f.id, f.source, f.encoding, f.direct, f.provenance, f.metadata>>

MutFormationBytesPayload(f) ==
  <<f.id, [id |-> f.source, encoding |-> cluster[f.source].encoding],
    f.encoding, f.direct, f.provenance, f.metadata>>

FormationBytes(f) ==
  <<f.id, [id |-> f.source, payload |-> Text[PayloadOf(f)],
           encoding |-> cluster[f.source].encoding],
    f.encoding, f.direct, f.provenance, f.metadata>>

(* formation_canonical: neither the id nor anything of the item but its id *)
(* nor the metadata.                                                       *)
FormationCanonical(f) == <<f.source, f.encoding, f.direct, f.provenance>>

Signed(over) ==
  IF over = "formation" THEN FormationBytes(formation) ELSE FormationCanonical(formation)

(* verify, and verify_canonical of formation_canonical.  verify raises     *)
(* where sign would.                                                       *)
Verifies(key) ==
  /\ tag.over = "formation" => Serialisable(PayloadOf(formation))
  /\ tag.mac = <<key, Signed(tag.over)>>

----------------------------------------------------------------------------
Init ==
  /\ content \in Contents
  /\ cluster \in {[i \in DOMAIN items |-> Encoded(items[i])] : items \in Clusters}
  /\ remain = NoRemain
  /\ formation = NoFormation
  /\ tag = NoTag
  /\ forms = 0

(* The owner of a payload object changes it in place: a dict stays a dict, *)
(* a list a list.                                                          *)
Alter(object, value) ==
  /\ content[object].is \in {"list", "dict"}
  /\ value.is = content[object].is
  /\ content' = [content EXCEPT ![object] = value]
  /\ UNCHANGED <<cluster, remain, formation, tag, forms>>

(* encode: the item's encoding from what its payload holds now.            *)
EncodeItem(i) ==
  /\ cluster' = [cluster EXCEPT ![i] = Encoded(@.object)]
  /\ UNCHANGED <<content, remain, formation, tag, forms>>

SelectRemain(u) ==
  /\ remain' = Kept(Select(Items, u))
  /\ UNCHANGED <<content, cluster, formation, tag, forms>>

(* form: refused, with nothing changed, unless an item remained, and, when *)
(* the cluster is given with the result, no other did.  The encoding is    *)
(* read of the item now, the rest of the result as kept.                   *)
Form(given) ==
  /\ forms < MaxForms
  /\ remain # NoRemain
  /\ remain.direct # 0
  /\ given => CanForm(Live(remain))
  /\ forms' = forms + 1
  /\ LET item == cluster[remain.direct]
     IN  formation' = [id |-> forms', source |-> remain.direct,
                       encoding |-> FormEncode(item.encoding), direct |-> remain.direct,
                       provenance |-> <<remain.size, remain.matched, remain.direct>>,
                       metadata |-> <<remain.size, remain.sequence>>,
                       value |-> item.value]
  /\ UNCHANGED <<content, cluster, remain, tag>>

(* A holder of the formation writes another value to one of its fields.    *)
Edited ==
  {[formation EXCEPT !.encoding = FormEncode(c)] : c \in Forged}
    \cup {[formation EXCEPT !.direct = i] : i \in 1 .. Len(cluster)}

Edit ==
  /\ formation # NoFormation
  /\ formation' \in Edited
  /\ UNCHANGED <<content, cluster, remain, tag, forms>>

(* sign, of the formation or of its canonical identity.                    *)
Sign(key, over) ==
  /\ formation # NoFormation
  /\ over = "formation" => Serialisable(PayloadOf(formation))
  /\ tag' = [over |-> over, mac |-> <<key, Signed(over)>>,
             verdict |-> SourceVerifies(formation),
             encoding |-> cluster[formation.source].encoding,
             value |-> PayloadOf(formation)]
  /\ UNCHANGED <<content, cluster, remain, formation, forms>>

Next ==
  \/ \E object \in Object, value \in Payload : Alter(object, value)
  \/ \E i \in DOMAIN cluster : EncodeItem(i)
  \/ \E u \in Sequences : SelectRemain(u)
  \/ \E given \in BOOLEAN : Form(given)
  \/ Edit
  \/ \E key \in Key, over \in {"formation", "identity"} : Sign(key, over)

Spec == Init /\ [][Next]_vars

----------------------------------------------------------------------------
(* Everything kept has its shape, and every item named is in the cluster.  *)
TypeOK ==
  /\ content \in [Object -> Payload]
  /\ \A i \in DOMAIN cluster :
       cluster[i] \in [object : Object, encoding : Code, value : Payload]
  /\ remain # NoRemain =>
       /\ remain.remains \subseteq DOMAIN cluster
       /\ remain.direct \in remain.remains \cup {0}
       /\ remain.matched = Cardinality(remain.remains)
       /\ remain.sequence \in Sequences
  /\ formation # NoFormation =>
       /\ formation \in Formations
       /\ formation.id \in 1 .. forms
       /\ {formation.source, formation.direct} \subseteq DOMAIN cluster
  /\ tag # NoTag => tag.verdict \in BOOLEAN /\ tag.encoding \in Code
  /\ forms \in 0 .. MaxForms

(* What the payload objects hold, whatever was done to them, has canonical *)
(* bytes that are the same exactly when the values mean the same, and that *)
(* survive reading back (canonical.py:33-41, 78-83), but for dicts whose   *)
(* keys are numbers sorted otherwise as texts.                             *)
CanonicalFaithful == Faithful({content[o] : o \in Object})

(* While the tag of a formation verifies, its payload means what it meant  *)
(* and verify_formation answers what it answered when it was signed,       *)
(* whatever was altered, encoded anew or edited, and back, in between.  A  *)
(* tag of the canonical identity, which leaves the item out, promises less:*)
(* that a formation verified then and now is of the same encoding.         *)
TagKeepsVerdict ==
  tag # NoTag /\ (\E key \in Key : Verifies(key)) =>
    /\ tag.over = "formation" => /\ SourceVerifies(formation) = tag.verdict
                                 /\ SameMeaning(PayloadOf(formation), tag.value)
    /\ tag.verdict /\ SourceVerifies(formation) =>
         cluster[formation.source].encoding = tag.encoding

(* The two checks together reach back to the forming: a formation whose    *)
(* encoding nobody wrote to, that verified when it was signed while the    *)
(* item's encoding was that of its payload, holds, as long as its tag      *)
(* verifies, a payload that means what the formation was made of.  (An     *)
(* encoding is of a repr and a tag of a JSON text; neither sees all the    *)
(* other does, and a payload changes without either.)                      *)
CertifiedOrigin ==
  /\ tag # NoTag
  /\ tag.over = "formation"
  /\ \E key \in Key : Verifies(key)
  /\ tag.verdict
  /\ tag.encoding = Encode[tag.value]
  /\ formation.encoding = FormEncode(Encode[formation.value])
  => SameMeaning(PayloadOf(formation), formation.value)
=============================================================================
