--------------------------- MODULE MCAuthenticity ---------------------------
(***************************************************************************)
(* The cluster is made of two payload objects: a dict, and a list that may *)
(* come to hold what JSON has no text for.  The others stay as they are    *)
(* and are only compared.  Dicts differ in what they hold, in how they     *)
(* were filled and in the kind of their keys, 2 and 10, whose texts sort   *)
(* the other way.                                                          *)
(***************************************************************************)
EXTENDS Authenticity, TLC

CONSTANTS o1, o2, o3, o4, o5, o6, x, k

MCTextRank == (2 :> 2) @@ (10 :> 1)

Filled(key(_), l) == Dict([i \in 1 .. 2 |-> <<key(l[i]), Number(l[i])>>])

Up == Filled(Number, <<2, 10>>)
Down == Filled(Number, <<10, 2>>)
Short == Dict(<< <<Number(2), Number(2)>> >>)
Plain == List(<<Number(2)>>)
Foreign == List(<<Opaque(x)>>)
Numbers == Tuple(<<Up>>)
Strings == Tuple(<<Filled(Spelled, <<2, 10>>)>>)
Fixed == Tuple(<<Number(2)>>)

MCPayload == {Up, Down, Short, Plain, Foreign, Fixed, Numbers, Strings, Number(2)}

(* Besides the payloads, what they hold and what is read of their texts.   *)
Written == {Filled(Spelled, <<2, 10>>), Filled(Spelled, <<10, 2>>)}
MCValue ==
  MCPayload \cup {Number(10), Opaque(x), Dict(<< <<Spelled(2), Number(2)>> >>)}
    \cup Written \cup {List(<<d>>) : d \in Written}
MCMaxDepth == 2
MCDepth[v \in MCValue] ==
  CHOOSE n \in 0 .. MCMaxDepth :
    IF Held(v) = {} THEN n = 0 ELSE \A w \in Held(v) : n = MCDepth[w] + 1

MCEncode == [v \in MCPayload |-> v]
MCContents == {(o1 :> Up) @@ (o2 :> Plain) @@ (o3 :> Fixed) @@ (o4 :> Number(2))
                 @@ (o5 :> Numbers) @@ (o6 :> Strings)}
MCClusters == {<<o1, o2>>, <<o1, o1>>}
MCSequences == {Up, Plain}
MCForged == {Down}
=============================================================================
