----------------------------- MODULE MCLineage -----------------------------
(***************************************************************************)
(* A small instance of Lineage: one fresh root name r, payload digests a,  *)
(* b and e (the digest of {}), and merges of at most two branches whose    *)
(* digests are built from the resolution and the parents themselves.  b,   *)
(* and the merge of a alone, are root names too, so that a root can be     *)
(* laid over a proposed state and over a merge.                            *)
(***************************************************************************)
EXTENDS Lineage, TLC

CONSTANTS r, a, b, e

MCPayload == {a, b, e}
MCRootName == {r, b, <<e, {a}>>}
Base == MCPayload \cup {r}

MCMergedHash(x, P) == IF P = {} THEN x ELSE <<x, P>>

(* Sets of at most two parents; a merge may be merged again once.          *)
Pairs(S) == {{x, y} : x \in S, y \in S}
Merge1 == {<<x, P>> : x \in {e, a}, P \in Pairs(Base)}
MCParentSets == {{}} \cup Pairs(Base) \cup {{m, x} : m \in Merge1, x \in {r, a}}
MCHash == Base \cup Merge1 \cup {<<e, P>> : P \in MCParentSets \ {{}}}
=============================================================================
