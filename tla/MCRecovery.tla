----------------------------- MODULE MCRecovery -----------------------------
(***************************************************************************)
(* The least instance of Recovery in which a root, a proposal and a merge  *)
(* are all made: the empty dictionary a is the only mutation and           *)
(* resolution, and the root is named m, the merge of a alone.              *)
(***************************************************************************)
EXTENDS Recovery

CONSTANTS m, a

MCMergedHash(x, P) == IF P = {} THEN x ELSE m
MCParentSets == {{a}}
MCHash == {m, a}
=============================================================================
