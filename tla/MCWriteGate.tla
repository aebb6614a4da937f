---------------------------- MODULE MCWriteGate ----------------------------
(***************************************************************************)
(* Two writers, two targets, two digests, one of them that of {}, and      *)
(* capabilities to write: one that expires and is good for one target, one *)
(* good for all and for ever, and one signed with another key.             *)
(***************************************************************************)
EXTENDS WriteGate, TLC

CONSTANTS s, t, good, bad

Shape(operation, target, scope, expires, key) ==
  [operation |-> operation, target |-> target, scope |-> scope,
   expires |-> expires, key |-> key]

MCMintable == {Shape("WRITE", AnyTarget, s, 1, good),
               Shape("WRITE", AnyTarget, AnyTarget, 0, good),
               Shape("WRITE", s, s, 0, bad)}
Symmetry == Permutations(Writer)
=============================================================================
