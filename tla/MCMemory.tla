------------------------------ MODULE MCMemory ------------------------------
(***************************************************************************)
(* Two domains, of which the first is the entity's own; one other entity.  *)
(***************************************************************************)
EXTENDS Memory

CONSTANTS entity, event

MCDomains == <<entity, event>>
=============================================================================
