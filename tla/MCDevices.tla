------------------------------ MODULE MCDevices ------------------------------
(* Two devices and keys, a seed and the empty one; an attestation that        *)
(* expires and one that never does; a clock on either side of the expiry.     *)
EXTENDS Devices, TLC

Symmetry == Permutations(Device) \union Permutations(Key)
=============================================================================
