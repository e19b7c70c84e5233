---------------------------- MODULE MCCgroupOwners ----------------------------
(* Values of CgroupOwners' constants for TLC. *)
EXTENDS CgroupInv

OwnUsers == [s \in Sandboxes |-> IF s = "s1" THEN "u1" ELSE "u2"]
=============================================================================
