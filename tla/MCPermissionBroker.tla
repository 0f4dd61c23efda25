-------------------------- MODULE MCPermissionBroker --------------------------
(* Instances of PermissionBroker for TLC.                                  *)
EXTENDS PermissionBroker, TLC

Symmetry == Permutations(Runs) \cup Permutations(Keys)
=============================================================================
