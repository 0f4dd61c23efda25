---------------------------- MODULE MCWriterLease ----------------------------
(* The writer lease with hosts that TLC may exchange for each other.        *)
EXTENDS WriterLease, TLC

Symmetry == Permutations(Hosts)
=============================================================================
