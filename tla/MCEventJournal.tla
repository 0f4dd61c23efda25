--------------------------- MODULE MCEventJournal ---------------------------
(* The durable history on small instances.  The properties say nothing once a *)
(* segment was cut, and it stays so: Uncut is the state constraint.           *)
EXTENDS EventJournal

CONSTANTS t1, t2

Symmetry == Permutations(Turns)
=============================================================================
