---------------------------- MODULE MCAutonomyRuns ----------------------------
(* Model checking of AutonomyRuns.  The ids of runs are interchangeable, so   *)
(* it is enough to look at the behaviours in which r1 is the first to start:  *)
(* exchanging the two ids makes one of them of any other, and once r1 has     *)
(* started nothing is constrained.                                            *)
EXTENDS AutonomyRuns

CONSTANTS r1, r2

FirstStartsFirst == run[r2].status # "none" => run[r1].status # "none"
================================================================================
