--------------------------- MODULE MCAlarmActivity ---------------------------
(***************************************************************************)
(* AlarmActivity on a small instance.  The request threads are             *)
(* interchangeable.                                                        *)
(***************************************************************************)
EXTENDS AlarmActivity, TLC

CONSTANTS t1, t2

ThreadSymmetry == Permutations({t1, t2})
=============================================================================
