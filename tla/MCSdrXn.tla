------------------------------- MODULE MCSdrXn -------------------------------
(* Small instances of SdrXn for TLC.                                       *)
EXTENDS SdrXn, TLC

CONSTANTS t1, t2, a1, a2, v0, v1, none, garbage

(* verdict is a history variable that no guard reads.                      *)
NoVerdict == <<node, sdrState, log, dsfile, dssm, views, pc, put, level, rev,
               committed>>
TaskSymmetry == Permutations(Task)
=============================================================================
