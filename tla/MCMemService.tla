---------------------------- MODULE MCMemService ----------------------------
(* Three calls of any kind at once, or one scan with its handler and a      *)
(* DELETE.                                                                 *)
EXTENDS MemService, TLC

CONSTANTS p1, p2, p3, f1

MCCallers == {p1, p2, p3}
MCProcs == MCCallers \union {Handler, Deleter}
MCVals == {"QUEUED", "IN PROGRESS", "SUCCESS", "FAILURE"}
MCWritten == {"QUEUED"}
MCParams == {[offset |-> 0, pageSize |-> 2], [offset |-> 1, pageSize |-> 1]}
MCFindings == {f1}
CallSymmetry == Permutations(MCCallers)
=============================================================================
