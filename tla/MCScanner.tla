----------------------------- MODULE MCScanner -----------------------------
(* The Scanner with callers that reuse ids: two jobs over two ids.       *)
EXTENDS Scanner, TLC

CONSTANTS j1, j2, i1, i2

MCJobs == {j1, j2}
MCIds == {i1, i2}
=============================================================================
