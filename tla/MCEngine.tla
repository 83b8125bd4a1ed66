------------------------------ MODULE MCEngine ------------------------------
(* The engine on two jobs, with as many ids as jobs.                       *)
EXTENDS Engine, TLC

CONSTANTS j1, j2

MCJobs == {j1, j2}
MCIds == 0..1
=============================================================================
