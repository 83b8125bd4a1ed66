-------------------------- MODULE MCServiceRestart --------------------------
(* The service killed at any time, on one scan and competing requests.     *)
EXTENDS ServiceRestart

CONSTANTS s1, d1, d2, r1, f1

OneScan == {s1}
MCIds == 0..1
TwoDeleters == {d1, d2}
OneReader == {r1}
MCFindings == {f1}
=============================================================================
