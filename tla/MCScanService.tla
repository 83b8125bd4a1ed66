---------------------------- MODULE MCScanService ----------------------------
(* The service on one or two scans and a DELETE.                           *)
EXTENDS ScanService

CONSTANTS s1, s2, d1, f1

OneScan == {s1}
TwoScans == {s1, s2}
MCIds == 0..1
OneDeleter == {d1}
MCFindings == {f1}
=============================================================================
