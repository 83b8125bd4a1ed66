---------------------------- MODULE MCStartScan ----------------------------
(* Three requests on one repository; five numbers for scans.             *)
EXTENDS StartScan

CONSTANTS c1, c2, c3, r1, u1

MCClients == {c1, c2, c3}
MCRepoIds == {r1}
MCScans == 1..5
MCValidUrls == {u1}
MCBodies == {[url |-> u1, branch |-> NoBranch], [url |-> "bad", branch |-> Main]}
=============================================================================
