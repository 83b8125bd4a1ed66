---------------------------- MODULE AtomicStore ----------------------------
(***************************************************************************)
(* What the interfaces ScanStore and RepoStore promise of Insert,          *)
(* Retrieve, Update and Delete: each call takes effect at one moment       *)
(* between its beginning and its end, on a record that exists at that      *)
(* moment, or reports an error and changes nothing.  MemTable.tla is       *)
(* compared with it.                                                       *)
(***************************************************************************)
CONSTANTS
  Procs,   \* the callers, each of one operation at a time
  Ids,     \* the ids a record can have
  Vals,    \* the contents of a record
  Absent   \* no record

VARIABLES
  rows,    \* rows[i]: the record with id i, or Absent
  effect   \* effect[p]: what the operation of p has done, or "none"

vars == <<rows, effect>>

Init ==
  /\ rows   \in [Ids -> Vals \union {Absent}]
  /\ effect = [p \in Procs |-> <<"none">>]

Take(p, e) == effect[p] = <<"none">> /\ effect' = [effect EXCEPT ![p] = e]

Insert(p, i, v) ==
  /\ rows[i] = Absent
  /\ rows' = [rows EXCEPT ![i] = v]
  /\ Take(p, <<"inserted", i>>)

Retrieve(p, i) ==
  /\ rows[i] # Absent
  /\ Take(p, <<"retrieved", i, rows[i]>>)
  /\ UNCHANGED rows

Update(p, i, v) ==
  /\ rows[i] # Absent
  /\ rows' = [rows EXCEPT ![i] = v]
  /\ Take(p, <<"updated", i>>)

Delete(p, i) ==
  /\ rows[i] # Absent
  /\ rows' = [rows EXCEPT ![i] = Absent]
  /\ Take(p, <<"deleted", i>>)

Missing(p, i) ==
  /\ rows[i] = Absent
  /\ Take(p, <<"missing", i>>)
  /\ UNCHANGED rows

Fail(p) == Take(p, <<"failed">>) /\ UNCHANGED rows

\* The call has returned, and p may make another.
Return(p) ==
  /\ effect[p] # <<"none">>
  /\ effect' = [effect EXCEPT ![p] = <<"none">>]
  /\ UNCHANGED rows

Next ==
  \E p \in Procs :
    \/ Fail(p) \/ Return(p)
    \/ \E i \in Ids : Retrieve(p, i) \/ Delete(p, i) \/ Missing(p, i)
    \/ \E i \in Ids, v \in Vals : Insert(p, i, v) \/ Update(p, i, v)

Spec == Init /\ [][Next]_vars
=============================================================================
