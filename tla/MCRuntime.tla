----------------------------- MODULE MCRuntime -----------------------------
(***************************************************************************)
(* Three parts of the runtime in one run: the first state chooses the        *)
(* channel, the worker pool or the hash table.                               *)
(***************************************************************************)
EXTENDS Channel, WorkerPool, HashTable, TLC

CONSTANTS k1, k2, k3, v1, v2

VARIABLE part

rvars == <<part, vars, pvars, tableVars>>

MCWorkerIds == 0 .. 1
MCKey == {k1, k2, k3}
MCValue == {v1, v2}

\* Two keys that collide in the last slot, so that probes wrap around.
MCHash == k1 :> 3 @@ k2 :> 3 @@ k3 :> 6

RInit == part \in {"channel", "pool", "table"} /\ Init /\ PInit /\ TableInit

RNext ==
  /\ UNCHANGED part
  /\ \/ part = "channel" /\ Next /\ UNCHANGED <<pvars, tableVars>>
     \/ part = "pool" /\ PNext /\ UNCHANGED <<vars, tableVars>>
     \/ part = "table" /\ TableNext /\ UNCHANGED <<vars, pvars>>

RSpec == RInit /\ [][RNext]_rvars /\ (part = "channel" => Fairness) /\ PFairness

\* Every program that uses the channel to its end gets there.
ChannelEnds == part = "channel" => Termination
=============================================================================
