-------------------------- MODULE MCRunSupervisor --------------------------
(* Two Tasks of one run each, or one of MaxRun runs; two callers and every  *)
(* fault.  No fair action admits a run beyond the first, so the bound does *)
(* not stand in the way of the fairness.                                   *)
EXTENDS RunSupervisor

CONSTANTS t1, t2, c1, c2

Alone == /\ record[t2].run = 0 /\ handle[t2][1] = NoHandle
         /\ \A c \in Client : client[c] # Idle => client[c].task = t1

MCSpec == /\ Init
          /\ [][Next /\ (Alone' \/ \A t \in Task : record'[t].run <= 1)]_vars
          /\ Fairness
=============================================================================
