-------------------------- MODULE MCSettledOutbox --------------------------
(* One child of one parent: a local child, or a remote child whose payloads *)
(* arrive in order; child says which.  Only the home process drains for the *)
(* remote one.                                                              *)
EXTENDS SettledOutbox

CONSTANTS c, home, replica, reader1, tok1, tok2

Far == INSTANCE SettledOutbox WITH Remote <- Task

VARIABLE child

mcvars == <<task, loaded, seen, outbox, mail, hand, claims, waiter, taken, child>>

MCInit == Init /\ child \in {"local", "remote"}

MCNext == /\ \/ child = "local" /\ Next
             \/ child = "remote" /\ Far!Next /\ hand'[replica] = {}
          /\ UNCHANGED child

MCSpec == MCInit /\ [][MCNext]_mcvars /\ (child = "local" => Fairness)

\* SettledOutbox.IntentIsDispatched, of the local child.
LocalIntentIsDispatched == child = "local" => IntentIsDispatched
=============================================================================
