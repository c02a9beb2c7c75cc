----------------------------- MODULE MCChannels -----------------------------
(* The two halves of a chat channel under their faults, each in several     *)
(* worlds; world says which one a behaviour is about, and the other half    *)
(* stands still.                                                           *)
(*                                                                         *)
(* Turns: "push" (Feishu, events handed over twice and at once), "slow"     *)
(* (Feishu, a claim runs out under its handler, answers are lost) and       *)
(* "poll" (Telegram, with handlers of its own).  Deliveries by two          *)
(* processes: "clean" (queries and sends fail, leases hold) and "broken"    *)
(* (answers and leases are lost, processes stop).                           *)
EXTENDS ChannelTurn

CONSTANTS o1, o2, w1, w2, Dead

PushKind == <<"text", "text", "yes", "text">>
PollKind == <<"text", "agent", "text", "new">>

VARIABLES
  one,  \* the handler of the polling loop
  task, asked, intent, marked, sent, watch, restart, scanned, owed, waiter, up, world

deliveryVars == <<task, asked, intent, marked, sent, watch, restart, scanned, owed, waiter, up>>
mcvars == <<vars, one, deliveryVars, world>>

Poll == INSTANCE ChannelTurn
          WITH Kind <- PollKind, Ingress <- "poll", Workers <- {w1}, wk <- one,
               MaxDeliveries <- 1, MaxReviews <- 1,
               Faults <- {"crash", "reply", "lost", "gone"}
Clean == INSTANCE ChannelDelivery
           WITH Owner <- {o1, o2}, Review <- {}, MaxAttempts <- 1, GraceChecks <- 0,
                MaxSends <- 2, Faults <- {"query", "effect"}
Broken == INSTANCE ChannelDelivery
           WITH Owner <- {o1, o2}, Review <- {}, MaxAttempts <- 0, GraceChecks <- 0,
                MaxSends <- 2, Faults <- {"answer", "lapse", "crash", "close"}

ASSUME TurnAssumption == ConstantsAssumption /\ Poll!ConstantsAssumption
ASSUME DeliveryAssumption == Clean!ConstantsAssumption /\ Broken!ConstantsAssumption

(* Two messages and a "y", twice each, the second's Task asks once, and    *)
(* nothing fails; a message and a "y", three times each, of Tasks that ask *)
(* once, and two failures.                                                 *)
PushNext == /\ Next /\ faults' = 0 /\ given'[4] = 0 /\ tasks'[2].rev <= 1
            /\ \A e \in Events : given'[e] <= 2
SlowNext == /\ Next /\ faults' <= 2 /\ given'[2] = 0 /\ given'[4] = 0
            /\ \A t \in Events : tasks'[t].rev <= 1

(* One turn waits for the delivery and one reconciler has read it at a     *)
(* time, and one step is repeated.                                         *)
OneAtATime == (waiter'[o1] = "none" \/ waiter'[o2] = "none") /\ scanned' # {o1, o2}
CleanNext == Clean!Next /\ OneAtATime
BrokenNext == /\ Broken!Next /\ OneAtATime
              /\ \A s, t \in Broken!Step : sent'[s] = 2 /\ sent'[t] = 2 => s = t

MCInit == Init /\ Poll!Init /\ Clean!Init /\ world \in {"push", "slow", "poll", "clean", "broken"}
MCNext == /\ \/ world = "push" /\ PushNext /\ UNCHANGED <<one, deliveryVars>>
             \/ world = "slow" /\ SlowNext /\ UNCHANGED <<one, deliveryVars>>
             \/ world = "poll" /\ Poll!Next /\ UNCHANGED <<wk, deliveryVars>>
             \/ world = "clean" /\ CleanNext /\ UNCHANGED <<vars, one>>
             \/ world = "broken" /\ BrokenNext /\ UNCHANGED <<vars, one>>
          /\ UNCHANGED world
MCSpec == MCInit /\ [][MCNext]_mcvars
Symmetry == Permutations({o1, o2})

\* ChannelTurn.ActsBesideNoSeenRun, handlers one after the other and at once: no message is
\* acted on beside a run its handler could have seen (turn.py:176-199).
BesideNoSeenRun == [][IF world = "poll" THEN Poll!ActsBesideNoSeenRun
                        ELSE ActsBesideNoSeenRun]_mcvars

\* A step reaches the chat once while leases hold and sends fail cleanly; under every
\* other fault the terminal steps come in order, none is missing once the run counts
\* as told, and no turn continues before its result (runtime.py, repositories.py).
DeliversInOrder ==
  /\ world = "clean" => Clean!SentOnce /\ Clean!TypeOK
  /\ world = "broken" => Broken!DeliveredInOrder
=============================================================================
