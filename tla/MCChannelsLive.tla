--------------------------- MODULE MCChannelsLive ---------------------------
(* What must come about in a chat channel, in two worlds: "told" is the     *)
(* delivery of a run that asks for a review, by one process that stays up   *)
(* while queries and sends fail; "loop" is Telegram, a loop that runs       *)
(* fairly while answers fail.                                              *)
EXTENDS ChannelDelivery

CONSTANTS o1, review1, w1

VARIABLES
  receipt, given, offset, turn, session, tasks, recent, unseen, cmd, wk, effects,
  approvals, watched, told, faults, world

turnVars == <<receipt, given, offset, turn, session, tasks, recent, unseen, cmd, wk, effects,
              approvals, watched, told, faults>>
mcvars == <<vars, turnVars, world>>

Loop == INSTANCE ChannelTurn
          WITH Events <- 1..4, Kind <- <<"text", "yes", "start", "resume">>, Ingress <- "poll",
               Workers <- {w1}, MaxDeliveries <- 1, MaxReviews <- 1,
               Faults <- {"reply"}, MaxFaults <- 2

ASSUME DeliveryAssumption == ConstantsAssumption
ASSUME TurnAssumption == Loop!ConstantsAssumption

MCInit == world \in {"told", "loop"} /\ Init /\ Loop!Init
MCNext == /\ \/ world = "told" /\ Next /\ UNCHANGED turnVars
             \/ world = "loop" /\ Loop!Next /\ UNCHANGED vars
          /\ UNCHANGED world
MCSpec == /\ MCInit /\ [][MCNext]_mcvars
          /\ (world = "told" => Fairness)
          /\ (world = "loop" => Loop!Fairness)

\* Every update is got past, and its Task watched if it was acted on (adapter.py).
UpdateEnds == world = "loop" => Loop!UpdateEnds /\ [](Loop!EffectIsWatched)
=============================================================================
