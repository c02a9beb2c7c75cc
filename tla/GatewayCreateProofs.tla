------------------------- MODULE GatewayCreateProofs -------------------------
(***************************************************************************)
(* Proofs about GatewayCreate, for every number of requests and queries,   *)
(* every kind of create and every set of faults: the invariant of a create *)
(* (Core), one of a remote create without the replay contract, by which it *)
(* is never repeated, and one of an undisturbed create.  From these, what  *)
(* each ledger says is so, and the four of them implement IdempotentCreate *)
(* while nothing disturbs the create.                                      *)
(***************************************************************************)
EXTENDS GatewayCreate, FiniteSetTheorems, TLAPS

\* The Task of the key exists and was started or bound.
Exists == effects > 0 /\ task \in {"run", "bound"}

\* Nothing of the create exists or is on the wire.
Nowhere == effects = 0 /\ stray = 0

Reads == {"look", "examine", "settle"}

\* Request c is between its claim and the end of its workflow.
Works(c) ==
  \/ actor[c].at \in {"admitted", "begin", "mark_command", "mark_route", "spawn", "start", "call",
                      "activate", "fail_route", "restore", "complete"}
  \/ At(c, "cleanup") /\ actor[c].out # "gone"
  \/ actor[c].at \in {"examine", "settle"} /\ actor[c].next = "begin"

\* It was cancelled, and what it was doing is being settled.
Unwinds(c) ==
  \/ At(c, "proof") /\ actor[c].seen = "none"
  \/ At(c, "cleanup") /\ actor[c].out = "gone"
  \/ At(c, "doubt")
  \/ At(c, "look") /\ actor[c].next = "doubt"
  \/ actor[c].at \in {"examine", "settle"} /\ actor[c].next \in {"cleanup", "proof", "doubt"}

\* What actor a says, or is about to write, rests on the Task.
Relies(a) ==
  \/ actor[a].view = "active" \/ actor[a].aim = "active"
  \/ actor[a].at \in {"activate", "complete", "replay"} \/ actor[a].next = "replay"
  \/ actor[a].out \in {"created", "completed"} \/ actor[a].told \in {"created", "completed"}

\* Where an actor goes when the route is read.
NextIsKnown(a) ==
  /\ actor[a].next \in {"idle", "begin", "replay", "terminal", "cleanup", "proof", "doubt"}
  /\ At(a, "look") => actor[a].next \in {"idle", "replay", "terminal", "doubt"}
  /\ actor[a].at \in {"examine", "settle"} =>
       /\ actor[a].next = "cleanup" => actor[a].out = "gone"
       /\ actor[a].next = "proof" => actor[a].seen = "none"
  /\ a \in Reader => actor[a].at \in {"idle"} \cup Reads /\ actor[a].next = "idle"
                     /\ actor[a].call = "none"

\* Where the Task stands for the one who works on it.
TaskIsKnown(a) ==
  /\ At(a, "start") => Local /\ task = "pending"
  /\ At(a, "call") => ~Local /\ task = "doubt"
  /\ At(a, "restore") => ~Local
  /\ actor[a].call = "flying" => At(a, "call")
  /\ actor[a].call = "made" => effects > 0 /\ ~Local
  /\ actor[a].at \in {"spawn", "start", "call"} => route.boundary = "started"
  /\ Unsafe /\ (At(a, "restore") \/ (At(a, "call") /\ actor[a].call # "made")) => Nowhere

\* Only the owner of the claim works, what is relied on exists, and a route that
\* was read as failed or in doubt stays so.
Fits(a) ==
  /\ NextIsKnown(a) /\ TaskIsKnown(a)
  /\ Works(a) => Owns(a)
  /\ Relies(a) => Exists
  /\ actor[a].view \in {"failed", "uncertain"} => route.state = actor[a].view

\* A write is left behind only by a request that was cancelled.
LateFits(w) ==
  /\ At(w[2], "idle") \/ Unwinds(w[2])
  /\ w[1] = "claim" => At(w[2], "idle")
  /\ w[1] \in {"activate", "complete"} => Exists

\* At most one effect, which the boundary precedes.
LedgersFit ==
  /\ effects <= 1
  /\ route.state = "active" \/ cmd.state = "succeeded" => Exists
  /\ task \in {"run", "bound"} => effects > 0
  /\ Local => /\ stray = 0 /\ task \notin {"proxy", "doubt", "bound"}
              /\ effects > 0 => task = "run"
  /\ ~Local => task \notin {"pending", "run"}
  /\ Unsafe => /\ stray + effects <= 1
               /\ task \in {"none", "proxy"} => Nowhere
  /\ route.state = "none" => route.boundary = "reserved"
  /\ Local \/ Unsafe => (route.boundary = "reserved" => Nowhere)

AllFit == \A a \in Actor : Fits(a)
LateFit == \A w \in late : LateFits(w)
Core == TypeOK /\ LedgersFit /\ AllFit /\ LateFit

-----------------------------------------------------------------------------
(* Steps of one request or query.                                           *)

\* Only actor a moves, and its new state is a state.
Alone(a) ==
  /\ actor' \in [Actor -> ActorState]
  /\ \A b \in Actor \ {a} : actor'[b] = actor[b]

LEMMA FieldTypes ==
  ASSUME TypeOK, NEW a \in Actor
  PROVE  /\ actor[a].at \in Place /\ actor[a].next \in Place
         /\ actor[a].view \in RouteState /\ actor[a].aim \in RouteState
         /\ actor[a].live \in BOOLEAN /\ actor[a].out \in Answer /\ actor[a].end \in Ending
         /\ actor[a].crossed \in BOOLEAN /\ actor[a].seen \in Errors
         /\ actor[a].call \in {"none", "flying", "made"} /\ actor[a].told \in Answer
  BY DEF TypeOK, ActorState

LEMMA GoMoves ==
  ASSUME TypeOK, NEW a \in Actor, NEW place \in Place, Go(a, place)
  PROVE  /\ Alone(a)
         /\ actor'[a].at = place
         /\ actor'[a].next = actor[a].next /\ actor'[a].view = actor[a].view
         /\ actor'[a].aim = actor[a].aim /\ actor'[a].live = actor[a].live
         /\ actor'[a].out = actor[a].out /\ actor'[a].end = actor[a].end
         /\ actor'[a].crossed = actor[a].crossed /\ actor'[a].seen = actor[a].seen
         /\ actor'[a].call = actor[a].call /\ actor'[a].told = actor[a].told
<1>1. actor[a] \in ActorState /\ actor \in [Actor -> ActorState]
  BY DEF TypeOK
<1>2. actor' = [actor EXCEPT ![a] = [actor[a] EXCEPT !.at = place]]
  BY <1>1 DEF Go, ActorState
<1>3. [actor[a] EXCEPT !.at = place] \in ActorState
  BY <1>1 DEF ActorState
<1> QED BY <1>1, <1>2, <1>3 DEF Alone, ActorState

LEMMA EndMoves ==
  ASSUME TypeOK, NEW c \in Actor, NEW ending \in Ending, NEW answer \in Answer, End(c, ending, answer)
  PROVE  /\ Alone(c)
         /\ actor'[c].at = "cleanup" /\ actor'[c].end = ending /\ actor'[c].out = answer
         /\ actor'[c].call = "none"
         /\ actor'[c].next = actor[c].next /\ actor'[c].view = actor[c].view
         /\ actor'[c].aim = actor[c].aim /\ actor'[c].live = actor[c].live
         /\ actor'[c].crossed = actor[c].crossed /\ actor'[c].seen = actor[c].seen
         /\ actor'[c].told = actor[c].told
<1> DEFINE moved == [actor[c] EXCEPT !.at = "cleanup", !.end = ending, !.out = answer, !.call = "none"]
<1>1. actor[c] \in ActorState /\ actor \in [Actor -> ActorState]
  BY DEF TypeOK
<1>2. actor' = [actor EXCEPT ![c] = moved]
  BY <1>1 DEF End, ActorState
<1>3. moved \in ActorState
  BY <1>1 DEF ActorState, Place
<1> QED BY <1>1, <1>2, <1>3 DEF Alone, ActorState

LEMMA TellMoves ==
  ASSUME TypeOK, NEW c \in Actor, NEW answer \in Answer, Tell(c, answer)
  PROVE  /\ Alone(c)
         /\ actor'[c] = [Idle EXCEPT !.told = answer]
         /\ actor'[c].at = "idle" /\ actor'[c].next = "idle" /\ actor'[c].view = "none"
         /\ actor'[c].aim = "none" /\ actor'[c].out = "none" /\ actor'[c].seen = "none"
         /\ actor'[c].end = "release" /\ actor'[c].call = "none" /\ actor'[c].told = answer
         /\ actor'[c].crossed = FALSE
<1>1. [Idle EXCEPT !.told = answer] \in ActorState
  BY DEF Idle, ActorState, Place, RouteState, Answer, Errors, Ending
<1> QED BY <1>1 DEF Tell, TypeOK, Alone, Idle

LEMMA FailRouteMoves ==
  ASSUME TypeOK, NEW c \in Actor, NEW s \in RouteState, NEW answer \in Answer,
         FailRouteAs(c, s, answer)
  PROVE  /\ Alone(c)
         /\ actor'[c].at = "fail_route" /\ actor'[c].aim = s /\ actor'[c].end = "fail"
         /\ actor'[c].out = answer /\ actor'[c].call = "none"
         /\ actor'[c].next = actor[c].next /\ actor'[c].view = actor[c].view
         /\ actor'[c].live = actor[c].live /\ actor'[c].crossed = actor[c].crossed
         /\ actor'[c].seen = actor[c].seen /\ actor'[c].told = actor[c].told
<1> DEFINE moved == [actor[c] EXCEPT !.at = "fail_route", !.aim = s, !.end = "fail",
                                     !.out = answer, !.call = "none"]
<1>1. actor[c] \in ActorState /\ actor \in [Actor -> ActorState]
  BY DEF TypeOK
<1>2. actor' = [actor EXCEPT ![c] = moved]
  BY <1>1 DEF FailRouteAs, ActorState
<1>3. moved \in ActorState
  <2> DEFINE old == actor[c]
             first == [old EXCEPT !.at = "fail_route", !.aim = s]
  <2>1. old \in ActorState
    BY <1>1
  <2>2. moved = [first EXCEPT !.end = "fail", !.out = answer, !.call = "none"]
    BY <1>1 DEF ActorState
  <2> HIDE DEF old, moved
  <2>3. first \in ActorState
    BY <2>1 DEF ActorState, Place
  <2> HIDE DEF first
  <2> QED BY <2>2, <2>3 DEF ActorState, Ending
<1> QED BY <1>1, <1>2, <1>3 DEF Alone, ActorState

LEMMA ReconcileMoves ==
  ASSUME TypeOK, NEW c \in Actor, NEW place \in Place, NEW next \in Place, Reconcile(c, place, next)
  PROVE  /\ Alone(c)
         /\ actor'[c].at = place /\ actor'[c].next = next
         /\ actor'[c].view = actor[c].view /\ actor'[c].aim = actor[c].aim
         /\ actor'[c].out = actor[c].out /\ actor'[c].end = actor[c].end
         /\ actor'[c].crossed = actor[c].crossed /\ actor'[c].seen = actor[c].seen
         /\ actor'[c].call = actor[c].call /\ actor'[c].told = actor[c].told
<1> DEFINE moved == [actor[c] EXCEPT !.at = place, !.next = next, !.live = FALSE]
<1>1. actor[c] \in ActorState /\ actor \in [Actor -> ActorState]
  BY DEF TypeOK
<1>2. actor' = [actor EXCEPT ![c] = moved]
  BY <1>1 DEF Reconcile, ActorState
<1>3. moved \in ActorState
  BY <1>1 DEF ActorState
<1> QED BY <1>1, <1>2, <1>3 DEF Alone, ActorState

LEMMA ReturnMoves ==
  ASSUME TypeOK, NEW a \in Actor, NEW view \in RouteState, Return(a, view)
  PROVE  /\ Alone(a)
         /\ actor'[a].at = actor[a].next /\ actor'[a].view = view
         /\ actor'[a].next = actor[a].next /\ actor'[a].aim = actor[a].aim
         /\ actor'[a].out = actor[a].out /\ actor'[a].end = actor[a].end
         /\ actor'[a].crossed = actor[a].crossed /\ actor'[a].seen = actor[a].seen
         /\ actor'[a].call = actor[a].call /\ actor'[a].told = actor[a].told
<1> DEFINE moved == [actor[a] EXCEPT !.at = actor[a].next, !.view = view]
<1>1. actor[a] \in ActorState /\ actor \in [Actor -> ActorState]
  BY DEF TypeOK
<1>2. actor' = [actor EXCEPT ![a] = moved]
  BY <1>1 DEF Return, ActorState
<1>3. moved \in ActorState
  BY <1>1 DEF ActorState
<1> QED BY <1>1, <1>2, <1>3 DEF Alone, ActorState

\* The changes an actor makes to itself, by name.
Requests(a) == actor' = [actor EXCEPT ![a] = [Idle EXCEPT !.at = "claim"]]
Views(a, place, view) == actor' = [actor EXCEPT ![a].at = place, ![a].view = view]
Aims(a, place, aim) == actor' = [actor EXCEPT ![a].at = place, ![a].aim = aim]
Finds(a, place, seen) == actor' = [actor EXCEPT ![a].at = place, ![a].seen = seen]
Crosses(a, place) == actor' = [actor EXCEPT ![a].at = place, ![a].crossed = TRUE]
Calls(a, call) == actor' = [actor EXCEPT ![a].call = call]
Reserves(a, place, view) ==
  actor' = [actor EXCEPT ![a].at = place, ![a].next = "begin", ![a].view = view, ![a].live = FALSE]
Restores(a, ending, answer) ==
  actor' = [actor EXCEPT ![a].at = "restore", ![a].end = ending, ![a].out = answer]

LEMMA RequestMoves ==
  ASSUME TypeOK, NEW c \in Actor, Requests(c)
  PROVE  /\ Alone(c)
         /\ actor'[c].at = "claim" /\ actor'[c].next = "idle" /\ actor'[c].view = "none"
         /\ actor'[c].aim = "none" /\ actor'[c].out = "none" /\ actor'[c].seen = "none"
         /\ actor'[c].end = "release" /\ actor'[c].call = "none" /\ actor'[c].told = "none"
         /\ actor'[c].crossed = FALSE
<1>1. [Idle EXCEPT !.at = "claim"] \in ActorState
  BY DEF Idle, ActorState, Place, RouteState, Answer, Errors, Ending
<1> QED BY <1>1 DEF Requests, TypeOK, Alone, Idle

LEMMA ViewMoves ==
  ASSUME TypeOK, NEW a \in Actor, NEW place \in Place, NEW view \in RouteState,
         Views(a, place, view)
  PROVE  /\ Alone(a)
         /\ actor'[a].at = place /\ actor'[a].next = actor[a].next
         /\ actor'[a].view = view /\ actor'[a].aim = actor[a].aim
         /\ actor'[a].live = actor[a].live /\ actor'[a].out = actor[a].out
         /\ actor'[a].end = actor[a].end /\ actor'[a].crossed = actor[a].crossed
         /\ actor'[a].seen = actor[a].seen /\ actor'[a].call = actor[a].call
         /\ actor'[a].told = actor[a].told
<1> DEFINE moved == [actor[a] EXCEPT !.at = place, !.view = view]
<1>1. actor[a] \in ActorState /\ actor \in [Actor -> ActorState]
  BY DEF TypeOK
<1>2. actor' = [actor EXCEPT ![a] = moved]
  BY <1>1 DEF Views, ActorState
<1>3. moved \in ActorState
  BY <1>1 DEF ActorState
<1> QED BY <1>1, <1>2, <1>3 DEF Alone, ActorState

LEMMA AimMoves ==
  ASSUME TypeOK, NEW a \in Actor, NEW place \in Place, NEW aim \in RouteState,
         Aims(a, place, aim)
  PROVE  /\ Alone(a)
         /\ actor'[a].at = place /\ actor'[a].next = actor[a].next
         /\ actor'[a].view = actor[a].view /\ actor'[a].aim = aim
         /\ actor'[a].live = actor[a].live /\ actor'[a].out = actor[a].out
         /\ actor'[a].end = actor[a].end /\ actor'[a].crossed = actor[a].crossed
         /\ actor'[a].seen = actor[a].seen /\ actor'[a].call = actor[a].call
         /\ actor'[a].told = actor[a].told
<1> DEFINE moved == [actor[a] EXCEPT !.at = place, !.aim = aim]
<1>1. actor[a] \in ActorState /\ actor \in [Actor -> ActorState]
  BY DEF TypeOK
<1>2. actor' = [actor EXCEPT ![a] = moved]
  BY <1>1 DEF Aims, ActorState
<1>3. moved \in ActorState
  BY <1>1 DEF ActorState
<1> QED BY <1>1, <1>2, <1>3 DEF Alone, ActorState

LEMMA SeenMoves ==
  ASSUME TypeOK, NEW a \in Actor, NEW place \in Place, NEW seen \in Errors,
         Finds(a, place, seen)
  PROVE  /\ Alone(a)
         /\ actor'[a].at = place /\ actor'[a].next = actor[a].next
         /\ actor'[a].view = actor[a].view /\ actor'[a].aim = actor[a].aim
         /\ actor'[a].live = actor[a].live /\ actor'[a].out = actor[a].out
         /\ actor'[a].end = actor[a].end /\ actor'[a].crossed = actor[a].crossed
         /\ actor'[a].seen = seen /\ actor'[a].call = actor[a].call
         /\ actor'[a].told = actor[a].told
<1> DEFINE moved == [actor[a] EXCEPT !.at = place, !.seen = seen]
<1>1. actor[a] \in ActorState /\ actor \in [Actor -> ActorState]
  BY DEF TypeOK
<1>2. actor' = [actor EXCEPT ![a] = moved]
  BY <1>1 DEF Finds, ActorState
<1>3. moved \in ActorState
  BY <1>1 DEF ActorState
<1> QED BY <1>1, <1>2, <1>3 DEF Alone, ActorState

LEMMA CrossMoves ==
  ASSUME TypeOK, NEW a \in Actor, NEW place \in Place,
         Crosses(a, place)
  PROVE  /\ Alone(a)
         /\ actor'[a].at = place /\ actor'[a].next = actor[a].next
         /\ actor'[a].view = actor[a].view /\ actor'[a].aim = actor[a].aim
         /\ actor'[a].live = actor[a].live /\ actor'[a].out = actor[a].out
         /\ actor'[a].end = actor[a].end /\ actor'[a].crossed = TRUE
         /\ actor'[a].seen = actor[a].seen /\ actor'[a].call = actor[a].call
         /\ actor'[a].told = actor[a].told
<1> DEFINE moved == [actor[a] EXCEPT !.at = place, !.crossed = TRUE]
<1>1. actor[a] \in ActorState /\ actor \in [Actor -> ActorState]
  BY DEF TypeOK
<1>2. actor' = [actor EXCEPT ![a] = moved]
  BY <1>1 DEF Crosses, ActorState
<1>3. moved \in ActorState
  BY <1>1 DEF ActorState
<1> QED BY <1>1, <1>2, <1>3 DEF Alone, ActorState

LEMMA CallMoves ==
  ASSUME TypeOK, NEW a \in Actor, NEW call \in {"none", "flying", "made"},
         Calls(a, call)
  PROVE  /\ Alone(a)
         /\ actor'[a].at = actor[a].at /\ actor'[a].next = actor[a].next
         /\ actor'[a].view = actor[a].view /\ actor'[a].aim = actor[a].aim
         /\ actor'[a].live = actor[a].live /\ actor'[a].out = actor[a].out
         /\ actor'[a].end = actor[a].end /\ actor'[a].crossed = actor[a].crossed
         /\ actor'[a].seen = actor[a].seen /\ actor'[a].call = call
         /\ actor'[a].told = actor[a].told
<1> DEFINE moved == [actor[a] EXCEPT !.call = call]
<1>1. actor[a] \in ActorState /\ actor \in [Actor -> ActorState]
  BY DEF TypeOK
<1>2. actor' = [actor EXCEPT ![a] = moved]
  BY <1>1 DEF Calls, ActorState
<1>3. moved \in ActorState
  BY <1>1 DEF ActorState
<1> QED BY <1>1, <1>2, <1>3 DEF Alone, ActorState

LEMMA ReserveMoves ==
  ASSUME TypeOK, NEW a \in Actor, NEW place \in Place, NEW view \in RouteState,
         Reserves(a, place, view)
  PROVE  /\ Alone(a)
         /\ actor'[a].at = place /\ actor'[a].next = "begin"
         /\ actor'[a].view = view /\ actor'[a].aim = actor[a].aim
         /\ actor'[a].live = FALSE /\ actor'[a].out = actor[a].out
         /\ actor'[a].end = actor[a].end /\ actor'[a].crossed = actor[a].crossed
         /\ actor'[a].seen = actor[a].seen /\ actor'[a].call = actor[a].call
         /\ actor'[a].told = actor[a].told
<1> DEFINE moved == [actor[a] EXCEPT !.at = place, !.next = "begin", !.view = view, !.live = FALSE]
<1>1. actor[a] \in ActorState /\ actor \in [Actor -> ActorState]
  BY DEF TypeOK
<1>2. actor' = [actor EXCEPT ![a] = moved]
  BY <1>1 DEF Reserves, ActorState
<1>3. moved \in ActorState
  BY <1>1 DEF ActorState, Place
<1> QED BY <1>1, <1>2, <1>3 DEF Alone, ActorState

LEMMA RestoreMoves ==
  ASSUME TypeOK, NEW a \in Actor, NEW ending \in Ending, NEW answer \in Answer,
         Restores(a, ending, answer)
  PROVE  /\ Alone(a)
         /\ actor'[a].at = "restore" /\ actor'[a].next = actor[a].next
         /\ actor'[a].view = actor[a].view /\ actor'[a].aim = actor[a].aim
         /\ actor'[a].live = actor[a].live /\ actor'[a].out = answer
         /\ actor'[a].end = ending /\ actor'[a].crossed = actor[a].crossed
         /\ actor'[a].seen = actor[a].seen /\ actor'[a].call = actor[a].call
         /\ actor'[a].told = actor[a].told
<1> DEFINE moved == [actor[a] EXCEPT !.at = "restore", !.end = ending, !.out = answer]
<1>1. actor[a] \in ActorState /\ actor \in [Actor -> ActorState]
  BY DEF TypeOK
<1>2. actor' = [actor EXCEPT ![a] = moved]
  BY <1>1 DEF Restores, ActorState
<1>3. moved \in ActorState
  BY <1>1 DEF ActorState, Place
<1> QED BY <1>1, <1>2, <1>3 DEF Alone, ActorState

\* An interrupted request keeps what it has been told and what it has sent.
LEMMA UnwoundMoves ==
  ASSUME TypeOK, NEW c \in Actor
  PROVE  /\ Unwound(c) \in ActorState
         /\ Unwound(c).at \in {"proof", "cleanup"}
         /\ Unwound(c).at = "proof" => Unsafe /\ actor[c].crossed
         /\ Unwound(c).out = "gone" /\ Unwound(c).seen = "none" /\ Unwound(c).end = "release"
         /\ Unwound(c).next = actor[c].next /\ Unwound(c).view = actor[c].view
         /\ Unwound(c).aim = actor[c].aim /\ Unwound(c).call = actor[c].call
         /\ Unwound(c).told = actor[c].told /\ Unwound(c).crossed = actor[c].crossed
<1> DEFINE place == IF ~ReplaySafe /\ actor[c].crossed THEN "proof" ELSE "cleanup"
<1>1. actor[c] \in ActorState
  BY DEF TypeOK
<1>2. place \in {"proof", "cleanup"} /\ place \in Place
      /\ (place = "proof" => Unsafe /\ actor[c].crossed)
  BY DEF Place, Unsafe
<1>3. Unwound(c) = [actor[c] EXCEPT !.at = place, !.end = "release", !.out = "gone", !.seen = "none"]
  BY DEF Unwound
<1> HIDE DEF place
<1>4. Unwound(c) = [at |-> place, next |-> actor[c].next, view |-> actor[c].view, aim |-> actor[c].aim,
                    live |-> actor[c].live, out |-> "gone", end |-> "release",
                    crossed |-> actor[c].crossed, seen |-> "none", call |-> actor[c].call,
                    told |-> actor[c].told]
  BY <1>1, <1>3 DEF ActorState
<1>5. "gone" \in Answer /\ "none" \in Errors /\ "release" \in Ending
  BY DEF Answer, Errors, Ending
<1> QED BY <1>2, <1>4, <1>5, FieldTypes DEF ActorState

LEMMA InterruptedMoves ==
  ASSUME TypeOK, NEW c \in Actor
  PROVE  /\ Interrupted(c) \in ActorState
         /\ Interrupted(c).at = "examine" /\ Interrupted(c).next = Unwound(c).at
         /\ Interrupted(c).view = "pending" /\ Interrupted(c).live = TRUE
         /\ Interrupted(c).out = "gone" /\ Interrupted(c).seen = "none"
         /\ Interrupted(c).end = "release"
         /\ Interrupted(c).aim = actor[c].aim /\ Interrupted(c).call = actor[c].call
         /\ Interrupted(c).told = actor[c].told /\ Interrupted(c).crossed = actor[c].crossed
<1> DEFINE unwound == Unwound(c)
<1>1. /\ unwound \in ActorState /\ unwound.at \in {"proof", "cleanup"}
      /\ unwound.out = "gone" /\ unwound.seen = "none" /\ unwound.end = "release"
      /\ unwound.aim = actor[c].aim /\ unwound.call = actor[c].call /\ unwound.told = actor[c].told
      /\ unwound.crossed = actor[c].crossed
  BY UnwoundMoves
<1>2. Interrupted(c) = [unwound EXCEPT !.at = "examine", !.next = unwound.at, !.view = "pending",
                                       !.live = TRUE]
  BY DEF Interrupted
<1>3. Unwound(c).at = unwound.at
  OBVIOUS
<1> HIDE DEF unwound
<1>4. Interrupted(c) = [at |-> "examine", next |-> unwound.at, view |-> "pending", aim |-> unwound.aim,
                        live |-> TRUE, out |-> unwound.out, end |-> unwound.end,
                        crossed |-> unwound.crossed, seen |-> unwound.seen, call |-> unwound.call,
                        told |-> unwound.told]
  BY <1>1, <1>2 DEF ActorState
<1>5. "examine" \in Place /\ "pending" \in RouteState /\ unwound.at \in Place
  BY <1>1 DEF Place, RouteState
<1>6. Interrupted(c) \in ActorState
  BY <1>1, <1>4, <1>5 DEF ActorState
<1> QED BY <1>1, <1>3, <1>4, <1>6

-----------------------------------------------------------------------------
(* What the others keep.                                                    *)

\* A request that works or waits for its claim has left no write behind.
LEMMA NothingLeft ==
  ASSUME Core, NEW c, ~At(c, "idle"), ~Unwinds(c)
  PROVE  \A w \in late : w[2] # c
  BY DEF Core, LateFit, LateFits

\* At most one request works, the owner of the claim.
LEMMA OneWorks ==
  ASSUME Core, NEW b \in Actor, NEW c \in Actor, Works(b), Works(c)
  PROVE  b = c /\ b \in Client /\ cmd.state = "processing"
<1>1. Owns(b) /\ Owns(c)
  BY DEF Core, AllFit, Fits
<1>2. b \notin Reader
  BY DEF Core, AllFit, Fits, NextIsKnown, Works, At, Reads
<1> QED BY <1>1, <1>2 DEF Owns, Actor

\* What a step owes to those who stand still: what exists stays, and a final route is
\* final; who works keeps its claim, the Task and the boundary it has crossed.
Keeps ==
  /\ Exists => Exists'
  /\ effects' >= effects
  /\ route.state \in {"failed", "uncertain"} => route'.state = route.state
Leaves(b) ==
  /\ Owns(b)' /\ task' = task
  /\ route'.boundary = route.boundary \/ route'.boundary = "started"
  /\ Unsafe /\ (At(b, "restore") \/ (At(b, "call") /\ actor[b].call # "made"))
       => UNCHANGED <<effects, stray>>
Spares(a) == Keeps /\ \A b \in Actor \ {a} : Works(b) => Leaves(b)

LEMMA StandsStill ==
  ASSUME Core, TypeOK', UNCHANGED setting, NEW b \in Actor, actor'[b] = actor[b], Keeps,
         Works(b) => Leaves(b)
  PROVE  Fits(b)'
<1>1. Fits(b) /\ effects \in Nat /\ effects' \in Nat
  BY DEF Core, AllFit, TypeOK
<1>2. NextIsKnown(b)' /\ (Relies(b)' => Exists')
  BY <1>1 DEF Fits, Keeps, NextIsKnown, Relies, At
<1>3. Works(b) <=> Works(b)'
  BY DEF Works, At
<1>4. TaskIsKnown(b)'
  <2>1. actor[b].at \in {"spawn", "start", "call", "restore"} => Works(b)
    BY DEF Works
  <2>2. TaskIsKnown(b)
    BY <1>1 DEF Fits
  <2> QED BY <1>1, <2>1, <2>2
          DEF Keeps, Leaves, TaskIsKnown, At, Local, Unsafe, ReplaySafe, Safe, Nowhere
<1>5. Works(b)' => Owns(b)'
  BY <1>3 DEF Leaves
<1>6. actor'[b].view \in {"failed", "uncertain"} => route'.state = actor'[b].view
  BY <1>1 DEF Fits, Keeps
<1> QED BY <1>2, <1>4, <1>5, <1>6 DEF Fits

LEMMA Moves ==
  ASSUME Core, TypeOK', UNCHANGED setting, NEW a \in Actor, Alone(a), Spares(a),
         LedgersFit', Fits(a)', \A w \in late' : w \in late \/ w[2] = a,
         \A w \in late' : w[2] = a => LateFits(w)'
  PROVE  Core'
<1>1. ASSUME NEW b \in Actor \ {a}
      PROVE  Fits(b)'
  BY StandsStill DEF Spares, Alone
<1>2. ASSUME NEW w \in late', w[2] # a
      PROVE  LateFits(w)'
  <2>1. w \in late /\ LateFits(w) /\ w[2] \in Actor
    BY <1>2 DEF Core, LateFit, TypeOK, Actor
  <2>2. actor'[w[2]] = actor[w[2]]
    BY <1>2, <2>1 DEF Alone
  <2> QED BY <2>1, <2>2 DEF LateFits, Spares, Keeps, Unwinds, At
<1> QED BY <1>1, <1>2 DEF Core, AllFit, LateFit

\* A step that moves nobody.
LEMMA LedgerMoves ==
  ASSUME Core, TypeOK', UNCHANGED <<actor, setting>>, Keeps,
         \A b \in Actor : Works(b) => Leaves(b), LedgersFit', late' \subseteq late
  PROVE  Core'
<1>1. ASSUME NEW b \in Actor
      PROVE  Fits(b)'
  BY StandsStill
<1>2. ASSUME NEW w \in late'
      PROVE  LateFits(w)'
  BY DEF Core, LateFit, LateFits, Keeps, Unwinds, At
<1> QED BY <1>1, <1>2 DEF Core, AllFit, LateFit

\* A step that only moves actor a.
LEMMA OnlyMoves ==
  ASSUME Core, UNCHANGED <<Ledgers, setting>>, NEW a \in Actor, Alone(a), Fits(a)',
         \A w \in late : w[2] = a => LateFits(w)'
  PROVE  Core'
<1>1. TypeOK'
  BY DEF Core, TypeOK, Alone, Ledgers
<1>2. LedgersFit'
  BY DEF Core, LedgersFit, Ledgers, Exists, Nowhere, NotDispatched, Local, Unsafe, ReplaySafe, Safe
<1>3. Spares(a)
  <2>1. effects \in Nat
    BY DEF Core, TypeOK
  <2>2. \A b \in Actor : Works(b) => Owns(b)
    BY DEF Core, AllFit, Fits
  <2> QED BY <2>1, <2>2 DEF Spares, Keeps, Leaves, Ledgers, Exists, Owns
<1> QED BY <1>1, <1>2, <1>3, Moves DEF Ledgers

\* A step of the one request that works.
LEMMA WorkerMoves ==
  ASSUME Core, TypeOK', UNCHANGED <<late, setting>>, NEW c \in Actor, Works(c), Alone(c),
         Exists => Exists', effects' >= effects,
         route.state \in {"failed", "uncertain"} => route'.state = route.state,
         LedgersFit', Fits(c)'
  PROVE  Core'
<1>1. c \in Client /\ \A b \in Actor \ {c} : ~Works(b)
  BY OneWorks
<1>2. Spares(c)
  BY <1>1 DEF Spares, Keeps, Leaves
<1>3. \A w \in late : w[2] # c
  BY <1>1, NothingLeft DEF Works, Unwinds, At
<1> QED BY <1>2, <1>3, Moves

\* A step that moves the route and no other ledger.
LEMMA RouteMoves ==
  ASSUME Core, TypeOK', UNCHANGED <<cmd, task, effects, stray, late, setting>>,
         NEW a \in Actor, Alone(a), route'.boundary = route.boundary,
         route.state \in {"failed", "uncertain"} => route'.state = route.state,
         LedgersFit', Fits(a)', \A w \in late : w[2] = a => LateFits(w)'
  PROVE  Core'
<1>1. Spares(a)
  <2>1. effects \in Nat
    BY DEF Core, TypeOK
  <2>2. \A b \in Actor : Works(b) => Owns(b)
    BY DEF Core, AllFit, Fits
  <2> QED BY <2>1, <2>2 DEF Spares, Keeps, Leaves, Exists, Owns
<1> QED BY <1>1, Moves

LEMMA Clients ==
  ASSUME NEW c \in Client
  PROVE  c \in Actor /\ c \notin Reader /\ c # Nobody
BY ConstantsAssumption DEF Actor

\* A step of someone who is neither idle nor unwinding, and moves no ledger.
LEMMA ActiveMoves ==
  ASSUME Core, UNCHANGED <<Ledgers, setting>>, NEW a \in Actor, Alone(a), Fits(a)',
         ~At(a, "idle"), ~Unwinds(a)
  PROVE  Core'
BY OnlyMoves, NothingLeft

-----------------------------------------------------------------------------
(* Steps that only move the one who makes them.                             *)

LEMMA RequestFits ==
  ASSUME Core, UNCHANGED setting, NEW c \in Client, Request(c)
  PROVE  Core'
<1> USE Clients
<1>1. TypeOK /\ Requests(c)
  BY DEF Core, Request, Requests
<1>2. Alone(c) /\ Fits(c)'
  BY <1>1, RequestMoves DEF Fits, NextIsKnown, TaskIsKnown, Works, Relies, At
<1>3. \A w \in late : w[2] # c
  BY DEF Request
<1> QED BY <1>2, <1>3, OnlyMoves DEF Request

LEMMA ReopenFits ==
  ASSUME Core, UNCHANGED setting, NEW c \in Client, Reopen(c)
  PROVE  Core'
<1> USE Clients
<1>1. TypeOK /\ Fits(c) /\ At(c, "reopen")
  BY DEF Core, AllFit, Reopen
<1>2. PICK place \in {"proof", "reclaim"} : Go(c, place)
  BY DEF Reopen
<1>3. place \in Place
  BY DEF Place
<1>4. Alone(c) /\ Fits(c)'
  BY <1>1, <1>2, <1>3, GoMoves
     DEF Fits, NextIsKnown, TaskIsKnown, Works, Owns, Relies, Exists, At, Reopen, Ledgers,
         Local, Unsafe, ReplaySafe, Safe, Nowhere
<1> QED BY <1>1, <1>4, ActiveMoves DEF Reopen, Unwinds, At

LEMMA ReplayFits ==
  ASSUME Core, UNCHANGED setting, NEW c \in Client, Replay(c)
  PROVE  Core'
<1> USE Clients
<1>1. TypeOK /\ Fits(c) /\ At(c, "replay") /\ Tell(c, "created") /\ "created" \in Answer
  BY DEF Core, AllFit, Replay, At, Answer
<1>2. Alone(c) /\ Fits(c)'
  BY <1>1, TellMoves
     DEF Fits, NextIsKnown, TaskIsKnown, Works, Owns, Relies, Exists, At, Replay, Ledgers,
         Local, Unsafe, ReplaySafe, Safe, Nowhere
<1> QED BY <1>1, <1>2, ActiveMoves DEF Replay, Unwinds, At

LEMMA RefuseFits ==
  ASSUME Core, UNCHANGED setting, NEW c \in Client, Refuse(c)
  PROVE  Core'
<1> USE Clients
<1>1. TypeOK /\ Fits(c) /\ At(c, "admitted") /\ End(c, "release", "retry")
      /\ "release" \in Ending /\ "retry" \in Answer
  BY DEF Core, AllFit, Refuse, At, Answer, Ending
<1>2. Alone(c) /\ Fits(c)'
  BY <1>1, EndMoves
     DEF Fits, NextIsKnown, TaskIsKnown, Works, Owns, Relies, Exists, At, Refuse, Ledgers,
         Local, Unsafe, ReplaySafe, Safe, Nowhere
<1> QED BY <1>1, <1>2, ActiveMoves DEF Refuse, Unwinds, At

LEMMA ReserveFailsFits ==
  ASSUME Core, UNCHANGED setting, NEW c \in Client, ReserveFails(c)
  PROVE  Core'
<1> USE Clients
<1>1. TypeOK /\ Fits(c) /\ At(c, "admitted") /\ End(c, "release", "retry")
      /\ "release" \in Ending /\ "retry" \in Answer
  BY DEF Core, AllFit, ReserveFails, At, Answer, Ending
<1>2. Alone(c) /\ Fits(c)'
  BY <1>1, EndMoves
     DEF Fits, NextIsKnown, TaskIsKnown, Works, Owns, Relies, Exists, At, ReserveFails, Ledgers,
         Local, Unsafe, ReplaySafe, Safe, Nowhere
<1> QED BY <1>1, <1>2, ActiveMoves DEF ReserveFails, Unwinds, At

LEMMA BoundaryFailsFits ==
  ASSUME Core, UNCHANGED setting, NEW c \in Client, BoundaryFails(c)
  PROVE  Core'
<1> USE Clients
<1>1. TypeOK /\ Fits(c) /\ actor[c].at \in {"mark_command", "mark_route"}
      /\ FailRouteAs(c, "failed", "not_started") /\ "failed" \in RouteState /\ "not_started" \in Answer
  BY DEF Core, AllFit, BoundaryFails, At, Answer, RouteState
<1>2. Alone(c) /\ Fits(c)'
  BY <1>1, FailRouteMoves
     DEF Fits, NextIsKnown, TaskIsKnown, Works, Owns, Relies, Exists, At, BoundaryFails, Ledgers,
         Local, Unsafe, ReplaySafe, Safe, Nowhere
<1> QED BY <1>1, <1>2, ActiveMoves DEF BoundaryFails, Unwinds, At

LEMMA ConflictFits ==
  ASSUME Core, UNCHANGED setting, NEW c \in Client, Conflict(c)
  PROVE  Core'
<1> USE Clients
<1>1. TypeOK /\ Fits(c) /\ At(c, "call")
      /\ FailRouteAs(c, "failed", "not_started") /\ "failed" \in RouteState /\ "not_started" \in Answer
  BY DEF Core, AllFit, Conflict, At, Answer, RouteState
<1>2. Alone(c) /\ Fits(c)'
  BY <1>1, FailRouteMoves
     DEF Fits, NextIsKnown, TaskIsKnown, Works, Owns, Relies, Exists, At, Conflict, Ledgers,
         Local, Unsafe, ReplaySafe, Safe, Nowhere
<1> QED BY <1>1, <1>2, ActiveMoves DEF Conflict, Unwinds, At

LEMMA SpawnFailsFits ==
  ASSUME Core, UNCHANGED setting, NEW c \in Client, SpawnFails(c)
  PROVE  Core'
<1> USE Clients
<1>1. TypeOK /\ Fits(c) /\ actor[c].at \in {"spawn", "start"}
  BY DEF Core, AllFit, SpawnFails, At
<1>2. PICK s \in {"failed", "uncertain"}, answer \in {"not_started", "uncertain"} :
        FailRouteAs(c, s, answer)
  BY DEF SpawnFails
<1>3. s \in RouteState /\ answer \in Answer
  BY DEF RouteState, Answer
<1>4. Alone(c) /\ Fits(c)'
  BY <1>1, <1>2, <1>3, FailRouteMoves
     DEF Fits, NextIsKnown, TaskIsKnown, Works, Owns, Relies, Exists, At, SpawnFails, Ledgers,
         Local, Unsafe, ReplaySafe, Safe, Nowhere
<1> QED BY <1>1, <1>4, ActiveMoves DEF SpawnFails, Unwinds, At

LEMMA ActivateFailsFits ==
  ASSUME Core, UNCHANGED setting, NEW c \in Client, ActivateFails(c)
  PROVE  Core'
<1> USE Clients
<1>1. TypeOK /\ Fits(c) /\ At(c, "activate") /\ FailRouteAs(c, "uncertain", "completed")
      /\ "uncertain" \in RouteState /\ "completed" \in Answer
  BY DEF Core, AllFit, ActivateFails, RouteState, Answer
<1>2. Alone(c) /\ Fits(c)'
  BY <1>1, FailRouteMoves
     DEF Fits, NextIsKnown, TaskIsKnown, Works, Owns, Relies, Exists, At, ActivateFails, Ledgers,
         Local, Unsafe, ReplaySafe, Safe, Nowhere
<1> QED BY <1>1, <1>2, ActiveMoves DEF ActivateFails, Unwinds, At

LEMMA SendFits ==
  ASSUME Core, UNCHANGED setting, NEW c \in Client, Send(c)
  PROVE  Core'
<1> USE Clients
<1>1. TypeOK /\ Fits(c) /\ At(c, "call") /\ actor[c].call = "none"
      /\ Calls(c, "flying")
  BY DEF Core, AllFit, Send, Calls
<1>2. Alone(c) /\ Fits(c)'
  BY <1>1, CallMoves
     DEF Fits, NextIsKnown, TaskIsKnown, Works, Owns, Relies, Exists, At, Send, Ledgers,
         Local, Unsafe, ReplaySafe, Safe, Nowhere
<1> QED BY <1>1, <1>2, ActiveMoves DEF Send, Unwinds, At

LEMMA BeginFits ==
  ASSUME Core, UNCHANGED setting, NEW c \in Client, Begin(c)
  PROVE  Core'
<1> USE Clients
<1>1. TypeOK /\ Fits(c) /\ At(c, "begin") /\ UNCHANGED Ledgers
  BY DEF Core, AllFit, Begin
<1>2. CASE actor[c].view = "active" /\ Go(c, "complete")
  <2>1. Alone(c) /\ Fits(c)'
    BY <1>1, <1>2, GoMoves
       DEF Fits, NextIsKnown, TaskIsKnown, Works, Owns, Relies, Exists, At, Ledgers, Place,
           Local, Unsafe, ReplaySafe, Safe, Nowhere
  <2> QED BY <1>1, <2>1, ActiveMoves DEF Unwinds, At
<1>3. CASE actor[c].view \in {"failed", "uncertain"} /\ End(c, "fail", Outcome(actor[c].view))
  <2>1. PICK answer \in {"not_started", "uncertain"} : End(c, "fail", answer)
    BY <1>3 DEF Outcome
  <2>2. answer \in Answer /\ "fail" \in Ending
    BY DEF Answer, Ending
  <2>3. Alone(c) /\ Fits(c)'
    BY <1>1, <2>1, <2>2, EndMoves
       DEF Fits, NextIsKnown, TaskIsKnown, Works, Owns, Relies, Exists, At, Ledgers,
           Local, Unsafe, ReplaySafe, Safe, Nowhere
  <2> QED BY <1>1, <2>3, ActiveMoves DEF Unwinds, At
<1>4. CASE actor[c].view = "pending"
           /\ actor' = [actor EXCEPT ![c].at = "mark_command", ![c].crossed = TRUE]
  <2>1. "mark_command" \in Place /\ Crosses(c, "mark_command")
    BY <1>4 DEF Place, Crosses
  <2>2. Alone(c) /\ Fits(c)'
    BY <1>1, <1>4, <2>1, CrossMoves
       DEF Fits, NextIsKnown, TaskIsKnown, Works, Owns, Relies, Exists, At, Ledgers,
           Local, Unsafe, ReplaySafe, Safe, Nowhere
  <2> QED BY <1>1, <2>2, ActiveMoves DEF Unwinds, At
<1> QED BY <1>2, <1>3, <1>4 DEF Begin

LEMMA ProveFits ==
  ASSUME Core, UNCHANGED setting, NEW c \in Client, Prove(c)
  PROVE  Core'
<1> USE Clients
<1>1. TypeOK /\ Fits(c) /\ At(c, "proof") /\ actor[c].seen = "none" /\ UNCHANGED Ledgers
  BY DEF Core, AllFit, Prove
<1>2. \A w \in late : w[2] = c => LateFits(w) /\ w[1] # "claim"
  BY <1>1 DEF Core, LateFit, LateFits, At
<1>3. CASE End(c, "release_not_dispatched", "gone")
  <2>1. "release_not_dispatched" \in Ending /\ "gone" \in Answer
    BY DEF Ending, Answer
  <2>2. Alone(c) /\ Fits(c)'
    BY <1>1, <1>3, <2>1, EndMoves
       DEF Fits, NextIsKnown, TaskIsKnown, Works, Owns, Relies, Exists, At, Ledgers,
           Local, Unsafe, ReplaySafe, Safe, Nowhere
  <2>3. \A w \in late : w[2] = c => LateFits(w)'
    BY <1>1, <1>2, <1>3, <2>1, EndMoves DEF LateFits, Unwinds, Exists, At, Ledgers
  <2> QED BY <1>1, <2>2, <2>3, OnlyMoves
<1>4. CASE Reconcile(c, "look", "doubt")
  <2>1. "look" \in Place /\ "doubt" \in Place
    BY DEF Place
  <2>2. Alone(c) /\ Fits(c)'
    BY <1>1, <1>4, <2>1, ReconcileMoves
       DEF Fits, NextIsKnown, TaskIsKnown, Works, Owns, Relies, Exists, At, Ledgers,
           Local, Unsafe, ReplaySafe, Safe, Nowhere
  <2>3. \A w \in late : w[2] = c => LateFits(w)'
    BY <1>1, <1>2, <1>4, <2>1, ReconcileMoves DEF LateFits, Unwinds, Exists, At, Ledgers
  <2> QED BY <1>1, <2>2, <2>3, OnlyMoves
<1> QED BY <1>3, <1>4 DEF Prove

LEMMA QueryFits ==
  ASSUME Core, UNCHANGED setting, NEW r \in Reader, Query(r)
  PROVE  Core'
<1>1. TypeOK /\ r \in Actor /\ Fits(r) /\ At(r, "idle") /\ Go(r, "look") /\ UNCHANGED Ledgers
      /\ "look" \in Place
  BY DEF Core, AllFit, Query, Actor, Place
<1>2. Alone(r) /\ Fits(r)'
  BY <1>1, GoMoves
     DEF Fits, NextIsKnown, TaskIsKnown, Works, Owns, Relies, Exists, At, Ledgers, Reads,
         Local, Unsafe, ReplaySafe, Safe, Nowhere
<1>3. \A w \in late : w[2] # r
  BY ConstantsAssumption DEF Core, TypeOK
<1> QED BY <1>1, <1>2, <1>3, OnlyMoves

LEMMA LookUpFits ==
  ASSUME Core, UNCHANGED setting, NEW a \in Actor, LookUp(a)
  PROVE  Core'
<1>1. TypeOK /\ Fits(a) /\ At(a, "look") /\ LedgersFit /\ UNCHANGED Ledgers
  BY DEF Core, AllFit, LookUp
<1>2. \A w \in late : w[2] = a => LateFits(w) /\ w[1] # "claim" /\ actor[a].next = "doubt"
  BY <1>1 DEF Core, LateFit, LateFits, At, Unwinds
<1>3. CASE Return(a, "none")
  <2>1. "none" \in RouteState
    BY DEF RouteState
  <2>2. Alone(a) /\ Fits(a)'
    BY <1>1, <1>3, <2>1, ReturnMoves
       DEF Fits, NextIsKnown, TaskIsKnown, Works, Owns, Relies, Exists, At, Ledgers, Reads,
           Local, Unsafe, ReplaySafe, Safe, Nowhere
  <2>3. \A w \in late : w[2] = a => LateFits(w)'
    BY <1>1, <1>2, <1>3, <2>1, ReturnMoves DEF LateFits, Unwinds, Exists, At, Ledgers
  <2> QED BY <1>1, <2>2, <2>3, OnlyMoves
<1>4. CASE actor' = [actor EXCEPT ![a].at = "examine", ![a].view = route.state]
  <2>1. PICK view \in RouteState :
          view = route.state /\ Views(a, "examine", view)
    BY <1>1, <1>4 DEF TypeOK, Route, Views
  <2>2. "examine" \in Place
    BY DEF Place
  <2>3. Alone(a) /\ Fits(a)'
    BY <1>1, <2>1, <2>2, ViewMoves
       DEF Fits, NextIsKnown, TaskIsKnown, Works, Owns, Relies, Exists, At, Ledgers, Reads,
           Local, Unsafe, ReplaySafe, Safe, Nowhere, LedgersFit
  <2>4. \A w \in late : w[2] = a => LateFits(w)'
    BY <1>1, <1>2, <2>1, <2>2, ViewMoves DEF LateFits, Unwinds, Exists, At, Ledgers
  <2> QED BY <1>1, <2>3, <2>4, OnlyMoves
<1> QED BY <1>3, <1>4 DEF LookUp

\* Who is about to settle the route as active has found the run.
LEMMA AimIsSound ==
  ASSUME Core, NEW a \in Actor
  PROVE  Aim(a) \in {"active", "failed", "uncertain"} /\ (Aim(a) = "active" => Exists)
BY DEF Core, Aim, HasRun, LedgersFit, Exists

LEMMA ExamineFits ==
  ASSUME Core, UNCHANGED setting, NEW a \in Actor, Examine(a)
  PROVE  Core'
<1>1. TypeOK /\ Fits(a) /\ At(a, "examine") /\ UNCHANGED Ledgers
  BY DEF Core, AllFit, Examine
<1>2. \A w \in late : w[2] = a => /\ LateFits(w) /\ w[1] # "claim"
                                  /\ actor[a].next \in {"cleanup", "proof", "doubt"}
  BY <1>1 DEF Core, LateFit, LateFits, At, Unwinds
<1>3. CASE Return(a, actor[a].view)
  <2>1. actor[a].view \in RouteState
    BY <1>1, FieldTypes
  <2>2. Alone(a) /\ Fits(a)'
    BY <1>1, <1>3, <2>1, ReturnMoves
       DEF Fits, NextIsKnown, TaskIsKnown, Works, Owns, Relies, Exists, At, Ledgers, Reads,
           Local, Unsafe, ReplaySafe, Safe, Nowhere
  <2>3. \A w \in late : w[2] = a => LateFits(w)'
    BY <1>1, <1>2, <1>3, <2>1, ReturnMoves
       DEF LateFits, Unwinds, Exists, At, Ledgers, Fits, NextIsKnown
  <2> QED BY <1>1, <2>2, <2>3, OnlyMoves
<1>4. CASE actor' = [actor EXCEPT ![a].at = "settle", ![a].aim = Aim(a)]
  <2>1. PICK aim \in {"active", "failed", "uncertain"} :
          (aim = "active" => Exists) /\ Aims(a, "settle", aim)
    BY <1>4, AimIsSound DEF Aims
  <2>2. "settle" \in Place /\ aim \in RouteState
    BY DEF Place, RouteState
  <2>3. Alone(a) /\ Fits(a)'
    BY <1>1, <2>1, <2>2, AimMoves
       DEF Fits, NextIsKnown, TaskIsKnown, Works, Owns, Relies, Exists, At, Ledgers, Reads,
           Local, Unsafe, ReplaySafe, Safe, Nowhere
  <2>4. \A w \in late : w[2] = a => LateFits(w)'
    BY <1>1, <1>2, <2>1, <2>2, AimMoves DEF LateFits, Unwinds, Exists, At, Ledgers
  <2> QED BY <1>1, <2>3, <2>4, OnlyMoves
<1> QED BY <1>3, <1>4 DEF Examine

\* A request that is cut short unwinds: it has nothing to rely on but what it had.
LEMMA CutShort ==
  ASSUME Core, NEW c \in Client, NEW moved \in ActorState, Alone(c), actor'[c] = moved,
         UNCHANGED <<cmd, route, task, effects, setting>>,
         \/ moved.at \in {"proof", "cleanup"}
            /\ moved.next = actor[c].next /\ moved.view = actor[c].view
         \/ moved.at = "examine" /\ moved.next \in {"proof", "cleanup"} /\ moved.view = "pending",
         moved.out = "gone", moved.seen = "none", moved.aim = actor[c].aim,
         moved.told = actor[c].told, moved.call # "flying",
         moved.call = "made" => actor[c].call = "made"
  PROVE  Fits(c)' /\ Unwinds(c)'
<1> USE Clients
<1>1. Fits(c)
  BY DEF Core, AllFit
<1>2. NextIsKnown(c)'
  BY <1>1 DEF Fits, NextIsKnown, At
<1>3. TaskIsKnown(c)'
  BY <1>1 DEF Fits, TaskIsKnown, At, Local, Unsafe, ReplaySafe, Safe
<1>4. ~Works(c)' /\ Unwinds(c)'
  BY DEF Works, Unwinds, At
<1>5. Relies(c)' => Exists'
  BY <1>1 DEF Fits, Relies, Exists, At
<1> QED BY <1>1, <1>2, <1>3, <1>4, <1>5 DEF Fits

LEMMA CancelEarlyFits ==
  ASSUME Core, UNCHANGED setting, NEW c \in Client, CancelEarly(c)
  PROVE  Core'
<1> USE Clients
<1>1. TypeOK /\ Fits(c) /\ UNCHANGED Ledgers
  BY DEF Core, AllFit, CancelEarly
<1>2. CASE actor[c].at \in {"look", "examine", "settle"} /\ actor[c].next \in {"replay", "terminal"}
           /\ Tell(c, "gone")
  <2>1. "gone" \in Answer
    BY DEF Answer
  <2>2. Alone(c) /\ Fits(c)'
    BY <1>1, <1>2, <2>1, TellMoves
       DEF Fits, NextIsKnown, TaskIsKnown, Works, Owns, Relies, Exists, At, Ledgers,
           Local, Unsafe, ReplaySafe, Safe, Nowhere
  <2> QED BY <1>1, <1>2, <2>2, ActiveMoves DEF Unwinds, At
<1>3. CASE /\ \/ actor[c].at \in {"admitted", "begin", "fail_route"}
              \/ actor[c].at \in {"examine", "settle"} /\ actor[c].next = "begin"
           /\ actor' = [actor EXCEPT ![c] = Unwound(c)]
  <2> DEFINE moved == Unwound(c)
  <2>1. Alone(c) /\ actor'[c] = moved
    BY <1>1, <1>3, UnwoundMoves DEF Alone, TypeOK
  <2>2. actor[c].call # "flying"
    BY <1>1, <1>3 DEF Fits, TaskIsKnown, At
  <2>3. Fits(c)'
    BY <1>1, <2>1, <2>2, CutShort, UnwoundMoves DEF Ledgers
  <2> QED BY <1>1, <1>3, <2>1, <2>3, ActiveMoves DEF Unwinds, At
<1> QED BY <1>2, <1>3 DEF CancelEarly

LEMMA CancelStartedFits ==
  ASSUME Core, UNCHANGED setting, NEW c \in Client, CancelStarted(c)
  PROVE  Core'
<1> USE Clients
<1> DEFINE moved == Interrupted(c)
<1>1. TypeOK /\ Fits(c) /\ At(c, "activate") /\ Local /\ UNCHANGED Ledgers
      /\ actor' = [actor EXCEPT ![c] = moved]
  BY DEF Core, AllFit, CancelStarted
<1>2. Alone(c) /\ actor'[c] = moved
  BY <1>1, InterruptedMoves DEF Alone, TypeOK
<1>3. actor[c].call # "flying"
  BY <1>1 DEF Fits, TaskIsKnown, At
<1>4. /\ moved \in ActorState /\ moved.at = "examine" /\ moved.next \in {"proof", "cleanup"}
      /\ moved.view = "pending" /\ moved.out = "gone" /\ moved.seen = "none"
      /\ moved.aim = actor[c].aim /\ moved.told = actor[c].told /\ moved.call = actor[c].call
  BY <1>1, InterruptedMoves, UnwoundMoves
<1> HIDE DEF moved
<1>5. Fits(c)'
  BY <1>1, <1>2, <1>3, <1>4, CutShort DEF Ledgers
<1> QED BY <1>1, <1>2, <1>5, ActiveMoves DEF Unwinds, At

-----------------------------------------------------------------------------
(* Cancellations that leave a write or a request behind.                    *)

\* The one that works is cut short, and may leave a write behind.
LEMMA CutMoves ==
  ASSUME Core, TypeOK', UNCHANGED <<cmd, route, task, effects, setting>>,
         NEW c \in Client, Works(c), Alone(c), Unwinds(c)', Fits(c)', LedgersFit',
         NEW write \in Write \ {"claim"}, write \in {"activate", "complete"} => Exists,
         late' = late \/ late' = late \cup {<<write, c>>}
  PROVE  Core'
<1> USE Clients
<1>1. \A b \in Actor \ {c} : ~Works(b)
  BY OneWorks
<1>2. \A w \in late : w[2] # c
  BY NothingLeft DEF Works, Unwinds, At
<1>3. \A w \in late' : w \in late \/ w = <<write, c>>
  OBVIOUS
<1>4. \A w \in late' : w \in late \/ w[2] = c
  BY <1>3
<1>5. \A w \in late' : w[2] = c => LateFits(w)'
  BY <1>2, <1>3 DEF LateFits, Exists
<1>6. Spares(c)
  BY <1>1 DEF Spares, Keeps, Leaves, Exists, Core, TypeOK
<1> QED BY <1>4, <1>5, <1>6, Moves

LEMMA CancelBoundaryFits ==
  ASSUME Core, UNCHANGED setting, NEW c \in Client, CancelBoundary(c)
  PROVE  Core'
<1> USE Clients
<1> DEFINE moved == Interrupted(c)
<1>1. /\ TypeOK /\ Fits(c) /\ actor[c].at \in {"mark_command", "mark_route"} /\ LedgersFit
      /\ UNCHANGED <<cmd, route, task, effects, stray>>
      /\ actor' = [actor EXCEPT ![c] = moved]
  BY DEF Core, AllFit, CancelBoundary
<1>2. Alone(c) /\ actor'[c] = moved
  BY <1>1, InterruptedMoves DEF Alone, TypeOK
<1>3. actor[c].call # "flying"
  BY <1>1 DEF Fits, TaskIsKnown, At
<1>4. /\ moved \in ActorState /\ moved.at = "examine" /\ moved.next \in {"proof", "cleanup"}
      /\ moved.view = "pending" /\ moved.out = "gone" /\ moved.seen = "none"
      /\ moved.aim = actor[c].aim /\ moved.told = actor[c].told /\ moved.call = actor[c].call
  BY <1>1, InterruptedMoves, UnwoundMoves
<1> HIDE DEF moved
<1>5. Fits(c)' /\ Unwinds(c)'
  BY <1>1, <1>2, <1>3, <1>4, CutShort
<1>6. PICK write \in {"mark_command", "mark_route"} : late' = late \/ late' = late \cup {<<write, c>>}
  BY <1>1 DEF CancelBoundary, Leave
<1>7. TypeOK' /\ LedgersFit'
  BY <1>1, <1>2, <1>6 DEF TypeOK, Alone, Write, LedgersFit, Exists, Nowhere, Local, Unsafe, ReplaySafe, Safe
<1>8. Works(c) /\ write \in Write \ {"claim"}
  BY <1>1 DEF Works, Write
<1> QED BY <1>1, <1>2, <1>5, <1>6, <1>7, <1>8, CutMoves

LEMMA CancelAfterFits ==
  ASSUME Core, UNCHANGED setting, NEW c \in Client, CancelAfter(c)
  PROVE  Core'
<1> USE Clients
<1> DEFINE moved == Unwound(c)
<1>1. /\ TypeOK /\ Fits(c) /\ actor[c].at \in {"activate", "complete"} /\ LedgersFit
      /\ UNCHANGED <<cmd, route, task, effects, stray>>
      /\ actor' = [actor EXCEPT ![c] = moved]
  BY DEF Core, AllFit, CancelAfter
<1>2. Alone(c) /\ actor'[c] = moved
  BY <1>1, UnwoundMoves DEF Alone, TypeOK
<1>3. actor[c].call # "flying" /\ Exists
  BY <1>1 DEF Fits, TaskIsKnown, At, Relies
<1>4. /\ moved \in ActorState /\ moved.at \in {"proof", "cleanup"} /\ moved.next = actor[c].next
      /\ moved.view = actor[c].view /\ moved.out = "gone" /\ moved.seen = "none"
      /\ moved.aim = actor[c].aim /\ moved.told = actor[c].told /\ moved.call = actor[c].call
  BY <1>1, UnwoundMoves
<1> HIDE DEF moved
<1>5. Fits(c)' /\ Unwinds(c)'
  BY <1>1, <1>2, <1>3, <1>4, CutShort
<1>6. PICK write \in {"activate", "complete"} : late' = late \/ late' = late \cup {<<write, c>>}
  BY <1>1 DEF CancelAfter, Leave
<1>7. TypeOK' /\ LedgersFit'
  BY <1>1, <1>2, <1>6 DEF TypeOK, Alone, Write, LedgersFit, Exists, Nowhere, Local, Unsafe, ReplaySafe, Safe
<1>8. Works(c) /\ write \in Write \ {"claim"}
  BY <1>1 DEF Works, Write
<1> QED BY <1>1, <1>2, <1>3, <1>5, <1>6, <1>7, <1>8, CutMoves

\* What a request that is given up leaves on the wire.
LEMMA GiveUpFits ==
  ASSUME Core, UNCHANGED <<cmd, route, task, effects, setting>>, NEW c \in Client,
         actor[c].at \in {"spawn", "start", "call"}, GiveUp(c)
  PROVE  stray' \in 0..Cardinality(Client) /\ LedgersFit'
<1> USE Clients
<1>1. Fits(c) /\ LedgersFit /\ TypeOK
  BY DEF Core, AllFit
<1>2. stray \in Nat /\ Cardinality(Client) \in Nat /\ effects \in Nat
  BY <1>1, ConstantsAssumption, FS_CardinalityType DEF TypeOK
<1>3. CASE stray' = stray
  BY <1>1, <1>3 DEF LedgersFit, Exists, Nowhere, Local, Unsafe, ReplaySafe, Safe, TypeOK
<1>4. CASE actor[c].call = "flying" /\ stray < Cardinality(Client) /\ stray' = stray + 1
  <2>1. At(c, "call") /\ ~Local /\ task = "doubt" /\ route.boundary = "started" /\ (Unsafe => Nowhere)
    BY <1>1, <1>4 DEF Fits, TaskIsKnown, At
  <2> QED BY <1>1, <1>2, <1>4, <2>1 DEF LedgersFit, Exists, Nowhere, Local, Unsafe, ReplaySafe, Safe
<1> QED BY <1>3, <1>4 DEF GiveUp

LEMMA CancelSpawnFits ==
  ASSUME Core, UNCHANGED setting, NEW c \in Client, CancelSpawn(c)
  PROVE  Core'
<1> USE Clients
<1> DEFINE interrupted == Interrupted(c)
           moved == [interrupted EXCEPT !.call = "none"]
<1>1. /\ TypeOK /\ Fits(c) /\ actor[c].at \in {"spawn", "start", "call"} /\ LedgersFit
      /\ UNCHANGED <<cmd, route, task, effects, late>> /\ GiveUp(c)
      /\ actor' = [actor EXCEPT ![c] = moved]
  BY DEF Core, AllFit, CancelSpawn
<1>2. /\ interrupted \in ActorState /\ interrupted.at = "examine"
      /\ interrupted.next \in {"proof", "cleanup"}
      /\ interrupted.view = "pending" /\ interrupted.out = "gone" /\ interrupted.seen = "none"
      /\ interrupted.aim = actor[c].aim /\ interrupted.told = actor[c].told
  BY <1>1, InterruptedMoves, UnwoundMoves
<1> HIDE DEF interrupted
<1>3. /\ moved \in ActorState /\ moved.at = "examine" /\ moved.next \in {"proof", "cleanup"}
      /\ moved.view = "pending" /\ moved.out = "gone" /\ moved.seen = "none"
      /\ moved.aim = actor[c].aim /\ moved.told = actor[c].told /\ moved.call = "none"
  BY <1>2 DEF ActorState
<1> HIDE DEF moved
<1>4. Alone(c) /\ actor'[c] = moved
  BY <1>1, <1>3 DEF Alone, TypeOK
<1>5. Fits(c)' /\ Unwinds(c)'
  BY <1>1, <1>3, <1>4, CutShort
<1>6. stray' \in 0..Cardinality(Client) /\ LedgersFit'
  BY <1>1, GiveUpFits
<1>7. TypeOK'
  BY <1>1, <1>4, <1>6 DEF TypeOK, Alone
<1>8. Works(c) /\ "mark_route" \in Write \ {"claim"}
  BY <1>1 DEF Works, Write
<1> QED BY <1>1, <1>4, <1>5, <1>6, <1>7, <1>8, CutMoves

\* A cancelled claim: the request is gone and the row may yet be claimed for it.
LEMMA CancelClaimFits ==
  ASSUME Core, UNCHANGED setting, NEW c \in Client, CancelClaim(c)
  PROVE  Core'
<1> USE Clients
<1>1. /\ TypeOK /\ Fits(c) /\ actor[c].at \in {"claim", "reclaim"} /\ LedgersFit
      /\ UNCHANGED <<cmd, route, task, effects, stray>> /\ Tell(c, "gone") /\ "gone" \in Answer
      /\ (late' = late \/ late' = late \cup {<<"claim", c>>})
  BY DEF Core, AllFit, CancelClaim, Answer, Leave
<1>2. Alone(c) /\ At(c, "idle")' /\ Fits(c)'
  BY <1>1, TellMoves
     DEF Fits, NextIsKnown, TaskIsKnown, Works, Owns, Relies, Exists, At,
         Local, Unsafe, ReplaySafe, Safe, Nowhere
<1>3. \A w \in late : w[2] # c
  BY <1>1, NothingLeft DEF Unwinds, At
<1>4. \A w \in late' : (w \in late \/ w[2] = c) /\ (w[2] = c => LateFits(w)')
  BY <1>1, <1>2, <1>3 DEF LateFits
<1>5. TypeOK' /\ LedgersFit'
  BY <1>1, <1>2 DEF TypeOK, Alone, Write, LedgersFit, Exists, Nowhere, Local, Unsafe, ReplaySafe, Safe
<1>6. Spares(c)
  <2>1. effects \in Nat
    BY DEF Core, TypeOK
  <2>2. \A b \in Actor : Works(b) => Owns(b)
    BY DEF Core, AllFit, Fits
  <2> QED BY <1>1, <2>1, <2>2 DEF Spares, Keeps, Leaves, Exists, Owns
<1> QED BY <1>2, <1>4, <1>5, <1>6, Moves

-----------------------------------------------------------------------------
(* Steps that change the command.                                           *)

\* A step of the owner of the claim.
LEMMA OwnerMoves ==
  ASSUME Core, TypeOK', UNCHANGED <<late, setting>>, NEW c \in Actor, Owns(c), Alone(c),
         Exists => Exists', effects' >= effects,
         route.state \in {"failed", "uncertain"} => route'.state = route.state,
         LedgersFit', Fits(c)', \A w \in late : w[2] = c => LateFits(w)'
  PROVE  Core'
<1>1. \A b \in Actor \ {c} : ~Works(b)
  BY DEF Core, AllFit, Fits, Owns
<1>2. Spares(c)
  BY <1>1 DEF Spares, Keeps, Leaves
<1> QED BY <1>2, Moves

\* A step made while nobody owns the claim, which a request that waits makes.
LEMMA WaiterMoves ==
  ASSUME Core, TypeOK', UNCHANGED <<route, task, effects, stray, late, setting>>,
         NEW c \in Client, cmd.state # "processing", Alone(c), LedgersFit', Fits(c)',
         ~At(c, "idle"), ~Unwinds(c)
  PROVE  Core'
<1>1. \A b \in Actor : ~Works(b)
  BY DEF Core, AllFit, Fits, Owns
<1>2. Spares(c)
  BY <1>1 DEF Spares, Keeps, Leaves, Exists, Core, TypeOK
<1>3. \A w \in late : w[2] # c
  BY NothingLeft
<1> QED BY <1>2, <1>3, Moves, Clients

LEMMA CommandTypes ==
  ASSUME TypeOK
  PROVE  /\ cmd.state \in CommandState /\ cmd.owner \in Client \cup {Nobody}
         /\ cmd.started \in BOOLEAN /\ cmd.safe \in BOOLEAN /\ cmd.error \in Errors
         /\ Released \in Command /\ Released.state = "pending" /\ Released.error = cmd.error
         /\ Released.owner = Nobody
         /\ Reopened \in Command /\ Reopened.state = "pending" /\ Reopened.error = "none"
         /\ Reopened.owner = Nobody
<1>1. cmd \in Command
  BY DEF TypeOK
<1>2. Released \in Command /\ Released.state = "pending" /\ Released.error = cmd.error
      /\ Released.owner = Nobody
  BY <1>1 DEF Released, Command, CommandState
<1> DEFINE released == Released
<1>3. Reopened = [released EXCEPT !.safe = FALSE, !.error = "none"]
  BY DEF Reopened
<1> HIDE DEF released
<1>4. released \in Command /\ released.state = "pending" /\ released.owner = Nobody
  BY <1>2 DEF released
<1>5. Reopened \in Command /\ Reopened.state = "pending" /\ Reopened.error = "none"
      /\ Reopened.owner = Nobody
  BY <1>3, <1>4 DEF Command, Errors, Answer
<1> QED BY <1>1, <1>2, <1>5 DEF Command

LEMMA ClaimFits ==
  ASSUME Core, UNCHANGED setting, NEW c \in Client, Claim(c)
  PROVE  Core'
<1> USE Clients
<1>1. TypeOK /\ Fits(c) /\ LedgersFit /\ actor[c].at \in {"claim", "reclaim"}
      /\ UNCHANGED <<route, task, effects, stray, late, setting>>
  BY DEF Core, AllFit, Claim
<1>2. ~At(c, "idle") /\ ~Unwinds(c)
  BY <1>1 DEF At, Unwinds
<1>3. CASE cmd.state \in {"none", "pending"} /\ cmd' = Claimed(c) /\ Go(c, "admitted")
  <2>1. "admitted" \in Place
    BY DEF Place
  <2>2. cmd' \in Command /\ cmd'.state = "processing" /\ cmd'.owner = c
    BY <1>1, <1>3 DEF Claimed, TypeOK, Command, CommandState
  <2>3. Alone(c) /\ Fits(c)'
    BY <1>1, <1>3, <2>1, <2>2, GoMoves
       DEF Fits, NextIsKnown, TaskIsKnown, Works, Owns, Relies, Exists, At,
           Local, Unsafe, ReplaySafe, Safe, Nowhere
  <2>4. TypeOK' /\ LedgersFit'
    BY <1>1, <2>2, <2>3
       DEF TypeOK, Alone, LedgersFit, Exists, Nowhere, Local, Unsafe, ReplaySafe, Safe
  <2> QED BY <1>1, <1>2, <1>3, <2>3, <2>4, WaiterMoves
<1>4. CASE cmd.state = "succeeded" /\ Reconcile(c, "look", "replay") /\ UNCHANGED cmd
  <2>1. "look" \in Place /\ "replay" \in Place
    BY DEF Place
  <2>2. Alone(c) /\ Fits(c)'
    BY <1>1, <1>4, <2>1, ReconcileMoves
       DEF Fits, NextIsKnown, TaskIsKnown, Works, Owns, Relies, Exists, At, LedgersFit,
           Local, Unsafe, ReplaySafe, Safe, Nowhere
  <2> QED BY <1>1, <1>2, <1>4, <2>2, ActiveMoves DEF Ledgers
<1>5. CASE cmd.state = "failed" /\ UNCHANGED cmd
           /\ actor' = [actor EXCEPT ![c].at = "reopen", ![c].seen = cmd.error]
  <2>1. PICK seen \in Errors : Finds(c, "reopen", seen)
    BY <1>1, <1>5, CommandTypes DEF Finds
  <2>2. "reopen" \in Place /\ cmd.state = "failed" /\ UNCHANGED cmd
    BY <1>5 DEF Place
  <2>3. Alone(c) /\ Fits(c)'
    BY <1>1, <2>1, <2>2, SeenMoves
       DEF Fits, NextIsKnown, TaskIsKnown, Works, Owns, Relies, Exists, At,
           Local, Unsafe, ReplaySafe, Safe, Nowhere
  <2> QED BY <1>1, <1>2, <1>5, <2>3, ActiveMoves DEF Ledgers
<1>6. CASE cmd.state = "failed" /\ Reconcile(c, "look", "terminal") /\ UNCHANGED cmd
  <2>1. "look" \in Place /\ "terminal" \in Place
    BY DEF Place
  <2>2. Alone(c) /\ Fits(c)'
    BY <1>1, <1>6, <2>1, ReconcileMoves
       DEF Fits, NextIsKnown, TaskIsKnown, Works, Owns, Relies, Exists, At,
           Local, Unsafe, ReplaySafe, Safe, Nowhere
  <2> QED BY <1>1, <1>2, <1>6, <2>2, ActiveMoves DEF Ledgers
<1>7. CASE Tell(c, "busy") /\ UNCHANGED cmd
  <2>1. "busy" \in Answer
    BY DEF Answer
  <2>2. Alone(c) /\ Fits(c)'
    BY <1>1, <1>7, <2>1, TellMoves
       DEF Fits, NextIsKnown, TaskIsKnown, Works, Owns, Relies, Exists, At,
           Local, Unsafe, ReplaySafe, Safe, Nowhere
  <2> QED BY <1>1, <1>2, <1>7, <2>2, ActiveMoves DEF Ledgers
<1> QED BY <1>3, <1>4, <1>5, <1>6, <1>7 DEF Claim

LEMMA ReopenCommandFits ==
  ASSUME Core, UNCHANGED setting, NEW c \in Client, ReopenCommand(c)
  PROVE  Core'
<1> USE Clients
<1>1. TypeOK /\ Fits(c) /\ LedgersFit /\ At(c, "proof") /\ actor[c].seen # "none"
      /\ UNCHANGED <<route, task, effects, stray, late, setting>>
      /\ cmd' = (IF cmd.state = "failed" /\ cmd.error = actor[c].seen THEN Reopened ELSE cmd)
      /\ Finds(c, "reclaim", "none")
  BY DEF Core, AllFit, ReopenCommand, Finds
<1>2. ~At(c, "idle") /\ ~Unwinds(c)
  BY <1>1 DEF At, Unwinds
<1>3. "reclaim" \in Place /\ "none" \in Errors
  BY DEF Place, Errors, Answer
<1>4. Alone(c) /\ Fits(c)'
  BY <1>1, <1>3, SeenMoves
     DEF Fits, NextIsKnown, TaskIsKnown, Works, Owns, Relies, Exists, At,
         Local, Unsafe, ReplaySafe, Safe, Nowhere
<1>5. CASE cmd' = cmd
  BY <1>1, <1>2, <1>4, <1>5, ActiveMoves DEF Ledgers
<1>6. CASE cmd.state = "failed" /\ cmd' = Reopened
  <2>1. cmd' \in Command /\ cmd'.state = "pending"
    BY <1>1, <1>6, CommandTypes
  <2>2. TypeOK' /\ LedgersFit'
    BY <1>1, <1>4, <2>1
       DEF TypeOK, Alone, LedgersFit, Exists, Nowhere, Local, Unsafe, ReplaySafe, Safe
  <2> QED BY <1>1, <1>2, <1>4, <1>6, <2>2, WaiterMoves
<1> QED BY <1>1, <1>5, <1>6

LEMMA CleanupFits ==
  ASSUME Core, UNCHANGED setting, NEW c \in Client, Cleanup(c)
  PROVE  Core'
<1> USE Clients
<1>1. TypeOK /\ Fits(c) /\ LedgersFit /\ At(c, "cleanup") /\ Tell(c, actor[c].out)
      /\ UNCHANGED <<route, task, effects, stray, late, setting>> /\ actor[c].out \in Answer
  BY FieldTypes DEF Core, AllFit, Cleanup
<1>2. Alone(c) /\ At(c, "idle")' /\ ~Works(c)'
  BY <1>1, TellMoves DEF Works, At
<1>3. Fits(c)'
  BY <1>1, <1>2, TellMoves
     DEF Fits, NextIsKnown, TaskIsKnown, Owns, Relies, Exists, At,
         Local, Unsafe, ReplaySafe, Safe, Nowhere
<1>4. \A w \in late : w[2] = c => LateFits(w)'
  BY <1>1, <1>2 DEF Core, LateFit, LateFits, Exists
<1>5. CASE ~Owns(c)
  <2>1. cmd' = cmd
    BY <1>5 DEF Cleanup
  <2> QED BY <1>1, <1>2, <1>3, <1>4, <2>1, OnlyMoves DEF Ledgers
<1>6. CASE Owns(c)
  <2>1. cmd' \in Command /\ cmd'.state \in {"processing", "pending", "failed"}
    <3> DEFINE failed == [cmd EXCEPT !.state = "failed", !.owner = Nobody, !.error = actor[c].out]
    <3>1. failed \in Command /\ failed.state = "failed"
      BY <1>1 DEF TypeOK, Command, CommandState, Errors
    <3>2. cmd' \in {cmd, Released, Reopened, failed}
      <4>1. actor[c].end \in Ending
        BY <1>1, FieldTypes
      <4> QED BY <1>6, <4>1 DEF Cleanup, Ending
    <3> HIDE DEF failed
    <3>3. cmd \in Command /\ cmd.state = "processing"
      BY <1>1, <1>6 DEF TypeOK, Owns
    <3> QED BY <1>1, <3>1, <3>2, <3>3, CommandTypes
  <2>2. TypeOK' /\ LedgersFit'
    BY <1>1, <1>2, <2>1
       DEF TypeOK, Alone, LedgersFit, Exists, Nowhere, Local, Unsafe, ReplaySafe, Safe
  <2>3. Exists => Exists'
    BY <1>1 DEF Exists
  <2> QED BY <1>1, <1>2, <1>3, <1>4, <1>6, <2>2, <2>3, OwnerMoves DEF TypeOK
<1> QED BY <1>5, <1>6

LEMMA CompleteFits ==
  ASSUME Core, UNCHANGED setting, NEW c \in Client, Complete(c)
  PROVE  Core'
<1> USE Clients
<1>1. TypeOK /\ Fits(c) /\ LedgersFit /\ At(c, "complete") /\ Tell(c, "created")
      /\ "created" \in Answer
      /\ UNCHANGED <<route, task, effects, stray, late, setting>>
      /\ cmd' = [cmd EXCEPT !.state = "succeeded", !.owner = Nobody, !.error = "none"]
  BY DEF Core, AllFit, Complete, Answer
<1>2. Exists /\ Works(c)
  BY <1>1 DEF Fits, Relies, At, Works
<1>3. Alone(c) /\ Fits(c)'
  BY <1>1, <1>2, TellMoves
     DEF Fits, NextIsKnown, TaskIsKnown, Works, Owns, Relies, Exists, At,
         Local, Unsafe, ReplaySafe, Safe, Nowhere
<1>4. cmd' \in Command
  BY <1>1 DEF TypeOK, Command, CommandState, Errors, Answer
<1>5. TypeOK' /\ LedgersFit' /\ Exists'
  BY <1>1, <1>2, <1>3, <1>4
     DEF TypeOK, Alone, LedgersFit, Exists, Nowhere, Local, Unsafe, ReplaySafe, Safe
<1> QED BY <1>1, <1>2, <1>3, <1>5, WorkerMoves DEF TypeOK

LEMMA MarkCommandFits ==
  ASSUME Core, UNCHANGED setting, NEW c \in Client, MarkCommand(c)
  PROVE  Core'
<1> USE Clients
<1>1. TypeOK /\ Fits(c) /\ LedgersFit /\ At(c, "mark_command") /\ Go(c, "mark_route")
      /\ "mark_route" \in Place /\ Owns(c)
      /\ UNCHANGED <<route, task, effects, stray, late, setting>>
      /\ cmd' = [cmd EXCEPT !.started = TRUE, !.safe = ReplaySafe]
  BY DEF Core, AllFit, MarkCommand, Place
<1>2. ReplaySafe \in BOOLEAN
  BY <1>1, ConstantsAssumption DEF TypeOK, ReplaySafe, Local, Safe
<1>3. cmd' \in Command /\ cmd'.state = cmd.state /\ cmd'.owner = cmd.owner
  <2> DEFINE safe == ReplaySafe
  <2>1. safe \in BOOLEAN /\ cmd' = [cmd EXCEPT !.started = TRUE, !.safe = safe]
    BY <1>1, <1>2
  <2> HIDE DEF safe
  <2> QED BY <1>1, <2>1 DEF TypeOK, Command
<1>4. Alone(c) /\ Fits(c)' /\ Works(c)
  BY <1>1, <1>3, GoMoves
     DEF Fits, NextIsKnown, TaskIsKnown, Works, Owns, Relies, Exists, At,
         Local, Unsafe, ReplaySafe, Safe, Nowhere
<1>5. TypeOK' /\ LedgersFit' /\ (Exists => Exists')
  BY <1>1, <1>3, <1>4
     DEF TypeOK, Alone, LedgersFit, Exists, Nowhere, Local, Unsafe, ReplaySafe, Safe
<1> QED BY <1>1, <1>4, <1>5, WorkerMoves DEF TypeOK

-----------------------------------------------------------------------------
(* Steps that change the route.                                             *)

\* A transition of the store goes nowhere from a final state, and keeps the boundary.
LEMMA TransitionMoves ==
  ASSUME TypeOK, NEW s \in RouteState, Transition(s)
  PROVE  /\ route' \in Route /\ route'.boundary = route.boundary
         /\ route'.state = s \/ route'.state = route.state
         /\ route.state \in {"failed", "uncertain"} => route'.state = route.state
         /\ route'.state = "none" <=> route.state = "none"
<1>1. route \in Route /\ route.state \in RouteState
  BY DEF TypeOK, Route
<1>2. CASE s \in Allowed[route.state]
  <2>1. route' = [route EXCEPT !.state = s]
    BY <1>2 DEF Transition
  <2>2. route' \in Route /\ route'.boundary = route.boundary /\ route'.state = s
    BY <1>1, <2>1 DEF Route
  <2> QED BY <1>1, <1>2, <2>2 DEF Allowed, RouteState
<1>3. CASE s \notin Allowed[route.state]
  BY <1>1, <1>3 DEF Transition
<1> QED BY <1>2, <1>3

\* What the ledgers of the others are after a transition.
LEMMA TransitionFits ==
  ASSUME Core, NEW s \in RouteState, Transition(s), s = "active" => Exists,
         UNCHANGED <<cmd, task, effects, stray, setting>>
  PROVE  LedgersFit' /\ (route'.state = "active" => Exists)
<1>1. TypeOK /\ LedgersFit
  BY DEF Core
<1>2. route'.state = "active" => Exists
  BY <1>1, TransitionMoves DEF LedgersFit
<1>3. route'.state = "none" => route'.boundary = "reserved"
  BY <1>1, TransitionMoves DEF LedgersFit
<1>4. route'.boundary = route.boundary
  BY <1>1, TransitionMoves
<1> QED BY <1>1, <1>2, <1>3, <1>4 DEF LedgersFit, Exists, Nowhere, Local, Unsafe, ReplaySafe, Safe

LEMMA TerminalFits ==
  ASSUME Core, UNCHANGED setting, NEW c \in Client, Terminal(c)
  PROVE  Core'
<1> USE Clients
<1>1. TypeOK /\ Fits(c) /\ LedgersFit /\ At(c, "terminal")
      /\ UNCHANGED <<cmd, task, effects, stray, late, setting>>
      /\ actor[c].view \in RouteState
  BY FieldTypes DEF Core, AllFit, Terminal
<1>2. ~At(c, "idle") /\ ~Unwinds(c)
  BY <1>1 DEF At, Unwinds
<1>3. CASE actor[c].view # "pending" /\ Tell(c, Outcome(actor[c].view)) /\ UNCHANGED route
  <2>1. PICK answer \in {"completed", "not_started", "uncertain"} :
          Tell(c, answer) /\ (answer = "completed" => actor[c].view = "active")
    BY <1>3 DEF Outcome
  <2>2. answer \in Answer
    BY DEF Answer
  <2>3. Alone(c) /\ Fits(c)'
    BY <1>1, <1>3, <2>1, <2>2, TellMoves
       DEF Fits, NextIsKnown, TaskIsKnown, Works, Owns, Relies, Exists, At,
           Local, Unsafe, ReplaySafe, Safe, Nowhere
  <2> QED BY <1>1, <1>2, <1>3, <2>3, ActiveMoves DEF Ledgers
<1>4. CASE "uncertain" \in Allowed[route.state] /\ Tell(c, "uncertain")
           /\ route' = [route EXCEPT !.state = "uncertain"]
  <2>1. "uncertain" \in Answer /\ "uncertain" \in RouteState /\ Transition("uncertain")
    BY <1>4 DEF Answer, RouteState, Transition
  <2>2. Alone(c) /\ Fits(c)'
    BY <1>1, <1>4, <2>1, TellMoves
       DEF Fits, NextIsKnown, TaskIsKnown, Works, Owns, Relies, Exists, At,
           Local, Unsafe, ReplaySafe, Safe, Nowhere
  <2>3. route' \in Route /\ route'.boundary = route.boundary /\ LedgersFit'
        /\ (route.state \in {"failed", "uncertain"} => route'.state = route.state)
    BY <1>1, <2>1, TransitionMoves, TransitionFits
  <2>4. TypeOK'
    BY <1>1, <2>2, <2>3 DEF TypeOK, Alone
  <2>5. \A w \in late : w[2] # c
    BY <1>2, NothingLeft
  <2> QED BY <1>1, <2>2, <2>3, <2>4, <2>5, RouteMoves
<1>5. CASE Tell(c, "gone") /\ UNCHANGED route
  <2>1. "gone" \in Answer
    BY DEF Answer
  <2>2. Alone(c) /\ Fits(c)'
    BY <1>1, <1>5, <2>1, TellMoves
       DEF Fits, NextIsKnown, TaskIsKnown, Works, Owns, Relies, Exists, At,
           Local, Unsafe, ReplaySafe, Safe, Nowhere
  <2> QED BY <1>1, <1>2, <1>5, <2>2, ActiveMoves DEF Ledgers
<1> QED BY <1>3, <1>4, <1>5 DEF Terminal

LEMMA SettleFits ==
  ASSUME Core, UNCHANGED setting, NEW a \in Actor, Settle(a)
  PROVE  Core'
<1>1. TypeOK /\ Fits(a) /\ LedgersFit /\ At(a, "settle") /\ actor[a].aim \in RouteState
      /\ Transition(actor[a].aim) /\ UNCHANGED <<cmd, task, effects, stray, late, setting>>
  BY FieldTypes DEF Core, AllFit, Settle
<1>2. actor[a].aim = "active" => Exists
  BY <1>1 DEF Fits, Relies
<1>3. /\ route' \in Route /\ route'.boundary = route.boundary /\ LedgersFit'
      /\ route.state \in {"failed", "uncertain"} => route'.state = route.state
      /\ route'.state = "active" => Exists
  BY <1>1, <1>2, TransitionMoves, TransitionFits
<1>4. PICK view \in RouteState : Return(a, view) /\ view = route'.state
  BY <1>3 DEF Settle, Route
<1>5. Alone(a) /\ Fits(a)'
  BY <1>1, <1>3, <1>4, ReturnMoves
     DEF Fits, NextIsKnown, TaskIsKnown, Works, Owns, Relies, Exists, At, Reads,
         Local, Unsafe, ReplaySafe, Safe, Nowhere
<1>6. TypeOK'
  BY <1>1, <1>3, <1>5 DEF TypeOK, Alone
<1>7. ASSUME NEW w \in late, w[2] = a
      PROVE  LateFits(w)'
  <2>1. LateFits(w) /\ w[1] # "claim" /\ actor[a].next \in {"cleanup", "proof", "doubt"}
    BY <1>1, <1>7 DEF Core, LateFit, LateFits, At, Unwinds
  <2> QED BY <1>1, <1>4, <1>7, <2>1, ReturnMoves
          DEF LateFits, Unwinds, Exists, At, Fits, NextIsKnown
<1> QED BY <1>1, <1>3, <1>5, <1>6, <1>7, RouteMoves

LEMMA DoubtFits ==
  ASSUME Core, UNCHANGED setting, NEW c \in Client, Doubt(c)
  PROVE  Core'
<1> USE Clients
<1>1. TypeOK /\ Fits(c) /\ LedgersFit /\ At(c, "doubt")
      /\ UNCHANGED <<cmd, task, effects, stray, late, setting>>
      /\ End(c, "fail", "gone") /\ "fail" \in Ending /\ "gone" \in Answer
  BY DEF Core, AllFit, Doubt, Ending, Answer
<1>2. /\ route' \in Route /\ route'.boundary = route.boundary /\ LedgersFit'
      /\ route.state \in {"failed", "uncertain"} => route'.state = route.state
  <2>1. CASE Transition("uncertain")
    <3>1. "uncertain" \in RouteState
      BY DEF RouteState
    <3> QED BY <1>1, <2>1, <3>1, TransitionMoves, TransitionFits
  <2>2. CASE UNCHANGED route
    BY <1>1, <2>2 DEF LedgersFit, Exists, Nowhere, Local, Unsafe, ReplaySafe, Safe, TypeOK
  <2> QED BY <2>1, <2>2 DEF Doubt
<1>3. Alone(c) /\ Fits(c)'
  BY <1>1, <1>2, EndMoves
     DEF Fits, NextIsKnown, TaskIsKnown, Works, Owns, Relies, Exists, At,
         Local, Unsafe, ReplaySafe, Safe, Nowhere
<1>4. TypeOK'
  BY <1>1, <1>2, <1>3 DEF TypeOK, Alone
<1>5. ASSUME NEW w \in late, w[2] = c
      PROVE  LateFits(w)'
  <2>1. LateFits(w) /\ w[1] # "claim"
    BY <1>1, <1>5 DEF Core, LateFit, LateFits, At
  <2> QED BY <1>1, <1>5, <2>1, EndMoves DEF LateFits, Unwinds, Exists, At
<1> QED BY <1>1, <1>2, <1>3, <1>4, <1>5, RouteMoves

LEMMA FailRouteFits ==
  ASSUME Core, UNCHANGED setting, NEW c \in Client, FailRoute(c)
  PROVE  Core'
<1> USE Clients
<1>1. TypeOK /\ Fits(c) /\ LedgersFit /\ At(c, "fail_route") /\ actor[c].aim \in RouteState
      /\ UNCHANGED <<cmd, task, effects, stray, late, setting>> /\ Works(c)
      /\ Go(c, "cleanup") /\ "cleanup" \in Place
  BY FieldTypes DEF Core, AllFit, FailRoute, Place, Works, At
<1>2. actor[c].aim = "active" => Exists
  BY <1>1 DEF Fits, Relies
<1>3. /\ route' \in Route /\ route'.boundary = route.boundary /\ LedgersFit'
      /\ route.state \in {"failed", "uncertain"} => route'.state = route.state
  <2>1. CASE Transition(actor[c].aim)
    BY <1>1, <1>2, <2>1, TransitionMoves, TransitionFits
  <2>2. CASE UNCHANGED route
    BY <1>1, <2>2 DEF LedgersFit, Exists, Nowhere, Local, Unsafe, ReplaySafe, Safe, TypeOK
  <2> QED BY <2>1, <2>2 DEF FailRoute
<1>4. Alone(c) /\ Fits(c)'
  BY <1>1, <1>3, GoMoves
     DEF Fits, NextIsKnown, TaskIsKnown, Works, Owns, Relies, Exists, At,
         Local, Unsafe, ReplaySafe, Safe, Nowhere
<1>5. TypeOK' /\ (Exists => Exists')
  BY <1>1, <1>3, <1>4 DEF TypeOK, Alone, Exists
<1> QED BY <1>1, <1>3, <1>4, <1>5, WorkerMoves DEF TypeOK

LEMMA ActivateFits ==
  ASSUME Core, UNCHANGED setting, NEW c \in Client, Activate(c)
  PROVE  Core'
<1> USE Clients
<1>1. TypeOK /\ Fits(c) /\ LedgersFit /\ At(c, "activate")
      /\ UNCHANGED <<cmd, task, effects, stray, late, setting>> /\ Works(c)
      /\ Go(c, "complete") /\ "complete" \in Place
      /\ Transition("active") /\ "active" \in RouteState
  BY DEF Core, AllFit, Activate, Place, Works, At, Transition, RouteState
<1>2. Exists
  BY <1>1 DEF Fits, Relies, At
<1>3. /\ route' \in Route /\ route'.boundary = route.boundary /\ LedgersFit'
      /\ route.state \in {"failed", "uncertain"} => route'.state = route.state
  BY <1>1, <1>2, TransitionMoves, TransitionFits
<1>4. Alone(c) /\ Fits(c)'
  BY <1>1, <1>2, <1>3, GoMoves
     DEF Fits, NextIsKnown, TaskIsKnown, Works, Owns, Relies, Exists, At,
         Local, Unsafe, ReplaySafe, Safe, Nowhere
<1>5. TypeOK' /\ (Exists => Exists')
  BY <1>1, <1>3, <1>4 DEF TypeOK, Alone, Exists
<1> QED BY <1>1, <1>3, <1>4, <1>5, WorkerMoves DEF TypeOK

LEMMA MarkRouteFits ==
  ASSUME Core, UNCHANGED setting, NEW c \in Client, MarkRoute(c)
  PROVE  Core'
<1> USE Clients
<1>1. TypeOK /\ Fits(c) /\ LedgersFit /\ At(c, "mark_route") /\ route.state = "pending"
      /\ UNCHANGED <<cmd, task, effects, stray, late, setting>> /\ Works(c)
      /\ Go(c, "spawn") /\ "spawn" \in Place /\ route' = [route EXCEPT !.boundary = "started"]
  BY DEF Core, AllFit, MarkRoute, Place, Works, At
<1>2. route' \in Route /\ route'.boundary = "started" /\ route'.state = route.state
  BY <1>1 DEF TypeOK, Route
<1>3. Alone(c) /\ Fits(c)'
  BY <1>1, <1>2, GoMoves
     DEF Fits, NextIsKnown, TaskIsKnown, Works, Owns, Relies, Exists, At,
         Local, Unsafe, ReplaySafe, Safe, Nowhere
<1>4. TypeOK' /\ LedgersFit' /\ (Exists => Exists')
  BY <1>1, <1>2, <1>3
     DEF TypeOK, Alone, LedgersFit, Exists, Nowhere, Local, Unsafe, ReplaySafe, Safe
<1> QED BY <1>1, <1>2, <1>3, <1>4, WorkerMoves DEF TypeOK

LEMMA RestoreFits ==
  ASSUME Core, UNCHANGED setting, NEW c \in Client, Restore(c)
  PROVE  Core'
<1> USE Clients
<1>1. TypeOK /\ Fits(c) /\ LedgersFit /\ At(c, "restore") /\ Works(c)
      /\ UNCHANGED <<cmd, task, effects, stray, late, setting>>
  BY DEF Core, AllFit, Restore, Works, At
<1>2. CASE End(c, "fail", "not_started") /\ UNCHANGED route
  <2>1. "fail" \in Ending /\ "not_started" \in Answer
    BY DEF Ending, Answer
  <2>2. Alone(c) /\ Fits(c)'
    BY <1>1, <1>2, <2>1, EndMoves
       DEF Fits, NextIsKnown, TaskIsKnown, Works, Owns, Relies, Exists, At,
           Local, Unsafe, ReplaySafe, Safe, Nowhere
  <2> QED BY <1>1, <1>2, <2>2, ActiveMoves DEF Ledgers, Unwinds, At
<1>3. CASE route.state = "pending" /\ route' = [route EXCEPT !.boundary = "reserved"]
           /\ Go(c, "cleanup")
  <2>1. route' \in Route /\ route'.boundary = "reserved" /\ route'.state = route.state
        /\ "cleanup" \in Place
    BY <1>1, <1>3 DEF TypeOK, Route, Place
  <2>2. Alone(c) /\ Fits(c)'
    BY <1>1, <1>3, <2>1, GoMoves
       DEF Fits, NextIsKnown, TaskIsKnown, Works, Owns, Relies, Exists, At,
           Local, Unsafe, ReplaySafe, Safe, Nowhere
  <2>3. ~Local /\ (Unsafe => Nowhere)
    BY <1>1 DEF Fits, TaskIsKnown
  <2>4. TypeOK' /\ LedgersFit' /\ (Exists => Exists')
    BY <1>1, <1>3, <2>1, <2>2, <2>3
       DEF TypeOK, Alone, LedgersFit, Exists, Nowhere, Local, Unsafe, ReplaySafe, Safe
  <2> QED BY <1>1, <2>1, <2>2, <2>4, WorkerMoves DEF TypeOK
<1> QED BY <1>2, <1>3 DEF Restore

LEMMA ReserveFits ==
  ASSUME Core, UNCHANGED setting, NEW c \in Client, Reserve(c)
  PROVE  Core'
<1> USE Clients
<1>1. TypeOK /\ Fits(c) /\ LedgersFit /\ At(c, "admitted") /\ Works(c)
      /\ UNCHANGED <<cmd, task, effects, stray, late, setting>>
  BY DEF Core, AllFit, Reserve, Works, At
<1>2. /\ route' \in Route /\ route'.boundary = route.boundary
      /\ route'.state = IF route.state = "none" THEN "pending" ELSE route.state
  BY <1>1 DEF Reserve, TypeOK, Route, RouteState, LedgersFit
<1>3. PICK place \in {"begin", "examine"}, view \in RouteState :
        /\ view = route'.state
        /\ Reserves(c, place, view)
  BY <1>2 DEF Reserve, Route, Reserves
<1>4. place \in Place
  BY DEF Place
<1>5. Alone(c) /\ actor'[c].at = place /\ actor'[c].view = view /\ actor'[c].next = "begin"
      /\ actor'[c].out = actor[c].out /\ actor'[c].told = actor[c].told
      /\ actor'[c].aim = actor[c].aim /\ actor'[c].call = actor[c].call
  <2>1. TypeOK /\ c \in Actor /\ place \in Place /\ view \in RouteState
        /\ Reserves(c, place, view)
    BY <1>1, <1>3, <1>4
  <2> QED BY <2>1, ReserveMoves
<1>6. Fits(c)'
  <2>1. view = "active" => Exists'
    BY <1>1, <1>2, <1>3 DEF LedgersFit, Exists
  <2>2. NextIsKnown(c)' /\ TaskIsKnown(c)' /\ Owns(c)'
    BY <1>1, <1>3, <1>5
       DEF Fits, NextIsKnown, TaskIsKnown, Owns, At, Local, Unsafe, ReplaySafe, Safe, Nowhere
  <2>3. Relies(c)' => Exists'
    BY <1>1, <1>3, <1>5, <2>1 DEF Fits, Relies, At, Exists
  <2> QED BY <1>3, <1>5, <2>2, <2>3 DEF Fits
<1>7. TypeOK' /\ LedgersFit' /\ (Exists => Exists')
  BY <1>1, <1>2, <1>5
     DEF TypeOK, Alone, LedgersFit, Exists, Nowhere, Local, Unsafe, ReplaySafe, Safe
<1> QED BY <1>1, <1>2, <1>5, <1>6, <1>7, WorkerMoves DEF TypeOK

-----------------------------------------------------------------------------
(* Steps of the spawn.                                                      *)

\* What may exist is counted within its bound.
LEMMA Counts ==
  ASSUME TypeOK
  PROVE  /\ effects \in Nat /\ stray \in Nat /\ MaxEffects \in Nat /\ Cardinality(Client) \in Nat
         /\ effects <= MaxEffects /\ stray <= Cardinality(Client)
<1>1. MaxEffects \in Nat /\ Cardinality(Client) \in Nat
  BY ConstantsAssumption, FS_CardinalityType
<1> QED BY <1>1 DEF TypeOK

LEMMA SpawnLocalFits ==
  ASSUME Core, UNCHANGED setting, NEW c \in Client, SpawnLocal(c)
  PROVE  Core'
<1> USE Clients
<1>1. TypeOK /\ Fits(c) /\ LedgersFit /\ At(c, "spawn") /\ Works(c) /\ Local
      /\ UNCHANGED <<cmd, route, effects, stray, late, setting>>
      /\ task' = IF task = "none" THEN "pending" ELSE task
  BY DEF Core, AllFit, SpawnLocal, Works, At
<1>2. PICK place \in {"activate", "start"} :
        Go(c, place) /\ (place = "activate" <=> task = "run")
  BY DEF SpawnLocal
<1>3. place \in Place /\ task' \in TaskRow
  BY <1>1 DEF Place, TaskRow, TypeOK
<1>4. /\ task \in {"none", "pending", "run"} /\ task' \in {"pending", "run"}
      /\ task = "run" <=> task' = "run"
  BY <1>1 DEF LedgersFit, TypeOK, TaskRow
<1>5. Alone(c) /\ Fits(c)'
  BY <1>1, <1>2, <1>3, <1>4, GoMoves
     DEF Fits, NextIsKnown, TaskIsKnown, Works, Owns, Relies, Exists, At, LedgersFit,
         Local, Unsafe, ReplaySafe, Safe, Nowhere
<1>6. TypeOK' /\ LedgersFit' /\ (Exists => Exists')
  BY <1>1, <1>3, <1>4, <1>5
     DEF TypeOK, Alone, LedgersFit, Exists, Nowhere, Local, Unsafe, ReplaySafe, Safe
<1> QED BY <1>1, <1>5, <1>6, Counts, WorkerMoves

LEMMA StartLocalFits ==
  ASSUME Core, UNCHANGED setting, NEW c \in Client, StartLocal(c)
  PROVE  Core'
<1> USE Clients
<1>1. TypeOK /\ Fits(c) /\ LedgersFit /\ At(c, "start") /\ Works(c)
      /\ UNCHANGED <<cmd, route, stray, late, setting>>
      /\ task' = "run" /\ effects' = effects + 1 /\ effects < MaxEffects
      /\ Go(c, "activate") /\ "activate" \in Place
  BY DEF Core, AllFit, StartLocal, Works, At, Place
<1>2. Local /\ task = "pending" /\ route.boundary = "started"
  BY <1>1 DEF Fits, TaskIsKnown, At
<1>3. effects = 0 /\ effects' = 1 /\ effects' \in 0..MaxEffects
  BY <1>1, <1>2, Counts DEF LedgersFit
<1>4. Alone(c) /\ Fits(c)'
  BY <1>1, <1>2, <1>3, GoMoves
     DEF Fits, NextIsKnown, TaskIsKnown, Works, Owns, Relies, Exists, At, LedgersFit,
         Local, Unsafe, ReplaySafe, Safe, Nowhere
<1>5. TypeOK'
  BY <1>1, <1>3, <1>4 DEF TypeOK, Alone, TaskRow
<1>6. LedgersFit' /\ (Exists => Exists')
  BY <1>1, <1>2, <1>3 DEF LedgersFit, Exists, Nowhere, Local, Unsafe, ReplaySafe, Safe
<1> QED BY <1>1, <1>3, <1>4, <1>5, <1>6, WorkerMoves

LEMMA SpawnRemoteFits ==
  ASSUME Core, UNCHANGED setting, NEW c \in Client, SpawnRemote(c)
  PROVE  Core'
<1> USE Clients
<1>1. TypeOK /\ Fits(c) /\ LedgersFit /\ At(c, "spawn") /\ Works(c) /\ ~Local
      /\ UNCHANGED <<cmd, route, effects, stray, late, setting>> /\ ~Unwinds(c) /\ ~At(c, "idle")
      /\ route.boundary = "started"
  BY DEF Core, AllFit, SpawnRemote, Works, At, Unwinds, Fits, TaskIsKnown
<1>2. CASE task = "bound" /\ Go(c, "activate") /\ UNCHANGED task
  <2>1. "activate" \in Place
    BY DEF Place
  <2>2. Alone(c) /\ Fits(c)'
    BY <1>1, <1>2, <2>1, GoMoves
       DEF Fits, NextIsKnown, TaskIsKnown, Works, Owns, Relies, Exists, At, LedgersFit,
           Local, Unsafe, ReplaySafe, Safe, Nowhere
  <2> QED BY <1>1, <1>2, <2>2, ActiveMoves DEF Ledgers
<1>3. CASE (task \in {"none", "proxy"} \/ (task = "doubt" /\ Safe)) /\ task' = "doubt" /\ Go(c, "call")
  <2>1. "call" \in Place /\ task' \in TaskRow
    BY <1>3 DEF Place, TaskRow
  <2>2. Unsafe => Nowhere
    BY <1>1, <1>3 DEF Unsafe, ReplaySafe, LedgersFit
  <2>3. Alone(c) /\ Fits(c)'
    BY <1>1, <1>3, <2>1, <2>2, GoMoves
       DEF Fits, NextIsKnown, TaskIsKnown, Works, Owns, Relies, Exists, At, LedgersFit,
           Local, Unsafe, ReplaySafe, Safe, Nowhere
  <2>4. TypeOK' /\ LedgersFit' /\ (Exists => Exists')
    BY <1>1, <1>3, <2>1, <2>3
       DEF TypeOK, Alone, LedgersFit, Exists, Nowhere, Local, Unsafe, ReplaySafe, Safe
  <2> QED BY <1>1, <2>3, <2>4, Counts, WorkerMoves
<1>4. CASE FailRouteAs(c, "uncertain", "uncertain") /\ UNCHANGED task
  <2>1. "uncertain" \in RouteState /\ "uncertain" \in Answer
    BY DEF RouteState, Answer
  <2>2. Alone(c) /\ Fits(c)'
    BY <1>1, <1>4, <2>1, FailRouteMoves
       DEF Fits, NextIsKnown, TaskIsKnown, Works, Owns, Relies, Exists, At, LedgersFit,
           Local, Unsafe, ReplaySafe, Safe, Nowhere
  <2> QED BY <1>1, <1>4, <2>2, ActiveMoves DEF Ledgers
<1> QED BY <1>2, <1>3, <1>4 DEF SpawnRemote

LEMMA NoConnectionFits ==
  ASSUME Core, UNCHANGED setting, NEW c \in Client, NoConnection(c)
  PROVE  Core'
<1> USE Clients
<1>1. TypeOK /\ Fits(c) /\ LedgersFit /\ At(c, "call") /\ Works(c) /\ actor[c].call = "none"
      /\ UNCHANGED <<cmd, route, effects, stray, late, setting>> /\ task' = "proxy"
      /\ Restores(c, "release_not_dispatched", "retry")
  BY DEF Core, AllFit, NoConnection, Works, At, Restores
<1>2. ~Local /\ task = "doubt" /\ (Unsafe => Nowhere) /\ task' \in TaskRow
  BY <1>1 DEF Fits, TaskIsKnown, At, TaskRow
<1>3. "release_not_dispatched" \in Ending /\ "retry" \in Answer /\ ~Exists
  BY <1>2 DEF Ending, Answer, Exists
<1>4. Alone(c) /\ Fits(c)'
  BY <1>1, <1>2, <1>3, RestoreMoves
     DEF Fits, NextIsKnown, TaskIsKnown, Works, Owns, Relies, At,
         Local, Unsafe, ReplaySafe, Safe, Nowhere
<1>5. TypeOK' /\ LedgersFit'
  BY <1>1, <1>2, <1>4
     DEF TypeOK, Alone, LedgersFit, Exists, Nowhere, Local, Unsafe, ReplaySafe, Safe
<1> QED BY <1>1, <1>3, <1>4, <1>5, Counts, WorkerMoves

LEMMA RefusedFits ==
  ASSUME Core, UNCHANGED setting, NEW c \in Client, Refused(c)
  PROVE  Core'
<1> USE Clients
<1>1. TypeOK /\ Fits(c) /\ LedgersFit /\ At(c, "call") /\ Works(c) /\ effects = 0
      /\ UNCHANGED <<cmd, route, effects, late, setting>> /\ task' = "proxy" /\ stray' = 0
      /\ FailRouteAs(c, "failed", "not_started") /\ "failed" \in RouteState
      /\ "not_started" \in Answer /\ "proxy" \in TaskRow
  BY DEF Core, AllFit, Refused, Works, At, RouteState, Answer, TaskRow
<1>2. ~Local
  BY <1>1 DEF Fits, TaskIsKnown, At
<1>3. ~Exists
  BY <1>1 DEF Exists
<1>4. Alone(c) /\ Fits(c)'
  BY <1>1, <1>2, <1>3, FailRouteMoves
     DEF Fits, NextIsKnown, TaskIsKnown, Works, Owns, Relies, At,
         Local, Unsafe, ReplaySafe, Safe, Nowhere
<1>5. TypeOK'
  BY <1>1, <1>4, Counts DEF TypeOK, Alone
<1>6. LedgersFit'
  BY <1>1, <1>2, <1>3 DEF LedgersFit, Exists, Nowhere, Local, Unsafe, ReplaySafe, Safe
<1> QED BY <1>1, <1>3, <1>4, <1>5, <1>6, Counts, WorkerMoves

LEMMA LostFits ==
  ASSUME Core, UNCHANGED setting, NEW c \in Client, Lost(c)
  PROVE  Core'
<1> USE Clients
<1>1. TypeOK /\ Fits(c) /\ LedgersFit /\ At(c, "call") /\ Works(c) /\ GiveUp(c)
      /\ UNCHANGED <<cmd, route, task, effects, late, setting>>
  BY DEF Core, AllFit, Lost, Works, At
<1>2. stray' \in 0..Cardinality(Client) /\ LedgersFit'
  BY <1>1, GiveUpFits DEF At
<1>3. Alone(c) /\ Fits(c)'
  <2>1. CASE End(c, "release", "retry")
    <3>1. "release" \in Ending /\ "retry" \in Answer
      BY DEF Ending, Answer
    <3> QED BY <1>1, <2>1, <3>1, EndMoves
            DEF Fits, NextIsKnown, TaskIsKnown, Works, Owns, Relies, Exists, At,
                Local, Unsafe, ReplaySafe, Safe, Nowhere
  <2>2. CASE FailRouteAs(c, "uncertain", "uncertain")
    <3>1. "uncertain" \in RouteState /\ "uncertain" \in Answer
      BY DEF RouteState, Answer
    <3> QED BY <1>1, <2>2, <3>1, FailRouteMoves
            DEF Fits, NextIsKnown, TaskIsKnown, Works, Owns, Relies, Exists, At,
                Local, Unsafe, ReplaySafe, Safe, Nowhere
  <2> QED BY <2>1, <2>2 DEF Lost
<1>4. TypeOK' /\ (Exists => Exists')
  BY <1>1, <1>2, <1>3 DEF TypeOK, Alone, Exists
<1> QED BY <1>1, <1>2, <1>3, <1>4, Counts, WorkerMoves

LEMMA BindFits ==
  ASSUME Core, UNCHANGED setting, NEW c \in Client, Bind(c)
  PROVE  Core'
<1> USE Clients
<1>1. TypeOK /\ Fits(c) /\ LedgersFit /\ At(c, "call") /\ Works(c) /\ actor[c].call = "made"
      /\ UNCHANGED <<cmd, route, effects, stray, late, setting>> /\ task' = "bound"
      /\ Go(c, "activate") /\ "activate" \in Place /\ "bound" \in TaskRow
  BY DEF Core, AllFit, Bind, Works, At, Place, TaskRow
<1>2. effects > 0 /\ ~Local
  BY <1>1 DEF Fits, TaskIsKnown
<1>3. Alone(c) /\ Fits(c)'
  BY <1>1, <1>2, GoMoves
     DEF Fits, NextIsKnown, TaskIsKnown, Works, Owns, Relies, Exists, At,
         Local, Unsafe, ReplaySafe, Safe, Nowhere
<1>4. TypeOK' /\ LedgersFit' /\ Exists'
  BY <1>1, <1>2, <1>3
     DEF TypeOK, Alone, LedgersFit, Exists, Nowhere, Local, Unsafe, ReplaySafe, Safe
<1> QED BY <1>1, <1>3, <1>4, Counts, WorkerMoves

\* The upstream Gateway makes at most one Task for a request that arrives.
LEMMA MadeFits ==
  ASSUME TypeOK, LedgersFit, ~Local, Unsafe => effects = 0, Made <= MaxEffects
  PROVE  Made = 1 /\ Made \in 0..MaxEffects /\ effects <= Made
<1>1. effects \in 0..1
  BY Counts DEF LedgersFit
<1> QED BY <1>1, Counts DEF Made, Unsafe, ReplaySafe

LEMMA ArriveFits ==
  ASSUME Core, UNCHANGED setting, NEW c \in Client, Arrive(c)
  PROVE  Core'
<1> USE Clients
<1>1. TypeOK /\ Fits(c) /\ LedgersFit /\ At(c, "call") /\ Works(c) /\ actor[c].call = "flying"
      /\ UNCHANGED <<cmd, route, task, stray, late, setting>>
      /\ effects' = Made /\ Made <= MaxEffects
  BY DEF Core, AllFit, Arrive, Works, At
<1>2. ~Local /\ task = "doubt" /\ (Unsafe => Nowhere) /\ route.boundary = "started"
  BY <1>1 DEF Fits, TaskIsKnown, At
<1>3. effects' = 1 /\ effects' \in 0..MaxEffects /\ effects' >= effects /\ effects <= 1
  BY <1>1, <1>2, MadeFits, Counts DEF Nowhere, LedgersFit
<1>4. ~Exists /\ Calls(c, "made")
  BY <1>2 DEF Exists, Arrive, Calls
<1>5. Alone(c) /\ Fits(c)'
  BY <1>1, <1>2, <1>3, <1>4, CallMoves
     DEF Fits, NextIsKnown, TaskIsKnown, Works, Owns, Relies, At,
         Local, Unsafe, ReplaySafe, Safe, Nowhere
<1>6. TypeOK'
  BY <1>1, <1>3, <1>5 DEF TypeOK, Alone
<1>7. LedgersFit'
  BY <1>1, <1>2, <1>3, <1>4 DEF LedgersFit, Exists, Nowhere, Local, Unsafe, ReplaySafe, Safe
<1> QED BY <1>1, <1>3, <1>4, <1>5, <1>6, <1>7, WorkerMoves

-----------------------------------------------------------------------------
(* Steps of nobody in particular.                                           *)

LEMMA LateWriteFits ==
  ASSUME Core, UNCHANGED setting, NEW w \in late, LateWrite(w)
  PROVE  Core'
<1> DEFINE c == w[2]
<1>1. TypeOK /\ LedgersFit /\ LateFits(w) /\ late' \subseteq late /\ late' = late \ {w}
      /\ UNCHANGED <<task, effects, stray, actor, setting>>
      /\ c \in Client /\ w[1] \in Write
  BY DEF Core, LateFit, LateWrite, TypeOK
<1>2. ~Works(c)
  BY <1>1 DEF LateFits, Unwinds, Works, At
<1>3. \A b \in Actor : Works(b) => Owns(b) /\ b # c
  BY <1>2 DEF Core, AllFit, Fits
<1>4. effects \in Nat /\ ReplaySafe \in BOOLEAN
  BY <1>1, Counts, ConstantsAssumption DEF TypeOK, ReplaySafe, Local, Safe
<1> HIDE DEF c
<1>5. CASE UNCHANGED <<cmd, route>>
  <2>1. TypeOK' /\ LedgersFit' /\ Keeps /\ \A b \in Actor : Works(b) => Leaves(b)
    BY <1>1, <1>3, <1>4, <1>5
       DEF TypeOK, LedgersFit, Keeps, Leaves, Owns, Exists, Nowhere, Local, Unsafe, ReplaySafe, Safe
  <2> QED BY <1>1, <2>1, LedgerMoves
<1>6. CASE cmd.state \in {"none", "pending"} /\ cmd' = Claimed(c) /\ UNCHANGED route
  <2>1. cmd' \in Command /\ cmd'.state = "processing"
    BY <1>1, <1>6 DEF Claimed, TypeOK, Command, CommandState
  <2>2. \A b \in Actor : ~Works(b)
    BY <1>3, <1>6 DEF Owns
  <2>3. TypeOK' /\ LedgersFit' /\ Keeps
    BY <1>1, <1>4, <1>6, <2>1
       DEF TypeOK, LedgersFit, Keeps, Exists, Nowhere, Local, Unsafe, ReplaySafe, Safe
  <2> QED BY <1>1, <2>2, <2>3, LedgerMoves
<1>7. CASE cmd' = [cmd EXCEPT !.started = TRUE, !.safe = ReplaySafe] /\ UNCHANGED route
  <2> DEFINE safe == ReplaySafe
  <2>1. safe \in BOOLEAN /\ cmd' = [cmd EXCEPT !.started = TRUE, !.safe = safe]
    BY <1>4, <1>7
  <2> HIDE DEF safe
  <2>2. cmd' \in Command /\ cmd'.state = cmd.state /\ cmd'.owner = cmd.owner
    BY <1>1, <2>1 DEF TypeOK, Command
  <2>3. TypeOK' /\ LedgersFit' /\ Keeps /\ \A b \in Actor : Works(b) => Leaves(b)
    BY <1>1, <1>3, <1>4, <1>7, <2>2
       DEF TypeOK, LedgersFit, Keeps, Leaves, Owns, Exists, Nowhere, Local, Unsafe, ReplaySafe, Safe
  <2> QED BY <1>1, <2>3, LedgerMoves
<1>8. CASE route.state = "pending" /\ route' = [route EXCEPT !.boundary = "started"] /\ UNCHANGED cmd
  <2>1. route' \in Route /\ route'.state = "pending" /\ route'.boundary = "started"
    BY <1>1, <1>8 DEF TypeOK, Route
  <2>2. TypeOK' /\ LedgersFit' /\ Keeps /\ \A b \in Actor : Works(b) => Leaves(b)
    BY <1>1, <1>3, <1>4, <1>8, <2>1
       DEF TypeOK, LedgersFit, Keeps, Leaves, Owns, Exists, Nowhere, Local, Unsafe, ReplaySafe, Safe
  <2> QED BY <1>1, <2>2, LedgerMoves
<1>9. CASE w[1] = "activate" /\ Transition("active") /\ UNCHANGED cmd
  <2>1. "active" \in RouteState /\ Exists
    BY <1>1, <1>9 DEF RouteState, LateFits
  <2>2. /\ route' \in Route /\ route'.boundary = route.boundary /\ LedgersFit'
        /\ route.state \in {"failed", "uncertain"} => route'.state = route.state
    BY <1>1, <1>9, <2>1, TransitionMoves, TransitionFits
  <2>3. TypeOK' /\ Keeps /\ \A b \in Actor : Works(b) => Leaves(b)
    BY <1>1, <1>3, <1>4, <1>9, <2>2 DEF TypeOK, Keeps, Leaves, Owns, Exists
  <2> QED BY <1>1, <2>2, <2>3, LedgerMoves
<1>10. CASE /\ w[1] = "complete" /\ Owns(c) /\ UNCHANGED route
            /\ cmd' = [cmd EXCEPT !.state = "succeeded", !.owner = Nobody, !.error = "none"]
  <2>1. cmd' \in Command
    BY <1>1, <1>10 DEF TypeOK, Command, CommandState, Errors, Answer
  <2>2. Exists
    BY <1>1, <1>10 DEF LateFits
  <2>3. \A b \in Actor : ~Works(b)
    BY <1>3, <1>10 DEF Owns
  <2>4. TypeOK' /\ LedgersFit' /\ Keeps
    BY <1>1, <1>4, <1>10, <2>1, <2>2
       DEF TypeOK, LedgersFit, Keeps, Exists, Nowhere, Local, Unsafe, ReplaySafe, Safe
  <2> QED BY <1>1, <2>3, <2>4, LedgerMoves
<1> QED BY <1>1, <1>5, <1>6, <1>7, <1>8, <1>9, <1>10 DEF LateWrite, c

LEMMA ArriveStrayFits ==
  ASSUME Core, UNCHANGED setting, ArriveStray
  PROVE  Core'
<1>1. TypeOK /\ LedgersFit /\ UNCHANGED <<cmd, route, task, late, actor, setting>>
      /\ stray > 0 /\ Made <= MaxEffects /\ stray' = stray - 1 /\ effects' = Made
  BY DEF Core, ArriveStray
<1>2. stray \in Nat /\ effects \in Nat /\ ~Local /\ (Unsafe => effects = 0 /\ stray = 1)
  BY <1>1, Counts DEF LedgersFit
<1>3. effects' = 1 /\ effects' \in 0..MaxEffects /\ effects' >= effects
      /\ stray' \in 0..Cardinality(Client)
  BY <1>1, <1>2, MadeFits, Counts
<1>4. TypeOK'
  BY <1>1, <1>3 DEF TypeOK
<1>5. LedgersFit' /\ Keeps
  BY <1>1, <1>2, <1>3 DEF LedgersFit, Keeps, Exists, Nowhere, Local, Unsafe, ReplaySafe, Safe
<1>6. ASSUME NEW b \in Actor, Works(b)
      PROVE  Leaves(b)
  <2>1. Fits(b)
    BY DEF Core, AllFit
  <2> QED BY <1>1, <1>2, <1>6, <2>1 DEF Leaves, Fits, TaskIsKnown, Owns, Nowhere
<1> QED BY <1>1, <1>4, <1>5, <1>6, LedgerMoves

\* At most one request is on its way, that of the one who works.
LEMMA FlyingOnce ==
  ASSUME Core, NEW n \in 0..Cardinality({c \in Client : actor[c].call = "flying"})
  PROVE  n = 0 \/ (n = 1 /\ \E c \in Client : actor[c].call = "flying")
<1> DEFINE S == {c \in Client : actor[c].call = "flying"}
<1>1. CASE S = {}
  <2>1. Cardinality(S) = 0
    BY <1>1, FS_EmptySet
  <2> QED BY <2>1
<1>2. CASE S # {}
  <2>1. PICK c \in Client : actor[c].call = "flying"
    BY <1>2
  <2>2. \A b \in S : Works(b) /\ b \in Actor
    BY Clients DEF Core, AllFit, Fits, TaskIsKnown, Works, At
  <2>3. S = {c}
    BY <2>1, <2>2, OneWorks
  <2>4. Cardinality(S) = 1
    BY <2>3, FS_Singleton
  <2> QED BY <2>1, <2>4
<1> QED BY <1>1, <1>2

LEMMA RestartTypes ==
  ASSUME TypeOK
  PROVE  /\ Recovered \in Command /\ (Recovered.state = "succeeded" => cmd.state = "succeeded")
         /\ Repaired \in Route /\ Repaired.boundary = route.boundary
         /\ Repaired.state = route.state \/ Repaired.state = "uncertain"
         /\ Repaired.state = "none" <=> route.state = "none"
<1>1. cmd \in Command /\ route \in Route
  BY DEF TypeOK
<1>2. Recovered \in Command /\ (Recovered.state = "succeeded" => cmd.state = "succeeded")
  <2> DEFINE failed == [cmd EXCEPT !.state = "failed", !.owner = Nobody, !.error = "recovered"]
  <2>1. failed \in Command /\ failed.state = "failed"
    BY <1>1 DEF Command, CommandState, Errors
  <2>2. Recovered \in {cmd, failed, Released}
    BY DEF Recovered
  <2> HIDE DEF failed
  <2> QED BY <1>1, <2>1, <2>2, CommandTypes
<1>3. /\ Repaired \in Route /\ Repaired.boundary = route.boundary
      /\ Repaired.state = route.state \/ Repaired.state = "uncertain"
      /\ Repaired.state = "none" <=> route.state = "none"
  BY <1>1 DEF Repaired, Route, RouteState
<1> QED BY <1>2, <1>3

LEMMA IdleFits ==
  Idle \in ActorState /\ Idle.at = "idle" /\ Idle.next = "idle" /\ Idle.view = "none"
  /\ Idle.aim = "none" /\ Idle.out = "none" /\ Idle.told = "none" /\ Idle.call = "none"
  /\ Idle.seen = "none"
BY DEF Idle, ActorState, Place, RouteState, Answer, Errors, Ending

LEMMA CrashFits ==
  ASSUME Core, UNCHANGED setting, Crash
  PROVE  Core'
<1>1. TypeOK /\ LedgersFit /\ UNCHANGED <<task, effects, setting>> /\ late' = {}
      /\ cmd' = Recovered /\ route' = Repaired /\ actor' = [a \in Actor |-> Idle]
  BY DEF Core, Crash
<1>2. PICK n \in 0..Cardinality({c \in Client : actor[c].call = "flying"}) :
        stray + n <= Cardinality(Client) /\ stray' = stray + n
  BY DEF Crash
<1>3. stray \in Nat /\ effects \in Nat /\ Cardinality(Client) \in Nat
  BY <1>1, Counts
<1>4. n = 0 \/ (/\ n = 1 /\ ~Local /\ task = "doubt" /\ route.boundary = "started"
                /\ Unsafe => Nowhere)
  BY FlyingOnce, Clients DEF Core, AllFit, Fits, TaskIsKnown, At
<1>5. stray' \in 0..Cardinality(Client)
  BY <1>2, <1>3, <1>4
<1>6. TypeOK'
  BY <1>1, <1>5, RestartTypes, IdleFits DEF TypeOK
<1>7. LedgersFit'
  BY <1>1, <1>2, <1>3, <1>4, RestartTypes
     DEF LedgersFit, Exists, Nowhere, Local, Unsafe, ReplaySafe, Safe
<1>8. ASSUME NEW a \in Actor
      PROVE  Fits(a)'
  <2>1. actor'[a] = Idle
    BY <1>1
  <2> QED BY <2>1, IdleFits DEF Fits, NextIsKnown, TaskIsKnown, Works, Relies, At
<1> QED BY <1>1, <1>6, <1>7, <1>8 DEF Core, AllFit, LateFit

-----------------------------------------------------------------------------
(* The invariant.                                                           *)

LEMMA InitFits == Init => Core
<1> SUFFICES ASSUME Init PROVE Core
  OBVIOUS
<1>1. 0 \in 0..MaxEffects /\ 0 \in 0..Cardinality(Client)
  BY ConstantsAssumption, FS_CardinalityType
<1>2. NoCommand \in Command /\ NoCommand.state = "none"
  BY DEF NoCommand, Command, CommandState, Errors, Answer
<1>3. route \in Route /\ route.state = "none" /\ route.boundary = "reserved"
  BY DEF Init, Route, RouteState
<1>4. TypeOK
  BY <1>1, <1>2, <1>3, IdleFits DEF Init, TypeOK, TaskRow
<1>5. LedgersFit
  BY <1>2, <1>3, <1>4 DEF Init, LedgersFit, Exists, Nowhere
<1>6. ASSUME NEW a \in Actor
      PROVE  Fits(a)
  <2>1. actor[a] = Idle
    BY DEF Init
  <2> QED BY <2>1, IdleFits DEF Fits, NextIsKnown, TaskIsKnown, Works, Relies, At
<1> QED BY <1>4, <1>5, <1>6 DEF Core, AllFit, LateFit, Init

LEMMA StepFits == Core /\ [Next]_vars => Core'
<1> SUFFICES ASSUME Core, [Next]_vars PROVE Core'
  OBVIOUS
<1>1. CASE UNCHANGED vars
  BY <1>1 DEF vars, moving, Core, TypeOK, LedgersFit, AllFit, LateFit, Fits, LateFits, NextIsKnown,
       TaskIsKnown, Works, Unwinds, Owns, Relies, Exists, Nowhere, At, Local, Unsafe, ReplaySafe, Safe
<1>2. CASE Next
  <2>0. UNCHANGED setting
    BY <1>2 DEF Next
  <2>1. ASSUME NEW c \in Client, CommandStep(c)
        PROVE  Core'
    BY <2>0, <2>1, RequestFits, ClaimFits, ReopenFits, ReopenCommandFits, ReplayFits, TerminalFits,
       CleanupFits, CompleteFits, ProveFits, DoubtFits DEF CommandStep
  <2>2. ASSUME NEW c \in Client, RouteStep(c)
        PROVE  Core'
    BY <2>0, <2>2, RefuseFits, ReserveFits, ReserveFailsFits, BeginFits, MarkCommandFits,
       MarkRouteFits, BoundaryFailsFits, FailRouteFits, RestoreFits, ActivateFits,
       ActivateFailsFits DEF RouteStep
  <2>3. ASSUME NEW c \in Client, SpawnStep(c)
        PROVE  Core'
    BY <2>0, <2>3, SpawnFailsFits, SpawnLocalFits, StartLocalFits, SpawnRemoteFits,
       NoConnectionFits, SendFits, RefusedFits, ConflictFits, LostFits, BindFits, ArriveFits
       DEF SpawnStep
  <2>4. ASSUME NEW c \in Client, CancelStep(c)
        PROVE  Core'
    BY <2>0, <2>4, CancelEarlyFits, CancelClaimFits, CancelBoundaryFits, CancelSpawnFits,
       CancelStartedFits, CancelAfterFits DEF CancelStep
  <2>5. ASSUME NEW r \in Reader, Query(r)
        PROVE  Core'
    BY <2>0, <2>5, QueryFits
  <2>6. ASSUME NEW a \in Actor, ReconcileStep(a)
        PROVE  Core'
    BY <2>0, <2>6, LookUpFits, ExamineFits, SettleFits DEF ReconcileStep
  <2>7. ASSUME NEW w \in late, LateWrite(w)
        PROVE  Core'
    BY <2>0, <2>7, LateWriteFits
  <2>8. ASSUME ArriveStray
        PROVE  Core'
    BY <2>0, <2>8, ArriveStrayFits
  <2>9. ASSUME Crash
        PROVE  Core'
    BY <2>0, <2>9, CrashFits
  <2> QED BY <1>2, <2>1, <2>2, <2>3, <2>4, <2>5, <2>6, <2>7, <2>8, <2>9 DEF Next
<1> QED BY <1>1, <1>2

\* A create has one effect at most, what is relied on exists, and only the owner of the
\* claim works (GatewayCommandStore, CreateRouteWorkflow.run).
THEOREM Invariance == Spec => []Core
BY InitFits, StepFits, PTL DEF Spec

----------------------------------------------------------------------------
(* A remote create without the replay contract is never repeated           *)

\* What a request was told of a create that may exist.
Bad == Errors \ {"none", "not_started", "recovered"}

\* A key that may be claimed has had no effect, a claim behind which there may be
\* one is marked as started and unsafe, and the error of an undecided create is not
\* that of one that may be sent again.
UnsafeLedgers ==
  /\ ~Nowhere => cmd.state \notin {"none", "pending"}
  /\ ~Nowhere /\ cmd.state = "processing" => cmd.started /\ ~cmd.safe
  /\ cmd.state = "failed" => cmd.error # "none"
  /\ cmd.state = "failed" /\ cmd.error \in Bad => ~NotDispatched

\* A request that has not called the upstream Gateway yet.
Early(a) ==
  \/ actor[a].at \in {"admitted", "begin", "mark_command", "mark_route", "spawn"}
  \/ actor[a].at \in {"examine", "settle"} /\ actor[a].next = "begin"

\* A request about to fail its command, or on its way there.
Doubting(a) == At(a, "doubt") \/ (actor[a].at \in Reads /\ actor[a].next = "doubt")
Failing(a) == At(a, "fail_route") \/ (At(a, "cleanup") /\ actor[a].end = "fail")

\* What a request knows of the effect of its claim.
Knows(a) ==
  /\ Early(a) => Nowhere
  /\ actor[a].at \in {"mark_route", "spawn", "call"} => cmd.started /\ ~cmd.safe
  /\ actor[a].at \in {"fail_route", "cleanup"} =>
       /\ actor[a].out # "none"
       /\ actor[a].out = "not_started" => Nowhere
  /\ At(a, "cleanup") /\ actor[a].end = "release_not_dispatched" /\ Owns(a) => Nowhere
  /\ At(a, "fail_route") => actor[a].end = "fail"
  /\ At(a, "restore") => actor[a].end = "release_not_dispatched" /\ actor[a].out = "retry"
  /\ actor[a].at \in {"examine", "settle"} /\ actor[a].next = "cleanup"
       => actor[a].end = "release" /\ actor[a].out = "gone"
  /\ Failing(a) /\ Owns(a) /\ actor[a].out \in Bad => ~NotDispatched
  /\ Doubting(a) /\ Owns(a) => ~NotDispatched

\* What a request that has found the command failed makes of its error.
Recalls(a) ==
  /\ At(a, "proof") => actor[a].seen \in {"none", "not_started", "recovered"}
  /\ At(a, "proof") /\ actor[a].seen # "none" /\ cmd.state = "failed" /\ cmd.error = actor[a].seen
       => Nowhere
  /\ At(a, "reopen") => actor[a].seen # "none"
  /\ At(a, "reopen") /\ actor[a].seen \in Bad
       => cmd.state = "failed" /\ cmd.error = actor[a].seen /\ ~NotDispatched

Careful(a) == Knows(a) /\ Recalls(a)

AllCareful == UnsafeLedgers /\ \A a \in Actor : Careful(a)
UnsafeInv == Unsafe => AllCareful

-----------------------------------------------------------------------------
(* What the others keep.                                                    *)

\* What a step owes to those who stand still: a claim is theirs or not, nothing is
\* dispatched for a claim of theirs, and an undecided create stays undecided.
Minds(b) ==
  /\ Works(b) => cmd' = cmd
  /\ Owns(b)' => Owns(b) \/ At(b, "idle")
  /\ Owns(b) => (Nowhere => Nowhere') /\ (~NotDispatched => ~NotDispatched')
FailsWell ==
  /\ cmd'.state = "failed" =>
       \/ cmd' = cmd /\ (Nowhere => Nowhere')
       \/ cmd'.error \in Bad \/ Nowhere'
  /\ cmd.state = "failed" /\ cmd.error \in Bad /\ ~NotDispatched => cmd' = cmd /\ ~NotDispatched'

LEMMA StandsCareful ==
  ASSUME Core, Unsafe, NEW b \in Actor, Careful(b), actor'[b] = actor[b], Minds(b), FailsWell
  PROVE  Careful(b)'
<1>1. Early(b) \/ actor[b].at \in {"mark_route", "spawn", "call", "fail_route"}
        \/ (At(b, "cleanup") /\ actor[b].out = "not_started") => Works(b) /\ Owns(b)
  BY DEF Core, AllFit, Fits, Works, Early, At
<1>2. Knows(b)'
  BY <1>1 DEF Careful, Knows, Minds, At, Early, Failing, Doubting, Reads
<1>3. Recalls(b)'
  BY DEF Careful, Recalls, FailsWell, At, Bad
<1> QED BY <1>2, <1>3 DEF Careful

\* A step that moves one request, and the route if it does not reopen it.
LEMMA OnlyMovesCarefully ==
  ASSUME Core, Unsafe, AllCareful, UNCHANGED <<cmd, effects, stray>>, NotDispatched' => NotDispatched,
         NEW a \in Actor, Alone(a), Careful(a)'
  PROVE  AllCareful'
<1>1. UnsafeLedgers' /\ FailsWell
  BY DEF AllCareful, UnsafeLedgers, FailsWell, Nowhere
<1>2. ASSUME NEW b \in Actor \ {a}
      PROVE  Careful(b)'
  BY <1>1, StandsCareful DEF Alone, AllCareful, Minds, Owns, Nowhere
<1> QED BY <1>1, <1>2 DEF AllCareful

\* A step that moves one request and no ledger it may be careless with.
LEMMA MovesCarefully ==
  ASSUME Core, Unsafe, AllCareful, UNCHANGED <<cmd, route, effects, stray>>,
         NEW a \in Actor, Alone(a), Careful(a)'
  PROVE  AllCareful'
BY OnlyMovesCarefully DEF NotDispatched

\* A step of the owner of the claim.
LEMMA OwnerMovesCarefully ==
  ASSUME Core, Unsafe, AllCareful, NEW a \in Actor, Alone(a), Owns(a),
         cmd'.state = "processing" => cmd'.owner = a,
         cmd'.state = "failed" => cmd'.error \in Bad \/ Nowhere',
         UnsafeLedgers', Careful(a)'
  PROVE  AllCareful'
<1>1. FailsWell
  BY DEF FailsWell, Owns
<1>2. ASSUME NEW b \in Actor \ {a}
      PROVE  Careful(b)'
  <2>1. ~Owns(b) /\ ~Works(b)
    BY DEF Owns, Core, AllFit, Fits
  <2> QED BY <1>1, <2>1, StandsCareful DEF Alone, AllCareful, Minds, Owns
<1> QED BY <1>2 DEF AllCareful

\* A step that moves nobody.
LEMMA StandCarefully ==
  ASSUME Core, Unsafe, AllCareful, UNCHANGED actor, FailsWell, \A b \in Actor : Minds(b),
         UnsafeLedgers'
  PROVE  AllCareful'
BY StandsCareful DEF AllCareful

\* Nothing is out while the key is not dispatched, and the owner works alone.
LEMMA Reserved ==
  ASSUME Core, Unsafe
  PROVE  /\ NotDispatched => Nowhere
         /\ ~Local /\ ~Safe /\ ~ReplaySafe
         /\ \A a \in Actor : Works(a) => Owns(a)
         /\ \A a \in Actor : At(a, "restore") => Nowhere
         /\ \A a \in Actor : actor[a].at \in {"spawn", "start", "call", "activate"} => ~NotDispatched
  BY DEF Core, LedgersFit, AllFit, Fits, TaskIsKnown, Relies, Exists, Nowhere, NotDispatched, Unsafe,
         ReplaySafe, At

-----------------------------------------------------------------------------
(* Steps that only move the one who makes them.                             *)

LEMMA RequestCareful ==
  ASSUME Core, Unsafe, AllCareful, NEW c \in Client, Request(c)
  PROVE  AllCareful'
<1> USE Clients
<1>1. TypeOK /\ Requests(c) /\ UNCHANGED Ledgers
  BY DEF Core, Request, Requests
<1>2. Alone(c) /\ Careful(c)'
  BY <1>1, RequestMoves DEF Careful, Knows, Recalls, Early, Failing, Doubting, Reads, At
<1> QED BY <1>1, <1>2, MovesCarefully DEF Ledgers

LEMMA ReopenCareful ==
  ASSUME Core, Unsafe, AllCareful, NEW c \in Client, Reopen(c)
  PROVE  AllCareful'
<1> USE Clients
<1>1. TypeOK /\ Careful(c) /\ At(c, "reopen") /\ UNCHANGED Ledgers
  BY DEF Core, AllCareful, Reopen
<1>2. PICK place \in {"proof", "reclaim"} : Go(c, place) /\ (place = "proof" => NotDispatched)
  BY DEF Reopen
<1>3. place \in Place /\ actor[c].seen \in Errors
  BY <1>1, FieldTypes DEF Place
<1>4. Alone(c) /\ Careful(c)'
  BY <1>1, <1>2, <1>3, GoMoves, Reserved
     DEF Careful, Knows, Recalls, Early, Failing, Doubting, Reads, At, Bad, Ledgers, Nowhere
<1> QED BY <1>1, <1>4, MovesCarefully DEF Ledgers

LEMMA ReplayCareful ==
  ASSUME Core, Unsafe, AllCareful, NEW c \in Client, Replay(c)
  PROVE  AllCareful'
<1> USE Clients
<1>1. TypeOK /\ Tell(c, "created") /\ "created" \in Answer /\ UNCHANGED Ledgers
  BY DEF Core, Replay, Answer
<1>2. Alone(c) /\ Careful(c)'
  BY <1>1, TellMoves DEF Careful, Knows, Recalls, Early, Failing, Doubting, Reads, At
<1> QED BY <1>1, <1>2, MovesCarefully DEF Ledgers

LEMMA RefuseCareful ==
  ASSUME Core, Unsafe, AllCareful, NEW c \in Client, Refuse(c) \/ ReserveFails(c)
  PROVE  AllCareful'
<1> USE Clients
<1>1. TypeOK /\ At(c, "admitted") /\ End(c, "release", "retry")
      /\ "release" \in Ending /\ "retry" \in Answer /\ UNCHANGED Ledgers
  BY DEF Core, Refuse, ReserveFails, Answer, Ending
<1>2. Alone(c) /\ Careful(c)'
  BY <1>1, EndMoves DEF Careful, Knows, Recalls, Early, Failing, Doubting, Reads, At
<1> QED BY <1>1, <1>2, MovesCarefully DEF Ledgers

LEMMA BeginCareful ==
  ASSUME Core, Unsafe, AllCareful, NEW c \in Client, Begin(c)
  PROVE  AllCareful'
<1> USE Clients
<1>1. TypeOK /\ Fits(c) /\ Careful(c) /\ At(c, "begin") /\ UNCHANGED Ledgers
  BY DEF Core, AllFit, AllCareful, Begin
<1>2. CASE actor[c].view = "active" /\ Go(c, "complete")
  <2>1. Alone(c) /\ Careful(c)'
    BY <1>1, <1>2, GoMoves DEF Place, Careful, Knows, Recalls, Early, Failing, Doubting, Reads, At
  <2> QED BY <1>1, <2>1, MovesCarefully DEF Ledgers
<1>3. CASE actor[c].view \in {"failed", "uncertain"} /\ End(c, "fail", Outcome(actor[c].view))
  <2>1. PICK answer \in {"not_started", "uncertain"} : End(c, "fail", answer)
    BY <1>3 DEF Outcome
  <2>2. answer \in Answer /\ "fail" \in Ending
    BY DEF Answer, Ending
  <2>3. Nowhere /\ ~NotDispatched
    BY <1>1, <1>3 DEF Careful, Knows, Early, At, Fits, NotDispatched
  <2>4. Alone(c) /\ Careful(c)'
    BY <1>1, <2>1, <2>2, <2>3, EndMoves
       DEF Careful, Knows, Recalls, Early, Failing, Doubting, Reads, At, Ledgers, Nowhere, NotDispatched
  <2> QED BY <1>1, <2>4, MovesCarefully DEF Ledgers
<1>4. CASE Crosses(c, "mark_command")
  <2>1. Nowhere /\ "mark_command" \in Place
    BY <1>1 DEF Careful, Knows, Early, At, Place
  <2>2. Alone(c) /\ Careful(c)'
    BY <1>1, <1>4, <2>1, CrossMoves
       DEF Careful, Knows, Recalls, Early, Failing, Doubting, Reads, At, Ledgers, Nowhere
  <2> QED BY <1>1, <2>2, MovesCarefully DEF Ledgers
<1> QED BY <1>2, <1>3, <1>4 DEF Begin, Crosses

\* Whoever fails its route knows that nothing was sent, or that the route is not
\* reserved any more.
LEMMA FailRouteCareful ==
  ASSUME Core, Unsafe, AllCareful, UNCHANGED <<cmd, route, effects, stray>>, NEW c \in Actor,
         NEW s \in RouteState, NEW answer \in Answer, FailRouteAs(c, s, answer),
         answer # "none", IF answer = "not_started" THEN Nowhere ELSE ~NotDispatched
  PROVE  AllCareful'
<1>1. Alone(c) /\ Careful(c)'
  BY FailRouteMoves
     DEF Core, Careful, Knows, Recalls, Early, Failing, Doubting, Reads, At, Nowhere, NotDispatched, Bad
<1> QED BY <1>1, MovesCarefully

LEMMA BoundaryFailsCareful ==
  ASSUME Core, Unsafe, AllCareful, NEW c \in Client, BoundaryFails(c)
  PROVE  AllCareful'
<1>1. c \in Actor /\ Careful(c) /\ FailRouteAs(c, "failed", "not_started") /\ UNCHANGED Ledgers
      /\ actor[c].at \in {"mark_command", "mark_route"}
  BY Clients DEF AllCareful, BoundaryFails, At
<1>2. Nowhere /\ "failed" \in RouteState /\ "not_started" \in Answer
  BY <1>1 DEF Careful, Knows, Early, RouteState, Answer
<1> QED BY <1>1, <1>2, FailRouteCareful DEF Ledgers

LEMMA SpawnFailsCareful ==
  ASSUME Core, Unsafe, AllCareful, NEW c \in Client, SpawnFails(c)
  PROVE  AllCareful'
<1>1. c \in Actor /\ Careful(c) /\ UNCHANGED Ledgers /\ actor[c].at \in {"spawn", "start"}
  BY Clients DEF AllCareful, SpawnFails, At
<1>2. "failed" \in RouteState /\ "uncertain" \in RouteState
      /\ "not_started" \in Answer /\ "uncertain" \in Answer
  BY DEF RouteState, Answer
<1>3. CASE At(c, "spawn") /\ FailRouteAs(c, "failed", "not_started")
  <2>1. Nowhere
    BY <1>1, <1>3 DEF Careful, Knows, Early, At
  <2> QED BY <1>1, <1>2, <1>3, <2>1, FailRouteCareful DEF Ledgers
<1>4. CASE FailRouteAs(c, "uncertain", "uncertain")
  BY <1>1, <1>2, <1>4, FailRouteCareful, Reserved DEF Ledgers
<1> QED BY <1>3, <1>4 DEF SpawnFails

LEMMA ActivateFailsCareful ==
  ASSUME Core, Unsafe, AllCareful, NEW c \in Client, ActivateFails(c)
  PROVE  AllCareful'
<1>1. c \in Actor /\ UNCHANGED Ledgers /\ At(c, "activate") /\ FailRouteAs(c, "uncertain", "completed")
      /\ "uncertain" \in RouteState /\ "completed" \in Answer
  BY Clients DEF ActivateFails, RouteState, Answer
<1> QED BY <1>1, FailRouteCareful, Reserved DEF Ledgers, At

LEMMA SendCareful ==
  ASSUME Core, Unsafe, AllCareful, NEW c \in Client, Send(c)
  PROVE  AllCareful'
<1> USE Clients
<1>1. TypeOK /\ Careful(c) /\ At(c, "call") /\ Calls(c, "flying") /\ UNCHANGED Ledgers
  BY DEF Core, AllCareful, Send, Calls
<1>2. Alone(c) /\ Careful(c)'
  BY <1>1, CallMoves DEF Careful, Knows, Recalls, Early, Failing, Doubting, Reads, At, Ledgers
<1> QED BY <1>1, <1>2, MovesCarefully DEF Ledgers

LEMMA ProveCareful ==
  ASSUME Core, Unsafe, AllCareful, NEW c \in Client, Prove(c)
  PROVE  AllCareful'
<1> USE Clients
<1>1. TypeOK /\ Fits(c) /\ At(c, "proof") /\ actor[c].seen = "none" /\ UNCHANGED Ledgers
  BY DEF Core, AllFit, Prove
<1>2. CASE NotDispatched /\ End(c, "release_not_dispatched", "gone")
  <2>1. "release_not_dispatched" \in Ending /\ "gone" \in Answer /\ Nowhere
    BY <1>2, Reserved DEF Ending, Answer
  <2>2. Alone(c) /\ Careful(c)'
    BY <1>1, <1>2, <2>1, EndMoves
       DEF Careful, Knows, Recalls, Early, Failing, Doubting, Reads, At, Ledgers, Nowhere
  <2> QED BY <1>1, <2>2, MovesCarefully DEF Ledgers
<1>3. CASE ~NotDispatched /\ Reconcile(c, "look", "doubt")
  <2>1. "look" \in Place /\ "doubt" \in Place
    BY DEF Place
  <2>2. Alone(c) /\ Careful(c)'
    BY <1>1, <1>3, <2>1, ReconcileMoves
       DEF Careful, Knows, Recalls, Early, Failing, Doubting, Reads, At, Ledgers, NotDispatched
  <2> QED BY <1>1, <2>2, MovesCarefully DEF Ledgers
<1> QED BY <1>2, <1>3 DEF Prove

LEMMA QueryCareful ==
  ASSUME Core, Unsafe, AllCareful, NEW r \in Reader, Query(r)
  PROVE  AllCareful'
<1>1. TypeOK /\ r \in Actor /\ Fits(r) /\ Go(r, "look") /\ UNCHANGED Ledgers /\ "look" \in Place
  BY DEF Core, AllFit, Query, Actor, Place
<1>2. Alone(r) /\ Careful(r)'
  BY <1>1, GoMoves
     DEF Fits, NextIsKnown, Careful, Knows, Recalls, Early, Failing, Doubting, Reads, At
<1> QED BY <1>1, <1>2, MovesCarefully DEF Ledgers

LEMMA LookUpCareful ==
  ASSUME Core, Unsafe, AllCareful, NEW a \in Actor, LookUp(a)
  PROVE  AllCareful'
<1>1. TypeOK /\ Fits(a) /\ Careful(a) /\ At(a, "look") /\ UNCHANGED Ledgers
  BY DEF Core, AllFit, AllCareful, LookUp
<1>2. PICK view \in RouteState : Return(a, view) \/ Views(a, "examine", view)
  BY <1>1 DEF LookUp, Views, TypeOK, Route, RouteState
<1>3. "examine" \in Place
  BY DEF Place
<1>4. CASE Return(a, view)
  <2>1. Alone(a) /\ Careful(a)'
    BY <1>1, <1>4, ReturnMoves
       DEF Fits, NextIsKnown, Careful, Knows, Recalls, Early, Failing, Doubting, Reads, At, Ledgers,
           Owns, NotDispatched
  <2> QED BY <1>1, <2>1, MovesCarefully DEF Ledgers
<1>5. CASE Views(a, "examine", view)
  <2>1. Alone(a) /\ Careful(a)'
    BY <1>1, <1>3, <1>5, ViewMoves
       DEF Fits, NextIsKnown, Careful, Knows, Recalls, Early, Failing, Doubting, Reads, At, Ledgers,
           Owns, NotDispatched
  <2> QED BY <1>1, <2>1, MovesCarefully DEF Ledgers
<1> QED BY <1>2, <1>4, <1>5

LEMMA ExamineCareful ==
  ASSUME Core, Unsafe, AllCareful, NEW a \in Actor, Examine(a)
  PROVE  AllCareful'
<1>1. TypeOK /\ Fits(a) /\ Careful(a) /\ At(a, "examine") /\ UNCHANGED Ledgers
      /\ actor[a].view \in RouteState
  BY FieldTypes DEF Core, AllFit, AllCareful, Examine
<1>2. CASE Return(a, actor[a].view)
  <2>1. Alone(a) /\ Careful(a)'
    BY <1>1, <1>2, ReturnMoves
       DEF Fits, NextIsKnown, Careful, Knows, Recalls, Early, Failing, Doubting, Reads, At, Ledgers,
           Owns, NotDispatched, Nowhere
  <2> QED BY <1>1, <2>1, MovesCarefully DEF Ledgers
<1>3. CASE actor' = [actor EXCEPT ![a].at = "settle", ![a].aim = Aim(a)]
  <2>1. PICK aim \in {"active", "failed", "uncertain"} : Aims(a, "settle", aim)
    BY <1>3, AimIsSound DEF Aims
  <2>2. "settle" \in Place /\ aim \in RouteState
    BY DEF Place, RouteState
  <2>3. Alone(a) /\ Careful(a)'
    BY <1>1, <2>1, <2>2, AimMoves
       DEF Fits, NextIsKnown, Careful, Knows, Recalls, Early, Failing, Doubting, Reads, At, Ledgers,
           Owns, NotDispatched, Nowhere
  <2> QED BY <1>1, <2>3, MovesCarefully DEF Ledgers
<1> QED BY <1>2, <1>3 DEF Examine

-----------------------------------------------------------------------------
(* Cancellations.                                                           *)

\* A request that is cut short takes no obligation with it.
LEMMA CutCareful ==
  ASSUME Core, Unsafe, AllCareful, UNCHANGED <<cmd, route, effects, stray>>, NEW c \in Actor,
         NEW moved \in ActorState, Alone(c), actor'[c] = moved,
         moved.at \in {"proof", "cleanup"}
           \/ (moved.at = "examine" /\ moved.next \in {"proof", "cleanup"}),
         moved.out = "gone", moved.seen = "none", moved.end = "release"
  PROVE  AllCareful'
<1>1. Careful(c)'
  BY DEF Careful, Knows, Recalls, Early, Failing, Doubting, Reads, At
<1> QED BY <1>1, MovesCarefully

LEMMA CancelEarlyCareful ==
  ASSUME Core, Unsafe, AllCareful, NEW c \in Client, CancelEarly(c)
  PROVE  AllCareful'
<1> USE Clients
<1>1. TypeOK /\ UNCHANGED Ledgers
  BY DEF Core, CancelEarly
<1>2. CASE Tell(c, "gone")
  <2>1. "gone" \in Answer
    BY DEF Answer
  <2>2. Alone(c) /\ Careful(c)'
    BY <1>1, <1>2, <2>1, TellMoves DEF Careful, Knows, Recalls, Early, Failing, Doubting, Reads, At
  <2> QED BY <1>1, <2>2, MovesCarefully DEF Ledgers
<1>3. CASE actor' = [actor EXCEPT ![c] = Unwound(c)]
  <2>1. Alone(c) /\ actor'[c] = Unwound(c)
    BY <1>1, <1>3, UnwoundMoves DEF Alone, TypeOK
  <2> QED BY <1>1, <2>1, CutCareful, UnwoundMoves DEF Ledgers
<1> QED BY <1>2, <1>3 DEF CancelEarly

LEMMA CancelBoundaryCareful ==
  ASSUME Core, Unsafe, AllCareful, NEW c \in Client, CancelBoundary(c) \/ CancelStarted(c)
  PROVE  AllCareful'
<1> USE Clients
<1>1. TypeOK /\ UNCHANGED <<cmd, route, effects, stray>> /\ actor' = [actor EXCEPT ![c] = Interrupted(c)]
  BY DEF Core, CancelBoundary, CancelStarted, Ledgers
<1>2. Alone(c) /\ actor'[c] = Interrupted(c)
  BY <1>1, InterruptedMoves DEF Alone, TypeOK
<1> QED BY <1>1, <1>2, CutCareful, InterruptedMoves, UnwoundMoves

LEMMA CancelAfterCareful ==
  ASSUME Core, Unsafe, AllCareful, NEW c \in Client, CancelAfter(c)
  PROVE  AllCareful'
<1> USE Clients
<1>1. TypeOK /\ UNCHANGED <<cmd, route, effects, stray>> /\ actor' = [actor EXCEPT ![c] = Unwound(c)]
  BY DEF Core, CancelAfter
<1>2. Alone(c) /\ actor'[c] = Unwound(c)
  BY <1>1, UnwoundMoves DEF Alone, TypeOK
<1> QED BY <1>1, <1>2, CutCareful, UnwoundMoves

LEMMA CancelClaimCareful ==
  ASSUME Core, Unsafe, AllCareful, NEW c \in Client, CancelClaim(c)
  PROVE  AllCareful'
<1> USE Clients
<1>1. TypeOK /\ UNCHANGED <<cmd, route, effects, stray>> /\ Tell(c, "gone") /\ "gone" \in Answer
  BY DEF Core, CancelClaim, Answer
<1>2. Alone(c) /\ Careful(c)'
  BY <1>1, TellMoves DEF Careful, Knows, Recalls, Early, Failing, Doubting, Reads, At
<1> QED BY <1>1, <1>2, MovesCarefully

\* A request that is given up may still arrive; its claim is marked as unsafe.
LEMMA GiveUpCareful ==
  ASSUME Core, Unsafe, AllCareful, UNCHANGED <<cmd, route, effects>>, NEW c \in Client,
         actor[c].at \in {"spawn", "start", "call"}, GiveUp(c), Alone(c), Careful(c)'
  PROVE  AllCareful'
<1> USE Clients
<1>1. Fits(c) /\ Careful(c) /\ Owns(c) /\ ~Local
  BY Reserved DEF Core, AllFit, AllCareful, Works
<1>2. cmd.started /\ ~cmd.safe
  BY <1>1 DEF Fits, TaskIsKnown, Careful, Knows, At
<1>3. UnsafeLedgers'
  BY <1>1, <1>2 DEF UnsafeLedgers, Owns
<1> QED BY <1>1, <1>3, OwnerMovesCarefully DEF Owns

LEMMA CancelSpawnCareful ==
  ASSUME Core, Unsafe, AllCareful, NEW c \in Client, CancelSpawn(c)
  PROVE  AllCareful'
<1> USE Clients
<1> DEFINE interrupted == Interrupted(c)
           moved == [interrupted EXCEPT !.call = "none"]
<1>1. /\ TypeOK /\ actor[c].at \in {"spawn", "start", "call"}
      /\ UNCHANGED <<cmd, route, task, effects>> /\ GiveUp(c)
      /\ actor' = [actor EXCEPT ![c] = moved]
  BY DEF Core, CancelSpawn
<1>2. /\ interrupted \in ActorState /\ interrupted.at = "examine"
      /\ interrupted.next \in {"proof", "cleanup"} /\ interrupted.end = "release"
      /\ interrupted.out = "gone" /\ interrupted.seen = "none"
  BY <1>1, InterruptedMoves, UnwoundMoves
<1> HIDE DEF interrupted
<1>3. /\ moved \in ActorState /\ moved.at = "examine" /\ moved.next \in {"proof", "cleanup"}
      /\ moved.end = "release" /\ moved.out = "gone" /\ moved.seen = "none"
  BY <1>2 DEF ActorState
<1> HIDE DEF moved
<1>4. Alone(c) /\ actor'[c] = moved
  BY <1>1, <1>3 DEF Alone, TypeOK
<1>5. Careful(c)'
  BY <1>3, <1>4 DEF Careful, Knows, Recalls, Early, Failing, Doubting, Reads, At
<1> QED BY <1>1, <1>4, <1>5, GiveUpCareful

-----------------------------------------------------------------------------
(* Steps that change the row of the command.                                *)

LEMMA ClaimCareful ==
  ASSUME Core, Unsafe, AllCareful, NEW c \in Client, Claim(c)
  PROVE  AllCareful'
<1> USE Clients
<1>1. TypeOK /\ UnsafeLedgers /\ UNCHANGED <<route, task, effects, stray, late>>
      /\ actor[c].at \in {"claim", "reclaim"}
  BY DEF Core, AllCareful, Claim
<1>2. CASE cmd.state \in {"none", "pending"} /\ cmd' = Claimed(c) /\ Go(c, "admitted")
  <2>1. "admitted" \in Place /\ Nowhere
    BY <1>1, <1>2 DEF Place, UnsafeLedgers
  <2>2. cmd'.state = "processing" /\ cmd'.owner = c /\ Nowhere'
    BY <1>1, <1>2, <2>1 DEF Claimed, TypeOK, Command, Nowhere
  <2>3. Alone(c) /\ Careful(c)'
    BY <1>1, <1>2, <2>1, <2>2, GoMoves
       DEF Careful, Knows, Recalls, Early, Failing, Doubting, Reads, At
  <2>4. ASSUME NEW b \in Actor \ {c}
        PROVE  Careful(b)'
    <3>1. ~Works(b) /\ ~Owns(b) /\ ~Owns(b)'
      BY <1>2, <2>2 DEF Core, AllFit, Fits, Owns
    <3> QED BY <1>2, <2>2, <2>3, <3>1, StandsCareful DEF AllCareful, Alone, Minds, FailsWell
  <2> QED BY <2>2, <2>3, <2>4 DEF AllCareful, UnsafeLedgers
<1>3. CASE cmd.state = "succeeded" /\ Reconcile(c, "look", "replay") /\ UNCHANGED cmd
  <2>1. "look" \in Place /\ "replay" \in Place
    BY DEF Place
  <2>2. Alone(c) /\ Careful(c)'
    BY <1>1, <1>3, <2>1, ReconcileMoves
       DEF Careful, Knows, Recalls, Early, Failing, Doubting, Reads, At
  <2> QED BY <1>1, <1>3, <2>2, MovesCarefully
<1>4. CASE cmd.state = "failed" /\ UNCHANGED cmd
           /\ actor' = [actor EXCEPT ![c].at = "reopen", ![c].seen = cmd.error]
  <2>1. PICK seen \in Errors : seen = cmd.error /\ Finds(c, "reopen", seen)
    BY <1>1, <1>4, CommandTypes DEF Finds
  <2>2. "reopen" \in Place /\ seen # "none" /\ (seen \in Bad => ~NotDispatched)
    BY <1>1, <1>4, <2>1 DEF Place, UnsafeLedgers
  <2>3. cmd.state = "failed" /\ UNCHANGED <<cmd, route>>
    BY <1>1, <1>4
  <2>4. Alone(c) /\ Careful(c)'
    BY <1>1, <2>1, <2>2, <2>3, SeenMoves
       DEF Careful, Knows, Recalls, Early, Failing, Doubting, Reads, At, NotDispatched
  <2> QED BY <1>1, <2>3, <2>4, MovesCarefully
<1>5. CASE cmd.state = "failed" /\ Reconcile(c, "look", "terminal") /\ UNCHANGED cmd
  <2>1. "look" \in Place /\ "terminal" \in Place
    BY DEF Place
  <2>2. Alone(c) /\ Careful(c)'
    BY <1>1, <1>5, <2>1, ReconcileMoves
       DEF Careful, Knows, Recalls, Early, Failing, Doubting, Reads, At
  <2> QED BY <1>1, <1>5, <2>2, MovesCarefully
<1>6. CASE Tell(c, "busy") /\ UNCHANGED cmd
  <2>1. "busy" \in Answer
    BY DEF Answer
  <2>2. Alone(c) /\ Careful(c)'
    BY <1>1, <1>6, <2>1, TellMoves DEF Careful, Knows, Recalls, Early, Failing, Doubting, Reads, At
  <2> QED BY <1>1, <1>6, <2>2, MovesCarefully
<1> QED BY <1>2, <1>3, <1>4, <1>5, <1>6 DEF Claim

LEMMA ReopenCommandCareful ==
  ASSUME Core, Unsafe, AllCareful, NEW c \in Client, ReopenCommand(c)
  PROVE  AllCareful'
<1> USE Clients
<1>1. TypeOK /\ Careful(c) /\ At(c, "proof") /\ actor[c].seen # "none"
      /\ UNCHANGED <<route, task, effects, stray, late>>
      /\ cmd' = (IF cmd.state = "failed" /\ cmd.error = actor[c].seen THEN Reopened ELSE cmd)
      /\ Finds(c, "reclaim", "none")
  BY DEF Core, AllCareful, ReopenCommand, Finds
<1>2. "reclaim" \in Place /\ "none" \in Errors
  BY DEF Place, Errors, Answer
<1>3. Alone(c) /\ Careful(c)'
  BY <1>1, <1>2, SeenMoves DEF Careful, Knows, Recalls, Early, Failing, Doubting, Reads, At
<1>4. CASE cmd' = cmd
  BY <1>1, <1>3, <1>4, MovesCarefully
<1>5. CASE cmd.state = "failed" /\ cmd.error = actor[c].seen /\ cmd' = Reopened
  <2>1. Nowhere /\ cmd.error \notin Bad /\ cmd'.state = "pending"
    BY <1>1, <1>5, CommandTypes DEF Careful, Recalls, Bad
  <2>2. UnsafeLedgers' /\ FailsWell
    BY <1>1, <2>1 DEF UnsafeLedgers, FailsWell, Nowhere
  <2>3. ASSUME NEW b \in Actor \ {c}
        PROVE  Careful(b)'
    <3>1. ~Works(b) /\ ~Owns(b) /\ ~Owns(b)'
      BY <1>5, <2>1 DEF Core, AllFit, Fits, Owns
    <3> QED BY <1>3, <2>2, <3>1, StandsCareful DEF AllCareful, Alone, Minds
  <2> QED BY <1>3, <2>2, <2>3 DEF AllCareful
<1> QED BY <1>1, <1>4, <1>5

LEMMA CleanupCareful ==
  ASSUME Core, Unsafe, AllCareful, NEW c \in Client, Cleanup(c)
  PROVE  AllCareful'
<1> USE Clients
<1>1. TypeOK /\ Careful(c) /\ UnsafeLedgers /\ At(c, "cleanup") /\ Tell(c, actor[c].out)
      /\ UNCHANGED <<route, task, effects, stray, late>>
      /\ actor[c].out \in Answer /\ actor[c].end \in Ending
  BY FieldTypes DEF Core, AllCareful, Cleanup
<1>2. Alone(c) /\ Careful(c)'
  BY <1>1, TellMoves DEF Careful, Knows, Recalls, Early, Failing, Doubting, Reads, At
<1>3. CASE ~Owns(c)
  <2>1. cmd' = cmd
    BY <1>3 DEF Cleanup
  <2> QED BY <1>1, <1>2, <2>1, MovesCarefully
<1>4. CASE Owns(c)
  <2> DEFINE failed == [cmd EXCEPT !.state = "failed", !.owner = Nobody, !.error = actor[c].out]
  <2>1. failed.state = "failed" /\ failed.error = actor[c].out
    BY <1>1 DEF TypeOK, Command
  <2>2. \/ cmd' = cmd
        \/ cmd' = Released /\ ~(cmd.started /\ ~cmd.safe)
        \/ cmd' = Reopened /\ actor[c].end = "release_not_dispatched"
        \/ cmd' = failed /\ actor[c].end = "fail"
    BY <1>1, <1>4 DEF Cleanup, Ending
  <2> HIDE DEF failed
  <2>3. CASE cmd' = cmd
    BY <1>1, <1>2, <2>3, MovesCarefully
  <2>4. CASE cmd'.state = "pending" /\ Nowhere
    <3>1. UnsafeLedgers'
      BY <1>1, <2>4 DEF UnsafeLedgers, Nowhere
    <3> QED BY <1>2, <1>4, <2>4, <3>1, OwnerMovesCarefully
  <2>5. CASE cmd' = failed /\ actor[c].end = "fail"
    <3>1. /\ actor[c].out # "none"
          /\ actor[c].out \in Bad \/ Nowhere
          /\ actor[c].out \in Bad => ~NotDispatched
      BY <1>1, <1>4, <2>5 DEF Careful, Knows, Failing, At, Bad, Errors, Answer
    <3>2. UnsafeLedgers' /\ (cmd'.error \in Bad \/ Nowhere')
      BY <1>1, <2>1, <2>5, <3>1 DEF UnsafeLedgers, Nowhere, NotDispatched
    <3> QED BY <1>2, <1>4, <2>1, <2>5, <3>2, OwnerMovesCarefully
  <2>6. cmd' = Released \/ cmd' = Reopened => cmd'.state = "pending"
    BY <1>1, CommandTypes
  <2>7. cmd' = Released /\ ~(cmd.started /\ ~cmd.safe) => Nowhere
    BY <1>1, <1>4 DEF UnsafeLedgers, Owns
  <2>8. cmd' = Reopened /\ actor[c].end = "release_not_dispatched" => Nowhere
    BY <1>1, <1>4 DEF Careful, Knows, At
  <2> QED BY <2>2, <2>3, <2>4, <2>5, <2>6, <2>7, <2>8
<1> QED BY <1>3, <1>4

LEMMA CompleteCareful ==
  ASSUME Core, Unsafe, AllCareful, NEW c \in Client, Complete(c)
  PROVE  AllCareful'
<1> USE Clients
<1>1. TypeOK /\ Owns(c) /\ Tell(c, "created") /\ "created" \in Answer
      /\ UNCHANGED <<route, task, effects, stray, late>>
      /\ cmd' = [cmd EXCEPT !.state = "succeeded", !.owner = Nobody, !.error = "none"]
  BY DEF Core, Complete, Answer
<1>2. Alone(c) /\ Careful(c)'
  BY <1>1, TellMoves DEF Careful, Knows, Recalls, Early, Failing, Doubting, Reads, At
<1>3. cmd'.state = "succeeded"
  BY <1>1 DEF TypeOK, Command
<1>4. UnsafeLedgers'
  BY <1>3 DEF UnsafeLedgers
<1> QED BY <1>1, <1>2, <1>3, <1>4, OwnerMovesCarefully

LEMMA MarkCommandCareful ==
  ASSUME Core, Unsafe, AllCareful, NEW c \in Client, MarkCommand(c)
  PROVE  AllCareful'
<1> USE Clients
<1>1. TypeOK /\ Careful(c) /\ At(c, "mark_command") /\ Go(c, "mark_route")
      /\ "mark_route" \in Place /\ Owns(c)
      /\ UNCHANGED <<route, task, effects, stray, late>>
      /\ cmd' = [cmd EXCEPT !.started = TRUE, !.safe = ReplaySafe]
  BY DEF Core, AllCareful, MarkCommand, Place
<1>2. cmd'.state = cmd.state /\ cmd'.owner = cmd.owner /\ cmd'.started /\ ~cmd'.safe
  BY <1>1 DEF TypeOK, Command, Unsafe
<1>3. Alone(c) /\ Careful(c)'
  BY <1>1, <1>2, GoMoves DEF Careful, Knows, Recalls, Early, Failing, Doubting, Reads, At, Nowhere
<1>4. UnsafeLedgers'
  BY <1>1, <1>2 DEF UnsafeLedgers, Owns
<1> QED BY <1>1, <1>2, <1>3, <1>4, OwnerMovesCarefully DEF Owns

-----------------------------------------------------------------------------
(* Steps that change the route.                                             *)

\* A transition reopens nothing.
LEMMA TransitionIsCareful ==
  ASSUME TypeOK, NEW s \in RouteState, Transition(s)
  PROVE  NotDispatched' => NotDispatched
BY TransitionMoves DEF Transition, Allowed, NotDispatched, TypeOK, Route, RouteState

LEMMA TerminalCareful ==
  ASSUME Core, Unsafe, AllCareful, NEW c \in Client, Terminal(c)
  PROVE  AllCareful'
<1> USE Clients
<1>1. TypeOK /\ UNCHANGED <<cmd, effects, stray>>
  BY DEF Core, Terminal
<1>2. PICK answer \in {"completed", "not_started", "uncertain", "gone"} : Tell(c, answer)
  BY DEF Terminal, Outcome
<1>3. answer \in Answer
  BY DEF Answer
<1>4. Alone(c) /\ Careful(c)'
  BY <1>1, <1>2, <1>3, TellMoves DEF Careful, Knows, Recalls, Early, Failing, Doubting, Reads, At
<1>5. NotDispatched' => NotDispatched
  <2>1. CASE UNCHANGED route
    BY <2>1 DEF NotDispatched
  <2>2. CASE route' = [route EXCEPT !.state = "uncertain"]
    BY <1>1, <2>2 DEF NotDispatched, TypeOK, Route
  <2> QED BY <2>1, <2>2 DEF Terminal
<1> QED BY <1>1, <1>4, <1>5, OnlyMovesCarefully

LEMMA SettleCareful ==
  ASSUME Core, Unsafe, AllCareful, NEW a \in Actor, Settle(a)
  PROVE  AllCareful'
<1>1. TypeOK /\ Fits(a) /\ Careful(a) /\ At(a, "settle") /\ actor[a].aim \in RouteState
      /\ Transition(actor[a].aim) /\ UNCHANGED <<cmd, effects, stray>>
  BY FieldTypes DEF Core, AllFit, AllCareful, Settle
<1>2. route' \in Route /\ (NotDispatched' => NotDispatched)
  BY <1>1, TransitionMoves, TransitionIsCareful
<1>3. PICK view \in RouteState : Return(a, view)
  BY <1>2 DEF Settle, Route
<1>4. Alone(a) /\ Careful(a)'
  BY <1>1, <1>2, <1>3, ReturnMoves
     DEF Fits, NextIsKnown, Careful, Knows, Recalls, Early, Failing, Doubting, Reads, At, Owns, Nowhere
<1> QED BY <1>1, <1>2, <1>4, OnlyMovesCarefully

LEMMA DoubtCareful ==
  ASSUME Core, Unsafe, AllCareful, NEW c \in Client, Doubt(c)
  PROVE  AllCareful'
<1> USE Clients
<1>1. TypeOK /\ Careful(c) /\ At(c, "doubt") /\ UNCHANGED <<cmd, effects, stray>>
      /\ End(c, "fail", "gone") /\ "fail" \in Ending /\ "gone" \in Answer
      /\ (Transition("uncertain") \/ UNCHANGED route) /\ "uncertain" \in RouteState
  BY DEF Core, AllCareful, Doubt, Ending, Answer, RouteState
<1>2. NotDispatched' => NotDispatched
  <2>1. CASE UNCHANGED route
    BY <2>1 DEF NotDispatched
  <2> QED BY <1>1, <2>1, TransitionIsCareful
<1>3. Alone(c) /\ Careful(c)'
  BY <1>1, <1>2, EndMoves DEF Careful, Knows, Recalls, Early, Failing, Doubting, Reads, At, Owns
<1> QED BY <1>1, <1>2, <1>3, OnlyMovesCarefully

LEMMA FailRouteStepCareful ==
  ASSUME Core, Unsafe, AllCareful, NEW c \in Client, FailRoute(c)
  PROVE  AllCareful'
<1> USE Clients
<1>1. TypeOK /\ Careful(c) /\ At(c, "fail_route") /\ UNCHANGED <<cmd, effects, stray>>
      /\ Go(c, "cleanup") /\ "cleanup" \in Place /\ actor[c].aim \in RouteState
      /\ (Transition(actor[c].aim) \/ UNCHANGED route)
  BY FieldTypes DEF Core, AllCareful, FailRoute, Place
<1>2. NotDispatched' => NotDispatched
  <2>1. CASE UNCHANGED route
    BY <2>1 DEF NotDispatched
  <2> QED BY <1>1, <2>1, TransitionIsCareful
<1>3. Alone(c) /\ Careful(c)'
  BY <1>1, <1>2, GoMoves
     DEF Careful, Knows, Recalls, Early, Failing, Doubting, Reads, At, Owns, Nowhere
<1> QED BY <1>1, <1>2, <1>3, OnlyMovesCarefully

LEMMA ActivateCareful ==
  ASSUME Core, Unsafe, AllCareful, NEW c \in Client, Activate(c)
  PROVE  AllCareful'
<1> USE Clients
<1>1. TypeOK /\ UNCHANGED <<cmd, effects, stray>> /\ Go(c, "complete") /\ "complete" \in Place
      /\ route' = [route EXCEPT !.state = "active"]
  BY DEF Core, Activate, Place
<1>2. NotDispatched' => NotDispatched
  BY <1>1 DEF NotDispatched, TypeOK, Route
<1>3. Alone(c) /\ Careful(c)'
  BY <1>1, GoMoves DEF Careful, Knows, Recalls, Early, Failing, Doubting, Reads, At
<1> QED BY <1>1, <1>2, <1>3, OnlyMovesCarefully

LEMMA MarkRouteCareful ==
  ASSUME Core, Unsafe, AllCareful, NEW c \in Client, MarkRoute(c)
  PROVE  AllCareful'
<1> USE Clients
<1>1. TypeOK /\ Careful(c) /\ At(c, "mark_route") /\ UNCHANGED <<cmd, effects, stray>>
      /\ Go(c, "spawn") /\ "spawn" \in Place /\ route' = [route EXCEPT !.boundary = "started"]
  BY DEF Core, AllCareful, MarkRoute, Place
<1>2. NotDispatched' => NotDispatched
  BY <1>1 DEF NotDispatched, TypeOK, Route
<1>3. Alone(c) /\ Careful(c)'
  BY <1>1, GoMoves DEF Careful, Knows, Recalls, Early, Failing, Doubting, Reads, At, Nowhere
<1> QED BY <1>1, <1>2, <1>3, OnlyMovesCarefully

\* The claim that gives its boundary back has sent nothing.
LEMMA RestoreCareful ==
  ASSUME Core, Unsafe, AllCareful, NEW c \in Client, Restore(c)
  PROVE  AllCareful'
<1> USE Clients
<1>1. TypeOK /\ Careful(c) /\ At(c, "restore") /\ Works(c) /\ UNCHANGED <<cmd, effects, stray>>
  BY DEF Core, AllCareful, Restore, Works, At
<1>2. Owns(c) /\ Nowhere
  BY <1>1, Reserved
<1>3. Alone(c) /\ Careful(c)'
  <2>1. CASE End(c, "fail", "not_started")
    <3>1. "fail" \in Ending /\ "not_started" \in Answer
      BY DEF Ending, Answer
    <3> QED BY <1>1, <1>2, <2>1, <3>1, EndMoves
            DEF Careful, Knows, Recalls, Early, Failing, Doubting, Reads, At, Nowhere, Bad
  <2>2. CASE Go(c, "cleanup")
    <3>1. "cleanup" \in Place
      BY DEF Place
    <3> QED BY <1>1, <1>2, <2>2, <3>1, GoMoves
            DEF Careful, Knows, Recalls, Early, Failing, Doubting, Reads, At, Nowhere, Bad
  <2> QED BY <2>1, <2>2 DEF Restore
<1>4. UnsafeLedgers'
  BY <1>1, <1>2 DEF UnsafeLedgers, Nowhere, Owns
<1> QED BY <1>1, <1>2, <1>3, <1>4, OwnerMovesCarefully DEF Owns

LEMMA ReserveCareful ==
  ASSUME Core, Unsafe, AllCareful, NEW c \in Client, Reserve(c)
  PROVE  AllCareful'
<1> USE Clients
<1>1. TypeOK /\ LedgersFit /\ Careful(c) /\ At(c, "admitted") /\ Works(c)
      /\ UNCHANGED <<cmd, effects, stray>>
  BY DEF Core, AllCareful, Reserve, Works, At
<1>2. Owns(c) /\ Nowhere
  BY <1>1, Reserved DEF Careful, Knows, Early, At
<1>3. route' \in Route
  BY <1>1 DEF Reserve, TypeOK, Route, RouteState
<1>4. PICK place \in {"begin", "examine"}, view \in RouteState : Reserves(c, place, view)
  BY <1>3 DEF Reserve, Route, Reserves
<1>5. place \in Place
  BY DEF Place
<1>6. Alone(c) /\ Careful(c)'
  BY <1>1, <1>2, <1>4, <1>5, ReserveMoves
     DEF Careful, Knows, Recalls, Early, Failing, Doubting, Reads, At, Nowhere
<1>7. UnsafeLedgers'
  BY <1>1, <1>2 DEF UnsafeLedgers, Nowhere, Owns
<1> QED BY <1>1, <1>2, <1>6, <1>7, OwnerMovesCarefully DEF Owns

-----------------------------------------------------------------------------
(* Steps of the spawn.                                                      *)

LEMMA SpawnRemoteCareful ==
  ASSUME Core, Unsafe, AllCareful, NEW c \in Client, SpawnRemote(c)
  PROVE  AllCareful'
<1> USE Clients
<1>1. TypeOK /\ Careful(c) /\ At(c, "spawn") /\ UNCHANGED <<cmd, route, effects, stray>>
      /\ "activate" \in Place /\ "call" \in Place
  BY DEF Core, AllCareful, SpawnRemote, Place
<1>2. ASSUME NEW place \in {"activate", "call"}, Go(c, place)
      PROVE  AllCareful'
  <2>1. Alone(c) /\ Careful(c)'
    BY <1>1, <1>2, GoMoves DEF Careful, Knows, Recalls, Early, Failing, Doubting, Reads, At
  <2> QED BY <1>1, <2>1, MovesCarefully
<1>3. CASE FailRouteAs(c, "uncertain", "uncertain")
  <2>1. "uncertain" \in RouteState /\ "uncertain" \in Answer /\ ~NotDispatched
    BY <1>1, Reserved DEF RouteState, Answer, At
  <2> QED BY <1>1, <1>3, <2>1, FailRouteCareful
<1> QED BY <1>2, <1>3 DEF SpawnRemote

LEMMA NoConnectionCareful ==
  ASSUME Core, Unsafe, AllCareful, NEW c \in Client, NoConnection(c)
  PROVE  AllCareful'
<1> USE Clients
<1>1. TypeOK /\ UNCHANGED <<cmd, route, effects, stray>>
      /\ Restores(c, "release_not_dispatched", "retry")
      /\ "release_not_dispatched" \in Ending /\ "retry" \in Answer
  BY DEF Core, NoConnection, Restores, Ending, Answer
<1>2. Alone(c) /\ Careful(c)'
  BY <1>1, RestoreMoves DEF Careful, Knows, Recalls, Early, Failing, Doubting, Reads, At
<1> QED BY <1>1, <1>2, MovesCarefully

LEMMA RefusedCareful ==
  ASSUME Core, Unsafe, AllCareful, NEW c \in Client, Refused(c)
  PROVE  AllCareful'
<1> USE Clients
<1>1. TypeOK /\ Careful(c) /\ At(c, "call") /\ Works(c) /\ UNCHANGED <<cmd, route, effects>>
      /\ effects = 0 /\ stray' = 0
      /\ FailRouteAs(c, "failed", "not_started") /\ "failed" \in RouteState /\ "not_started" \in Answer
  BY DEF Core, AllCareful, Refused, Works, At, RouteState, Answer
<1>2. Owns(c) /\ Nowhere'
  BY <1>1, Reserved DEF Nowhere
<1>3. Alone(c) /\ Careful(c)'
  BY <1>1, <1>2, FailRouteMoves DEF Careful, Knows, Recalls, Early, Failing, Doubting, Reads, At, Bad
<1>4. UnsafeLedgers'
  BY <1>1, <1>2 DEF UnsafeLedgers, Owns
<1> QED BY <1>1, <1>2, <1>3, <1>4, OwnerMovesCarefully DEF Owns

LEMMA LostCareful ==
  ASSUME Core, Unsafe, AllCareful, NEW c \in Client, Lost(c)
  PROVE  AllCareful'
<1> USE Clients
<1>1. TypeOK /\ Careful(c) /\ At(c, "call") /\ GiveUp(c) /\ UNCHANGED <<cmd, route, effects>>
      /\ FailRouteAs(c, "uncertain", "uncertain")
      /\ "uncertain" \in RouteState /\ "uncertain" \in Answer
  BY Reserved DEF Core, AllCareful, Lost, RouteState, Answer
<1>2. ~NotDispatched
  BY <1>1, Reserved DEF At
<1>3. Alone(c) /\ Careful(c)'
  BY <1>1, <1>2, FailRouteMoves
     DEF Careful, Knows, Recalls, Early, Failing, Doubting, Reads, At, NotDispatched
<1> QED BY <1>1, <1>3, GiveUpCareful DEF At

LEMMA BindCareful ==
  ASSUME Core, Unsafe, AllCareful, NEW c \in Client, Bind(c)
  PROVE  AllCareful'
<1> USE Clients
<1>1. TypeOK /\ UNCHANGED <<cmd, route, effects, stray>> /\ Go(c, "activate") /\ "activate" \in Place
  BY DEF Core, Bind, Place
<1>2. Alone(c) /\ Careful(c)'
  BY <1>1, GoMoves DEF Careful, Knows, Recalls, Early, Failing, Doubting, Reads, At
<1> QED BY <1>1, <1>2, MovesCarefully

LEMMA ArriveCareful ==
  ASSUME Core, Unsafe, AllCareful, NEW c \in Client, Arrive(c)
  PROVE  AllCareful'
<1> USE Clients
<1>1. TypeOK /\ Careful(c) /\ At(c, "call") /\ Works(c) /\ UNCHANGED <<cmd, route, stray>>
      /\ Calls(c, "made")
  BY DEF Core, AllCareful, Arrive, Works, At, Calls
<1>2. Owns(c) /\ cmd.started /\ ~cmd.safe
  BY <1>1, Reserved DEF Careful, Knows, At
<1>3. Alone(c) /\ Careful(c)'
  BY <1>1, <1>2, CallMoves DEF Careful, Knows, Recalls, Early, Failing, Doubting, Reads, At
<1>4. UnsafeLedgers'
  BY <1>1, <1>2 DEF UnsafeLedgers, Owns
<1> QED BY <1>1, <1>2, <1>3, <1>4, OwnerMovesCarefully DEF Owns

\* Neither a local spawn nor an answer of the contract is met.
LEMMA NotUnsafe ==
  ASSUME Core, Unsafe, NEW c \in Client
  PROVE  ~SpawnLocal(c) /\ ~StartLocal(c) /\ ~Conflict(c)
<1>1. ~Local /\ ~Safe
  BY Reserved
<1>2. At(c, "start") => Local
  BY Clients DEF Core, AllFit, Fits, TaskIsKnown
<1> QED BY <1>1, <1>2 DEF SpawnLocal, StartLocal, Conflict

-----------------------------------------------------------------------------
(* Steps of nobody in particular.                                           *)

LEMMA LateWriteCareful ==
  ASSUME Core, Unsafe, AllCareful, NEW w \in late, LateWrite(w)
  PROVE  AllCareful'
<1> DEFINE c == w[2]
<1>1. TypeOK /\ UnsafeLedgers /\ LateFits(w) /\ UNCHANGED <<task, effects, stray, actor>> /\ c \in Client
  BY DEF Core, LateFit, LateWrite, TypeOK, AllCareful
<1>2. ~Works(c)
  BY <1>1 DEF LateFits, Unwinds, Works, At
<1>3. \A b \in Actor : Works(b) => Owns(b) /\ b # c
  BY <1>2 DEF Core, AllFit, Fits
<1> HIDE DEF c
<1>4. CASE cmd' = cmd /\ (NotDispatched' => NotDispatched)
  <2>1. UnsafeLedgers' /\ FailsWell /\ \A b \in Actor : Minds(b)
    BY <1>1, <1>4 DEF UnsafeLedgers, FailsWell, Minds, Owns, Nowhere
  <2> QED BY <1>1, <2>1, StandCarefully
<1>5. CASE At(c, "idle") /\ cmd.state \in {"none", "pending"} /\ cmd' = Claimed(c) /\ UNCHANGED route
  <2>1. cmd'.state = "processing" /\ cmd'.owner = c
    BY <1>1, <1>5 DEF Claimed, TypeOK, Command
  <2>2. Nowhere
    BY <1>1, <1>5 DEF UnsafeLedgers
  <2>3. UnsafeLedgers' /\ FailsWell
    BY <1>1, <1>5, <2>1, <2>2 DEF UnsafeLedgers, FailsWell, Nowhere
  <2>4. \A b \in Actor : Minds(b)
    BY <1>3, <1>5, <2>1 DEF Minds, Owns
  <2> QED BY <1>1, <2>3, <2>4, StandCarefully
<1>6. CASE Owns(c) /\ UNCHANGED route /\ cmd' = [cmd EXCEPT !.started = TRUE, !.safe = ReplaySafe]
  <2>1. cmd'.state = "processing" /\ cmd'.owner = cmd.owner /\ cmd'.started /\ ~cmd'.safe
    BY <1>1, <1>6 DEF TypeOK, Command, Owns, Unsafe
  <2>2. UnsafeLedgers' /\ FailsWell
    BY <1>1, <1>6, <2>1 DEF UnsafeLedgers, FailsWell, Nowhere, Owns
  <2>3. \A b \in Actor : Minds(b)
    BY <1>1, <1>3, <1>6, <2>1 DEF Minds, Owns, Nowhere, NotDispatched
  <2> QED BY <1>1, <2>2, <2>3, StandCarefully
<1>7. CASE /\ Owns(c) /\ UNCHANGED route
           /\ cmd' = [cmd EXCEPT !.state = "succeeded", !.owner = Nobody, !.error = "none"]
  <2>1. cmd'.state = "succeeded"
    BY <1>1, <1>7 DEF TypeOK, Command
  <2>2. UnsafeLedgers' /\ FailsWell
    BY <1>1, <1>7, <2>1 DEF UnsafeLedgers, FailsWell, Nowhere, Owns
  <2>3. \A b \in Actor : Minds(b)
    BY <1>1, <1>3, <1>7, <2>1 DEF Minds, Owns, Nowhere, NotDispatched
  <2> QED BY <1>1, <2>2, <2>3, StandCarefully
<1>8. CASE cmd' = cmd /\ UNCHANGED route
  BY <1>4, <1>8 DEF NotDispatched
<1>9. ASSUME cmd' = cmd, Transition("active")
      PROVE  AllCareful'
  <2>1. "active" \in RouteState
    BY DEF RouteState
  <2> QED BY <1>1, <1>4, <1>9, <2>1, TransitionIsCareful
<1>10. ASSUME cmd' = cmd, route' = [route EXCEPT !.boundary = "started"]
       PROVE  AllCareful'
  <2>1. route'.boundary = "started"
    BY <1>1, <1>10 DEF TypeOK, Route
  <2> QED BY <1>4, <1>10, <2>1 DEF NotDispatched
<1>11. w[1] = "claim" => At(c, "idle")
  BY <1>1 DEF LateFits, c
<1> QED BY <1>5, <1>6, <1>7, <1>8, <1>9, <1>10, <1>11 DEF LateWrite, c

LEMMA ArriveStrayCareful ==
  ASSUME Core, Unsafe, AllCareful, ArriveStray
  PROVE  AllCareful'
<1>1. UnsafeLedgers /\ ~Nowhere /\ UNCHANGED <<cmd, route, actor>>
  BY Counts DEF Core, AllCareful, ArriveStray, Nowhere
<1>2. UnsafeLedgers' /\ FailsWell /\ \A b \in Actor : Minds(b)
  BY <1>1 DEF UnsafeLedgers, FailsWell, Minds, Owns, NotDispatched
<1> QED BY <1>1, <1>2, StandCarefully

LEMMA RestartIsCareful ==
  ASSUME TypeOK
  PROVE  \/ Recovered = cmd /\ cmd.state # "processing"
         \/ /\ cmd.state = "processing" /\ cmd.started /\ ~cmd.safe
            /\ Recovered.state = "failed" /\ Recovered.error = "recovered"
         \/ /\ cmd.state = "processing" /\ ~(cmd.started /\ ~cmd.safe)
            /\ Recovered.state = "pending"
<1>1. CASE cmd.state = "processing" /\ cmd.started /\ ~cmd.safe
  BY <1>1 DEF Recovered, TypeOK, Command
<1>2. CASE cmd.state = "processing" /\ ~(cmd.started /\ ~cmd.safe)
  BY <1>2, CommandTypes DEF Recovered
<1> QED BY <1>1, <1>2 DEF Recovered

LEMMA CrashCareful ==
  ASSUME Core, Unsafe, AllCareful, Crash
  PROVE  AllCareful'
<1>1. TypeOK /\ UnsafeLedgers /\ UNCHANGED effects
      /\ cmd' = Recovered /\ route' = Repaired /\ actor' = [a \in Actor |-> Idle]
  BY DEF Core, AllCareful, Crash
<1>2. PICK n \in 0..Cardinality({c \in Client : actor[c].call = "flying"}) : stray' = stray + n
  BY DEF Crash
<1>3. stray \in Nat /\ effects \in Nat
  BY <1>1, Counts
<1>4. n = 0 \/ (cmd.state = "processing" /\ cmd.started /\ ~cmd.safe)
  <2>1. ASSUME NEW c \in Client, actor[c].call = "flying"
        PROVE  cmd.state = "processing" /\ cmd.started /\ ~cmd.safe
    <3>1. At(c, "call") /\ Works(c)
      BY <2>1, Clients DEF Core, AllFit, Fits, TaskIsKnown, Works, At
    <3> QED BY <3>1, Clients, Reserved DEF AllCareful, Careful, Knows, Owns, At
  <2> QED BY <2>1, FlyingOnce
<1>5. NotDispatched' => NotDispatched
  BY <1>1, RestartTypes DEF NotDispatched, TypeOK, Route
<1>6. UnsafeLedgers'
  BY <1>1, <1>2, <1>3, <1>4, <1>5, RestartIsCareful DEF UnsafeLedgers, Nowhere, Bad
<1>7. ASSUME NEW a \in Actor
      PROVE  Careful(a)'
  <2>1. actor'[a] = Idle
    BY <1>1
  <2> QED BY <2>1, IdleFits DEF Careful, Knows, Recalls, Early, Failing, Doubting, Reads, At
<1> QED BY <1>6, <1>7 DEF AllCareful

-----------------------------------------------------------------------------
(* The invariant and the property.                                          *)

LEMMA InitCareful == Init => AllCareful
<1> SUFFICES ASSUME Init PROVE AllCareful
  OBVIOUS
<1>1. UnsafeLedgers
  BY DEF Init, UnsafeLedgers, Nowhere, NoCommand
<1>2. ASSUME NEW a \in Actor
      PROVE  Careful(a)
  <2>1. actor[a] = Idle
    BY DEF Init
  <2> QED BY <2>1, IdleFits DEF Careful, Knows, Recalls, Early, Failing, Doubting, Reads, At
<1> QED BY <1>1, <1>2 DEF AllCareful

LEMMA StepCareful == Core /\ UnsafeInv /\ [Next]_vars => UnsafeInv'
<1> SUFFICES ASSUME Core, Unsafe, AllCareful, [Next]_vars PROVE AllCareful'
  <2>1. [Next]_vars => (Unsafe' <=> Unsafe)
    BY DEF Next, vars, Unsafe, ReplaySafe, Local, Safe
  <2> QED BY <2>1 DEF UnsafeInv
<1>1. CASE UNCHANGED vars
  <2>1. UNCHANGED <<cmd, route, effects, stray, actor>>
    BY <1>1 DEF vars, moving
  <2>2. UnsafeLedgers' /\ FailsWell /\ \A b \in Actor : Minds(b)
    BY <2>1 DEF AllCareful, UnsafeLedgers, FailsWell, Minds, Owns, Nowhere, NotDispatched
  <2> QED BY <2>1, <2>2, StandCarefully
<1>2. CASE Next
  <2>1. ASSUME NEW c \in Client, CommandStep(c)
        PROVE  AllCareful'
    BY <2>1, RequestCareful, ClaimCareful, ReopenCareful, ReopenCommandCareful, ReplayCareful,
       TerminalCareful, CleanupCareful, CompleteCareful, ProveCareful, DoubtCareful DEF CommandStep
  <2>2. ASSUME NEW c \in Client, RouteStep(c)
        PROVE  AllCareful'
    BY <2>2, RefuseCareful, ReserveCareful, BeginCareful, MarkCommandCareful, MarkRouteCareful,
       BoundaryFailsCareful, FailRouteStepCareful, RestoreCareful, ActivateCareful,
       ActivateFailsCareful DEF RouteStep
  <2>3. ASSUME NEW c \in Client, SpawnStep(c)
        PROVE  AllCareful'
    BY <2>3, SpawnFailsCareful, NotUnsafe, SpawnRemoteCareful, NoConnectionCareful, SendCareful,
       RefusedCareful, LostCareful, BindCareful, ArriveCareful DEF SpawnStep
  <2>4. ASSUME NEW c \in Client, CancelStep(c)
        PROVE  AllCareful'
    BY <2>4, CancelEarlyCareful, CancelClaimCareful, CancelBoundaryCareful, CancelSpawnCareful,
       CancelAfterCareful DEF CancelStep
  <2>5. ASSUME NEW r \in Reader, Query(r)
        PROVE  AllCareful'
    BY <2>5, QueryCareful
  <2>6. ASSUME NEW a \in Actor, ReconcileStep(a)
        PROVE  AllCareful'
    BY <2>6, LookUpCareful, ExamineCareful, SettleCareful DEF ReconcileStep
  <2>7. ASSUME NEW w \in late, LateWrite(w)
        PROVE  AllCareful'
    BY <2>7, LateWriteCareful
  <2>8. CASE ArriveStray
    BY <2>8, ArriveStrayCareful
  <2>9. CASE Crash
    BY <2>9, CrashCareful
  <2> QED BY <1>2, <2>1, <2>2, <2>3, <2>4, <2>5, <2>6, <2>7, <2>8, <2>9 DEF Next
<1> QED BY <1>1, <1>2

\* Only a claim sets a key to work, and it finds the row free.
LEMMA OnlyClaims ==
  ASSUME Core, Next, cmd.state # "processing", cmd'.state = "processing"
  PROVE  cmd.state \in {"none", "pending"}
<1>1. TypeOK /\ \A c \in Client : ~Owns(c)
  BY DEF Core, Owns
<1>2. ASSUME NEW c \in Client, CommandStep(c)
      PROVE  cmd.state \in {"none", "pending"}
  <2>1. CASE ReopenCommand(c)
    BY <1>1, <2>1, CommandTypes DEF ReopenCommand
  <2>2. CASE Cleanup(c)
    BY <1>1, <2>2 DEF Cleanup
  <2> QED BY <1>1, <1>2, <2>1, <2>2
          DEF CommandStep, Request, Claim, Reopen, Replay, Terminal, Complete, Prove, Doubt, Ledgers
<1>3. ASSUME NEW c \in Client, RouteStep(c) \/ SpawnStep(c) \/ CancelStep(c)
      PROVE  cmd' = cmd
  BY <1>1, <1>3
     DEF RouteStep, SpawnStep, CancelStep, Refuse, Reserve, ReserveFails, Begin, MarkCommand, MarkRoute,
         BoundaryFails, FailRoute, Restore, Activate, ActivateFails, SpawnFails, SpawnLocal, StartLocal,
         SpawnRemote, NoConnection, Send, Refused, Conflict, Lost, Bind, Arrive, CancelEarly,
         CancelClaim, CancelBoundary, CancelSpawn, CancelStarted, CancelAfter, Ledgers
<1>4. ASSUME NEW a \in Actor, ReconcileStep(a) \/ Query(a)
      PROVE  cmd' = cmd
  BY <1>4 DEF ReconcileStep, LookUp, Examine, Settle, Query, Ledgers
<1>5. ASSUME NEW w \in late, LateWrite(w)
      PROVE  cmd.state \in {"none", "pending"}
  <2>1. w[2] \in Client
    BY <1>1, <1>5 DEF TypeOK
  <2> QED BY <1>1, <1>5, <2>1 DEF LateWrite
<1>6. ArriveStray => cmd' = cmd
  BY DEF ArriveStray
<1>7. ~Crash
  BY <1>1, RestartIsCareful DEF Crash
<1> QED BY <1>2, <1>3, <1>4, <1>5, <1>6, <1>7 DEF Next, Actor

LEMMA StepIsNotRepeated == Core /\ UnsafeInv /\ [Next]_vars => [Unsafe => RepeatsNothing]_vars
<1> SUFFICES ASSUME Core, Unsafe, AllCareful, Next, cmd.state # "processing", cmd'.state = "processing"
             PROVE  effects = 0 /\ stray = 0
  BY DEF UnsafeInv, RepeatsNothing
<1> QED BY OnlyClaims DEF AllCareful, UnsafeLedgers, Nowhere

\* A create without the replay contract is claimed again only while nothing of it
\* exists or is on the wire (_recover_interrupted_claims, _settle_unsafe_create_interruption
\* and create_not_dispatched_is_durable together).
THEOREM UnsafeStaysSingle == Spec => UnsafeIsNotRepeated
<1>1. Init => UnsafeInv
  BY InitCareful DEF UnsafeInv
<1> QED BY <1>1, Invariance, StepCareful, StepIsNotRepeated, PTL DEF Spec, UnsafeIsNotRepeated

-----------------------------------------------------------------------------
(***************************************************************************)
(* That the four ledgers of a create agree, and that its key keeps its     *)
(* promise while nothing disturbs it: from the invariants above and one    *)
(* more, and a refinement of IdempotentCreate by every step.               *)
(***************************************************************************)

Decided == route.state \in {"active", "failed", "uncertain"}
Final == route.state \in {"failed", "uncertain"}

\* The route knows of the success of the create.
Sound == route.state = "active" \/ (~Local /\ Decided)

\* A failed command has a route that is decided, or was recovered before anything was
\* sent; a command that succeeded is known to the route; a refused key has no Task.
CalmLedgers ==
  /\ cmd.state = "failed" =>
       \/ Decided /\ (Local => Final)
       \/ Unsafe /\ NotDispatched /\ cmd.error = "recovered" /\ \A w \in late : w[1] = "claim"
  /\ cmd.state = "succeeded" => Sound
  /\ \A w \in late : w[1] = "complete" => Sound
  /\ ~Nowhere => route.state # "failed"
  /\ cmd.started => route.state # "none" /\ (~cmd.safe => Unsafe)
  /\ \A w \in late : w[1] # "claim" => route.state # "none"

\* A request whose Task does not exist yet, and one that has the route to itself.
Ahead(a) ==
  \/ actor[a].at \in {"mark_command", "mark_route", "spawn", "start", "call", "restore"}
  \/ At(a, "begin") /\ actor[a].view = "pending"
Pends(a) == Ahead(a) \/ actor[a].at \in {"activate", "fail_route"}

\* What a request does is what the route says.
Proceeds(a) ==
  /\ Pends(a) => /\ route.state = "pending"
                 /\ \A w \in late : w[1] \notin {"activate", "complete"}
  /\ Ahead(a) => ~Exists
  /\ At(a, "complete") => Sound
  /\ At(a, "restore") => route.boundary = "started"
  /\ At(a, "fail_route") =>
       /\ actor[a].end = "fail" /\ actor[a].out # "gone"
       /\ actor[a].aim \in {"failed", "uncertain"}
       /\ actor[a].aim = "failed" <=> actor[a].out = "not_started"
       /\ actor[a].aim = "failed" => Nowhere
  /\ At(a, "cleanup") /\ actor[a].end = "fail" =>
       IF actor[a].out = "gone" THEN Decided /\ ~Local
       ELSE Final /\ (actor[a].out = "not_started" => route.state = "failed")
  /\ At(a, "cleanup") /\ actor[a].out = "not_started" => actor[a].end = "fail"

\* What a request has read of the route, and what it does with it.
Sees(a) ==
  /\ actor[a].view = "active" => Sound
  /\ \/ actor[a].crossed \/ actor[a].at \in {"begin", "examine", "settle", "doubt"}
     \/ At(a, "look") /\ actor[a].next = "doubt"
     => route.state # "none"
  /\ actor[a].at \in {"begin", "examine", "doubt"} => actor[a].view # "none"
  /\ At(a, "examine") /\ actor[a].next = "begin" => route.boundary = "started"
  /\ At(a, "settle") =>
       /\ actor[a].next \in {"begin", "cleanup", "proof", "doubt"}
       /\ actor[a].aim \in {"active", "failed", "uncertain"}
       /\ actor[a].aim = "failed" => Local
       /\ Local /\ actor[a].aim # "active" => ~Exists
  /\ actor[a].at \in Reads => actor[a].next # "idle"
  /\ At(a, "look") /\ actor[a].next \in {"replay", "terminal"} => Decided
  /\ At(a, "examine") /\ actor[a].next \in {"replay", "terminal"} => actor[a].view # "pending"
  /\ At(a, "terminal") => actor[a].view \notin {"none", "pending"}
  /\ actor[a].at \in {"examine", "settle"} /\ actor[a].next = "cleanup" => actor[a].end = "release"

\* What a request knows that has found the command failed, or is being undone.
Recovers(a) ==
  /\ At(a, "reclaim") /\ cmd.state = "failed" => Decided
  /\ At(a, "reopen") /\ Local => Decided
  /\ actor[a].at \in {"reopen", "proof"} /\ actor[a].seen # "none"
       /\ cmd.state = "failed" /\ cmd.error = "recovered" => actor[a].seen = "recovered"
  /\ Unwinds(a) => Owns(a) \/ (Sound /\ Exists)
  /\ At(a, "proof") => Unsafe /\ (actor[a].seen = "none" => actor[a].crossed)
  /\ At(a, "doubt") \/ actor[a].next \in {"proof", "doubt"}
       => Unsafe /\ (At(a, "idle") \/ actor[a].crossed)

Calm(a) == Proceeds(a) /\ Sees(a) /\ Recovers(a)

AllCalm == CalmLedgers /\ \A a \in Actor : Calm(a)
CalmInv == Undisturbed => AllCalm

-----------------------------------------------------------------------------
(* What the others keep.                                                    *)

LEMMA FixedSetting ==
  ASSUME UNCHANGED setting
  PROVE  (Local' <=> Local) /\ (Unsafe' <=> Unsafe) /\ (Undisturbed' <=> Undisturbed)
BY DEF Local, Unsafe, ReplaySafe, Safe, Undisturbed, May

\* Without disturbance a query is never made and the route store answers.
LEMMA NotDisturbed ==
  ASSUME Undisturbed
  PROVE  (Local \/ Unsafe) /\ ~May("write") /\ (~Local => Unsafe) /\ (Unsafe => ~Local /\ ~Safe)
         /\ \A r \in Reader : ~Query(r)
BY DEF Undisturbed, Unsafe, ReplaySafe, Query

\* What a step owes to those who stand still: what is decided stays so, only a crash
\* fails a command as recovered, and a command that fails has its route decided.
Heeds ==
  /\ Exists => Exists'
  /\ Sound => Sound'
  /\ Decided => Decided'
  /\ Final => route'.state = route.state
  /\ route.state # "none" => route'.state # "none"
  /\ cmd'.state = "failed" => cmd' = cmd \/ (Decided' /\ cmd'.error # "recovered")
\* And to the owner of the claim: that its route and its boundary are left alone and
\* nothing is made for it.
Rests(b) ==
  /\ Owns(b) => Owns(b)' \/ (Sound' /\ Exists')
  /\ Owns(b) => (~Exists => ~Exists')
  /\ Works(b) => /\ route.boundary = "started" => route'.boundary = "started"
                 /\ Nowhere => Nowhere'
  /\ Pends(b) => /\ route'.state = "pending"
                 /\ \A w \in late' : w[1] \notin {"activate", "complete"}

LEMMA StandsCalm ==
  ASSUME Core, UNCHANGED setting, NEW b \in Actor, Calm(b), actor'[b] = actor[b], Heeds, Rests(b)
  PROVE  Calm(b)'
<1>1. (Local' <=> Local) /\ (Unsafe' <=> Unsafe)
  BY FixedSetting
<1>2. Works(b) => Owns(b)
  BY DEF Core, AllFit, Fits
<1>3. Ahead(b) \/ Pends(b) \/ At(b, "restore") \/ At(b, "fail_route") => Works(b)
  BY DEF Ahead, Pends, Works, At
<1>4. Proceeds(b)'
  BY <1>1, <1>2, <1>3 DEF Calm, Proceeds, Heeds, Rests, Pends, Ahead, At, Final
<1>5. Sees(b)'
  <2>1. At(b, "settle") /\ Local /\ actor[b].aim # "active" => ~Exists /\ Owns(b)
    BY <1>2 DEF Calm, Sees, Recovers, Works, Unwinds, At
  <2>2. At(b, "examine") /\ actor[b].next = "begin" => Works(b)
    BY DEF Works, At
  <2>3. At(b, "settle") /\ Local /\ actor[b].aim # "active" => ~Exists'
    BY <2>1 DEF Rests
  <2> HIDE DEF At
  <2> QED BY <1>1, <2>2, <2>3 DEF Calm, Sees, Heeds, Rests, At
<1>6. Recovers(b)'
  BY <1>1 DEF Calm, Recovers, Heeds, Rests, Unwinds, At
<1> QED BY <1>4, <1>5, <1>6 DEF Calm

\* At most one request pends, and who is undone beside it has nothing to add.
LEMMA PendsAlone ==
  ASSUME Core, NEW a \in Actor, NEW b \in Actor \ {a}, Calm(a), Calm(b), Pends(b)
  PROVE  ~Owns(a) /\ ~Works(a) /\ ~Unwinds(a) /\ Owns(b) /\ ~Sound
<1>1. Works(b) /\ Owns(b)
  BY DEF Core, AllFit, Fits, Pends, Ahead, Works, At
<1>2. ~Owns(a)
  BY <1>1 DEF Owns
<1>3. ~Works(a) /\ ~Sound
  BY <1>2 DEF Core, AllFit, Fits, Calm, Proceeds, Sound, Decided
<1> QED BY <1>1, <1>2, <1>3 DEF Calm, Recovers

\* A step that moves one actor and no ledger.
LEMMA CalmMoves ==
  ASSUME Core, AllCalm, UNCHANGED <<Ledgers, setting>>, NEW a \in Actor, Alone(a), Calm(a)'
  PROVE  AllCalm'
<1>1. UNCHANGED <<cmd, route, task, effects, stray, late>> /\ (Local' <=> Local) /\ (Unsafe' <=> Unsafe)
  BY FixedSetting DEF Ledgers
<1>2. CalmLedgers' /\ Heeds
  BY <1>1 DEF AllCalm, CalmLedgers, Heeds, Sound, Decided, Final, Exists, Nowhere, NotDispatched
<1>3. ASSUME NEW b \in Actor \ {a}
      PROVE  Calm(b)'
  <2>1. Calm(b) /\ Rests(b)
    BY <1>1 DEF AllCalm, Calm, Proceeds, Rests, Owns, Exists, Nowhere
  <2> QED BY <1>2, <1>3, <2>1, StandsCalm DEF Alone
<1> QED BY <1>2, <1>3 DEF AllCalm

\* A step of the owner of the claim, or of anyone while nobody owns it.
LEMMA OwnerMovesCalmly ==
  ASSUME Core, AllCalm, UNCHANGED setting, NEW a \in Actor, Owns(a) \/ cmd.state # "processing",
         Alone(a), Heeds, CalmLedgers', Calm(a)'
  PROVE  AllCalm'
<1>1. ASSUME NEW b \in Actor \ {a}
      PROVE  Calm(b)'
  <2>1. Calm(b) /\ ~Owns(b) /\ ~Works(b)
    BY DEF AllCalm, Owns, Core, AllFit, Fits
  <2>2. ~Pends(b)
    BY <2>1 DEF Pends, Ahead, Works, At
  <2> QED BY <1>1, <2>1, <2>2, StandsCalm DEF Rests, Alone
<1> QED BY <1>1 DEF AllCalm

\* A step that moves nobody.
LEMMA StandCalmly ==
  ASSUME Core, AllCalm, UNCHANGED <<actor, setting>>, Heeds, \A b \in Actor : Rests(b), CalmLedgers'
  PROVE  AllCalm'
BY StandsCalm DEF AllCalm

\* What an undisturbed create keeps.
Steady == Core /\ UnsafeInv /\ Undisturbed /\ AllCalm

LEMMA SameLedgers ==
  ASSUME UNCHANGED <<Ledgers, setting>>
  PROVE  /\ UNCHANGED <<cmd, route, task, effects, stray, late>>
         /\ (Local' <=> Local) /\ (Unsafe' <=> Unsafe)
         /\ (Decided' <=> Decided) /\ (Final' <=> Final) /\ (Sound' <=> Sound)
         /\ (Exists' <=> Exists) /\ (Nowhere' <=> Nowhere) /\ (NotDispatched' <=> NotDispatched)
         /\ \A a \in Actor : Owns(a)' <=> Owns(a)
BY FixedSetting DEF Ledgers, Decided, Final, Sound, Exists, Nowhere, NotDispatched, Owns

LEMMA Known ==
  ASSUME Steady, NEW a \in Actor
  PROVE  /\ TypeOK /\ LedgersFit /\ Fits(a) /\ Calm(a) /\ CalmLedgers
         /\ (Local \/ Unsafe) /\ (Unsafe => ~Local /\ ~Safe /\ Careful(a))
         /\ Works(a) => Owns(a)
BY NotDisturbed DEF Steady, Core, AllFit, AllCalm, UnsafeInv, AllCareful, Fits

-----------------------------------------------------------------------------
(* Steps that only move the one who makes them.                             *)

LEMMA RequestCalm ==
  ASSUME Steady, UNCHANGED setting, NEW c \in Client, Request(c)
  PROVE  AllCalm'
<1> USE Clients
<1>1. TypeOK /\ Requests(c) /\ UNCHANGED Ledgers
  BY Known DEF Request, Requests
<1>2. Alone(c) /\ Calm(c)'
  BY <1>1, RequestMoves
     DEF Calm, Proceeds, Sees, Recovers, Pends, Ahead, Unwinds, Reads, At
<1> QED BY <1>1, <1>2, CalmMoves DEF Steady

LEMMA ReopenCalm ==
  ASSUME Steady, UNCHANGED setting, NEW c \in Client, Reopen(c)
  PROVE  AllCalm'
<1> USE Clients
<1>1. TypeOK /\ Calm(c) /\ CalmLedgers /\ At(c, "reopen") /\ UNCHANGED Ledgers
      /\ (Unsafe => Careful(c)) /\ (Local \/ Unsafe)
  BY Known DEF Reopen
<1>2. CASE NotDispatched /\ Go(c, "proof")
  <2>1. "proof" \in Place /\ ~Local /\ Unsafe /\ actor[c].seen # "none"
    BY <1>1, <1>2 DEF Place, Calm, Recovers, Decided, NotDispatched, Careful, Recalls, At
  <2>2. Alone(c) /\ Calm(c)'
    BY <1>1, <1>2, <2>1, GoMoves, SameLedgers
       DEF Calm, Proceeds, Sees, Recovers, Pends, Ahead, Unwinds, Reads, At
  <2> QED BY <1>1, <2>2, CalmMoves DEF Steady
<1>3. CASE ~NotDispatched /\ Go(c, "reclaim")
  <2>1. "reclaim" \in Place /\ (cmd.state = "failed" => Decided)
    BY <1>1, <1>3 DEF Place, CalmLedgers
  <2>2. Alone(c) /\ Calm(c)'
    BY <1>1, <1>3, <2>1, GoMoves, SameLedgers
       DEF Calm, Proceeds, Sees, Recovers, Pends, Ahead, Unwinds, Reads, At
  <2> QED BY <1>1, <2>2, CalmMoves DEF Steady
<1> QED BY <1>2, <1>3 DEF Reopen

\* Whoever leaves with an answer leaves nothing behind.
LEMMA TellCalm ==
  ASSUME Steady, UNCHANGED <<Ledgers, setting>>, NEW c \in Client, NEW answer \in Answer, Tell(c, answer)
  PROVE  AllCalm'
<1> USE Clients
<1>1. Alone(c) /\ Calm(c)'
  BY Known, TellMoves
     DEF Calm, Proceeds, Sees, Recovers, Pends, Ahead, Unwinds, Reads, At
<1> QED BY <1>1, CalmMoves DEF Steady

LEMMA ReplayCalm ==
  ASSUME Steady, UNCHANGED setting, NEW c \in Client, Replay(c)
  PROVE  AllCalm'
<1>1. "created" \in Answer
  BY DEF Answer
<1> QED BY <1>1, TellCalm DEF Replay

\* What was read of the route of a failed command is decided.
LEMMA TerminalIsDecided ==
  ASSUME Steady, NEW c \in Client, Terminal(c)
  PROVE  UNCHANGED Ledgers /\ Tell(c, Outcome(actor[c].view))
BY Clients, Known DEF Terminal, Calm, Sees, Ledgers

LEMMA TerminalCalm ==
  ASSUME Steady, UNCHANGED setting, NEW c \in Client, Terminal(c)
  PROVE  AllCalm'
<1>1. Outcome(actor[c].view) \in Answer
  BY DEF Outcome, Answer
<1> QED BY <1>1, TerminalIsDecided, TellCalm

LEMMA RefuseCalm ==
  ASSUME Steady, UNCHANGED setting, NEW c \in Client, Refuse(c) \/ ReserveFails(c)
  PROVE  AllCalm'
<1> USE Clients
<1>1. TypeOK /\ Calm(c) /\ At(c, "admitted") /\ End(c, "release", "retry") /\ UNCHANGED Ledgers
      /\ "release" \in Ending /\ "retry" \in Answer
  BY Known DEF Refuse, ReserveFails, Answer, Ending
<1>2. Alone(c) /\ Calm(c)'
  BY <1>1, EndMoves, SameLedgers
     DEF Calm, Proceeds, Sees, Recovers, Pends, Ahead, Unwinds, Reads, At
<1> QED BY <1>1, <1>2, CalmMoves DEF Steady

LEMMA BeginCalm ==
  ASSUME Steady, UNCHANGED setting, NEW c \in Client, Begin(c)
  PROVE  AllCalm'
<1> USE Clients
<1>1. TypeOK /\ Fits(c) /\ Calm(c) /\ At(c, "begin") /\ UNCHANGED Ledgers
  BY Known DEF Begin
<1>2. CASE actor[c].view = "active" /\ Go(c, "complete")
  <2>1. "complete" \in Place
    BY DEF Place
  <2>2. Alone(c) /\ Calm(c)'
    BY <1>1, <1>2, <2>1, GoMoves, SameLedgers
       DEF Calm, Proceeds, Sees, Recovers, Pends, Ahead, Unwinds, Reads, At
  <2> QED BY <1>1, <2>2, CalmMoves DEF Steady
<1>3. CASE actor[c].view \in {"failed", "uncertain"} /\ End(c, "fail", Outcome(actor[c].view))
  <2>1. PICK answer \in {"not_started", "uncertain"} :
          End(c, "fail", answer) /\ (answer = "not_started" => actor[c].view = "failed")
    BY <1>3 DEF Outcome
  <2>2. answer \in Answer /\ "fail" \in Ending
    BY DEF Answer, Ending
  <2>3. Final /\ (answer = "not_started" => route.state = "failed")
    BY <1>1, <1>3, <2>1 DEF Final, Fits
  <2>4. Alone(c) /\ Calm(c)'
    BY <1>1, <2>1, <2>2, <2>3, EndMoves, SameLedgers
       DEF Calm, Proceeds, Sees, Recovers, Pends, Ahead, Unwinds, Reads, At
  <2> QED BY <1>1, <2>4, CalmMoves DEF Steady
<1>4. CASE actor[c].view = "pending" /\ Crosses(c, "mark_command")
  <2>1. "mark_command" \in Place
    BY DEF Place
  <2>2. Alone(c) /\ Calm(c)'
    BY <1>1, <1>4, <2>1, CrossMoves, SameLedgers
       DEF Calm, Proceeds, Sees, Recovers, Pends, Ahead, Unwinds, Reads, At
  <2> QED BY <1>1, <2>2, CalmMoves DEF Steady
<1> QED BY <1>2, <1>3, <1>4 DEF Begin, Crosses

\* A route that is pending is neither out of reach of a write nor kept from being active.
LEMMA NotMet ==
  ASSUME Steady, NEW c \in Client
  PROVE  ~BoundaryFails(c) /\ ~ActivateFails(c) /\ ~Conflict(c) /\ ~ReserveFails(c)
<1>1. ~May("write") /\ Calm(c) /\ (Unsafe => ~Local /\ ~Safe) /\ (Local \/ Unsafe)
  BY Clients, Known, NotDisturbed DEF Steady
<1>2. "active" \in Allowed["pending"]
  BY DEF Allowed, RouteState
<1>3. At(c, "call") => ~Local
  BY Clients, Known DEF Fits, TaskIsKnown
<1> QED BY <1>1, <1>2, <1>3
        DEF BoundaryFails, ActivateFails, Conflict, ReserveFails, Calm, Proceeds, Pends, Ahead, At

\* Whoever fails a route that is pending knows that nothing exists if it says so.
LEMMA FailRouteAsCalm ==
  ASSUME Steady, UNCHANGED <<Ledgers, setting>>, NEW c \in Client, Pends(c),
         \/ FailRouteAs(c, "failed", "not_started") /\ Nowhere
         \/ FailRouteAs(c, "uncertain", "uncertain")
  PROVE  AllCalm'
<1> USE Clients
<1>1. TypeOK /\ Calm(c)
  BY Known
<1>2. PICK s \in {"failed", "uncertain"}, answer \in {"not_started", "uncertain"} :
        FailRouteAs(c, s, answer) /\ (s = "failed" <=> answer = "not_started") /\ (s = "failed" => Nowhere)
  OBVIOUS
<1>3. s \in RouteState /\ answer \in Answer
  BY DEF RouteState, Answer
<1>4. Alone(c) /\ Calm(c)'
  BY <1>1, <1>2, <1>3, FailRouteMoves, SameLedgers
     DEF Calm, Proceeds, Sees, Recovers, Pends, Ahead, Unwinds, Reads, At
<1> QED BY <1>4, CalmMoves DEF Steady

LEMMA SpawnFailsCalm ==
  ASSUME Steady, UNCHANGED setting, NEW c \in Client, SpawnFails(c)
  PROVE  AllCalm'
<1> USE Clients
<1>1. TypeOK /\ LedgersFit /\ Calm(c) /\ (Unsafe => Careful(c)) /\ (Local \/ Unsafe) /\ UNCHANGED Ledgers
      /\ actor[c].at \in {"spawn", "start"}
  BY Known DEF SpawnFails, At
<1>2. Pends(c) /\ ~Exists
  BY <1>1 DEF Pends, Ahead, Calm, Proceeds
<1>3. At(c, "spawn") => Nowhere
  BY <1>1, <1>2, Counts DEF LedgersFit, Exists, Nowhere, Careful, Knows, Early, At
<1> QED BY <1>1, <1>2, <1>3, FailRouteAsCalm DEF SpawnFails

LEMMA SendCalm ==
  ASSUME Steady, UNCHANGED setting, NEW c \in Client, Send(c)
  PROVE  AllCalm'
<1> USE Clients
<1>1. TypeOK /\ Calm(c) /\ At(c, "call") /\ Calls(c, "flying") /\ UNCHANGED Ledgers
  BY Known DEF Send, Calls
<1>2. Alone(c) /\ Calm(c)'
  BY <1>1, CallMoves, SameLedgers
     DEF Calm, Proceeds, Sees, Recovers, Pends, Ahead, Unwinds, Reads, At
<1> QED BY <1>1, <1>2, CalmMoves DEF Steady

LEMMA ProveCalm ==
  ASSUME Steady, UNCHANGED setting, NEW c \in Client, Prove(c)
  PROVE  AllCalm'
<1> USE Clients
<1>1. TypeOK /\ Calm(c) /\ At(c, "proof") /\ actor[c].seen = "none" /\ UNCHANGED Ledgers
  BY Known DEF Prove
<1>2. CASE End(c, "release_not_dispatched", "gone")
  <2>1. "release_not_dispatched" \in Ending /\ "gone" \in Answer
    BY DEF Ending, Answer
  <2>2. Alone(c) /\ Calm(c)'
    BY <1>1, <1>2, <2>1, EndMoves, SameLedgers
       DEF Calm, Proceeds, Sees, Recovers, Pends, Ahead, Unwinds, Reads, At
  <2> QED BY <1>1, <2>2, CalmMoves DEF Steady
<1>3. CASE Reconcile(c, "look", "doubt")
  <2>1. "look" \in Place /\ "doubt" \in Place
    BY DEF Place
  <2>2. Alone(c) /\ Calm(c)'
    BY <1>1, <1>3, <2>1, ReconcileMoves, SameLedgers
       DEF Calm, Proceeds, Sees, Recovers, Pends, Ahead, Unwinds, Reads, At
  <2> QED BY <1>1, <2>2, CalmMoves DEF Steady
<1> QED BY <1>2, <1>3 DEF Prove

-----------------------------------------------------------------------------
(* Reading the route.                                                       *)

LEMMA LookUpCalm ==
  ASSUME Steady, UNCHANGED setting, NEW a \in Actor, LookUp(a)
  PROVE  AllCalm'
<1>1. TypeOK /\ Fits(a) /\ Calm(a) /\ At(a, "look") /\ UNCHANGED Ledgers
  BY Known DEF LookUp
<1>2. route.state # "none"
  BY <1>1 DEF Fits, NextIsKnown, Calm, Sees, Decided, Reads, At
<1>3. PICK view \in RouteState : Views(a, "examine", view) /\ view = route.state
  BY <1>1, <1>2 DEF LookUp, Views, TypeOK, Route, RouteState
<1>4. "examine" \in Place
  BY DEF Place
<1>5. Alone(a) /\ Calm(a)'
  BY <1>1, <1>2, <1>3, <1>4, ViewMoves, SameLedgers
     DEF Fits, NextIsKnown, Calm, Proceeds, Sees, Recovers, Pends, Ahead, Unwinds, Reads, At,
         Sound, Decided
<1> QED BY <1>1, <1>5, CalmMoves DEF Steady

\* What a reader finds is left alone unless it is open, or a run is missing.
LEMMA ExamineCalm ==
  ASSUME Steady, UNCHANGED setting, NEW a \in Actor, Examine(a)
  PROVE  AllCalm'
<1>1. TypeOK /\ LedgersFit /\ Fits(a) /\ Calm(a) /\ At(a, "examine") /\ UNCHANGED Ledgers
      /\ actor[a].view \in RouteState /\ (Local \/ Unsafe) /\ (Unsafe => ~Local /\ ~Safe)
  BY Known, FieldTypes DEF Examine
<1>2. actor[a].next \in {"begin", "replay", "terminal", "cleanup", "proof", "doubt"}
      /\ actor[a].view # "none"
  BY <1>1 DEF Fits, NextIsKnown, Calm, Sees, Reads, At
<1>3. CASE Nothing(a) /\ Return(a, actor[a].view)
  <2>1. actor[a].next = "begin" => actor[a].view # "pending"
    BY <1>1, <1>3 DEF Nothing, Reconcilable, Replayable, Calm, Sees, At
  <2>2. Alone(a) /\ Calm(a)'
    BY <1>1, <1>2, <1>3, <2>1, ReturnMoves, SameLedgers
       DEF Fits, NextIsKnown, Calm, Proceeds, Sees, Recovers, Pends, Ahead, Unwinds, Reads, At
  <2> QED BY <1>1, <2>2, CalmMoves DEF Steady
<1>4. CASE ~Nothing(a) /\ actor' = [actor EXCEPT ![a].at = "settle", ![a].aim = Aim(a)]
  <2>1. PICK aim \in {"active", "failed", "uncertain"} :
          /\ Aims(a, "settle", aim)
          /\ aim = "failed" => Local
          /\ Local /\ aim # "active" => ~Exists
    BY <1>1, <1>4, AimIsSound DEF Aims, Aim, HasRun, Exists, LedgersFit
  <2>2. "settle" \in Place /\ aim \in RouteState
    BY DEF Place, RouteState
  <2>3. actor[a].next \notin {"replay", "terminal"}
    <3>1. Local /\ actor[a].view = "active" => HasRun
      BY <1>1 DEF Calm, Sees, Sound, LedgersFit, Exists, HasRun
    <3> QED BY <1>1, <1>4, <3>1 DEF Nothing, Reconcilable, Calm, Sees, At
  <2>4. Alone(a) /\ Calm(a)'
    BY <1>1, <1>2, <2>1, <2>2, <2>3, AimMoves, SameLedgers
       DEF Fits, NextIsKnown, Calm, Proceeds, Sees, Recovers, Pends, Ahead, Unwinds, Reads, At
  <2> QED BY <1>1, <2>4, CalmMoves DEF Steady
<1> QED BY <1>3, <1>4 DEF Examine

-----------------------------------------------------------------------------
(* Cancellations.                                                           *)

\* A request that is cut short leaves its claim to whoever settles it.
LEMMA CutCalm ==
  ASSUME Steady, UNCHANGED <<cmd, route, task, effects, setting>>, NEW c \in Client, Works(c),
         NEW moved \in ActorState, Alone(c), actor'[c] = moved,
         \/ moved.at \in {"proof", "cleanup"} /\ moved.next = actor[c].next /\ moved.view = actor[c].view
         \/ moved.at = "examine" /\ moved.next \in {"proof", "cleanup"} /\ moved.view = "pending"
            /\ route.state # "none",
         moved.at = "proof" \/ (moved.at = "examine" /\ moved.next = "proof") => Unsafe /\ actor[c].crossed,
         moved.out = "gone", moved.seen = "none", moved.end = "release", moved.crossed = actor[c].crossed,
         NEW write \in Write \ {"claim"},
         late' = late \/ (route.state # "none" /\ (write = "complete" => Sound)
                          /\ late' = late \cup {<<write, c>>}),
         stray' = stray \/ route.state = "pending"
  PROVE  AllCalm'
<1> USE Clients
<1>1. Calm(c) /\ CalmLedgers /\ Owns(c) /\ cmd.state = "processing" /\ ~At(c, "idle")
  BY Known DEF Owns, Works, At
<1>2. (Local' <=> Local) /\ (Unsafe' <=> Unsafe) /\ (Sound' <=> Sound) /\ (Decided' <=> Decided) /\ Owns(c)'
  BY <1>1, FixedSetting DEF Sound, Decided, Owns
<1>3. Heeds
  BY <1>2 DEF Heeds, Exists, Final
<1>4. CalmLedgers'
  BY <1>1, <1>2 DEF CalmLedgers, Nowhere
<1>5. Calm(c)'
  BY <1>1, <1>2 DEF Calm, Proceeds, Sees, Recovers, Pends, Ahead, Unwinds, Reads, At
<1> QED BY <1>1, <1>3, <1>4, <1>5, OwnerMovesCalmly DEF Steady

\* Between the boundary and the answer the route is the request's own.
LEMMA AtWork ==
  ASSUME Steady, NEW c \in Client,
         actor[c].at \in {"mark_command", "mark_route", "spawn", "start", "call", "activate", "complete"}
  PROVE  /\ Works(c) /\ route.state # "none"
         /\ ~At(c, "complete") => route.state = "pending"
         /\ At(c, "complete") => Sound
BY Clients, Known DEF Calm, Proceeds, Pends, Ahead, Works, At, Sound, Decided

LEMMA CancelEarlyCalm ==
  ASSUME Steady, UNCHANGED setting, NEW c \in Client, CancelEarly(c)
  PROVE  AllCalm'
<1> USE Clients
<1>1. TypeOK /\ UNCHANGED Ledgers
  BY Known DEF CancelEarly
<1>2. CASE Tell(c, "gone")
  <2>1. "gone" \in Answer
    BY DEF Answer
  <2> QED BY <1>1, <1>2, <2>1, TellCalm
<1>3. CASE Works(c) /\ actor' = [actor EXCEPT ![c] = Unwound(c)]
  <2>1. Alone(c) /\ actor'[c] = Unwound(c) /\ "complete" \in Write \ {"claim"}
    BY <1>1, <1>3, UnwoundMoves DEF Alone, TypeOK, Write
  <2> QED BY <1>1, <1>3, <2>1, CutCalm, UnwoundMoves DEF Ledgers
<1> QED BY <1>2, <1>3 DEF CancelEarly, Works, At

LEMMA CancelBoundaryCalm ==
  ASSUME Steady, UNCHANGED setting, NEW c \in Client, CancelBoundary(c) \/ CancelStarted(c)
  PROVE  AllCalm'
<1> USE Clients
<1>1. TypeOK /\ UNCHANGED <<cmd, route, task, effects, stray>>
      /\ actor' = [actor EXCEPT ![c] = Interrupted(c)]
      /\ actor[c].at \in {"mark_command", "mark_route", "activate"}
  BY Known DEF CancelBoundary, CancelStarted, Ledgers, At
<1>2. Alone(c) /\ actor'[c] = Interrupted(c)
  BY <1>1, InterruptedMoves DEF Alone, TypeOK
<1>3. PICK write \in {"mark_command", "mark_route"} : late' = late \/ late' = late \cup {<<write, c>>}
  BY <1>1 DEF CancelBoundary, CancelStarted, Leave, Ledgers
<1>4. write \in Write \ {"claim"} /\ write # "complete"
  BY DEF Write
<1>5. Works(c) /\ route.state # "none"
  BY <1>1, AtWork
<1> DEFINE moved == Interrupted(c)
<1>6. /\ moved \in ActorState /\ moved.at = "examine"
      /\ moved.next \in {"proof", "cleanup"} /\ moved.view = "pending"
      /\ moved.next = "proof" => Unsafe /\ actor[c].crossed
      /\ moved.out = "gone" /\ moved.seen = "none" /\ moved.end = "release"
      /\ moved.crossed = actor[c].crossed
  BY <1>1, InterruptedMoves, UnwoundMoves
<1> QED BY <1>1, <1>2, <1>3, <1>4, <1>5, <1>6, CutCalm

LEMMA CancelAfterCalm ==
  ASSUME Steady, UNCHANGED setting, NEW c \in Client, CancelAfter(c)
  PROVE  AllCalm'
<1> USE Clients
<1>1. TypeOK /\ UNCHANGED <<cmd, route, task, effects, stray>>
      /\ actor' = [actor EXCEPT ![c] = Unwound(c)]
      /\ actor[c].at \in {"activate", "complete"}
  BY Known DEF CancelAfter
<1>2. Alone(c) /\ actor'[c] = Unwound(c)
  BY <1>1, UnwoundMoves DEF Alone, TypeOK
<1>3. PICK write \in {"activate", "complete"} :
        (late' = late \/ late' = late \cup {<<write, c>>}) /\ write = actor[c].at
  BY <1>1 DEF CancelAfter, Leave
<1>4. write \in Write \ {"claim"}
  BY DEF Write
<1> QED BY <1>1, <1>2, <1>3, <1>4, CutCalm, AtWork, UnwoundMoves DEF At

LEMMA CancelSpawnCalm ==
  ASSUME Steady, UNCHANGED setting, NEW c \in Client, CancelSpawn(c)
  PROVE  AllCalm'
<1> USE Clients
<1> DEFINE interrupted == Interrupted(c)
           moved == [interrupted EXCEPT !.call = "none"]
<1>1. /\ TypeOK /\ actor[c].at \in {"spawn", "start", "call"}
      /\ UNCHANGED <<cmd, route, task, effects, late>>
      /\ actor' = [actor EXCEPT ![c] = moved]
  BY Known DEF CancelSpawn
<1>2. /\ interrupted \in ActorState /\ interrupted.at = "examine"
      /\ interrupted.next \in {"proof", "cleanup"} /\ interrupted.view = "pending"
      /\ interrupted.next = "proof" => Unsafe /\ actor[c].crossed
      /\ interrupted.out = "gone" /\ interrupted.seen = "none" /\ interrupted.end = "release"
      /\ interrupted.crossed = actor[c].crossed
  BY <1>1, InterruptedMoves, UnwoundMoves
<1> HIDE DEF interrupted
<1>3. /\ moved \in ActorState /\ moved.at = "examine"
      /\ moved.next \in {"proof", "cleanup"} /\ moved.view = "pending"
      /\ moved.next = "proof" => Unsafe /\ actor[c].crossed
      /\ moved.out = "gone" /\ moved.seen = "none" /\ moved.end = "release"
      /\ moved.crossed = actor[c].crossed
  BY <1>2 DEF ActorState
<1> HIDE DEF moved
<1>4. Alone(c) /\ actor'[c] = moved /\ "complete" \in Write \ {"claim"}
  BY <1>1, <1>3 DEF Alone, TypeOK, Write
<1>5. Works(c) /\ route.state = "pending"
  BY <1>1, AtWork DEF At
<1> QED BY <1>1, <1>3, <1>4, <1>5, CutCalm

\* A cancelled claim leaves nothing that anyone minds.
LEMMA CancelClaimCalm ==
  ASSUME Steady, UNCHANGED setting, NEW c \in Client, CancelClaim(c)
  PROVE  AllCalm'
<1> USE Clients
<1>1. /\ Core /\ TypeOK /\ CalmLedgers /\ UNCHANGED <<cmd, route, task, effects, stray>>
      /\ Tell(c, "gone") /\ "gone" \in Answer
      /\ (late' = late \/ late' = late \cup {<<"claim", c>>})
  BY Known DEF Steady, CancelClaim, Answer, Leave
<1>2. \A w \in late' : w \in late \/ w[1] = "claim"
  BY <1>1
<1>3. (Local' <=> Local) /\ (Unsafe' <=> Unsafe) /\ (Sound' <=> Sound) /\ (Decided' <=> Decided)
      /\ (Final' <=> Final) /\ (Exists' <=> Exists) /\ (Nowhere' <=> Nowhere)
      /\ (NotDispatched' <=> NotDispatched) /\ \A b \in Actor : Owns(b)' <=> Owns(b)
  BY <1>1, FixedSetting DEF Sound, Decided, Final, Exists, Nowhere, NotDispatched, Owns
<1>4. CalmLedgers' /\ Heeds
  BY <1>1, <1>2, <1>3 DEF CalmLedgers, Heeds
<1>5. Alone(c) /\ Calm(c)'
  BY <1>1, TellMoves DEF Calm, Proceeds, Sees, Recovers, Pends, Ahead, Unwinds, Reads, At
<1>6. ASSUME NEW b \in Actor \ {c}
      PROVE  Calm(b)'
  <2>1. Calm(b) /\ actor'[b] = actor[b]
    BY <1>5, Known DEF Alone
  <2>2. Rests(b)
    BY <1>1, <1>2, <1>3, <2>1 DEF Rests, Calm, Proceeds
  <2> QED BY <1>1, <1>4, <2>1, <2>2, StandsCalm
<1> QED BY <1>4, <1>5, <1>6 DEF AllCalm

-----------------------------------------------------------------------------
(* Steps that change the row of the command.                                *)

LEMMA RowTypes ==
  ASSUME TypeOK
  PROVE  Released.started = FALSE /\ Reopened.started = FALSE
<1>1. cmd \in Command
  BY DEF TypeOK
<1>2. Released \in Command /\ Released.started = FALSE
  BY <1>1, CommandTypes DEF Released, Command
<1> DEFINE released == Released
<1>3. Reopened = [released EXCEPT !.safe = FALSE, !.error = "none"]
  BY DEF Reopened
<1>4. released \in Command /\ released.started = FALSE
  BY <1>2
<1> HIDE DEF released
<1>5. Reopened.started = FALSE
  BY <1>3, <1>4 DEF Command
<1> QED BY <1>2, <1>5

\* What follows from leaving the route, the Task and the wire alone.
LEMMA SameRoute ==
  ASSUME UNCHANGED <<route, task, effects, stray, late, setting>>
  PROVE  /\ (Local' <=> Local) /\ (Unsafe' <=> Unsafe)
         /\ (Decided' <=> Decided) /\ (Final' <=> Final) /\ (Sound' <=> Sound)
         /\ (Exists' <=> Exists) /\ (Nowhere' <=> Nowhere) /\ (NotDispatched' <=> NotDispatched)
BY FixedSetting DEF Decided, Final, Sound, Exists, Nowhere, NotDispatched

LEMMA ClaimCalm ==
  ASSUME Steady, UNCHANGED setting, NEW c \in Client, Claim(c)
  PROVE  AllCalm'
<1> USE Clients
<1>1. TypeOK /\ Calm(c) /\ CalmLedgers /\ UNCHANGED <<route, task, effects, stray, late, setting>>
      /\ actor[c].at \in {"claim", "reclaim"}
  BY Known DEF Claim
<1>2. CASE cmd.state \in {"none", "pending"} /\ cmd' = Claimed(c) /\ Go(c, "admitted")
  <2>1. "admitted" \in Place
    BY DEF Place
  <2>2. cmd'.state = "processing" /\ cmd'.started = cmd.started /\ cmd'.safe = cmd.safe
    BY <1>1, <1>2 DEF Claimed, TypeOK, Command
  <2>3. Alone(c) /\ Calm(c)'
    BY <1>1, <1>2, <2>1, GoMoves, SameRoute
       DEF Calm, Proceeds, Sees, Recovers, Pends, Ahead, Unwinds, Reads, At
  <2>4. CalmLedgers' /\ Heeds
    BY <1>1, <2>2, SameRoute DEF CalmLedgers, Heeds
  <2> QED BY <1>2, <2>3, <2>4, OwnerMovesCalmly DEF Steady
<1>3. CASE cmd.state = "succeeded" /\ Reconcile(c, "look", "replay") /\ UNCHANGED cmd
  <2>1. "look" \in Place /\ "replay" \in Place /\ Decided /\ UNCHANGED Ledgers
    BY <1>1, <1>3 DEF Place, CalmLedgers, Sound, Decided, Ledgers
  <2>2. Alone(c) /\ Calm(c)'
    BY <1>1, <1>3, <2>1, ReconcileMoves, SameLedgers
       DEF Calm, Proceeds, Sees, Recovers, Pends, Ahead, Unwinds, Reads, At
  <2> QED BY <1>1, <2>1, <2>2, CalmMoves DEF Steady
<1>4. CASE cmd.state = "failed" /\ UNCHANGED cmd
           /\ actor' = [actor EXCEPT ![c].at = "reopen", ![c].seen = cmd.error]
  <2>1. PICK seen \in Errors : seen = cmd.error /\ Finds(c, "reopen", seen)
    BY <1>1, <1>4, CommandTypes DEF Finds
  <2>2. "reopen" \in Place /\ (Local => Decided) /\ UNCHANGED Ledgers
    BY <1>1, <1>4 DEF Place, CalmLedgers, Ledgers, Unsafe, ReplaySafe
  <2>3. Alone(c) /\ Calm(c)'
    BY <1>1, <2>1, <2>2, SeenMoves, SameLedgers
       DEF Calm, Proceeds, Sees, Recovers, Pends, Ahead, Unwinds, Reads, At
  <2> QED BY <1>1, <2>2, <2>3, CalmMoves DEF Steady
<1>5. CASE cmd.state = "failed" /\ At(c, "reclaim") /\ Reconcile(c, "look", "terminal") /\ UNCHANGED cmd
  <2>1. "look" \in Place /\ "terminal" \in Place /\ Decided /\ UNCHANGED Ledgers
    BY <1>1, <1>5 DEF Place, Calm, Recovers, Ledgers
  <2>2. Alone(c) /\ Calm(c)'
    BY <1>1, <1>5, <2>1, ReconcileMoves, SameLedgers
       DEF Calm, Proceeds, Sees, Recovers, Pends, Ahead, Unwinds, Reads, At
  <2> QED BY <1>1, <2>1, <2>2, CalmMoves DEF Steady
<1>6. CASE Tell(c, "busy") /\ UNCHANGED cmd
  <2>1. "busy" \in Answer /\ UNCHANGED Ledgers
    BY <1>1, <1>6 DEF Answer, Ledgers
  <2> QED BY <1>1, <1>6, <2>1, TellCalm
<1> QED BY <1>2, <1>3, <1>4, <1>5, <1>6 DEF Claim

LEMMA ReopenCommandCalm ==
  ASSUME Steady, UNCHANGED setting, NEW c \in Client, ReopenCommand(c)
  PROVE  AllCalm'
<1> USE Clients
<1>1. TypeOK /\ Calm(c) /\ CalmLedgers /\ At(c, "proof") /\ actor[c].seen # "none"
      /\ UNCHANGED <<route, task, effects, stray, late, setting>>
      /\ cmd' = (IF cmd.state = "failed" /\ cmd.error = actor[c].seen THEN Reopened ELSE cmd)
      /\ Finds(c, "reclaim", "none") /\ "reclaim" \in Place /\ "none" \in Errors
  BY Known DEF ReopenCommand, Finds, Place, Errors, Answer
<1>2. cmd' = Reopened => cmd'.state = "pending" /\ ~cmd'.started
  BY <1>1, CommandTypes, RowTypes
<1>3. cmd.state = "failed" /\ cmd.error # actor[c].seen => Decided
  BY <1>1 DEF CalmLedgers, Calm, Recovers, At
<1>4. Alone(c) /\ Calm(c)'
  BY <1>1, <1>2, <1>3, SeenMoves, SameRoute
     DEF Calm, Proceeds, Sees, Recovers, Pends, Ahead, Unwinds, Reads, At
<1>5. CASE cmd' = cmd
  BY <1>1, <1>4, <1>5, CalmMoves DEF Steady, Ledgers
<1>6. CASE cmd.state = "failed" /\ cmd' = Reopened
  <2>1. CalmLedgers' /\ Heeds
    BY <1>1, <1>2, <1>6, SameRoute DEF CalmLedgers, Heeds
  <2> QED BY <1>4, <1>6, <2>1, OwnerMovesCalmly DEF Steady
<1> QED BY <1>1, <1>5, <1>6

LEMMA CleanupCalm ==
  ASSUME Steady, UNCHANGED setting, NEW c \in Client, Cleanup(c)
  PROVE  AllCalm'
<1> USE Clients
<1>1. TypeOK /\ Calm(c) /\ CalmLedgers /\ At(c, "cleanup") /\ Tell(c, actor[c].out)
      /\ UNCHANGED <<route, task, effects, stray, late, setting>>
      /\ actor[c].out \in Answer /\ actor[c].end \in Ending
  BY Known, FieldTypes DEF Cleanup
<1>2. CASE cmd' = cmd
  BY <1>1, <1>2, TellCalm DEF Ledgers
<1>3. ASSUME Owns(c), CalmLedgers', cmd'.state = "failed" => Decided /\ cmd'.error # "recovered"
      PROVE  AllCalm'
  <2>1. Heeds
    BY <1>1, <1>3, SameRoute DEF Heeds
  <2>2. Alone(c) /\ Calm(c)'
    BY <1>1, TellMoves
       DEF Calm, Proceeds, Sees, Recovers, Pends, Ahead, Unwinds, Reads, At
  <2> QED BY <1>3, <2>1, <2>2, OwnerMovesCalmly DEF Steady
<1>4. CASE Owns(c) /\ (cmd' = Released \/ cmd' = Reopened)
  <2>1. cmd'.state = "pending" /\ ~cmd'.started
    BY <1>1, <1>4, CommandTypes, RowTypes
  <2>2. CalmLedgers'
    BY <1>1, <2>1, SameRoute DEF CalmLedgers
  <2> QED BY <1>3, <1>4, <2>1, <2>2
<1>5. CASE Owns(c) /\ actor[c].end = "fail"
           /\ cmd' = [cmd EXCEPT !.state = "failed", !.owner = Nobody, !.error = actor[c].out]
  <2>1. cmd'.state = "failed" /\ cmd'.error = actor[c].out
        /\ cmd'.started = cmd.started /\ cmd'.safe = cmd.safe
    BY <1>1, <1>5 DEF TypeOK, Command
  <2>2. Decided /\ (Local => Final) /\ actor[c].out # "recovered"
    BY <1>1, <1>5 DEF Calm, Proceeds, Decided, Final, Answer
  <2>3. CalmLedgers'
    BY <1>1, <2>1, <2>2, SameRoute DEF CalmLedgers
  <2> QED BY <1>3, <1>5, <2>1, <2>2, <2>3
<1> QED BY <1>1, <1>2, <1>4, <1>5 DEF Cleanup, Ending

LEMMA CompleteCalm ==
  ASSUME Steady, UNCHANGED setting, NEW c \in Client, Complete(c)
  PROVE  AllCalm'
<1> USE Clients
<1>1. TypeOK /\ Calm(c) /\ CalmLedgers /\ At(c, "complete") /\ Owns(c)
      /\ Tell(c, "created") /\ "created" \in Answer
      /\ UNCHANGED <<route, task, effects, stray, late, setting>>
      /\ cmd' = [cmd EXCEPT !.state = "succeeded", !.owner = Nobody, !.error = "none"]
  BY Known DEF Complete, Answer
<1>2. cmd'.state = "succeeded" /\ cmd'.started = cmd.started /\ cmd'.safe = cmd.safe /\ Sound
  BY <1>1 DEF TypeOK, Command, Calm, Proceeds
<1>3. Alone(c) /\ Calm(c)'
  BY <1>1, TellMoves
     DEF Calm, Proceeds, Sees, Recovers, Pends, Ahead, Unwinds, Reads, At
<1>4. CalmLedgers' /\ Heeds
  BY <1>1, <1>2, SameRoute DEF CalmLedgers, Heeds
<1> QED BY <1>1, <1>3, <1>4, OwnerMovesCalmly DEF Steady

LEMMA MarkCommandCalm ==
  ASSUME Steady, UNCHANGED setting, NEW c \in Client, MarkCommand(c)
  PROVE  AllCalm'
<1> USE Clients
<1>1. TypeOK /\ Calm(c) /\ CalmLedgers /\ At(c, "mark_command") /\ Owns(c)
      /\ Go(c, "mark_route") /\ "mark_route" \in Place
      /\ UNCHANGED <<route, task, effects, stray, late, setting>>
      /\ cmd' = [cmd EXCEPT !.started = TRUE, !.safe = ReplaySafe]
  BY Known DEF MarkCommand, Place
<1>2. cmd'.state = "processing" /\ (~cmd'.safe => Unsafe) /\ route.state = "pending"
  BY <1>1, AtWork DEF TypeOK, Command, Owns, Unsafe, At
<1>3. Alone(c) /\ Calm(c)'
  BY <1>1, <1>2, GoMoves, SameRoute
     DEF Calm, Proceeds, Sees, Recovers, Pends, Ahead, Unwinds, Reads, At
<1>4. CalmLedgers' /\ Heeds
  BY <1>1, <1>2, SameRoute DEF CalmLedgers, Heeds
<1> QED BY <1>1, <1>3, <1>4, OwnerMovesCalmly DEF Steady

-----------------------------------------------------------------------------
(* Steps that change the route.                                             *)

LEMMA Transits ==
  ASSUME TypeOK, route.state = "pending", NEW s \in {"failed", "uncertain"}, Transition(s)
  PROVE  route'.state = s /\ route'.boundary = route.boundary
BY DEF Transition, Allowed, TypeOK, Route, RouteState

LEMMA ReserveCalm ==
  ASSUME Steady, UNCHANGED setting, NEW c \in Client, Reserve(c)
  PROVE  AllCalm'
<1> USE Clients
<1>1. TypeOK /\ LedgersFit /\ Calm(c) /\ CalmLedgers /\ At(c, "admitted") /\ Works(c) /\ Owns(c)
      /\ (Local \/ Unsafe) /\ UNCHANGED <<cmd, task, effects, stray, late, setting>>
  BY Known DEF Reserve, Works, At
<1>2. /\ route' \in Route /\ route'.state # "none" /\ route'.boundary = route.boundary
      /\ route.state # "none" => route' = route
      /\ route.state = "none" => route'.state = "pending" /\ route.boundary = "reserved"
  BY <1>1 DEF Reserve, TypeOK, Route, RouteState, LedgersFit
<1>3. (Local' <=> Local) /\ (Unsafe' <=> Unsafe) /\ (Exists' <=> Exists) /\ (Nowhere' <=> Nowhere)
      /\ (Sound => Sound') /\ (Decided => Decided')
  BY <1>1, <1>2, FixedSetting DEF Exists, Nowhere, Sound, Decided
<1>4. PICK place \in {"begin", "examine"}, view \in RouteState :
        /\ Reserves(c, place, view) /\ view = route'.state
        /\ place = "begin" => route.boundary = "reserved"
        /\ place = "examine" => route.boundary = "started"
  BY <1>1, <1>2 DEF Reserve, TypeOK, Route, Reserves
<1>5. place = "begin" => Nowhere /\ ~Exists /\ \A w \in late : w[1] \notin {"activate", "complete"}
  BY <1>1, <1>4, Counts DEF LedgersFit, Nowhere, Exists, Steady, Core, LateFit, LateFits
<1>6. place \in Place
  BY DEF Place
<1>7. Alone(c) /\ Calm(c)'
  BY <1>1, <1>2, <1>3, <1>4, <1>5, <1>6, ReserveMoves
     DEF Calm, Proceeds, Sees, Recovers, Pends, Ahead, Unwinds, Reads, At, Sound
<1>8. Heeds
  BY <1>1, <1>2, <1>3 DEF Heeds, Final, Owns
<1>9. CalmLedgers'
  BY <1>1, <1>2, <1>3 DEF CalmLedgers, Owns
<1> QED BY <1>1, <1>7, <1>8, <1>9, OwnerMovesCalmly DEF Steady

LEMMA MarkRouteCalm ==
  ASSUME Steady, UNCHANGED setting, NEW c \in Client, MarkRoute(c)
  PROVE  AllCalm'
<1> USE Clients
<1>1. TypeOK /\ Calm(c) /\ CalmLedgers /\ At(c, "mark_route") /\ Owns(c) /\ Go(c, "spawn")
      /\ "spawn" \in Place /\ UNCHANGED <<cmd, task, effects, stray, late, setting>>
      /\ route' = [route EXCEPT !.boundary = "started"]
  BY Known DEF MarkRoute, Works, At, Place
<1>2. route'.state = route.state /\ route'.boundary = "started"
  BY <1>1 DEF TypeOK, Route
<1>3. (Local' <=> Local) /\ (Unsafe' <=> Unsafe) /\ (Exists' <=> Exists) /\ (Nowhere' <=> Nowhere)
      /\ (Sound' <=> Sound) /\ (Decided' <=> Decided) /\ (Final' <=> Final)
  BY <1>1, <1>2, FixedSetting DEF Exists, Nowhere, Sound, Decided, Final
<1>4. Alone(c) /\ Calm(c)'
  BY <1>1, <1>2, <1>3, GoMoves
     DEF Calm, Proceeds, Sees, Recovers, Pends, Ahead, Unwinds, Reads, At
<1>5. Heeds /\ CalmLedgers'
  BY <1>1, <1>2, <1>3 DEF Heeds, CalmLedgers, Owns
<1> QED BY <1>1, <1>4, <1>5, OwnerMovesCalmly DEF Steady

LEMMA FailRouteCalm ==
  ASSUME Steady, UNCHANGED setting, NEW c \in Client, FailRoute(c)
  PROVE  AllCalm'
<1> USE Clients
<1>1. TypeOK /\ Calm(c) /\ CalmLedgers /\ At(c, "fail_route") /\ Owns(c) /\ Go(c, "cleanup")
      /\ "cleanup" \in Place /\ UNCHANGED <<cmd, task, effects, stray, late, setting>>
      /\ Transition(actor[c].aim)
  BY Known, NotDisturbed DEF Steady, FailRoute, Works, At, Place
<1>2. /\ route.state = "pending" /\ ~Sound
      /\ route'.state = actor[c].aim /\ route'.boundary = route.boundary
      /\ actor[c].aim \in {"failed", "uncertain"}
      /\ \A w \in late : w[1] \notin {"activate", "complete"}
  BY <1>1, Transits DEF Calm, Proceeds, Pends, Sound, Decided, At
<1>3. (Local' <=> Local) /\ (Unsafe' <=> Unsafe) /\ (Exists' <=> Exists) /\ (Nowhere' <=> Nowhere)
      /\ Decided' /\ Final'
  BY <1>1, <1>2, FixedSetting DEF Exists, Nowhere, Decided, Final
<1>4. Alone(c) /\ Calm(c)'
  BY <1>1, <1>2, <1>3, GoMoves
     DEF Calm, Proceeds, Sees, Recovers, Pends, Ahead, Unwinds, Reads, At
<1>5. Heeds
  BY <1>1, <1>2, <1>3 DEF Heeds, Owns, Decided, Final
<1>6. CalmLedgers'
  BY <1>1, <1>2, <1>3 DEF CalmLedgers, Owns, Calm, Proceeds
<1> QED BY <1>1, <1>4, <1>5, <1>6, OwnerMovesCalmly DEF Steady

LEMMA RestoreCalm ==
  ASSUME Steady, UNCHANGED setting, NEW c \in Client, Restore(c)
  PROVE  AllCalm'
<1> USE Clients
<1>1. TypeOK /\ Fits(c) /\ Calm(c) /\ CalmLedgers /\ At(c, "restore") /\ Owns(c)
      /\ (Local \/ Unsafe) /\ (Unsafe => Careful(c)) /\ ~May("write")
      /\ UNCHANGED <<cmd, task, effects, stray, late, setting>>
  BY Known, NotDisturbed DEF Steady, Restore, Works, At
<1>2. route.state = "pending" /\ route.boundary = "started"
      /\ actor[c].end = "release_not_dispatched" /\ actor[c].out = "retry"
  BY <1>1 DEF Calm, Proceeds, Pends, Ahead, At, Fits, TaskIsKnown, Careful, Knows
<1>3. Go(c, "cleanup") /\ "cleanup" \in Place /\ route' = [route EXCEPT !.boundary = "reserved"]
  BY <1>1, <1>2 DEF Restore, NotDispatched, Place
<1>4. route'.state = route.state
  BY <1>1, <1>3 DEF TypeOK, Route
<1>5. (Local' <=> Local) /\ (Unsafe' <=> Unsafe) /\ (Exists' <=> Exists) /\ (Nowhere' <=> Nowhere)
      /\ (Sound' <=> Sound) /\ (Decided' <=> Decided) /\ (Final' <=> Final)
  BY <1>1, <1>4, FixedSetting DEF Exists, Nowhere, Sound, Decided, Final
<1>6. Alone(c) /\ Calm(c)'
  BY <1>1, <1>2, <1>3, <1>4, <1>5, GoMoves
     DEF Calm, Proceeds, Sees, Recovers, Pends, Ahead, Unwinds, Reads, At
<1>7. Heeds /\ CalmLedgers'
  BY <1>1, <1>4, <1>5 DEF Heeds, CalmLedgers, Owns
<1> QED BY <1>1, <1>6, <1>7, OwnerMovesCalmly DEF Steady

LEMMA ActivateCalm ==
  ASSUME Steady, UNCHANGED setting, NEW c \in Client, Activate(c)
  PROVE  AllCalm'
<1> USE Clients
<1>1. TypeOK /\ Calm(c) /\ CalmLedgers /\ At(c, "activate") /\ Owns(c) /\ Go(c, "complete")
      /\ "complete" \in Place /\ UNCHANGED <<cmd, task, effects, stray, late, setting>>
      /\ route' = [route EXCEPT !.state = "active"]
  BY Known DEF Activate, Works, At, Place
<1>2. route'.state = "active" /\ route.state = "pending"
  BY <1>1, AtWork DEF TypeOK, Route, At
<1>3. (Local' <=> Local) /\ (Unsafe' <=> Unsafe) /\ (Exists' <=> Exists) /\ (Nowhere' <=> Nowhere)
      /\ Sound' /\ Decided'
  BY <1>1, <1>2, FixedSetting DEF Exists, Nowhere, Sound, Decided
<1>4. Alone(c) /\ Calm(c)'
  BY <1>1, <1>2, <1>3, GoMoves
     DEF Calm, Proceeds, Sees, Recovers, Pends, Ahead, Unwinds, Reads, At
<1>5. Heeds /\ CalmLedgers'
  BY <1>1, <1>2, <1>3 DEF Heeds, CalmLedgers, Owns, Final
<1> QED BY <1>1, <1>4, <1>5, OwnerMovesCalmly DEF Steady

\* A route is decided by someone whose claim nobody shares, or who adds nothing to it.
LEMMA DecisionMoves ==
  ASSUME Steady, UNCHANGED <<cmd, task, effects, stray, late, setting>>, NEW a \in Actor,
         Works(a) \/ Unwinds(a), Alone(a), Calm(a)', route.state # "none",
         Decided', Sound => Sound', Final => route'.state = route.state,
         route'.boundary = route.boundary, route'.state = "failed" => Nowhere
  PROVE  AllCalm'
<1>1. Core /\ CalmLedgers /\ effects \in Nat
  BY Known, Counts DEF Steady, Core
<1>2. (Local' <=> Local) /\ (Unsafe' <=> Unsafe) /\ (Exists' <=> Exists) /\ (Nowhere' <=> Nowhere)
      /\ \A b \in Actor : Owns(b)' <=> Owns(b)
  BY FixedSetting DEF Exists, Nowhere, Owns
<1>3. route'.state # "none" /\ (Final => Final')
  BY DEF Decided, Final
<1>4. Heeds
  BY <1>2, <1>3 DEF Heeds
<1>5. CalmLedgers'
  BY <1>1, <1>2, <1>3 DEF CalmLedgers, Unsafe, ReplaySafe
<1>6. ASSUME NEW b \in Actor \ {a}
      PROVE  Calm(b)'
  <2>1. Calm(b) /\ actor'[b] = actor[b] /\ ~Pends(b)
    BY <1>1, Known, PendsAlone DEF Alone
  <2>2. Rests(b)
    BY <1>2, <2>1 DEF Rests
  <2> QED BY <1>1, <1>4, <2>1, <2>2, StandsCalm
<1> QED BY <1>5, <1>6 DEF AllCalm

LEMMA SettleCalm ==
  ASSUME Steady, UNCHANGED setting, NEW a \in Actor, Settle(a)
  PROVE  AllCalm'
<1>1. TypeOK /\ LedgersFit /\ Fits(a) /\ Calm(a) /\ CalmLedgers /\ At(a, "settle") /\ actor[a].aim \in RouteState
      /\ Transition(actor[a].aim) /\ UNCHANGED <<cmd, task, effects, stray, late, setting>>
  BY Known, FieldTypes DEF Settle
<1>2. /\ actor[a].next \in {"begin", "cleanup", "proof", "doubt"}
      /\ actor[a].aim \in {"active", "failed", "uncertain"} /\ route.state # "none"
      /\ actor[a].aim = "failed" => Local
      /\ Local /\ actor[a].aim # "active" => ~Exists
  BY <1>1 DEF Calm, Sees, At
<1>3. /\ route' \in Route /\ route'.boundary = route.boundary
      /\ route'.state = actor[a].aim \/ route'.state = route.state
      /\ Final => route'.state = route.state
      /\ route'.state # "none"
  BY <1>1, <1>2, TransitionMoves DEF Final
<1>4. route'.state # "pending"
  <2>1. CASE route.state = "pending"
    BY <1>1, <1>2, <2>1 DEF Transition, Allowed, TypeOK, Route, RouteState
  <2> QED BY <1>2, <1>3, <2>1
<1>5. Decided'
  BY <1>3, <1>4 DEF Decided, Route, RouteState
<1>6. (Local' <=> Local) /\ (Unsafe' <=> Unsafe) /\ (Exists' <=> Exists) /\ (Owns(a)' <=> Owns(a))
  BY <1>1, FixedSetting DEF Exists, Owns
<1>7. Sound => Sound'
  <2>1. Local /\ route.state = "active" => route'.state = "active"
    BY <1>1, <1>2, <1>3 DEF LedgersFit
  <2> QED BY <1>5, <1>6, <2>1 DEF Sound
<1>8. route'.state = "failed" => Nowhere
  <2>1. Local /\ ~Exists => Nowhere
    BY <1>1, Counts DEF LedgersFit, Exists, Nowhere
  <2> QED BY <1>1, <1>2, <1>3, <2>1 DEF CalmLedgers
<1>9. PICK view \in RouteState : view = route'.state /\ Return(a, view)
  BY <1>3 DEF Settle, Route
<1>10. Alone(a) /\ Calm(a)'
  <2>1. /\ Alone(a) /\ actor'[a].at = actor[a].next /\ actor'[a].next = actor[a].next
        /\ actor'[a].view = route'.state /\ actor'[a].end = actor[a].end
        /\ actor'[a].out = actor[a].out /\ actor'[a].seen = actor[a].seen
        /\ actor'[a].crossed = actor[a].crossed
    BY <1>1, <1>9, ReturnMoves
  <2>2. Proceeds(a)'
    BY <1>1, <1>2, <1>4, <1>5, <2>1
       DEF Fits, NextIsKnown, Calm, Sees, Proceeds, Pends, Ahead, At
  <2>3. Sees(a)'
    BY <1>1, <1>2, <1>3, <1>4, <2>1 DEF Calm, Sees, Reads, At, Sound
  <2>4. Recovers(a)'
    BY <1>1, <1>2, <1>6, <1>7, <2>1 DEF Fits, NextIsKnown, Calm, Recovers, Unwinds, At
  <2> QED BY <2>1, <2>2, <2>3, <2>4 DEF Calm
<1>11. Works(a) \/ Unwinds(a)
  BY <1>1, <1>2 DEF Works, Unwinds, At
<1> QED BY <1>1, <1>2, <1>3, <1>5, <1>7, <1>8, <1>10, <1>11, DecisionMoves

LEMMA DoubtCalm ==
  ASSUME Steady, UNCHANGED setting, NEW c \in Client, Doubt(c)
  PROVE  AllCalm'
<1> USE Clients
<1>1. TypeOK /\ Fits(c) /\ Calm(c) /\ CalmLedgers /\ At(c, "doubt") /\ actor[c].view \in RouteState
      /\ End(c, "fail", "gone") /\ "fail" \in Ending /\ "gone" \in Answer
      /\ UNCHANGED <<cmd, task, effects, stray, late, setting>>
  BY Known, FieldTypes DEF Doubt, Ending, Answer
<1>2. Unsafe /\ ~Local /\ route.state # "none" /\ actor[c].view # "none"
  BY <1>1, Known DEF Calm, Recovers, Sees, At
<1>3. CASE actor[c].view = "pending" /\ Transition("uncertain")
  <2>1. "uncertain" \in RouteState
    BY DEF RouteState
  <2>2. /\ route' \in Route /\ route'.boundary = route.boundary
        /\ route'.state = "uncertain" \/ route'.state = route.state
        /\ Final => route'.state = route.state
    BY <1>1, <1>3, <2>1, TransitionMoves DEF Final
  <2>3. route'.state \notin {"none", "pending"}
    BY <1>1, <1>2, <1>3 DEF Transition, Allowed, TypeOK, Route, RouteState
  <2>4. Decided'
    BY <2>2, <2>3 DEF Decided, Route, RouteState
  <2>5. (Local' <=> Local) /\ (Unsafe' <=> Unsafe) /\ (Exists' <=> Exists) /\ (Owns(c)' <=> Owns(c)) /\ Sound'
    BY <1>1, <1>2, <2>4, FixedSetting DEF Exists, Owns, Sound
  <2>6. Alone(c) /\ Calm(c)'
    BY <1>1, <1>2, <2>3, <2>4, <2>5, EndMoves
       DEF Calm, Proceeds, Sees, Recovers, Pends, Ahead, Unwinds, Reads, At
  <2>7. route'.state = "failed" => Nowhere
    BY <1>1, <2>2 DEF CalmLedgers
  <2>8. Unwinds(c)
    BY <1>1 DEF Unwinds
  <2> QED BY <1>1, <1>2, <2>2, <2>4, <2>5, <2>6, <2>7, <2>8, DecisionMoves
<1>4. CASE actor[c].view # "pending" /\ UNCHANGED route
  <2>1. Decided /\ UNCHANGED Ledgers
    BY <1>1, <1>2, <1>4 DEF Calm, Sees, Sound, Fits, Decided, RouteState, Ledgers
  <2>2. Alone(c) /\ Calm(c)'
    BY <1>1, <1>2, <2>1, EndMoves, SameLedgers
       DEF Calm, Proceeds, Sees, Recovers, Pends, Ahead, Unwinds, Reads, At
  <2> QED BY <2>1, <2>2, CalmMoves DEF Steady
<1> QED BY <1>3, <1>4 DEF Doubt

-----------------------------------------------------------------------------
(* Steps of the spawn.                                                      *)

\* The owner of a route that is pending makes its Task.
LEMMA SpawnMoves ==
  ASSUME Steady, UNCHANGED <<cmd, route, late, setting>>, NEW c \in Client, Works(c), Alone(c),
         route.state = "pending", Exists => Exists', Calm(c)'
  PROVE  AllCalm'
<1> USE Clients
<1>1. CalmLedgers /\ Owns(c) /\ cmd.state = "processing"
  BY Known DEF Owns
<1>2. (Local' <=> Local) /\ (Unsafe' <=> Unsafe) /\ (Sound' <=> Sound) /\ (Decided' <=> Decided)
  BY FixedSetting DEF Sound, Decided
<1>3. CalmLedgers'
  BY <1>1, <1>2 DEF CalmLedgers
<1>4. Heeds
  BY <1>2 DEF Heeds
<1> QED BY <1>1, <1>3, <1>4, OwnerMovesCalmly DEF Steady

\* What it knows before it does so.
LEMMA BeforeSpawn ==
  ASSUME Steady, UNCHANGED <<cmd, route, late, setting>>, NEW c \in Client,
         actor[c].at \in {"spawn", "start", "call"}
  PROVE  /\ TypeOK /\ LedgersFit /\ Fits(c) /\ Calm(c) /\ Works(c) /\ route.state = "pending" /\ ~Exists
         /\ ~Local => ~Safe
         /\ \A w \in late' : w[1] \notin {"activate", "complete"}
         /\ (Local' <=> Local) /\ (Unsafe' <=> Unsafe) /\ (Sound' <=> Sound) /\ (Decided' <=> Decided)
         /\ ~Sound /\ ~Decided
BY Clients, Known, FixedSetting
   DEF Calm, Proceeds, Pends, Ahead, Works, At, Sound, Decided

LEMMA SpawnLocalCalm ==
  ASSUME Steady, UNCHANGED setting, NEW c \in Client, SpawnLocal(c)
  PROVE  AllCalm'
<1> USE Clients
<1>1. TypeOK /\ LedgersFit /\ Calm(c) /\ Works(c) /\ route.state = "pending" /\ ~Exists /\ Local
      /\ UNCHANGED <<cmd, route, effects, stray, late, setting>> /\ At(c, "spawn")
  BY BeforeSpawn DEF SpawnLocal, At
<1>2. task # "run"
  BY <1>1 DEF LedgersFit, Exists
<1>3. Go(c, "start") /\ "start" \in Place /\ ~Exists'
  BY <1>1, <1>2 DEF SpawnLocal, Place, Exists, LedgersFit
<1>4. Alone(c) /\ Calm(c)'
  BY <1>1, <1>3, GoMoves, BeforeSpawn
     DEF Calm, Proceeds, Sees, Recovers, Pends, Ahead, Unwinds, Reads, At
<1> QED BY <1>1, <1>4, SpawnMoves

LEMMA StartLocalCalm ==
  ASSUME Steady, UNCHANGED setting, NEW c \in Client, StartLocal(c)
  PROVE  AllCalm'
<1> USE Clients
<1>1. TypeOK /\ Calm(c) /\ Works(c) /\ route.state = "pending" /\ ~Exists
      /\ UNCHANGED <<cmd, route, late, setting>> /\ At(c, "start")
      /\ Go(c, "activate") /\ "activate" \in Place
  BY BeforeSpawn DEF StartLocal, At, Place
<1>2. Alone(c) /\ Calm(c)'
  BY <1>1, GoMoves, BeforeSpawn
     DEF Calm, Proceeds, Sees, Recovers, Pends, Ahead, Unwinds, Reads, At
<1> QED BY <1>1, <1>2, SpawnMoves

LEMMA SpawnRemoteCalm ==
  ASSUME Steady, UNCHANGED setting, NEW c \in Client, SpawnRemote(c)
  PROVE  AllCalm'
<1> USE Clients
<1>1. TypeOK /\ Calm(c) /\ Works(c) /\ route.state = "pending" /\ ~Exists
      /\ UNCHANGED <<cmd, route, effects, stray, late, setting>> /\ At(c, "spawn")
  BY BeforeSpawn DEF SpawnRemote, At
<1>2. ASSUME NEW place \in {"activate", "call"}, Go(c, place), place = "call" => ~Exists'
      PROVE  AllCalm'
  <2>1. place \in Place
    BY DEF Place
  <2>2. Alone(c) /\ Calm(c)'
    BY <1>1, <1>2, <2>1, GoMoves, BeforeSpawn
       DEF Calm, Proceeds, Sees, Recovers, Pends, Ahead, Unwinds, Reads, At
  <2> QED BY <1>1, <2>2, SpawnMoves
<1>3. task' = "doubt" => ~Exists'
  BY DEF Exists
<1>4. CASE FailRouteAs(c, "uncertain", "uncertain") /\ UNCHANGED task
  <2>1. Pends(c) /\ UNCHANGED Ledgers
    BY <1>1, <1>4 DEF Pends, Ahead, At, Ledgers
  <2> QED BY <1>1, <1>4, <2>1, FailRouteAsCalm
<1> QED BY <1>2, <1>3, <1>4 DEF SpawnRemote

LEMMA NoConnectionCalm ==
  ASSUME Steady, UNCHANGED setting, NEW c \in Client, NoConnection(c)
  PROVE  AllCalm'
<1> USE Clients
<1>1. TypeOK /\ Fits(c) /\ Calm(c) /\ Works(c) /\ route.state = "pending" /\ ~Exists
      /\ UNCHANGED <<cmd, route, effects, stray, late, setting>> /\ At(c, "call") /\ task' = "proxy"
      /\ Restores(c, "release_not_dispatched", "retry")
      /\ "release_not_dispatched" \in Ending /\ "retry" \in Answer
  BY BeforeSpawn DEF NoConnection, At, Restores, Ending, Answer
<1>2. ~Exists' /\ route.boundary = "started"
  BY <1>1 DEF Exists, Fits, TaskIsKnown, At
<1>3. Alone(c) /\ Calm(c)'
  BY <1>1, <1>2, RestoreMoves, BeforeSpawn
     DEF Calm, Proceeds, Sees, Recovers, Pends, Ahead, Unwinds, Reads, At
<1> QED BY <1>1, <1>3, SpawnMoves

LEMMA RefusedCalm ==
  ASSUME Steady, UNCHANGED setting, NEW c \in Client, Refused(c)
  PROVE  AllCalm'
<1> USE Clients
<1>1. TypeOK /\ Calm(c) /\ Works(c) /\ route.state = "pending" /\ ~Exists
      /\ UNCHANGED <<cmd, route, effects, late, setting>> /\ At(c, "call")
      /\ effects = 0 /\ stray' = 0 /\ FailRouteAs(c, "failed", "not_started")
      /\ "failed" \in RouteState /\ "not_started" \in Answer
  BY BeforeSpawn DEF Refused, At, RouteState, Answer
<1>2. Nowhere'
  BY <1>1 DEF Nowhere
<1>3. Alone(c) /\ Calm(c)'
  BY <1>1, <1>2, FailRouteMoves, BeforeSpawn
     DEF Calm, Proceeds, Sees, Recovers, Pends, Ahead, Unwinds, Reads, At
<1> QED BY <1>1, <1>3, SpawnMoves

LEMMA LostCalm ==
  ASSUME Steady, UNCHANGED setting, NEW c \in Client, Lost(c)
  PROVE  AllCalm'
<1> USE Clients
<1>1. TypeOK /\ Fits(c) /\ Calm(c) /\ Works(c) /\ route.state = "pending" /\ ~Exists /\ (~Local => ~Safe)
      /\ UNCHANGED <<cmd, route, task, effects, late, setting>> /\ At(c, "call")
  BY BeforeSpawn DEF Lost, At
<1>2. FailRouteAs(c, "uncertain", "uncertain") /\ "uncertain" \in RouteState /\ "uncertain" \in Answer
  BY <1>1 DEF Lost, Fits, TaskIsKnown, RouteState, Answer
<1>3. Alone(c) /\ Calm(c)'
  BY <1>1, <1>2, FailRouteMoves, BeforeSpawn
     DEF Calm, Proceeds, Sees, Recovers, Pends, Ahead, Unwinds, Reads, At
<1> QED BY <1>1, <1>3, SpawnMoves

LEMMA BindCalm ==
  ASSUME Steady, UNCHANGED setting, NEW c \in Client, Bind(c)
  PROVE  AllCalm'
<1> USE Clients
<1>1. TypeOK /\ Calm(c) /\ Works(c) /\ route.state = "pending" /\ ~Exists
      /\ UNCHANGED <<cmd, route, late, setting>> /\ At(c, "call")
      /\ Go(c, "activate") /\ "activate" \in Place
  BY BeforeSpawn DEF Bind, At, Place
<1>2. Alone(c) /\ Calm(c)'
  BY <1>1, GoMoves, BeforeSpawn
     DEF Calm, Proceeds, Sees, Recovers, Pends, Ahead, Unwinds, Reads, At
<1> QED BY <1>1, <1>2, SpawnMoves

LEMMA ArriveCalm ==
  ASSUME Steady, UNCHANGED setting, NEW c \in Client, Arrive(c)
  PROVE  AllCalm'
<1> USE Clients
<1>1. TypeOK /\ Fits(c) /\ Calm(c) /\ Works(c) /\ route.state = "pending" /\ ~Exists
      /\ UNCHANGED <<cmd, route, task, late, setting>> /\ At(c, "call") /\ Calls(c, "made")
  BY BeforeSpawn DEF Arrive, At, Calls
<1>2. ~Exists'
  BY <1>1 DEF Exists, Fits, TaskIsKnown, At
<1>3. Alone(c) /\ Calm(c)'
  BY <1>1, <1>2, CallMoves, BeforeSpawn
     DEF Calm, Proceeds, Sees, Recovers, Pends, Ahead, Unwinds, Reads, At
<1> QED BY <1>1, <1>3, SpawnMoves

-----------------------------------------------------------------------------
(* Steps of nobody in particular.                                           *)

LEMMA LateWriteCalm ==
  ASSUME Steady, UNCHANGED setting, NEW w \in late, LateWrite(w)
  PROVE  AllCalm'
<1> DEFINE c == w[2]
<1>1. TypeOK /\ LedgersFit /\ CalmLedgers /\ LateFits(w) /\ c \in Client /\ late' \subseteq late
      /\ UNCHANGED <<task, effects, stray, actor, setting>>
  BY DEF Steady, Core, LateFit, LateWrite, TypeOK, AllCalm
<1>2. \A b \in Actor : Calm(b) /\ (Works(b) => Owns(b) /\ b # c)
  <2>1. ~Works(c)
    BY <1>1 DEF LateFits, Unwinds, Works, At
  <2> QED BY <2>1, Known
<1>3. (Local' <=> Local) /\ (Unsafe' <=> Unsafe) /\ (Exists' <=> Exists) /\ (Nowhere' <=> Nowhere)
  BY <1>1, FixedSetting DEF Exists, Nowhere
<1> HIDE DEF c
<1>4. ASSUME UNCHANGED route, CalmLedgers', cmd'.state = "failed" => cmd' = cmd,
             \A b \in Actor : Owns(b) => Owns(b)' \/ (Sound' /\ Exists')
      PROVE  AllCalm'
  <2>1. (Decided' <=> Decided) /\ (Sound' <=> Sound) /\ Heeds
    BY <1>1, <1>3, <1>4, SameRoute, FixedSetting DEF Heeds, Decided, Sound
  <2>2. \A b \in Actor : Rests(b)
    BY <1>1, <1>2, <1>3, <1>4 DEF Rests, Calm, Proceeds
  <2> QED BY <1>1, <1>4, <2>1, <2>2, StandCalmly DEF Steady
<1>5. CASE cmd' = cmd /\ UNCHANGED route
  <2>1. CalmLedgers'
    BY <1>1, <1>3, <1>5, FixedSetting DEF CalmLedgers, Decided, Final, Sound, NotDispatched
  <2> QED BY <1>4, <1>5, <2>1 DEF Owns
<1>6. CASE cmd.state \in {"none", "pending"} /\ cmd' = Claimed(c) /\ UNCHANGED route
  <2>1. cmd'.state = "processing" /\ cmd'.started = cmd.started /\ cmd'.safe = cmd.safe
    BY <1>1, <1>6 DEF Claimed, TypeOK, Command
  <2>2. CalmLedgers'
    BY <1>1, <1>3, <1>6, <2>1, FixedSetting DEF CalmLedgers, Decided, Sound
  <2> QED BY <1>4, <1>6, <2>1, <2>2 DEF Owns
<1>7. CASE w[1] = "mark_command" /\ Owns(c) /\ UNCHANGED route
           /\ cmd' = [cmd EXCEPT !.started = TRUE, !.safe = ReplaySafe]
  <2>1. cmd'.state = "processing" /\ cmd'.owner = cmd.owner /\ (~cmd'.safe => Unsafe)
    BY <1>1, <1>7 DEF TypeOK, Command, Owns, Unsafe
  <2>2. CalmLedgers'
    BY <1>1, <1>3, <1>7, <2>1, FixedSetting DEF CalmLedgers, Decided, Sound
  <2> QED BY <1>4, <1>7, <2>1, <2>2 DEF Owns
<1>8. CASE w[1] = "complete" /\ Owns(c) /\ UNCHANGED route
           /\ cmd' = [cmd EXCEPT !.state = "succeeded", !.owner = Nobody, !.error = "none"]
  <2>1. cmd'.state = "succeeded" /\ cmd'.started = cmd.started /\ cmd'.safe = cmd.safe
    BY <1>1, <1>8 DEF TypeOK, Command
  <2>2. Sound' /\ Exists'
    BY <1>1, <1>3, <1>8 DEF CalmLedgers, LateFits, Sound, Decided
  <2>3. CalmLedgers'
    BY <1>1, <1>3, <1>8, <2>1, <2>2, FixedSetting DEF CalmLedgers, Sound, Decided
  <2> QED BY <1>4, <1>8, <2>1, <2>2, <2>3
<1>9. CASE w[1] = "mark_route" /\ cmd' = cmd /\ route' = [route EXCEPT !.boundary = "started"]
  <2>1. route'.state = route.state /\ route'.boundary = "started"
    BY <1>1, <1>9 DEF TypeOK, Route
  <2>2. (Decided' <=> Decided) /\ (Final' <=> Final) /\ (Sound' <=> Sound)
    BY <1>3, <2>1 DEF Decided, Final, Sound
  <2>3. CalmLedgers' /\ Heeds
    BY <1>1, <1>3, <1>9, <2>1, <2>2 DEF CalmLedgers, Heeds
  <2>4. \A b \in Actor : Rests(b)
    BY <1>1, <1>2, <1>3, <1>9, <2>1 DEF Rests, Calm, Proceeds, Owns
  <2> QED BY <1>1, <2>3, <2>4, StandCalmly DEF Steady
<1>10. CASE w[1] = "activate" /\ cmd' = cmd /\ Transition("active")
  <2>1. /\ route'.boundary = route.boundary
        /\ Decided => route'.state = route.state
        /\ route'.state \in {route.state, "active"}
    BY <1>1, <1>10 DEF Transition, Allowed, TypeOK, Route, RouteState, Decided
  <2>2. (Decided => Decided') /\ (Sound => Sound') /\ (Final => Final')
    BY <1>3, <2>1 DEF Decided, Final, Sound
  <2>3. CalmLedgers'
    BY <1>1, <1>3, <1>10, <2>1, <2>2 DEF CalmLedgers
  <2>4. Heeds
    BY <1>1, <1>3, <1>10, <2>1, <2>2 DEF Heeds, Decided, Final, CalmLedgers
  <2>5. \A b \in Actor : Rests(b)
    BY <1>1, <1>2, <1>3, <1>10, <2>1 DEF Rests, Calm, Proceeds, Owns
  <2> QED BY <1>1, <2>3, <2>4, <2>5, StandCalmly DEF Steady
<1> QED BY <1>5, <1>6, <1>7, <1>8, <1>9, <1>10 DEF LateWrite, c

LEMMA ArriveStrayCalm ==
  ASSUME Steady, UNCHANGED setting, ArriveStray
  PROVE  AllCalm'
<1>1. TypeOK /\ LedgersFit /\ CalmLedgers /\ ~Nowhere /\ UNCHANGED <<cmd, route, task, late, actor, setting>>
  BY Counts DEF Steady, Core, AllCalm, ArriveStray, Nowhere
<1>2. effects' >= effects /\ effects \in Nat /\ effects' \in Nat
  BY <1>1, Counts DEF ArriveStray, Made
<1>3. (Local' <=> Local) /\ (Unsafe' <=> Unsafe) /\ (Exists => Exists') /\ (~Exists => ~Exists')
      /\ (Decided' <=> Decided) /\ (Final' <=> Final) /\ (Sound' <=> Sound) /\ (NotDispatched' <=> NotDispatched)
  BY <1>1, <1>2, FixedSetting DEF Exists, LedgersFit, Decided, Final, Sound, NotDispatched
<1>4. CalmLedgers' /\ Heeds
  BY <1>1, <1>3 DEF CalmLedgers, Heeds
<1>5. ASSUME NEW b \in Actor
      PROVE  Rests(b)
  <2>1. Calm(b)
    BY Known
  <2> QED BY <1>1, <1>3, <2>1 DEF Rests, Calm, Proceeds, Owns
<1> QED BY <1>1, <1>4, <1>5, StandCalmly DEF Steady

LEMMA Restarted ==
  ASSUME TypeOK
  PROVE  /\ Recovered.started => cmd.started
         /\ Recovered.started => Recovered.safe = cmd.safe
<1>1. CASE cmd.state = "processing" /\ cmd.started /\ ~cmd.safe
  BY <1>1 DEF Recovered, TypeOK, Command
<1>2. CASE cmd.state = "processing" /\ ~(cmd.started /\ ~cmd.safe)
  BY <1>2, RowTypes DEF Recovered
<1> QED BY <1>1, <1>2 DEF Recovered

LEMMA CrashCalm ==
  ASSUME Steady, UNCHANGED setting, Crash
  PROVE  AllCalm'
<1>1. TypeOK /\ LedgersFit /\ CalmLedgers /\ UNCHANGED <<task, effects, setting>> /\ late' = {}
      /\ cmd' = Recovered /\ route' = Repaired /\ actor' = [a \in Actor |-> Idle]
      /\ (Unsafe => ~Local /\ ~Safe)
  BY NotDisturbed DEF Steady, Core, AllCalm, Crash
<1>2. PICK n \in 0..Cardinality({c \in Client : actor[c].call = "flying"}) : stray' = stray + n
  BY DEF Crash
<1>3. n = 0 \/ route.state = "pending"
  <2>1. ASSUME NEW c \in Client, actor[c].call = "flying"
        PROVE  route.state = "pending"
    <3>1. At(c, "call")
      BY <2>1, Clients DEF Steady, Core, AllFit, Fits, TaskIsKnown
    <3> QED BY <3>1, AtWork DEF At
  <2> QED BY <2>1, FlyingOnce DEF Steady
<1>4. /\ route'.boundary = route.boundary
      /\ Decided => route'.state = route.state
      /\ route'.state \in {route.state, "uncertain"} /\ (route'.state = "none" <=> route.state = "none")
      /\ Unsafe /\ route.state = "pending" /\ route.boundary = "started" => route'.state = "uncertain"
      /\ Local \/ NotDispatched => route' = route
  BY <1>1, RestartTypes DEF Repaired, Decided, NotDispatched, TypeOK, Route, RouteState
<1>5. (Local' <=> Local) /\ (Unsafe' <=> Unsafe) /\ (Decided => Decided') /\ (Sound => Sound')
      /\ (Final => Final') /\ (NotDispatched => NotDispatched')
  BY <1>1, <1>4, FixedSetting DEF Decided, Sound, Final, NotDispatched
<1>6. cmd'.state = "failed" =>
        \/ Decided' /\ (Local' => Final')
        \/ Unsafe' /\ NotDispatched' /\ cmd'.error = "recovered" /\ \A w \in late' : w[1] = "claim"
  <2>1. CASE cmd' = cmd
    BY <1>1, <1>5, <2>1 DEF CalmLedgers
  <2>2. CASE cmd.started /\ ~cmd.safe /\ cmd'.state = "failed" /\ cmd'.error = "recovered"
    <3>1. Unsafe /\ ~Local /\ route.state # "none"
      BY <1>1, <2>2 DEF CalmLedgers
    <3>2. Decided' \/ NotDispatched'
      BY <1>1, <1>4, <3>1 DEF Decided, NotDispatched, TypeOK, Route, RouteState
    <3> QED BY <1>1, <1>5, <2>2, <3>1, <3>2
  <2> QED BY <1>1, <2>1, <2>2, RestartIsCareful
<1>7. cmd'.state = "succeeded" => Sound'
  BY <1>1, <1>5, RestartTypes DEF CalmLedgers
<1>8. ~Nowhere' => route'.state # "failed"
  <2>1. ASSUME route'.state = "failed"
        PROVE  Nowhere'
    <3>1. route.state = "failed" /\ Nowhere /\ n = 0
      BY <1>1, <1>3, <1>4, <2>1 DEF CalmLedgers, TypeOK, Route, RouteState
    <3> QED BY <1>1, <1>2, <3>1 DEF Nowhere
  <2> QED BY <2>1
<1>9. cmd'.started => route'.state # "none" /\ (~cmd'.safe => Unsafe')
  BY <1>1, <1>4, <1>5, Restarted DEF CalmLedgers
<1>10. CalmLedgers'
  BY <1>1, <1>6, <1>7, <1>8, <1>9 DEF CalmLedgers
<1>11. ASSUME NEW a \in Actor
       PROVE  Calm(a)'
  <2>1. actor'[a] = Idle /\ Idle.crossed = FALSE
    BY <1>1 DEF Idle
  <2> QED BY <2>1, IdleFits
          DEF Calm, Proceeds, Sees, Recovers, Pends, Ahead, Unwinds, Reads, At
<1> QED BY <1>10, <1>11 DEF AllCalm

-----------------------------------------------------------------------------
(* The invariant.                                                           *)

LEMMA InitCalm == Init => AllCalm
<1> SUFFICES ASSUME Init PROVE AllCalm
  OBVIOUS
<1>1. cmd.state = "none" /\ cmd.started = FALSE /\ route.state = "none" /\ late = {} /\ Nowhere
  BY DEF Init, NoCommand, Nowhere
<1>2. CalmLedgers
  BY <1>1 DEF CalmLedgers
<1>3. ASSUME NEW a \in Actor
      PROVE  Calm(a)
  <2>1. actor[a] = Idle /\ Idle.crossed = FALSE
    BY DEF Init, Idle
  <2> QED BY <2>1, IdleFits
          DEF Calm, Proceeds, Sees, Recovers, Pends, Ahead, Unwinds, Reads, At
<1> QED BY <1>2, <1>3 DEF AllCalm

LEMMA StepCalm == Core /\ UnsafeInv /\ CalmInv /\ [Next]_vars => CalmInv'
<1> SUFFICES ASSUME Steady, [Next]_vars PROVE AllCalm'
  <2>1. [Next]_vars => UNCHANGED setting
    BY DEF Next, vars
  <2> QED BY <2>1, FixedSetting DEF CalmInv, Steady
<1>0. UNCHANGED setting
  BY DEF Next, vars
<1>1. CASE UNCHANGED vars
  <2>1. UNCHANGED <<Ledgers, actor, setting>>
    BY <1>1 DEF vars, moving, Ledgers
  <2>2. CalmLedgers /\ CalmLedgers'
    BY <2>1, SameLedgers DEF Steady, AllCalm, CalmLedgers, Ledgers
  <2>3. ASSUME NEW b \in Actor
        PROVE  Calm(b)'
    <3>1. Calm(b) /\ (Owns(b)' <=> Owns(b))
      BY <2>1, Known, SameLedgers
    <3> QED BY <2>1, <3>1, SameLedgers
            DEF Calm, Proceeds, Sees, Recovers, Pends, Ahead, Unwinds, Reads, At
  <2> QED BY <2>2, <2>3 DEF AllCalm
<1>2. CASE Next
  <2>1. ASSUME NEW c \in Client, CommandStep(c)
        PROVE  AllCalm'
    BY <1>0, <2>1, RequestCalm, ClaimCalm, ReopenCalm, ReopenCommandCalm, ReplayCalm,
       TerminalCalm, CleanupCalm, CompleteCalm, ProveCalm, DoubtCalm DEF CommandStep
  <2>2. ASSUME NEW c \in Client, RouteStep(c)
        PROVE  AllCalm'
    BY <1>0, <2>2, RefuseCalm, ReserveCalm, BeginCalm, MarkCommandCalm, MarkRouteCalm,
       NotMet, FailRouteCalm, RestoreCalm, ActivateCalm DEF RouteStep
  <2>3. ASSUME NEW c \in Client, SpawnStep(c)
        PROVE  AllCalm'
    BY <1>0, <2>3, SpawnFailsCalm, SpawnLocalCalm, StartLocalCalm, SpawnRemoteCalm, NoConnectionCalm,
       SendCalm, RefusedCalm, NotMet, LostCalm, BindCalm, ArriveCalm DEF SpawnStep
  <2>4. ASSUME NEW c \in Client, CancelStep(c)
        PROVE  AllCalm'
    BY <1>0, <2>4, CancelEarlyCalm, CancelClaimCalm, CancelBoundaryCalm, CancelSpawnCalm,
       CancelAfterCalm DEF CancelStep
  <2>5. ASSUME NEW r \in Reader, Query(r)
        PROVE  AllCalm'
    BY <2>5, NotDisturbed DEF Steady
  <2>6. ASSUME NEW a \in Actor, ReconcileStep(a)
        PROVE  AllCalm'
    BY <1>0, <2>6, LookUpCalm, ExamineCalm, SettleCalm DEF ReconcileStep
  <2>7. ASSUME NEW w \in late, LateWrite(w)
        PROVE  AllCalm'
    BY <1>0, <2>7, LateWriteCalm
  <2>8. CASE ArriveStray
    BY <1>0, <2>8, ArriveStrayCalm
  <2>9. CASE Crash
    BY <1>0, <2>9, CrashCalm
  <2> QED BY <1>2, <2>1, <2>2, <2>3, <2>4, <2>5, <2>6, <2>7, <2>8, <2>9 DEF Next
<1> QED BY <1>1, <1>2

\* The four ledgers and the answers agree (CreateRouteWorkflow.run, GatewayCommandStore and
\* GatewayRouteStore), whatever is cancelled, lost, raised or killed between their
\* transactions.
THEOREM LedgersAgree == Spec => []EveryLedgerAgrees
<1>1. Init => UnsafeInv /\ CalmInv
  BY InitCareful, InitCalm DEF UnsafeInv, CalmInv
<1>2. Core /\ CalmInv => EveryLedgerAgrees
  <2> SUFFICES ASSUME Core, CalmInv PROVE EveryLedgerAgrees
    OBVIOUS
  <2>1. TypeOK /\ EffectAtMostOnce /\ ActiveHasEffect
    BY DEF Core, LedgersFit, Exists, EffectAtMostOnce, ActiveHasEffect
  <2>2. CreatedIsMade
    BY Clients DEF Core, AllFit, Fits, Relies, Exists, CreatedIsMade
  <2>3. Local /\ Undisturbed => SucceededIsActive
    BY DEF Core, LedgersFit, Exists, CalmInv, AllCalm, CalmLedgers, Sound, SucceededIsActive
  <2>4. Local \/ Unsafe => ReservedMeansNoEffect
    <3> SUFFICES ASSUME Local \/ Unsafe, NotDispatched
                 PROVE  Nowhere /\ \A c \in Client : actor[c].call = "none"
      BY DEF ReservedMeansNoEffect, Nowhere
    <3>1. Nowhere /\ TypeOK
      BY DEF Core, LedgersFit, NotDispatched
    <3>2. ASSUME NEW c \in Client
          PROVE  actor[c].call = "none"
      <4>1. Fits(c) /\ actor[c].call \in {"none", "flying", "made"}
        BY <3>1, Clients, FieldTypes DEF Core, AllFit
      <4> QED BY <3>1, <4>1 DEF Fits, TaskIsKnown, NotDispatched, Nowhere, At
    <3> QED BY <3>1, <3>2
  <2> QED BY <2>1, <2>2, <2>3, <2>4 DEF EveryLedgerAgrees
<1> QED BY <1>1, <1>2, Invariance, InitFits, StepFits, StepCareful, StepCalm, PTL DEF Spec

-----------------------------------------------------------------------------
(* The refinement: what each step is to the clients.                        *)

Silent == \A c \in Client : actor'[c].told = actor[c].told
Refusal == route.state = "failed"

LEMMA Quiet ==
  ASSUME Silent, effects' = effects, Refusal' <=> Refusal
  PROVE  UNCHANGED Promise!vars
BY DEF Silent, Refusal, Promise!vars

LEMMA Making ==
  ASSUME Silent, effects = 0, effects' = 1, ~Refusal, ~Refusal'
  PROVE  Promise!Next
BY DEF Silent, Refusal, Promise!Next, Promise!Make

LEMMA Refusing ==
  ASSUME Silent, effects = 0, effects' = effects, Refusal'
  PROVE  Promise!Next
BY DEF Silent, Refusal, Promise!Next, Promise!Refuse

LEMMA Forgetting ==
  ASSUME \A c \in Client : actor'[c].told = "none", effects' = effects, Refusal' <=> Refusal
  PROVE  Promise!Next
BY DEF Refusal, Promise!Next, Promise!Forget

LEMMA Saying ==
  ASSUME UNCHANGED <<effects, route>>, NEW c \in Client, Alone(c), NEW answer \in Answer,
         actor'[c].told = answer, answer \in {"created", "completed"} => effects = 1,
         answer = "not_started" => Refusal
  PROVE  Promise!Next
<1>1. [b \in Client |-> actor'[b].told] = [[b \in Client |-> actor[b].told] EXCEPT ![c] = answer]
  BY Clients DEF Alone
<1>2. answer \in Promise!Definite \cup Promise!Indefinite
  BY DEF Answer, Promise!Definite, Promise!Indefinite
<1>3. Promise!Say(c, answer)
  BY <1>1 DEF Refusal, Promise!Say
<1> QED BY <1>2, <1>3 DEF Promise!Next

\* The ways of moving that leave the last answer as it is.
Mute(a) == Alone(a) /\ actor'[a].told = actor[a].told

LEMMA MuteMoves ==
  ASSUME TypeOK, NEW a \in Actor
  PROVE  /\ \A place \in Place : Go(a, place) \/ Crosses(a, place) => Mute(a)
         /\ \A place, next \in Place : Reconcile(a, place, next) => Mute(a)
         /\ \A ending \in Ending, answer \in Answer :
              End(a, ending, answer) \/ Restores(a, ending, answer) => Mute(a)
         /\ \A s \in RouteState, answer \in Answer : FailRouteAs(a, s, answer) => Mute(a)
         /\ \A view \in RouteState : Return(a, view) => Mute(a)
         /\ \A place \in Place, view \in RouteState :
              Views(a, place, view) \/ Aims(a, place, view) \/ Reserves(a, place, view) => Mute(a)
         /\ \A place \in Place, seen \in Errors : Finds(a, place, seen) => Mute(a)
         /\ \A call \in {"none", "flying", "made"} : Calls(a, call) => Mute(a)
<1>1. ASSUME NEW place \in Place
      PROVE  Go(a, place) \/ Crosses(a, place) => Mute(a)
  BY GoMoves, CrossMoves DEF Mute
<1>2. ASSUME NEW place \in Place, NEW next \in Place
      PROVE  Reconcile(a, place, next) => Mute(a)
  BY ReconcileMoves DEF Mute
<1>3. ASSUME NEW ending \in Ending, NEW answer \in Answer
      PROVE  End(a, ending, answer) \/ Restores(a, ending, answer) => Mute(a)
  BY EndMoves, RestoreMoves DEF Mute
<1>4. ASSUME NEW s \in RouteState, NEW answer \in Answer
      PROVE  FailRouteAs(a, s, answer) => Mute(a)
  BY FailRouteMoves DEF Mute
<1>5. ASSUME NEW view \in RouteState
      PROVE  Return(a, view) => Mute(a)
  BY ReturnMoves DEF Mute
<1>6. ASSUME NEW place \in Place, NEW view \in RouteState
      PROVE  Views(a, place, view) \/ Aims(a, place, view) \/ Reserves(a, place, view) => Mute(a)
  BY ViewMoves, AimMoves, ReserveMoves DEF Mute
<1>7. ASSUME NEW place \in Place, NEW seen \in Errors
      PROVE  Finds(a, place, seen) => Mute(a)
  BY SeenMoves DEF Mute
<1>8. ASSUME NEW call \in {"none", "flying", "made"}
      PROVE  Calls(a, call) => Mute(a)
  BY CallMoves DEF Mute
<1> QED BY <1>1, <1>2, <1>3, <1>4, <1>5, <1>6, <1>7, <1>8

LEMMA MuteIsSilent ==
  ASSUME NEW a \in Actor, Mute(a)
  PROVE  Silent
BY Clients DEF Mute, Alone, Silent

\* The step is one of the promise, or nothing to it.
Kept == [Promise!Next]_(Promise!vars)

LEMMA MuteKeeps ==
  ASSUME NEW a \in Actor, Mute(a), effects' = effects, Refusal' <=> Refusal
  PROVE  Kept
BY MuteIsSilent, Quiet DEF Kept

LEMMA TellKeeps ==
  ASSUME TypeOK, UNCHANGED <<effects, route>>, NEW c \in Client, NEW answer \in Answer, Tell(c, answer),
         answer \in {"created", "completed"} => effects = 1, answer = "not_started" => Refusal
  PROVE  Kept
<1>1. c \in Actor
  BY Clients
<1>2. Alone(c) /\ actor'[c].told = answer
  BY <1>1, TellMoves
<1>3. Promise!Next
  BY <1>2, Saying
<1> QED BY <1>3 DEF Kept

-----------------------------------------------------------------------------
(* The steps of a request on its command, and what it tells its client.     *)

LEMMA RequestKeeps ==
  ASSUME Steady, NEW c \in Client, Request(c)
  PROVE  Kept
<1> USE Clients
<1>1. TypeOK /\ Requests(c) /\ UNCHANGED <<effects, route>>
  BY Known DEF Request, Requests, Ledgers
<1>2. Alone(c) /\ actor'[c].told = "none" /\ "none" \in Answer
  BY <1>1, RequestMoves DEF Answer
<1> QED BY <1>1, <1>2, Saying DEF Kept

LEMMA ClaimKeeps ==
  ASSUME Steady, NEW c \in Client, Claim(c)
  PROVE  Kept
<1> USE Clients
<1>1. TypeOK /\ UNCHANGED <<effects, route>> /\ cmd.error \in Errors
  BY Known, CommandTypes DEF Claim
<1>2. "admitted" \in Place /\ "look" \in Place /\ "replay" \in Place /\ "reopen" \in Place
      /\ "terminal" \in Place /\ "busy" \in Answer
  BY DEF Place, Answer
<1>3. Mute(c) \/ Tell(c, "busy")
  <2>1. \/ Go(c, "admitted") \/ Reconcile(c, "look", "replay") \/ Finds(c, "reopen", cmd.error)
        \/ Reconcile(c, "look", "terminal") \/ Tell(c, "busy")
    BY DEF Claim, Finds
  <2> QED BY <1>1, <1>2, <2>1, MuteMoves
<1> QED BY <1>1, <1>2, <1>3, MuteKeeps, TellKeeps DEF Refusal

\* Between the proof and the next claim.
LEMMA ReopenKeeps ==
  ASSUME Steady, NEW c \in Client, Reopen(c) \/ ReopenCommand(c) \/ Prove(c)
  PROVE  Kept
<1> USE Clients
<1>1. TypeOK /\ UNCHANGED <<effects, route>>
  BY Known DEF Reopen, ReopenCommand, Prove, Ledgers
<1>2. {"proof", "reclaim", "look", "doubt"} \subseteq Place /\ "none" \in Errors
      /\ "release_not_dispatched" \in Ending /\ "gone" \in Answer
  BY DEF Place, Errors, Answer, Ending
<1>3. \/ Go(c, "proof") \/ Go(c, "reclaim") \/ Finds(c, "reclaim", "none")
      \/ End(c, "release_not_dispatched", "gone") \/ Reconcile(c, "look", "doubt")
  BY DEF Reopen, ReopenCommand, Prove, Finds
<1>4. Mute(c)
  BY <1>1, <1>2, <1>3, MuteMoves
<1> QED BY <1>1, <1>4, MuteKeeps DEF Refusal

LEMMA ReplayKeeps ==
  ASSUME Steady, NEW c \in Client, Replay(c) \/ Complete(c)
  PROVE  Kept
<1> USE Clients
<1>1. TypeOK /\ LedgersFit /\ Fits(c) /\ UNCHANGED <<effects, route>> /\ Tell(c, "created")
      /\ actor[c].at \in {"replay", "complete"} /\ "created" \in Answer
  BY Known DEF Replay, Complete, Ledgers, Answer, At
<1>2. effects = 1
  BY <1>1, Counts DEF Fits, Relies, Exists, LedgersFit
<1> QED BY <1>1, <1>2, TellKeeps

LEMMA TerminalKeeps ==
  ASSUME Steady, NEW c \in Client, Terminal(c)
  PROVE  Kept
<1> USE Clients
<1>1. TypeOK /\ LedgersFit /\ Fits(c) /\ UNCHANGED <<effects, route>> /\ Tell(c, Outcome(actor[c].view))
  BY Known, TerminalIsDecided DEF Ledgers
<1>2. PICK answer \in {"completed", "not_started", "uncertain"} :
        /\ Tell(c, answer)
        /\ answer = "completed" => actor[c].view = "active"
        /\ answer = "not_started" => actor[c].view = "failed"
  BY <1>1 DEF Outcome
<1>3. answer = "completed" => effects = 1
  BY <1>1, <1>2, Counts DEF Fits, Relies, Exists, LedgersFit
<1>4. answer = "not_started" => Refusal
  BY <1>1, <1>2 DEF Fits, Refusal
<1>5. answer \in Answer
  BY DEF Answer
<1> QED BY <1>1, <1>2, <1>3, <1>4, <1>5, TellKeeps

LEMMA CleanupKeeps ==
  ASSUME Steady, NEW c \in Client, Cleanup(c)
  PROVE  Kept
<1> USE Clients
<1>1. TypeOK /\ LedgersFit /\ Fits(c) /\ Calm(c) /\ UNCHANGED <<effects, route>> /\ At(c, "cleanup")
      /\ Tell(c, actor[c].out) /\ actor[c].out \in Answer
  BY Known, FieldTypes DEF Cleanup
<1>2. actor[c].out \in {"created", "completed"} => effects = 1
  BY <1>1, Counts DEF Fits, Relies, Exists, LedgersFit
<1>3. actor[c].out = "not_started" => Refusal
  BY <1>1 DEF Calm, Proceeds, Refusal
<1> QED BY <1>1, <1>2, <1>3, TellKeeps

LEMMA DoubtKeeps ==
  ASSUME Steady, NEW c \in Client, Doubt(c)
  PROVE  Kept
<1> USE Clients
<1>1. TypeOK /\ effects' = effects /\ End(c, "fail", "gone") /\ "fail" \in Ending /\ "gone" \in Answer
      /\ (Transition("uncertain") \/ route' = route)
  BY Known DEF Doubt, Ending, Answer
<1>2. Refusal' <=> Refusal
  <2>1. "uncertain" \in RouteState
    BY DEF RouteState
  <2> QED BY <1>1, <2>1, TransitionMoves DEF Refusal
<1>3. Mute(c)
  BY <1>1, MuteMoves
<1> QED BY <1>1, <1>2, <1>3, MuteKeeps

-----------------------------------------------------------------------------
(* The steps of the workflow.                                               *)

LEMMA WorkflowKeeps ==
  ASSUME Steady, NEW c \in Client, Refuse(c) \/ Begin(c) \/ MarkCommand(c)
  PROVE  Kept
<1> USE Clients
<1>1. TypeOK /\ UNCHANGED <<effects, route>>
  BY Known DEF Refuse, Begin, MarkCommand, Ledgers
<1>2. {"complete", "mark_command", "mark_route"} \subseteq Place /\ {"release", "fail"} \subseteq Ending
      /\ {"retry", "completed", "not_started", "uncertain"} \subseteq Answer
  BY DEF Place, Ending, Answer
<1>3. \/ End(c, "release", "retry") \/ Go(c, "complete") \/ Go(c, "mark_route")
      \/ Crosses(c, "mark_command") \/ End(c, "fail", Outcome(actor[c].view))
  BY DEF Refuse, Begin, MarkCommand, Crosses
<1>4. Outcome(actor[c].view) \in Answer
  BY <1>2 DEF Outcome
<1>5. Mute(c)
  BY <1>1, <1>2, <1>3, <1>4, MuteMoves
<1> QED BY <1>1, <1>5, MuteKeeps DEF Refusal

LEMMA ReserveKeeps ==
  ASSUME Steady, NEW c \in Client, Reserve(c)
  PROVE  Kept
<1> USE Clients
<1>1. TypeOK /\ effects' = effects
  BY Known DEF Reserve
<1>2. /\ route' \in Route
      /\ route.state # "none" => route' = route
      /\ route.state = "none" => route'.state = "pending"
  BY <1>1 DEF Reserve, TypeOK, Route, RouteState
<1>3. PICK place \in {"begin", "examine"}, view \in RouteState : Reserves(c, place, view)
  BY <1>1, <1>2 DEF Reserve, Route, Reserves
<1>4. place \in Place
  BY DEF Place
<1>5. Mute(c)
  BY <1>1, <1>3, <1>4, MuteMoves
<1>6. Refusal' <=> Refusal
  BY <1>2 DEF Refusal
<1> QED BY <1>1, <1>5, <1>6, MuteKeeps

LEMMA BoundaryKeeps ==
  ASSUME Steady, NEW c \in Client, MarkRoute(c) \/ Restore(c) \/ Activate(c)
  PROVE  Kept
<1> USE Clients
<1>1. TypeOK /\ effects' = effects
  BY Known DEF MarkRoute, Restore, Activate
<1>2. {"spawn", "cleanup", "complete"} \subseteq Place /\ "fail" \in Ending /\ "not_started" \in Answer
  BY DEF Place, Ending, Answer
<1>3. Go(c, "spawn") \/ Go(c, "cleanup") \/ Go(c, "complete") \/ End(c, "fail", "not_started")
  BY DEF MarkRoute, Restore, Activate
<1>4. Mute(c)
  BY <1>1, <1>2, <1>3, MuteMoves
<1>5. Refusal' <=> Refusal
  <2>1. route'.state = route.state \/ (route.state # "failed" /\ route'.state = "active")
    BY <1>1 DEF MarkRoute, Restore, Activate, TypeOK, Route, Allowed, RouteState
  <2> QED BY <2>1 DEF Refusal
<1> QED BY <1>1, <1>4, <1>5, MuteKeeps

\* The route of a refused create fails while nothing exists.
LEMMA FailRouteKeeps ==
  ASSUME Steady, NEW c \in Client, FailRoute(c)
  PROVE  Kept
<1> USE Clients
<1>1. /\ TypeOK /\ Calm(c) /\ At(c, "fail_route") /\ Go(c, "cleanup") /\ "cleanup" \in Place
      /\ effects' = effects /\ Transition(actor[c].aim)
  BY Known, NotDisturbed DEF Steady, FailRoute, Place
<1>2. /\ route.state = "pending" /\ route'.state = actor[c].aim
      /\ actor[c].aim = "failed" => effects = 0
  BY <1>1, Transits DEF Calm, Proceeds, Pends, Nowhere, At
<1>3. Mute(c)
  BY <1>1, MuteMoves
<1>4. CASE actor[c].aim = "failed"
  BY <1>1, <1>2, <1>3, <1>4, MuteIsSilent, Refusing DEF Refusal, Kept
<1>5. CASE actor[c].aim # "failed"
  BY <1>1, <1>2, <1>3, <1>5, MuteKeeps DEF Refusal
<1> QED BY <1>4, <1>5

-----------------------------------------------------------------------------
(* The steps of the runtime and of the upstream Gateway.                    *)

LEMMA SpawnKeeps ==
  ASSUME Steady, NEW c \in Client,
         SpawnFails(c) \/ SpawnLocal(c) \/ SpawnRemote(c) \/ NoConnection(c) \/ Send(c)
           \/ Refused(c) \/ Lost(c) \/ Bind(c)
  PROVE  Kept
<1> USE Clients
<1>1. TypeOK /\ UNCHANGED <<effects, route>>
  BY Known DEF SpawnFails, SpawnLocal, SpawnRemote, NoConnection, Send, Refused, Lost, Bind, Ledgers
<1>2. {"activate", "start", "call"} \subseteq Place /\ {"release", "release_not_dispatched"} \subseteq Ending
      /\ {"retry", "not_started", "uncertain"} \subseteq Answer /\ {"failed", "uncertain"} \subseteq RouteState
  BY DEF Place, Ending, Answer, RouteState
<1>3. \/ Go(c, "activate") \/ Go(c, "start") \/ Go(c, "call") \/ Calls(c, "flying")
      \/ FailRouteAs(c, "failed", "not_started") \/ FailRouteAs(c, "uncertain", "uncertain")
      \/ Restores(c, "release_not_dispatched", "retry") \/ End(c, "release", "retry")
  BY DEF SpawnFails, SpawnLocal, SpawnRemote, NoConnection, Send, Refused, Lost, Bind, Restores, Calls
<1>4. Mute(c)
  BY <1>1, <1>2, <1>3, MuteMoves
<1> QED BY <1>1, <1>4, MuteKeeps DEF Refusal

\* A run is started once, while the route is open.
LEMMA StartLocalKeeps ==
  ASSUME Steady, NEW c \in Client, StartLocal(c)
  PROVE  Kept
<1> USE Clients
<1>1. /\ TypeOK /\ LedgersFit /\ Fits(c) /\ Calm(c) /\ At(c, "start") /\ Go(c, "activate")
      /\ "activate" \in Place /\ effects' = effects + 1 /\ route' = route
  BY Known DEF StartLocal, Place
<1>2. Local /\ ~Exists /\ route.state = "pending"
  BY <1>1 DEF Fits, TaskIsKnown, Calm, Proceeds, Pends, Ahead, At
<1>3. effects = 0 /\ effects' = 1
  BY <1>1, <1>2, Counts DEF LedgersFit, Exists
<1>4. Mute(c)
  BY <1>1, MuteMoves
<1> QED BY <1>1, <1>2, <1>3, <1>4, MuteIsSilent, Making DEF Refusal, Kept

\* A request reaches the upstream Gateway once, and the route is not failed.
LEMMA ArriveKeeps ==
  ASSUME Steady, NEW c \in Client, Arrive(c)
  PROVE  Kept
<1> USE Clients
<1>1. /\ TypeOK /\ LedgersFit /\ Fits(c) /\ Calm(c) /\ At(c, "call") /\ actor[c].call = "flying"
      /\ Calls(c, "made") /\ effects' = Made /\ route' = route /\ (Local \/ Unsafe) /\ (Unsafe => ~Safe)
  BY Known DEF Arrive, Calls
<1>2. Nowhere /\ route.state = "pending"
  BY <1>1 DEF Fits, TaskIsKnown, Calm, Proceeds, Pends, Ahead, At
<1>3. effects = 0 /\ effects' = 1
  BY <1>1, <1>2, Counts DEF Nowhere, Made
<1>4. Mute(c)
  BY <1>1, MuteMoves
<1> QED BY <1>1, <1>2, <1>3, <1>4, MuteIsSilent, Making DEF Refusal, Kept

LEMMA ArriveStrayKeeps ==
  ASSUME Steady, ArriveStray
  PROVE  Kept
<1>1. /\ TypeOK /\ LedgersFit /\ CalmLedgers /\ effects' = Made /\ UNCHANGED <<route, actor>>
      /\ stray > 0 /\ (Local \/ Unsafe) /\ (Unsafe => ~Safe)
  BY NotDisturbed DEF Steady, Core, AllCalm, ArriveStray, Unsafe, ReplaySafe
<1>2. Unsafe /\ ~Nowhere
  BY <1>1, Counts DEF LedgersFit, Nowhere
<1>3. effects = 0 /\ effects' = 1
  BY <1>1, <1>2, Counts DEF LedgersFit, Made
<1>4. ~Refusal
  BY <1>1, <1>2 DEF CalmLedgers, Refusal
<1> QED BY <1>1, <1>3, <1>4, Making DEF Refusal, Silent, Kept

-----------------------------------------------------------------------------
(* Cancellations, reads, late writes and crashes.                           *)

LEMMA CancelKeeps ==
  ASSUME Steady, NEW c \in Client, CancelStep(c)
  PROVE  Kept
<1> USE Clients
<1>1. TypeOK /\ UNCHANGED <<effects, route>> /\ "gone" \in Answer
  BY Known DEF CancelStep, CancelEarly, CancelClaim, CancelBoundary, CancelSpawn, CancelStarted,
               CancelAfter, Ledgers, Answer
<1> DEFINE interrupted == Interrupted(c)
           moved == [interrupted EXCEPT !.call = "none"]
<1>2. \/ Tell(c, "gone") \/ actor' = [actor EXCEPT ![c] = Unwound(c)]
      \/ actor' = [actor EXCEPT ![c] = Interrupted(c)] \/ actor' = [actor EXCEPT ![c] = moved]
  BY DEF CancelStep, CancelEarly, CancelClaim, CancelBoundary, CancelSpawn, CancelStarted, CancelAfter
<1>3. ASSUME NEW state \in ActorState, actor' = [actor EXCEPT ![c] = state], state.told = actor[c].told
      PROVE  Kept
  <2>1. Mute(c)
    BY <1>1, <1>3 DEF Mute, Alone, TypeOK
  <2> QED BY <1>1, <2>1, MuteKeeps DEF Refusal
<1>4. CASE Tell(c, "gone")
  BY <1>1, <1>4, TellKeeps
<1>5. Unwound(c) \in ActorState /\ Unwound(c).told = actor[c].told
  BY <1>1, UnwoundMoves
<1>6. interrupted \in ActorState /\ interrupted.told = actor[c].told
  BY <1>1, InterruptedMoves
<1>7. moved \in ActorState /\ moved.told = actor[c].told
  <2> HIDE DEF interrupted
  <2> QED BY <1>6 DEF ActorState
<1>8. CASE actor' = [actor EXCEPT ![c] = Unwound(c)]
  BY <1>3, <1>5, <1>8
<1>9. CASE actor' = [actor EXCEPT ![c] = interrupted]
  BY <1>3, <1>6, <1>9
<1>10. CASE actor' = [actor EXCEPT ![c] = moved]
  <2> HIDE DEF moved
  <2> QED BY <1>3, <1>7, <1>10
<1> QED BY <1>2, <1>4, <1>8, <1>9, <1>10

LEMMA LookUpKeeps ==
  ASSUME Steady, NEW a \in Actor, LookUp(a) \/ Examine(a)
  PROVE  Kept
<1>1. /\ TypeOK /\ UNCHANGED <<effects, route>> /\ "examine" \in Place /\ "settle" \in Place
      /\ "none" \in RouteState /\ route.state \in RouteState /\ actor[a].view \in RouteState
      /\ Aim(a) \in RouteState
  BY Known, FieldTypes, AimIsSound DEF LookUp, Examine, Ledgers, Place, TypeOK, Route, RouteState, Steady
<1>2. \/ Return(a, "none") \/ Views(a, "examine", route.state) \/ Return(a, actor[a].view)
      \/ Aims(a, "settle", Aim(a))
  BY DEF LookUp, Examine, Views, Aims
<1>3. Mute(a)
  BY <1>1, <1>2, MuteMoves
<1> QED BY <1>1, <1>3, MuteKeeps DEF Refusal

\* A reconciliation fails a route only while nothing exists.
LEMMA SettleKeeps ==
  ASSUME Steady, NEW a \in Actor, Settle(a)
  PROVE  Kept
<1>1. /\ TypeOK /\ LedgersFit /\ Calm(a) /\ At(a, "settle") /\ Transition(actor[a].aim)
      /\ actor[a].aim \in RouteState /\ effects' = effects
  BY Known, FieldTypes DEF Settle
<1>2. /\ route' \in Route
      /\ route'.state = actor[a].aim \/ route'.state = route.state
      /\ route.state = "failed" => route'.state = route.state
  BY <1>1, TransitionMoves
<1>3. Mute(a)
  <2>1. PICK view \in RouteState : Return(a, view)
    BY <1>2 DEF Settle, Route
  <2> QED BY <1>1, <2>1, MuteMoves
<1>4. CASE Refusal' <=> Refusal
  BY <1>1, <1>3, <1>4, MuteKeeps
<1>5. CASE Refusal' /\ ~Refusal
  <2>1. actor[a].aim = "failed"
    BY <1>2, <1>5 DEF Refusal
  <2>2. effects = 0
    BY <1>1, <2>1, Counts DEF Calm, Sees, LedgersFit, Exists
  <2> QED BY <1>1, <1>3, <1>5, <2>2, MuteIsSilent, Refusing DEF Kept
<1> QED BY <1>2, <1>4, <1>5 DEF Refusal

LEMMA LateWriteKeeps ==
  ASSUME Steady, NEW w \in late, LateWrite(w)
  PROVE  Kept
<1>1. /\ TypeOK /\ UNCHANGED <<effects, actor>>
      /\ \/ route' = route
         \/ route' = (IF route.state = "pending" THEN [route EXCEPT !.boundary = "started"] ELSE route)
         \/ Transition("active")
  BY DEF Steady, Core, LateWrite
<1>2. Refusal' <=> Refusal
  <2>1. "active" \in RouteState
    BY DEF RouteState
  <2> QED BY <1>1, <2>1, TransitionMoves DEF Refusal, TypeOK, Route
<1> QED BY <1>1, <1>2, Quiet DEF Silent, Kept

LEMMA CrashKeeps ==
  ASSUME Steady, Crash
  PROVE  Kept
<1>1. TypeOK /\ effects' = effects /\ route' = Repaired /\ actor' = [a \in Actor |-> Idle]
  BY DEF Steady, Core, Crash
<1>2. \A c \in Client : actor'[c].told = "none"
  BY <1>1, Clients DEF Idle
<1>3. Refusal' <=> Refusal
  BY <1>1 DEF Refusal, Repaired, TypeOK, Route
<1> QED BY <1>1, <1>2, <1>3, Forgetting DEF Kept

-----------------------------------------------------------------------------
(* The promise.                                                             *)

LEMMA NextKeeps ==
  ASSUME Steady, Next
  PROVE  Kept
<1>1. ASSUME NEW c \in Client, CommandStep(c)
      PROVE  Kept
  BY <1>1, RequestKeeps, ClaimKeeps, ReopenKeeps, ReplayKeeps, TerminalKeeps, CleanupKeeps, DoubtKeeps
     DEF CommandStep
<1>2. ASSUME NEW c \in Client, RouteStep(c)
      PROVE  Kept
  BY <1>2, WorkflowKeeps, ReserveKeeps, BoundaryKeeps, FailRouteKeeps, NotMet DEF RouteStep
<1>3. ASSUME NEW c \in Client, SpawnStep(c)
      PROVE  Kept
  BY <1>3, SpawnKeeps, StartLocalKeeps, ArriveKeeps, NotMet DEF SpawnStep
<1>4. ASSUME NEW a \in Actor, ReconcileStep(a)
      PROVE  Kept
  BY <1>4, LookUpKeeps, SettleKeeps DEF ReconcileStep
<1>5. ASSUME NEW r \in Reader, Query(r)
      PROVE  Kept
  BY <1>5, NotDisturbed DEF Steady
<1> QED BY <1>1, <1>2, <1>3, <1>4, <1>5, CancelKeeps, LateWriteKeeps, ArriveStrayKeeps, CrashKeeps DEF Next

\* What KeepsPromise says of a step.
KeepsStep == Undisturbed => [Promise!Next]_(Promise!vars)

LEMMA StepKeeps == Core /\ UnsafeInv /\ CalmInv /\ [Next]_vars => KeepsStep
<1> SUFFICES ASSUME Steady, [Next]_vars PROVE Kept
  BY DEF Steady, CalmInv, KeepsStep, Kept
<1>1. CASE UNCHANGED vars
  <2>1. Silent /\ effects' = effects /\ (Refusal' <=> Refusal)
    BY <1>1 DEF vars, moving, Silent, Refusal
  <2> QED BY <2>1, Quiet DEF Kept
<1> QED BY <1>1, NextKeeps

LEMMA InitKeeps == Init => Promise!Init
BY Clients DEF Init, Idle, Promise!Init

\* However its requests are cancelled and killed, an undisturbed create keeps the promise
\* of its Idempotency-Key: one Task at most, a refusal for good, and no answer that is
\* definite and false (GatewayCommandService._execute and CreateRouteWorkflow.run).
THEOREM PromiseIsKept == Spec => KeepsPromise
<1>1. Init => UnsafeInv /\ CalmInv
  BY InitCareful, InitCalm DEF UnsafeInv, CalmInv
<1>2. Spec => Promise!Init /\ [][KeepsStep]_vars
  BY <1>1, InitFits, StepFits, StepCareful, StepCalm, StepKeeps, InitKeeps, PTL DEF Spec
<1> QED BY <1>2, PTL DEF KeepsStep, KeepsPromise
=============================================================================
