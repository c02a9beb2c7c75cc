--------------------------- MODULE GatewayCreate ---------------------------
(***************************************************************************)
(* POST /agents/{agent}/tasks under one Idempotency-Key: the command store, *)
(* the create route workflow, the route store, the spawn of the Task and    *)
(* the upstream Gateway, with queries that reconcile the route meanwhile.   *)
(*                                                                         *)
(* The three ledgers share no transaction.  A store call runs in a worker  *)
(* thread, so a caller that is cancelled while it waits may leave a write  *)
(* behind that is done, never done, or done later.  Other keys have other  *)
(* Task identities and do not interfere.                                   *)
(***************************************************************************)
EXTENDS Naturals, FiniteSets

CONSTANTS
  Client,     \* requests of one principal with this key, body and Agent
  Nobody,     \* no owner
  Reader,     \* concurrent GET and list calls on the Task
  Setting,    \* the creates and circumstances under consideration, see below
  MaxEffects  \* bound on the Tasks made under the key

\* crash: the process dies and restarts.  cancel: a caller is cancelled.
\* orphan: it is cancelled while its claim is in the worker thread.  write: a
\* route store call raises.  conflict: the upstream Gateway answers a create
\* with a 4xx that is no refusal.
Fault == {"crash", "cancel", "orphan", "write", "conflict"}

\* The route_kind of the Agent, whether its remote reference declares
\* create_idempotency ruyi_gateway_v1, what may go wrong and who queries.
ASSUME ConstantsAssumption ==
  /\ Setting \subseteq [kind : {"local", "remote"}, safe : BOOLEAN, faults : SUBSET Fault,
                        readers : SUBSET Reader]
  /\ MaxEffects \in Nat
  /\ Client \cap Reader = {} /\ Nobody \notin Client
  /\ IsFiniteSet(Client)

Actor == Client \cup Reader

RouteState == {"none", "pending", "active", "failed", "uncertain"}
Allowed ==
  [s \in RouteState |->
     CASE s = "pending" -> {"pending", "active", "failed", "uncertain"}
       [] s = "active" -> {"active", "uncertain"}
       [] OTHER -> {s}]

VARIABLES
  cmd,      \* the row of gateway_commands; "none" before the first claim
  route,    \* the row of gateway_task_routes
  task,     \* the row of agent_tasks
  effects,  \* Agent runs started, or Tasks made upstream, for the key
  stray,    \* requests that were given up and are still on the wire
  late,     \* writes left in a worker thread by cancelled callers
  actor,    \* where every request and query is
  setting   \* which of Setting this is, fixed

moving == <<cmd, route, task, effects, stray, late, actor>>
vars == <<moving, setting>>

Local == setting.kind = "local"
Safe == setting.safe
May(fault) == fault \in setting.faults

\* A local create is keyed by its Task id, a remote one only under the contract.
ReplaySafe == Local \/ Safe

\* What a request is told; "gone" when its caller was cancelled or the answer
\* is a plain 500.
Answer == {"none", "created", "completed", "not_started", "uncertain", "retry", "busy", "gone"}
Errors == Answer \cup {"recovered"}

CommandState == {"none", "pending", "processing", "succeeded", "failed"}
\* error_json: written by the recovery, or what a live request ended with
Command == [state : CommandState, owner : Client \cup {Nobody}, started : BOOLEAN,
            safe : BOOLEAN, error : Errors]
NoCommand == [state |-> "none", owner |-> Nobody, started |-> FALSE, safe |-> TRUE,
              error |-> "none"]

Route == [state : RouteState, boundary : {"reserved", "started"}]

\* A local Task is pending until its first run; a proxy is idle, in doubt about
\* its create (external_outcome_uncertain), or bound to its upstream Task.
TaskRow == {"none", "pending", "run", "proxy", "doubt", "bound"}

Place == {"idle", "claim", "reopen", "reclaim", "terminal", "replay", "admitted",
          "begin", "mark_command", "mark_route", "spawn", "start", "call", "activate",
          "fail_route", "restore", "complete", "proof", "doubt", "cleanup",
          "look", "examine", "settle"}
Ending == {"release", "release_not_dispatched", "fail"}
ActorState ==
  [at : Place, next : Place, view : RouteState, aim : RouteState, live : BOOLEAN,
   out : Answer, end : Ending, crossed : BOOLEAN, seen : Errors,
   call : {"none", "flying", "made"}, told : Answer]
Idle == [at |-> "idle", next |-> "idle", view |-> "none", aim |-> "none", live |-> FALSE,
         out |-> "none", end |-> "release", crossed |-> FALSE, seen |-> "none",
         call |-> "none", told |-> "none"]

Write == {"claim", "mark_command", "mark_route", "activate", "complete"}

TypeOK ==
  /\ cmd \in Command
  /\ route \in Route
  /\ task \in TaskRow
  /\ effects \in 0..MaxEffects
  /\ stray \in 0..Cardinality(Client)
  /\ late \subseteq Write \X Client
  /\ actor \in [Actor -> ActorState]
  /\ setting \in Setting

Init ==
  /\ cmd = NoCommand
  /\ route = [state |-> "none", boundary |-> "reserved"]
  /\ task = "none"
  /\ effects = 0
  /\ stray = 0
  /\ late = {}
  /\ actor = [a \in Actor |-> Idle]
  /\ setting \in Setting

At(a, place) == actor[a].at = place
Owns(c) == cmd.state = "processing" /\ cmd.owner = c

Go(a, place) == actor' = [actor EXCEPT ![a].at = place]
Tell(c, answer) == actor' = [actor EXCEPT ![c] = [Idle EXCEPT !.told = answer]]
\* leave through the handler of _execute that the error belongs to
End(c, ending, answer) ==
  actor' = [actor EXCEPT ![c].at = "cleanup", ![c].end = ending, ![c].out = answer,
                         ![c].call = "none"]
\* the route is settled first, as failed or uncertain, then the command fails
FailRouteAs(c, state, answer) ==
  actor' = [actor EXCEPT ![c].at = "fail_route", ![c].aim = state, ![c].end = "fail",
                         ![c].out = answer, ![c].call = "none"]
Reconcile(c, place, next) ==
  actor' = [actor EXCEPT ![c].at = place, ![c].next = next, ![c].live = FALSE]

Ledgers == <<cmd, route, task, effects, stray, late>>

-----------------------------------------------------------------------------
(* The command store.                                                      *)

Claimed(c) == [cmd EXCEPT !.state = "processing", !.owner = c]

\* A name is used for a new request once no write of its last one is left.
Request(c) ==
  /\ At(c, "idle")
  /\ \A w \in late : w[2] # c
  /\ actor' = [actor EXCEPT ![c] = [Idle EXCEPT !.at = "claim"]]
  /\ UNCHANGED Ledgers

Claim(c) ==
  /\ actor[c].at \in {"claim", "reclaim"}
  /\ \/ /\ cmd.state \in {"none", "pending"}
        /\ cmd' = Claimed(c)
        /\ Go(c, "admitted")
     \/ /\ cmd.state = "succeeded"
        /\ Reconcile(c, "look", "replay")
        /\ UNCHANGED cmd
     \/ /\ cmd.state = "failed"
        /\ \/ /\ At(c, "claim")
              /\ actor' = [actor EXCEPT ![c].at = "reopen", ![c].seen = cmd.error]
           \/ /\ At(c, "reclaim")
              /\ Reconcile(c, "look", "terminal")
        /\ UNCHANGED cmd
     \/ /\ cmd.state = "processing"           \* the deadline of the polling passes
        /\ Tell(c, "busy")
        /\ UNCHANGED cmd
  /\ UNCHANGED <<route, task, effects, stray, late>>

\* create_not_dispatched_is_durable, read in one thread
NotDispatched == route.state = "pending" /\ route.boundary = "reserved"

Released == [cmd EXCEPT !.state = "pending", !.owner = Nobody, !.started = FALSE]
Reopened == [Released EXCEPT !.safe = FALSE, !.error = "none"]

\* The evidence is read before the row is changed, whose error must be the same.
Reopen(c) ==
  /\ At(c, "reopen")
  /\ \/ /\ NotDispatched
        /\ Go(c, "proof")
     \/ /\ ~NotDispatched
        /\ Go(c, "reclaim")
  /\ UNCHANGED Ledgers

ReopenCommand(c) ==
  /\ At(c, "proof") /\ actor[c].seen # "none"
  /\ cmd' = IF cmd.state = "failed" /\ cmd.error = actor[c].seen THEN Reopened ELSE cmd
  /\ actor' = [actor EXCEPT ![c].at = "reclaim", ![c].seen = "none"]
  /\ UNCHANGED <<route, task, effects, stray, late>>

\* The replay of a stored response reads the route, which reconciles it.
Replay(c) ==
  /\ At(c, "replay")
  /\ Tell(c, "created")
  /\ UNCHANGED Ledgers

Outcome(state) ==
  CASE state = "active" -> "completed"
    [] state = "failed" -> "not_started"
    [] OTHER -> "uncertain"

\* A stored error is told again by the state of the route, which a route that
\* is still pending leaves for uncertain.
Terminal(c) ==
  /\ At(c, "terminal")
  /\ \/ /\ actor[c].view # "pending"
        /\ Tell(c, Outcome(actor[c].view))
        /\ UNCHANGED route
     \/ /\ actor[c].view = "pending"
        /\ "uncertain" \in Allowed[route.state]
        /\ route' = [route EXCEPT !.state = "uncertain"]
        /\ Tell(c, "uncertain")
     \/ /\ actor[c].view = "pending"
        /\ "uncertain" \notin Allowed[route.state]
        /\ Tell(c, "gone")
        /\ UNCHANGED route
  /\ UNCHANGED <<cmd, task, effects, stray, late>>

\* release, release_not_dispatched, fail: nothing of a claim of someone else.
Cleanup(c) ==
  /\ At(c, "cleanup")
  /\ cmd' = IF ~Owns(c) THEN cmd
            ELSE CASE actor[c].end = "release" ->
                        IF cmd.started /\ ~cmd.safe THEN cmd ELSE Released
                   [] actor[c].end = "release_not_dispatched" -> Reopened
                   [] actor[c].end = "fail" ->
                        [cmd EXCEPT !.state = "failed", !.owner = Nobody, !.error = actor[c].out]
  /\ Tell(c, actor[c].out)
  /\ UNCHANGED <<route, task, effects, stray, late>>

-----------------------------------------------------------------------------
(* reconcile_pending_create, by a query or inside a request.               *)

Query(r) ==
  /\ r \in setting.readers
  /\ At(r, "idle")
  /\ Go(r, "look")
  /\ UNCHANGED Ledgers

Return(a, view) == actor' = [actor EXCEPT ![a].at = actor[a].next, ![a].view = view]

LookUp(a) ==
  /\ At(a, "look")
  /\ \/ /\ route.state = "none"
        /\ Return(a, "none")
     \/ /\ route.state # "none"
        /\ actor' = [actor EXCEPT ![a].at = "examine", ![a].view = route.state]
  /\ UNCHANGED Ledgers

\* has_durable_create_effect of a local Task
HasRunNever == task = "active"
HasRun == task = "run"
Replayable == Safe /\ route.boundary = "started"

Reconcilable(a) == actor[a].view = "pending" \/ (Local /\ actor[a].view = "active")

AimActive(a) ==
  IF ~Local THEN "active"
  ELSE IF HasRun THEN "active"
  ELSE IF actor[a].live \/ route.boundary = "reserved" THEN "failed"
  ELSE "uncertain"
Aim(a) ==
  IF ~Local THEN "uncertain"
  ELSE IF HasRun THEN "active"
  ELSE IF actor[a].live \/ route.boundary = "reserved" THEN "failed"
  ELSE "uncertain"

Nothing(a) ==
  \/ ~Reconcilable(a)
  \/ ~Local /\ (route.boundary = "reserved" \/ Replayable)
  \/ actor[a].view = "active" /\ HasRun

\* The evidence and the record are read here, the transition is a later write.
Examine(a) ==
  /\ At(a, "examine")
  /\ \/ /\ Nothing(a)
        /\ Return(a, actor[a].view)
     \/ /\ ~Nothing(a)
        /\ actor' = [actor EXCEPT ![a].at = "settle", ![a].aim = Aim(a)]
  /\ UNCHANGED Ledgers

Transition(state) ==
  route' = IF state \in Allowed[route.state] THEN [route EXCEPT !.state = state] ELSE route

Settle(a) ==
  /\ At(a, "settle")
  /\ Transition(actor[a].aim)
  /\ Return(a, route'.state)
  /\ UNCHANGED <<cmd, task, effects, stray, late>>

-----------------------------------------------------------------------------
(* CreateRouteWorkflow.run                                                 *)

\* The Agent is unknown, not public or unavailable, or the metadata is refused.
Refuse(c) ==
  /\ At(c, "admitted")
  /\ End(c, "release", "retry")
  /\ UNCHANGED Ledgers

\* areserve_route keeps an existing row; its evidence decides what comes next.
Reserve(c) ==
  /\ At(c, "admitted")
  /\ route' = IF route.state = "none" THEN [state |-> "pending", boundary |-> "reserved"] ELSE route
  /\ actor' = [actor EXCEPT ![c].at = IF route'.boundary = "reserved" THEN "begin" ELSE "examine",
                            ![c].next = "begin", ![c].view = route'.state, ![c].live = FALSE]
  /\ UNCHANGED <<cmd, task, effects, stray, late>>

ReserveFails(c) ==
  /\ At(c, "admitted") /\ May("write")
  /\ End(c, "release", "retry")
  /\ UNCHANGED Ledgers

Begin(c) ==
  /\ At(c, "begin")
  /\ \/ /\ actor[c].view = "active"
        /\ Go(c, "complete")
     \/ /\ actor[c].view \in {"failed", "uncertain"}
        /\ End(c, "fail", Outcome(actor[c].view))
     \/ /\ actor[c].view = "pending"      \* create_boundary_started comes first
        /\ actor' = [actor EXCEPT ![c].at = "mark_command", ![c].crossed = TRUE]
  /\ UNCHANGED Ledgers

MarkCommand(c) ==
  /\ At(c, "mark_command")
  /\ Owns(c)
  /\ cmd' = [cmd EXCEPT !.started = TRUE, !.safe = ReplaySafe]
  /\ Go(c, "mark_route")
  /\ UNCHANGED <<route, task, effects, stray, late>>

MarkRoute(c) ==
  /\ At(c, "mark_route")
  /\ route.state = "pending"
  /\ route' = [route EXCEPT !.boundary = "started"]
  /\ Go(c, "spawn")
  /\ UNCHANGED <<cmd, task, effects, stray, late>>

\* _boundary_failure: a write raised, or the route is no longer pending.
BoundaryFails(c) ==
  /\ \/ /\ actor[c].at \in {"mark_command", "mark_route"} /\ May("write")
     \/ At(c, "mark_route") /\ route.state # "pending"
  /\ FailRouteAs(c, "failed", "not_started")
  /\ UNCHANGED Ledgers

\* _fail_reservation; a transition that is not allowed is not made.
FailRoute(c) ==
  /\ At(c, "fail_route")
  /\ \/ Transition(actor[c].aim)
     \/ May("write") /\ UNCHANGED route
  /\ Go(c, "cleanup")
  /\ UNCHANGED <<cmd, task, effects, stray, late>>

\* The runtime refuses the Task before it exists (depth, budget, binding) or
\* fails for another reason (it is closing, a save raises).
SpawnFails(c) ==
  /\ \/ /\ At(c, "spawn") /\ task = "none"
        /\ FailRouteAs(c, "failed", "not_started")
     \/ /\ actor[c].at \in {"spawn", "start"}
        /\ FailRouteAs(c, "uncertain", "uncertain")
  /\ UNCHANGED Ledgers

SpawnLocal(c) ==
  /\ At(c, "spawn") /\ Local
  /\ task' = IF task = "none" THEN "pending" ELSE task
  /\ Go(c, IF task = "run" THEN "activate" ELSE "start")
  /\ UNCHANGED <<cmd, route, effects, stray, late>>

StartLocal(c) ==
  /\ At(c, "start") /\ effects < MaxEffects
  /\ task' = "run"
  /\ effects' = effects + 1
  /\ Go(c, "activate")
  /\ UNCHANGED <<cmd, route, stray, late>>

\* begin_external_operation before the request; an undecided create is sent
\* again only under the contract, and a bound proxy is not sent again.
SpawnRemote(c) ==
  /\ At(c, "spawn") /\ ~Local
  /\ \/ /\ task = "bound"
        /\ Go(c, "activate")
        /\ UNCHANGED task
     \/ /\ task \in {"none", "proxy"} \/ (task = "doubt" /\ Safe)
        /\ task' = "doubt"
        /\ Go(c, "call")
     \/ /\ task = "doubt" /\ ~Safe
        /\ FailRouteAs(c, "uncertain", "uncertain")
        /\ UNCHANGED task
  /\ UNCHANGED <<cmd, route, effects, stray, late>>

\* No connection: nothing was sent, and the operation is rejected locally.
NoConnection(c) ==
  /\ At(c, "call") /\ actor[c].call = "none"
  /\ task' = "proxy"
  /\ actor' = [actor EXCEPT ![c].at = "restore", ![c].end = "release_not_dispatched",
                            ![c].out = "retry"]
  /\ UNCHANGED <<cmd, route, effects, stray, late>>

\* restore_create_not_dispatched, shielded from the cancellation of the caller
Restore(c) ==
  /\ At(c, "restore")
  /\ \/ /\ NotDispatched \/ route.state # "pending" \/ May("write")
        /\ End(c, "fail", "not_started")
        /\ UNCHANGED route
     \/ /\ route.state = "pending" /\ route.boundary = "started"
        /\ route' = [route EXCEPT !.boundary = "reserved"]
        /\ Go(c, "cleanup")
  /\ UNCHANGED <<cmd, task, effects, stray, late>>

Send(c) ==
  /\ At(c, "call") /\ actor[c].call = "none"
  /\ actor' = [actor EXCEPT ![c].call = "flying"]
  /\ UNCHANGED Ledgers

\* The answer of the upstream Gateway refuses the create, and the key with it.
Refused(c) ==
  /\ At(c, "call") /\ actor[c].call = "flying"
  /\ effects = 0
  /\ task' = "proxy"
  /\ stray' = 0
  /\ FailRouteAs(c, "failed", "not_started")
  /\ UNCHANGED <<cmd, route, effects, late>>

\* 409 idempotency_in_progress while an earlier request of the key is served:
\* the proxy stays in doubt, the route fails.
Conflict(c) ==
  /\ At(c, "call") /\ actor[c].call = "flying" /\ May("conflict")
  /\ Safe /\ (stray > 0 \/ effects > 0)
  /\ FailRouteAs(c, "failed", "not_started")
  /\ UNCHANGED Ledgers

\* Given up, a request may still arrive.
GiveUp(c) ==
  \/ actor[c].call = "flying" /\ stray < Cardinality(Client) /\ stray' = stray + 1
  \/ UNCHANGED stray

\* A timeout, a 5xx or an unreadable answer.
Lost(c) ==
  /\ At(c, "call") /\ actor[c].call # "none"
  /\ GiveUp(c)
  /\ IF Safe THEN End(c, "release", "retry") ELSE FailRouteAs(c, "uncertain", "uncertain")
  /\ UNCHANGED <<cmd, route, task, effects, late>>

Bind(c) ==
  /\ At(c, "call") /\ actor[c].call = "made"
  /\ task' = "bound"
  /\ Go(c, "activate")
  /\ UNCHANGED <<cmd, route, effects, stray, late>>

Activate(c) ==
  /\ At(c, "activate")
  /\ "active" \in Allowed[route.state]
  /\ route' = [route EXCEPT !.state = "active"]
  /\ Go(c, "complete")
  /\ UNCHANGED <<cmd, task, effects, stray, late>>

ActivateFails(c) ==
  /\ At(c, "activate")
  /\ "active" \notin Allowed[route.state] \/ May("write")
  /\ FailRouteAs(c, "uncertain", "completed")
  /\ UNCHANGED Ledgers

Complete(c) ==
  /\ At(c, "complete") /\ Owns(c)
  /\ cmd' = [cmd EXCEPT !.state = "succeeded", !.owner = Nobody, !.error = "none"]
  /\ Tell(c, "created")
  /\ UNCHANGED <<route, task, effects, stray, late>>

-----------------------------------------------------------------------------
(* Cancellation, the upstream Gateway, worker threads and crashes.         *)

\* The BaseException handler of _execute: an unsafe create that has crossed the
\* boundary is settled by what the route proves, any other claim is released.
UnwoundRelease(c) ==
  [actor[c] EXCEPT !.at = IF FALSE THEN "proof" ELSE "cleanup",
                   !.end = "release", !.out = "gone", !.seen = "none"]
Unwound(c) ==
  [actor[c] EXCEPT !.at = IF ~ReplaySafe /\ actor[c].crossed THEN "proof" ELSE "cleanup",
                   !.end = "release", !.out = "gone", !.seen = "none"]

\* _cleanup_interrupted comes first between the boundary and the spawn, with
\* the reservation as it was read.
Interrupted(c) ==
  [Unwound(c) EXCEPT !.at = "examine", !.next = Unwound(c).at, !.view = "pending", !.live = TRUE]

\* The claim and the read of the route are not compensated by anything.
CancelEarly(c) ==
  /\ May("cancel")
  /\ \/ /\ actor[c].at \in {"look", "examine", "settle"} /\ actor[c].next \in {"replay", "terminal"}
        /\ Tell(c, "gone")
     \/ /\ actor[c].at \in {"admitted", "begin", "fail_route"}
        /\ actor' = [actor EXCEPT ![c] = Unwound(c)]
     \/ /\ actor[c].at \in {"examine", "settle"} /\ actor[c].next = "begin"
        /\ actor' = [actor EXCEPT ![c] = Unwound(c)]
  /\ UNCHANGED Ledgers

\* The write of the cancelled caller never happens or happens later; that it
\* has just happened is the cancellation in the next place.
Leave(c, write) ==
  \/ UNCHANGED late
  \/ late' = late \cup {<<write, c>>}

CancelClaim(c) ==
  /\ May("orphan") /\ actor[c].at \in {"claim", "reclaim"}
  /\ Leave(c, "claim")
  /\ Tell(c, "gone")
  /\ UNCHANGED <<cmd, route, task, effects, stray>>

CancelBoundary(c) ==
  /\ May("cancel") /\ actor[c].at \in {"mark_command", "mark_route"}
  /\ Leave(c, actor[c].at)
  /\ actor' = [actor EXCEPT ![c] = Interrupted(c)]
  /\ UNCHANGED <<cmd, route, task, effects, stray>>

CancelSpawn(c) ==
  /\ May("cancel") /\ actor[c].at \in {"spawn", "start", "call"}
  /\ GiveUp(c)
  /\ actor' = [actor EXCEPT ![c] = [Interrupted(c) EXCEPT !.call = "none"]]
  /\ UNCHANGED <<cmd, route, task, effects, late>>

\* The permit of a run that has started is being returned.
CancelStarted(c) ==
  /\ May("cancel") /\ At(c, "activate") /\ Local
  /\ actor' = [actor EXCEPT ![c] = Interrupted(c)]
  /\ UNCHANGED Ledgers

CancelAfter(c) ==
  /\ May("cancel") /\ actor[c].at \in {"activate", "complete"}
  /\ Leave(c, actor[c].at)
  /\ actor' = [actor EXCEPT ![c] = Unwound(c)]
  /\ UNCHANGED <<cmd, route, task, effects, stray>>

\* _settle_unsafe_create_interruption
Prove(c) ==
  /\ At(c, "proof") /\ actor[c].seen = "none"
  /\ IF NotDispatched THEN End(c, "release_not_dispatched", "gone")
                      ELSE Reconcile(c, "look", "doubt")
  /\ UNCHANGED Ledgers

Doubt(c) ==
  /\ At(c, "doubt")
  /\ IF actor[c].view = "pending" THEN Transition("uncertain") ELSE UNCHANGED route
  /\ End(c, "fail", "gone")
  /\ UNCHANGED <<cmd, task, effects, stray, late>>

LateWrite(w) ==
  /\ w \in late
  /\ late' = late \ {w}
  /\ \/ /\ w[1] = "claim"
        /\ cmd' = IF cmd.state \in {"none", "pending"} THEN Claimed(w[2]) ELSE cmd
        /\ UNCHANGED route
     \/ /\ w[1] = "mark_command"
        /\ cmd' = IF Owns(w[2]) THEN [cmd EXCEPT !.started = TRUE, !.safe = ReplaySafe] ELSE cmd
        /\ UNCHANGED route
     \/ /\ w[1] = "mark_route"
        /\ route' = IF route.state = "pending" THEN [route EXCEPT !.boundary = "started"] ELSE route
        /\ UNCHANGED cmd
     \/ /\ w[1] = "activate"
        /\ Transition("active")
        /\ UNCHANGED cmd
     \/ /\ w[1] = "complete"
        /\ cmd' = IF Owns(w[2])
                  THEN [cmd EXCEPT !.state = "succeeded", !.owner = Nobody, !.error = "none"]
                  ELSE cmd
        /\ UNCHANGED route
  /\ UNCHANGED <<task, effects, stray, actor>>

\* Under the contract a key that is known makes no second Task.
Made == IF Safe /\ effects > 0 THEN effects ELSE effects + 1

Arrive(c) ==
  /\ At(c, "call") /\ actor[c].call = "flying"
  /\ Made <= MaxEffects
  /\ effects' = Made
  /\ actor' = [actor EXCEPT ![c].call = "made"]
  /\ UNCHANGED <<cmd, route, task, stray, late>>

ArriveStray ==
  /\ stray > 0 /\ Made <= MaxEffects
  /\ stray' = stray - 1
  /\ effects' = Made
  /\ UNCHANGED <<cmd, route, task, late, actor>>

\* _recover_interrupted_claims
RecoveredAll ==
  IF cmd.state # "processing" THEN cmd
  ELSE IF FALSE
       THEN [cmd EXCEPT !.state = "failed", !.owner = Nobody, !.error = "recovered"]
       ELSE Released
Recovered ==
  IF cmd.state # "processing" THEN cmd
  ELSE IF cmd.started /\ ~cmd.safe
       THEN [cmd EXCEPT !.state = "failed", !.owner = Nobody, !.error = "recovered"]
       ELSE Released

\* GatewayRouteStore._init_db
Repaired ==
  IF ~Local /\ route.state = "pending" /\ route.boundary = "started" /\ ~Safe
  THEN [route EXCEPT !.state = "uncertain"] ELSE route

Crash ==
  /\ May("crash")
  /\ cmd' = Recovered
  /\ route' = Repaired
  /\ late' = {}
  /\ \E n \in 0..Cardinality({c \in Client : actor[c].call = "flying"}) :
        /\ stray + n <= Cardinality(Client)
        /\ stray' = stray + n
  /\ actor' = [a \in Actor |-> Idle]
  /\ UNCHANGED <<task, effects>>

-----------------------------------------------------------------------------
CommandStep(c) ==
  \/ Request(c) \/ Claim(c) \/ Reopen(c) \/ ReopenCommand(c) \/ Replay(c) \/ Terminal(c)
  \/ Cleanup(c) \/ Complete(c) \/ Prove(c) \/ Doubt(c)

RouteStep(c) ==
  \/ Refuse(c) \/ Reserve(c) \/ ReserveFails(c) \/ Begin(c) \/ MarkCommand(c) \/ MarkRoute(c)
  \/ BoundaryFails(c) \/ FailRoute(c) \/ Restore(c) \/ Activate(c) \/ ActivateFails(c)

SpawnStep(c) ==
  \/ SpawnFails(c) \/ SpawnLocal(c) \/ StartLocal(c) \/ SpawnRemote(c) \/ NoConnection(c)
  \/ Send(c) \/ Refused(c) \/ Conflict(c) \/ Lost(c) \/ Bind(c) \/ Arrive(c)

CancelStep(c) ==
  \/ CancelEarly(c) \/ CancelClaim(c) \/ CancelBoundary(c) \/ CancelSpawn(c) \/ CancelStarted(c)
  \/ CancelAfter(c)

ReconcileStep(a) == LookUp(a) \/ Examine(a) \/ Settle(a)

Next ==
  /\ \/ \E c \in Client : CommandStep(c) \/ RouteStep(c) \/ SpawnStep(c) \/ CancelStep(c)
     \/ \E r \in Reader : Query(r)
     \/ \E a \in Actor : ReconcileStep(a)
     \/ \E w \in late : LateWrite(w)
     \/ ArriveStray
     \/ Crash
  /\ UNCHANGED setting

Spec == Init /\ [][Next]_vars

\* A request, once started, runs to its end and the event loop serves every
\* call; cancellations, faults and the arrival of new requests are free.
Fairness ==
  /\ \A c \in Client : WF_moving((CommandStep(c) /\ ~At(c, "idle")) \/ RouteStep(c) \/ SpawnStep(c))
  /\ \A a \in Actor : WF_moving(ReconcileStep(a))
  /\ \A w \in Write \X Client : WF_moving(LateWrite(w))

-----------------------------------------------------------------------------
(* Properties.                                                             *)

\* One key makes one Task or one run at most, whatever is cancelled, lost,
\* retried or killed between the four transactions of a create.
EffectAtMostOnce == effects <= 1

\* An active route has the Task it names: the run was started, or the proxy is
\* bound to the upstream Task (save_route and the reconciliation).
ActiveHasEffect ==
  route.state = "active" => effects > 0 /\ task \in {"run", "bound"}

\* A client told that its create succeeded or has completed has its Task.
CreatedIsMade ==
  \A c \in Client : actor[c].told \in {"created", "completed"} => effects > 0

\* A stored response stands for a Task the route knows.
SucceededIsActive == cmd.state = "succeeded" => effects > 0 /\ route.state = "active"

\* A key whose create is to be sent again as undispatched has had no effect and
\* has no request on the wire: the proof of create_not_dispatched_is_durable.
ReservedMeansNoEffect ==
  NotDispatched => /\ effects = 0 /\ stray = 0
                   /\ \A c \in Client : actor[c].call = "none"

\* A remote create without the replay contract cannot be told from its retry.
Unsafe == ~ReplaySafe

\* Three things disturb a create.  Under the contract a retry may meet its own first
\* request, whose 409 fails the route; when the route store raises, a caller may be
\* told that a create has not started that is still open; and a query may settle a
\* route whose run starts between its read and its write.
Undisturbed == setting.readers = {} /\ ~May("write") /\ (Local \/ Unsafe)

\* The ledgers and the answers agree, although no transaction spans two of them;
\* an undisturbed local create that has succeeded has its route active; and without
\* the replay contract a reservation proves that nothing was sent.
EveryLedgerAgrees ==
  /\ TypeOK /\ EffectAtMostOnce /\ ActiveHasEffect /\ CreatedIsMade
  /\ Local /\ Undisturbed => SucceededIsActive
  /\ Local \/ Unsafe => ReservedMeansNoEffect

\* An unsafe create is claimed again only while nothing of it exists or is on
\* the wire: an undecided one is never offered for another attempt.
RepeatsNothing ==
  cmd.state # "processing" /\ cmd'.state = "processing" => effects = 0 /\ stray = 0
UnsafeIsNotRepeated == [][Unsafe => RepeatsNothing]_vars

\* A claim is given back: no key answers "in progress" for ever.
ClaimEnds == cmd.state = "processing" ~> cmd.state # "processing"

\* Seen by its clients, the key is an IdempotentCreate: the four ledgers
\* together keep what one atomic create would promise.
Promise == INSTANCE IdempotentCreate WITH
  Caller <- Client,
  made <- effects,
  refused <- (route.state = "failed"),
  told <- [c \in Client |-> actor[c].told]

\* However its requests are cancelled and killed, an undisturbed create keeps the
\* promise of its key.
KeepsPromise == Promise!Init /\ [][Undisturbed => [Promise!Next]_(Promise!vars)]_vars
=============================================================================
