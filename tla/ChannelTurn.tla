---------------------------- MODULE ChannelTurn ----------------------------
(***************************************************************************)
(* The inbound half of a chat channel: an adapter takes platform events    *)
(* under a durable claim (channels/event_receipts.py), the Turn policy     *)
(* (channels/turn.py) chooses what each means for the chat's Task and asks *)
(* the Gateway for it, the chat session is bound to the Task and the user  *)
(* is answered.  One chat with one Agent.  Every await of the handlers is  *)
(* a step of its own.                                                      *)
(*                                                                         *)
(* "poll" is Telegram: one loop, updates in order, an update that fails or *)
(* is busy is tried again before any later one.  "push" is Feishu: every   *)
(* event is a coroutine of its own, and what the platform has handed over  *)
(* it may or may not hand over again.                                      *)
(***************************************************************************)
EXTENDS Naturals, FiniteSets, Sequences, SequencesExt

CONSTANTS
  Events,       \* the platform events of the chat, 1..N in the order sent
  Kind,         \* what each event says
  Ingress,      \* "poll" or "push"
  Workers,      \* the handler coroutines
  Nobody,       \* not a worker
  MaxDeliveries,\* how often a pushed event is handed over (bound)
  MaxReviews,   \* reviews one Task may ask for (bound)
  Faults,       \* which of "crash", "reply", "lost", "slow", "gone" happen
  MaxFaults     \* how many of them happen (bound)

Kinds == {"text", "new", "yes", "agent", "start", "resume"}

ConstantsAssumption ==
  /\ IsFiniteSet(Events) /\ Events # {} /\ Events = 1..Cardinality(Events)
  /\ Kind \in [Events -> Kinds]
  /\ Ingress \in {"poll", "push"} /\ (Ingress = "poll" => \A v, w \in Workers : v = w)
  /\ Nobody \notin Workers
  /\ {MaxDeliveries, MaxReviews, MaxFaults} \subseteq Nat

NoTask == 0
Nothing == [op |-> "none", task |-> NoTask]

VARIABLES
  receipt,    \* event receipt rows: claim, its holder, whether it has expired
  given,      \* how often each event was handed to the adapter
  offset,     \* the next update the polling loop asks for
  turn,       \* turn receipts: the operation and Task an event was settled by
  session,    \* current_task_id of the chat session
  tasks,      \* the Gateway's Tasks; a Task is named by the event that made it
  recent,     \* the Tasks by updated_at, latest last
  unseen,     \* history: the handlers that read the chat before a Task's run began
  cmd,        \* the Gateway's commands: what each event's key has been used for
  wk,         \* the handlers
  effects,    \* history: what each event's create or input did, how often
  approvals,  \* history: the reviews each event decided
  watched,    \* events for whose Task a delivery watch was asked for
  told,       \* history: the answers the user got to each event
  faults      \* how many faults have happened

stored == <<receipt, given, offset, turn, session>>
gateway == <<tasks, recent, cmd, effects, approvals>>
vars == <<stored, gateway, unseen, wk, watched, told, faults>>

----------------------------------------------------------------------------
Idle == [pc |-> "idle", then |-> "none", ev |-> 0, task |-> NoTask, rev |-> 0,
         op |-> "none", say |-> "none", lapsed |-> FALSE]

Unclaimed(st) == [st |-> st, by |-> Nobody, old |-> FALSE]
Processed == Unclaimed("processed")

Init ==
  /\ receipt = [e \in Events |-> Unclaimed("absent")]
  /\ given = [e \in Events |-> 0]
  /\ offset = 1
  /\ turn = [e \in Events |-> Nothing]
  /\ session = NoTask
  /\ tasks = [e \in Events |-> [st |-> "none", rev |-> 0]]
  /\ recent = <<>>
  /\ unseen = [e \in Events |-> {}]
  /\ cmd = [e \in Events |-> Nothing]
  /\ wk = [w \in Workers |-> Idle]
  /\ effects = [e \in Events |-> 0]
  /\ approvals = [e \in Events |-> {}]
  /\ watched = {}
  /\ told = [e \in Events |-> {}]
  /\ faults = 0

Active(t) == t # NoTask /\ tasks[t].st \in {"running", "review"}
Live(t) == t # NoTask /\ tasks[t].st \notin {"none", "gone"}
(* A Task that waits for a review takes no input.                          *)
Listens(t) == Live(t) /\ tasks[t].st # "review"
Latest == IF recent = <<>> THEN NoTask ELSE Last(recent)
Touched(t) == Append(RemoveFirst(recent, t), t)

Fault(f) == f \in Faults /\ faults < MaxFaults /\ faults' = faults + 1

Goto(w, pc) == wk' = [wk EXCEPT ![w].pc = pc]

(* Any exception of the handler: the claim is given back, nothing is told. *)
Fail(w) == Goto(w, "release")

At(w, pc) == wk[w].pc = pc
Ev(w) == wk[w].ev
KindOf(w) == Kind[Ev(w)]

(* Where a claimed event's handler starts. *)
Entry(e) == CASE Kind[e] \in {"text", "new"} -> "turn"
              [] Kind[e] = "yes" -> "session"
              [] Kind[e] \in {"agent", "start"} -> "unbind"
              [] Kind[e] = "resume" -> "resume"

----------------------------------------------------------------------------
(* The event receipt.                                                      *)
CanClaim(e) ==
  \/ receipt[e].st \in {"absent", "free"}
  \/ receipt[e].st = "claimed" /\ receipt[e].old

TakeClaim(w, e) ==
  /\ receipt' = [receipt EXCEPT ![e] = [st |-> "claimed", by |-> w, old |-> FALSE]]
  /\ wk' = [wk EXCEPT ![w] = [Idle EXCEPT !.pc = Entry(e), !.ev = e]]

(* The polling loop: the first update it has not got past.                 *)
PollClaim(w) ==
  /\ Ingress = "poll" /\ At(w, "idle") /\ offset \in Events
  /\ \/ /\ CanClaim(offset)
        /\ TakeClaim(w, offset)
        /\ UNCHANGED offset
     \/ /\ receipt[offset].st = "processed"
        /\ offset' = offset + 1
        /\ UNCHANGED <<receipt, wk>>
  /\ UNCHANGED <<given, turn, session, gateway, unseen, watched, told, faults>>

(* One callback of the platform's socket; busy and processed are dropped.  *)
PushClaim(w, e) ==
  /\ Ingress = "push" /\ At(w, "idle") /\ given[e] < MaxDeliveries
  /\ given' = [given EXCEPT ![e] = @ + 1]
  /\ \/ CanClaim(e) /\ TakeClaim(w, e)
     \/ ~CanClaim(e) /\ UNCHANGED <<receipt, wk>>
  /\ UNCHANGED <<offset, turn, session, gateway, unseen, watched, told, faults>>

Holds(w) == receipt[Ev(w)].st = "claimed" /\ receipt[Ev(w)].by = w

(* The loop gets past an update only when its own claim ends it.           *)
PollMark(w) ==
  /\ Ingress = "poll" /\ At(w, "mark")
  /\ receipt' = IF Holds(w) THEN [receipt EXCEPT ![Ev(w)] = Processed] ELSE receipt
  /\ offset' = IF Holds(w) THEN offset + 1 ELSE offset
  /\ wk' = [wk EXCEPT ![w] = Idle]
  /\ UNCHANGED <<given, turn, session, gateway, unseen, watched, told, faults>>

PushMark(w) ==
  /\ Ingress = "push" /\ At(w, "mark")
  /\ receipt' = IF Holds(w) THEN [receipt EXCEPT ![Ev(w)] = Processed] ELSE receipt
  /\ wk' = [wk EXCEPT ![w] = Idle]
  /\ UNCHANGED <<given, offset, turn, session, gateway, unseen, watched, told, faults>>

Release(w) ==
  /\ At(w, "release")
  /\ receipt' = IF Holds(w)
                THEN [receipt EXCEPT ![Ev(w)] = Unclaimed("free")] ELSE receipt
  /\ wk' = [wk EXCEPT ![w] = Idle]
  /\ UNCHANGED <<given, offset, turn, session, gateway, unseen, watched, told, faults>>

Handling(w, e) == wk[w].pc # "idle" /\ wk[w].ev = e

(* Five minutes pass over a claim nobody is working on any more ...        *)
LapseDead(e) ==
  /\ receipt[e].st = "claimed" /\ ~receipt[e].old
  /\ ~Handling(receipt[e].by, e)
  /\ receipt' = [receipt EXCEPT ![e].old = TRUE]
  /\ UNCHANGED <<given, offset, turn, session, gateway, unseen, wk, watched, told, faults>>

(* ... or over one whose handler is still waiting for the Gateway.         *)
LapseSlow(w) ==
  /\ ~At(w, "idle") /\ Holds(w) /\ ~receipt[Ev(w)].old
  /\ Fault("slow")
  /\ receipt' = [receipt EXCEPT ![Ev(w)].old = TRUE]
  /\ wk' = [wk EXCEPT ![w].lapsed = TRUE]
  /\ UNCHANGED <<given, offset, turn, session, gateway, unseen, watched, told>>

----------------------------------------------------------------------------
(* ChannelTurnHandler: what an event means.                                *)
ReadTurnForgets(w) ==
  /\ At(w, "turn")
  /\ IF FALSE
     THEN wk' = [wk EXCEPT ![w].pc = "reply", ![w].say = "started",
                           ![w].task = turn[Ev(w)].task]
     ELSE Goto(w, IF KindOf(w) = "new" THEN "create" ELSE "session")
  /\ UNCHANGED <<stored, gateway, unseen, watched, told, faults>>
ReadTurn(w) ==
  /\ At(w, "turn")
  /\ IF turn[Ev(w)] # Nothing
     THEN wk' = [wk EXCEPT ![w].pc = "reply", ![w].say = "started",
                           ![w].task = turn[Ev(w)].task]
     ELSE Goto(w, IF KindOf(w) = "new" THEN "create" ELSE "session")
  /\ UNCHANGED <<stored, gateway, unseen, watched, told, faults>>

ReadSession(w) ==
  /\ At(w, "session")
  /\ wk' = [wk EXCEPT ![w].pc = IF session = NoTask THEN "list" ELSE "fetch",
                      ![w].task = session]
  /\ UNCHANGED <<stored, gateway, unseen, watched, told, faults>>

(* What a snapshot of the Task means for a message ...                     *)
TurnChoiceSendsOn(w, t) ==
  CASE tasks[t].st = "review" -> [wk[w] EXCEPT !.pc = "reply", !.task = t, !.say = "review"]
    [] OTHER -> [wk[w] EXCEPT !.pc = "before", !.task = t]
TurnChoice(w, t) ==
  CASE tasks[t].st = "review" -> [wk[w] EXCEPT !.pc = "reply", !.task = t, !.say = "review"]
    [] tasks[t].st = "running" -> [wk[w] EXCEPT !.pc = "reply", !.task = t, !.say = "busy"]
    [] OTHER -> [wk[w] EXCEPT !.pc = "before", !.task = t]

(* ... and for a bare "y".                                                 *)
ReviewChoice(w, t) ==
  IF tasks[t].st = "review"
  THEN [wk[w] EXCEPT !.pc = "decide", !.task = t, !.rev = tasks[t].rev]
  ELSE [wk[w] EXCEPT !.pc = "reply", !.task = t, !.say = "nothing"]

Chosen(w, t) == IF KindOf(w) = "yes" THEN ReviewChoice(w, t) ELSE TurnChoice(w, t)

Fetch(w) ==
  /\ At(w, "fetch")
  /\ \/ /\ Live(wk[w].task)
        /\ wk' = [wk EXCEPT ![w] = Chosen(w, wk[w].task)]
        /\ UNCHANGED session
     \/ /\ ~Live(wk[w].task)
        /\ session' = NoTask
        /\ Goto(w, "list")
  /\ UNCHANGED <<receipt, given, offset, turn, gateway, unseen, watched, told, faults>>

(* list_tasks(limit = 1): the Task of this chat that was last updated is   *)
(* bound to the session; with none, a message makes one.                   *)
List(w) ==
  /\ At(w, "list")
  /\ LET c == Chosen(w, Latest) IN
     wk' = [wk EXCEPT ![w] =
              IF Latest # NoTask THEN [c EXCEPT !.pc = "adopt", !.then = c.pc]
              ELSE IF KindOf(w) = "yes" THEN [@ EXCEPT !.pc = "reply", !.say = "nothing"]
              ELSE [@ EXCEPT !.pc = "create"]]
  /\ UNCHANGED <<stored, gateway, unseen, watched, told, faults>>

Adopt(w) ==
  /\ At(w, "adopt")
  /\ session' = wk[w].task
  /\ Goto(w, wk[w].then)
  /\ UNCHANGED <<receipt, given, offset, turn, gateway, unseen, watched, told, faults>>

(* before_continue: the result of the settled run reaches the chat first.  *)
Before(w) ==
  /\ At(w, "before")
  /\ Goto(w, "send")
  /\ UNCHANGED <<stored, gateway, unseen, watched, told, faults>>

(* /agent: the session of the Agent is unbound, a message may make a Task. *)
Unbind(w) ==
  /\ At(w, "unbind")
  /\ session' = NoTask
  /\ wk' = IF KindOf(w) = "start" THEN [wk EXCEPT ![w].pc = "create"]
           ELSE [wk EXCEPT ![w].pc = "reply", ![w].say = "switched"]
  /\ UNCHANGED <<receipt, given, offset, turn, gateway, unseen, watched, told, faults>>

(* /resume of the Task the first message made.                             *)
Resume(w) ==
  /\ At(w, "resume")
  /\ IF Live(1) THEN wk' = [wk EXCEPT ![w].pc = "rebind", ![w].task = 1,
                                      ![w].say = "resumed"]
                ELSE wk' = [wk EXCEPT ![w].pc = "reply", ![w].say = "nothing"]
  /\ UNCHANGED <<stored, gateway, unseen, watched, told, faults>>

----------------------------------------------------------------------------
(* A message's handler that has read the chat and not asked the Gateway.   *)
Asking(w) ==
  /\ \/ wk[w].pc \in {"before", "send", "create"}
     \/ wk[w].pc = "adopt" /\ wk[w].then = "before"
  /\ KindOf(w) = "text"

(* A run of t begins; w asks the Gateway for something.                    *)
Unseen(t) == [unseen EXCEPT ![t] = {v \in Workers : Asking(v)}]
Asked(w, seen) == [t \in Events |-> seen[t] \ {w}]

(* The Gateway.  A command's key is used for one request only: the same    *)
(* request again is answered from the command, another is refused.         *)
Answered(w, command, then) ==
  \/ wk' = [wk EXCEPT ![w].pc = then, ![w].op = command.op,
                      ![w].task = command.task, ![w].say = "started"]
     /\ UNCHANGED faults
  \/ Fault("lost") /\ Fail(w)

Refused(w) == Fail(w) /\ UNCHANGED <<gateway, faults>>

CreateUnkeyed(w) ==
  LET e == Ev(w)
      command == [op |-> "create", task |-> e]
      then == IF KindOf(w) = "start" THEN "rebind" ELSE "bind"
  IN
  /\ At(w, "create")
  /\ \/ /\ cmd[e] \in {Nothing, command}
        /\ cmd' = [cmd EXCEPT ![e] = command]
        /\ tasks' = [tasks EXCEPT ![e] = [st |-> "running", rev |-> 0]]
        /\ recent' = Touched(e)
        /\ effects' = [effects EXCEPT ![e] = @ + 1]
        /\ Answered(w, command, then)
        /\ UNCHANGED approvals
     \/ cmd[e] = command /\ Answered(w, command, then) /\ UNCHANGED gateway
     \/ cmd[e] \notin {Nothing, command} /\ Refused(w)
  /\ unseen' = Asked(w, IF cmd[e] = Nothing THEN Unseen(e) ELSE unseen)
  /\ UNCHANGED <<stored, watched, told>>
Create(w) ==
  LET e == Ev(w)
      command == [op |-> "create", task |-> e]
      then == IF KindOf(w) = "start" THEN "rebind" ELSE "bind"
  IN
  /\ At(w, "create")
  /\ \/ /\ cmd[e] = Nothing
        /\ cmd' = [cmd EXCEPT ![e] = command]
        /\ tasks' = [tasks EXCEPT ![e] = [st |-> "running", rev |-> 0]]
        /\ recent' = Touched(e)
        /\ effects' = [effects EXCEPT ![e] = @ + 1]
        /\ Answered(w, command, then)
        /\ UNCHANGED approvals
     \/ cmd[e] = command /\ Answered(w, command, then) /\ UNCHANGED gateway
     \/ cmd[e] \notin {Nothing, command} /\ Refused(w)
  /\ unseen' = Asked(w, IF cmd[e] = Nothing THEN Unseen(e) ELSE unseen)
  /\ UNCHANGED <<stored, watched, told>>

(* An input starts a run of a settled Task and waits in the mailbox of one *)
(* that has a run.                                                         *)
Send(w) ==
  LET e == Ev(w)
      t == wk[w].task
      command == [op |-> "send", task |-> t]
  IN
  /\ At(w, "send")
  /\ \/ /\ cmd[e] = Nothing /\ Listens(t)
        /\ cmd' = [cmd EXCEPT ![e] = command]
        /\ tasks' = IF tasks[t].st = "settled"
                    THEN [tasks EXCEPT ![t].st = "running"] ELSE tasks
        /\ recent' = Touched(t)
        /\ effects' = [effects EXCEPT ![e] = @ + 1]
        /\ Answered(w, command, "bind")
        /\ UNCHANGED approvals
     \/ cmd[e] = command /\ Answered(w, command, "bind") /\ UNCHANGED gateway
     \/ cmd[e] = Nothing /\ ~Listens(t) /\ Refused(w)
     \/ cmd[e] \notin {Nothing, command} /\ Refused(w)
  /\ unseen' = Asked(w, IF cmd[e] = Nothing /\ tasks[t].st = "settled"
                        THEN Unseen(t) ELSE unseen)
  /\ UNCHANGED <<stored, watched, told>>

(* A review decision has no command: it is accepted while that review is   *)
(* the one pending.                                                        *)
Decide(w) ==
  LET t == wk[w].task IN
  /\ At(w, "decide")
  /\ \/ /\ tasks[t] = [st |-> "review", rev |-> wk[w].rev]
        /\ tasks' = [tasks EXCEPT ![t].st = "running"]
        /\ recent' = Touched(t)
        /\ approvals' = [approvals EXCEPT ![Ev(w)] = @ \union {<<t, wk[w].rev>>}]
        /\ \/ wk' = [wk EXCEPT ![w].pc = "rebind", ![w].say = "submitted"]
              /\ UNCHANGED faults
           \/ Fault("lost") /\ Fail(w)
        /\ UNCHANGED <<cmd, effects>>
     \/ tasks[t] # [st |-> "review", rev |-> wk[w].rev] /\ Refused(w)
  /\ UNCHANGED <<stored, unseen, watched, told>>

(* bind_session with a turn receipt, in one transaction.                   *)
Bind(w) ==
  LET e == Ev(w)
      done == [op |-> wk[w].op, task |-> wk[w].task]
  IN
  /\ At(w, "bind")
  /\ IF turn[e] \in {Nothing, done}
     THEN /\ session' = wk[w].task
          /\ turn' = [turn EXCEPT ![e] = done]
          /\ Goto(w, "reply")
     ELSE Fail(w) /\ UNCHANGED <<session, turn>>
  /\ UNCHANGED <<receipt, given, offset, gateway, unseen, watched, told, faults>>

Rebind(w) ==
  /\ At(w, "rebind")
  /\ session' = wk[w].task
  /\ Goto(w, "reply")
  /\ UNCHANGED <<receipt, given, offset, turn, gateway, unseen, watched, told, faults>>

(* The answers that ask for a delivery watch of the Task as well.          *)
Watches(w) == wk[w].say \in {"started", "busy", "submitted"}

Told(w) ==
  /\ told' = [told EXCEPT ![Ev(w)] = @ \union {wk[w].say}]
  /\ Goto(w, "mark")
  /\ UNCHANGED faults

NotTold(w) == Fault("reply") /\ Fail(w) /\ UNCHANGED told

(* Telegram asks for the watch, then answers.                              *)
PollReply(w) ==
  /\ Ingress = "poll" /\ At(w, "reply")
  /\ watched' = IF Watches(w) THEN watched \union {Ev(w)} ELSE watched
  /\ Told(w) \/ NotTold(w)
  /\ UNCHANGED <<stored, gateway, unseen>>

(* Feishu answers, then asks for the watch.                                *)
PushReply(w) ==
  /\ Ingress = "push" /\ At(w, "reply")
  /\ \/ /\ Told(w)
        /\ watched' = IF Watches(w) THEN watched \union {Ev(w)} ELSE watched
     \/ NotTold(w) /\ UNCHANGED watched
  /\ UNCHANGED <<stored, gateway, unseen>>

----------------------------------------------------------------------------
(* The Tasks go on by themselves, and the Gateway has other clients: a run *)
(* ends or somebody cancels it,                                            *)
Settle(t) ==
  /\ tasks[t].st \in {"running", "review"}
  /\ tasks' = [tasks EXCEPT ![t].st = "settled"]
  /\ recent' = Touched(t)
  /\ unseen' = [unseen EXCEPT ![t] = {}]
  /\ UNCHANGED <<stored, cmd, effects, approvals, wk, watched, told, faults>>

(* a message in its mailbox (a child has settled, another client's input)  *)
(* starts a run of a settled Task, or another client decides its review;   *)
Wake(t) ==
  /\ tasks[t].st \in {"settled", "review"}
  /\ tasks' = [tasks EXCEPT ![t].st = "running"]
  /\ recent' = Touched(t)
  /\ unseen' = IF tasks[t].st = "settled" THEN Unseen(t) ELSE unseen
  /\ UNCHANGED <<stored, cmd, effects, approvals, wk, watched, told, faults>>

(* it asks for a review.                                                   *)
AskReview(t) ==
  /\ tasks[t].st = "running" /\ tasks[t].rev < MaxReviews
  /\ tasks' = [tasks EXCEPT ![t] = [st |-> "review", rev |-> @.rev + 1]]
  /\ recent' = Touched(t)
  /\ UNCHANGED <<stored, unseen, cmd, effects, approvals, wk, watched, told, faults>>

(* The Task's route answers 401, 403, 404 or 410 from now on.              *)
Vanish(t) ==
  /\ tasks[t].st = "settled" /\ Fault("gone")
  /\ tasks' = [tasks EXCEPT ![t].st = "gone"]
  /\ recent' = RemoveFirst(recent, t)
  /\ UNCHANGED <<stored, unseen, cmd, effects, approvals, wk, watched, told>>

(* The adapter process dies: handlers, watches in memory and the offset    *)
(* the loop keeps are gone, the rows stay.                                 *)
Crash ==
  /\ Fault("crash")
  /\ wk' = [w \in Workers |-> Idle]
  /\ offset' = 1
  /\ unseen' = [e \in Events |-> {}]
  /\ UNCHANGED <<receipt, given, turn, session, gateway, watched, told>>

Handler(w) ==
  \/ ReadTurn(w) \/ ReadSession(w) \/ Fetch(w) \/ List(w) \/ Adopt(w)
  \/ Before(w) \/ Unbind(w) \/ Resume(w) \/ Create(w) \/ Send(w) \/ Decide(w)
  \/ Bind(w) \/ Rebind(w) \/ PollReply(w) \/ PushReply(w)
  \/ PollMark(w) \/ PushMark(w) \/ Release(w)

Next ==
  \/ \E w \in Workers : PollClaim(w) \/ Handler(w) \/ LapseSlow(w)
  \/ \E w \in Workers, e \in Events : PushClaim(w, e)
  \/ \E e \in Events : LapseDead(e) \/ Settle(e) \/ Wake(e) \/ AskReview(e) \/ Vanish(e)
  \/ Crash

Spec == Init /\ [][Next]_vars

(***************************************************************************)
(* The loop and the handlers go on, a dead claim expires.  Whether a Task  *)
(* settles or asks for a review is its own affair.                         *)
(***************************************************************************)
Fairness ==
  /\ \A w \in Workers : WF_vars(PollClaim(w)) /\ WF_vars(Handler(w))
  /\ \A e \in Events : WF_vars(LapseDead(e))

LiveSpec == Spec /\ Fairness

----------------------------------------------------------------------------
Tasks == Events \union {NoTask}
Ops == {"none", "create", "send"}
Says == {"none", "started", "busy", "review", "nothing", "switched", "submitted",
         "resumed"}
Pcs == {"idle", "turn", "session", "fetch", "list", "adopt", "before", "create",
        "send", "bind", "rebind", "unbind", "resume", "decide", "reply", "mark",
        "release"}

Orders(s, T) == s \in Seq(T) /\ Range(s) = T /\ IsInjective(s)

HandlerState == [pc : Pcs, then : Pcs \union {"none"}, ev : Events \union {0}, task : Tasks,
                 rev : 0..MaxReviews, op : Ops, say : Says, lapsed : BOOLEAN]

\* The values every variable ranges over; recent lists the Tasks there are.
TypeOK ==
  /\ receipt \in [Events -> [st : {"absent", "claimed", "free", "processed"},
                            by : Workers \union {Nobody}, old : BOOLEAN]]
  /\ given \in [Events -> 0..MaxDeliveries]
  /\ offset \in 1..(Cardinality(Events) + 1)
  /\ turn \in [Events -> [op : Ops, task : Tasks]]
  /\ session \in Tasks
  /\ tasks \in [Events -> [st : {"none", "running", "review", "settled", "gone"},
                          rev : 0..MaxReviews]]
  /\ Orders(recent, {t \in Events : Live(t)})
  /\ unseen \in [Events -> SUBSET Workers]
  /\ cmd \in [Events -> [op : Ops, task : Tasks]]
  /\ wk \in [Workers -> HandlerState]
  /\ effects \in [Events -> 0..2]
  /\ approvals \in [Events -> SUBSET (Events \X (1..MaxReviews))]
  /\ watched \subseteq Events
  /\ told \in [Events -> SUBSET Says]
  /\ faults \in 0..MaxFaults

\* However often an event is handed over, retried after a failure, a crash
\* or a lost answer, or handled twice at once because its claim ran out, the
\* Gateway acts on it once (turn.py:200-240, event_receipts.py:74).
EffectOnce == \A e \in Events : effects[e] <= 1

\* Who is told "received" (or is replayed a turn receipt) had his message
\* acted on (turn.py:154-172).
StartedHasEffect == \A e \in Events : "started" \in told[e] => effects[e] = 1

\* A claim that has not run out is the only one: a handler that lost its
\* claim neither ends nor frees the claim of the one that took the event
\* over (event_receipts.py:155-205).
OneLiveHolder ==
  \A e \in Events :
    Cardinality({w \in Workers : Handling(w, e) /\ ~wk[w].lapsed}) <= 1

\* A message is acted on beside no run its handler could have seen (turn.py:176-199).
\* A plain message is not sent to a Task that is running, and makes no Task while one of
\* the chat's is, unless that run began after its handler had read the chat: by another
\* handler, by the Task's mailbox or by another client.  In a polled chat the same holds
\* of the Task the chat is bound to when the message is sent.
Beside(w, t) == At(w, "create") \/ t = wk[w].task \/ (Ingress = "poll" /\ t = session)
ActsBesideNoSeenRun ==
  \A e \in Events : Kind[e] = "text" /\ effects'[e] > effects[e] =>
    \E w \in Workers :
      /\ Handling(w, e) /\ wk'[w] # wk[w]
      /\ \A t \in Events : Active(t) /\ Beside(w, t) => w \in unseen[t]

\* One "y" of the user approves one review (turn.py:241-306).
YesOnce == \A e \in Events : Cardinality(approvals[e]) <= 1

\* Nothing has gone wrong yet, or nothing can but that a Task is gone.
Calm == faults = 0 \/ Faults \subseteq {"gone"}

\* What holds whatever the ingress and the faults; and that one "y" approves one
\* review, which a lost answer, a late handler or a crash may break where a Task asks
\* for a second review.
HandledOnce == TypeOK /\ EffectOnce /\ StartedHasEffect /\ OneLiveHolder
ActsOnce == HandledOnce /\ (Calm => YesOnce)

\* A message that was acted on and is done with has its Task watched, so
\* that the result reaches the chat (adapter.py:545-590).
EffectIsWatched ==
  \A e \in Events :
    receipt[e].st = "processed" /\ effects[e] > 0 => e \in watched

\* No update blocks the loop for ever: each is got past in the end.
UpdateEnds == \A e \in Events : <>(offset > e)
=============================================================================
