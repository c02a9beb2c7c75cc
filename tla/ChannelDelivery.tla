-------------------------- MODULE ChannelDelivery --------------------------
(***************************************************************************)
(* Telling a chat what became of one run of a Task: the durable delivery    *)
(* intent and its steps, the leased watches of the adapter processes that   *)
(* share the channel database, their retries, the reconciler that redrives  *)
(* failed queries, recovery after a restart, and the callers that wait for  *)
(* the delivery before they continue the Task.                              *)
(*                                                                         *)
(* Store calls are synchronous on the event loop: what lies between two     *)
(* awaits of a watch is one step.  Other sessions, Tasks and runs have      *)
(* intents of their own and do not interfere.                               *)
(***************************************************************************)
EXTENDS Naturals

CONSTANTS
  Owner,       \* adapter processes with one channel database
  Nobody,      \* no lease
  Dead,        \* the lease of a process that died: owner ids are not reused
  Review,      \* reviews the run may ask for
  MaxAttempts, \* WatchRetryPolicy.max_attempts
  GraceChecks, \* terminal_review_grace_checks
  MaxSends,    \* bound on how often the platform accepts one step
  Faults       \* what may go wrong, see below

\* query: get_task fails.  effect: a send fails before the platform takes it.
\* answer: it fails although the platform took it.  lapse: a lease runs out while
\* its process is busy elsewhere.  crash, close: a process stops, with or
\* without its shutdown.
ConstantsAssumption ==
  /\ MaxAttempts \in Nat /\ GraceChecks \in Nat /\ MaxSends \in Nat \ {0}
  /\ Nobody \notin Owner /\ Dead \notin Owner /\ Nobody # Dead
  /\ Faults \subseteq {"query", "effect", "answer", "lapse", "crash", "close"}
  /\ Review \intersect ({"message", "artifact", "hook"} \union
                         {"older", "running", "settled", "newer"}) = {}

\* The steps of a settled run, in the order they are sent.
Terminal == <<"message", "artifact", "hook">>
TerminalSteps == {"message", "artifact", "hook"}
Step == Review \cup TerminalSteps

\* What get_task says of the expected run: an earlier one is still shown, it
\* runs, it asks for a review, it settled, or a later one began.
View == {"older", "running", "settled", "newer"} \cup Review

Final == {"delivered", "superseded"}
State == {"none", "watching", "retry_wait", "error", "delivering", "review_waiting",
          "terminal_grace"} \cup Final

VARIABLES
  task,    \* what the Gateway would answer now
  asked,   \* the reviews that appeared so far
  intent,  \* the row of channel_delivery_intents
  marked,  \* the rows of channel_delivery_steps
  sent,    \* how often the platform took each step
  watch,   \* the watch of every process
  restart, \* processes with a restart request for the key
  scanned, \* processes whose reconciler read the row as due
  owed,    \* processes about to call ensure_delivery
  waiter,  \* the ensure_terminal_delivery call of every process
  up       \* processes that run

vars == <<task, asked, intent, marked, sent, watch, restart, scanned, owed, waiter, up>>
memory == <<restart, scanned, owed, waiter, up>>

Intent == [state : State, holder : Owner \cup {Nobody, Dead}, live : BOOLEAN,
           due : {"never", "later", "now"}]

Watch == [at : {"off", "ask", "seen", "send", "accepted", "error_hook"}, view : View,
          step : Step, said : BOOLEAN, grace : 0..GraceChecks, queries : 0..MaxAttempts,
          tries : 0..MaxAttempts]
Off == [at |-> "off", view |-> "older", step |-> "message", said |-> FALSE,
        grace |-> GraceChecks, queries |-> 0, tries |-> 0]

TypeOK ==
  /\ task \in View
  /\ asked \subseteq Review
  /\ intent \in Intent
  /\ marked \subseteq Step
  /\ sent \in [Step -> 0..MaxSends]
  /\ watch \in [Owner -> Watch]
  /\ restart \subseteq up /\ scanned \subseteq up /\ owed \subseteq up /\ up \subseteq Owner
  /\ waiter \in [Owner -> {"none", "wait", "done", "failed"}]
  \* a row nobody leases has no lease time, a lease is held by a running process
  /\ intent.holder = Nobody => ~intent.live
  /\ intent.holder \in Owner => watch[intent.holder].at \notin {"off", "error_hook"}
  /\ \A o \in Owner \ up : watch[o].at = "off" /\ waiter[o] = "none"
  /\ intent.due # "never" => intent.state = "error"

Init ==
  /\ task = "older"
  /\ asked = {}
  /\ intent = [state |-> "none", holder |-> Nobody, live |-> FALSE, due |-> "never"]
  /\ marked = {}
  /\ sent = [s \in Step |-> 0]
  /\ watch = [o \in Owner |-> Off]
  /\ restart = {} /\ scanned = {} /\ owed = {} /\ up = {}
  /\ waiter = [o \in Owner |-> "none"]

May(fault) == fault \in Faults
Active(o) == watch[o].at # "off"
\* the token of o's watch is the row's and lease_until lies ahead
Owned(o) == intent.holder = o /\ intent.live

-----------------------------------------------------------------------------
(* The row.  Every mark is fenced by Owned, which its callers check.         *)

Claimable(o, row) == row.state \notin Final /\ (~row.live \/ row.holder = o)
Claimed(o, row) == [row EXCEPT !.holder = o, !.live = TRUE]
Free(row) == [row EXCEPT !.holder = Nobody, !.live = FALSE]
Released(o, row) == IF row.holder = o THEN Free(row) ELSE row

MarkWatching(row) ==
  [row EXCEPT !.state = IF @ \in {"review_waiting", "terminal_grace"} THEN @ ELSE "watching",
              !.due = "never"]
MarkRetry(row) ==
  [row EXCEPT !.state = IF @ = "terminal_grace" THEN @ ELSE "retry_wait", !.due = "never"]
MarkError(row, redrive) ==
  [Free(row) EXCEPT !.state = "error", !.due = IF redrive THEN "later" ELSE "never"]
Mark(row, state) == [row EXCEPT !.state = state, !.due = "never"]
Inserted == IF intent.state = "none" THEN [intent EXCEPT !.state = "watching"] ELSE intent

-----------------------------------------------------------------------------
(* Starting and ending a watch                                              *)

\* _start_intent for a process without a watch
Start(o, row) ==
  IF Claimable(o, row)
    THEN intent' = Claimed(o, row) /\ watch' = [watch EXCEPT ![o] = [Off EXCEPT !.at = "ask"]]
    ELSE intent' = row /\ watch' = [watch EXCEPT ![o] = Off]

\* The watch returned: its stopped hook releases the lease and serves a restart
\* request that came meanwhile.
ReturnSwallows(o, row) ==
  /\ restart' = restart \ {o}
  /\ IF FALSE
       THEN Start(o, Released(o, row))
       ELSE intent' = Released(o, row) /\ watch' = [watch EXCEPT ![o] = Off]
Return(o, row) ==
  /\ restart' = restart \ {o}
  /\ IF o \in restart
       THEN Start(o, Released(o, row))
       ELSE intent' = Released(o, row) /\ watch' = [watch EXCEPT ![o] = Off]

\* A lease that is lost ends the watch with nothing recorded; the failed hook
\* drops the restart request first.
Lost(o) ==
  /\ restart' = restart \ {o}
  /\ intent' = Released(o, intent)
  /\ watch' = [watch EXCEPT ![o] = Off]

\* The attempts are used up: an error, due again only if a query failed.
Fail(o, redrive) ==
  /\ restart' = restart \ {o}
  /\ intent' = MarkError(intent, redrive)
  /\ watch' = [watch EXCEPT ![o] = [Off EXCEPT !.at = "error_hook"]]

\* The error hook may send to the chat; the watch still counts as active.
ErrorHookEnds(o) ==
  /\ watch[o].at = "error_hook"
  /\ Return(o, intent)
  /\ UNCHANGED <<task, asked, marked, sent, scanned, owed, waiter, up>>

Ask(o) ==
  /\ o \in owed
  /\ owed' = owed \ {o}
  /\ IF Active(o)
       THEN restart' = restart \cup {o} /\ intent' = Inserted /\ UNCHANGED watch
       ELSE Start(o, Inserted) /\ UNCHANGED restart
  /\ UNCHANGED <<task, asked, marked, sent, scanned, waiter, up>>

Recover(o) ==
  /\ o \notin up
  /\ up' = up \cup {o}
  /\ IF \/ intent.state \in Final \cup {"none"}
        \/ intent.state = "error" /\ intent.due = "later"
       THEN UNCHANGED <<intent, watch>>
       ELSE Start(o, intent)
  /\ UNCHANGED <<task, asked, marked, sent, restart, scanned, owed, waiter>>

-----------------------------------------------------------------------------
(* One watch                                                                *)

Answer(o) ==
  /\ watch[o].at = "ask"
  /\ watch' = [watch EXCEPT ![o].at = "seen", ![o].view = task, ![o].queries = 0]
  /\ UNCHANGED <<task, asked, intent, marked, sent, memory>>

\* retryable: 408, 429, 5xx and network errors; other answers are final
QueryFails(o, retryable) ==
  /\ May("query") /\ watch[o].at = "ask"
  /\ \/ Owned(o) /\ (~retryable \/ watch[o].queries = MaxAttempts) /\ Fail(o, retryable)
     \/ /\ Owned(o) /\ retryable /\ watch[o].queries < MaxAttempts
        /\ intent' = MarkRetry(intent)
        /\ watch' = [watch EXCEPT ![o].queries = @ + 1]
        /\ UNCHANGED restart
     \/ ~Owned(o) /\ Lost(o)
  /\ UNCHANGED <<task, asked, marked, sent, scanned, owed, waiter, up>>

\* The terminal steps that are still to be sent, by their place, and the first of them.
Unmarked == {i \in DOMAIN Terminal : Terminal[i] \notin marked'}
NextStepLast == Terminal[CHOOSE i \in Unmarked : \A j \in Unmarked : j <= i]
NextStep == Terminal[CHOOSE i \in Unmarked : \A j \in Unmarked : i <= j]

Send(o, row, step) ==
  /\ intent' = Mark(row, "delivering")
  /\ watch' = [watch EXCEPT ![o].at = "send", ![o].step = step]
  /\ UNCHANGED restart

\* Late reviews are looked for GraceChecks more times, then the intent is done.
Grace(o) ==
  IF watch[o].grace = 0
    THEN Return(o, Mark(intent, "delivered"))
    ELSE /\ intent' = Mark(intent, "terminal_grace")
         /\ watch' = [watch EXCEPT ![o].at = "ask", ![o].said = TRUE, ![o].tries = 0,
                                   ![o].grace = @ - 1]
         /\ UNCHANGED restart

DeliverTerminal(o) == IF Unmarked = {} THEN Grace(o) ELSE Send(o, intent, NextStep)

DeliverReview(o, review) ==
  IF review \in marked'
    THEN Return(o, Mark(intent, "review_waiting"))
    ELSE Send(o, intent, review)

\* The answer is acted on, whatever happened since it was given.
Observe(o) ==
  /\ watch[o].at = "seen" /\ Owned(o)
  /\ UNCHANGED marked
  /\ LET view == watch[o].view IN
     \/ /\ view \in {"older", "running"}
        /\ intent' = MarkWatching(intent)
        /\ watch' = [watch EXCEPT ![o].at = "ask",
                                  ![o].tries = IF view = "running" THEN 0 ELSE @]
        /\ UNCHANGED restart
     \/ /\ view = "newer"
        /\ intent' = Free(Mark(intent, "superseded"))
        /\ watch' = [watch EXCEPT ![o] = Off]
        /\ restart' = restart \ {o}
     \/ view \in Review /\ DeliverReview(o, view)
     \/ view = "settled" /\ watch[o].said /\ Grace(o)
     \/ view = "settled" /\ ~watch[o].said /\ DeliverTerminal(o)
  /\ UNCHANGED <<task, asked, sent, scanned, owed, waiter, up>>

Accept(o) ==
  /\ watch[o].at = "send" /\ sent[watch[o].step] < MaxSends
  /\ sent' = [sent EXCEPT ![watch[o].step] = @ + 1]
  /\ watch' = [watch EXCEPT ![o].at = "accepted"]
  /\ UNCHANGED <<task, asked, intent, marked, memory>>

\* The send returned: the lease is renewed, the step marked and the next begun.
AcknowledgeMarkLate(o) ==
  /\ watch[o].at = "accepted" /\ Owned(o)
  /\ marked' = IF o \in restart THEN marked ELSE marked \cup {watch[o].step}
  /\ IF watch[o].step \in Review THEN DeliverReview(o, watch[o].step) ELSE DeliverTerminal(o)
  /\ UNCHANGED <<task, asked, sent, scanned, owed, waiter, up>>
Acknowledge(o) ==
  /\ watch[o].at = "accepted" /\ Owned(o)
  /\ marked' = marked \cup {watch[o].step}
  /\ IF watch[o].step \in Review THEN DeliverReview(o, watch[o].step) ELSE DeliverTerminal(o)
  /\ UNCHANGED <<task, asked, sent, scanned, owed, waiter, up>>

EffectFails(o) ==
  /\ \/ May("effect") /\ watch[o].at = "send"
     \/ May("answer") /\ watch[o].at = "accepted"
  /\ Owned(o)
  /\ \/ watch[o].tries = MaxAttempts /\ Fail(o, FALSE)
     \/ /\ watch[o].tries < MaxAttempts
        /\ intent' = MarkRetry(intent)
        /\ watch' = [watch EXCEPT ![o].at = "ask", ![o].tries = @ + 1]
        /\ UNCHANGED restart
  /\ UNCHANGED <<task, asked, marked, sent, scanned, owed, waiter, up>>

\* The heartbeat of a send, or the next renewal, finds the lease gone.
LoseLease(o) ==
  /\ watch[o].at \in {"seen", "send", "accepted"} /\ ~Owned(o)
  /\ Lost(o)
  /\ UNCHANGED <<task, asked, marked, sent, scanned, owed, waiter, up>>

-----------------------------------------------------------------------------
(* The reconciler: what its thread read may be old when it claims           *)

Scan(o) ==
  /\ o \in up \ scanned
  /\ intent.state = "error" /\ intent.due = "now" /\ ~intent.live
  /\ scanned' = scanned \cup {o}
  /\ UNCHANGED <<task, asked, intent, marked, sent, watch, restart, owed, waiter, up>>

Redrive(o) ==
  /\ o \in scanned
  /\ scanned' = scanned \ {o}
  /\ IF intent.state = "error" /\ intent.due = "now" /\ (~intent.live \/ intent.holder = o)
       THEN IF Active(o)
              THEN intent' = Free(intent) /\ UNCHANGED watch
              ELSE Start(o, intent)
       ELSE UNCHANGED <<intent, watch>>
  /\ UNCHANGED <<task, asked, marked, sent, restart, owed, waiter, up>>

-----------------------------------------------------------------------------
(* ensure_terminal_delivery: a turn waits before it continues the Task       *)

AskTerminal(o) ==
  /\ o \in up /\ waiter[o] = "none" /\ task = "settled"
  /\ waiter' = [waiter EXCEPT ![o] = "wait"]
  /\ IF Active(o) THEN intent' = Inserted /\ UNCHANGED watch ELSE Start(o, Inserted)
  /\ UNCHANGED <<task, asked, marked, sent, restart, scanned, owed, up>>

WaiterReturns(o) ==
  /\ waiter[o] = "wait" /\ intent.state \in {"terminal_grace", "delivered"}
  /\ waiter' = [waiter EXCEPT ![o] = "done"]
  /\ UNCHANGED <<task, asked, intent, marked, sent, watch, restart, scanned, owed, up>>

WaiterRaisesSuperseded(o) ==
  /\ waiter[o] = "wait" /\ intent.state \in {"superseded"}
  /\ ~Active(o) /\ intent.holder = Nobody
  /\ waiter' = [waiter EXCEPT ![o] = "failed"]
  /\ UNCHANGED <<task, asked, intent, marked, sent, watch, restart, scanned, owed, up>>
WaiterRaises(o) ==
  /\ waiter[o] = "wait" /\ intent.state \in {"error", "superseded"}
  /\ ~Active(o) /\ intent.holder = Nobody
  /\ waiter' = [waiter EXCEPT ![o] = "failed"]
  /\ UNCHANGED <<task, asked, intent, marked, sent, watch, restart, scanned, owed, up>>

\* It looks whether the watch runs when 0.1 s are over, and does not read the row
\* again, which may have ended in any way since.
WaiterRestarts(o) ==
  /\ waiter[o] = "wait" /\ ~Active(o)
  /\ Claimable(o, intent) /\ Start(o, intent)
  /\ UNCHANGED <<task, asked, marked, sent, restart, scanned, owed, waiter, up>>

-----------------------------------------------------------------------------
(* Time, the run itself, its users, and processes that stop                  *)

DueComes ==
  /\ intent.due = "later"
  /\ intent' = [intent EXCEPT !.due = "now"]
  /\ UNCHANGED <<task, asked, marked, sent, watch, memory>>

Lapse ==
  /\ intent.live /\ (May("lapse") \/ intent.holder = Dead)
  /\ intent' = [intent EXCEPT !.live = FALSE]
  /\ UNCHANGED <<task, asked, marked, sent, watch, memory>>

\* A review may still appear after the run was seen settled.
Progress ==
  /\ \/ task = "older" /\ task' = "running" /\ UNCHANGED asked
     \/ task = "running" /\ task' = "settled" /\ UNCHANGED asked
     \/ task = "settled" /\ task' = "newer" /\ UNCHANGED asked
     \/ /\ task \in {"running", "settled"} /\ task' \in Review \ asked
        /\ asked' = asked \cup {task'}
  /\ UNCHANGED <<intent, marked, sent, watch, memory>>

\* A message or command of the session, or a review decided in this chat.
UserActs(o) ==
  /\ o \in up
  /\ owed' = owed \cup {o}
  /\ task' = IF task \in Review THEN "running" ELSE task
  /\ UNCHANGED <<asked, intent, marked, sent, watch, restart, scanned, waiter, up>>

Forget(o) ==
  /\ o \in up
  /\ up' = up \ {o} /\ restart' = restart \ {o} /\ scanned' = scanned \ {o}
  /\ owed' = owed \ {o}
  /\ waiter' = [waiter EXCEPT ![o] = "none"]
  /\ watch' = [watch EXCEPT ![o] = Off]
  /\ UNCHANGED <<task, asked, marked, sent>>

Crash(o) ==
  /\ May("crash") /\ Forget(o)
  /\ intent' = IF intent.holder = o THEN [intent EXCEPT !.holder = Dead] ELSE intent

Close(o) ==
  /\ May("close") /\ Forget(o)
  /\ intent' = Released(o, intent)

Next ==
  \/ \E o \in Owner :
       \/ Recover(o) \/ Ask(o) \/ AskTerminal(o) \/ UserActs(o)
       \/ Answer(o) \/ Observe(o) \/ Accept(o) \/ Acknowledge(o) \/ EffectFails(o)
       \/ LoseLease(o) \/ ErrorHookEnds(o)
       \/ \E retryable \in BOOLEAN : QueryFails(o, retryable)
       \/ Scan(o) \/ Redrive(o)
       \/ WaiterReturns(o) \/ WaiterRaises(o) \/ WaiterRestarts(o)
       \/ Crash(o) \/ Close(o)
  \/ DueComes \/ Lapse \/ Progress

Spec == Init /\ [][Next]_vars

\* Clocks advance, the loops of a running process go on, and a call that is
\* made again and again is answered at last: bounded retries and redrives are
\* worth nothing otherwise.  A waiting turn looks every 0.1 s and is signalled,
\* while grace and a backoff last for seconds.
Fairness ==
  /\ WF_vars(DueComes) /\ WF_vars(Lapse)
  /\ \A o \in Owner :
       /\ WF_vars(Ask(o)) /\ WF_vars(ErrorHookEnds(o)) /\ WF_vars(Observe(o))
       /\ WF_vars(LoseLease(o)) /\ WF_vars(Scan(o)) /\ WF_vars(Redrive(o))
       /\ SF_vars(WaiterReturns(o)) /\ SF_vars(WaiterRaises(o)) /\ WF_vars(WaiterRestarts(o))
       /\ SF_vars(Answer(o)) /\ SF_vars(Accept(o)) /\ SF_vars(Acknowledge(o))

LiveSpec == Spec /\ Fairness

-----------------------------------------------------------------------------
(* Properties                                                               *)

\* While leases hold and sends fail cleanly, every step reaches the chat at most
\* once, whatever is retried, redriven, asked again or claimed by another process
\* (step markers, step_delivered before each effect, restart requests).
SentOnce == \A s \in Step : sent[s] <= 1

\* terminal_grace and delivered mean that every terminal step was taken by the
\* platform and marked, also when the watch that wrote them resumed another's
\* work after a crash, a lost answer or a lost lease (mark_terminal_steps_done).
GraceIsComplete ==
  intent.state \in {"terminal_grace", "delivered"} =>
    TerminalSteps \subseteq marked /\ \A s \in TerminalSteps : sent[s] > 0

\* An artifact is never seen before the message it belongs to, and the delivered
\* hook never before both, although retries and new owners skip marked steps.
InOrder ==
  \A i, j \in DOMAIN Terminal :
    i < j /\ sent[Terminal[j]] > 0 => sent[Terminal[i]] > 0 /\ Terminal[i] \in marked

\* A turn that waited for the terminal delivery continues the Task only after the
\* result of the run is in the chat (ensure_terminal_delivery).
ContinueAfterResult ==
  \A o \in Owner : waiter[o] = "done" => TerminalSteps \subseteq marked

\* What a delivery promises under every fault.
DeliveredInOrder == InOrder /\ GraceIsComplete /\ ContinueAfterResult /\ TypeOK

Told == intent.state \in {"terminal_grace", "delivered"}
\* an error that only a user or a restart takes up again
GivenUp == intent.state = "error" /\ intent.due = "never"

\* A settled run of an asked-for delivery is told, or given up with an error, by a
\* process that keeps running: failed queries are redriven, and a request that
\* met an active watch is not swallowed by the watch that returns.  Users stop
\* asking: a redrive may take the lease of the watch an Ask just started.
SettledIsTold ==
  <>[](task = "settled" /\ intent.state # "none" /\ owed = {}) => <>(Told \/ GivenUp)

\* A caller of ensure_terminal_delivery gets an answer while the run stays settled and
\* users stop asking; a late review may keep it until its decision.
WaiterEnds ==
  \A o \in Owner : ~<>[](waiter[o] = "wait" /\ task = "settled" /\ owed = {})
=============================================================================
