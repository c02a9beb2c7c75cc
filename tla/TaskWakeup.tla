------------------------------ MODULE TaskWakeup ------------------------------
(***************************************************************************)
(* The mailbox of one local Task and the runs it wakes                     *)
(* (storage/mailbox_store.py, runtime/mailbox/service.py and the wakeup    *)
(* half of runtime/delegation/task_runtime.py).  Inputs and child notices  *)
(* are rows; a run claims what is pending before each model call, and      *)
(* acknowledges or releases its claims when the graph returns or fails.  A *)
(* settled Task is woken by a pending row newer than the watermark its     *)
(* last admission saved.                                                   *)
(*                                                                         *)
(* A claim batch is named by the run that took it: a Task has one run at a *)
(* time, and a run's batches differ only in when they expire.              *)
(***************************************************************************)
EXTENDS Naturals, FiniteSets, FiniteSetsExt

CONSTANTS
  Input,       \* messages of send_task_input
  Note,        \* notices that a delegated run has settled
  MaxReviews,  \* reviews the Task's runs ask for (bound)
  Faults,      \* which of "fail", "cancel", "crash", "stall", "unknown" happen
  MaxFaults    \* how many of them happen (bound)

Message == Input \union Note

ASSUME MessageAssumption == Input \intersect Note = {} /\ IsFiniteSet(Message)
ASSUME BoundsAssumption == {MaxReviews, MaxFaults} \subseteq Nat

VARIABLES
  msg,      \* mailbox rows: status, wakeup sequence, claiming run, live lease
  counter,  \* agent_mailbox_sequence
  task,     \* the Task row: state, run_count, mailbox_wakeup_sequence
  run,      \* the live run, in memory: where it is and what it has read
  waker,    \* the holder of the Task's input lock and the sequence it read
  up,       \* the process runs
  known,    \* the registry of this process has the Task's Agent
  heard,    \* history: how often a successful run read each message
  woken,    \* history: admissions and rejections caused by the mailbox
  stalled,  \* history: the process has been still for longer than a lease
  reviews,  \* how many reviews were asked for
  faults    \* how many faults have happened

vars == <<msg, counter, task, run, waker, up, known, heard, woken, stalled, reviews, faults>>
history == <<heard, woken, stalled, reviews>>

----------------------------------------------------------------------------
Unclaimed(st, seq) == [st |-> st, seq |-> seq, by |-> 0, live |-> FALSE]
Absent == Unclaimed("absent", 0)
NoRun == [pc |-> "none", read |-> {}]
Asleep == [pc |-> "none", seq |-> 0]

Init ==
  /\ msg = [m \in Message |-> Absent]
  /\ counter = 0
  /\ task = [st |-> "running", run |-> 1, wm |-> 0]
  /\ run = [pc |-> "admitted", read |-> {}]
  /\ waker = Asleep
  /\ up = TRUE
  /\ known = TRUE
  /\ heard = [m \in Message |-> 0]
  /\ woken = 0
  /\ stalled = FALSE
  /\ reviews = 0
  /\ faults = 0

Fault(f) == f \in Faults /\ faults < MaxFaults /\ faults' = faults + 1

HasRun == run.pc # "none"
InState(st) == {m \in Message : msg[m].st = st}

(* The rows in ms become pending again.                                    *)
Freed(ms) ==
  [m \in Message |-> IF m \in ms THEN Unclaimed("pending", msg[m].seq)
                     ELSE msg[m]]

ExpiredOwn == {m \in InState("claimed") : ~msg[m].live /\ HasRun /\ msg[m].by = task.run}
Expired == {m \in InState("claimed") : ~msg[m].live}

(* Claims this run may still acknowledge, release or renew.                *)
Owned == {m \in InState("claimed") : msg[m].by = task.run /\ msg[m].live}

----------------------------------------------------------------------------
(* Publishing.                                                             *)
Insert(m) ==
  /\ msg' = [msg EXCEPT ![m] = Unclaimed("pending", counter + 1)]
  /\ counter' = counter + 1

(* send_task_input; the caller may send the same message again, and the    *)
(* unique idempotency key makes that nothing.                              *)
Publish(m) ==
  /\ up /\ m \in Input /\ task.st # "review"
  /\ msg[m].st = "absent" /\ Insert(m)
  /\ UNCHANGED <<task, run, waker, up, known, history, faults>>

(* A child settles, whatever this Task is doing.                           *)
PublishNote(m) ==
  /\ up /\ m \in Note /\ msg[m].st = "absent"
  /\ Insert(m)
  /\ UNCHANGED <<task, run, waker, up, known, history, faults>>

(* The parent has the child's result by other means.                       *)
Retract(m) ==
  /\ up /\ m \in Note /\ msg[m].st \in {"pending", "claimed"}
  /\ msg' = [msg EXCEPT ![m] = Unclaimed("retracted", msg[m].seq)]
  /\ UNCHANGED <<counter, task, run, waker, up, known, history, faults>>

----------------------------------------------------------------------------
(* Leases.  One runs out when nobody renews it: its run is gone ...        *)
LapseDead(m) ==
  /\ msg[m].st = "claimed" /\ msg[m].live
  /\ ~HasRun \/ msg[m].by # task.run
  /\ msg' = [msg EXCEPT ![m].live = FALSE]
  /\ UNCHANGED <<counter, task, run, waker, up, known, history, faults>>

(* ... or the process did nothing for five minutes.                        *)
Stall ==
  /\ up /\ HasRun /\ Owned # {} /\ Fault("stall")
  /\ msg' = [m \in Message |-> [msg[m] EXCEPT !.live = FALSE]]
  /\ stalled' = TRUE
  /\ UNCHANGED <<counter, task, run, waker, up, known, heard, woken, reviews>>

(* The five second tick: what has expired is freed, what is left renewed.  *)
RecoverClaims ==
  /\ up /\ Expired # {}
  /\ msg' = Freed(Expired)
  /\ UNCHANGED <<counter, task, run, waker, up, known, history, faults>>

----------------------------------------------------------------------------
(* _ensure_task_awake, under the input lock.  It is called by every sender, *)
(* by the end of every run and by the tick: at any time.                   *)
MaxTrigger(rows) ==
  Max({0} \union {rows[m].seq : m \in {x \in Message : rows[x].st = "pending"}})

BeginWakeAgain ==
  LET rows == Freed(Expired) IN
  /\ up /\ waker = Asleep /\ ~HasRun /\ task.st = "settled"
  /\ MaxTrigger(rows) > 0 /\ MaxTrigger(rows) >= task.wm
  /\ msg' = rows
  /\ waker' = [pc |-> IF known THEN "admit" ELSE "reject", seq |-> MaxTrigger(rows)]
  /\ UNCHANGED <<counter, task, run, up, known, history, faults>>
BeginWake ==
  LET rows == Freed(Expired) IN
  /\ up /\ waker = Asleep /\ ~HasRun /\ task.st = "settled"
  /\ MaxTrigger(rows) > task.wm
  /\ msg' = rows
  /\ waker' = [pc |-> IF known THEN "admit" ELSE "reject", seq |-> MaxTrigger(rows)]
  /\ UNCHANGED <<counter, task, run, up, known, history, faults>>

(* mark_running, in the supervisor's critical section.                     *)
Admitted(seq) == [st |-> "running", run |-> task.run + 1, wm |-> Max({task.wm, seq})]

AdmitWake ==
  /\ up /\ waker.pc = "admit"
  /\ task' = Admitted(waker.seq)
  /\ run' = [pc |-> "admitted", read |-> {}]
  /\ waker' = Asleep
  /\ woken' = woken + 1
  /\ UNCHANGED <<msg, counter, up, known, heard, stalled, reviews, faults>>

(* reject_mailbox_run: a failed run that never ran.                        *)
RejectWake ==
  /\ up /\ waker.pc = "reject"
  /\ task' = [Admitted(waker.seq) EXCEPT !.st = "settled"]
  /\ waker' = Asleep
  /\ woken' = woken + 1
  /\ UNCHANGED <<msg, counter, run, up, known, heard, stalled, reviews, faults>>

(* submit_review_decision: its admission saves the newest trigger too.     *)
ResumeReview ==
  LET rows == Freed(Expired) IN
  /\ up /\ ~HasRun /\ task.st = "review"
  /\ msg' = rows
  /\ task' = Admitted(MaxTrigger(rows))
  /\ run' = [pc |-> "admitted", read |-> {}]
  /\ UNCHANGED <<counter, waker, up, known, history, faults>>

----------------------------------------------------------------------------
(* The run.  A model boundary claims everything that is pending.           *)
ModelBoundary ==
  LET batch == InState("pending") \union Expired IN
  /\ up /\ known /\ run.pc \in {"admitted", "graph"}
  /\ run' = [pc |-> "graph", read |-> run.read \union batch]
  /\ msg' = [m \in Message |-> IF m \in batch
                               THEN [msg[m] EXCEPT !.st = "claimed", !.by = task.run,
                                                   !.live = TRUE]
                               ELSE msg[m]]
  /\ run' # run
  /\ UNCHANGED <<counter, task, waker, up, known, history, faults>>

(* The graph returns and the run's live claims are acknowledged.           *)
AcknowledgedAll ==
  [m \in Message |-> IF m \in Owned \union InState("pending")
                     THEN Unclaimed("delivered", msg[m].seq)
                     ELSE msg[m]]
Acknowledged ==
  [m \in Message |-> IF m \in Owned
                     THEN Unclaimed("delivered", msg[m].seq)
                     ELSE msg[m]]

GraphReturns ==
  /\ up /\ run.pc = "graph"
  /\ msg' = Acknowledged
  /\ heard' = [m \in Message |-> heard[m] + (IF m \in run.read THEN 1 ELSE 0)]
  /\ run' = [run EXCEPT !.pc = "returned"]
  /\ UNCHANGED <<counter, task, waker, up, known, woken, stalled, reviews, faults>>

(* The graph raises or is cancelled and they are released.                 *)
ReleasableRead == run.read
Releasable == Owned

GraphFails ==
  /\ up /\ run.pc \in {"admitted", "graph"}
  /\ Fault("fail") \/ Fault("cancel")
  /\ msg' = Freed(Releasable)
  /\ run' = [run EXCEPT !.pc = "returned"]
  /\ UNCHANGED <<counter, task, waker, up, known, history>>

(* The run's Agent has left the registry: it fails before its graph.       *)
AgentMissing ==
  /\ up /\ ~known /\ run.pc = "admitted"
  /\ run' = [run EXCEPT !.pc = "returned"]
  /\ UNCHANGED <<msg, counter, task, waker, up, known, history, faults>>

(* The turn's outcome; a run that failed or was cancelled just settles.    *)
Settle ==
  /\ up /\ run.pc = "returned"
  /\ task' = [task EXCEPT !.st = "settled"]
  /\ run' = [run EXCEPT !.pc = "tail"]
  /\ UNCHANGED <<msg, counter, waker, up, known, history, faults>>

AskForReview ==
  /\ up /\ run.pc = "returned" /\ reviews < MaxReviews
  /\ task' = [task EXCEPT !.st = "review"]
  /\ run' = NoRun
  /\ reviews' = reviews + 1
  /\ UNCHANGED <<msg, counter, waker, up, known, heard, woken, stalled, faults>>

(* cancel_task of a Task that waits for a human: there is no run to stop.  *)
CancelReview ==
  /\ up /\ task.st = "review" /\ ~HasRun /\ Fault("cancel")
  /\ task' = [task EXCEPT !.st = "settled"]
  /\ UNCHANGED <<msg, counter, run, waker, up, known, history>>

(* Notices and webhooks of the settled run are out: its handle is done.    *)
EndTail ==
  /\ up /\ run.pc = "tail"
  /\ run' = NoRun
  /\ UNCHANGED <<msg, counter, task, waker, up, known, history, faults>>

----------------------------------------------------------------------------
Crash ==
  /\ up /\ Fault("crash")
  /\ up' = FALSE /\ run' = NoRun /\ waker' = Asleep
  /\ UNCHANGED <<msg, counter, task, known, history>>

(* A running Task is interrupted; the Agents come from the configuration.  *)
Restart ==
  /\ ~up /\ up' = TRUE
  /\ task' = IF task.st = "running" THEN [task EXCEPT !.st = "settled"] ELSE task
  /\ \/ known' = TRUE /\ UNCHANGED faults
     \/ Fault("unknown") /\ known' = FALSE
  /\ UNCHANGED <<msg, counter, run, waker, history>>

Next ==
  \/ \E m \in Message : Publish(m) \/ PublishNote(m) \/ Retract(m) \/ LapseDead(m)
  \/ Stall \/ RecoverClaims \/ BeginWake \/ AdmitWake \/ RejectWake \/ ResumeReview
  \/ ModelBoundary \/ GraphReturns \/ GraphFails \/ Settle \/ AskForReview \/ EndTail
  \/ AgentMissing \/ CancelReview
  \/ Crash \/ Restart

Spec == Init /\ [][Next]_vars

(* The loop, the tick and the clock go on, a run ends, and a process that  *)
(* died is started again.  Nobody has to send, retract or decide.          *)
Fairness ==
  /\ \A m \in Message : WF_vars(LapseDead(m))
  /\ WF_vars(RecoverClaims) /\ WF_vars(BeginWake)
  /\ WF_vars(AdmitWake) /\ WF_vars(RejectWake)
  /\ WF_vars(ModelBoundary) /\ WF_vars(GraphReturns)
  /\ WF_vars(AgentMissing) /\ WF_vars(Settle) /\ WF_vars(EndTail) /\ WF_vars(Restart)

LiveSpec == Spec /\ Fairness

----------------------------------------------------------------------------
(* Types, and what ties the rows to the counter and the run to the Task.   *)
TypeOK ==
  /\ msg \in [Message -> [st : {"absent", "pending", "claimed", "delivered", "retracted"},
                          seq : 0..Cardinality(Message), by : Nat, live : BOOLEAN]]
  /\ counter = Cardinality({m \in Message : msg[m].seq > 0})
  /\ \A m \in Message : (msg[m].st = "absent") = (msg[m].seq = 0)
  /\ task \in [st : {"settled", "running", "review"}, run : Nat, wm : 0..counter]
  /\ run.pc \in {"none", "admitted", "graph", "returned", "tail"}
  /\ HasRun => task.st = (IF run.pc = "tail" THEN "settled" ELSE "running")
  /\ up /\ task.st = "running" => HasRun
  /\ waker.pc # "none" => task.st = "settled" /\ ~HasRun

(* A message is part of one successful turn: no two runs that returned     *)
(* have read it, and it is acknowledged when, and only when, one has       *)
(* (execute's acknowledge_run and the claim of the model boundary), as long *)
(* as no lease has run out under a live run.  The claims stay of their     *)
(* types throughout.                                                       *)
HeardOnce ==
  TypeOK /\ (~stalled => \A m \in Message :
    /\ heard[m] <= 1
    /\ msg[m].st = "delivered" => heard[m] = 1
    /\ m \in Input /\ heard[m] = 1 => msg[m].st = "delivered")

(* The mailbox wakes the Task at most once for each message there ever     *)
(* was, however the runs it wakes end: no message is retried without end   *)
(* (the watermark of _ensure_task_awake and mark_running).                 *)
WakesAreBounded == woken <= counter

(* What was delivered or retracted stays so: a late release or expiry of   *)
(* the claim does not bring it back (release_claim_tokens, retract_settled).*)
ClosedIsFinal ==
  [][\A m \in Message : msg[m].st \in {"delivered", "retracted"} => msg'[m] = msg[m]]_vars

(* A message that no admission has covered yet is read, retracted or       *)
(* covered by one, unless the Task waits for a human for ever: also when   *)
(* it arrives while a run is ending, and when the process dies before or   *)
(* after it was claimed.                                                   *)
Uncovered(m) == msg[m].st \in {"pending", "claimed"} /\ msg[m].seq > task.wm

TriggerIsUsed ==
  \A m \in Message : Uncovered(m) ~> (~Uncovered(m) \/ task.st = "review")
=============================================================================
