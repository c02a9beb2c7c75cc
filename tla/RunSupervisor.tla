--------------------------- MODULE RunSupervisor ---------------------------
(***************************************************************************)
(* Local Task runs in one process: RunSupervisor and LiveRunRegistry, the  *)
(* run coroutine of TaskRuntime, the calls that start, cancel and reload   *)
(* Tasks, and the shutdown.                                                *)
(*                                                                         *)
(* The process is one asyncio event loop, so a step is what a coroutine or *)
(* a callback does between two suspensions.  The lifecycle and schedule    *)
(* locks are held across a suspension only while a failed admission is     *)
(* rolled back; every other critical section is one step.                  *)
(***************************************************************************)
EXTENDS Naturals, FiniteSets

CONSTANTS
  Task,      \* local Tasks
  Client,    \* asyncio tasks that call the runtime: requests, wakeups, tools
  MaxRun,    \* bound on run_count
  Faults     \* what may raise: saving a TaskRecord, the tail of a settled run

ASSUME ConstantsAssumption ==
  /\ MaxRun \in Nat
  /\ Faults \subseteq {"save", "tail"}

Run == 1..MaxRun

RecordState == {"pending", "running", "waiting_for_human", "settled", "cancelled", "interrupted"}
Resumable == {"settled", "cancelled", "interrupted"}      \* settled: completed or failed
Executing == {"pending", "running"}

\* The handle of a run.  It is ready until the event loop gives it its first
\* step; its payload is the Agent; its tail publishes the settlement inside the
\* try block and its handler does so in an except block; done, its callbacks
\* have yet to run.
Phase == {"none", "ready", "payload", "tail", "handler", "done"}
Handle == [phase : Phase, cancel : BOOLEAN, error : BOOLEAN]
NoHandle == [phase |-> "none", cancel |-> FALSE, error |-> FALSE]
Ready == [NoHandle EXCEPT !.phase = "ready"]

\* What a client is suspended in: the rollback of an admission, the wait for the
\* root budget lock, an external call (create holds that lock), or the run it
\* has cancelled.  The first holds a mutation permit, the others an operation
\* permit, an idle client none.
Place == {"rollback", "queued", "call", "create", "await"}
Suspended == [at : Place, task : Task, run : 0..MaxRun, cancel : BOOLEAN]
Idle == [at |-> "idle"]

VARIABLES
  record,    \* state and run_count of the TaskRecord
  handle,    \* the run handles
  owned,     \* RunSupervisor._runs: the run of the entry, 0 without one
  live,      \* LiveRunRegistry._runs: the run and its cancel_requested
  client,    \* where each client is
  shutdown,  \* how far _close_impl has come
  doomed     \* its snapshot of _runs

vars == <<record, handle, owned, live, client, shutdown, doomed>>

Shutdown == {"open", "operations", "grace", "gather", "closed"}

TypeOK ==
  /\ record \in [Task -> [state : RecordState, run : 0..MaxRun]]
  /\ handle \in [Task -> [Run -> Handle]]
  /\ owned \in [Task -> 0..MaxRun]
  /\ live \in [Task -> [run : 0..MaxRun, asked : BOOLEAN]]
  /\ client \in [Client -> Suspended \cup {Idle}]
  /\ shutdown \in Shutdown
  /\ doomed \in [Task -> 0..MaxRun]

-----------------------------------------------------------------------------
Unfinished(t, g) == handle[t][g].phase \notin {"none", "done"}
NotLive == [run |-> 0, asked |-> FALSE]

\* LiveRunRegistry.is_active and the test of schedule on RunSupervisor._runs.
IsActive(t) == live[t].run # 0 /\ Unfinished(t, live[t].run)
IsOwned(t) == owned[t] # 0 /\ Unfinished(t, owned[t])

At(c, places) == client[c].at \in places
Operations == {c \in Client : At(c, {"queued", "call", "create", "await"})}
RollingBack(t, g) ==
  \E c \in Client : At(c, {"rollback"}) /\ client[c].task = t /\ client[c].run = g
Locked == \E c \in Client : At(c, {"rollback"})
BudgetFree == \A c \in Client : ~At(c, {"create"})

\* _require_accepting, with the lifecycle lock free.
Admits == shutdown = "open" /\ ~Locked

SetState(t, s) == record' = [record EXCEPT ![t].state = s]
SetHandle(t, g, h) == handle' = [handle EXCEPT ![t][g] = h]
Suspend(c, place, t, g) ==
  client' = [client EXCEPT ![c] = [at |-> place, task |-> t, run |-> g, cancel |-> FALSE]]
Resume(c) == client' = [client EXCEPT ![c] = Idle]

Closing == <<shutdown, doomed>>

-----------------------------------------------------------------------------
(* Admission: RunSupervisor.schedule and its callers.                       *)

\* schedule creates the gated handle, mark_running saves the record and the
\* registry entry, and the gate opens, without a suspension.
Admit(t) ==
  LET g == record[t].run + 1
  IN /\ ~IsOwned(t) /\ ~IsActive(t) /\ g \in Run
     /\ record' = [record EXCEPT ![t] = [state |-> "running", run |-> g]]
     /\ live' = [live EXCEPT ![t] = [run |-> g, asked |-> FALSE]]
     /\ owned' = [owned EXCEPT ![t] = g]
     /\ SetHandle(t, g, Ready)

\* mark_running raises: record and registry are restored and the gated handle is
\* cancelled; the caller keeps its mutation permit and both locks until it ends.
FailAdmissionUncancelled(c, t) ==
  LET g == record[t].run + 1
  IN /\ ~IsOwned(t) /\ g \in Run
     /\ "save" \in Faults \/ IsActive(t)
     /\ SetHandle(t, g, Ready)
     /\ Suspend(c, "rollback", t, g)
     /\ UNCHANGED <<record, live, owned>>
FailAdmission(c, t) ==
  LET g == record[t].run + 1
  IN /\ ~IsOwned(t) /\ g \in Run
     /\ "save" \in Faults \/ IsActive(t)
     /\ SetHandle(t, g, [Ready EXCEPT !.cancel = TRUE])
     /\ Suspend(c, "rollback", t, g)
     /\ UNCHANGED <<record, live, owned>>

Schedule(c, t) ==
  \/ Admit(t) /\ Resume(c)
  \/ FailAdmission(c, t)

\* submit_review_decision resumes a reviewed run; send_task_input and
\* _ensure_task_awake start the next run of a settled Task.
StartRun(c, t) ==
  /\ At(c, {"idle"}) /\ Admits
  /\ \/ record[t].state = "waiting_for_human"
     \/ record[t].state \in Resumable /\ ~IsActive(t)
  /\ Schedule(c, t)
  /\ UNCHANGED Closing

\* _ensure_task_awake cannot find the Agent: the wakeup is a failed run, whose
\* settlement is published as an operation.
RejectWakeup(c, t) ==
  /\ At(c, {"idle"}) /\ Admits
  /\ record[t].state \in Resumable /\ ~IsActive(t) /\ record[t].run < MaxRun
  /\ record' = [record EXCEPT ![t] = [state |-> "settled", run |-> @.run + 1]]
  /\ Suspend(c, "call", t, 0)
  /\ UNCHANGED <<handle, owned, live, Closing>>

\* The root budget lock is free: the first run of a Task is admitted, or a
\* remote Task is created while the lock is held.
Spawn(c, t) ==
  \/ /\ record[t].state = "pending" /\ record[t].run = 0 /\ ~IsActive(t)
     /\ Schedule(c, t)
  \/ Suspend(c, "create", t, 0) /\ UNCHANGED <<record, handle, owned, live>>

SpawnTask(c, t) ==
  /\ At(c, {"idle"}) /\ Admits
  /\ IF BudgetFree THEN Spawn(c, t)
     ELSE Suspend(c, "queued", t, 0) /\ UNCHANGED <<record, handle, owned, live>>
  /\ UNCHANGED Closing

\* wait_for_lock has the lock and asks to be admitted again.
TakeTurn(c) ==
  /\ At(c, {"queued"}) /\ BudgetFree /\ Admits /\ ~client[c].cancel
  /\ Spawn(c, client[c].task)
  /\ UNCHANGED Closing

\* A call to another system, as an operation.
CallOut(c, t) ==
  /\ At(c, {"idle"}) /\ Admits
  /\ Suspend(c, "call", t, 0)
  /\ UNCHANGED <<record, handle, owned, live, Closing>>

\* The cancelled handle of a failed admission is gathered and the permit and
\* the locks are released.  The registry entry of the Task is dropped.
EndRollback(c) ==
  /\ At(c, {"rollback"})
  /\ LET t == client[c].task
         g == client[c].run
     IN /\ handle[t][g].phase = "done"
        /\ SetHandle(t, g, NoHandle)
        /\ live' = [live EXCEPT ![t] = NotLive]
  /\ Resume(c)
  /\ UNCHANGED <<record, owned, Closing>>

\* The answer arrives, the caller is cancelled, the turn comes too late or finds
\* the budget spent, or the awaited run is over: cleanup_operation needs the
\* lifecycle lock.
EndOperation(c) ==
  /\ c \in Operations /\ ~Locked
  /\ \/ client[c].cancel
     \/ At(c, {"call", "create"})
     \/ At(c, {"queued"}) /\ BudgetFree
     \/ At(c, {"await"}) /\ ~Unfinished(client[c].task, client[c].run)
  /\ Resume(c)
  /\ UNCHANGED <<record, handle, owned, live, Closing>>

\* The caller of a suspended client is cancelled.
CancelClient(c) ==
  /\ c \in Operations /\ ~client[c].cancel
  /\ client' = [client EXCEPT ![c].cancel = TRUE]
  /\ UNCHANGED <<record, handle, owned, live, Closing>>

-----------------------------------------------------------------------------
(* cancel_task.                                                             *)

\* LiveRunRegistry.request_cancel marks the entry and cancels its handle.
RequestMark(t) ==
  /\ live' = [live EXCEPT ![t].asked = TRUE]
  /\ UNCHANGED handle
RequestCancel(t) ==
  /\ live' = [live EXCEPT ![t].asked = TRUE]
  /\ handle' = [handle EXCEPT ![t][live[t].run].cancel = Unfinished(t, live[t].run)]

\* The assertion that the registry and the supervisor hold the same handle fails
\* if the entry was dropped: the call raises and leaves the run alone.
CancelTask(c, t) ==
  /\ At(c, {"idle"}) /\ Admits
  /\ record[t].state \in {"pending", "running", "waiting_for_human"}
  /\ IF IsOwned(t)
     THEN /\ live[t].run # 0 /\ RequestCancel(t)
          /\ IF live[t].run = owned[t] THEN Suspend(c, "await", t, owned[t]) ELSE UNCHANGED client
          /\ UNCHANGED record
     ELSE SetState(t, "cancelled") /\ UNCHANGED <<handle, live, client>>
  /\ UNCHANGED <<owned, Closing>>

\* load_by_parent_thread_id replaces the record of a Task without a live run by
\* the stored one, as after a restart.
Reload(t) ==
  /\ record[t].state \in Executing /\ ~IsActive(t)
  /\ SetState(t, "interrupted")
  /\ UNCHANGED <<handle, owned, live, client, Closing>>

-----------------------------------------------------------------------------
(* A run: _run_after_release, _run_agent_payload and the done callbacks.    *)

InPhase(t, g, phases) == handle[t][g].phase \in phases
Becomes(t, g, phase) == SetHandle(t, g, [handle[t][g] EXCEPT !.phase = phase, !.cancel = FALSE])
Raises(t, g) == SetHandle(t, g, [phase |-> "done", cancel |-> FALSE, error |-> TRUE])
Quietly == UNCHANGED <<owned, live, client, Closing>>

\* The body of a coroutine cancelled before its first step is never entered.  The
\* event loop is first in, first out: the callbacks of an earlier run precede it.
FirstStep(t, g) ==
  /\ InPhase(t, g, {"ready"})
  /\ \A h \in 1..(g - 1) : ~InPhase(t, h, {"done"})
  /\ Becomes(t, g, IF handle[t][g].cancel THEN "done" ELSE "payload")
  /\ UNCHANGED record /\ Quietly

\* mark_waiting_for_human, and nothing to publish.
PauseForReview(t, g) ==
  /\ InPhase(t, g, {"payload"}) /\ ~handle[t][g].cancel
  /\ SetState(t, "waiting_for_human")
  /\ Becomes(t, g, "done")
  /\ Quietly

\* mark_completed, or mark_failed for an unusable output.
FinishRun(t, g) ==
  /\ InPhase(t, g, {"payload"}) /\ ~handle[t][g].cancel
  /\ SetState(t, "settled")
  /\ Becomes(t, g, "tail")
  /\ Quietly

\* The Agent, a save or the tail raises: a run that is still running is failed
\* and published; after a settlement the exception is only logged.
FailRun(t, g) ==
  /\ InPhase(t, g, IF "tail" \in Faults THEN {"payload", "tail"} ELSE {"payload"})
  /\ ~handle[t][g].cancel
  /\ IF record[t].state = "running"
     THEN SetState(t, "settled") /\ Becomes(t, g, "handler")
     ELSE UNCHANGED record /\ Becomes(t, g, "done")
  /\ Quietly

\* mark_failed raises too.
FailSave(t, g) ==
  /\ InPhase(t, g, {"payload"}) /\ ~handle[t][g].cancel
  /\ "save" \in Faults /\ record[t].state = "running"
  /\ Raises(t, g)
  /\ UNCHANGED record /\ Quietly

\* The tail ends, or raises in the except block.
EndTail(t, g) ==
  /\ InPhase(t, g, {"tail", "handler"}) /\ ~handle[t][g].cancel
  /\ Becomes(t, g, "done")
  /\ UNCHANGED record /\ Quietly

FailTail(t, g) ==
  /\ InPhase(t, g, {"handler"}) /\ "tail" \in Faults
  /\ Raises(t, g)
  /\ UNCHANGED record /\ Quietly

\* _finalize_cancelled_run: an explicit cancellation is published.
CancelRun(t, g) ==
  /\ InPhase(t, g, {"payload", "tail", "handler"}) /\ handle[t][g].cancel
  /\ \/ /\ InPhase(t, g, {"payload", "tail"}) /\ record[t].state = "running"
        /\ SetState(t, IF live[t].asked THEN "cancelled" ELSE "interrupted")
        /\ Becomes(t, g, IF live[t].asked THEN "handler" ELSE "done")
     \/ /\ \/ InPhase(t, g, {"handler"}) \/ record[t].state # "running" \/ "save" \in Faults
        /\ Becomes(t, g, "done") /\ UNCHANGED record
  /\ Quietly

\* _finalize_interrupted of Task t; its save may raise.
Finalizations(t) ==
  IF record[t].state # "running" THEN {record[t]}
  ELSE {[record[t] EXCEPT !.state = "interrupted"]}
         \cup (IF "save" \in Faults THEN {record[t]} ELSE {})

\* discard_finished, then _run_finished: both look at the identity of the
\* handle, but a run that raised finalizes the Task whatever its current run is.
RunFinished(t, g) ==
  /\ InPhase(t, g, {"done"}) /\ ~RollingBack(t, g)
  /\ owned' = IF owned[t] = g THEN [owned EXCEPT ![t] = 0] ELSE owned
  /\ IF handle[t][g].error
     THEN /\ \E r \in Finalizations(t) : record' = [record EXCEPT ![t] = r]
          /\ live' = [live EXCEPT ![t] = NotLive]
     ELSE /\ live' = IF live[t].run = g THEN [live EXCEPT ![t] = NotLive] ELSE live
          /\ UNCHANGED record
  /\ SetHandle(t, g, NoHandle)
  /\ UNCHANGED <<client, Closing>>

-----------------------------------------------------------------------------
(* Shutdown: _close_impl.                                                   *)

CancelNothing(cs) == client
CancelOperations(cs) == [c \in Client |-> IF c \in cs THEN [client[c] EXCEPT !.cancel = TRUE]
                                          ELSE client[c]]

\* No more admissions, and every operation is cancelled.
CloseBegins ==
  /\ shutdown = "open" /\ ~Locked
  /\ shutdown' = "operations"
  /\ client' = CancelOperations(Operations)
  /\ UNCHANGED <<record, handle, owned, live, doomed>>

\* The operations have ended and no mutation is left: the runs are listed.
CloseDrainsMutations ==
  /\ shutdown = "operations"
  /\ ~Locked
  /\ shutdown' = "grace"
  /\ doomed' = owned
  /\ UNCHANGED <<record, handle, owned, live, client>>
CloseDrains ==
  /\ shutdown = "operations"
  /\ Operations = {} /\ ~Locked
  /\ shutdown' = "grace"
  /\ doomed' = owned
  /\ UNCHANGED <<record, handle, owned, live, client>>

\* The runs have ended or the grace period has: what is left is cancelled.
CloseCancels ==
  /\ shutdown = "grace"
  /\ shutdown' = "gather"
  /\ handle' = [t \in Task |-> [g \in Run |->
                  IF g = doomed[t] /\ Unfinished(t, g)
                  THEN [handle[t][g] EXCEPT !.cancel = TRUE] ELSE handle[t][g]]]
  /\ UNCHANGED <<record, owned, live, client, doomed>>

\* Every listed run is gathered, finalized and dropped from the registry.
CloseEnds ==
  /\ shutdown = "gather"
  /\ \A t \in Task : doomed[t] # 0 => InPhase(t, doomed[t], {"none"})
  /\ shutdown' = "closed"
  /\ record' \in [Task -> [state : RecordState, run : 0..MaxRun]]
  /\ \A t \in Task : record'[t] \in (IF doomed[t] = 0 THEN {record[t]} ELSE Finalizations(t))
  /\ live' = [t \in Task |-> IF doomed[t] = 0 THEN live[t] ELSE NotLive]
  /\ owned' = [t \in Task |-> 0]
  /\ UNCHANGED <<handle, client, doomed>>

-----------------------------------------------------------------------------
Init ==
  /\ record = [t \in Task |-> [state |-> "pending", run |-> 0]]
  /\ handle = [t \in Task |-> [g \in Run |-> NoHandle]]
  /\ owned = [t \in Task |-> 0]
  /\ live = [t \in Task |-> NotLive]
  /\ client = [c \in Client |-> Idle]
  /\ shutdown = "open"
  /\ doomed = [t \in Task |-> 0]

Call ==
  \E c \in Client, t \in Task : \/ SpawnTask(c, t) \/ StartRun(c, t) \/ RejectWakeup(c, t)
                                \/ CallOut(c, t) \/ CancelTask(c, t)
Continue(c) == TakeTurn(c) \/ EndRollback(c) \/ EndOperation(c)

Execute(t, g) ==
  \/ FirstStep(t, g) \/ PauseForReview(t, g) \/ FinishRun(t, g) \/ FailRun(t, g)
  \/ FailSave(t, g) \/ EndTail(t, g) \/ FailTail(t, g) \/ CancelRun(t, g) \/ RunFinished(t, g)

Close == CloseBegins \/ CloseDrains \/ CloseCancels \/ CloseEnds

Next ==
  \/ Call \/ Close
  \/ \E c \in Client : Continue(c) \/ CancelClient(c)
  \/ \E t \in Task : Reload(t) \/ \E g \in Run : Execute(t, g)

Spec == Init /\ [][Next]_vars

\* The event loop runs whatever is ready; an Agent honours a cancellation and a
\* tail ends, but neither a payload nor an external call need ever end by itself.
\* An asyncio lock is handed to its waiters in turn, so that a call which others
\* overtake does end.
Fairness ==
  /\ \A t \in Task, g \in Run :
       /\ WF_vars(FirstStep(t, g)) /\ WF_vars(CancelRun(t, g))
       /\ WF_vars(EndTail(t, g)) /\ WF_vars(RunFinished(t, g))
  /\ \A c \in Client : /\ WF_vars(EndRollback(c))
                       /\ SF_vars(~At(c, {"call", "create"}) /\ EndOperation(c))
                       /\ SF_vars(client[c] # Idle /\ client[c].cancel /\ EndOperation(c))
  /\ WF_vars(CloseDrains) /\ WF_vars(CloseCancels) /\ WF_vars(CloseEnds)
LiveSpec == Spec /\ Fairness

-----------------------------------------------------------------------------
(* Properties.                                                              *)

\* A Task never has two runs in progress, whatever calls compete for it, and
\* even when a callback of an earlier run has dropped its registry entry.
OneRunPerTask ==
  \A t \in Task, g, h \in Run : Unfinished(t, g) /\ Unfinished(t, h) => g = h

\* A run that executes was saved before and is owned, so that a shutdown finds
\* it; the payload of a failed admission is never entered; and no other run of
\* the Task is in progress beside it.
ExecutionIsOwned ==
  /\ TypeOK /\ OneRunPerTask
  /\ \A t \in Task, g \in Run :
       InPhase(t, g, {"payload", "tail", "handler"}) => owned[t] = g /\ g <= record[t].run

\* Once the shutdown has ended nothing executes, nothing is admitted, no call is
\* suspended in the runtime and no handle is left in the registry.
ClosedIsQuiet ==
  shutdown = "closed" => /\ \A t \in Task : live[t] = NotLive /\ handle[t] = [g \in Run |-> NoHandle]
                         /\ \A c \in Client : client[c] = Idle

\* A shutdown that has begun ends, whatever calls, failed admissions and runs it
\* meets: external calls and payloads that would never end are cancelled.
CloseCompletes == shutdown = "operations" ~> shutdown = "closed"

\* cancel_task returns: the run it has cancelled ends.
CancelCompletes == \A c \in Client : At(c, {"await"}) ~> ~At(c, {"await"})
=============================================================================
