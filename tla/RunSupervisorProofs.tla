------------------------- MODULE RunSupervisorProofs -------------------------
(***************************************************************************)
(* Proofs about the runs of Tasks and about who follows them: of           *)
(* RunSupervisor, for any Tasks and clients, any bound on the runs of a    *)
(* Task and any faults; and, in the second half, of TaskEventStream, for   *)
(* any clients, batch and queue sizes and any bounds.                      *)
(***************************************************************************)
EXTENDS RunSupervisor, TaskEventStream, FiniteSetTheorems, WellFoundedInduction, TLAPS

RollsBack(c) == At(c, {"rollback"})
Present(t, g) == handle[t][g].phase # "none"

\* Only one admission is being rolled back at a time, under both locks.
OneRollback ==
  /\ \A c, d \in Client : RollsBack(c) /\ RollsBack(d) => c = d
  /\ \A c \in Client : RollsBack(c) => client[c].run \in Run

\* It is of the next run of a Task that has none, whose handle is cancelled
\* before its first step; a shutdown waits for it.
Gated(t, g) ==
  /\ g = record[t].run + 1
  /\ handle[t][g].phase \in {"ready", "done"}
  /\ handle[t][g].phase = "ready" => handle[t][g].cancel
  /\ ~IsOwned(t) /\ shutdown = "open"
RollbackIsGated == \A t \in Task, g \in Run : RollingBack(t, g) => Gated(t, g)

\* Any other handle is the owned one, or is done and older.
HandlesAreOwned ==
  \A t \in Task, g \in Run :
    Present(t, g) => \/ RollingBack(t, g)
                     \/ g = owned[t]
                     \/ g < owned[t] /\ handle[t][g].phase = "done"

\* An entry has a handle, and its run was saved.
EntriesAreSaved ==
  \A t \in Task : owned[t] <= record[t].run /\ \A g \in Run : owned[t] = g => Present(t, g)

\* The registry has the handle of the supervisor, or none.
LiveIsOwned == \A t \in Task : live[t] # NotLive => live[t].run = owned[t] /\ owned[t] # 0

\* A run is entered when the callbacks of the earlier ones have run.
InTurn ==
  \A t \in Task, g, h \in Run :
    handle[t][g].phase \notin {"none", "ready"} /\ h < g => ~Present(t, h)

\* A shutdown that has drained the calls knows every run.
ClosingKnows ==
  /\ shutdown \in {"grace", "gather", "closed"} => \A c \in Client : client[c] = Idle
  /\ shutdown \in {"grace", "gather"} => \A t \in Task : owned[t] \in {0, doomed[t]}
  /\ shutdown = "closed" => \A t \in Task : owned[t] = 0

NoneIsBlank == \A t \in Task, g \in Run : ~Present(t, g) => handle[t][g] = NoHandle

IInv ==
  /\ TypeOK /\ NoneIsBlank /\ OneRollback /\ RollbackIsGated /\ HandlesAreOwned
  /\ EntriesAreSaved /\ LiveIsOwned /\ InTurn /\ ClosingKnows

-----------------------------------------------------------------------------
(* What the operators write.                                                *)

Records == [state : RecordState, run : 0..MaxRun]
Handles == [Run -> Handle]

\* One handle is replaced.
LEMMA OneHandle ==
  ASSUME TypeOK, NEW t \in Task, NEW g, NEW h \in Handle, SetHandle(t, g, h)
  PROVE  /\ handle' \in [Task -> Handles]
         /\ \A s \in Task, k \in Run :
              handle'[s][k] = IF s = t /\ k = g THEN h ELSE handle[s][k]
BY DEF TypeOK, SetHandle, Handles

\* A change of state keeps the number of the run.
LEMMA OneState ==
  ASSUME TypeOK, NEW t \in Task, NEW s \in RecordState, SetState(t, s)
  PROVE  /\ record' \in [Task -> Records]
         /\ \A u \in Task : record'[u].run = record[u].run
BY DEF TypeOK, SetState, Records

LEMMA OneRecord ==
  ASSUME TypeOK, NEW t \in Task, NEW r \in Records, record' = [record EXCEPT ![t] = r]
  PROVE  /\ record' \in [Task -> Records]
         /\ \A u \in Task : record'[u] = IF u = t THEN r ELSE record[u]
BY DEF TypeOK, Records

LEMMA OneSuspended ==
  ASSUME TypeOK, NEW c \in Client, NEW place \in Place, NEW t \in Task, NEW g \in 0..MaxRun,
         Suspend(c, place, t, g)
  PROVE  /\ client' \in [Client -> Suspended \cup {Idle}]
         /\ client'[c] = [at |-> place, task |-> t, run |-> g, cancel |-> FALSE]
         /\ \A d \in Client \ {c} : client'[d] = client[d]
BY DEF TypeOK, Suspend, Suspended

LEMMA OneResumed ==
  ASSUME TypeOK, NEW c \in Client, Resume(c)
  PROVE  /\ client' \in [Client -> Suspended \cup {Idle}]
         /\ client'[c] = Idle
         /\ \A d \in Client \ {c} : client'[d] = client[d]
BY DEF TypeOK, Resume

LEMMA SuspendedClient ==
  ASSUME TypeOK, NEW c \in Client, client[c].at # "idle"
  PROVE  client[c] \in Suspended /\ client[c].task \in Task /\ client[c].run \in 0..MaxRun
BY DEF TypeOK, Suspended, Idle

LEMMA HandleValues ==
  /\ NoHandle \in Handle /\ NoHandle.phase = "none"
  /\ Ready \in Handle /\ Ready.phase = "ready"
  /\ \A h \in Handle : /\ [h EXCEPT !.cancel = TRUE] \in Handle
                       /\ [h EXCEPT !.cancel = TRUE].phase = h.phase
                       /\ [h EXCEPT !.cancel = TRUE].cancel
<1>1. NoHandle \in Handle /\ NoHandle.phase = "none"
  BY DEF NoHandle, Handle, Phase
<1>2. Ready \in Handle /\ Ready.phase = "ready"
  <2> HIDE DEF NoHandle
  <2> QED BY <1>1 DEF Ready, Handle, Phase
<1>3. ASSUME NEW h \in Handle
      PROVE  /\ [h EXCEPT !.cancel = TRUE] \in Handle
             /\ [h EXCEPT !.cancel = TRUE].phase = h.phase
             /\ [h EXCEPT !.cancel = TRUE].cancel
  BY DEF Handle
<1> QED BY <1>1, <1>2, <1>3

LEMMA RaisedHandle ==
  [phase |-> "done", cancel |-> FALSE, error |-> TRUE] \in Handle
BY DEF Handle, Phase

LEMMA PhaseSet ==
  ASSUME NEW h \in Handle, NEW p \in Phase
  PROVE  /\ [h EXCEPT !.phase = p, !.cancel = FALSE] \in Handle
         /\ [h EXCEPT !.phase = p, !.cancel = FALSE].phase = p
<1>1. [h EXCEPT !.phase = p] \in Handle /\ [h EXCEPT !.phase = p].phase = p
  BY DEF Handle
<1> DEFINE k == [h EXCEPT !.phase = p]
<1>2. [k EXCEPT !.cancel = FALSE] \in Handle /\ [k EXCEPT !.cancel = FALSE].phase = p
  <2> HIDE DEF k
  <2> QED BY <1>1 DEF Handle, k
<1> QED BY <1>2

LEMMA HandleBecomes ==
  ASSUME TypeOK, NEW t \in Task, NEW g \in Run, NEW p \in Phase, Becomes(t, g, p)
  PROVE  \E h \in Handle : h.phase = p /\ SetHandle(t, g, h)
<1>1. handle[t][g] \in Handle
  BY DEF TypeOK
<1> QED BY <1>1, PhaseSet DEF Becomes

\* Only the mark of a registry entry or of a handle changes.
LEMMA OneAsked ==
  ASSUME TypeOK, NEW t \in Task, live' = [live EXCEPT ![t].asked = TRUE]
  PROVE  /\ live' \in [Task -> [run : 0..MaxRun, asked : BOOLEAN]]
         /\ \A u \in Task : live'[u].run = live[u].run
         /\ \A u \in Task \ {t} : live'[u] = live[u]
<1>1. live \in [Task -> [run : 0..MaxRun, asked : BOOLEAN]]
  BY DEF TypeOK
<1>2. live[t] \in [run : 0..MaxRun, asked : BOOLEAN]
  BY <1>1
<1>3. /\ [live[t] EXCEPT !.asked = TRUE] \in [run : 0..MaxRun, asked : BOOLEAN]
      /\ [live[t] EXCEPT !.asked = TRUE].run = live[t].run
  BY <1>2
<1>4. live' = [live EXCEPT ![t] = [live[t] EXCEPT !.asked = TRUE]]
  OBVIOUS
<1> QED BY <1>1, <1>3, <1>4

LEMMA OneFlag ==
  ASSUME TypeOK, NEW t \in Task, NEW k \in Run, NEW b \in BOOLEAN,
         handle' = [handle EXCEPT ![t][k].cancel = b]
  PROVE  /\ handle' \in [Task -> Handles]
         /\ \A u \in Task, g \in Run :
              /\ handle'[u][g].phase = handle[u][g].phase
              /\ u # t \/ g # k => handle'[u][g] = handle[u][g]
<1> DEFINE h == [handle[t][k] EXCEPT !.cancel = b]
<1>1. handle[t][k] \in Handle
  BY DEF TypeOK
<1>2. h \in Handle /\ h.phase = handle[t][k].phase
  BY <1>1 DEF Handle
<1>3. SetHandle(t, k, h)
  BY DEF SetHandle
<1> HIDE DEF h
<1>4. /\ handle' \in [Task -> Handles]
      /\ \A u \in Task, g \in Run : handle'[u][g] = IF u = t /\ g = k THEN h ELSE handle[u][g]
  BY <1>2, <1>3, OneHandle
<1> QED BY <1>2, <1>4

LEMMA FinalizedRecord ==
  ASSUME TypeOK, NEW t \in Task, NEW r \in Finalizations(t)
  PROVE  r \in Records /\ r.run = record[t].run
<1>1. record[t] \in Records
  BY DEF TypeOK, Records
<1>2. r = record[t] \/ r = [record[t] EXCEPT !.state = "interrupted"]
  BY DEF Finalizations
<1> QED BY <1>1, <1>2 DEF Records, RecordState

-----------------------------------------------------------------------------
(* Types.                                                                   *)

LEMMA AdmissionTypes ==
  ASSUME TypeOK, NEW c \in Client, NEW t \in Task, Schedule(c, t), UNCHANGED Closing
  PROVE  TypeOK'
<1>1. CASE Admit(t) /\ Resume(c)
  <2> DEFINE g == record[t].run + 1
  <2>1. g \in Run /\ g \in 0..MaxRun
    BY <1>1 DEF Admit, Run
  <2>2. [state |-> "running", run |-> g] \in Records
    BY <2>1 DEF Records, RecordState
  <2>3. [run |-> g, asked |-> FALSE] \in [run : 0..MaxRun, asked : BOOLEAN]
    BY <2>1
  <2>4. /\ SetHandle(t, g, Ready) /\ owned' = [owned EXCEPT ![t] = g]
        /\ record' = [record EXCEPT ![t] = [state |-> "running", run |-> g]]
        /\ live' = [live EXCEPT ![t] = [run |-> g, asked |-> FALSE]]
    BY <1>1 DEF Admit
  <2> HIDE DEF g
  <2>5. record' \in [Task -> Records]
    BY <2>2, <2>4, OneRecord
  <2>6. handle' \in [Task -> Handles]
    BY <2>4, HandleValues, OneHandle
  <2>7. owned' \in [Task -> 0..MaxRun] /\ live' \in [Task -> [run : 0..MaxRun, asked : BOOLEAN]]
    BY <2>1, <2>3, <2>4 DEF TypeOK
  <2>8. client' \in [Client -> Suspended \cup {Idle}]
    BY <1>1, OneResumed
  <2> QED BY <2>5, <2>6, <2>7, <2>8 DEF TypeOK, Records, Handles, Closing
<1>2. CASE FailAdmission(c, t)
  <2> DEFINE g == record[t].run + 1
  <2>1. g \in Run /\ g \in 0..MaxRun
    BY <1>2 DEF FailAdmission, Run
  <2>2. SetHandle(t, g, [Ready EXCEPT !.cancel = TRUE]) /\ Suspend(c, "rollback", t, g)
    BY <1>2 DEF FailAdmission
  <2> HIDE DEF g
  <2>3. handle' \in [Task -> Handles]
    BY <2>2, HandleValues, OneHandle
  <2>4. client' \in [Client -> Suspended \cup {Idle}]
    BY <2>1, <2>2, OneSuspended DEF Place
  <2> QED BY <1>2, <2>3, <2>4 DEF FailAdmission, TypeOK, Handles, Closing
<1> QED BY <1>1, <1>2 DEF Schedule

\* A client is suspended or resumed, and nothing else changes.
LEMMA ClientTypes ==
  ASSUME TypeOK, UNCHANGED <<record, handle, owned, live, Closing>>,
         NEW c \in Client, NEW t \in Task, NEW place \in Place,
         Suspend(c, place, t, 0) \/ Resume(c)
  PROVE  TypeOK'
<1>1. 0 \in 0..MaxRun
  BY ConstantsAssumption
<1>2. client' \in [Client -> Suspended \cup {Idle}]
  BY <1>1, OneSuspended, OneResumed
<1> QED BY <1>2 DEF TypeOK, Closing

LEMMA SpawnTypes ==
  ASSUME TypeOK, NEW c \in Client, NEW t \in Task, Spawn(c, t), UNCHANGED Closing
  PROVE  TypeOK'
<1>1. CASE Schedule(c, t)
  BY <1>1, AdmissionTypes
<1>2. CASE Suspend(c, "create", t, 0) /\ UNCHANGED <<record, handle, owned, live>>
  BY <1>2, ClientTypes DEF Place
<1> QED BY <1>1, <1>2 DEF Spawn

LEMMA CallTypes ==
  ASSUME TypeOK, NEW c \in Client, NEW t \in Task,
         \/ SpawnTask(c, t) \/ StartRun(c, t) \/ RejectWakeup(c, t)
         \/ CallOut(c, t) \/ CancelTask(c, t)
  PROVE  TypeOK'
<1>1. CASE SpawnTask(c, t)
  <2>1. CASE Spawn(c, t)
    BY <1>1, <2>1, SpawnTypes DEF SpawnTask
  <2>2. CASE Suspend(c, "queued", t, 0) /\ UNCHANGED <<record, handle, owned, live>>
    BY <1>1, <2>2, ClientTypes DEF SpawnTask, Place
  <2> QED BY <1>1, <2>1, <2>2 DEF SpawnTask
<1>2. CASE StartRun(c, t)
  BY <1>2, AdmissionTypes DEF StartRun
<1>3. CASE RejectWakeup(c, t)
  <2> DEFINE r == [state |-> "settled", run |-> record[t].run + 1]
  <2>1. record[t].run \in 0..MaxRun /\ record[t].run < MaxRun /\ 0 \in 0..MaxRun
    BY <1>3, ConstantsAssumption DEF TypeOK, RejectWakeup
  <2>a. record[t].run + 1 \in 0..MaxRun
    BY <2>1, ConstantsAssumption
  <2>2. r \in Records
    BY <2>a DEF Records, RecordState
  <2>3. record' = [record EXCEPT ![t] = r] /\ Suspend(c, "call", t, 0)
    BY <1>3 DEF RejectWakeup
  <2> HIDE DEF r
  <2>4. record' \in [Task -> Records]
    BY <2>2, <2>3, OneRecord
  <2>5. client' \in [Client -> Suspended \cup {Idle}]
    BY <2>1, <2>3, OneSuspended DEF Place
  <2> QED BY <1>3, <2>4, <2>5 DEF RejectWakeup, TypeOK, Records, Closing
<1>4. CASE CallOut(c, t)
  BY <1>4, ClientTypes DEF CallOut, Place
<1>5. CASE CancelTask(c, t)
  <2>1. CASE IsOwned(t)
    <3> DEFINE k == live[t].run
    <3>1. k \in Run
      BY <1>5, <2>1, ConstantsAssumption DEF TypeOK, CancelTask, Run
    <3>2. live' \in [Task -> [run : 0..MaxRun, asked : BOOLEAN]]
      BY <1>5, <2>1, OneAsked DEF CancelTask, RequestCancel
    <3>3. handle' \in [Task -> Handles]
      <4>1. handle' = [handle EXCEPT ![t][k].cancel = Unfinished(t, k)]
        BY <1>5, <2>1 DEF CancelTask, RequestCancel
      <4>2. Unfinished(t, k) \in BOOLEAN
        BY DEF Unfinished
      <4> HIDE DEF k
      <4> QED BY <3>1, <4>1, <4>2, OneFlag
    <3>4. client' \in [Client -> Suspended \cup {Idle}]
      <4>1. Suspend(c, "await", t, owned[t]) \/ UNCHANGED client
        BY <1>5, <2>1 DEF CancelTask
      <4>2. owned[t] \in 0..MaxRun /\ "await" \in Place
        BY DEF TypeOK, Place
      <4> QED BY <4>1, <4>2, OneSuspended DEF TypeOK
    <3> QED BY <1>5, <2>1, <3>2, <3>3, <3>4 DEF CancelTask, TypeOK, Handles, Closing
  <2>2. CASE ~IsOwned(t)
    <3>1. record' \in [Task -> Records]
      BY <1>5, <2>2, OneState DEF CancelTask, RecordState
    <3> QED BY <1>5, <2>2, <3>1 DEF CancelTask, TypeOK, Records, Closing
  <2> QED BY <2>1, <2>2
<1> QED BY <1>1, <1>2, <1>3, <1>4, <1>5

LEMMA ContinueTypes ==
  ASSUME TypeOK, NEW c \in Client, Continue(c) \/ CancelClient(c)
  PROVE  TypeOK'
<1>1. CASE TakeTurn(c)
  <2>1. client[c].task \in Task
    BY <1>1, SuspendedClient DEF TakeTurn, At
  <2> QED BY <1>1, <2>1, SpawnTypes DEF TakeTurn
<1>2. CASE EndRollback(c)
  <2> DEFINE t == client[c].task
             g == client[c].run
  <2>1. t \in Task
    BY <1>2, SuspendedClient DEF EndRollback, At
  <2>2. SetHandle(t, g, NoHandle) /\ live' = [live EXCEPT ![t] = NotLive] /\ Resume(c)
    BY <1>2 DEF EndRollback
  <2> HIDE DEF t, g
  <2>3. handle' \in [Task -> Handles]
    BY <2>1, <2>2, HandleValues, OneHandle
  <2>4. NotLive \in [run : 0..MaxRun, asked : BOOLEAN]
    BY ConstantsAssumption DEF NotLive
  <2>5. live' \in [Task -> [run : 0..MaxRun, asked : BOOLEAN]]
    BY <2>2, <2>4 DEF TypeOK
  <2>6. client' \in [Client -> Suspended \cup {Idle}]
    BY <2>2, OneResumed
  <2> QED BY <1>2, <2>3, <2>5, <2>6 DEF EndRollback, TypeOK, Handles, Closing
<1>3. CASE EndOperation(c)
  <2>1. client' \in [Client -> Suspended \cup {Idle}]
    BY <1>3, OneResumed DEF EndOperation
  <2> QED BY <1>3, <2>1 DEF EndOperation, TypeOK, Closing
<1>4. CASE CancelClient(c)
  <2>1. client[c] \in Suspended
    BY <1>4, SuspendedClient DEF CancelClient, Operations, At
  <2>2. [client[c] EXCEPT !.cancel = TRUE] \in Suspended
    BY <2>1 DEF Suspended
  <2>3. client' = [client EXCEPT ![c] = [client[c] EXCEPT !.cancel = TRUE]]
    BY <1>4 DEF CancelClient
  <2>4. client' \in [Client -> Suspended \cup {Idle}]
    BY <2>2, <2>3 DEF TypeOK
  <2> QED BY <1>4, <2>4 DEF CancelClient, TypeOK, Closing
<1> QED BY <1>1, <1>2, <1>3, <1>4 DEF Continue

\* The record of a Task and the handle of one of its runs.
LEMMA PhaseTypes ==
  ASSUME TypeOK, NEW t \in Task, NEW g, Quietly,
         UNCHANGED record \/ \E s \in RecordState : SetState(t, s),
         UNCHANGED handle \/ \E h \in Handle : SetHandle(t, g, h)
  PROVE  TypeOK'
<1>1. record' \in [Task -> Records]
  BY OneState DEF TypeOK, Records
<1>2. handle' \in [Task -> Handles]
  BY OneHandle DEF TypeOK, Handles
<1> QED BY <1>1, <1>2 DEF TypeOK, Quietly, Closing, Records, Handles

LEMMA ExecuteTypes ==
  ASSUME TypeOK, NEW t \in Task, NEW g \in Run, Execute(t, g)
  PROVE  TypeOK'
<1> USE HandleBecomes DEF Phase, RecordState
<1>1. CASE FirstStep(t, g)
  BY <1>1, PhaseTypes DEF FirstStep
<1>2. CASE PauseForReview(t, g)
  BY <1>2, PhaseTypes DEF PauseForReview
<1>3. CASE FinishRun(t, g)
  BY <1>3, PhaseTypes DEF FinishRun
<1>4. CASE FailRun(t, g)
  BY <1>4, PhaseTypes DEF FailRun
<1>5. CASE FailSave(t, g)
  BY <1>5, RaisedHandle, PhaseTypes DEF FailSave, Raises
<1>6. CASE EndTail(t, g)
  BY <1>6, PhaseTypes DEF EndTail
<1>7. CASE FailTail(t, g)
  BY <1>7, RaisedHandle, PhaseTypes DEF FailTail, Raises
<1>8. CASE CancelRun(t, g)
  BY <1>8, PhaseTypes DEF CancelRun
<1>9. CASE RunFinished(t, g)
  <2>1. handle' \in [Task -> Handles]
    BY <1>9, HandleValues, OneHandle DEF RunFinished
  <2>2. record' \in [Task -> Records]
    BY <1>9, FinalizedRecord, OneRecord DEF RunFinished, TypeOK, Records
  <2>3. NotLive \in [run : 0..MaxRun, asked : BOOLEAN] /\ 0 \in 0..MaxRun
    BY ConstantsAssumption DEF NotLive
  <2>4. live' \in [Task -> [run : 0..MaxRun, asked : BOOLEAN]]
    <3>1. live' = live \/ live' = [live EXCEPT ![t] = NotLive]
      BY <1>9 DEF RunFinished
    <3> QED BY <2>3, <3>1 DEF TypeOK
  <2>5. owned' \in [Task -> 0..MaxRun]
    BY <1>9, <2>3 DEF RunFinished, TypeOK
  <2> QED BY <1>9, <2>1, <2>2, <2>4, <2>5 DEF RunFinished, TypeOK, Closing, Handles, Records
<1> QED BY <1>1, <1>2, <1>3, <1>4, <1>5, <1>6, <1>7, <1>8, <1>9 DEF Execute

LEMMA CloseTypes ==
  ASSUME TypeOK, Close
  PROVE  TypeOK'
<1>1. CASE CloseBegins
  <2>1. ASSUME NEW c \in Operations
        PROVE  [client[c] EXCEPT !.cancel = TRUE] \in Suspended
    <3>1. client[c] \in Suspended
      BY <2>1, SuspendedClient DEF Operations, At
    <3> QED BY <3>1 DEF Suspended
  <2>2. client' \in [Client -> Suspended \cup {Idle}]
    BY <1>1, <2>1 DEF CloseBegins, CancelOperations, TypeOK
  <2> QED BY <1>1, <2>2 DEF CloseBegins, TypeOK, Shutdown
<1>2. CASE CloseDrains
  BY <1>2 DEF CloseDrains, TypeOK, Shutdown
<1>3. CASE CloseCancels
  <2>1. ASSUME NEW t \in Task, NEW g \in Run
        PROVE  handle[t][g] \in Handle /\ [handle[t][g] EXCEPT !.cancel = TRUE] \in Handle
    BY HandleValues DEF TypeOK
  <2>2. handle' \in [Task -> Handles]
    BY <1>3, <2>1 DEF CloseCancels, Handles
  <2> QED BY <1>3, <2>2 DEF CloseCancels, TypeOK, Shutdown, Handles
<1>4. CASE CloseEnds
  <2>1. NotLive \in [run : 0..MaxRun, asked : BOOLEAN] /\ 0 \in 0..MaxRun
    BY ConstantsAssumption DEF NotLive
  <2> QED BY <1>4, <2>1 DEF CloseEnds, TypeOK, Shutdown
<1> QED BY <1>1, <1>2, <1>3, <1>4 DEF Close

LEMMA TypesStay ==
  ASSUME TypeOK, [Next]_vars
  PROVE  TypeOK'
<1>1. CASE Call
  BY <1>1, CallTypes DEF Call
<1>2. CASE Close
  BY <1>2, CloseTypes
<1>3. CASE \E c \in Client : Continue(c) \/ CancelClient(c)
  BY <1>3, ContinueTypes
<1>4. CASE \E t \in Task : Reload(t)
  <2>1. PICK t \in Task : Reload(t)
    BY <1>4
  <2>2. record' \in [Task -> Records]
    BY <2>1, OneState DEF Reload, RecordState
  <2> QED BY <2>1, <2>2 DEF Reload, TypeOK, Closing, Records
<1>5. CASE \E t \in Task, g \in Run : Execute(t, g)
  BY <1>5, ExecuteTypes
<1>6. CASE UNCHANGED vars
  BY <1>6 DEF vars, TypeOK
<1> QED BY <1>1, <1>2, <1>3, <1>4, <1>5, <1>6 DEF Next

-----------------------------------------------------------------------------
(* Steps that neither begin nor end a run.                                  *)

\* What a rollback rests on stays when the Task's handles keep their phases.
LEMMA KeepsPhases ==
  ASSUME IInv, TypeOK', owned' = owned, doomed' = doomed,
         \A t \in Task, g \in Run :
           /\ handle'[t][g].phase = handle[t][g].phase
           /\ handle[t][g].phase = "none" => handle'[t][g] = handle[t][g]
           /\ handle[t][g].phase = "ready" /\ handle[t][g].cancel => handle'[t][g].cancel,
         \A t \in Task : live'[t] # NotLive => live[t] # NotLive /\ live'[t].run = live[t].run,
         \A t \in Task : /\ record'[t].run >= record[t].run
                         /\ Locked => record'[t].run = record[t].run,
         \A c \in Client : RollsBack(c) \/ RollsBack(c)' => client'[c] = client[c],
         \/ shutdown' = shutdown
         \/ shutdown = "open" /\ ~Locked /\ shutdown' = "operations"
         \/ shutdown = "grace" /\ shutdown' = "gather",
         shutdown' \in {"grace", "gather", "closed"} => client' = client
  PROVE  IInv'
<1>1. \A c \in Client : RollsBack(c)' <=> RollsBack(c)
  BY DEF RollsBack, At
<1>2. \A t \in Task, g \in Run : RollingBack(t, g)' <=> RollingBack(t, g)
  BY <1>1 DEF RollingBack, RollsBack
<1>3. \A t \in Task, g \in Run : Present(t, g)' <=> Present(t, g)
  BY DEF Present
<1>4. \A t \in Task : IsOwned(t)' <=> IsOwned(t)
  BY DEF IsOwned, Unfinished, IInv, TypeOK, Run
<1>5. NoneIsBlank'
  BY <1>3 DEF IInv, NoneIsBlank, Present
<1>6. OneRollback'
  BY <1>1 DEF IInv, OneRollback, RollsBack, At
<1>7. RollbackIsGated'
  <2> SUFFICES ASSUME NEW t \in Task, NEW g \in Run, RollingBack(t, g)
               PROVE  Gated(t, g)'
    BY <1>2 DEF RollbackIsGated
  <2>1. Locked
    BY DEF Locked, RollingBack
  <2>2. Gated(t, g)
    BY DEF IInv, RollbackIsGated
  <2> QED BY <1>4, <2>1, <2>2 DEF Gated
<1>8. HandlesAreOwned'
  BY <1>2, <1>3 DEF IInv, HandlesAreOwned
<1>9. EntriesAreSaved'
  <2> SUFFICES ASSUME NEW t \in Task
               PROVE  owned'[t] <= record'[t].run /\ \A g \in Run : owned'[t] = g => Present(t, g)'
    BY DEF EntriesAreSaved
  <2>1. owned[t] <= record[t].run /\ \A g \in Run : owned[t] = g => Present(t, g)
    BY DEF IInv, EntriesAreSaved
  <2>2. /\ owned[t] \in 0..MaxRun /\ MaxRun \in Nat
        /\ record[t].run \in 0..MaxRun /\ record'[t].run \in 0..MaxRun
    BY ConstantsAssumption DEF IInv, TypeOK
  <2> QED BY <1>3, <2>1, <2>2
<1>10. LiveIsOwned'
  BY DEF IInv, LiveIsOwned
<1>11. InTurn'
  BY <1>3 DEF IInv, InTurn
<1>12. ClosingKnows'
  BY DEF IInv, ClosingKnows
<1> QED BY <1>5, <1>6, <1>7, <1>8, <1>9, <1>10, <1>11, <1>12 DEF IInv

\* A client that holds no lock is suspended or resumed before the shutdown has
\* drained the calls.
LEMMA ClientMoves ==
  ASSUME IInv, TypeOK', UNCHANGED <<handle, owned, live, Closing>>,
         NEW c \in Client, ~RollsBack(c), ~RollsBack(c)',
         \A d \in Client \ {c} : client'[d] = client[d],
         shutdown \in {"open", "operations"},
         \/ UNCHANGED record
         \/ ~Locked /\ \A t \in Task : record'[t].run >= record[t].run
  PROVE  IInv'
<1>1. \A t \in Task : /\ record'[t].run >= record[t].run
                      /\ Locked => record'[t].run = record[t].run
  BY DEF IInv, TypeOK
<1> QED BY <1>1, KeepsPhases DEF Closing

\* The record of a Task changes its state and nothing else changes.
LEMMA StateMoves ==
  ASSUME IInv, TypeOK', UNCHANGED <<handle, owned, live, client, Closing>>,
         NEW t \in Task, NEW s \in RecordState, SetState(t, s)
  PROVE  IInv'
<1>1. \A u \in Task : record'[u].run = record[u].run
  BY OneState DEF IInv
<1>2. \A u \in Task : /\ record'[u].run >= record[u].run
                      /\ Locked => record'[u].run = record[u].run
  BY <1>1 DEF IInv, TypeOK
<1> QED BY <1>2, KeepsPhases DEF Closing

\* Where a call or an operation stands, it is not being rolled back.
LEMMA NotRollingBack ==
  ASSUME TypeOK, NEW c \in Client
  PROVE  /\ At(c, {"idle"}) => ~RollsBack(c)
         /\ c \in Operations => ~RollsBack(c) /\ client[c] # Idle
         /\ ~Locked => ~RollsBack(c)
BY DEF At, Operations, RollsBack, Locked, Idle

LEMMA OperationsAreBefore ==
  ASSUME IInv, NEW c \in Operations
  PROVE  shutdown \in {"open", "operations"}
BY NotRollingBack DEF IInv, TypeOK, ClosingKnows, Shutdown, Operations

LEMMA SuspendsQuietly ==
  ASSUME TypeOK, NEW c \in Client, NEW t \in Task, NEW place \in Place \ {"rollback"},
         NEW g \in 0..MaxRun, Suspend(c, place, t, g) \/ Resume(c)
  PROVE  ~RollsBack(c)' /\ \A d \in Client \ {c} : client'[d] = client[d]
<1>1. CASE Suspend(c, place, t, g)
  <2>1. /\ client'[c] = [at |-> place, task |-> t, run |-> g, cancel |-> FALSE]
        /\ \A d \in Client \ {c} : client'[d] = client[d]
    BY <1>1, OneSuspended
  <2>2. client'[c].at = place
    BY <2>1
  <2> QED BY <2>1, <2>2 DEF RollsBack, At
<1>2. CASE Resume(c)
  BY <1>2, OneResumed DEF RollsBack, At, Idle
<1> QED BY <1>1, <1>2

LEMMA EndOperationKeeps ==
  ASSUME IInv, TypeOK', NEW c \in Client, EndOperation(c)
  PROVE  IInv'
<1>1. ~RollsBack(c) /\ shutdown \in {"open", "operations"}
  BY NotRollingBack, OperationsAreBefore DEF EndOperation, IInv
<1>2. ~RollsBack(c)' /\ \A d \in Client \ {c} : client'[d] = client[d]
  BY OneResumed DEF IInv, EndOperation, RollsBack, At, Idle
<1> QED BY <1>1, <1>2, ClientMoves DEF EndOperation

LEMMA CancelClientKeeps ==
  ASSUME IInv, TypeOK', NEW c \in Client, CancelClient(c)
  PROVE  IInv'
<1>1. ~RollsBack(c) /\ shutdown \in {"open", "operations"}
  BY NotRollingBack, OperationsAreBefore DEF CancelClient, IInv
<1>2. client[c] \in Suspended /\ client \in [Client -> Suspended \cup {Idle}]
  BY SuspendedClient DEF CancelClient, Operations, At, IInv, TypeOK
<1>3. /\ [client[c] EXCEPT !.cancel = TRUE].at = client[c].at
      /\ client' = [client EXCEPT ![c] = [client[c] EXCEPT !.cancel = TRUE]]
  BY <1>2 DEF Suspended, CancelClient
<1>4. ~RollsBack(c)' /\ \A d \in Client \ {c} : client'[d] = client[d]
  BY <1>1, <1>2, <1>3 DEF RollsBack, At
<1> QED BY <1>1, <1>4, ClientMoves DEF CancelClient

LEMMA RejectWakeupKeeps ==
  ASSUME IInv, TypeOK', NEW c \in Client, NEW t \in Task, RejectWakeup(c, t)
  PROVE  IInv'
<1>1. ~RollsBack(c) /\ ~Locked /\ shutdown = "open"
  BY NotRollingBack DEF RejectWakeup, Admits, IInv
<1>2. ~RollsBack(c)' /\ \A d \in Client \ {c} : client'[d] = client[d]
  BY ConstantsAssumption, SuspendsQuietly DEF RejectWakeup, IInv, Place
<1>3. \A u \in Task : record'[u].run >= record[u].run
  BY ConstantsAssumption DEF RejectWakeup, IInv, TypeOK
<1> QED BY <1>1, <1>2, <1>3, ClientMoves DEF RejectWakeup

\* A call, or the wait for the root budget lock, as an operation.
LEMMA OperationBegins ==
  ASSUME IInv, TypeOK', NEW c \in Client, NEW t \in Task, NEW place \in Place \ {"rollback"},
         Admits, Suspend(c, place, t, 0), UNCHANGED <<record, handle, owned, live, Closing>>
  PROVE  IInv'
<1>1. ~RollsBack(c) /\ shutdown = "open"
  BY NotRollingBack DEF Admits, IInv
<1>2. ~RollsBack(c)' /\ \A d \in Client \ {c} : client'[d] = client[d]
  BY ConstantsAssumption, SuspendsQuietly DEF IInv
<1> QED BY <1>1, <1>2, ClientMoves

LEMMA CancelTaskKeeps ==
  ASSUME IInv, TypeOK', NEW c \in Client, NEW t \in Task, CancelTask(c, t)
  PROVE  IInv'
<1>1. CASE ~IsOwned(t)
  BY <1>1, StateMoves DEF CancelTask, RecordState
<1>2. CASE IsOwned(t)
  <2> DEFINE k == live[t].run
  <2>1. ~RollsBack(c) /\ ~Locked /\ shutdown = "open"
    BY NotRollingBack DEF CancelTask, Admits, IInv
  <2>2. k \in Run
    BY <1>2, ConstantsAssumption DEF CancelTask, IInv, TypeOK, Run
  <2>3. /\ live' = [live EXCEPT ![t].asked = TRUE]
        /\ handle' = [handle EXCEPT ![t][k].cancel = Unfinished(t, k)]
    BY <1>2 DEF CancelTask, RequestCancel
  <2>4. Unfinished(t, k) \in BOOLEAN
    BY DEF Unfinished
  <2>5. \A u \in Task, g \in Run :
          /\ handle'[u][g].phase = handle[u][g].phase
          /\ handle[u][g].phase = "none" => handle'[u][g] = handle[u][g]
          /\ handle[u][g].phase = "ready" /\ handle[u][g].cancel => handle'[u][g].cancel
    <3>1. /\ \A u \in Task, g \in Run :
               /\ handle'[u][g].phase = handle[u][g].phase
               /\ u # t \/ g # k => handle'[u][g] = handle[u][g]
          /\ Unfinished(t, k) => handle'[t][k].cancel
      <4>1. \A u \in Task, g \in Run :
              /\ handle'[u][g].phase = handle[u][g].phase
              /\ u # t \/ g # k => handle'[u][g] = handle[u][g]
        <5> HIDE DEF k
        <5> QED BY <2>2, <2>3, <2>4, OneFlag DEF IInv
      <4>2. ASSUME Unfinished(t, k) PROVE handle'[t][k].cancel
        <5>1. Unfinished(t, k) = TRUE
          BY <4>2 DEF Unfinished
        <5>2. handle' = [handle EXCEPT ![t][k].cancel = TRUE]
          BY <2>3, <5>1
        <5> HIDE DEF k
        <5> QED BY <2>2, <5>2 DEF IInv, TypeOK, Handle
      <4> QED BY <4>1, <4>2
    <3>2. Present(t, k)
      BY <1>2, <2>2 DEF CancelTask, IInv, LiveIsOwned, EntriesAreSaved, NotLive
    <3> QED BY <3>1, <3>2 DEF Present, Unfinished
  <2>6. \A u \in Task : live'[u] # NotLive => live[u] # NotLive /\ live'[u].run = live[u].run
    <3>1. live[t] # NotLive
      BY <1>2 DEF CancelTask, NotLive
    <3> QED BY <2>3, <3>1, OneAsked DEF IInv
  <2>7. \A d \in Client : ~RollsBack(d) /\ ~RollsBack(d)'
    <3>1. \A d \in Client : ~RollsBack(d)
      BY <2>1 DEF Locked, RollsBack
    <3>2. client' = client \/ Suspend(c, "await", t, owned[t])
      BY <1>2 DEF CancelTask
    <3>3. CASE Suspend(c, "await", t, owned[t])
      <4>1. owned[t] \in 0..MaxRun /\ "await" \in Place \ {"rollback"}
        BY DEF IInv, TypeOK, Place
      <4> QED BY <3>1, <3>3, <4>1, SuspendsQuietly DEF IInv, RollsBack, At
    <3> QED BY <3>1, <3>2, <3>3 DEF RollsBack, At
  <2>8. record' = record /\ owned' = owned /\ shutdown' = shutdown /\ doomed' = doomed
    BY <1>2 DEF CancelTask, Closing
  <2>9. \A u \in Task : record'[u].run >= record[u].run
    BY <2>8, ConstantsAssumption DEF IInv, TypeOK
  <2> QED BY <2>1, <2>5, <2>6, <2>7, <2>8, <2>9, KeepsPhases
<1> QED BY <1>1, <1>2

LEMMA CloseBeginsKeeps ==
  ASSUME IInv, TypeOK', CloseBegins
  PROVE  IInv'
<1>1. \A c \in Client : ~RollsBack(c)
  BY DEF CloseBegins, Locked, RollsBack
<1>2. ASSUME NEW c \in Client
      PROVE  ~RollsBack(c)'
  <2>1. CASE c \in Operations
    <3>1. client[c] \in Suspended
      BY <2>1, SuspendedClient DEF Operations, At, IInv
    <3>2. client'[c] = [client[c] EXCEPT !.cancel = TRUE]
      BY <2>1 DEF CloseBegins, CancelOperations
    <3>3. client'[c].at = client[c].at
      BY <3>1, <3>2 DEF Suspended
    <3> QED BY <1>1, <3>3 DEF RollsBack, At
  <2>2. CASE c \notin Operations
    BY <1>1, <2>2 DEF CloseBegins, CancelOperations, RollsBack, At
  <2> QED BY <2>1, <2>2
<1>3. \A t \in Task : record'[t].run >= record[t].run
  BY ConstantsAssumption DEF CloseBegins, IInv, TypeOK
<1> QED BY <1>1, <1>2, <1>3, KeepsPhases DEF CloseBegins

LEMMA CloseCancelsKeeps ==
  ASSUME IInv, TypeOK', CloseCancels
  PROVE  IInv'
<1>1. \A t \in Task, g \in Run :
        /\ handle'[t][g].phase = handle[t][g].phase
        /\ handle[t][g].phase = "none" => handle'[t][g] = handle[t][g]
        /\ handle[t][g].phase = "ready" /\ handle[t][g].cancel => handle'[t][g].cancel
  <2> SUFFICES ASSUME NEW t \in Task, NEW g \in Run
               PROVE  /\ handle'[t][g].phase = handle[t][g].phase
                      /\ handle[t][g].phase = "none" => handle'[t][g] = handle[t][g]
                      /\ handle[t][g].phase = "ready" /\ handle[t][g].cancel
                           => handle'[t][g].cancel
    OBVIOUS
  <2>1. \/ handle'[t][g] = handle[t][g]
        \/ Unfinished(t, g) /\ handle'[t][g] = [handle[t][g] EXCEPT !.cancel = TRUE]
    BY DEF CloseCancels
  <2>2. handle[t][g] \in Handle
    BY DEF IInv, TypeOK
  <2> QED BY <2>1, <2>2, HandleValues DEF Unfinished
<1>2. \A t \in Task : record'[t].run >= record[t].run
  BY ConstantsAssumption DEF CloseCancels, IInv, TypeOK
<1>3. /\ owned' = owned /\ doomed' = doomed /\ live' = live /\ client' = client
      /\ record' = record /\ shutdown = "grace" /\ shutdown' = "gather"
  BY DEF CloseCancels
<1> QED BY <1>1, <1>2, <1>3, KeepsPhases

-----------------------------------------------------------------------------
(* Admissions.                                                              *)

\* While no admission is rolled back, the next run is above every handle, and
\* the handles of a Task without an unfinished entry are done.
LEMMA NextRunIsAbove ==
  ASSUME IInv, ~Locked, NEW t \in Task, NEW g \in Run, Present(t, g)
  PROVE  /\ g < record[t].run + 1
         /\ ~IsOwned(t) => handle[t][g].phase = "done"
<1>1. g = owned[t] \/ (g < owned[t] /\ handle[t][g].phase = "done")
  BY DEF IInv, HandlesAreOwned, RollingBack, Locked
<1>2. owned[t] <= record[t].run /\ owned[t] \in 0..MaxRun /\ record[t].run \in 0..MaxRun
  BY DEF IInv, EntriesAreSaved, TypeOK
<1>3. g \in 1..MaxRun /\ MaxRun \in Nat
  BY ConstantsAssumption DEF Run
<1>4. g < record[t].run + 1
  BY <1>1, <1>2, <1>3
<1>5. ~IsOwned(t) => handle[t][g].phase = "done"
  BY <1>1, <1>3 DEF IsOwned, Unfinished, Present
<1> QED BY <1>4, <1>5

LEMMA AdmitKeeps ==
  ASSUME IInv, TypeOK', NEW c \in Client, NEW t \in Task, Admits, Admit(t), Resume(c),
         UNCHANGED Closing
  PROVE  IInv'
<1> DEFINE g == record[t].run + 1
<1>1. /\ g \in Run /\ ~IsOwned(t) /\ ~Locked /\ shutdown' = "open"
      /\ SetHandle(t, g, Ready) /\ owned' = [owned EXCEPT ![t] = g]
      /\ record' = [record EXCEPT ![t] = [state |-> "running", run |-> g]]
      /\ live' = [live EXCEPT ![t] = [run |-> g, asked |-> FALSE]]
  BY DEF Admit, Admits, Closing
<1>a. \A k \in Run : Present(t, k) => k < g /\ handle[t][k].phase = "done"
  BY <1>1, NextRunIsAbove
<1> HIDE DEF g
<1>2. \A s \in Task, k \in Run :
        handle'[s][k] = IF s = t /\ k = g THEN Ready ELSE handle[s][k]
  BY <1>1, HandleValues, OneHandle DEF IInv
<1>3. /\ owned'[t] = g /\ record'[t].run = g /\ live'[t].run = g
      /\ \A s \in Task \ {t} :
           owned'[s] = owned[s] /\ record'[s] = record[s] /\ live'[s] = live[s]
  BY <1>1 DEF IInv, TypeOK
<1>4. \A d \in Client : ~RollsBack(d) /\ ~RollsBack(d)'
  <2>1. client'[c] = Idle /\ \A d \in Client \ {c} : client'[d] = client[d]
    BY OneResumed DEF IInv
  <2> QED BY <1>1, <2>1 DEF Locked, RollsBack, At, Idle
<1>5. \A s \in Task, k \in Run : ~RollingBack(s, k) /\ ~RollingBack(s, k)'
  BY <1>4 DEF RollingBack, RollsBack
<1>6. \A s \in Task, k \in Run :
        Present(s, k)' <=> (Present(s, k) \/ (s = t /\ k = g))
  BY <1>2, HandleValues DEF Present
<1>7. g \in 1..MaxRun /\ MaxRun \in Nat
  BY <1>1, ConstantsAssumption DEF Run
<1>8. NoneIsBlank'
  BY <1>2, <1>6 DEF IInv, NoneIsBlank
<1>9. OneRollback' /\ RollbackIsGated'
  BY <1>4, <1>5 DEF OneRollback, RollbackIsGated
<1>10. HandlesAreOwned'
  <2> SUFFICES ASSUME NEW s \in Task, NEW k \in Run, Present(s, k)'
               PROVE  k = owned'[s] \/ (k < owned'[s] /\ handle'[s][k].phase = "done")
    BY DEF HandlesAreOwned
  <2>1. CASE s = t /\ k = g
    BY <1>3, <2>1
  <2>2. CASE s = t /\ k # g
    BY <1>a, <1>2, <1>3, <1>6, <2>2
  <2>3. CASE s # t
    BY <1>2, <1>3, <1>5, <1>6, <2>3 DEF IInv, HandlesAreOwned
  <2> QED BY <2>1, <2>2, <2>3
<1>11. EntriesAreSaved'
  <2> SUFFICES ASSUME NEW s \in Task
               PROVE  /\ owned'[s] <= record'[s].run
                      /\ \A k \in Run : owned'[s] = k => Present(s, k)'
    BY DEF EntriesAreSaved
  <2>1. CASE s = t
    BY <1>3, <1>6, <1>7, <2>1
  <2>2. CASE s # t
    BY <1>3, <1>6, <2>2 DEF IInv, EntriesAreSaved
  <2> QED BY <2>1, <2>2
<1>12. LiveIsOwned'
  BY <1>3, <1>7 DEF IInv, LiveIsOwned
<1>13. InTurn'
  <2> SUFFICES ASSUME NEW s \in Task, NEW k \in Run, NEW h \in Run, h < k,
                      handle'[s][k].phase \notin {"none", "ready"}
               PROVE  ~Present(s, h)'
    BY DEF InTurn
  <2>1. ~(s = t /\ k = g)
    BY <1>2, HandleValues
  <2>2. ~Present(s, h) /\ Present(s, k)
    BY <1>2, <2>1 DEF IInv, InTurn, Present
  <2>3. CASE s = t
    <3>1. k < g
      BY <1>a, <2>2, <2>3
    <3> QED BY <1>6, <1>7, <2>2, <3>1 DEF Run
  <2> QED BY <1>6, <2>2, <2>3
<1>14. ClosingKnows'
  BY <1>1 DEF ClosingKnows
<1> QED BY <1>8, <1>9, <1>10, <1>11, <1>12, <1>13, <1>14 DEF IInv

LEMMA FailAdmissionKeeps ==
  ASSUME IInv, TypeOK', NEW c \in Client, NEW t \in Task, Admits, FailAdmission(c, t),
         UNCHANGED Closing
  PROVE  IInv'
<1> DEFINE h == [Ready EXCEPT !.cancel = TRUE]
<1>0. PICK g \in Run : g = record[t].run + 1
  BY DEF FailAdmission
<1>1. /\ ~IsOwned(t) /\ ~Locked /\ shutdown' = "open"
      /\ SetHandle(t, g, h) /\ Suspend(c, "rollback", t, g)
      /\ owned' = owned /\ record' = record /\ live' = live
  BY <1>0 DEF FailAdmission, Admits, Closing
<1>a. \A k \in Run : Present(t, k) => k < g
  BY <1>0, <1>1, NextRunIsAbove
<1>b. h \in Handle /\ h.phase = "ready" /\ h.cancel
  BY HandleValues
<1> HIDE DEF h
<1>2. \A s \in Task, k \in Run :
        handle'[s][k] = IF s = t /\ k = g THEN h ELSE handle[s][k]
  BY <1>1, <1>b, OneHandle DEF IInv
<1>7. g \in 1..MaxRun /\ MaxRun \in Nat /\ g \in 0..MaxRun
  BY ConstantsAssumption DEF Run
<1>4. \A d \in Client : /\ ~RollsBack(d)
                        /\ RollsBack(d)' <=> d = c
  <2>1. /\ client'[c] = [at |-> "rollback", task |-> t, run |-> g, cancel |-> FALSE]
        /\ \A d \in Client \ {c} : client'[d] = client[d]
    BY <1>1, <1>7, OneSuspended DEF IInv, Place
  <2>2. client'[c].at = "rollback"
    BY <2>1
  <2> QED BY <1>1, <2>1, <2>2 DEF Locked, RollsBack, At
<1>5. \A s \in Task, k \in Run : /\ ~RollingBack(s, k)
                                 /\ RollingBack(s, k)' <=> (s = t /\ k = g)
  <2>1. client'[c] = [at |-> "rollback", task |-> t, run |-> g, cancel |-> FALSE]
    BY <1>1, <1>7, OneSuspended DEF IInv, Place
  <2>2. client'[c].task = t /\ client'[c].run = g
    BY <2>1
  <2> QED BY <1>4, <2>2 DEF RollingBack, RollsBack
<1>6. \A s \in Task, k \in Run :
        Present(s, k)' <=> (Present(s, k) \/ (s = t /\ k = g))
  BY <1>2, <1>b DEF Present
<1>8. NoneIsBlank'
  BY <1>2, <1>6 DEF IInv, NoneIsBlank
<1>9. OneRollback'
  <2>1. client'[c] = [at |-> "rollback", task |-> t, run |-> g, cancel |-> FALSE]
    BY <1>1, <1>7, OneSuspended DEF IInv, Place
  <2>2. client'[c].run = g
    BY <2>1
  <2> QED BY <1>4, <2>2 DEF OneRollback, RollsBack, At
<1>c. ~Present(t, g) /\ owned[t] # g
  <2>1. ~Present(t, g)
    BY <1>1, <1>7, <1>a
  <2> QED BY <1>1, <2>1 DEF IInv, EntriesAreSaved
<1>10. RollbackIsGated'
  <2> SUFFICES Gated(t, g)'
    BY <1>5 DEF RollbackIsGated
  <2>1. ~IsOwned(t)'
    BY <1>1, <1>2, <1>c DEF IsOwned, Unfinished, IInv, TypeOK, Run
  <2> QED BY <1>0, <1>1, <1>2, <1>b, <2>1 DEF Gated
<1>11. HandlesAreOwned'
  BY <1>1, <1>2, <1>5, <1>6 DEF IInv, HandlesAreOwned
<1>12. EntriesAreSaved'
  BY <1>1, <1>6 DEF IInv, EntriesAreSaved
<1>13. LiveIsOwned'
  BY <1>1 DEF IInv, LiveIsOwned
<1>14. InTurn'
  <2> SUFFICES ASSUME NEW s \in Task, NEW k \in Run, NEW l \in Run, l < k,
                      handle'[s][k].phase \notin {"none", "ready"}
               PROVE  ~Present(s, l)'
    BY DEF InTurn
  <2>1. ~(s = t /\ k = g)
    BY <1>2, <1>b
  <2>2. ~Present(s, l) /\ Present(s, k)
    BY <1>2, <2>1 DEF IInv, InTurn, Present
  <2>3. CASE s = t
    <3>1. k < g
      BY <1>a, <2>2, <2>3
    <3> QED BY <1>6, <1>7, <2>2, <3>1 DEF Run
  <2> QED BY <1>6, <2>2, <2>3
<1>15. ClosingKnows'
  BY <1>1 DEF ClosingKnows
<1> QED BY <1>8, <1>9, <1>10, <1>11, <1>12, <1>13, <1>14, <1>15 DEF IInv

LEMMA ScheduleKeeps ==
  ASSUME IInv, TypeOK', NEW c \in Client, NEW t \in Task, Admits, Schedule(c, t),
         UNCHANGED Closing
  PROVE  IInv'
BY AdmitKeeps, FailAdmissionKeeps DEF Schedule

LEMMA SpawnKeeps ==
  ASSUME IInv, TypeOK', NEW c \in Client, NEW t \in Task, Admits, Spawn(c, t),
         UNCHANGED Closing
  PROVE  IInv'
<1>1. CASE Schedule(c, t)
  BY <1>1, ScheduleKeeps
<1>2. CASE Suspend(c, "create", t, 0) /\ UNCHANGED <<record, handle, owned, live>>
  BY <1>2, OperationBegins DEF Place
<1> QED BY <1>1, <1>2 DEF Spawn

LEMMA CallKeeps ==
  ASSUME IInv, TypeOK', NEW c \in Client, NEW t \in Task,
         \/ SpawnTask(c, t) \/ StartRun(c, t) \/ RejectWakeup(c, t)
         \/ CallOut(c, t) \/ CancelTask(c, t)
  PROVE  IInv'
<1>1. CASE SpawnTask(c, t)
  <2>1. CASE Spawn(c, t)
    BY <1>1, <2>1, SpawnKeeps DEF SpawnTask
  <2>2. CASE Suspend(c, "queued", t, 0) /\ UNCHANGED <<record, handle, owned, live>>
    BY <1>1, <2>2, OperationBegins DEF SpawnTask, Place
  <2> QED BY <1>1, <2>1, <2>2 DEF SpawnTask
<1>2. CASE StartRun(c, t)
  BY <1>2, ScheduleKeeps DEF StartRun
<1>3. CASE RejectWakeup(c, t)
  BY <1>3, RejectWakeupKeeps
<1>4. CASE CallOut(c, t)
  BY <1>4, OperationBegins DEF CallOut, Place
<1>5. CASE CancelTask(c, t)
  BY <1>5, CancelTaskKeeps
<1> QED BY <1>1, <1>2, <1>3, <1>4, <1>5

-----------------------------------------------------------------------------
(* The steps of a run.                                                      *)

\* A run that is ready has no unfinished run of its Task below it.
LEMMA BelowAReadyRun ==
  ASSUME IInv, NEW t \in Task, NEW g \in Run, handle[t][g].phase = "ready",
         ~RollingBack(t, g), NEW k \in Run, k < g, Present(t, k)
  PROVE  handle[t][k].phase = "done"
<1>1. g = owned[t]
  BY DEF IInv, HandlesAreOwned, Present
<1>2. /\ owned[t] \in 0..MaxRun /\ record[t].run \in 0..MaxRun /\ MaxRun \in Nat
      /\ owned[t] <= record[t].run /\ g \in 1..MaxRun /\ k \in 1..MaxRun
  BY ConstantsAssumption DEF IInv, TypeOK, EntriesAreSaved, Run
<1>3. ~RollingBack(t, k)
  BY <1>1, <1>2 DEF IInv, RollbackIsGated, Gated
<1> QED BY <1>1, <1>2, <1>3 DEF IInv, HandlesAreOwned

\* A run is entered in its turn, and not when its admission is rolled back; then
\* it leaves its phase for another until it is done.
LEMMA PhaseAdvances ==
  ASSUME IInv, TypeOK', NEW t \in Task, NEW g \in Run, NEW h \in Handle, SetHandle(t, g, h),
         Quietly, \A s \in Task : record'[s].run = record[s].run,
         Unfinished(t, g), h.phase \notin {"none", "ready"},
         handle[t][g].phase = "ready" => /\ \A k \in 1..(g - 1) : ~InPhase(t, k, {"done"})
                                         /\ handle[t][g].cancel => h.phase = "done"
  PROVE  IInv'
<1>1. \A s \in Task, k \in Run :
        handle'[s][k] = IF s = t /\ k = g THEN h ELSE handle[s][k]
  BY OneHandle DEF IInv
<1>2. \A s \in Task, k \in Run : Present(s, k)' <=> Present(s, k)
  BY <1>1 DEF Present, Unfinished
<1>3. \A s \in Task, k \in Run : RollingBack(s, k)' <=> RollingBack(s, k)
  BY DEF RollingBack, Quietly, At
<1>4. NoneIsBlank'
  BY <1>1, <1>2 DEF IInv, NoneIsBlank, Present
<1>5. OneRollback'
  BY DEF IInv, OneRollback, RollsBack, At, Quietly
<1>6. RollbackIsGated'
  <2> SUFFICES ASSUME NEW s \in Task, NEW k \in Run, RollingBack(s, k)
               PROVE  Gated(s, k)'
    BY <1>3 DEF RollbackIsGated
  <2>1. Gated(s, k)
    BY DEF IInv, RollbackIsGated
  <2>2. ~IsOwned(s)'
    <3>1. ~(s = t /\ owned[s] = g)
      BY <2>1 DEF Gated, IsOwned, Run, Unfinished, IInv, TypeOK
    <3>2. owned'[s] = owned[s] /\ owned[s] \in 0..MaxRun
      BY DEF Quietly, IInv, TypeOK
    <3> QED BY <1>1, <2>1, <3>1, <3>2, ConstantsAssumption DEF Gated, IsOwned, Unfinished, Run
  <2>3. CASE s = t /\ k = g
    <3>1. handle[t][g].phase = "ready" /\ handle[t][g].cancel
      BY <2>1, <2>3 DEF Gated, Unfinished
    <3>2. handle'[s][k].phase = "done"
      BY <1>1, <2>3, <3>1
    <3> QED BY <2>1, <2>2, <3>2 DEF Gated, Quietly, Closing
  <2>4. CASE ~(s = t /\ k = g)
    BY <1>1, <2>1, <2>2, <2>4 DEF Gated, Quietly, Closing
  <2> QED BY <2>3, <2>4
<1>7. HandlesAreOwned'
  <2> SUFFICES ASSUME NEW s \in Task, NEW k \in Run, Present(s, k), ~RollingBack(s, k)
               PROVE  k = owned'[s] \/ (k < owned'[s] /\ handle'[s][k].phase = "done")
    BY <1>2, <1>3 DEF HandlesAreOwned
  <2>1. k = owned[s] \/ (k < owned[s] /\ handle[s][k].phase = "done")
    BY DEF IInv, HandlesAreOwned
  <2> QED BY <1>1, <2>1 DEF Quietly, Unfinished
<1>8. EntriesAreSaved'
  BY <1>2 DEF IInv, EntriesAreSaved, Quietly
<1>9. LiveIsOwned'
  BY DEF IInv, LiveIsOwned, Quietly
<1>10. InTurn'
  <2> SUFFICES ASSUME NEW s \in Task, NEW k \in Run, NEW l \in Run, l < k,
                      handle'[s][k].phase \notin {"none", "ready"}, Present(s, l)
               PROVE  FALSE
    BY <1>2 DEF InTurn
  <2>1. s = t /\ k = g /\ handle[t][g].phase = "ready"
    BY <1>1 DEF IInv, InTurn, Unfinished
  <2>2. ~InPhase(t, l, {"done"})
    <3>1. l \in 1..(g - 1)
      BY <2>1, ConstantsAssumption DEF Run
    <3> QED BY <2>1, <3>1
  <2>3. ~RollingBack(t, g)
    <3>1. ASSUME RollingBack(t, g) PROVE FALSE
      <4>1. Gated(t, g)
        BY <3>1 DEF IInv, RollbackIsGated
      <4>2. /\ ~RollingBack(t, l) /\ l < record[t].run + 1
        <5>1. \A c, d \in Client : RollsBack(c) /\ RollsBack(d) => c = d
          BY DEF IInv, OneRollback
        <5>2. ~RollingBack(t, l)
          BY <2>1, <3>1, <5>1, ConstantsAssumption DEF RollingBack, RollsBack, Run
        <5> QED BY <2>1, <4>1, <5>2 DEF Gated
      <4>3. l = owned[t] \/ (l < owned[t] /\ handle[t][l].phase = "done")
        BY <2>1, <4>2 DEF IInv, HandlesAreOwned
      <4>4. l = owned[t] /\ owned[t] # 0
        BY <2>1, <2>2, <4>3, ConstantsAssumption DEF InPhase, Run
      <4>5. Unfinished(t, l)
        BY <2>1, <2>2 DEF InPhase, Unfinished, Present
      <4> QED BY <4>1, <4>4, <4>5 DEF Gated, IsOwned
    <3> QED BY <3>1
  <2>4. handle[t][l].phase = "done"
    BY <2>1, <2>3, BelowAReadyRun
  <2> QED BY <2>2, <2>4 DEF InPhase
<1>11. ClosingKnows'
  BY DEF IInv, ClosingKnows, Quietly, Closing
<1> QED BY <1>4, <1>5, <1>6, <1>7, <1>8, <1>9, <1>10, <1>11 DEF IInv

\* A run that has been entered goes on.
LEMMA EnteredAdvances ==
  ASSUME IInv, TypeOK', NEW t \in Task, NEW g \in Run, Quietly,
         InPhase(t, g, {"payload", "tail", "handler"}),
         UNCHANGED record \/ \E s \in RecordState : SetState(t, s),
         \/ \E p \in {"tail", "handler", "done"} : Becomes(t, g, p)
         \/ Raises(t, g)
  PROVE  IInv'
<1>1. \A s \in Task : record'[s].run = record[s].run
  BY OneState DEF IInv
<1>2. PICK h \in Handle : SetHandle(t, g, h) /\ h.phase \in {"tail", "handler", "done"}
  <2>1. CASE Raises(t, g)
    BY <2>1, RaisedHandle DEF Raises
  <2>2. CASE \E p \in {"tail", "handler", "done"} : Becomes(t, g, p)
    BY <2>2, HandleBecomes DEF IInv, Phase
  <2> QED BY <2>1, <2>2
<1>3. Unfinished(t, g) /\ handle[t][g].phase # "ready"
  BY DEF InPhase, Unfinished
<1> QED BY <1>1, <1>2, <1>3, PhaseAdvances

\* The callbacks of a run drop its handle and its entry.
LEMMA RunFinishedKeeps ==
  ASSUME IInv, TypeOK', NEW t \in Task, NEW g \in Run, RunFinished(t, g)
  PROVE  IInv'
<1>1. \A s \in Task, k \in Run :
        handle'[s][k] = IF s = t /\ k = g THEN NoHandle ELSE handle[s][k]
  BY HandleValues, OneHandle DEF IInv, RunFinished
<1>2. /\ handle[t][g].phase = "done" /\ ~RollingBack(t, g)
      /\ client' = client /\ shutdown' = shutdown /\ doomed' = doomed
  BY DEF RunFinished, InPhase, Closing
<1>3. \A s \in Task : record'[s].run = record[s].run
  <2>1. UNCHANGED record \/ \E r \in Finalizations(t) : record' = [record EXCEPT ![t] = r]
    BY DEF RunFinished
  <2> QED BY <2>1, FinalizedRecord, OneRecord DEF IInv
<1>4. \A s \in Task : owned'[s] = IF s = t /\ owned[s] = g THEN 0 ELSE owned[s]
  BY DEF RunFinished, IInv, TypeOK
<1>5. \A s \in Task : /\ live'[s] = live[s] \/ live'[s] = NotLive
                      /\ s = t /\ live[s].run = g => live'[s] = NotLive
  BY DEF RunFinished, IInv, TypeOK
<1>6. \A s \in Task, k \in Run : Present(s, k)' <=> (Present(s, k) /\ ~(s = t /\ k = g))
  BY <1>1, HandleValues DEF Present
<1>7. \A s \in Task, k \in Run : RollingBack(s, k)' <=> RollingBack(s, k)
  BY <1>2 DEF RollingBack, At
<1>8. NoneIsBlank'
  BY <1>1, <1>6 DEF IInv, NoneIsBlank
<1>9. OneRollback'
  BY <1>2 DEF IInv, OneRollback, RollsBack, At
<1>10. RollbackIsGated'
  <2> SUFFICES ASSUME NEW s \in Task, NEW k \in Run, RollingBack(s, k)
               PROVE  Gated(s, k)'
    BY <1>7 DEF RollbackIsGated
  <2>1. Gated(s, k) /\ ~(s = t /\ k = g)
    BY <1>2 DEF IInv, RollbackIsGated
  <2>2. ~IsOwned(s)'
    <3>1. owned[s] \in 0..MaxRun
      BY DEF IInv, TypeOK
    <3> QED BY <1>1, <1>4, <2>1, <3>1, ConstantsAssumption
            DEF Gated, IsOwned, Unfinished, Run
  <2> QED BY <1>1, <1>2, <1>3, <2>1, <2>2 DEF Gated
<1>11. HandlesAreOwned'
  <2> SUFFICES ASSUME NEW s \in Task, NEW k \in Run, Present(s, k), ~(s = t /\ k = g),
                      ~RollingBack(s, k)
               PROVE  k = owned'[s] \/ (k < owned'[s] /\ handle'[s][k].phase = "done")
    BY <1>6, <1>7 DEF HandlesAreOwned
  <2>1. k = owned[s] \/ (k < owned[s] /\ handle[s][k].phase = "done")
    BY DEF IInv, HandlesAreOwned
  <2>2. ~(s = t /\ owned[s] = g)
    BY <1>2, <2>1 DEF IInv, InTurn
  <2> QED BY <1>1, <1>4, <2>1, <2>2
<1>12. EntriesAreSaved'
  <2> SUFFICES ASSUME NEW s \in Task
               PROVE  /\ owned'[s] <= record'[s].run
                      /\ \A k \in Run : owned'[s] = k => Present(s, k)'
    BY DEF EntriesAreSaved
  <2>1. owned[s] <= record[s].run /\ \A k \in Run : owned[s] = k => Present(s, k)
    BY DEF IInv, EntriesAreSaved
  <2>2. CASE s = t /\ owned[s] = g
    <3>1. record[s].run \in 0..MaxRun
      BY DEF IInv, TypeOK
    <3> QED BY <1>3, <1>4, <2>2, <3>1, ConstantsAssumption DEF Run
  <2>3. CASE ~(s = t /\ owned[s] = g)
    BY <1>3, <1>4, <1>6, <2>1, <2>3
  <2> QED BY <2>2, <2>3
<1>13. LiveIsOwned'
  BY <1>4, <1>5 DEF IInv, LiveIsOwned
<1>14. InTurn'
  BY <1>1, <1>6, HandleValues DEF IInv, InTurn
<1>15. ClosingKnows'
  BY <1>2, <1>4 DEF IInv, ClosingKnows
<1> QED BY <1>8, <1>9, <1>10, <1>11, <1>12, <1>13, <1>14, <1>15 DEF IInv

LEMMA ExecuteKeeps ==
  ASSUME IInv, TypeOK', NEW t \in Task, NEW g \in Run, Execute(t, g)
  PROVE  IInv'
<1>1. CASE FirstStep(t, g)
  <2> DEFINE p == IF handle[t][g].cancel THEN "done" ELSE "payload"
  <2>1. Becomes(t, g, p) /\ p \in {"done", "payload"} /\ (handle[t][g].cancel => p = "done")
    BY <1>1 DEF FirstStep
  <2> HIDE DEF p
  <2>2. PICK h \in Handle : h.phase = p /\ SetHandle(t, g, h)
    BY <2>1, HandleBecomes DEF IInv, Phase
  <2>3. Unfinished(t, g) /\ Quietly /\ record' = record
    BY <1>1 DEF FirstStep, InPhase, Unfinished
  <2>4. \A k \in 1..(g - 1) : ~InPhase(t, k, {"done"})
    BY <1>1 DEF FirstStep
  <2> QED BY <2>1, <2>2, <2>3, <2>4, PhaseAdvances
<1> USE DEF RecordState, InPhase
<1>2. CASE PauseForReview(t, g)
  BY <1>2, EnteredAdvances DEF PauseForReview
<1>3. CASE FinishRun(t, g)
  BY <1>3, EnteredAdvances DEF FinishRun
<1>4. CASE FailRun(t, g)
  BY <1>4, EnteredAdvances DEF FailRun
<1>5. CASE FailSave(t, g)
  BY <1>5, EnteredAdvances DEF FailSave
<1>6. CASE EndTail(t, g)
  BY <1>6, EnteredAdvances DEF EndTail
<1>7. CASE FailTail(t, g)
  BY <1>7, EnteredAdvances DEF FailTail
<1>8. CASE CancelRun(t, g)
  BY <1>8, EnteredAdvances DEF CancelRun
<1>9. CASE RunFinished(t, g)
  BY <1>9, RunFinishedKeeps
<1> QED BY <1>1, <1>2, <1>3, <1>4, <1>5, <1>6, <1>7, <1>8, <1>9 DEF Execute

-----------------------------------------------------------------------------
(* The end of a rollback and of the shutdown.                               *)

LEMMA EndRollbackKeeps ==
  ASSUME IInv, TypeOK', NEW c \in Client, EndRollback(c)
  PROVE  IInv'
<1>1. RollsBack(c) /\ client[c].task \in Task /\ client[c].run \in Run
  BY SuspendedClient DEF EndRollback, RollsBack, At, IInv, OneRollback
<1>2. PICK t \in Task, g \in Run : t = client[c].task /\ g = client[c].run
  BY <1>1
<1>3. RollingBack(t, g)
  BY <1>1, <1>2 DEF RollingBack, RollsBack
<1>4. Gated(t, g)
  BY <1>3 DEF IInv, RollbackIsGated
<1>5. \A d \in Client : ~RollsBack(d)'
  <2>1. client'[c] = Idle /\ \A d \in Client \ {c} : client'[d] = client[d]
    BY OneResumed DEF EndRollback, IInv
  <2>2. \A d \in Client \ {c} : ~RollsBack(d)
    BY <1>1 DEF IInv, OneRollback
  <2> QED BY <2>1, <2>2 DEF RollsBack, At, Idle
<1>6. \A s \in Task, k \in Run : ~RollingBack(s, k)'
  BY <1>5 DEF RollingBack, RollsBack
<1>7. \A s \in Task, k \in Run : RollingBack(s, k) => s = t /\ k = g
  BY <1>1, <1>2 DEF IInv, OneRollback, RollingBack, RollsBack
<1>8. \A s \in Task, k \in Run :
        handle'[s][k] = IF s = t /\ k = g THEN NoHandle ELSE handle[s][k]
  BY <1>2, HandleValues, OneHandle DEF IInv, EndRollback
<1>9. \A s \in Task, k \in Run : Present(s, k)' <=> (Present(s, k) /\ ~(s = t /\ k = g))
  BY <1>8, HandleValues DEF Present
<1>10. /\ record' = record /\ owned' = owned /\ shutdown' = "open"
       /\ \A s \in Task : live'[s] = live[s] \/ live'[s] = NotLive
  BY <1>2, <1>4 DEF EndRollback, Closing, Gated, IInv, TypeOK
<1>11. owned[t] # g
  <2>1. owned[t] <= record[t].run /\ owned[t] \in 0..MaxRun /\ record[t].run \in 0..MaxRun
    BY DEF IInv, EntriesAreSaved, TypeOK
  <2> QED BY <1>4, <2>1, ConstantsAssumption DEF Gated
<1>12. NoneIsBlank'
  BY <1>8, <1>9 DEF IInv, NoneIsBlank
<1>13. OneRollback' /\ RollbackIsGated'
  BY <1>5, <1>6 DEF OneRollback, RollbackIsGated
<1>14. HandlesAreOwned'
  BY <1>7, <1>8, <1>9, <1>10 DEF IInv, HandlesAreOwned
<1>15. EntriesAreSaved'
  BY <1>9, <1>10, <1>11 DEF IInv, EntriesAreSaved
<1>16. LiveIsOwned'
  BY <1>10 DEF IInv, LiveIsOwned
<1>17. InTurn'
  BY <1>8, <1>9, HandleValues DEF IInv, InTurn
<1>18. ClosingKnows'
  BY <1>10 DEF ClosingKnows
<1> QED BY <1>12, <1>13, <1>14, <1>15, <1>16, <1>17, <1>18 DEF IInv

LEMMA ContinueKeeps ==
  ASSUME IInv, TypeOK', NEW c \in Client, Continue(c) \/ CancelClient(c)
  PROVE  IInv'
<1>1. CASE TakeTurn(c)
  <2>1. client[c].task \in Task
    BY <1>1, SuspendedClient DEF TakeTurn, At, IInv
  <2> QED BY <1>1, <2>1, SpawnKeeps DEF TakeTurn
<1> QED BY <1>1, EndRollbackKeeps, EndOperationKeeps, CancelClientKeeps DEF Continue

\* Without calls, the entries are all there is.
LEMMA CloseDrainsKeeps ==
  ASSUME IInv, TypeOK', CloseDrains
  PROVE  IInv'
<1>1. ASSUME NEW c \in Client
      PROVE  client[c] = Idle
  <2>1. ~At(c, {"rollback", "queued", "call", "create", "await"})
    BY DEF CloseDrains, Operations, Locked, At
  <2>2. client[c] \in Suspended \/ client[c] = Idle
    BY DEF IInv, TypeOK
  <2>3. client[c] \in Suspended => client[c].at \in Place
    BY DEF Suspended
  <2> QED BY <2>1, <2>2, <2>3 DEF At, Place
<1>2. /\ record' = record /\ handle' = handle /\ owned' = owned /\ live' = live
      /\ client' = client /\ doomed' = owned /\ shutdown' = "grace"
  BY DEF CloseDrains
<1>3. \A s \in Task, k \in Run : ~RollingBack(s, k) /\ ~RollingBack(s, k)'
  BY <1>2 DEF CloseDrains, Locked, RollingBack, At
<1>4. NoneIsBlank' /\ OneRollback' /\ InTurn' /\ LiveIsOwned' /\ EntriesAreSaved'
  BY <1>2 DEF IInv, NoneIsBlank, OneRollback, InTurn, LiveIsOwned, EntriesAreSaved,
              Present, RollsBack, At
<1>5. RollbackIsGated'
  BY <1>3 DEF RollbackIsGated
<1>6. HandlesAreOwned'
  BY <1>2, <1>3 DEF IInv, HandlesAreOwned, Present
<1>7. ClosingKnows'
  BY <1>1, <1>2 DEF ClosingKnows
<1> QED BY <1>4, <1>5, <1>6, <1>7 DEF IInv

\* Without calls and entries there is no handle, and nothing is live.
LEMMA NothingIsLeft ==
  ASSUME IInv, \A c \in Client : client[c] = Idle, \A t \in Task : owned[t] = 0
  PROVE  /\ \A t \in Task, g \in Run : ~Present(t, g) /\ handle[t][g] = NoHandle
         /\ \A t \in Task : live[t] = NotLive
<1>1. \A t \in Task, g \in Run : ~RollingBack(t, g)
  BY DEF RollingBack, At, Idle
<1>2. \A t \in Task, g \in Run : ~Present(t, g)
  BY <1>1, ConstantsAssumption DEF IInv, HandlesAreOwned, Run
<1> QED BY <1>2 DEF IInv, NoneIsBlank, LiveIsOwned

LEMMA CloseEndsKeeps ==
  ASSUME IInv, TypeOK', CloseEnds
  PROVE  IInv'
<1>1. \A c \in Client : client[c] = Idle
  BY DEF CloseEnds, IInv, ClosingKnows
<1>2. \A t \in Task : owned[t] = 0
  <2> SUFFICES ASSUME NEW t \in Task, owned[t] # 0
               PROVE  FALSE
    OBVIOUS
  <2>1. owned[t] = doomed[t] /\ owned[t] \in Run
    BY ConstantsAssumption DEF CloseEnds, IInv, ClosingKnows, TypeOK, Run
  <2>2. Present(t, owned[t])
    BY <2>1 DEF IInv, EntriesAreSaved
  <2> QED BY <2>1, <2>2 DEF CloseEnds, InPhase, Present
<1>3. /\ \A t \in Task, g \in Run : ~Present(t, g) /\ handle[t][g] = NoHandle
      /\ \A t \in Task : live[t] = NotLive
  BY <1>1, <1>2, NothingIsLeft
<1>4. /\ handle' = handle /\ client' = client /\ shutdown' = "closed"
      /\ \A t \in Task : owned'[t] = 0 /\ live'[t] = NotLive
  BY <1>3 DEF CloseEnds
<1>5. \A t \in Task, g \in Run : ~Present(t, g)' /\ handle'[t][g] = NoHandle
  BY <1>3, <1>4 DEF Present
<1>6. \A c \in Client : ~RollsBack(c)' /\ client'[c] = Idle
  BY <1>1, <1>4 DEF RollsBack, At, Idle
<1>7. \A t \in Task, g \in Run : ~RollingBack(t, g)'
  BY <1>6 DEF RollingBack, RollsBack
<1>8. EntriesAreSaved'
  BY <1>4, ConstantsAssumption DEF EntriesAreSaved, TypeOK, Run
<1>9. NoneIsBlank' /\ HandlesAreOwned'
  BY <1>5 DEF NoneIsBlank, HandlesAreOwned
<1>10. OneRollback' /\ RollbackIsGated'
  BY <1>6, <1>7 DEF OneRollback, RollbackIsGated
<1>11. LiveIsOwned' /\ InTurn' /\ ClosingKnows'
  BY <1>4, <1>5, <1>6 DEF LiveIsOwned, InTurn, ClosingKnows
<1> QED BY <1>8, <1>9, <1>10, <1>11 DEF IInv

-----------------------------------------------------------------------------
(* The theorems.                                                            *)

LEMMA Initially ==
  ASSUME Init
  PROVE  IInv
<1>1. NoHandle \in Handle /\ NoHandle.phase = "none"
  BY HandleValues
<1>2. NotLive \in [run : 0..MaxRun, asked : BOOLEAN] /\ 0 \in 0..MaxRun
  BY ConstantsAssumption DEF NotLive
<1>3. [state |-> "pending", run |-> 0] \in Records
  BY <1>2 DEF Records, RecordState
<1>4. TypeOK
  <2>1. record \in [Task -> Records]
    BY <1>3 DEF Init
  <2> QED BY <1>1, <1>2, <2>1 DEF Init, TypeOK, Records, Shutdown
<1>5. \A t \in Task : owned[t] = 0 /\ live[t] = NotLive /\ record[t].run = 0
  BY DEF Init
<1>6. \A t \in Task, g \in Run : ~Present(t, g) /\ handle[t][g] = NoHandle
  BY <1>1 DEF Init, Present
<1>7. \A c \in Client : ~RollsBack(c)
  BY DEF Init, RollsBack, At, Idle
<1>8. \A t \in Task, g \in Run : ~RollingBack(t, g)
  BY <1>7 DEF RollingBack, RollsBack
<1>9. EntriesAreSaved
  BY <1>5, ConstantsAssumption DEF EntriesAreSaved, Run
<1> QED BY <1>4, <1>5, <1>6, <1>7, <1>8, <1>9 DEF IInv, NoneIsBlank, OneRollback,
           RollbackIsGated, HandlesAreOwned, LiveIsOwned, InTurn, ClosingKnows, Init

LEMMA StepKeeps ==
  ASSUME IInv, [Next]_vars
  PROVE  IInv'
<1>0. TypeOK'
  BY TypesStay DEF IInv
<1>1. CASE Call
  BY <1>0, <1>1, CallKeeps DEF Call
<1>2. CASE Close
  BY <1>0, <1>2, CloseBeginsKeeps, CloseDrainsKeeps, CloseCancelsKeeps, CloseEndsKeeps DEF Close
<1>3. CASE \E c \in Client : Continue(c) \/ CancelClient(c)
  BY <1>0, <1>3, ContinueKeeps
<1>4. CASE \E t \in Task : Reload(t)
  BY <1>0, <1>4, StateMoves DEF Reload, RecordState
<1>5. CASE \E t \in Task, g \in Run : Execute(t, g)
  BY <1>0, <1>5, ExecuteKeeps
<1>6. CASE UNCHANGED vars
  BY <1>6 DEF vars, IInv, TypeOK, NoneIsBlank, OneRollback, RollbackIsGated, Gated,
              HandlesAreOwned, EntriesAreSaved, LiveIsOwned, InTurn, ClosingKnows,
              Present, RollsBack, RollingBack, IsOwned, Unfinished, At
<1> QED BY <1>1, <1>2, <1>3, <1>4, <1>5, <1>6 DEF Next

\* RunSupervisor, LiveRunRegistry, the calls and the shutdown keep the inductive
\* invariant.
THEOREM Invariance == Spec => []IInv
<1>1. Init => IInv
  BY Initially
<1>2. IInv /\ [Next]_vars => IInv'
  BY StepKeeps
<1> QED BY <1>1, <1>2, PTL DEF Spec

\* A run that executes is the saved and owned one, and the only one of its Task
\* (RunSupervisor.schedule, mark_running, RunSupervisor._run_finished).
THEOREM ExecutionStaysOwned == Spec => []ExecutionIsOwned
<1>1. ASSUME IInv, NEW t \in Task, NEW g \in Run, Unfinished(t, g)
      PROVE  \/ RollingBack(t, g) /\ handle[t][g].phase = "ready"
             \/ IsOwned(t) /\ g = owned[t]
  <2>1. CASE RollingBack(t, g)
    BY <1>1, <2>1 DEF IInv, RollbackIsGated, Gated, Unfinished
  <2>2. CASE ~RollingBack(t, g)
    <3>1. g = owned[t]
      BY <1>1, <2>2 DEF IInv, HandlesAreOwned, Present, Unfinished
    <3> QED BY <1>1, <3>1, ConstantsAssumption DEF IsOwned, Run
  <2> QED BY <2>1, <2>2
<1>2. IInv => OneRunPerTask
  <2> SUFFICES ASSUME IInv, NEW t \in Task, NEW g \in Run, NEW h \in Run,
                      Unfinished(t, g), Unfinished(t, h)
               PROVE  g = h
    BY DEF OneRunPerTask
  <2>1. RollingBack(t, g) => ~IsOwned(t)
    BY DEF IInv, RollbackIsGated, Gated
  <2>2. RollingBack(t, h) => ~IsOwned(t)
    BY DEF IInv, RollbackIsGated, Gated
  <2>3. RollingBack(t, g) /\ RollingBack(t, h) => g = h
    BY DEF IInv, OneRollback, RollingBack, RollsBack
  <2> QED BY <1>1, <2>1, <2>2, <2>3
<1>3. IInv => ExecutionIsOwned
  <2> SUFFICES ASSUME IInv, NEW t \in Task, NEW g \in Run,
                      InPhase(t, g, {"payload", "tail", "handler"})
               PROVE  owned[t] = g /\ g <= record[t].run
    BY <1>2 DEF ExecutionIsOwned, IInv
  <2>1. Unfinished(t, g) /\ handle[t][g].phase # "ready"
    BY DEF InPhase, Unfinished
  <2> QED BY <1>1, <2>1 DEF IInv, EntriesAreSaved
<1> QED BY <1>3, Invariance, PTL

\* When _close_impl has returned, no handle, no registry entry and no call is
\* left, and none is added later.
THEOREM CloseStaysQuiet == Spec => []ClosedIsQuiet
<1>1. IInv => ClosedIsQuiet
  <2> SUFFICES ASSUME IInv, shutdown = "closed"
               PROVE  /\ \A t \in Task : /\ live[t] = NotLive
                                         /\ handle[t] = [g \in Run |-> NoHandle]
                      /\ \A c \in Client : client[c] = Idle
    BY DEF ClosedIsQuiet
  <2>1. /\ \A c \in Client : client[c] = Idle
        /\ \A t \in Task : owned[t] = 0
    BY DEF IInv, ClosingKnows
  <2>2. /\ \A t \in Task, g \in Run : handle[t][g] = NoHandle
        /\ \A t \in Task : live[t] = NotLive
    BY <2>1, NothingIsLeft
  <2>3. \A t \in Task : handle[t] = [g \in Run |-> NoHandle]
    BY <2>2 DEF IInv, TypeOK
  <2> QED BY <2>1, <2>2, <2>3
<1> QED BY <1>1, Invariance, PTL

(***************************************************************************)
(* The event streams (TaskEventStream).  The invariant says, for each      *)
(* client, that what its connection has read of the log is what the client *)
(* has and, after it, what waits to be sent; of the log, that runs come in *)
(* their order and an artifact repeats the row before it; and of a proxy,  *)
(* that it has seen the row of the last event it was sent.                 *)
(***************************************************************************)
\* The rows of the database, and what a connection, a proxy and a client keep.
Reason == Settled \union {None, "review_required", "superseded", "broken"}
TaskRow == [run : Nat, st : {"pending", "running", "waiting"} \union Settled, review : BOOLEAN]
EventType == [kind : {"state", "artifact"}, run : Nat, row : TaskRow]
SubType ==
  [pc : {"closed", "next", "events", "row", "again", "wait"}, run : Nat, after : Nat, snap : Nat,
   pend : SUBSET Nat, items : 0..MaxPending, end : Reason, cand : Reason,
   hist : BOOLEAN, wake : BOOLEAN]
ProxyType == [first : BOOLEAN, resumed : BOOLEAN, full : BOOLEAN, reason : Reason, ok : BOOLEAN]
GotType == [run : Nat, from : Nat, ids : Seq(Nat)]

\* The durable events: the row each was committed with, runs in their order, and the
\* Task row as the last event has it.  An artifact changes nothing of the row.
LogHolds(ev, now) ==
  /\ now \in TaskRow /\ ev \in Seq(EventType)
  /\ \A i \in 1..Len(ev) : ev[i].run = ev[i].row.run /\ ev[i].run <= now.run
  /\ \A i, j \in 1..Len(ev) : i < j => ev[i].run <= ev[j].run
  /\ \A i \in 1..Len(ev) : i > 1 /\ ev[i].kind = "artifact" => ev[i].row = ev[i - 1].row
  /\ Len(ev) > 0 => ev[Len(ev)].row = now

\* The events of a run in a log, after a position.
Among(ev, run, after) == {i \in 1..Len(ev) : i > after /\ ev[i].run = run}
End(g) == g.ids[Len(g.ids)]

\* What a client has: every event of its run from its snapshot to its last one.
HasAll(g, ev, now) ==
  /\ g.run <= now.run
  /\ \A i, j \in 1..Len(g.ids) : i < j => g.ids[i] < g.ids[j]
  /\ g.ids # <<>> =>
       /\ End(g) \in 1..Len(ev) /\ ev[End(g)].run = g.run
       /\ {g.ids[i] : i \in 1..Len(g.ids)} = {i \in Among(ev, g.run, 0) : g.from <= i /\ i <= End(g)}

\* The connection of a client: what it has read is what the client has and what waits
\* to be sent, and the proxy has seen the row of the last event.
Serves(s, g, p, ev, now) ==
  /\ s.pc = "closed" => ~s.hist /\ s.items = 0
  /\ s.hist => s.items = 0
  /\ s.pc # "closed" =>
       /\ s.run = g.run /\ (s.hist => now.run > s.run)
       /\ s.pc # "next" => s.snap = 0 /\ s.pend = {}
  /\ s.pc # "closed" /\ s.snap # 0 =>
       /\ g.ids = <<>> /\ g.from = s.snap /\ s.after = s.snap /\ s.pend = {}
       /\ s.snap \in 1..Len(ev) /\ ev[s.snap].run = s.run
       /\ p.first /\ ~p.resumed
  /\ s.pc # "closed" /\ s.snap = 0 =>
       /\ g.ids # <<>> /\ (p.first => p.resumed)
       /\ End(g) <= s.after /\ s.after <= Len(ev)
       /\ s.pend = {i \in Among(ev, s.run, End(g)) : i <= s.after}
       /\ p.full => p.reason = EndReason(ev[End(g)].row)

ClientHolds(s, g, p, ev, now) ==
  /\ s \in SubType /\ g \in GotType /\ p \in ProxyType /\ p.ok
  /\ HasAll(g, ev, now) /\ Serves(s, g, p, ev, now)

\* The invariant of the streams.
StreamInv ==
  /\ LogHolds(events, task) /\ task.run <= MaxRuns
  /\ sub \in [Clients -> SubType] /\ got \in [Clients -> GotType]
  /\ proxy \in [Clients -> ProxyType] /\ told \in [Clients -> Reason]
  /\ \A c \in Clients : ClientHolds(sub[c], got[c], proxy[c], events, task)

\* The least, the first and the last of some positions.
LEMMA LeastNumber ==
  ASSUME NEW S \in SUBSET Nat, S # {}
  PROVE  \E m \in S : \A n \in S : m <= n
<1>1. PICK m \in S : \A n \in S : ~(<<n, m>> \in OpToRel(<, Nat))
  BY NatLessThanWellFounded, WFMin, Zenon
<1>2. \A n \in S : ~(n < m)
  BY <1>1 DEF OpToRel
<1> QED BY <1>2

LEMMA FirstIs ==
  ASSUME NEW S \in SUBSET Nat, S # {}
  PROVE  First(S) \in S /\ \A j \in S : First(S) <= j
BY LeastNumber DEF First

LEMMA LatestIs ==
  ASSUME NEW n \in Nat, NEW S \in SUBSET (1..n), S # {}
  PROVE  Latest(S) \in S /\ \A j \in S : j <= Latest(S)
<1> DEFINE Left == {n - i : i \in S}
<1>1. Left \in SUBSET Nat /\ Left # {}
  <2>1. \A i \in S : i \in 1..n /\ n - i \in Nat
    OBVIOUS
  <2> QED BY <2>1
<1>2. PICK m \in Left : \A k \in Left : m <= k
  <2> HIDE DEF Left
  <2> QED BY <1>1, LeastNumber
<1>3. PICK i \in S : m = n - i
  OBVIOUS
<1>4. \A j \in S : j <= i
  <2>1. ASSUME NEW j \in S PROVE j <= i
    <3>1. n - i <= n - j
      BY <1>2, <1>3
    <3> QED BY <3>1
  <2> QED BY <2>1
<1> QED BY <1>4 DEF Latest

\* A batch is the beginning of what there is, and not empty before that is.
LEMMA FollowingIs ==
  ASSUME StreamAssumption, NEW n \in Nat, NEW S \in SUBSET (1..n)
  PROVE  /\ Following(S) \subseteq S /\ (Following(S) = {} <=> S = {})
         /\ \A i \in Following(S) : \A j \in S : j <= i => j \in Following(S)
<1> DEFINE Up(i) == {j \in S : j <= i}
<1>1. \A i : IsFiniteSet(Up(i)) /\ Cardinality(Up(i)) \in Nat
  <2>1. IsFiniteSet(1..n)
    BY FS_Interval
  <2>2. \A i : Up(i) \in SUBSET (1..n)
    OBVIOUS
  <2> QED BY <2>1, <2>2, FS_Subset, FS_CardinalityType
<1>2. ASSUME NEW i \in Following(S), NEW j \in S, j <= i PROVE j \in Following(S)
  <2>1. i \in S /\ Cardinality(Up(i)) <= Batch
    BY <1>2 DEF Following
  <2>2. Up(j) \in SUBSET Up(i)
    <3>1. \A k \in S : k \in Nat
      OBVIOUS
    <3>2. \A k \in S : k <= j => k <= i
      BY <1>2, <2>1, <3>1
    <3> QED BY <3>2
  <2>3. Cardinality(Up(j)) <= Cardinality(Up(i))
    BY <1>1, <2>2, FS_Subset
  <2>4. Cardinality(Up(j)) <= Batch
    <3> HIDE DEF Up
    <3> QED BY <1>1, <2>1, <2>3 DEF StreamAssumption
  <2> QED BY <2>4 DEF Following
<1>3. ASSUME S # {} PROVE Following(S) # {}
  <2>1. S \in SUBSET Nat
    OBVIOUS
  <2>2. First(S) \in S /\ \A j \in S : First(S) <= j
    BY <1>3, <2>1, FirstIs
  <2>3. Up(First(S)) = {First(S)}
    <3>1. PICK f : f = First(S)
      OBVIOUS
    <3>2. \A j \in S : f <= j /\ (j <= f => j = f)
      <4>1. f \in 1..n /\ \A j \in S : j \in 1..n /\ f <= j
        BY <2>2, <3>1
      <4> QED BY <4>1
    <3>3. Up(f) = {f}
      BY <2>2, <3>1, <3>2
    <3> QED BY <3>1, <3>3
  <2>4. Cardinality(Up(First(S))) = 1
    BY <2>3, FS_Singleton
  <2>5. First(S) \in Following(S)
    <3>1. Cardinality(Up(First(S))) <= Batch
      <4> HIDE DEF Up
      <4> QED BY <2>4 DEF StreamAssumption
    <3> QED BY <2>2, <3>1 DEF Following
  <2> QED BY <2>5
<1> QED BY <1>2, <1>3 DEF Following

\* A commit: the log stays in order.
LEMMA LogGrows ==
  ASSUME NEW ev, NEW now, LogHolds(ev, now), NEW kind \in {"state", "artifact"},
         NEW row \in TaskRow, now.run <= row.run, kind = "artifact" => row = now
  PROVE  LogHolds(Append(ev, Event(kind, row)), row)
<1> DEFINE new == Event(kind, row)
           all == Append(ev, new)
           n == Len(ev)
<1>1. now \in TaskRow /\ ev \in Seq(EventType) /\ n \in Nat /\ now.run \in Nat /\ row.run \in Nat
  BY DEF LogHolds, TaskRow
<1>2. new \in EventType /\ new.run = row.run /\ new.row = row /\ new.kind = kind
  BY DEF Event, EventType, TaskRow
<1> HIDE DEF new
<1>3. /\ all \in Seq(EventType) /\ Len(all) = n + 1 /\ all[n + 1] = new
      /\ \A i \in 1..n : all[i] = ev[i]
  BY <1>1, <1>2
<1> HIDE DEF all, n
<1>4. \A i \in 1..n : ev[i] \in EventType /\ ev[i].run \in Nat
  <2>1. \A i \in 1..n : ev[i] \in EventType
    BY <1>1 DEF n
  <2> QED BY <2>1 DEF EventType
<1>5. \A i \in 1..(n + 1) : i \in 1..n \/ i = n + 1
  BY <1>1
<1>6. \A i \in 1..n : ev[i].run = ev[i].row.run /\ ev[i].run <= now.run
  BY DEF LogHolds, n
<1>7. \A i \in 1..(n + 1) : all[i].run = all[i].row.run /\ all[i].run <= row.run
  BY <1>1, <1>2, <1>3, <1>4, <1>5, <1>6
<1>8. ASSUME NEW i \in 1..(n + 1), NEW j \in 1..(n + 1), i < j PROVE all[i].run <= all[j].run
  <2>1. i \in 1..n
    BY <1>1, <1>8
  <2>2. CASE j \in 1..n
    <3>1. ev[i].run <= ev[j].run
      BY <1>8, <2>1, <2>2 DEF LogHolds, n
    <3> QED BY <1>3, <2>1, <2>2, <3>1
  <2>3. CASE j = n + 1
    BY <1>2, <1>3, <1>7, <2>1, <2>3, <1>8
  <2> QED BY <1>5, <2>2, <2>3
<1>9. ASSUME NEW i \in 1..(n + 1), i > 1, all[i].kind = "artifact" PROVE all[i].row = all[i - 1].row
  <2>1. CASE i \in 1..n
    <3>1. ev[i].row = ev[i - 1].row
      BY <1>3, <1>9, <2>1 DEF LogHolds, n
    <3>2. i - 1 \in 1..n
      BY <1>1, <1>9, <2>1
    <3> QED BY <1>3, <2>1, <3>1, <3>2
  <2>2. CASE i = n + 1
    <3>1. n \in 1..n /\ i - 1 = n
      BY <1>1, <1>9, <2>2
    <3>2. ev[n].row = now
      BY <3>1 DEF LogHolds, n
    <3> QED BY <1>2, <1>3, <1>9, <2>2, <3>1, <3>2
  <2> QED BY <1>5, <2>1, <2>2
<1> QED BY <1>1, <1>2, <1>3, <1>7, <1>8, <1>9 DEF LogHolds, all, new

\* What a client has, and what its connection holds, stays so when the log grows and its
\* connection is only woken or given a delta.
LEMMA ClientKeeps ==
  ASSUME NEW s, NEW g, NEW p, NEW ev, NEW now, ClientHolds(s, g, p, ev, now), LogHolds(ev, now),
         NEW t, NEW all, NEW row, LogHolds(all, row), now.run <= row.run,
         Len(ev) <= Len(all), \A i \in 1..Len(ev) : all[i] = ev[i],
         t \in SubType, t.pc = s.pc, t.run = s.run, t.after = s.after, t.snap = s.snap,
         t.pend = s.pend, t.hist = s.hist, s.pc = "closed" \/ s.hist => t.items = s.items
  PROVE  ClientHolds(t, g, p, all, row)
<1>1. /\ Len(ev) \in Nat /\ Len(all) \in Nat /\ now.run \in Nat /\ row.run \in Nat
      /\ s \in SubType /\ g \in GotType /\ s.run \in Nat /\ s.after \in Nat /\ g.run \in Nat
  BY DEF LogHolds, TaskRow, ClientHolds, SubType, GotType
<1>2. \A i \in 1..Len(ev) : i \in 1..Len(all)
  BY <1>1
<1>3. \A run, after, to : to \in 1..Len(ev) =>
        {i \in Among(all, run, after) : i <= to} = {i \in Among(ev, run, after) : i <= to}
  <2>1. ASSUME NEW run, NEW after, NEW to \in 1..Len(ev)
        PROVE  {i \in Among(all, run, after) : i <= to} = {i \in Among(ev, run, after) : i <= to}
    <3>1. \A i \in 1..Len(all) : i <= to => i \in 1..Len(ev)
      BY <1>1
    <3> QED BY <1>2, <3>1 DEF Among
  <2> QED BY <2>1
<1>4. HasAll(g, all, row)
  <2>1. g.run <= row.run
    BY <1>1 DEF ClientHolds, HasAll
  <2>2. ASSUME g.ids # <<>>
        PROVE  /\ End(g) \in 1..Len(all) /\ all[End(g)].run = g.run
               /\ {g.ids[i] : i \in 1..Len(g.ids)} = {i \in Among(all, g.run, 0) : g.from <= i /\ i <= End(g)}
    <3>1. /\ End(g) \in 1..Len(ev) /\ ev[End(g)].run = g.run
          /\ {g.ids[i] : i \in 1..Len(g.ids)} = {i \in Among(ev, g.run, 0) : g.from <= i /\ i <= End(g)}
      BY <2>2 DEF ClientHolds, HasAll
    <3>2. {i \in Among(all, g.run, 0) : i <= End(g)} = {i \in Among(ev, g.run, 0) : i <= End(g)}
      BY <1>3, <3>1
    <3> QED BY <1>2, <3>1, <3>2
  <2> QED BY <2>1, <2>2 DEF ClientHolds, HasAll
<1>5. Serves(t, g, p, all, row)
  <2>1. s.hist => row.run > s.run \/ s.pc = "closed"
    BY <1>1 DEF ClientHolds, Serves
  <2>2. ASSUME s.pc # "closed", s.snap # 0 PROVE s.snap \in 1..Len(all) /\ all[s.snap].run = s.run
    BY <1>2, <2>2 DEF ClientHolds, Serves
  <2>3. ASSUME s.pc # "closed", s.snap = 0
        PROVE  /\ s.after <= Len(all)
               /\ s.pend = {i \in Among(all, s.run, End(g)) : i <= s.after}
               /\ p.full => p.reason = EndReason(all[End(g)].row)
    <3>1. /\ End(g) <= s.after /\ s.after <= Len(ev) /\ End(g) \in 1..Len(ev)
          /\ s.pend = {i \in Among(ev, s.run, End(g)) : i <= s.after}
          /\ p.full => p.reason = EndReason(ev[End(g)].row)
      BY <2>3 DEF ClientHolds, Serves, HasAll
    <3>2. s.after \in 1..Len(ev)
      BY <1>1, <3>1
    <3>3. {i \in Among(all, s.run, End(g)) : i <= s.after} = {i \in Among(ev, s.run, End(g)) : i <= s.after}
      BY <1>3, <3>2
    <3>4. all[End(g)] = ev[End(g)] /\ s.after <= Len(all)
      BY <1>1, <3>1
    <3> QED BY <3>1, <3>3, <3>4
  <2>4. /\ s.pc = "closed" => ~s.hist /\ s.items = 0
        /\ s.hist => s.items = 0
        /\ s.pc # "closed" => s.run = g.run /\ (s.pc # "next" => s.snap = 0 /\ s.pend = {})
        /\ s.pc # "closed" /\ s.snap # 0 =>
             g.ids = <<>> /\ g.from = s.snap /\ s.after = s.snap /\ s.pend = {} /\ p.first /\ ~p.resumed
        /\ s.pc # "closed" /\ s.snap = 0 => g.ids # <<>> /\ (p.first => p.resumed) /\ End(g) <= s.after
    BY DEF ClientHolds, Serves
  <2>5. s.pc # "closed" /\ s.snap # 0 =>
          /\ g.ids = <<>> /\ g.from = t.snap /\ t.after = t.snap /\ t.pend = {} /\ p.first /\ ~p.resumed
          /\ t.snap \in 1..Len(all) /\ all[t.snap].run = t.run
    BY <2>2, <2>4
  <2>6. s.pc # "closed" /\ s.snap = 0 =>
          /\ g.ids # <<>> /\ (p.first => p.resumed) /\ End(g) <= t.after /\ t.after <= Len(all)
          /\ t.pend = {i \in Among(all, t.run, End(g)) : i <= t.after}
          /\ p.full => p.reason = EndReason(all[End(g)].row)
    BY <2>3, <2>4
  <2>7. /\ t.pc = "closed" => ~t.hist /\ t.items = 0
        /\ t.hist => t.items = 0
        /\ t.pc # "closed" => t.run = g.run /\ (t.hist => row.run > t.run)
                              /\ (t.pc # "next" => t.snap = 0 /\ t.pend = {})
    BY <2>1, <2>4
  <2> QED BY <2>5, <2>6, <2>7 DEF Serves
<1> QED BY <1>4, <1>5 DEF ClientHolds

\* Where nothing waits to be sent, what is left of the run comes after what was read.
LEMMA DrainedIs ==
  ASSUME NEW s, NEW g, NEW p, NEW ev, NEW now, ClientHolds(s, g, p, ev, now), LogHolds(ev, now),
         s.pc # "closed", s.snap = 0, s.pend = {}
  PROVE  /\ s.run = g.run /\ End(g) \in 1..Len(ev) /\ ev[End(g)].run = s.run
         /\ End(g) <= s.after /\ s.after \in 1..Len(ev)
         /\ Among(ev, s.run, End(g)) = Among(ev, s.run, s.after)
<1>1. /\ s.run = g.run /\ End(g) \in 1..Len(ev) /\ ev[End(g)].run = s.run
      /\ End(g) <= s.after /\ s.after <= Len(ev) /\ s.after \in Nat /\ Len(ev) \in Nat
      /\ {i \in Among(ev, s.run, End(g)) : i <= s.after} = {}
  BY DEF ClientHolds, Serves, HasAll, SubType, LogHolds
<1>2. ASSUME NEW i \in 1..Len(ev) PROVE i > End(g) /\ ev[i].run = s.run <=> i > s.after /\ ev[i].run = s.run
  <2>1. i > s.after => i > End(g)
    BY <1>1
  <2>2. ASSUME i > End(g), ev[i].run = s.run PROVE i > s.after
    <3>1. i \in Among(ev, s.run, End(g))
      BY <2>2 DEF Among
    <3>2. ~(i <= s.after)
      BY <1>1, <3>1
    <3> QED BY <1>1, <3>2
  <2> QED BY <2>1, <2>2
<1> QED BY <1>1, <1>2 DEF Among

\* The next batch is what follows what was sent (_queue_stored_events).
LEMMA QueueHolds ==
  ASSUME StreamAssumption,
         NEW s, NEW g, NEW p, NEW ev, NEW now, ClientHolds(s, g, p, ev, now), LogHolds(ev, now),
         s.pc # "closed", s.snap = 0, s.pend = {},
         NEW more, more = Following(Among(ev, s.run, s.after)), more # {},
         NEW t, t \in SubType, t.pc = "next", t.run = s.run, t.after = Latest(more),
         t.snap = s.snap, t.pend = more, t.hist = s.hist, t.items = s.items
  PROVE  ClientHolds(t, g, p, ev, now)
<1>1. /\ s.run = g.run /\ End(g) \in 1..Len(ev) /\ End(g) <= s.after /\ s.after \in 1..Len(ev)
      /\ Among(ev, s.run, End(g)) = Among(ev, s.run, s.after) /\ Len(ev) \in Nat
  BY DrainedIs DEF LogHolds
<1> DEFINE S == Among(ev, s.run, s.after)
<1>2. S \in SUBSET (1..Len(ev)) /\ \A i \in S : i > s.after
  BY DEF Among
<1> HIDE DEF S
<1>3. /\ more \subseteq S
      /\ \A i \in more : \A j \in S : j <= i => j \in more
  <2>1. more = Following(S)
    BY DEF S
  <2> QED BY <1>1, <1>2, <2>1, FollowingIs
<1>4. Latest(more) \in more /\ \A j \in more : j <= Latest(more)
  BY <1>1, <1>2, <1>3, LatestIs
<1>5. more = {i \in S : i <= Latest(more)}
  BY <1>3, <1>4
<1>6. End(g) <= t.after /\ t.after <= Len(ev)
  <2>1. Latest(more) \in 1..Len(ev) /\ Latest(more) > s.after
    BY <1>2, <1>3, <1>4
  <2> QED BY <1>1, <2>1
<1>7. t.pend = {i \in Among(ev, t.run, End(g)) : i <= t.after}
  BY <1>1, <1>5 DEF S
<1>8. /\ g.ids # <<>> /\ (p.first => p.resumed) /\ (p.full => p.reason = EndReason(ev[End(g)].row))
      /\ t.run = g.run /\ (t.hist => now.run > t.run /\ t.items = 0)
  BY DEF ClientHolds, Serves
<1>9. Serves(t, g, p, ev, now)
  BY <1>6, <1>7, <1>8 DEF Serves
<1> QED BY <1>9 DEF ClientHolds

\* Between two sends a connection looks around, and may send a delta.
LEMMA QuietHolds ==
  ASSUME NEW s, NEW g, NEW p, NEW ev, NEW now, ClientHolds(s, g, p, ev, now), LogHolds(ev, now),
         s.pc # "closed", s.snap = 0, s.pend = {},
         NEW t, t \in SubType, t.pc # "closed", t.run = s.run, t.after = s.after, t.snap = s.snap,
         t.pend = s.pend, t.hist = s.hist, t.hist => t.items = 0,
         NEW q, q \in ProxyType, q.ok, q.first => q.resumed, q.full => p.full /\ q.reason = p.reason
  PROVE  ClientHolds(t, g, q, ev, now)
<1>1. /\ g.ids # <<>> /\ (p.full => p.reason = EndReason(ev[End(g)].row))
      /\ t.run = g.run /\ (t.hist => now.run > t.run)
      /\ End(g) <= s.after /\ s.after <= Len(ev) /\ s.pend = {i \in Among(ev, s.run, End(g)) : i <= s.after}
  BY DEF ClientHolds, Serves
<1>2. End(g) <= t.after /\ t.after <= Len(ev) /\ t.pend = {i \in Among(ev, t.run, End(g)) : i <= t.after}
  BY <1>1
<1>3. Serves(t, g, q, ev, now)
  BY <1>1, <1>2 DEF Serves
<1> QED BY <1>3 DEF ClientHolds

\* A proxy that is sent one more event.
LEMMA ProjectedIs ==
  ASSUME NEW p \in ProxyType, NEW kind, NEW reason \in Reason
  PROVE  LET q == Projected(p, kind, reason) IN
         /\ q \in ProxyType /\ ~q.first
         /\ q.full <=> p.full \/ kind \in {"snapshot", "state"}
         /\ q.reason = IF kind \in {"snapshot", "state"} THEN reason ELSE p.reason
         /\ p.ok /\ (p.first /\ ~p.resumed <=> kind = "snapshot")
              /\ (kind = "end" /\ p.full /\ reason # "superseded" => reason = p.reason) => q.ok
<1> DEFINE full == p.full \/ kind \in {"snapshot", "state"}
           why == IF kind \in {"snapshot", "state"} THEN reason ELSE p.reason
           good == /\ p.ok
                   /\ p.first /\ ~p.resumed => kind = "snapshot"
                   /\ kind = "snapshot" => p.first /\ ~p.resumed
                   /\ kind = "end" /\ p.full /\ reason # "superseded" => reason = p.reason
           q == [p EXCEPT !.first = FALSE, !.full = full, !.reason = why, !.ok = good]
<1>1. Projected(p, kind, reason) = q
  BY DEF Projected
<1>2. full \in BOOLEAN /\ why \in Reason /\ good \in BOOLEAN
  BY DEF ProxyType
<1>3. p.ok /\ (p.first /\ ~p.resumed <=> kind = "snapshot")
        /\ (kind = "end" /\ p.full /\ reason # "superseded" => reason = p.reason) => good
  OBVIOUS
<1>4. /\ full <=> p.full \/ kind \in {"snapshot", "state"}
      /\ why = IF kind \in {"snapshot", "state"} THEN reason ELSE p.reason
  OBVIOUS
<1> HIDE DEF full, why, good
<1>5. q \in ProxyType /\ ~q.first /\ q.full = full /\ q.reason = why /\ q.ok = good
  BY <1>2 DEF ProxyType
<1> HIDE DEF q
<1> QED BY <1>1, <1>3, <1>4, <1>5

\* What a row says of its run's end.
LEMMA EndReasonIs ==
  ASSUME NEW row \in TaskRow
  PROVE  EndReason(row) \in Reason
BY DEF EndReason, TaskRow, Reason, Settled, None

\* An event is sent: the next of the run, and an artifact's row is the one before it.
LEMMA EventHolds ==
  ASSUME NEW s, NEW g, NEW p, NEW ev, NEW now, ClientHolds(s, g, p, ev, now), LogHolds(ev, now),
         s.pc = "next", s.snap = 0, s.pend # {},
         NEW m, m = First(s.pend),
         NEW t, t \in SubType, t.pc = "next", t.run = s.run, t.after = s.after, t.snap = s.snap,
         t.pend = s.pend \ {m}, t.hist = s.hist, t.items = s.items
  PROVE  /\ m \in 1..Len(ev)
         /\ ClientHolds(t, [g EXCEPT !.ids = Append(@, m)],
                        Projected(p, ev[m].kind, EndReason(ev[m].row)), ev, now)
<1> DEFINE h == [g EXCEPT !.ids = Append(@, m)]
           e == End(g)
           q == Projected(p, ev[m].kind, EndReason(ev[m].row))
<1>1. /\ s \in SubType /\ g \in GotType /\ p \in ProxyType /\ p.ok /\ Len(ev) \in Nat
      /\ g.run = s.run /\ g.run <= now.run /\ g.ids \in Seq(Nat) /\ g.ids # <<>> /\ g.from \in Nat
      /\ e \in 1..Len(ev) /\ ev[e].run = g.run
      /\ e <= s.after /\ s.after \in Nat /\ s.after <= Len(ev)
      /\ s.pend = {i \in Among(ev, s.run, e) : i <= s.after}
      /\ (p.first => p.resumed) /\ (p.full => p.reason = EndReason(ev[e].row))
      /\ (s.hist => now.run > s.run /\ s.items = 0)
  BY DEF ClientHolds, HasAll, Serves, SubType, GotType, LogHolds
<1>2. s.pend \in SUBSET (1..Len(ev)) /\ s.pend \in SUBSET Nat
  BY <1>1 DEF Among
<1>3. m \in s.pend /\ \A j \in s.pend : m <= j
  BY <1>2, FirstIs
<1>4. m \in 1..Len(ev) /\ m > e /\ ev[m].run = g.run /\ m <= s.after
  BY <1>1, <1>3 DEF Among
<1>5. h \in GotType /\ h.run = g.run /\ h.from = g.from /\ h.ids = Append(g.ids, m)
  <2>1. Append(g.ids, m) \in Seq(Nat)
    BY <1>1, <1>4
  <2> QED BY <1>1, <2>1 DEF GotType
<1> HIDE DEF h
<1> DEFINE n == Len(g.ids)
<1>6. /\ n \in Nat /\ n > 0 /\ Len(h.ids) = n + 1 /\ h.ids[n + 1] = m /\ h.ids # <<>>
      /\ \A i \in 1..n : h.ids[i] = g.ids[i] /\ g.ids[i] \in Nat
      /\ e = g.ids[n] /\ End(h) = m
  <2>3. n \in Nat /\ n > 0
    BY <1>1
  <2>4. Len(h.ids) = n + 1 /\ h.ids[n + 1] = m /\ h.ids # <<>>
    <3>1. m \in Nat /\ g.ids \in Seq(Nat)
      BY <1>1, <1>4
    <3>2. /\ Len(Append(g.ids, m)) = Len(g.ids) + 1 /\ Append(g.ids, m)[Len(g.ids) + 1] = m
          /\ Append(g.ids, m) # <<>>
      BY <3>1
    <3> QED BY <1>5, <3>2
  <2>1. n \in Nat /\ n > 0 /\ Len(h.ids) = n + 1 /\ h.ids[n + 1] = m /\ h.ids # <<>>
    BY <2>3, <2>4
  <2>2. \A i \in 1..n : h.ids[i] = g.ids[i] /\ g.ids[i] \in Nat
    BY <1>1, <1>4, <1>5
  <2> QED BY <2>1, <2>2 DEF End
<1>7. \A i, j \in 1..n : i < j => g.ids[i] < g.ids[j]
  BY DEF ClientHolds, HasAll
<1>8. {g.ids[i] : i \in 1..n} = {i \in Among(ev, g.run, 0) : g.from <= i /\ i <= e}
  BY <1>1 DEF ClientHolds, HasAll
<1> HIDE DEF n, e
<1>9. \A i \in 1..n : g.ids[i] <= e
  <2>1. ASSUME NEW i \in 1..n PROVE g.ids[i] <= e
    <3>1. i < n \/ i = n
      BY <1>6
    <3>2. n \in 1..n
      BY <1>6
    <3>3. g.ids[i] \in Nat /\ e \in Nat
      BY <1>6, <3>2
    <3>4. CASE i < n
      <4>1. g.ids[i] < g.ids[n]
        BY <1>7, <3>2, <3>4
      <4> QED BY <1>6, <3>3, <4>1
    <3>5. CASE i = n
      BY <1>6, <3>3, <3>5
    <3> QED BY <3>1, <3>4, <3>5
  <2> QED BY <2>1
<1>10. ASSUME NEW i \in 1..(n + 1), NEW j \in 1..(n + 1), i < j PROVE h.ids[i] < h.ids[j]
  <2>1. i \in 1..n /\ (j \in 1..n \/ j = n + 1)
    BY <1>6, <1>10
  <2>2. CASE j \in 1..n
    BY <1>6, <1>7, <1>10, <2>1, <2>2
  <2>3. CASE j = n + 1
    <3>1. g.ids[i] <= e /\ g.ids[i] \in Nat /\ e \in Nat /\ m \in Nat
      BY <1>1, <1>4, <1>6, <1>9, <2>1
    <3> QED BY <1>4, <1>6, <2>1, <2>3, <3>1
  <2> QED BY <2>1, <2>2, <2>3
<1>11. {h.ids[i] : i \in 1..(n + 1)} = {i \in Among(ev, g.run, 0) : g.from <= i /\ i <= m}
  <2>1. {h.ids[i] : i \in 1..(n + 1)} = {g.ids[i] : i \in 1..n} \union {m}
    <3>1. \A i \in 1..(n + 1) : i \in 1..n \/ i = n + 1
      BY <1>6
    <3>2. n + 1 \in 1..(n + 1) /\ \A i \in 1..n : i \in 1..(n + 1)
      BY <1>6
    <3> QED BY <1>6, <3>1, <3>2
  <2>2. g.from <= e
    <3>1. e \in {g.ids[i] : i \in 1..n}
      BY <1>6
    <3> QED BY <1>8, <3>1
  <2>3. m \in Among(ev, g.run, 0) /\ g.from <= m
    BY <1>1, <1>4, <2>2 DEF Among
  <2>4. ASSUME NEW i \in Among(ev, g.run, 0), i <= m PROVE i <= e \/ i = m
    <3>1. i \in 1..Len(ev) /\ ev[i].run = s.run /\ i \in Nat
      BY <1>1, <2>4 DEF Among
    <3>2. CASE i > e
      <4>1. i \in s.pend
        BY <1>1, <1>4, <2>4, <3>1, <3>2 DEF Among
      <4> QED BY <1>3, <1>4, <2>4, <3>1, <4>1
    <3> QED BY <1>1, <3>1, <3>2
  <2>5. \A i \in Among(ev, g.run, 0) : i \in Nat
    BY DEF Among
  <2>6. e <= m /\ e \in Nat /\ m \in Nat
    BY <1>1, <1>4
  <2> QED BY <1>8, <2>1, <2>3, <2>4, <2>5, <2>6
<1>12. HasAll(h, ev, now)
  <2>1. h.run <= now.run /\ End(h) \in 1..Len(ev) /\ ev[End(h)].run = h.run
    BY <1>1, <1>4, <1>5, <1>6
  <2>2. {h.ids[i] : i \in 1..Len(h.ids)} = {i \in Among(ev, h.run, 0) : h.from <= i /\ i <= End(h)}
    BY <1>5, <1>6, <1>11
  <2>3. \A i, j \in 1..Len(h.ids) : i < j => h.ids[i] < h.ids[j]
    BY <1>6, <1>10
  <2> QED BY <2>1, <2>2, <2>3 DEF HasAll
<1>13. t.pend = {i \in Among(ev, t.run, m) : i <= t.after}
  <2>1. ASSUME NEW i \in 1..Len(ev), ev[i].run = s.run, i <= s.after PROVE i > e /\ i # m <=> i > m
    <3>1. i > e => m <= i
      BY <1>1, <1>3, <2>1 DEF Among
    <3> QED BY <1>1, <1>4, <3>1
  <2>2. Among(ev, s.run, e) = {i \in 1..Len(ev) : i > e /\ ev[i].run = s.run}
        /\ Among(ev, s.run, m) = {i \in 1..Len(ev) : i > m /\ ev[i].run = s.run}
    BY DEF Among
  <2> QED BY <1>1, <2>1, <2>2
<1>14. ev[m] \in EventType /\ ev[m].kind \in {"state", "artifact"} /\ EndReason(ev[m].row) \in Reason
  <2>1. ev \in Seq(EventType)
    BY DEF LogHolds
  <2>2. ev[m] \in EventType
    BY <1>4, <2>1
  <2> QED BY <2>2, EndReasonIs DEF EventType
<1>15. ev[m].kind = "artifact" => ev[m].row = ev[e].row
  <2>1. SUFFICES ASSUME ev[m].kind = "artifact" PROVE ev[m].row = ev[e].row
    OBVIOUS
  <2>2. ev[m].row = ev[m - 1].row
    BY <1>1, <1>4, <2>1 DEF LogHolds
  <2>3. m - 1 = e
    <3>1. SUFFICES ASSUME e < m - 1 PROVE FALSE
      BY <1>1, <1>4
    <3>2. e + 1 \in 1..Len(ev) /\ e < e + 1 /\ e + 1 < m
      BY <1>1, <1>4, <3>1
    <3>3. ev[e].run <= ev[e + 1].run /\ ev[e + 1].run <= ev[m].run
      BY <1>1, <1>4, <3>2 DEF LogHolds
    <3>4. ev[e + 1].run \in Nat /\ g.run \in Nat
      <4>1. ev \in Seq(EventType)
        BY DEF LogHolds
      <4>2. ev[e + 1] \in EventType
        BY <3>2, <4>1
      <4> QED BY <1>1, <4>2 DEF EventType, GotType
    <3>5. ev[e + 1].run = s.run
      BY <1>1, <1>4, <3>3, <3>4
    <3>6. e + 1 \in s.pend
      BY <1>1, <1>4, <3>2, <3>5 DEF Among
    <3> QED BY <1>3, <1>4, <3>2, <3>6
  <2> QED BY <2>2, <2>3
<1>16. /\ q \in ProxyType /\ ~q.first /\ q.ok
       /\ q.full => q.reason = EndReason(ev[m].row)
  BY <1>1, <1>14, <1>15, ProjectedIs
<1> HIDE DEF q
<1>17. Serves(t, h, q, ev, now)
  BY <1>1, <1>4, <1>5, <1>6, <1>13, <1>16 DEF Serves
<1> QED BY <1>4, <1>5, <1>12, <1>16, <1>17 DEF ClientHolds, h, q

\* The snapshot is sent.
LEMMA SnapshotHolds ==
  ASSUME NEW s, NEW g, NEW p, NEW ev, NEW now, ClientHolds(s, g, p, ev, now), LogHolds(ev, now),
         s.pc = "next", s.snap > 0,
         NEW t, t \in SubType, t.pc = "next", t.run = s.run, t.after = s.after, t.snap = 0,
         t.pend = s.pend, t.hist = s.hist, t.items = s.items
  PROVE  ClientHolds(t, [g EXCEPT !.ids = <<s.snap>>],
                     Projected(p, "snapshot", EndReason(ev[s.snap].row)), ev, now)
<1> DEFINE m == s.snap
           h == [g EXCEPT !.ids = <<m>>]
           q == Projected(p, "snapshot", EndReason(ev[m].row))
<1>1. /\ g \in GotType /\ p \in ProxyType /\ p.ok /\ Len(ev) \in Nat /\ m # 0
      /\ g.run = s.run /\ g.run <= now.run /\ g.from = m /\ s.after = m /\ s.pend = {}
      /\ m \in 1..Len(ev) /\ ev[m].run = s.run /\ p.first /\ ~p.resumed
      /\ (s.hist => now.run > s.run /\ s.items = 0)
  BY DEF ClientHolds, HasAll, Serves, SubType, GotType, LogHolds
<1>2. ev[m] \in EventType /\ EndReason(ev[m].row) \in Reason
  <2>1. ev \in Seq(EventType)
    BY DEF LogHolds
  <2>2. ev[m] \in EventType
    BY <1>1, <2>1
  <2> QED BY <2>2, EndReasonIs DEF EventType
<1>3. q \in ProxyType /\ ~q.first /\ q.ok /\ q.reason = EndReason(ev[m].row)
  BY <1>1, <1>2, ProjectedIs
<1>4. h \in GotType /\ h.run = g.run /\ h.from = m /\ h.ids = <<m>>
  <2>1. <<m>> \in Seq(Nat)
    BY <1>1
  <2> QED BY <1>1, <2>1 DEF GotType
<1> HIDE DEF m, h, q
<1>5. Len(h.ids) = 1 /\ h.ids[1] = m /\ h.ids # <<>> /\ End(h) = m
  <2>1. Len(<<m>>) = 1 /\ <<m>>[1] = m /\ <<m>> # <<>>
    OBVIOUS
  <2> QED BY <1>4, <2>1 DEF End
<1>6. HasAll(h, ev, now)
  <2>1. {h.ids[i] : i \in 1..Len(h.ids)} = {m}
    <3>1. \A i \in 1..1 : i = 1
      OBVIOUS
    <3> QED BY <1>5, <3>1
  <2>2. {i \in Among(ev, g.run, 0) : m <= i /\ i <= m} = {m}
    <3>1. m \in Among(ev, g.run, 0)
      BY <1>1 DEF Among
    <3>2. \A i \in Among(ev, g.run, 0) : i \in Nat
      BY DEF Among
    <3>3. m \in Nat
      BY <1>1
    <3>4. \A i \in Nat : m <= i /\ i <= m <=> i = m
      BY <3>3
    <3> QED BY <3>1, <3>2, <3>4
  <2>3. \A i, j \in 1..Len(h.ids) : ~(i < j)
    BY <1>5
  <2> QED BY <1>1, <1>4, <1>5, <2>1, <2>2, <2>3 DEF HasAll
<1>7. {i \in Among(ev, t.run, m) : i <= m} = {}
  BY <1>1 DEF Among
<1>8. Serves(t, h, q, ev, now)
  BY <1>1, <1>3, <1>4, <1>5, <1>7 DEF Serves
<1> QED BY <1>3, <1>4, <1>6, <1>8 DEF ClientHolds, m, h, q

\* The last event of a drained stream with nothing left is the last of its run; and of
\* all, if the Task has not gone on: then the row says what the proxy has seen.
LEMMA NothingLeft ==
  ASSUME NEW s, NEW g, NEW p, NEW ev, NEW now, ClientHolds(s, g, p, ev, now), LogHolds(ev, now),
         s.pc = "next", s.snap = 0, s.pend = {}, Among(ev, s.run, s.after) = {}
  PROVE  /\ \A i \in Among(ev, g.run, 0) : i <= End(g)
         /\ ~(now.run > s.run) => ev[End(g)].row = now
<1>1. /\ s.run = g.run /\ End(g) \in 1..Len(ev) /\ ev[End(g)].run = s.run
      /\ Among(ev, s.run, End(g)) = {}
  BY DrainedIs
<1>2. Len(ev) \in Nat /\ now.run \in Nat /\ s.run \in Nat /\ s.run <= now.run
  BY <1>1 DEF ClientHolds, HasAll, LogHolds, SubType, TaskRow
<1>3. ASSUME NEW i \in Among(ev, g.run, 0) PROVE i <= End(g)
  <2>1. i \in 1..Len(ev) /\ ev[i].run = s.run
    BY <1>1, <1>3 DEF Among
  <2>2. ~(i > End(g))
    BY <1>1, <2>1 DEF Among
  <2> QED BY <1>1, <2>1, <2>2
<1>4. ASSUME ~(now.run > s.run) PROVE ev[End(g)].row = now
  <2> DEFINE n == Len(ev)
  <2>1. n \in 1..n /\ n > 0
    BY <1>1, <1>2
  <2>2. ev[n].row = now /\ ev[n].run = ev[n].row.run
    BY <2>1 DEF LogHolds
  <2>3. ev[n].run = s.run
    BY <1>2, <1>4, <2>2
  <2>4. n \in Among(ev, g.run, 0)
    BY <1>1, <2>1, <2>3 DEF Among
  <2>5. End(g) = n
    BY <1>1, <1>3, <2>1, <2>4
  <2> QED BY <2>2, <2>5
<1> QED BY <1>3, <1>4

\* A connection that is closed holds nothing.
LEMMA ClosedHolds ==
  ASSUME StreamAssumption, NEW s, NEW g, NEW p, NEW ev, NEW now, ClientHolds(s, g, p, ev, now),
         NEW q \in ProxyType, q.ok
  PROVE  Closed \in SubType /\ ClientHolds(Closed, g, q, ev, now)
<1>1. 0 \in 0..MaxPending
  BY DEF StreamAssumption
<1>2. Closed \in SubType /\ Closed.pc = "closed" /\ ~Closed.hist /\ Closed.items = 0
  BY <1>1 DEF Closed, SubType, Reason, None
<1> QED BY <1>2 DEF ClientHolds, Serves

(* The steps.                                                              *)

\* A step of one client's connection.
LEMMA ClientStep ==
  ASSUME StreamInv, NEW c \in Clients, UNCHANGED <<task, events>>,
         NEW t, sub' = [sub EXCEPT ![c] = t], NEW g, got' = [got EXCEPT ![c] = g],
         NEW p, proxy' = [proxy EXCEPT ![c] = p], told' \in [Clients -> Reason],
         ClientHolds(t, g, p, events, task)
  PROVE  StreamInv'
<1>1. t \in SubType /\ g \in GotType /\ p \in ProxyType
  BY DEF ClientHolds
<1>2. /\ sub' \in [Clients -> SubType] /\ got' \in [Clients -> GotType]
      /\ proxy' \in [Clients -> ProxyType]
  BY <1>1 DEF StreamInv
<1>3. ASSUME NEW x \in Clients PROVE ClientHolds(sub'[x], got'[x], proxy'[x], events', task')
  <2>1. CASE x = c
    BY <2>1 DEF StreamInv
  <2>2. CASE x # c
    BY <2>2 DEF StreamInv
  <2> QED BY <2>1, <2>2
<1> QED BY <1>2, <1>3 DEF StreamInv

\* A commit, with the wakeups of whoever is to be woken (_commit_durable_locked).
LEMMA CommitStep ==
  ASSUME StreamInv, NEW kind \in {"state", "artifact"}, NEW row \in TaskRow,
         task.run <= row.run, row.run <= MaxRuns, kind = "artifact" => row = task,
         Commit(kind, row)
  PROVE  StreamInv'
<1>1. LogHolds(events, task)
  BY DEF StreamInv
<1>2. task' = row /\ events' = Append(events, Event(kind, row))
      /\ UNCHANGED <<got, proxy, told>>
      /\ sub' = [c \in Clients |-> IF Subscribed(c) /\ row.run >= sub[c].run
                                   THEN [sub[c] EXCEPT !.wake = TRUE] ELSE sub[c]]
  BY DEF Commit
<1>3. LogHolds(events', task')
  BY <1>1, <1>2, LogGrows
<1>4. Len(events) <= Len(events') /\ \A i \in 1..Len(events) : events'[i] = events[i]
  <2>1. events \in Seq(EventType) /\ Event(kind, row) \in EventType
    BY <1>1 DEF LogHolds, Event, EventType, TaskRow
  <2> QED BY <1>2, <2>1
<1>5. ASSUME NEW c \in Clients
      PROVE  ClientHolds(sub'[c], got'[c], proxy'[c], events', task') /\ sub'[c] \in SubType
  <2>1. ClientHolds(sub[c], got[c], proxy[c], events, task) /\ sub[c] \in SubType
    BY DEF StreamInv
  <2> DEFINE t == sub'[c]
  <2>2. /\ t \in SubType /\ t.pc = sub[c].pc /\ t.run = sub[c].run /\ t.after = sub[c].after
        /\ t.snap = sub[c].snap /\ t.pend = sub[c].pend /\ t.hist = sub[c].hist /\ t.items = sub[c].items
    BY <1>2, <2>1 DEF SubType
  <2> HIDE DEF t
  <2>3. ClientHolds(t, got[c], proxy[c], events', task')
    BY <1>1, <1>2, <1>3, <1>4, <2>1, <2>2, ClientKeeps
  <2> QED BY <1>2, <2>2, <2>3 DEF t
<1>6. sub' \in [Clients -> SubType]
  BY <1>2, <1>5
<1> QED BY <1>2, <1>3, <1>5, <1>6 DEF StreamInv

\* Whoever writes the row.
LEMMA WritersHold ==
  ASSUME StreamAssumption, StreamInv, BeginRun \/ EndRun \/ PublishArtifact \/ MirrorReview
  PROVE  StreamInv'
<1>1. task \in TaskRow /\ task.run \in Nat /\ task.run <= MaxRuns /\ MaxRuns \in Nat
  BY DEF StreamInv, LogHolds, TaskRow, StreamAssumption
<1>2. CASE BeginRun
  <2> DEFINE row == [task EXCEPT !.run = @ + 1, !.st = "running"]
  <2>1. row \in TaskRow /\ row.run = task.run + 1
    <3>1. task.run + 1 \in Nat /\ "running" \in {"pending", "running", "waiting"} \union Settled
      BY <1>1
    <3> QED BY <1>1, <3>1 DEF TaskRow
  <2>2. Commit("state", row) /\ task.run < MaxRuns
    BY <1>2 DEF BeginRun
  <2> HIDE DEF row
  <2> QED BY <1>1, <2>1, <2>2, CommitStep
<1>3. CASE EndRun
  <2>1. PICK st \in Settled \union {"waiting"} : Commit("state", [task EXCEPT !.st = st])
    BY <1>3 DEF EndRun
  <2> DEFINE row == [task EXCEPT !.st = st]
  <2>2. row \in TaskRow /\ row.run = task.run
    BY <1>1 DEF TaskRow
  <2>3. Commit("state", row)
    BY <2>1
  <2> HIDE DEF row
  <2> QED BY <1>1, <2>2, <2>3, CommitStep
<1>4. CASE PublishArtifact
  BY <1>1, <1>4, CommitStep DEF PublishArtifact
<1>5. CASE MirrorReview
  <2> DEFINE row == [task EXCEPT !.review = ~@]
  <2>1. row \in TaskRow /\ row.run = task.run
    BY <1>1 DEF TaskRow
  <2>2. Commit("state", row)
    BY <1>5 DEF MirrorReview
  <2> HIDE DEF row
  <2> QED BY <1>1, <2>1, <2>2, CommitStep
<1> QED BY <1>2, <1>3, <1>4, <1>5

\* A delta is queued, never on a stream of the past.
LEMMA PublishDeltaHolds ==
  ASSUME StreamAssumption, StreamInv, PublishDelta
  PROVE  StreamInv'
<1>1. /\ UNCHANGED <<task, events, proxy, got, told>>
      /\ sub' = [c \in Clients |->
                   IF Subscribed(c) /\ sub[c].run = task.run /\ sub[c].items < MaxPending
                   THEN [sub[c] EXCEPT !.items = @ + 1, !.wake = TRUE] ELSE sub[c]]
  BY DEF PublishDelta
<1>2. LogHolds(events, task) /\ MaxPending \in Nat
  BY DEF StreamInv, StreamAssumption
<1>3. ASSUME NEW c \in Clients
      PROVE  ClientHolds(sub'[c], got'[c], proxy'[c], events', task') /\ sub'[c] \in SubType
  <2>1. ClientHolds(sub[c], got[c], proxy[c], events, task) /\ sub[c] \in SubType
    BY DEF StreamInv
  <2> DEFINE t == sub'[c]
  <2>2. /\ t \in SubType /\ t.pc = sub[c].pc /\ t.run = sub[c].run /\ t.after = sub[c].after
        /\ t.snap = sub[c].snap /\ t.pend = sub[c].pend /\ t.hist = sub[c].hist
        /\ (sub[c].pc = "closed" \/ sub[c].hist => t.items = sub[c].items)
    <3>1. CASE Subscribed(c) /\ sub[c].run = task.run /\ sub[c].items < MaxPending
      <4>1. t = [sub[c] EXCEPT !.items = @ + 1, !.wake = TRUE]
        BY <1>1, <3>1
      <4>2. sub[c].items + 1 \in 0..MaxPending
        BY <1>2, <2>1, <3>1 DEF SubType
      <4> HIDE DEF t
      <4> QED BY <2>1, <3>1, <4>1, <4>2 DEF SubType, Subscribed
    <3>2. CASE ~(Subscribed(c) /\ sub[c].run = task.run /\ sub[c].items < MaxPending)
      BY <1>1, <2>1, <3>2
    <3> QED BY <3>1, <3>2
  <2> HIDE DEF t
  <2>3. task.run \in Nat /\ Len(events) \in Nat
    BY <1>2 DEF LogHolds, TaskRow
  <2>4. ClientHolds(t, got[c], proxy[c], events, task)
    BY <1>2, <2>1, <2>2, <2>3, ClientKeeps
  <2> QED BY <1>1, <2>2, <2>4 DEF t
<1>4. sub' \in [Clients -> SubType]
  BY <1>1, <1>3
<1> QED BY <1>1, <1>3, <1>4 DEF StreamInv

\* The steps that send of the log.
LEMMA SnapshotStepHolds ==
  ASSUME StreamInv, NEW c \in Clients, DeliverSnapshot(c)
  PROVE  StreamInv'
<1> DEFINE s == sub[c]
           reason == EndReason(events[s.snap].row)
           t == [Observe(s, reason, TRUE) EXCEPT !.snap = 0]
           g == [got[c] EXCEPT !.ids = <<s.snap>>]
           p == Projected(proxy[c], "snapshot", reason)
<1>1. ClientHolds(s, got[c], proxy[c], events, task) /\ LogHolds(events, task) /\ s \in SubType
  BY DEF StreamInv
<1>2. /\ s.pc = "next" /\ s.snap > 0 /\ UNCHANGED <<task, events, told>>
      /\ sub' = [sub EXCEPT ![c] = t] /\ got' = [got EXCEPT ![c].ids = <<s.snap>>]
      /\ Sent(c, "snapshot", reason)
  BY DEF DeliverSnapshot
<1>3. got' = [got EXCEPT ![c] = g] /\ proxy' = [proxy EXCEPT ![c] = p]
  BY <1>2 DEF Sent
<1>4. reason \in Reason
  <2>1. s.snap \in 1..Len(events) /\ events \in Seq(EventType)
    BY <1>1, <1>2 DEF ClientHolds, Serves, SubType, LogHolds
  <2>2. events[s.snap] \in EventType
    BY <2>1
  <2> QED BY <2>2, EndReasonIs DEF EventType
<1>5. /\ t \in SubType /\ t.pc = "next" /\ t.run = s.run /\ t.after = s.after /\ t.snap = 0
      /\ t.pend = s.pend /\ t.hist = s.hist /\ t.items = s.items
  <2> HIDE DEF reason, s
  <2> DEFINE o == Observe(s, reason, TRUE)
  <2>1. /\ o \in SubType /\ o.pc = s.pc /\ o.run = s.run /\ o.after = s.after
        /\ o.pend = s.pend /\ o.hist = s.hist /\ o.items = s.items
    BY <1>1, <1>4 DEF Observe, SubType
  <2> HIDE DEF o
  <2>2. t = [o EXCEPT !.snap = 0]
    BY DEF o
  <2> HIDE DEF t
  <2> QED BY <1>2, <2>1, <2>2 DEF SubType
<1>6. ClientHolds(t, g, p, events, task)
  <2> HIDE DEF t
  <2> QED BY <1>1, <1>2, <1>5, SnapshotHolds
<1>7. told' \in [Clients -> Reason]
  BY <1>2 DEF StreamInv
<1> HIDE DEF t, g, p
<1> QED BY <1>2, <1>3, <1>6, <1>7, ClientStep

LEMMA EventStepHolds ==
  ASSUME StreamInv, NEW c \in Clients, DeliverEvent(c)
  PROVE  StreamInv'
<1> DEFINE s == sub[c]
           m == First(s.pend)
           e == events[m]
           reason == EndReason(e.row)
           t == [Observe(s, reason, e.kind = "state") EXCEPT !.pend = @ \ {First(@)}]
           g == [got[c] EXCEPT !.ids = Append(@, m)]
           p == Projected(proxy[c], e.kind, reason)
<1>1. ClientHolds(s, got[c], proxy[c], events, task) /\ LogHolds(events, task) /\ s \in SubType
  BY DEF StreamInv
<1>2. /\ s.pc = "next" /\ s.snap = 0 /\ s.pend # {} /\ UNCHANGED <<task, events, told>>
      /\ sub' = [sub EXCEPT ![c] = t] /\ got' = [got EXCEPT ![c].ids = Append(@, m)]
      /\ Sent(c, e.kind, reason)
  BY DEF DeliverEvent
<1>3. got' = [got EXCEPT ![c] = g] /\ proxy' = [proxy EXCEPT ![c] = p]
  BY <1>2 DEF Sent
<1>4. reason \in Reason
  <2>1. s.pend \in SUBSET Nat /\ s.pend \in SUBSET (1..Len(events)) /\ events \in Seq(EventType)
    BY <1>1, <1>2 DEF ClientHolds, Serves, SubType, LogHolds, Among
  <2>2. m \in 1..Len(events)
    BY <1>2, <2>1, FirstIs
  <2>3. e \in EventType
    BY <2>1, <2>2
  <2> QED BY <2>3, EndReasonIs DEF EventType
<1>5. /\ t \in SubType /\ t.pc = "next" /\ t.run = s.run /\ t.after = s.after /\ t.snap = s.snap
      /\ t.pend = s.pend \ {m} /\ t.hist = s.hist /\ t.items = s.items
  <2> DEFINE full == e.kind = "state"
             o == Observe(s, reason, full)
  <2>1. /\ o \in SubType /\ o.pc = s.pc /\ o.run = s.run /\ o.after = s.after /\ o.snap = s.snap
        /\ o.pend = s.pend /\ o.hist = s.hist /\ o.items = s.items
    <3> HIDE DEF full, reason, s
    <3> QED BY <1>1, <1>4 DEF Observe, SubType
  <2> HIDE DEF o, s
  <2>2. t = [o EXCEPT !.pend = s.pend \ {m}]
    BY <2>1 DEF o
  <2> HIDE DEF t, m
  <2> QED BY <1>2, <2>1, <2>2 DEF SubType
<1>6. ClientHolds(t, g, p, events, task)
  <2> HIDE DEF t
  <2> QED BY <1>1, <1>2, <1>5, EventHolds
<1>7. told' \in [Clients -> Reason]
  BY <1>2 DEF StreamInv
<1> HIDE DEF t, g, p
<1> QED BY <1>2, <1>3, <1>6, <1>7, ClientStep

\* What is unread of a run (_queue_stored_events).
LEMMA MoreIs ==
  ASSUME NEW c \in Clients
  PROVE  More(c) = Following(Among(events, sub[c].run, sub[c].after))
BY DEF More, Of, Among

\* The connection that is given it.
LEMMA QueuedIs ==
  ASSUME StreamAssumption, StreamInv, NEW c \in Clients, NEW s \in SubType,
         s.run = sub[c].run, s.after = sub[c].after, More(c) # {}
  PROVE  /\ Queued(s, More(c)) \in SubType
         /\ LET t == Queued(s, More(c)) IN
              /\ t.pc = "next" /\ t.run = s.run /\ t.after = Latest(More(c)) /\ t.snap = s.snap
              /\ t.pend = More(c) /\ t.hist = s.hist /\ t.items = s.items
<1> DEFINE S == Among(events, sub[c].run, sub[c].after)
           n == Len(events)
<1>1. S \in SUBSET (1..n) /\ n \in Nat
  BY DEF Among, StreamInv, LogHolds
<1>2. PICK more : more = More(c)
  OBVIOUS
<1>3. more = Following(S)
  BY <1>2, MoreIs
<1> HIDE DEF S, n
<1>4. more \in SUBSET (1..n) /\ more # {}
  BY <1>1, <1>2, <1>3, FollowingIs
<1>5. Latest(more) \in Nat /\ more \in SUBSET Nat
  <2>1. Latest(more) \in 1..n
    BY <1>1, <1>4, LatestIs
  <2> QED BY <1>1, <1>4, <2>1
<1> DEFINE last == Latest(more)
           t == [s EXCEPT !.pend = more, !.after = last, !.pc = "next"]
<1>6. Queued(s, more) = t
  BY DEF Queued
<1>7. last \in Nat /\ last = Latest(more)
  BY <1>5
<1> HIDE DEF last
<1>8. /\ t \in SubType /\ t.pc = "next" /\ t.run = s.run /\ t.after = last /\ t.snap = s.snap
      /\ t.pend = more /\ t.hist = s.hist /\ t.items = s.items
  BY <1>5, <1>7 DEF SubType
<1> HIDE DEF t
<1> QED BY <1>2, <1>6, <1>7, <1>8

\* A step of a connection that sends its client nothing of the log.
LEMMA ConnectionStep ==
  ASSUME StreamInv, NEW c \in Clients, UNCHANGED <<task, events, got>>,
         NEW t, sub' = [sub EXCEPT ![c] = t],
         NEW p, proxy' = [proxy EXCEPT ![c] = p], told' \in [Clients -> Reason],
         ClientHolds(t, got[c], p, events, task)
  PROVE  StreamInv'
<1>1. got' = [got EXCEPT ![c] = got[c]]
  BY DEF StreamInv
<1> QED BY <1>1, ClientStep

\* The steps between two sends.
LEMMA LooksHold ==
  ASSUME StreamAssumption, StreamInv, NEW c \in Clients,
         TakeItem(c) \/ ReadEvents(c) \/ ReadRow(c) \/ ReadAgain(c) \/ Wake(c)
  PROVE  StreamInv'
<1> DEFINE s == sub[c]
           reason == IF task.run > s.run \/ s.hist THEN "superseded" ELSE EndReason(task)
<1>1. /\ ClientHolds(s, got[c], proxy[c], events, task) /\ LogHolds(events, task)
      /\ s \in SubType /\ proxy[c] \in ProxyType /\ told \in [Clients -> Reason]
      /\ proxy = [proxy EXCEPT ![c] = proxy[c]]
  BY DEF StreamInv
<1>2. /\ s.pc # "closed" /\ s.snap = 0 /\ s.pend = {}
      /\ proxy[c].ok /\ (proxy[c].first => proxy[c].resumed) /\ (s.hist => s.items = 0)
  BY <1>1 DEF TakeItem, Drained, ReadEvents, ReadRow, ReadAgain, Wake, ClientHolds, Serves
<1>3. reason \in Reason
  <2>1. task \in TaskRow
    BY <1>1 DEF LogHolds
  <2> QED BY <2>1, EndReasonIs DEF Reason
<1>4. ASSUME NEW t \in SubType, t.pc # "closed", t.run = s.run, t.after = s.after, t.snap = s.snap,
             t.pend = s.pend, t.hist = s.hist, t.hist => t.items = 0,
             sub' = [sub EXCEPT ![c] = t], UNCHANGED <<task, events, got, told, proxy>>
      PROVE  StreamInv'
  <2>1. ClientHolds(t, got[c], proxy[c], events, task)
    BY <1>1, <1>2, <1>4, QuietHolds
  <2> QED BY <1>1, <1>4, <2>1, ConnectionStep
<1>5. ASSUME NEW t \in SubType, More(c) # {}, t.pc = "next", t.run = s.run,
             t.after = Latest(More(c)), t.snap = s.snap,
             t.pend = More(c), t.hist = s.hist, t.items = s.items,
             sub' = [sub EXCEPT ![c] = t], UNCHANGED <<task, events, got, told, proxy>>
      PROVE  StreamInv'
  <2>1. PICK more : more = More(c)
    OBVIOUS
  <2>2. more = Following(Among(events, s.run, s.after))
    BY <2>1, MoreIs
  <2>3. ClientHolds(t, got[c], proxy[c], events, task)
    BY <1>1, <1>2, <1>5, <2>1, <2>2, QueueHolds
  <2> QED BY <1>1, <1>5, <2>3, ConnectionStep
<1>6. CASE TakeItem(c)
  <2>1. UNCHANGED <<task, events, got, told>>
    BY <1>6 DEF TakeItem
  <2>2. CASE s.items = 0
    <3> DEFINE wake == IF s.hist THEN s.wake ELSE FALSE
               t == [s EXCEPT !.pc = "events", !.wake = wake]
    <3>1. sub' = [sub EXCEPT ![c] = t] /\ UNCHANGED proxy
      BY <1>6, <2>2 DEF TakeItem
    <3>2. wake \in BOOLEAN
      BY <1>1 DEF SubType
    <3> HIDE DEF wake
    <3>3. /\ t \in SubType /\ t.pc = "events" /\ t.run = s.run /\ t.after = s.after /\ t.snap = s.snap
          /\ t.pend = s.pend /\ t.hist = s.hist /\ t.items = s.items
      <4> HIDE DEF s
      <4> QED BY <1>1, <3>2 DEF SubType
    <3> HIDE DEF t
    <3> QED BY <1>2, <1>4, <2>1, <3>1, <3>3
  <2>3. CASE s.items # 0
    <3> DEFINE wake == s.wake /\ s.items > 1
               less == s.items - 1
               t == [s EXCEPT !.items = less, !.wake = wake]
               p == Projected(proxy[c], "delta", None)
    <3>1. sub' = [sub EXCEPT ![c] = t] /\ proxy' = [proxy EXCEPT ![c] = p]
      BY <1>6, <2>3 DEF TakeItem, Sent
    <3>2. wake \in BOOLEAN /\ less \in 0..MaxPending
      <4>1. s.items \in 0..MaxPending /\ s.wake \in BOOLEAN /\ MaxPending \in Nat
        BY <1>1 DEF SubType, StreamAssumption
      <4> QED BY <2>3, <4>1
    <3> HIDE DEF wake, less
    <3>3. /\ t \in SubType /\ t.pc = s.pc /\ t.run = s.run /\ t.after = s.after /\ t.snap = s.snap
          /\ t.pend = s.pend /\ t.hist = s.hist
      <4> HIDE DEF s
      <4> QED BY <1>1, <3>2 DEF SubType
    <3>4. /\ p \in ProxyType /\ ~p.first /\ (p.full <=> proxy[c].full)
          /\ p.reason = proxy[c].reason /\ p.ok
      <4>1. None \in Reason
        BY DEF Reason
      <4> QED BY <1>1, <1>2, <4>1, ProjectedIs
    <3> HIDE DEF t, p
    <3>5. ClientHolds(t, got[c], p, events, task)
      BY <1>1, <1>2, <2>3, <3>3, <3>4, QuietHolds
    <3>6. told' \in [Clients -> Reason]
      BY <1>1, <2>1
    <3> QED BY <2>1, <3>1, <3>5, <3>6, ConnectionStep
  <2> QED BY <2>2, <2>3
<1>7. CASE ReadEvents(c)
  <2>1. UNCHANGED <<task, events, got, told, proxy>>
    BY <1>7 DEF ReadEvents
  <2>2. CASE More(c) # {}
    <3> DEFINE t == Queued(s, More(c))
    <3>1. sub' = [sub EXCEPT ![c] = t]
      BY <1>7, <2>2 DEF ReadEvents
    <3>2. /\ t \in SubType /\ t.pc = "next" /\ t.run = s.run /\ t.after = Latest(More(c))
          /\ t.snap = s.snap /\ t.pend = More(c) /\ t.hist = s.hist /\ t.items = s.items
      BY <1>1, <2>2, QueuedIs
    <3> HIDE DEF t
    <3> QED BY <1>5, <2>1, <2>2, <3>1, <3>2
  <2>3. CASE More(c) = {}
    <3> DEFINE t == [s EXCEPT !.pc = "row"]
    <3>1. sub' = [sub EXCEPT ![c] = t]
      BY <1>7, <2>3 DEF ReadEvents
    <3>2. /\ t \in SubType /\ t.pc = "row" /\ t.run = s.run /\ t.after = s.after /\ t.snap = s.snap
          /\ t.pend = s.pend /\ t.hist = s.hist /\ t.items = s.items
      BY <1>1 DEF SubType
    <3> HIDE DEF t
    <3> QED BY <1>2, <1>4, <2>1, <3>1, <3>2
  <2> QED BY <2>2, <2>3
<1>8. CASE ReadRow(c)
  <2> DEFINE t == IF reason = None THEN [s EXCEPT !.pc = "wait"]
                  ELSE [s EXCEPT !.pc = "again", !.cand = reason]
  <2>1. UNCHANGED <<task, events, got, told, proxy>> /\ sub' = [sub EXCEPT ![c] = t]
    BY <1>8 DEF ReadRow
  <2>2. /\ t \in SubType /\ t.pc \in {"wait", "again"} /\ t.run = s.run /\ t.after = s.after
        /\ t.snap = s.snap /\ t.pend = s.pend /\ t.hist = s.hist /\ t.items = s.items
    <3> HIDE DEF reason, s
    <3> QED BY <1>1, <1>3 DEF SubType
  <2> HIDE DEF t
  <2> QED BY <1>2, <1>4, <2>1, <2>2
<1>9. CASE ReadAgain(c)
  <2>1. UNCHANGED <<task, events, got, told, proxy>>
    BY <1>9 DEF ReadAgain
  <2>2. CASE More(c) # {}
    <3> DEFINE o == Queued(s, More(c))
               t == [o EXCEPT !.cand = None]
    <3>1. sub' = [sub EXCEPT ![c] = t]
      BY <1>9, <2>2 DEF ReadAgain
    <3>2. /\ o \in SubType /\ o.pc = "next" /\ o.run = s.run /\ o.after = Latest(More(c))
          /\ o.snap = s.snap /\ o.pend = More(c) /\ o.hist = s.hist /\ o.items = s.items
      BY <1>1, <2>2, QueuedIs
    <3> HIDE DEF o
    <3>3. /\ t \in SubType /\ t.pc = "next" /\ t.run = s.run /\ t.after = Latest(More(c))
          /\ t.snap = s.snap /\ t.pend = More(c) /\ t.hist = s.hist /\ t.items = s.items
      BY <3>2 DEF SubType, Reason
    <3> HIDE DEF t
    <3> QED BY <1>5, <2>1, <2>2, <3>1, <3>3
  <2>3. CASE More(c) = {}
    <3> DEFINE cand == s.cand
               t == [s EXCEPT !.pc = "next", !.end = cand, !.cand = None]
    <3>1. sub' = [sub EXCEPT ![c] = t]
      BY <1>9, <2>3 DEF ReadAgain
    <3>2. cand \in Reason /\ None \in Reason
      BY <1>1 DEF SubType, Reason
    <3>3. /\ t \in SubType /\ t.pc = "next" /\ t.run = s.run /\ t.after = s.after /\ t.snap = s.snap
          /\ t.pend = s.pend /\ t.hist = s.hist /\ t.items = s.items
      <4> HIDE DEF cand, s
      <4> QED BY <1>1, <3>2 DEF SubType
    <3> HIDE DEF t
    <3> QED BY <1>2, <1>4, <2>1, <3>1, <3>3
  <2> QED BY <2>2, <2>3
<1>10. CASE Wake(c)
  <2> DEFINE t == [s EXCEPT !.pc = "next"]
  <2>1. UNCHANGED <<task, events, got, told, proxy>> /\ sub' = [sub EXCEPT ![c] = t]
    BY <1>10 DEF Wake
  <2>2. /\ t \in SubType /\ t.pc = "next" /\ t.run = s.run /\ t.after = s.after
        /\ t.snap = s.snap /\ t.pend = s.pend /\ t.hist = s.hist /\ t.items = s.items
    BY <1>1 DEF SubType
  <2> HIDE DEF t
  <2> QED BY <1>2, <1>4, <2>1, <2>2
<1> QED BY <1>6, <1>7, <1>8, <1>9, <1>10

\* The end: what is sent as its reason is what the proxy expects.
LEMMA FinalHolds ==
  ASSUME StreamAssumption, StreamInv, NEW c \in Clients, Final(c)
  PROVE  StreamInv'
<1> DEFINE s == sub[c]
           reason == IF task.run > s.run THEN "superseded" ELSE EndReason(task)
<1>1. /\ ClientHolds(s, got[c], proxy[c], events, task) /\ LogHolds(events, task)
      /\ s \in SubType /\ proxy[c] \in ProxyType /\ told \in [Clients -> Reason]
      /\ proxy = [proxy EXCEPT ![c] = proxy[c]]
  BY DEF StreamInv
<1>2. /\ s.pc = "next" /\ s.snap = 0 /\ s.pend = {} /\ UNCHANGED <<task, events, got>>
  BY DEF Final, Drained
<1>3. /\ proxy[c].ok /\ (proxy[c].first => proxy[c].resumed) /\ (s.hist => s.items = 0)
      /\ (proxy[c].full => proxy[c].reason = EndReason(events[End(got[c])].row))
  BY <1>1, <1>2 DEF ClientHolds, Serves
<1>4. reason \in Reason
  <2>1. task \in TaskRow
    BY <1>1 DEF LogHolds
  <2> QED BY <2>1, EndReasonIs DEF Reason
<1>5. CASE /\ More(c) # {} /\ sub' = [sub EXCEPT ![c] = Queued(s, More(c))]
           /\ UNCHANGED <<proxy, told>>
  <2> DEFINE t == Queued(s, More(c))
  <2>1. PICK more : more = More(c)
    OBVIOUS
  <2>2. more = Following(Among(events, s.run, s.after))
    BY <2>1, MoreIs
  <2>3. /\ t \in SubType /\ t.pc = "next" /\ t.run = s.run /\ t.after = Latest(more)
        /\ t.snap = s.snap /\ t.pend = more /\ t.hist = s.hist /\ t.items = s.items
    BY <1>1, <1>5, <2>1, QueuedIs
  <2> HIDE DEF t
  <2>4. ClientHolds(t, got[c], proxy[c], events, task)
    BY <1>1, <1>2, <1>5, <2>1, <2>2, <2>3, QueueHolds
  <2>5. sub' = [sub EXCEPT ![c] = t]
    BY <1>5 DEF t
  <2> QED BY <1>1, <1>2, <1>5, <2>4, <2>5, ConnectionStep
<1>6. CASE sub' = [sub EXCEPT ![c].end = None] /\ UNCHANGED <<proxy, told>>
  <2> DEFINE t == [s EXCEPT !.end = None]
  <2>1. /\ t \in SubType /\ t.pc = "next" /\ t.run = s.run /\ t.after = s.after
        /\ t.snap = s.snap /\ t.pend = s.pend /\ t.hist = s.hist /\ t.items = s.items
    BY <1>1, <1>2 DEF SubType, Reason
  <2>2. sub' = [sub EXCEPT ![c] = t]
    BY <1>6
  <2> HIDE DEF t
  <2>3. ClientHolds(t, got[c], proxy[c], events, task)
    BY <1>1, <1>2, <1>3, <2>1, QuietHolds
  <2> QED BY <1>1, <1>2, <1>6, <2>2, <2>3, ConnectionStep
<1>7. CASE /\ More(c) = {} /\ sub' = [sub EXCEPT ![c] = Closed]
           /\ told' = [told EXCEPT ![c] = reason] /\ Sent(c, "end", reason)
  <2> DEFINE p == Projected(proxy[c], "end", reason)
  <2>1. Among(events, s.run, s.after) = {}
    <3>1. PICK more : more = More(c)
      OBVIOUS
    <3>2. more = {} /\ more = Following(Among(events, s.run, s.after))
      BY <1>7, <3>1, MoreIs
    <3>3. Among(events, s.run, s.after) \in SUBSET (1..Len(events)) /\ Len(events) \in Nat
      BY <1>1 DEF Among, LogHolds
    <3> QED BY <3>2, <3>3, FollowingIs
  <2>2. ~(task.run > s.run) => events[End(got[c])].row = task
    BY <1>1, <1>2, <2>1, NothingLeft
  <2>3. proxy[c].full /\ reason # "superseded" => reason = proxy[c].reason
    BY <1>3, <2>2
  <2>4. p \in ProxyType /\ p.ok
    <3> HIDE DEF reason
    <3> QED BY <1>1, <1>3, <1>4, <2>3, ProjectedIs
  <2>5. proxy' = [proxy EXCEPT ![c] = p]
    BY <1>7 DEF Sent
  <2> HIDE DEF p
  <2>6. ClientHolds(Closed, got[c], p, events, task)
    BY <1>1, <2>4, ClosedHolds
  <2>7. told' \in [Clients -> Reason]
    BY <1>1, <1>4, <1>7
  <2> QED BY <1>2, <1>7, <2>5, <2>6, <2>7, ConnectionStep
<1> QED
  BY <1>5, <1>6, <1>7 DEF Final

\* A connection breaks.
LEMMA BreakHolds ==
  ASSUME StreamAssumption, StreamInv, NEW c \in Clients, Break(c)
  PROVE  StreamInv'
<1>1. /\ ClientHolds(sub[c], got[c], proxy[c], events, task) /\ proxy[c] \in ProxyType
      /\ proxy[c].ok /\ proxy = [proxy EXCEPT ![c] = proxy[c]] /\ told \in [Clients -> Reason]
  BY DEF StreamInv, ClientHolds
<1>2. /\ UNCHANGED <<task, events, got, proxy>> /\ sub' = [sub EXCEPT ![c] = Closed]
      /\ told' = [told EXCEPT ![c] = "broken"]
  BY DEF Break
<1>3. ClientHolds(Closed, got[c], proxy[c], events, task)
  BY <1>1, ClosedHolds
<1>4. told' \in [Clients -> Reason]
  BY <1>1, <1>2 DEF Reason
<1> QED BY <1>1, <1>2, <1>3, <1>4, ConnectionStep

\* A restart: the log may grow by the row of the run it interrupts.
LEMMA RestartHolds ==
  ASSUME StreamAssumption, StreamInv, Restart
  PROVE  StreamInv'
<1>1. LogHolds(events, task) /\ task \in TaskRow /\ events \in Seq(EventType) /\ Len(events) \in Nat
  BY DEF StreamInv, LogHolds
<1>2. /\ UNCHANGED <<got, proxy>> /\ sub' = [c \in Clients |-> Closed]
      /\ told' = [c \in Clients |-> IF sub[c].pc = "closed" THEN told[c] ELSE "broken"]
  BY DEF Restart
<1>3. /\ LogHolds(events', task') /\ task'.run = task.run /\ task.run \in Nat
      /\ Len(events) <= Len(events') /\ \A i \in 1..Len(events) : events'[i] = events[i]
  <2>1. CASE UNCHANGED <<task, events>>
    BY <1>1, <2>1 DEF TaskRow
  <2>2. CASE /\ task' = [task EXCEPT !.st = "interrupted"]
             /\ events' = Append(events, Event("state", [task EXCEPT !.st = "interrupted"]))
    <3> DEFINE row == [task EXCEPT !.st = "interrupted"]
    <3>1. row \in TaskRow /\ row.run = task.run /\ task.run \in Nat
      BY <1>1 DEF TaskRow, Settled
    <3>2. task' = row /\ events' = Append(events, Event("state", row))
      BY <2>2
    <3> HIDE DEF row
    <3>3. LogHolds(Append(events, Event("state", row)), row)
      BY <1>1, <3>1, LogGrows
    <3>4. Event("state", row) \in EventType
      BY <3>1 DEF Event, EventType, TaskRow
    <3>5. Len(events) <= Len(events') /\ \A i \in 1..Len(events) : events'[i] = events[i]
      BY <1>1, <3>2, <3>4
    <3> QED BY <3>1, <3>2, <3>3, <3>5
  <2> QED BY <2>1, <2>2 DEF Restart
<1>4. ASSUME NEW c \in Clients
      PROVE  /\ ClientHolds(Closed, got[c], proxy[c], events', task') /\ Closed \in SubType
             /\ told'[c] \in Reason
  <2>1. /\ ClientHolds(sub[c], got[c], proxy[c], events, task) /\ proxy[c] \in ProxyType
        /\ proxy[c].ok /\ told[c] \in Reason
    BY DEF StreamInv, ClientHolds
  <2>2. ClientHolds(Closed, got[c], proxy[c], events, task) /\ Closed \in SubType
    BY <2>1, ClosedHolds
  <2>3. PICK all, row : all = events' /\ row = task'
    OBVIOUS
  <2>4. /\ LogHolds(all, row) /\ row.run = task.run /\ task.run \in Nat
        /\ Len(events) <= Len(all) /\ \A i \in 1..Len(events) : all[i] = events[i]
    BY <1>3, <2>3
  <2>5. ClientHolds(Closed, got[c], proxy[c], all, row)
    <3>1. task.run <= row.run
      BY <2>4
    <3> QED BY <1>1, <2>2, <2>4, <3>1, ClientKeeps
  <2>6. told'[c] \in Reason
    BY <1>2, <2>1 DEF Reason
  <2> QED BY <2>2, <2>3, <2>5, <2>6
<1>5. /\ sub' \in [Clients -> SubType] /\ told' \in [Clients -> Reason]
      /\ \A c \in Clients : ClientHolds(sub'[c], got'[c], proxy'[c], events', task')
  BY <1>2, <1>4
<1>6. task'.run <= MaxRuns
  BY <1>3 DEF StreamInv
<1> QED BY <1>2, <1>3, <1>5, <1>6 DEF StreamInv

\* A fresh connection: its snapshot stands at the last event of the run, made up if the
\* Task has none of it yet.
LEMMA OpenFreshHolds ==
  ASSUME StreamAssumption, StreamInv, NEW c \in Clients, OpenFresh(c)
  PROVE  StreamInv'
<1> DEFINE mine == Of(task.run, 0)
           made == mine = {}
           n == Len(events)
           anchor == IF made THEN n + 1 ELSE Latest(mine)
           t == [Closed EXCEPT !.pc = "next", !.run = task.run, !.after = anchor, !.snap = anchor]
           g == [run |-> task.run, from |-> anchor, ids |-> <<>>]
<1>1. /\ LogHolds(events, task) /\ task \in TaskRow /\ events \in Seq(EventType) /\ n \in Nat
      /\ task.run \in Nat /\ task.run <= MaxRuns
  BY DEF StreamInv, LogHolds, TaskRow
<1>2. /\ UNCHANGED task
      /\ events' = IF made THEN Append(events, Event("state", task)) ELSE events
      /\ sub' = [x \in Clients |->
                   IF x = c THEN t
                   ELSE IF made /\ Subscribed(x) THEN [sub[x] EXCEPT !.wake = TRUE] ELSE sub[x]]
      /\ proxy' = [proxy EXCEPT ![c] = Fresh] /\ got' = [got EXCEPT ![c] = g]
      /\ told' = [told EXCEPT ![c] = None]
  BY DEF OpenFresh
<1>3. PICK all : all = events'
  OBVIOUS
<1>4. /\ LogHolds(all, task) /\ Len(all) \in Nat /\ n <= Len(all) /\ \A i \in 1..n : all[i] = events[i]
      /\ anchor \in 1..Len(all) /\ all[anchor].run = task.run
  <2>1. CASE made
    <3>1. all = Append(events, Event("state", task))
      BY <1>2, <1>3, <2>1
    <3>2. LogHolds(all, task)
      BY <1>1, <3>1, LogGrows
    <3>3. Event("state", task) \in EventType /\ Event("state", task).run = task.run
      BY <1>1 DEF Event, EventType, TaskRow
    <3>4. /\ Len(all) = n + 1 /\ all[n + 1] = Event("state", task)
          /\ \A i \in 1..n : all[i] = events[i]
      <4> HIDE DEF made
      <4> QED BY <1>1, <3>1, <3>3
    <3>5. anchor = n + 1
      BY <2>1
    <3> HIDE DEF anchor, made, n
    <3> QED BY <1>1, <3>2, <3>3, <3>4, <3>5
  <2>2. CASE ~made
    <3>1. all = events /\ anchor = Latest(mine)
      BY <1>2, <1>3, <2>2
    <3>2. mine \in SUBSET (1..n) /\ \A i \in mine : events[i].run = task.run
      BY DEF Of
    <3> HIDE DEF mine
    <3>3. Latest(mine) \in mine
      BY <1>1, <2>2, <3>2, LatestIs
    <3>4. anchor \in 1..n /\ events[anchor].run = task.run
      BY <3>1, <3>2, <3>3
    <3> HIDE DEF anchor, made
    <3> QED BY <1>1, <3>1, <3>4
  <2> QED BY <2>1, <2>2
<1> HIDE DEF made, mine, n, anchor
<1>5. ASSUME NEW x \in Clients, x # c
      PROVE  ClientHolds(sub'[x], got'[x], proxy'[x], all, task) /\ sub'[x] \in SubType
  <2>1. ClientHolds(sub[x], got[x], proxy[x], events, task) /\ sub[x] \in SubType
    BY DEF StreamInv
  <2> DEFINE u == sub'[x]
  <2>2. u = IF made /\ Subscribed(x) THEN [sub[x] EXCEPT !.wake = TRUE] ELSE sub[x]
    BY <1>2, <1>5
  <2>3. /\ u \in SubType /\ u.pc = sub[x].pc /\ u.run = sub[x].run /\ u.after = sub[x].after
        /\ u.snap = sub[x].snap /\ u.pend = sub[x].pend /\ u.hist = sub[x].hist
        /\ u.items = sub[x].items
    <3> HIDE DEF u
    <3> QED BY <2>1, <2>2 DEF SubType
  <2> HIDE DEF u
  <2>4. ClientHolds(u, got[x], proxy[x], all, task)
    <3>1. task.run <= task.run /\ Len(events) <= Len(all) /\ \A i \in 1..Len(events) : all[i] = events[i]
      BY <1>1, <1>4 DEF n
    <3> QED BY <1>1, <1>4, <2>1, <2>3, <3>1, ClientKeeps
  <2>5. got'[x] = got[x] /\ proxy'[x] = proxy[x]
    BY <1>2, <1>5 DEF StreamInv
  <2> QED BY <2>3, <2>4, <2>5 DEF u
<1>6. /\ t \in SubType /\ t.pc = "next" /\ t.run = task.run /\ t.after = anchor /\ t.snap = anchor
      /\ t.pend = {} /\ t.items = 0 /\ ~t.hist
  <2>1. Closed \in SubType /\ Closed.pend = {} /\ Closed.items = 0 /\ ~Closed.hist
    <3>1. 0 \in 0..MaxPending
      BY DEF StreamAssumption
    <3> QED BY <3>1 DEF Closed, SubType, Reason, None
  <2>2. anchor \in Nat
    BY <1>4
  <2> DEFINE a == [Closed EXCEPT !.pc = "next", !.run = task.run]
  <2>3. /\ a \in SubType /\ a.pc = "next" /\ a.run = task.run
        /\ a.pend = {} /\ a.items = 0 /\ ~a.hist
    <3> PICK k : k = Closed
      OBVIOUS
    <3>1. a = [k EXCEPT !.pc = "next", !.run = task.run]
      OBVIOUS
    <3>2. k \in SubType /\ k.pend = {} /\ k.items = 0 /\ ~k.hist
      BY <2>1
    <3> HIDE DEF a
    <3> QED BY <1>1, <3>1, <3>2 DEF SubType
  <2>4. t = [a EXCEPT !.after = anchor, !.snap = anchor]
    BY <2>3 DEF SubType
  <2> HIDE DEF a, t
  <2> QED BY <2>2, <2>3, <2>4 DEF SubType
<1>7. Fresh \in ProxyType /\ Fresh.ok /\ Fresh.first /\ ~Fresh.resumed
  BY DEF Fresh, ProxyType, Reason, None
<1>8. g \in GotType /\ g.run = task.run /\ g.from = anchor /\ g.ids = <<>>
  BY <1>1, <1>4 DEF GotType
<1> HIDE DEF t, g
<1>9. ClientHolds(t, g, Fresh, all, task)
  <2>1. HasAll(g, all, task)
    <3>1. Len(g.ids) = 0
      BY <1>8
    <3> QED BY <1>1, <1>8, <3>1 DEF HasAll
  <2>2. anchor # 0
    BY <1>4
  <2>3. Serves(t, g, Fresh, all, task)
    BY <1>4, <1>6, <1>7, <1>8, <2>2 DEF Serves
  <2> QED BY <1>6, <1>7, <1>8, <2>1, <2>3 DEF ClientHolds
<1>10. sub'[c] = t /\ got'[c] = g /\ proxy'[c] = Fresh
  BY <1>2 DEF StreamInv
<1>11. /\ sub' \in [Clients -> SubType] /\ got' \in [Clients -> GotType]
       /\ proxy' \in [Clients -> ProxyType] /\ told' \in [Clients -> Reason]
  <2>1. sub' \in [Clients -> SubType]
    BY <1>2, <1>5, <1>6
  <2>2. None \in Reason
    BY DEF Reason
  <2> QED BY <1>2, <1>7, <1>8, <2>1, <2>2 DEF StreamInv
<1>12. \A x \in Clients : ClientHolds(sub'[x], got'[x], proxy'[x], all, task)
  BY <1>5, <1>9, <1>10
<1> QED BY <1>1, <1>2, <1>3, <1>4, <1>11, <1>12 DEF StreamInv

\* A connection that resumes goes on after the last event its client has.
LEMMA ReopenHolds ==
  ASSUME StreamAssumption, StreamInv, NEW c \in Clients, Reopen(c)
  PROVE  StreamInv'
<1> DEFINE g == got[c]
           last == LastOf(c)
           late == task.run > g.run
           t == [Closed EXCEPT !.pc = "next", !.run = g.run, !.after = last, !.hist = late]
           p == [Fresh EXCEPT !.resumed = TRUE]
<1>1. /\ g.ids # <<>> /\ UNCHANGED <<task, events, got>>
      /\ sub' = [sub EXCEPT ![c] = t] /\ proxy' = [proxy EXCEPT ![c] = p]
      /\ told' = [told EXCEPT ![c] = None]
  BY DEF Reopen, ResumeAt
<1>2. /\ g \in GotType /\ HasAll(g, events, task) /\ LogHolds(events, task)
      /\ g.run \in Nat /\ task.run \in Nat /\ Len(events) \in Nat
  BY DEF StreamInv, ClientHolds, GotType, LogHolds, TaskRow
<1>3. last = End(g) /\ last \in 1..Len(events) /\ events[last].run = g.run
  BY <1>1, <1>2 DEF LastOf, End, HasAll
<1>4. /\ t \in SubType /\ t.pc = "next" /\ t.run = g.run /\ t.after = last /\ t.snap = 0
      /\ t.pend = {} /\ t.items = 0 /\ t.hist = late
  <2>1. Closed \in SubType /\ Closed.pend = {} /\ Closed.items = 0 /\ Closed.snap = 0
    <3>1. 0 \in 0..MaxPending
      BY DEF StreamAssumption
    <3> QED BY <3>1 DEF Closed, SubType, Reason, None
  <2>2. last \in Nat /\ late \in BOOLEAN
    BY <1>3
  <2> HIDE DEF last, late
  <2> DEFINE a == [Closed EXCEPT !.pc = "next", !.run = g.run]
  <2>3. /\ a \in SubType /\ a.pc = "next" /\ a.run = g.run
        /\ a.pend = {} /\ a.items = 0 /\ a.snap = 0
    <3> PICK k : k = Closed
      OBVIOUS
    <3>1. a = [k EXCEPT !.pc = "next", !.run = g.run]
      OBVIOUS
    <3>2. k \in SubType /\ k.pend = {} /\ k.items = 0 /\ k.snap = 0
      BY <2>1
    <3> HIDE DEF a, g
    <3> QED BY <1>2, <3>1, <3>2 DEF SubType
  <2>4. t = [a EXCEPT !.after = last, !.hist = late]
    BY <2>3 DEF SubType
  <2> HIDE DEF a, t
  <2> QED BY <2>2, <2>3, <2>4 DEF SubType
<1>5. p \in ProxyType /\ p.ok /\ p.first /\ p.resumed /\ ~p.full
  BY DEF Fresh, ProxyType, Reason, None
<1> HIDE DEF t, p, g
<1>6. Serves(t, g, p, events, task)
  <2>1. {i \in Among(events, t.run, End(g)) : i <= last} = {}
    BY <1>3 DEF Among
  <2>2. End(g) <= last /\ last <= Len(events)
    BY <1>2, <1>3
  <2> HIDE DEF last
  <2> QED BY <1>1, <1>2, <1>3, <1>4, <1>5, <2>1, <2>2 DEF Serves
<1>7. ClientHolds(t, g, p, events, task)
  BY <1>2, <1>4, <1>5, <1>6 DEF ClientHolds
<1>8. told' \in [Clients -> Reason]
  BY <1>1 DEF StreamInv, Reason
<1> QED BY <1>1, <1>7, <1>8, ConnectionStep DEF g

\* The start, and any step.
LEMMA StreamInitHolds ==
  ASSUME StreamAssumption, StreamInit
  PROVE  StreamInv
<1>1. /\ sub = [c \in Clients |-> Closed] /\ proxy = [c \in Clients |-> Fresh]
      /\ got = [c \in Clients |-> [run |-> 0, from |-> 0, ids |-> <<>>]]
      /\ told = [c \in Clients |-> None]
  BY DEF StreamInit
<1>2. LogHolds(events, task) /\ task.run \in Nat /\ task.run <= MaxRuns
  <2>1. CASE /\ task = [run |-> 0, st |-> "pending", review |-> FALSE]
             /\ events = <<Event("state", task)>>
    <3>1. task \in TaskRow /\ task.run = 0
      BY <2>1 DEF TaskRow, Settled
    <3>2. Event("state", task) \in EventType /\ Event("state", task).run = task.run
          /\ Event("state", task).row = task /\ Event("state", task).kind = "state"
      BY <3>1 DEF Event, EventType, TaskRow
    <3>3. events \in Seq(EventType) /\ Len(events) = 1 /\ events[1] = Event("state", task)
      BY <2>1, <3>2
    <3>4. \A i \in 1..Len(events) : i = 1
      BY <3>3
    <3>5. MaxRuns \in Nat
      BY DEF StreamAssumption
    <3> QED BY <3>1, <3>2, <3>3, <3>4, <3>5 DEF LogHolds
  <2>2. CASE /\ task = [run |-> 1, st |-> "running", review |-> FALSE] /\ events = <<>>
    <3>1. task \in TaskRow /\ task.run = 1
      BY <2>2 DEF TaskRow, Settled
    <3>2. events \in Seq(EventType) /\ Len(events) = 0
      BY <2>2
    <3>3. MaxRuns \in Nat \ {0}
      BY DEF StreamAssumption
    <3> QED BY <3>1, <3>2, <3>3 DEF LogHolds
  <2> QED BY <2>1, <2>2 DEF StreamInit
<1> DEFINE g == [run |-> 0, from |-> 0, ids |-> <<>>]
<1>3. Fresh \in ProxyType /\ Fresh.ok
  BY DEF Fresh, ProxyType, Reason, None
<1>4. g \in GotType /\ g.run = 0 /\ g.ids = <<>> /\ Len(g.ids) = 0
  BY DEF GotType
<1> HIDE DEF g
<1>5. Closed \in SubType /\ Closed.pc = "closed" /\ ~Closed.hist /\ Closed.items = 0
  <2>1. 0 \in 0..MaxPending
    BY DEF StreamAssumption
  <2> QED BY <2>1 DEF Closed, SubType, Reason, None
<1>6. ClientHolds(Closed, g, Fresh, events, task)
  <2>1. HasAll(g, events, task)
    BY <1>2, <1>4 DEF HasAll
  <2>2. Serves(Closed, g, Fresh, events, task)
    BY <1>5 DEF Serves
  <2> QED BY <1>3, <1>4, <1>5, <2>1, <2>2 DEF ClientHolds
<1>7. got = [c \in Clients |-> g]
  BY <1>1 DEF g
<1>8. None \in Reason
  BY DEF Reason
<1> QED BY <1>1, <1>2, <1>3, <1>4, <1>5, <1>6, <1>7, <1>8 DEF StreamInv

LEMMA StreamStepHolds ==
  ASSUME StreamAssumption, StreamInv, [StreamNext]_streamVars
  PROVE  StreamInv'
<1>1. CASE BeginRun \/ EndRun \/ PublishArtifact \/ MirrorReview
  BY <1>1, WritersHold
<1>2. CASE PublishDelta
  BY <1>2, PublishDeltaHolds
<1>3. CASE Restart
  BY <1>3, RestartHolds
<1>4. ASSUME NEW c \in Clients, OpenFresh(c) \/ Reopen(c) \/ Stream(c) \/ Break(c)
      PROVE  StreamInv'
  <2>1. CASE OpenFresh(c)
    BY <2>1, OpenFreshHolds
  <2>2. CASE Reopen(c)
    BY <2>2, ReopenHolds
  <2>3. CASE Break(c)
    BY <2>3, BreakHolds
  <2>4. CASE DeliverSnapshot(c)
    BY <2>4, SnapshotStepHolds
  <2>5. CASE DeliverEvent(c)
    BY <2>5, EventStepHolds
  <2>6. CASE Final(c)
    BY <2>6, FinalHolds
  <2>7. CASE TakeItem(c) \/ ReadEvents(c) \/ ReadRow(c) \/ ReadAgain(c) \/ Wake(c)
    BY <2>7, LooksHold
  <2> QED BY <1>4, <2>1, <2>2, <2>3, <2>4, <2>5, <2>6, <2>7 DEF Stream
<1>5. CASE UNCHANGED streamVars
  BY <1>5 DEF streamVars, StreamInv
<1> QED BY <1>1, <1>2, <1>3, <1>4, <1>5 DEF StreamNext

\* What the invariant is for.
LEMMA StreamIsWholeNow ==
  ASSUME StreamAssumption, StreamInv
  PROVE  StreamIsWhole
<1>1. LogHolds(events, task) /\ task \in TaskRow /\ task.run <= MaxRuns /\ MaxRuns \in Nat
  BY DEF StreamInv, LogHolds, StreamAssumption
<1>2. \A c \in Clients : ClientHolds(sub[c], got[c], proxy[c], events, task)
  BY DEF StreamInv
<1>3. StreamTypeOK
  <2>1. task \in [run : 0..MaxRuns, st : {"pending", "running", "waiting"} \union Settled,
                  review : BOOLEAN]
    BY <1>1 DEF TaskRow
  <2>2. \A i \in 1..Len(events) : events[i].run = events[i].row.run
    BY <1>1 DEF LogHolds
  <2>3. ASSUME NEW c \in Clients
        PROVE  /\ sub[c].items \in 0..MaxPending
               /\ sub[c].pc \in {"closed", "next", "events", "row", "again", "wait"}
               /\ sub[c].hist => sub[c].items = 0 /\ task.run > sub[c].run
    BY <1>2 DEF ClientHolds, SubType, Serves
  <2> QED BY <2>1, <2>2, <2>3 DEF StreamTypeOK
<1>4. ProxyAccepts
  BY <1>2 DEF ProxyAccepts, ClientHolds
<1>5. ASSUME NEW c \in Clients
      PROVE  /\ \A i, j \in 1..Len(got[c].ids) : i < j => got[c].ids[i] < got[c].ids[j]
             /\ got[c].ids # <<>> =>
                  Received(c) = {i \in Of(got[c].run, 0) : got[c].from <= i /\ i <= LastOf(c)}
  <2>1. HasAll(got[c], events, task)
    BY <1>2 DEF ClientHolds
  <2> QED BY <2>1 DEF HasAll, Received, Of, Among, LastOf, End
<1>6. NoGap
  BY <1>5 DEF NoGap
<1> QED BY <1>3, <1>4, <1>6 DEF StreamIsWhole

\* Only the end of a stream tells a client of an end.
LEMMA EndsTrulyNow ==
  ASSUME StreamAssumption, StreamInv, [StreamNext]_streamVars
  PROVE  EndsTruly
<1> SUFFICES ASSUME NEW c \in Clients, told'[c] # told[c], told'[c] \notin {None, "broken"}
             PROVE  /\ \A i \in Of(got[c].run, 0) : i <= LastOf(c)
                    /\ told'[c] = IF task.run > got[c].run THEN "superseded" ELSE EndReason(task)
  BY DEF EndsTruly
<1>1. told \in [Clients -> Reason]
  BY DEF StreamInv
<1>2. Final(c)
  <2>1. CASE BeginRun \/ EndRun \/ PublishArtifact \/ MirrorReview \/ PublishDelta \/ Restart
    BY <2>1 DEF BeginRun, EndRun, PublishArtifact, MirrorReview, Commit, PublishDelta, Restart
  <2>2. ASSUME NEW x \in Clients, OpenFresh(x) \/ Reopen(x) \/ Break(x)
        PROVE  FALSE
    BY <1>1, <2>2 DEF OpenFresh, Reopen, Break
  <2>3. ASSUME NEW x \in Clients, Stream(x) PROVE Final(c)
    <3>1. CASE Final(x)
      BY <1>1, <3>1 DEF Final
    <3>2. CASE ~Final(x)
      BY <2>3, <3>2 DEF Stream, DeliverSnapshot, DeliverEvent, TakeItem, ReadEvents, ReadRow,
                        ReadAgain, Wake
    <3> QED BY <3>1, <3>2
  <2>4. CASE UNCHANGED streamVars
    BY <2>4 DEF streamVars
  <2> QED BY <2>1, <2>2, <2>3, <2>4 DEF StreamNext
<1> DEFINE s == sub[c]
           reason == IF task.run > s.run THEN "superseded" ELSE EndReason(task)
<1>3. /\ s.pc = "next" /\ s.snap = 0 /\ s.pend = {} /\ More(c) = {}
      /\ told' = [told EXCEPT ![c] = reason]
  BY <1>2 DEF Final, Drained
<1>4. ClientHolds(s, got[c], proxy[c], events, task) /\ LogHolds(events, task) /\ s.run = got[c].run
  BY <1>3 DEF StreamInv, ClientHolds, Serves
<1>5. Among(events, s.run, s.after) = {}
  <2>1. PICK more : more = More(c)
    OBVIOUS
  <2>2. more = {} /\ more = Following(Among(events, s.run, s.after))
    BY <1>3, <2>1, MoreIs
  <2>3. Among(events, s.run, s.after) \in SUBSET (1..Len(events)) /\ Len(events) \in Nat
    BY <1>4 DEF Among, LogHolds
  <2> QED BY <2>2, <2>3, FollowingIs
<1>6. \A i \in Among(events, got[c].run, 0) : i <= End(got[c])
  BY <1>3, <1>4, <1>5, NothingLeft
<1>7. told'[c] = reason
  BY <1>1, <1>3
<1> QED BY <1>4, <1>6, <1>7 DEF Of, Among, LastOf, End

(* What a client of a Task's stream has of its run is what was committed,  *)
(* each event once and in order, over any number of broken connections and *)
(* restarts; and a Gateway that proxies the stream never finds it          *)
(* contradicting itself (TaskEventSubscription, project_remote).           *)
THEOREM StreamsAreWhole == StreamAssumption => (StreamSpec => []StreamIsWhole)
<1> SUFFICES ASSUME StreamAssumption PROVE StreamSpec => []StreamIsWhole
  OBVIOUS
<1>1. StreamInit => StreamInv
  BY StreamInitHolds
<1>2. StreamInv /\ [StreamNext]_streamVars => StreamInv'
  BY StreamStepHolds
<1>3. StreamInv => StreamIsWhole
  BY StreamIsWholeNow
<1> QED BY <1>1, <1>2, <1>3, PTL DEF StreamSpec

(* A stream says that its run is over only when nothing of it is unsent,   *)
(* and with the reason that is true of the Task row at that moment         *)
(* (the end under the lock in __anext__).                                  *)
THEOREM EndsAreTrue == StreamAssumption => (StreamSpec => EndIsTrue)
<1> SUFFICES ASSUME StreamAssumption PROVE StreamSpec => EndIsTrue
  OBVIOUS
<1>1. StreamInit => StreamInv
  BY StreamInitHolds
<1>2. StreamInv /\ [StreamNext]_streamVars => StreamInv'
  BY StreamStepHolds
<1>3. StreamInv /\ [StreamNext]_streamVars => [EndsTruly]_streamVars
  BY EndsTrulyNow
<1> QED BY <1>1, <1>2, <1>3, PTL DEF StreamSpec, EndIsTrue
=============================================================================
