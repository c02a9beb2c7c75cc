------------------------------ MODULE TaskReview ------------------------------
(***************************************************************************)
(* The pending reviews of one tree of Tasks (TaskManager's review          *)
(* transactions, storage/task_review_uow.py, remote_reconciliation.py).    *)
(* A Task that waits for a human owns one review; the root also shows the  *)
(* oldest review of the tree, whoever owns it.  Owner, review, root and    *)
(* events are one transaction of the database; the records in memory are   *)
(* changed first and put back when it fails.  The process may die at any   *)
(* point; what it had in memory is then read back from the rows.           *)
(***************************************************************************)
EXTENDS Naturals, FiniteSets

CONSTANTS
  Root,        \* the root Task of the tree, local
  Locals,      \* other Tasks that run in this process
  Remotes,     \* Tasks of the tree that another Gateway runs
  MaxReviews,  \* reviews ever asked for (bound)
  MaxRuns,     \* runs of a Task (bound)
  MaxFaults    \* transactions that fail and crashes (bound)

ConstantsAssumption ==
  /\ Root \notin Locals /\ (Locals \union {Root}) \intersect Remotes = {}
  /\ {MaxReviews, MaxRuns, MaxFaults} \subseteq Nat

Own == Locals \union {Root}
Task == Own \union Remotes

VARIABLES
  mem,    \* the Task records in memory: state, run_count, pending_review's id
  row,    \* the same in agent_tasks
  table,  \* agent_task_pending_reviews: the review each Task owns
  made,   \* review ids minted so far, here and on the other Gateways
  live,   \* Tasks with a run that is not done
  used,   \* history: how often a run was resumed with each review's decision
  faults  \* failures so far

vars == <<mem, row, table, made, live, used, faults>>

----------------------------------------------------------------------------
(* A state is idle (pending or settled), running or waiting_for_human.     *)
Record == [st : {"idle", "running", "waiting"}, run : Nat, shown : Nat]

(* Review 0 is no review.  Reviews are ordered by when they were created;  *)
(* one of another Gateway carries that Gateway's time.                     *)
Review == [id : Nat, born : Nat]
NoReview == [id |-> 0, born |-> 0]

Init ==
  /\ mem = [t \in Task |-> [st |-> "idle", run |-> 0, shown |-> 0]]
  /\ row = mem
  /\ table = [t \in Task |-> NoReview]
  /\ made = 0
  /\ live = {}
  /\ used = [i \in 1..MaxReviews |-> 0]
  /\ faults = 0

(* _project_root_review: the oldest review of the tree.                    *)
Before(a, b) == a.born < b.born \/ (a.born = b.born /\ a.id <= b.id)

Oldest(tab) ==
  LET pending == {tab[t] : t \in {x \in Task : tab[x].id # 0}} IN
  IF pending = {} THEN 0
  ELSE (CHOOSE r \in pending : \A s \in pending : Before(r, s)).id

Projected(records, tab) == [records EXCEPT ![Root].shown = Oldest(tab)]

(* _review_memory_transaction: what a failed transaction leaves of the     *)
(* changed records: the Task's own and the root's are put back.            *)
RestoredOwn(records, t) == [x \in Task |-> IF x \in {t} THEN mem[x] ELSE records[x]]
Restored(records, t) == [x \in Task |-> IF x \in {t, Root} THEN mem[x] ELSE records[x]]

(* One review transition of a Task: its record, the review it then owns,   *)
(* and the root.                                                           *)
Succeeds(t, record, review) ==
  LET tab == [table EXCEPT ![t] = review]
      records == Projected([mem EXCEPT ![t] = record], tab)
  IN
  /\ mem' = records
  /\ row' = [row EXCEPT ![t] = records[t], ![Root] = records[Root]]
  /\ table' = tab

Fails(t, record, review) ==
  /\ faults < MaxFaults
  /\ faults' = faults + 1
  /\ mem' = Restored(Projected([mem EXCEPT ![t] = record], [table EXCEPT ![t] = review]), t)
  /\ UNCHANGED <<row, table>>

Running(t) == [mem[t] EXCEPT !.st = "running", !.run = @ + 1, !.shown = 0]
Over(t) == [mem[t] EXCEPT !.st = "idle", !.shown = 0]

----------------------------------------------------------------------------
(* A run of a local Task, with new input (mark_running).                   *)
StartRun(t) ==
  /\ t \in Own /\ mem[t].st = "idle" /\ t \notin live /\ mem[t].run < MaxRuns
  /\ \/ /\ Succeeds(t, Running(t), NoReview)
        /\ live' = live \union {t}
        /\ UNCHANGED faults
     \/ Fails(t, Running(t), NoReview) /\ UNCHANGED live
  /\ UNCHANGED <<made, used>>

(* The graph stops at a fresh review (mark_waiting_for_human).  If that    *)
(* cannot be saved the run fails instead, if that can.                     *)
Asked(t) == [mem[t] EXCEPT !.st = "waiting", !.shown = made + 1]
Fresh == [id |-> made + 1, born |-> made + 1]

AskForReview(t) ==
  /\ t \in Own /\ t \in live /\ mem[t].st = "running" /\ made < MaxReviews
  /\ made' = made + 1
  /\ \/ Succeeds(t, Asked(t), Fresh) /\ UNCHANGED faults
     \/ /\ Succeeds(t, Over(t), NoReview)
        /\ faults < MaxFaults /\ faults' = faults + 1
     \/ Fails(t, Asked(t), Fresh)
  /\ UNCHANGED <<live, used>>

(* The run completes, fails, or is cancelled or interrupted.               *)
EndRun(t) ==
  /\ t \in Own /\ t \in live /\ mem[t].st = "running"
  /\ \/ Succeeds(t, Over(t), NoReview) /\ UNCHANGED faults
     \/ Fails(t, Over(t), NoReview)
  /\ UNCHANGED <<made, live, used>>

(* What follows the last transaction of a run ends.                        *)
RunDone(t) ==
  /\ t \in live
  /\ live' = live \ {t}
  /\ UNCHANGED <<mem, row, table, made, used, faults>>

(* submit_review_decision of a local Task: the review names its Task, and  *)
(* the transaction that starts the next run removes it.                    *)
Decide(t) ==
  /\ t \in Own /\ table[t].id # 0
  /\ mem[t].st = "waiting" /\ mem[t].shown # 0 /\ t \notin live
  /\ mem[t].run < MaxRuns
  /\ \/ /\ Succeeds(t, Running(t), NoReview)
        /\ live' = live \union {t}
        /\ used' = [used EXCEPT ![table[t].id] = @ + 1]
        /\ UNCHANGED faults
     \/ Fails(t, Running(t), NoReview) /\ UNCHANGED <<live, used>>
  /\ UNCHANGED made

(* cancel_task of a Task that waits.                                       *)
CancelWaiting(t) ==
  /\ t \in Own /\ mem[t].st = "waiting" /\ t \notin live
  /\ \/ Succeeds(t, Over(t), NoReview) /\ UNCHANGED faults
     \/ Fails(t, Over(t), NoReview)
  /\ UNCHANGED <<made, live, used>>

----------------------------------------------------------------------------
(* A remote Task is overwritten with whatever its Gateway says: also that  *)
(* it runs while it shows a review of a Task below it.  Only a Task that   *)
(* waits owns the review here, and only if no other Task owns it.          *)
Told(t, st, run, id) == [st |-> st, run |-> run, shown |-> id]
Owned(t, st, id, born) ==
  IF st # "waiting" \/ id = 0 THEN NoReview
  ELSE [id |-> id, born |-> IF id = table[t].id THEN table[t].born ELSE born]

Taken(t, st, id) == st = "waiting" /\ id # 0 /\ \E u \in Task \ {t} : table[u].id = id

SyncRemote(t) ==
  \E st \in {"idle", "running", "waiting"}, run \in 1..MaxRuns,
     id \in {0, made + 1} \union {table[u].id : u \in Remotes}, born \in 1..MaxReviews :
    /\ t \in Remotes
    /\ id <= MaxReviews /\ ~Taken(t, st, id)
    /\ made' = IF id > made THEN id ELSE made
    /\ \/ Succeeds(t, Told(t, st, run, id), Owned(t, st, id, born)) /\ UNCHANGED faults
       \/ Fails(t, Told(t, st, run, id), Owned(t, st, id, born))
    /\ UNCHANGED <<live, used>>

(* An operation on it whose outcome is not known (_mark_record_uncertain). *)
Uncertain(t) ==
  /\ t \in Remotes
  /\ mem' = [mem EXCEPT ![t].st = "idle"]
  /\ row' = [row EXCEPT ![t] = mem'[t]]
  /\ UNCHANGED <<table, made, live, used, faults>>

----------------------------------------------------------------------------
(* task_record_for_restart: a local run that is not alive was interrupted. *)
Reloaded(t) ==
  IF t \in Own /\ row[t].st = "running" THEN [row[t] EXCEPT !.st = "idle"] ELSE row[t]

(* list_persisted_tasks reads every Task without a live run again.         *)
Reload ==
  /\ mem' = [t \in Task |-> IF t \in live THEN mem[t] ELSE Reloaded(t)]
  /\ row' = [t \in Task |-> IF t \in live THEN row[t] ELSE Reloaded(t)]
  /\ UNCHANGED <<table, made, live, used, faults>>

(* The process dies and comes back.                                        *)
Restart ==
  /\ faults < MaxFaults
  /\ faults' = faults + 1
  /\ live' = {}
  /\ mem' = [t \in Task |-> Reloaded(t)]
  /\ row' = [t \in Task |-> Reloaded(t)]
  /\ UNCHANGED <<table, made, used>>

TaskStep(t) ==
  \/ StartRun(t) \/ AskForReview(t) \/ EndRun(t) \/ RunDone(t) \/ Decide(t)
  \/ CancelWaiting(t) \/ SyncRemote(t) \/ Uncertain(t)

Next == Reload \/ Restart \/ \E t \in Task : TaskStep(t)

Spec == Init /\ [][Next]_vars

----------------------------------------------------------------------------
TypeOK ==
  /\ mem \in [Task -> Record] /\ row \in [Task -> Record]
  /\ table \in [Task -> Review]
  /\ made \in Nat /\ live \subseteq Own
  /\ used \in [1..MaxReviews -> Nat] /\ faults \in Nat
  /\ \A t, u \in Task : table[t].id = table[u].id /\ table[t].id # 0 => t = u

(* The root shows the oldest review that is pending anywhere in the tree:  *)
(* after any order of requests, decisions and cancels of siblings, failed  *)
(* transactions and restarts (_project_root_review, update_transition).    *)
MirrorIsOldest == row[Root].shown = Oldest(table)

(* A transaction that fails leaves nothing of itself in memory, of the     *)
(* Task or of the root (_review_memory_transaction).                       *)
MemoryIsRow == mem = row

(* A local Task waits for a human exactly as long as it owns a review that *)
(* can be decided: no Task waits for ever on a review that is gone, and no *)
(* review outlives its Task's wait.                                        *)
WaitsForItsReview ==
  \A t \in Own : (row[t].st = "waiting") <=> (table[t].id # 0)

(* A decision resumes one run, whatever fails or restarts after it: the    *)
(* review is gone with the transaction that starts the run.                *)
DecidedOnce == \A i \in 1..MaxReviews : used[i] <= 1

(* All of this, whatever the Tasks of the tree and their owners do.        *)
ReviewsAgree == TypeOK /\ MirrorIsOldest /\ MemoryIsRow /\ WaitsForItsReview /\ DecidedOnce
=============================================================================
