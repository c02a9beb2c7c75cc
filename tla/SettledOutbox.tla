--------------------------- MODULE SettledOutbox ---------------------------
(***************************************************************************)
(* Delivery of the settlement of a child Task run to its parent: the Task  *)
(* row, the settled outbox, the parent's mailbox rows, the processes that  *)
(* dispatch the outbox, the parent runs that claim mailbox rows, and the   *)
(* wait/check calls that take the result synchronously instead.            *)
(*                                                                         *)
(* All durable state is in one SQLite database, so one transaction is one  *)
(* step.  Everything a process keeps between two transactions (a claimed   *)
(* batch, the tokens of an executor run, the in-memory TaskRecord) is a    *)
(* variable of its own and is what a crash loses.                          *)
(***************************************************************************)
EXTENDS Naturals, FiniteSets

CONSTANTS
  Task,        \* child Tasks of one parent
  Remote,      \* the children whose route_kind is remote_ref
  MaxRun,      \* bound on run_count
  Dispatcher,  \* SettledOutboxRepository owners (processes that drain the outbox)
  Home,        \* the dispatcher of the process that runs the children
  Reader,      \* executor runs of the parent that claim mailbox rows
  Token,       \* claim tokens (uuid4 in the code)
  NoToken,     \* NULL in the claim_token column
  Reordered    \* whether a remote payload may arrive after a later one was applied

ASSUME ConstantsAssumption ==
  /\ Remote \subseteq Task
  /\ MaxRun \in Nat
  /\ Home \in Dispatcher
  /\ NoToken \notin Token
  /\ Reordered \in BOOLEAN

Run == 0..MaxRun
Key == Task \X Run                \* settled:{thread}:{task_id}:{run_count}

\* The four settled states are one, except for the interrupted state that says
\* "Remote ... outcome is uncertain", whose text is not the result of the run.
Active == {"pending", "running", "waiting_for_human"}
Settled == {"settled", "doubtful"}
TaskState == Active \cup Settled
Operation == {"create", "send", "review", "cancel"}
TaskRow == [state : TaskState, run : Run, suppressed : BOOLEAN, delivered : BOOLEAN,
            operation : Operation \cup {"none"}, bound : BOOLEAN]

OutboxStatus == {"absent", "pending", "claimed", "delivered", "suppressed"}
MailStatus == {"absent", "pending", "claimed", "delivered", "retracted"}

\* A queue row: its status, the settlement it reports, and the token and lease
\* of the claim on it.
RowFields(Status) == [status : Status, reports : Settled \cup {"none"},
                      token : Token \cup {NoToken}, live : BOOLEAN]
Row(Status) == {row \in RowFields(Status) :
                  /\ row.status = "claimed" <=> row.token # NoToken
                  /\ row.live => row.status = "claimed"
                  /\ row.status = "absent" <=> row.reports = "none"}

\* What a process holds on rows it has claimed: the row and its claim token.
Claim == [key : Key, token : Token]

VARIABLES
  task,     \* agent_tasks row of each child
  loaded,   \* the children whose TaskRecord is in the memory of the home process
  seen,     \* mailbox_delivered of that TaskRecord
  outbox,   \* agent_task_settled_outbox
  mail,     \* agent_mailbox_messages
  hand,     \* intents a dispatcher has claimed and not yet tried to publish
  claims,   \* AgentMailbox._active_run_claims of each executor run
  waiter,   \* the wait_agent call on each child
  taken     \* history: the runs wait_agent or check_agent suppressed

vars == <<task, loaded, seen, outbox, mail, hand, claims, waiter, taken>>

\* A wait_agent call: the run it awaits, or the review it tries to resolve.
Waiter == [phase : {"idle", "await", "review"}, run : Run]
NoWait == [phase |-> "idle", run |-> 0]

TypeOK ==
  /\ task \in [Task -> TaskRow]
  /\ loaded \in SUBSET Task
  /\ seen \in [Task -> BOOLEAN]
  /\ outbox \in [Key -> Row(OutboxStatus)]
  /\ mail \in [Key -> Row(MailStatus)]
  /\ hand \in [Dispatcher -> SUBSET Claim]
  /\ claims \in [Reader -> SUBSET Claim]
  /\ waiter \in [Task -> Waiter]
  /\ taken \in SUBSET Key

-----------------------------------------------------------------------------
(* The rows of the two queues.                                              *)

Absent == [status |-> "absent", reports |-> "none", token |-> NoToken, live |-> FALSE]
Pending(s) == [Absent EXCEPT !.status = "pending", !.reports = s]
UnclaimedKeepingToken(row, s) == [row EXCEPT !.status = s, !.live = FALSE]
Unclaimed(row, s) == [row EXCEPT !.status = s, !.token = NoToken, !.live = FALSE]
ClaimedBy(row, tok) == [row EXCEPT !.status = "claimed", !.token = tok, !.live = TRUE]

Current(t) == <<t, task[t].run>>
IsCurrent(k) == k = Current(k[1])

\* The rows whose claim has run past claim_expires_at.
Lapsed(row) == row.status = "claimed" /\ ~row.live

\* Releasing expired claims is the first statement of every queue operation.
ReleasedNever(queue) == queue
Released(queue) ==
  [k \in Key |-> IF Lapsed(queue[k]) THEN Unclaimed(queue[k], "pending") ELSE queue[k]]

\* A uuid no row of the queue and no process refers to.
Fresh(tok, queue, holders) ==
  /\ \A k \in Key : queue[k].token # tok
  /\ \A h \in DOMAIN holders : \A c \in holders[h] : c.token # tok

HeldByAnyone(queue, c) == queue[c.key].status = "claimed"
Held(queue, c) == queue[c.key].status = "claimed" /\ queue[c.key].token = c.token

\* One UPDATE that gives every row of K the status and the token of the batch.
ClaimAll(queue, K, tok) ==
  [k \in Key |-> IF k \in K THEN ClaimedBy(queue[k], tok) ELSE queue[k]]
Batch(K, tok) == {[key |-> k, token |-> tok] : k \in K}

-----------------------------------------------------------------------------
(* The transactions of the Task store.  rec is the TaskRecord being saved   *)
(* and known its mailbox_delivered, which every save writes back.           *)

\* build_settled_outbox_intent: the runs that get a notification.
Notifies(rec, known) ==
  rec.state \in Settled /\ ~rec.suppressed /\ ~known /\ rec.operation = "none"

\* insert_locked: INSERT OR IGNORE under the run's deterministic key.
WithIntentOfStoredRun(t, rec, known) ==
  LET k == Current(t)
  IN IF Notifies(rec, known) /\ outbox[k].status = "absent"
     THEN [outbox EXCEPT ![k] = Pending(rec.state)] ELSE outbox
WithIntent(t, rec, known) ==
  LET k == <<t, rec.run>>
  IN IF Notifies(rec, known) /\ outbox[k].status = "absent"
     THEN [outbox EXCEPT ![k] = Pending(rec.state)] ELSE outbox

\* insert_locked raises, and the transaction rolls back, when the run already
\* has an intent that reports another settlement.
Conflicts(t, rec, known) ==
  LET row == outbox[<<t, rec.run>>]
  IN Notifies(rec, known) /\ row.status # "absent" /\ row.reports # rec.state

Save(t, rec, known) ==
  /\ task' = [task EXCEPT ![t] = [rec EXCEPT !.delivered = known]]
  /\ seen' = [seen EXCEPT ![t] = known]

\* update_task_with_event and update_rejected_external_operation: the record
\* and the intent of a settled run in one transaction.
SaveLifecycle(t, rec, known) ==
  /\ ~Conflicts(t, rec, known)
  /\ Save(t, rec, known)
  /\ outbox' = WithIntent(t, rec, known)
  /\ UNCHANGED mail

\* discard_invalid_uncertain_locked: the notification of a run whose remote
\* effect is uncertain is withdrawn unless the parent has acknowledged it.
Uncertain(tasks) == {k \in Key : /\ tasks[k[1]].operation # "none"
                                 /\ tasks[k[1]].run = k[2]
                                 /\ outbox[k].status # "absent"}
Acknowledged(k) == mail[k].status = "delivered"
DiscardOutbox(K) == [k \in Key |-> IF k \notin K THEN outbox[k]
                                   ELSE IF Acknowledged(k) THEN Unclaimed(outbox[k], "delivered")
                                   ELSE Absent]
DiscardMail(K) == [k \in Key |-> IF k \in K /\ ~Acknowledged(k) THEN Absent ELSE mail[k]]

\* update_uncertain_external_operation.
SaveUncertain(t, rec, known) ==
  LET k == <<t, rec.run>>
      discarded == Uncertain([task EXCEPT ![t] = rec]) \cap {k}
  IN /\ Save(t, rec, IF discarded = {} THEN known ELSE Acknowledged(k))
     /\ outbox' = DiscardOutbox(discarded)
     /\ mail' = DiscardMail(discarded)

Processes == <<hand, claims, waiter>>

-----------------------------------------------------------------------------
(* Runs of a local child.  TaskManager works on the record in memory.       *)

Local == Task \ Remote
NewRun(t) == [task[t] EXCEPT !.run = @ + 1, !.suppressed = FALSE]

\* mark_running, from a spawn, a follow-up input or a review decision.
StartRun(t) ==
  /\ t \in loaded \cap Local
  /\ task[t].state # "running" /\ task[t].run < MaxRun
  /\ SaveLifecycle(t, [NewRun(t) EXCEPT !.state = "running"], FALSE)
  /\ UNCHANGED <<loaded, Processes, taken>>

\* mark_waiting_for_human.
PauseForReview(t) ==
  /\ t \in loaded \cap Local
  /\ task[t].state = "running"
  /\ SaveLifecycle(t, [task[t] EXCEPT !.state = "waiting_for_human"], seen[t])
  /\ UNCHANGED <<loaded, Processes, taken>>

\* mark_completed, mark_failed, mark_cancelled and mark_interrupted.
SettleRun(t) ==
  /\ t \in loaded \cap Local
  /\ task[t].state \in Active
  /\ SaveLifecycle(t, [task[t] EXCEPT !.state = "settled"], seen[t])
  /\ UNCHANGED <<loaded, Processes, taken>>

\* reject_mailbox_run: a wakeup that cannot be admitted is a failed run.
RejectRun(t) ==
  /\ t \in loaded \cap Local
  /\ task[t].state \in Settled /\ task[t].run < MaxRun
  /\ SaveLifecycle(t, [NewRun(t) EXCEPT !.state = "settled"], FALSE)
  /\ UNCHANGED <<loaded, Processes, taken>>

-----------------------------------------------------------------------------
(* The proxy of a remote child.                                             *)

\* The states in which the runtime begins each operation.
MayBegin(t, op) ==
  CASE op = "create" -> ~task[t].bound
    [] op = "send" -> TRUE
    [] op = "review" -> task[t].state = "waiting_for_human"
    [] op = "cancel" -> task[t].state \in Active

BeginOperation(t, op) ==
  /\ t \in loaded \cap Remote
  /\ task[t].operation = "none" /\ MayBegin(t, op)
  /\ SaveUncertain(t, [task[t] EXCEPT !.operation = op], seen[t])
  /\ UNCHANGED <<loaded, Processes, taken>>

\* mark_external_outcome_uncertain: the request was sent and its answer is lost.
MarkUncertain(t) ==
  /\ t \in loaded \cap Remote
  /\ task[t].operation # "none"
  /\ SaveUncertain(t, [task[t] EXCEPT !.state = "doubtful"], seen[t])
  /\ UNCHANGED <<loaded, Processes, taken>>

\* reject_external_operation: the request had no effect.
Rejected(t) == [task[t] EXCEPT !.operation = "none"]
RejectOperation(t) ==
  /\ t \in loaded \cap Remote
  /\ task[t].operation # "none"
  /\ SaveLifecycle(t, Rejected(t), seen[t])
  /\ UNCHANGED <<loaded, Processes, taken>>

\* allocate_task when the upstream refuses the create: the rejection is
\* followed by mark_failed, which raises if the rejection left an intent.
RejectCreate(t) ==
  /\ t \in loaded \cap Remote
  /\ task[t].operation = "create"
  /\ LET left == IF Notifies(Rejected(t), seen[t]) /\ task[t].state # "settled"
                 THEN Rejected(t)
                 ELSE [Rejected(t) EXCEPT !.state = "settled"]
     IN SaveLifecycle(t, left, seen[t])
  /\ UNCHANGED <<loaded, Processes, taken>>

\* What the upstream gateway says of its Task.  A pending Task counts as running.
Payload == {p \in [state : {"running", "waiting_for_human", "settled"}, run : Run,
                   cancelled : BOOLEAN] : p.cancelled => p.state = "settled"}

\* _effect_is_proven.  The run at which an operation began is still the run of
\* the record: only a proven payload moves it.
Proven(t, p) ==
  CASE task[t].operation \in {"none", "create"} -> TRUE
    [] task[t].operation = "send" -> p.run > task[t].run
    [] task[t].operation = "review" -> p.state # "waiting_for_human" /\ p.run > task[t].run
    [] task[t].operation = "cancel" -> p.cancelled

\* The upstream's run_count never decreases and a settled run stays settled.
InOrder(t, p) ==
  \/ p.run > task[t].run
  \/ p.run = task[t].run /\ (task[t].state = "settled" => p.state = "settled")

SyncedForgetful(t, p) == [task[t] EXCEPT !.state = p.state, !.run = p.run, !.operation = "none",
                                         !.suppressed = FALSE, !.bound = TRUE]
Synced(t, p) == [task[t] EXCEPT !.state = p.state, !.run = p.run, !.operation = "none",
                                !.suppressed = @ /\ p.run = task[t].run, !.bound = TRUE]

\* sync_remote_task, from the answer to an operation, a refresh or a webhook.
\* An unchanged record is saved without an event and so without an intent.
SyncRemote(t, p) ==
  /\ t \in loaded \cap Remote
  /\ task[t].bound \/ task[t].operation = "create"
  /\ Reordered \/ InOrder(t, p)
  /\ LET rec == Synced(t, p)
         known == seen[t] /\ p.run = task[t].run
     IN CASE ~Proven(t, p) -> SaveUncertain(t, [task[t] EXCEPT !.state = "doubtful"], seen[t])
          [] Proven(t, p) /\ rec # task[t] -> SaveLifecycle(t, rec, known)
          [] OTHER -> Save(t, rec, known) /\ UNCHANGED <<outbox, mail>>
  /\ UNCHANGED <<loaded, Processes, taken>>

-----------------------------------------------------------------------------
(* wait_agent and check_agent: taking the result instead of the message.    *)

\* suppress_mailbox_delivery: one transaction suppresses the current run in the
\* Task row, its intent and its mailbox row.  The two retractions that follow
\* in the code find nothing left to retract in a shared database.
SuppressIntentOnly(t) ==
  LET k == Current(t)
  IN /\ Save(t, [task[t] EXCEPT !.suppressed = TRUE], seen[t])
     /\ outbox' = IF outbox[k].status \in {"pending", "claimed", "delivered"}
                  THEN [outbox EXCEPT ![k] = Unclaimed(@, "suppressed")] ELSE outbox
     /\ taken' = taken \cup {k} /\ UNCHANGED mail
Suppress(t) ==
  LET k == Current(t)
  IN /\ Save(t, [task[t] EXCEPT !.suppressed = TRUE], seen[t])
     /\ outbox' = IF outbox[k].status \in {"pending", "claimed", "delivered"}
                  THEN [outbox EXCEPT ![k] = Unclaimed(@, "suppressed")] ELSE outbox
     /\ mail' = IF mail[k].status \in {"pending", "claimed"}
                THEN [mail EXCEPT ![k] = Unclaimed(@, "retracted")] ELSE mail
     /\ taken' = taken \cup {k}

Waits(t, ph) == waiter' = [waiter EXCEPT ![t] = [phase |-> ph, run |-> task[t].run]]
Return(t) == waiter' = [waiter EXCEPT ![t] = NoWait]

\* There is a handle to await, or a refresh of the proxy.
MustAwait(t) == t \in Remote \/ task[t].state = "running"

\* The call reads the record: a settled run is returned, a run that waits for a
\* human is put before the caller's review handler, and any other state of a
\* local child is returned as it is.
Look(t) ==
  CASE task[t].state \in Settled -> Return(t)
    [] task[t].state = "waiting_for_human" -> Waits(t, "review")
    [] OTHER -> IF t \in Remote THEN Waits(t, "await") ELSE Return(t)

\* The call takes the current run over before it awaits or reads anything.
BeginWait(t) ==
  /\ t \in loaded /\ waiter[t].phase = "idle"
  /\ Suppress(t)
  /\ IF MustAwait(t) THEN Waits(t, "await") ELSE Look(t)
  /\ UNCHANGED <<loaded, hand, claims>>

\* The awaited run is over: the record may already be that of a later run.
LookAgain(t) ==
  /\ waiter[t].phase = "await"
  /\ ~(t \in Local /\ task[t].state = "running" /\ task[t].run = waiter[t].run)
  /\ Look(t)
  /\ UNCHANGED <<task, loaded, seen, outbox, mail, hand, claims, taken>>

\* The review is resolved, or the child moved on: the loop starts again.  It
\* does not take the new run over.
ResumeWait(t) ==
  /\ waiter[t].phase = "review"
  /\ IF MustAwait(t) THEN Waits(t, "await") ELSE Look(t)
  /\ UNCHANGED <<task, loaded, seen, outbox, mail, hand, claims, taken>>

\* Nobody can resolve the review, the refresh fails, or the caller of
\* wait_agent is cancelled: the call ends without a result and the run goes on.
EndWait(t) ==
  /\ waiter[t].phase # "idle"
  /\ Return(t)
  /\ UNCHANGED <<task, loaded, seen, outbox, mail, hand, claims, taken>>

\* check_agent takes a run over only when it reads it settled.
CheckAgent(t) ==
  /\ t \in loaded /\ task[t].state \in Settled
  /\ Suppress(t)
  /\ UNCHANGED <<loaded, Processes>>

-----------------------------------------------------------------------------
(* Dispatch of the outbox.                                                  *)

\* claim_pending: withdraw uncertain intents, release lapsed claims, and claim
\* every pending intent that nobody took over.
Claimable(k, queue, tasks) ==
  /\ queue[k].status = "pending"
  /\ IsCurrent(k) => ~tasks[k[1]].suppressed /\ ~tasks[k[1]].delivered

Discard(K) ==
  [t \in Task |-> IF Current(t) \in K
                  THEN [task[t] EXCEPT !.delivered = Acknowledged(Current(t))] ELSE task[t]]

ClaimOutbox(d, tok) ==
  LET K == Uncertain(task)
      queue == Released(DiscardOutbox(K))
      due == {k \in Key : Claimable(k, queue, Discard(K))}
  IN /\ hand[d] = {} /\ Fresh(tok, queue, hand)
     /\ task' = Discard(K)
     /\ outbox' = ClaimAll(queue, due, tok)
     /\ mail' = DiscardMail(K)
     /\ hand' = [hand EXCEPT ![d] = Batch(due, tok)]
     /\ UNCHANGED <<loaded, seen, claims, waiter, taken>>

\* A claim may be published while its row holds the claim's token and the run
\* is neither taken over nor uncertain.  The lease itself is not looked at.
Publishable(c) ==
  /\ Held(outbox, c)
  /\ IsCurrent(c.key) => ~task[c.key[1]].suppressed /\ task[c.key[1]].operation = "none"

Drop(d, c) == hand' = [hand EXCEPT ![d] = @ \ {c}]

\* publish_claimed_settled_outbox and observe_mailbox_delivered.
Publish(d, c) ==
  LET t == c.key[1]
      row == mail[c.key]
  IN /\ c \in hand[d] /\ Publishable(c) /\ row.status # "retracted"
     /\ mail' = IF row.status = "absent"
                THEN [mail EXCEPT ![c.key] = Pending(outbox[c.key].reports)] ELSE mail
     /\ outbox' = [outbox EXCEPT ![c.key] = Unclaimed(@, "delivered")]
     /\ task' = IF IsCurrent(c.key) THEN [task EXCEPT ![t].delivered = TRUE] ELSE task
     /\ seen' = IF IsCurrent(c.key) /\ d = Home /\ t \in loaded
                THEN [seen EXCEPT ![t] = TRUE] ELSE seen
     /\ Drop(d, c)
     /\ UNCHANGED <<loaded, claims, waiter, taken>>

\* The publish transaction finds the claim fenced: the intent is left alone.
SkipFenced(d, c) ==
  /\ c \in hand[d] /\ ~Publishable(c)
  /\ Drop(d, c)
  /\ UNCHANGED <<task, loaded, seen, outbox, mail, claims, waiter, taken>>

\* The publish transaction raises and release_claim, fenced by the token, puts
\* the intent back.
FailPublish(d, c) ==
  /\ c \in hand[d]
  /\ outbox' = IF Held(outbox, c) THEN [outbox EXCEPT ![c.key] = Unclaimed(@, "pending")]
               ELSE outbox
  /\ Drop(d, c)
  /\ UNCHANGED <<task, loaded, seen, mail, claims, waiter, taken>>

\* The release fails too: the intent stays claimed until its lease lapses.
FailRelease(d, c) ==
  /\ c \in hand[d]
  /\ Drop(d, c)
  /\ UNCHANGED <<task, loaded, seen, outbox, mail, claims, waiter, taken>>

\* One batch has one claim_expires_at.
Lapse(queue, tok) == [k \in Key |-> IF queue[k].status = "claimed" /\ queue[k].token = tok
                                    THEN [queue[k] EXCEPT !.live = FALSE] ELSE queue[k]]
Leased(queue, tok) ==
  \E k \in Key : queue[k].status = "claimed" /\ queue[k].token = tok /\ queue[k].live

LapseOutbox(tok) ==
  /\ Leased(outbox, tok)
  /\ outbox' = Lapse(outbox, tok)
  /\ UNCHANGED <<task, loaded, seen, mail, Processes, taken>>

-----------------------------------------------------------------------------
(* The parent's runs read the mailbox.                                      *)

\* The suppression clause of every mailbox query.
Quiet(k) ==
  \/ IsCurrent(k) /\ task[k[1]].suppressed
  \/ outbox[k].status = "suppressed"

\* claim, before a model call of run p: a row claimed again gets a new token.
ClaimMail(p, tok) ==
  LET queue == Released(mail)
      due == {k \in Key : queue[k].status = "pending" /\ ~Quiet(k)}
  IN /\ Fresh(tok, queue, claims)
     /\ mail' = ClaimAll(queue, due, tok)
     /\ claims' = [claims EXCEPT ![p] = {c \in @ : c.key \notin due} \cup Batch(due, tok)]
     /\ UNCHANGED <<task, loaded, seen, outbox, hand, waiter, taken>>

\* The live rows of the token batches of a run.
Mine(p) == {k \in Key : /\ mail[k].status = "claimed" /\ mail[k].live
                        /\ \E c \in claims[p] : c.token = mail[k].token}

EndRun(p, s) ==
  /\ claims[p] # {}
  /\ mail' = [k \in Key |-> IF k \in Mine(p) THEN Unclaimed(mail[k], s) ELSE mail[k]]
  /\ claims' = [claims EXCEPT ![p] = {}]
  /\ UNCHANGED <<task, loaded, seen, outbox, hand, waiter, taken>>

AcknowledgeRun(p) == EndRun(p, "delivered")     \* the run succeeded
ReleaseRun(p) == EndRun(p, "pending")           \* it failed or was cancelled

\* The scope of the run ends and neither statement could be executed.
ForgetRun(p) ==
  /\ claims[p] # {}
  /\ claims' = [claims EXCEPT ![p] = {}]
  /\ UNCHANGED <<task, loaded, seen, outbox, mail, hand, waiter, taken>>

\* recover_claims: lapsed rows are released, live batches renewed, dead tokens
\* forgotten.
RecoverClaims ==
  LET queue == Released(mail)
  IN /\ mail' = queue
     /\ claims' = [p \in Reader |-> {c \in claims[p] : Leased(queue, c.token)}]
     /\ UNCHANGED <<task, loaded, seen, outbox, hand, waiter, taken>>

\* max_triggering_sequence and list_pending_trigger_recipient_task_ids release
\* lapsed rows too.
QueryTriggers ==
  /\ mail' = Released(mail)
  /\ UNCHANGED <<task, loaded, seen, outbox, Processes, taken>>

LapseMail(tok) ==
  /\ Leased(mail, tok)
  /\ mail' = Lapse(mail, tok)
  /\ UNCHANGED <<task, loaded, seen, outbox, Processes, taken>>

-----------------------------------------------------------------------------
(* Crashes.  The children, the waits and the parent's runs are all in the   *)
(* home process.                                                            *)

CrashHome ==
  /\ loaded' = {}
  /\ seen' = [t \in Task |-> FALSE]
  /\ hand' = [hand EXCEPT ![Home] = {}]
  /\ claims' = [p \in Reader |-> {}]
  /\ waiter' = [t \in Task |-> NoWait]
  /\ UNCHANGED <<task, outbox, mail, taken>>

CrashDispatcher(d) ==
  /\ d # Home /\ hand[d] # {}
  /\ hand' = [hand EXCEPT ![d] = {}]
  /\ UNCHANGED <<task, loaded, seen, outbox, mail, claims, waiter, taken>>

\* load_task_by_id and its variants replace the record by the stored one unless
\* the child has a live run; what a dead process left running is interrupted.
Restore(t) ==
  /\ t \in loaded => (t \in Remote \/ task[t].state # "running")
  /\ loaded' = loaded \cup {t}
  /\ LET rec == task[t]
         known == task[t].delivered
     IN CASE rec.operation # "none" -> SaveUncertain(t, [rec EXCEPT !.state = "doubtful"], known)
          [] t \in Local /\ rec.state \in {"pending", "running"} ->
               SaveLifecycle(t, [rec EXCEPT !.state = "settled"], known)
          [] OTHER -> seen' = [seen EXCEPT ![t] = known] /\ UNCHANGED <<task, outbox, mail>>
  /\ UNCHANGED <<Processes, taken>>

-----------------------------------------------------------------------------
Init ==
  /\ task = [t \in Task |-> [state |-> "pending", run |-> 0, suppressed |-> FALSE,
                             delivered |-> FALSE, operation |-> "none", bound |-> FALSE]]
  /\ loaded = Task
  /\ seen = [t \in Task |-> FALSE]
  /\ outbox = [k \in Key |-> Absent]
  /\ mail = [k \in Key |-> Absent]
  /\ hand = [d \in Dispatcher |-> {}]
  /\ claims = [p \in Reader |-> {}]
  /\ waiter = [t \in Task |-> NoWait]
  /\ taken = {}

LocalRun == \E t \in Task : StartRun(t) \/ PauseForReview(t) \/ SettleRun(t) \/ RejectRun(t)

RemoteRun ==
  \E t \in Task :
    \/ \E op \in Operation : BeginOperation(t, op)
    \/ MarkUncertain(t) \/ RejectOperation(t) \/ RejectCreate(t)
    \/ \E p \in Payload : SyncRemote(t, p)

Consume ==
  \E t \in Task : \/ BeginWait(t) \/ LookAgain(t) \/ ResumeWait(t) \/ EndWait(t)
                 \/ CheckAgent(t)

Attempt(d) ==
  \E c \in hand[d] : \/ Publish(d, c) \/ SkipFenced(d, c)
                     \/ FailPublish(d, c) \/ FailRelease(d, c)
Dispatch == \E d \in Dispatcher : (\E tok \in Token : ClaimOutbox(d, tok)) \/ Attempt(d)

Read ==
  \/ \E p \in Reader : \/ \E tok \in Token : ClaimMail(p, tok)
                        \/ AcknowledgeRun(p) \/ ReleaseRun(p) \/ ForgetRun(p)
  \/ RecoverClaims \/ QueryTriggers

Fault ==
  \/ \E tok \in Token : LapseOutbox(tok) \/ LapseMail(tok)
  \/ CrashHome
  \/ \E d \in Dispatcher : CrashDispatcher(d)

Next == LocalRun \/ RemoteRun \/ Consume \/ Dispatch \/ Read \/ Fault \/ (\E t \in Task : Restore(t))

Spec == Init /\ [][Next]_vars

\* The reconcile loop of the home process runs every second and drains what it
\* claims; another dispatcher, which polls at the same pace, may stop for good or
\* win a race but not every race; leases run out; and a publication tried again
\* and again is not refused each time, whatever crashes come between.
Gains(d) == \E tok \in Token : ClaimOutbox(d, tok) /\ hand'[d] # {}
Fairness ==
  /\ SF_vars(Gains(Home))
  /\ WF_vars(Attempt(Home))
  /\ SF_vars(\E c \in hand[Home] : Publish(Home, c))
  /\ \A tok \in Token : WF_vars(LapseOutbox(tok))
LiveSpec == Spec /\ Fairness

-----------------------------------------------------------------------------
(* Properties.                                                              *)

\* The settlement of the current run always has an intent, unless the parent
\* took the run over: update_task_with_event inserts it in the transaction that
\* settles the run, and update_rejected_external_operation restores it.
SettlementHasIntent ==
  \A t \in Task :
    task[t].state \in Settled /\ task[t].operation = "none" /\ ~task[t].suppressed
      => outbox[Current(t)].status # "absent"

\* The two queues agree on every run: a run is announced in the mailbox exactly
\* when its intent is delivered, retracted only when suppressed, and what the
\* parent acknowledged is never due again.
QueuesAgree ==
  \A k \in Key :
    /\ outbox[k].status \in {"absent", "pending", "claimed"} => mail[k].status = "absent"
    /\ outbox[k].status = "delivered" => mail[k].status \in {"pending", "claimed", "delivered"}
    /\ outbox[k].status = "suppressed" => mail[k].status \in {"absent", "delivered", "retracted"}

\* A run that wait_agent or check_agent took over is never announced again, not
\* by an older claim of any dispatcher and not after later runs or a restart.
TakenRunIsQuiet ==
  \A k \in taken : /\ outbox[k].status \notin {"pending", "claimed"}
                   /\ mail[k].status \notin {"pending", "claimed"}

\* A live claim ends only by its own holder, by a takeover or an uncertain
\* operation on the run, or by its lease.
ClaimKept(row, next, k, holders, nextHolders) ==
  row.status = "claimed" /\ row.live
    => \/ next.status = "claimed" /\ next.token = row.token
       \/ \E h \in DOMAIN holders : [key |-> k, token |-> row.token]
                                      \in holders[h] \ nextHolders[h]
       \/ task'[k[1]].suppressed \/ task'[k[1]].operation # "none"
Fenced == \A k \in Key : /\ ClaimKept(outbox[k], outbox'[k], k, hand, hand')
                         /\ ClaimKept(mail[k], mail'[k], k, claims, claims')
ClaimsAreFenced == [][Fenced]_vars

\* Every intent reaches the parent's mailbox or is withdrawn: crashes, failed
\* publications and lost claims only delay it.
IntentIsDispatched ==
  \A k \in Key : outbox[k].status \in {"pending", "claimed"}
                  ~> outbox[k].status \notin {"pending", "claimed"}
=============================================================================
