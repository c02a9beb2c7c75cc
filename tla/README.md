# Ruyi Agent in TLA+

Ruyi Agent runs LLM agents as long-lived *Tasks*. A Task has runs (its
`run_count` is the generation), may delegate to child Tasks that are local or
proxies of Tasks on another Gateway, and tells its parent when a run has
settled. This directory holds TLA+ models of its core, the TLC configurations
that check them and TLAPS proofs. Source paths below are relative to
`src/src/ruyi_agent/`; documents are in `src/docs/systems/`.

    tlc -config SettledOutbox.cfg MCSettledOutbox
    tlc -config Startup.cfg MCStartup
    tlapm SettledOutboxProofs.tla
    tlapm RemoteProofs.tla

## Inventory

The process is one asyncio event loop over several SQLite stores. Other
processes may share the stores, other Gateways are reached over HTTP.

| Component | State | Operations | Talks to | What makes it correct |
|---|---|---|---|---|
| Task records (`runtime/delegation/task_manager.py`, `storage/task_store.py`, `task_unit_of_work.py`) | one row and one in-memory record per Task: state, run count, delivery flags, external operation | create, mark_*, sync, suppress, restore | ledger, outbox (one transaction) | a row, its event and its notification commit together; generations never mix |
| Settled outbox (`storage/settled_outbox.py`) | one intent per settled run: pending, claimed, delivered, suppressed | insert, claim with lease and token, release, suppress, withdraw | Task rows, mailbox rows | no settlement is lost; a run taken synchronously is not announced |
| Notifier (`runtime/delegation/notifications.py`) | a claimed batch | publish, release, reconcile every second | outbox, mailbox | crashes and failed publications only delay |
| Agent mailbox (`runtime/mailbox/service.py`, `storage/mailbox_store.py`) | messages with status, claim token and lease; tokens of the active runs | publish, claim, acknowledge, release, renew, recover | executor, notifier | a message is consumed by one successful run; claims are fenced |
| Delegation tools (`runtime/delegation/tools.py`) | a suspended call | `wait_agent`, `check_agent`, spawn, send, cancel | runtime, notifier | a result is returned or announced, not both |
| Remote proxy (`remote_port.py`, `remote_reconciliation.py`) | external operation: kind, identity, run, uncertain | begin, reject, mark uncertain, prove, sync | upstream Gateway | an effect is neither repeated nor invented after a lost answer |
| Run supervisor and live runs (`run_supervisor.py`, `live_runs.py`) | `_runs`, registry, permits, shutdown flags | schedule, permits, done callbacks, close | task runtime | one run per Task; nothing executes unsaved or unowned; close ends |
| Task runtime (`task_runtime.py`) | input locks, recovery loops | spawn, resume, wake, cancel, close; the run coroutine | all of the above | a wakeup is not lost; a cancelled run is finalized |
| Delegation policy (`policy.py`, `context.py`) | budget lock per root | depth, budget, cycle limits | Task rows | the budget holds under concurrent spawns |
| Gateway commands, routes, create workflow (`gateway/`, `storage/gateway_*_store.py`) | command claims, effect boundary, route state | claim, start effect, complete, fail, release, recover | runtime | at most one effect per idempotency key, across crashes |
| Reviews (`gateway/reviews.py`, `storage/task_review_uow.py`) | pending review, mirrored on the root Task | transition | ledger | no mirror without its review |
| Event ledger (`runtime/task_event_ledger.py`) | durable events, subscribers | append, open, resume, end | SSE routes | a stream shows every durable event of its run, then ends |
| Channel delivery (`channels/presentation.py`, `task_watch.py`, `storage/channel_delivery_store.py`) | intents with lease, fence and steps | claim, renew, step, redrive, supersede | Gateway, platforms | steps are fenced; a delivery ends |
| Channel turns, sessions, receipts (`channels/turn.py`, `event_receipts.py`, `storage/channel_session_store.py`) | receipts, bindings | claim, bind, process | Gateway | a repeated event has one effect |

Hard behaviours: concurrent callers between any two awaits; two processes on
one database; crashes between transactions; leases that lapse under a slow
owner; remote answers that are lost, late or out of order; callbacks that fire
after the next run has started; cancellation at any await. `PROJECT.json` lists
each hazard at its line with the properties that cover it, and the remaining
components (adapters, protocol, middleware, configuration, integrations), which
are sequential, formatting or pure I/O.

## Modules

| Module | What it models | Composes with |
|---|---|---|
| `SettledOutbox`, `SettledOutboxProofs` | a settlement on its way to the parent; its inductive invariant and theorems | the mailbox rows of `TaskWakeup`, the create of `DelegationTree` |
| `RunSupervisor` | local runs, admission, cancellation and shutdown | the runs of all Task modules |
| `TaskWakeup` | the mailbox of a Task and the runs it wakes | `SettledOutbox` publishes into it |
| `TaskReview` | the reviews of one tree, in memory and in rows | `ReviewListing` lists them |
| `TaskEventStream` | the events of one Task and the streams that follow them | a proxying Gateway |
| `DelegationTree` | a tree of Tasks over several Gateways | `GatewayCreate` is the request in front of each spawn |
| `GatewayCreate`, `IdempotentCreate` | a create under one idempotency key; the abstract create it implements | commands, routes, Tasks, upstream |
| `GatewayCreateProofs` | the invariants of every create, of an unsafe and of an undisturbed one; the refinement | `GatewayCreate`, `IdempotentCreate` |
| `ReviewListing` | paging through the pending reviews of a Gateway | `TaskReview`, remote owners |
| `ChannelTurn`, `ChannelTurnProofs` | what a chat adapter makes of platform events | Gateway commands and Tasks |
| `ChannelDelivery`, `ChannelDeliveryProofs` | telling a chat what became of a run | Gateway queries |
| `ToolApproval` | tool calls between model, policy and human | the review a run waits for |
| `SettingsFields`, `RuntimeSettings` | the table of the fields; how a process gets its settings | the environment of child processes |
| `RemoteUpgrade`, `StoreUpgrade` | what opening an old database does to its rows | outbox, mailbox, reviews |
| `CodexStream`, `CodexAuth` | a streamed model call and its retries; the login file of several processes | external endpoints |
| `TaskWakeupProofs` | what a message is read and wakes, what an upgrade numbers and fences | `TaskWakeup`, `StoreUpgrade` |
| `RunSupervisorProofs` | what a shutdown leaves, what a stream delivers | `RunSupervisor`, `TaskEventStream` |
| `TaskReviewProofs` | the reviews of a tree, the calls they approve, the pages that list them | `TaskReview`, `ToolApproval`, `ReviewListing` |
| `RemoteProofs` | trees and their limits, shared logins, model calls | `DelegationTree`, `CodexAuth`, `CodexStream` |

The `MC` modules hold the model values and the instances of the runs. Those of
`SettledOutbox`, `RunSupervisor`, `TaskWakeup` and `GatewayCreate` extend the
module. The others put several machines side by side: `MCReviews` extends
`TaskReview` and `ToolApproval`, `MCReaders` `TaskEventStream` and
`ReviewListing`, `MCRemote` `DelegationTree`, `CodexStream` and `CodexAuth`,
`MCChannels` `ChannelTurn`, `MCChannelsLive` `ChannelDelivery` and `MCStartup`
`StoreUpgrade`; what else they check, and what `MCEndings` does, they have as
instances. A variable `world` (in
`GatewayCreate` `setting`, in `MCSettledOutbox` `child`) is chosen at the start and
never changes, the machine it names takes steps, the others stand still. Such a
run has the behaviours of its instances and no others; it shares nothing between
them. The first two modules look at the same Task from two
sides: `RunSupervisor` has the handles and the suspensions and only the state
and the generation of the record; `SettledOutbox` has the whole delivery state
and takes a lifecycle transition (`mark_running`, `mark_completed`, ...) as one
step, because each is one transaction.

### SettledOutbox

One action is one SQLite transaction together with the memory the same
synchronous code updates.

| Variable | Code |
|---|---|
| `task` | the `agent_tasks` row: state, run count, `mailbox_suppressed`, `mailbox_delivered`, external operation, whether an upstream Task is bound |
| `loaded`, `seen` | the records in the memory of the home process and their `mailbox_delivered` |
| `outbox`, `mail` | `agent_task_settled_outbox` and the settlement rows of `agent_mailbox_messages`, by the deterministic key of a run |
| `hand` | the batch `_dispatch_available` is working through |
| `claims` | `AgentMailbox._active_run_claims` |
| `waiter` | where a `wait_agent` call is suspended |
| `taken` | history: runs taken over |

`StartRun`, `PauseForReview`, `SettleRun`, `RejectRun` are the `mark_*` methods;
`BeginOperation`, `MarkUncertain`, `RejectOperation`, `RejectCreate`,
`SyncRemote` are `remote_reconciliation.py` with the part of `remote_port.py`
that calls it; `BeginWait`, `LookAgain`, `ResumeWait`, `EndWait`, `CheckAgent`
are the tools; `ClaimOutbox`, `Publish`, `SkipFenced`, `FailPublish`,
`FailRelease` are the notifier and its two stores; `ClaimMail`, `AcknowledgeRun`,
`ReleaseRun`, `ForgetRun`, `RecoverClaims`, `QueryTriggers` are the mailbox;
`LapseOutbox`, `LapseMail`, `CrashHome`, `CrashDispatcher`, `Restore` are time,
crashes and `task_record_for_restart`.

Abstractions: the four settled states are one, apart from the interrupted state
whose text says that a remote outcome is uncertain; the content of a settlement
is therefore constant per run except for that text, which is what the conflict
check of `insert_locked` tells apart. The children, their waits and the parent's
runs live in the home process; other dispatchers only drain the outbox. The
Task store and the mailbox share one database, as the runtime configures them,
so the retractions that follow a suppression in the code find nothing to do.
A child has one `wait_agent` call at a time. `MarkUncertain` asks for an open
operation, as its callers have begun one; where a payload has cleared that
meanwhile, the operation it opens itself is `BeginOperation` before it. The batch limit of 100 is not
reached.

### RunSupervisor

One action is what a coroutine or a callback does between two suspensions.

| Variable | Code |
|---|---|
| `record` | state and `run_count` of the `TaskRecord` |
| `handle` | the asyncio task of each run: ready, in its payload, in its tail, in an except block, done with callbacks to run; a cancellation not yet delivered; an exception |
| `owned` | `RunSupervisor._runs` |
| `live` | `LiveRunRegistry._runs` with `cancel_requested` |
| `client` | where a caller is suspended, and whether it is cancelled |
| `shutdown`, `doomed` | how far `_close_impl` has come, its snapshot of the runs |

Abstractions: uncontended asyncio locks do not suspend, so the lifecycle and
schedule locks matter only while a failed admission is rolled back (`Locked`),
and the budget lock of one delegation tree while a remote create holds it. A
permit is where its client is: the nonce checks of `_consume_permit_locked` are
not modelled. Maintenance tasks (wakeups, reconcile loops) are clients.
`discard_finished` and `_run_finished` are added to the same handle one after
the other and run as one step. The event loop is first in, first out, of which
one fact is used: callbacks of a finished run precede the first step of a run
admitted later. The Agent honours a cancellation.

### TaskWakeup

`msg` are the mailbox rows (status, wakeup sequence, claiming run, live lease),
`counter` is `agent_mailbox_sequence`, `task` the row with its watermark, `run`
the live run with what it has read, `waker` the holder of the Task's input lock
between its two reads. `Publish`, `PublishNote`, `Retract`, `RecoverClaims`,
`LapseDead` are the store; `BeginWake`, `AdmitWake`, `RejectWake` are
`wake_task` in the parts between its awaits; `ModelBoundary` is the middleware's
claim before a model call; `GraphReturns`, `GraphFails`, `AskForReview`,
`Settle`, `EndTail` are the run; `Stall` is a process that does nothing for
longer than its leases. A wakeup may start at any time, since a sender, the end
of a run and a tick every five seconds all start one. A batch of claims is named
by its run: a Task has one run at a time. A message that a failed run has
released does not wake the Task by itself, as documented.

### TaskReview

`mem` are the records in memory, `row` and `table` the two tables, `made` the
ids minted, `live` the runs not done, `used` how often a decision resumed a run.
Memory is changed first and put back when the transaction fails (`Reload`,
`Restart` read it back). `SyncRemote` applies an arbitrary payload of the other
Gateway, which may name the review of another Task. The decision's check and
the start of the run are one step, which `RunSupervisor`'s admission justifies.
Only the database-backed manager is modelled.

### TaskEventStream

`events` holds with each event the row it was committed with; `sub` is a
connection's subscription, `proxy` what a Gateway that forwards it has checked.
Each query of a stream is a step: writers run in other threads. `MaxPending` is
the queue limit of a subscriber, `Batch` the page of a query, `TailPoll` the poll
that makes up for a lost wakeup. A stream begins with a new Task or with one that
was stored before there were events, whose log is empty.
Deltas are best effort. Two processes that share the ledger's database are not
modelled.

### DelegationTree

`limits` are the settings a process runs with, `tasks` the rows of all
databases, `asked` the request an id was given to, `calls` the `spawn_task` calls
under way, `net` and `answers` the create at the far Gateway. `Ask` is the
caller with its Gateway command, `Enter` the path to the lock, `Insert` the
transaction that counts the tree, `Send`/`Arrive`/`Reject`/`Hear`/`Timeout`/`Lose`
the remote create, made while the lock of the tree is held. Two Gateways that
spawn at each other under one root therefore wait on one another until a timeout
leaves both creates in doubt. The states of runs, permission profiles, skills
and the encoding of the metadata are left out; `from` links a Task to its parent
for the properties and the comparison of requests.

### GatewayCreate and IdempotentCreate

`cmd`, `route`, `task` are the rows of the three ledgers, `effects` what was
started, `stray` the requests given up that are still on the wire, `late` the
writes that a cancelled caller left in a worker thread, `actor` where each
request and query is. `CommandStep`, `RouteStep`, `SpawnStep`, `ReconcileStep`
group the actions of `commands.py`, `create_route_workflow.py` with
`route_reservations.py`, the spawn and the queries; `Crash` ends the process
between any two of them. `setting` is the Agent and its circumstances: local or
remote, with the replay contract or without, the faults that may occur and who
queries. `KeepsPromise` is the refinement: mapped to the Tasks made, the refusal
of the key and what every caller was told last, the ledgers implement
`IdempotentCreate` while the create is `Undisturbed`, that is, local or without
the replay contract, not queried meanwhile, and with a route store that does not
raise. Each of the three exclusions is needed: a query may settle a route whose
run starts between its read and its write (*Divergences*), a route store that
raises lets a caller be told that a create has not started which is still open,
and under the contract a retry may meet the 409 of its own first request. A claim
that is taken in a worker thread while its caller is cancelled (`orphan`) belongs
to nobody until a restart, so `FairClaimEnds` is checked without that fault.

### ReviewListing

`reviews` are the rows of the pending reviews, each with the ingest sequence and
the cursor order it was inserted with, `page` the call in flight (it reads all
rows, then awaits the refresh of a batch of owners), `cursor` what the client
holds, `seen`, `twice`, `due` what the properties need. The records of a page are
a set with an order; `left`, what is still to be scanned of them, stands for the
scan index. `OldRelease` begins a walk under a release with version-2 cursors.
Cursors of versions 1 and 3 and integer offsets promise nothing and are left
out. A review asked again under the same id keeps its row, one under another id
is a new row.

### ChannelTurn

`receipt`, `turn`, `session`, `offset` are the adapter's durable state, `tasks`,
`recent`, `cmd` the Gateway's, `wk` the handlers, each await a step. `Ingress`
chooses the loop of Telegram or the coroutines of Feishu. A worker holds one
claim. `Settle`, `Wake` and `AskReview` are what becomes of a Task without the chat:
its runs end, its mailbox starts another when a child settles
(`_ensure_task_awake`), and other clients send, decide and cancel. `unseen` only
remembers which handlers had read the chat before a run began. Feishu events
without a key and group filters are left out. A wakeup that is refused since the
Agent is unknown changes nothing here but the time of the Task, as a run that ends
at once does.

### ChannelDelivery

`intent` and `marked` are the rows of an intent and its steps, `watch`,
`waiter`, `scanned`, `restart`, `owed` the coroutines of each process, `sent`
what the platform took. What lies between two awaits of a watch is a step. Owner
ids are fresh, so a dead process's lease is one value. A stale scan of the
reconciler may take the lease of the same process's fresh watch, which is
harmless; a review decided elsewhere leaves the intent waiting until a user acts
or a process restarts. A turn that waits starts the watch again by the row it read
0.1 s before, so `WaiterRestarts` asks only that the row can be claimed. A failure inside `recover()` itself is left out.

### ToolApproval

`after_model` keeps nothing over a review: `Replayed` folds the answers
given so far over the calls of the model, as the graph does when it runs the
node again. A rule's own `allowed_decisions` (`permissions.py:485`) is data: a
review offers a subset of the decisions whichever list it comes from. A command is the sequence of its segments by prefix; of each prefix
the first matching rule counts. The audit is written beside these steps and read
by none; it is left out. The replay of `interrupt()` is external.

### SettingsFields and RuntimeSettings

`SettingsFields` is the table of the fields: for each use of `_selected` in
`load_runtime_settings` the kind of its value, whether it has an alias, a variable
and a default, and what the default is made from. It is the parameter `D` of
`RuntimeSettings`. There `file` and `doc` are ruyi.toml, `env` the environment,
`settings` and `answer` what a call returned. A raw value is a type and a class (default, valid, padded,
with a comma, out of range, blank). A behaviour is about one field or a group of
fields that depend on each other. `RUYI_HOME` is fixed. Elements that contain a
comma and emptied fallback addresses are named exceptions of
`EnvironmentAgrees`: the environment cannot say them.

### RemoteUpgrade and StoreUpgrade

One action per opening of a store, a transaction each, with a `Stop` between
them; old rows are chosen among those the code and its tests treat.
`RemoteUpgrade`: a recipient or sender that does not match is one that names
another agent or child; two processes on one database are not modelled.
`StoreUpgrade`: one tree; the old release may come back between two openings;
the time a review was asked is the order of asking. `json` is the review in the
Task row, `row` the table of pending reviews, `high` its high-water mark, `inbox` the
messages with their `wakeup_sequence`, `lastWakeup` the counter of those, `mark` the
watermark of a Task (-1: none yet); `issued` only remembers what was given out.
`Rank` is the place of a row in the order both numberings use.

### CodexStream and CodexAuth

One action per line or event of a stream; the server says any well-formed answer
and may break off or fail at any event. `AStream` adds a cancellation at every
await. An end of the body without the completing event is taken as an end, as in
the code; a part that the server does not stream is only shown if nothing was
shown before, which no document speaks about. `CodexAuth` has a step for the read,
the refresh, the truncation and the write of the file; ages of tokens are a set,
one account is in the file, and whether the endpoint rotates refresh tokens is
chosen once.

## Runs

`PROJECT.json` lists the twelve runs with their properties, what is expected of
each, and one mutant per property of every passing run: a plausible bug (a
dropped fence, a forgotten reset, an uncancelled handle, a swapped order) under
which the run fails.

| Run | Configuration, module | Instances (`world`) | Shows |
|---|---|---|---|
| `settled` | `SettledOutbox.cfg`, `MCSettledOutbox` | `local`: a local child of 2 generations, 2 dispatchers, a parent run, 2 tokens, fair; `remote`: a remote child with in-order payloads and operations, 1 dispatcher | `TypeOK`, `SettlementHasIntent`, `QueuesAgree`, `TakenRunIsQuiet`, `ClaimsAreFenced`, `LocalIntentIsDispatched` |
| `supervisor` | `RunSupervisor.cfg`, `MCRunSupervisor` | 2 Tasks of one run each, or 1 Task of 2 runs; 2 callers, all faults, fair | `ExecutionIsOwned`, `ClosedIsQuiet`, `CloseCompletes`, `CancelCompletes` |
| `wakeup` | `TaskWakeup.cfg`, `MCTaskWakeup` | 2 inputs, a notice, a review, 2 faults of any kind (fail, cancel, crash, stall, unknown Agent), fair | `HeardOnce`, `WakesAreBounded`, `ClosedIsFinal`, `TriggerIsUsed` |
| `create` | `GatewayCreate.cfg`, `MCGatewayCreate` | 2 requests of one key: `local`; `unsafe` with a query and every fault; `safe` (replay contract) with every fault; `fair` (cancelled and killed) | `EveryLedgerAgrees`, `KeepsPromise` (refinement), `UnsafeIsNotRepeated`, `FairClaimEnds` |
| `channels` | `ChannelsSafe.cfg`, `MCChannels` | turns: `push` (2 messages and a `y`, handed over twice, 2 handlers), `slow` (a message and a `y`, 3 times each, 2 failures), `poll` (4 updates, 3 faults, a handler of its own); deliveries of 2 processes: `clean`, `broken` | `ActsOnce`, `DeliversInOrder`, `BesideNoSeenRun` |
| `channels_live` | `ChannelsLive.cfg`, `MCChannelsLive` | `told`: 1 process that stays up, a review; `loop`: 4 updates, 2 failed answers; fair | `DeliveredInOrder`, `SettledIsTold`, `WaiterEnds`, `UpdateEnds` |
| `endings` | `Endings.cfg`, `MCEndings` | `stream` without the poll; `listing` with reviews that keep coming; `tree`: 3 Gateways that spawn at each other; `codex`: 2 retries; fair | `StreamEnds`, `WalkEnds`, `SpawnEnds`, `CallEnds` |
| `readers` | `Readers.cfg`, `MCReaders` | `resume`: 1 client, 2 runs, 6 events, 2 broken connections; `legacy`: 2 clients of a Task without events; `walk`: 3 owners, 1 unrouted, 1 away at times, 4 reviews, pages of 1; `upgrade`: old cursors, 3 reviews of 2 times, pages of 2 | `StreamIsWhole`, `EndIsTrue`, `WalkIsWhole` |
| `reviews` | `Reviews.cfg`, `MCReviews` | `tree`, `siblings`, `far`: a root and two Tasks, 3 reviews, up to 2 failures; `policy`: 1 call, 2 reviews, a change of permissions; `replay`: 2 calls, 2 reviews | `ReviewsAgree`, `ApprovalIsKept` |
| `remote` | `Remote.cfg`, `MCRemote` | `budget`, `retry`, `replay`, `chain`, `restart`: trees over 2 or 3 Gateways; `calls`: a streamed model call; `rotates`, `login`: 2 processes on one login | `WithinLimits`, `AnswerIsWhole`, `LoginIsKept` |
| `startup` | `Startup.cfg`, `MCStartup` | `fields`, `groups`, `workspace`: settings; `proxies`, `shared`, `local`: old remote messages; `reviews`, `mail`: old reviews and inputs | `SettingsStay`, `OldMessagesAreBound`, `OldRowsAreNumbered` |
| `approval_changed` | `Changed.cfg`, `MCReviews` | 2 calls, permissions that change while a review waits | `NothingUnapprovedRunsEver` is violated (*Divergences*) |

The properties in words. The type invariant of a module is a conjunct of one of
its properties here; parts that a property conjoins are in parentheses.

- `SettlementHasIntent`: a settled run has a notification intent unless the
  parent took it over or an uncertain operation is about it.
- `QueuesAgree`: outbox and mailbox tell the same story about every run.
- `TakenRunIsQuiet`: a run that `wait_agent` or `check_agent` took over is never
  due again, whatever older claims, restores and later runs there are.
- `ClaimsAreFenced`: a live claim ends by its holder, a takeover, an uncertain
  operation or its lease, never by another dispatcher.
- `LocalIntentIsDispatched`: every intent of the local child is published or
  withdrawn in the end.
- `ExecutionIsOwned` (`OneRunPerTask`): no payload is entered that the record and
  the supervisor do not know, and no Task has two.
- `ClosedIsQuiet`, `CloseCompletes`, `CancelCompletes`: after a shutdown nothing
  executes, waits or is registered; a shutdown and `cancel_task` end.
- `HeardOnce`, `ClosedIsFinal`, `WakesAreBounded`, `TriggerIsUsed`: a message is
  part of one successful turn, what is delivered or retracted stays so, no
  message wakes a Task for ever, and none is forgotten.
- `EveryLedgerAgrees` (`EffectAtMostOnce`, `ActiveHasEffect`, `CreatedIsMade`,
  `ReservedMeansNoEffect` except under the replay contract, `SucceededIsActive` of
  a local create): what each ledger says about the create is so, after every
  crash, cancellation and late write.
- `KeepsPromise`: command, route, Task and upstream implement `IdempotentCreate`
  while nothing disturbs the create.
- `UnsafeIsNotRepeated`: an unsafe create is claimed again only while nothing of
  it exists or is on the wire. `FairClaimEnds`: a key does not answer "in
  progress" for ever.
- `DeliveredInOrder` (`InOrder`, `GraceIsComplete`, `ContinueAfterResult`):
  terminal steps come in order under every fault, none is missing once the run
  counts as told, and no turn continues before its result. `DeliversInOrder` is
  this of two processes, and while their leases hold `SentOnce`: a step reaches
  the chat once.
- `ActsOnce` (`EffectOnce`, `StartedHasEffect`, `OneLiveHolder`, and `YesOnce`
  while nothing goes wrong): an event has one live holder and one effect, however
  often it is handed over, and a `y` approves one review. `YesOnce` needs two
  reviews to say anything and has them in `push`.
- `BesideNoSeenRun` (`ActsBesideNoSeenRun`): a message goes to a running Task, or
  makes a Task beside one, only if that run began after its handler had read the
  chat, polled or pushed. Tasks wake at any time, so such runs do begin between the
  two (*Divergences*).
- `SettledIsTold`, `WaiterEnds`, `UpdateEnds` (`EffectIsWatched`): a settled run
  is told or given up with an error, who waits for it is answered, and the
  polling loop gets past every update.
- `StreamIsWhole` (`NoGap`, `ProxyAccepts`), `EndIsTrue`, `StreamEnds`: a client
  has the events of its run without a gap or a repetition, a proxy is never
  contradicted, and an end is one that the row justifies.
- `WalkIsWhole` (`ListedOnce`, `ListedAll`, `BelowFrontier`), `WalkEnds`: a walk
  shows what was pending from its start to its end, once, and ends although
  reviews come in.
- `ReviewsAgree` (`MirrorIsOldest`, `MemoryIsRow`, `WaitsForItsReview`, `DecidedOnce`): the root
  shows the oldest review of the tree, memory and rows agree after every failure,
  and a decision is used once.
- `ApprovalIsKept` (`NothingUnapprovedRuns`, `DenyAndRiskComeFirst`, `AskedOnce`,
  `AnswersAreApplied`): what runs is allowed or approved in the form it runs in. Of
  several calls this is said while the permissions stay, of one call always.
- `WithinLimits` (`WithinBudget`, `OneTree`, `NeverTooDeep`, `NeverReenters`,
  `ToldItsTask`, `OneFarTask`), `SpawnEnds`: the limits of a tree
  hold per database under concurrent spawns, restarts and other ways, a proxy has
  one far Task, and every spawn ends.
- `AnswerIsWhole` (`OneAnswer`, `TextOnce`, `NothingSkipped`, `FailureIsTold`),
  `CallEnds`: a retried model call shows one answer and ends.
- `LoginIsKept` (`FileIsUsable`, `OneSaver` where tokens rotate): the login survives
  concurrent refreshes and a device login.
- `SettingsStay` (`ReentryAccepted`, `EnvironmentAgrees`,
  `SameDocumentSameSettings`, `WorkspaceStays`): configuring again gives the same
  settings, from the document as from the environment the first call left, and the
  document accepted last is not refused. The exception `ReentryAccepted` names is a
  workspace in the Windows style (*Divergences*).
- `OldMessagesAreBound` (`NamesItsTask`, `HeardOnce`, `NothingPrivate`,
  `KeepsTheClear`, `StaysAsItIs`) and `OldRowsAreNumbered` (`NeverReused`,
  `EveryReviewListed`, `OldestFirst`, `RootShowsOldest`, `OldInputIsFenced`,
  `OrderIsKept`): an upgrade binds, numbers and fences each row once, for good, in
  the order the rows had, and to the right Task.

### Bounds

`settled`: `MaxRun = 1` gives a child the generations 0 and 1, which is what it
takes for a late claim, a late save or a suppression to meet a newer generation.
Two tokens let one claim be reclaimed under another; a token is reused once
nothing refers to it, as no process can tell. One child is enough because no
operation relates two children of a parent except that a batch holds several
rows, and the rows of two generations of one child already make such a batch. A
parent run that is forgotten leaves its lease to lapse, so the next claim of the
same run is that of another. `supervisor`: a second Task matters for the locks and the shutdown, a second run
for callbacks that come after the next admission; the two are not combined. The
bound stops no fair action, since none admits a run beyond the first.

`wakeup`: the second input falls between a claim and a release of the first, the
notice can be retracted under its reader, two faults let a failed run be followed
by a crash of the next. `create`: two requests are every pair that meets on one
key, the query joins the kind it can disturb, and `MaxEffects` 2 shows a repeated
effect. `channels`: two messages and a `y` are two handlers that read the same Task,
or none, at once, with a review between them; four updates are a conversation with its switch and the
message after it; two processes share one intent, and `MaxSends` 2 shows a
repeated step. The deliveries that need no crash retry once (`MaxAttempts` 1),
the broken ones not at all and repeat one step; one turn waits and one reconciler
has read the row at a time (`OneAtATime`), as each of them meets a watch and not
one another. `channels_live` has a grace check and a review.

`readers`: `MaxPending` 1 is a queue that overflows, six events are two runs with
an artifact and a mirrored review, pages of 1 and 2 over three owners with two ids
each have a row on the border of a page, and a fourth sequence lets one be
replaced during a walk; two times order rows otherwise than their sequences do.
`endings` takes smaller instances of the same machines (4 events, 3 sequences)
for liveness; its Gateways are the three it takes to wait in a circle with a third
looking on. `reviews`: three Tasks are a mirrored review, its owner and a
competitor; a third review makes "oldest" differ from "latest" after a decision;
two calls are an edited one and another approved in the same review.

`remote`: budgets of 2 and 3 are reached by the six Tasks from two processes and a
second Gateway; ten Tasks are what a walk over three Gateways and back takes;
`MaxVisited` is the code's 64; two parts of two pieces tell a repeated piece from
a repeated part; four access tokens are two refreshes in a row of one process and
one of the other. `startup`: one field stands for all that are read alike (they
differ in their name only, `OneOfEach`), two calls are a configuration and its
re-entry with an edit between them, a workspace has three, and one of its three
workspaces is written in the Windows style. Aliases are given to one field of each
way to read them, and the environment of `groups` sets every field but
`require_mention` and `bot_name`. The upgrades have two openings or more: phases recur without a
bound; three reviews let one be decided and its sequence be given again, and four messages
to the root and one child are some before, between and after two openings.

### Fairness

`SettledOutbox`: the home process polls every second
(`start_mailbox_recovery`), so it does claim infinitely often if it can again
and again, it works through what it has claimed, leases run out, and a
publication that is tried for ever succeeds at some time. Other dispatchers owe
nothing and may keep a claim for ever. `RunSupervisor`: the event loop runs what
is ready, an Agent ends once cancelled, a tail ends, asyncio locks are first
come, first served (the strong fairness of `EndOperation`). A payload or a
remote call need not end by itself. `TaskWakeup`: the tick of five seconds
starts a wakeup, leases run out, a process is started again, an Agent's run
ends. `TaskEventStream`: a client reads its stream and opens it again; no poll.
Where machines stand side by side, the fairness of one is conditioned on its
world: `WF(world = "stream" /\ Reopen)`. `DelegationTree`: the lock of a tree is first in, first out (strong fairness of
`Enter`), and every HTTP call ends in an answer or its timeout. `GatewayCreate`:
coroutines go on and worker threads do what they were given. `ReviewListing`:
the network lets a batch, and a reply that was not blocked, through at some
time (strong fairness); without it no walk could end. `ChannelTurn`: handlers go
on and the claims of dead ones lapse. `ChannelDelivery`: timers fire, and
queries and sends that are tried again and again succeed at some time (strong
fairness of `Answer`, `Accept`, `Acknowledge`), as the bounded faults of the run
allow. `CodexStream`: requests and reads have timeouts and every body ends.
Clients, users and faults owe nothing anywhere.

`CHECK_DEADLOCK FALSE` where the system may stop: a runtime that has closed, a
conversation without further events, a walk that has ended, a bound that is
used up.

## Divergences

Documented statements that do not hold of the code, met while modelling. The
last one under *Approval* has a run, `approval_changed`, and an entry under
`findings` with the quotation; the others are named here with the actions that
lead there and the document they disagree with, and no property of the passing
runs contradicts them.

*Settlements*
- `wait_agent` suppresses the run it finds, follows the Task through a review into
  a later run, and returns that run's result; it is announced as well
  (`BeginWait`, `PauseForReview`, `StartRun`, `SettleRun`, `LookAgain`;
  `task-mailbox-settlement.md:276`).
- A dispatcher whose lease has lapsed still publishes while nobody has reclaimed
  the row (`LapseOutbox`, `Publish`; `task-mailbox-settlement.md:263`).
- A create refused after a lost answer is not recorded as failed: its doubt was
  announced first, and `mark_failed` conflicts with it (`MarkUncertain`,
  `RejectCreate`; `task-delegation.md:381`).
- A refusal announces the preceding doubt as the settlement of the run
  (`RejectOperation`; `task-mailbox-settlement.md:318`).
- With payloads out of order (`Reordered`), `SyncRemote` moves a record back and
  forth and forgets a takeover (`task-delegation.md:247`).

*Runs*
- A run cancelled before its first step leaves a running record without a handle
  (`RequestCancel`, `RunFinished`; `task-execution.md:155`).
- The raised tail of a run interrupts the next one, admitted in between
  (`FailTail`, `RunFinished`; `task-delegation.md:324`).

*Creates*
- A query that read the route before its boundary was crossed fails it afterwards
  (`Examine`, `Begin`, `Settle`; `gateway-task-control-plane.md:87`).
- The 409 that a retry meets while its first request is served fails the route
  (`Conflict`; `gateway-http-protocol.md:101`).
- A retry without a connection resets the boundary its first request crossed
  (`NoConnection`, `Restore`; `gateway/task_service.py:63`).
- A cancelled activation leaves a bound route uncertain (`CancelAfter`;
  `gateway-task-control-plane.md:191`).

*Trees*
- The budget is counted per database, not per tree (`Full`;
  `task-delegation.md:175`).
- Refusals for depth, budget or loops are not taken for refusals
  (`Authoritative`; `task-delegation.md:381`).

*Channels* (`channels.md` and `channels/telegram/adapter.py`)
- An intent is not taken up by a process that starts within its dead
  predecessor's lease (`Recover`; `channels.md:163`).
- A lost answer of a create whose Task settles stops the polling loop
  (`TurnChoice`, `Refused`; `channels.md:106`).
- Two messages pushed at once both make a Task (`ReadTurn`, `Create`;
  `channels.md:75`).
- A message is sent to a running Task, and waits in its mailbox, if the Task has
  woken, or another handler has sent to it, since it was read (`Fetch`, `Wake`,
  `Send`, between `turn.py:463` and `:219`; `channels.md:70`).
- A `y` whose answer fails approves the next review (`ReviewChoice`;
  `adapter.py:119`).
- After a lost answer the retry finds its own Task and tells the user to try later
  (`TurnChoice`; `adapter.py:584`).
- The first message after `/agent` continues the old Task (`Adopt`;
  `channels/turn.py:341`).

*Settings* (`runtime-configuration-and-bootstrap.md`)
- A workspace of the document in the Windows style is accepted once and then
  refused, although nothing has changed (`ResolvePaths`; `:82`). Without its
  exception `ReentryAccepted` fails in `workspace`, after two calls.
- The environment is a source of what the document no longer says (`Selected`;
  `:81`).

*Approval* (`agent-tool-runtime.md`, `storage/review_audit.py`)
- A decision is filed in the audit under an id no review had: `after_model` makes a
  new one whenever it runs (`review_audit.py:97`).
- Answers are applied to what is asked about now, under other permissions than
  before (`approval_changed`; `agent-tool-runtime.md:297`).

Two more behaviours are a matter of design rather than of documentation: a
`wait_agent` call whose caller is cancelled has taken the run over, and nobody
is told of its settlement; a delivery whose review is decided elsewhere waits
until a user of the chat acts or a process restarts.

## Proofs

Eight modules hold theorems, each about every value of the constants (any number
of children, processes, Tasks, runs, messages, requests, queries, tokens and
every set of faults) and from the named assumptions of the module alone
(`ConstantsAssumption` and the like: sets are disjoint or finite, bounds are
numbers, "no owner" is no owner). Two theorems have a hypothesis of their own besides:
`~Reordered` (payloads of a settlement are applied in order) and `LeasesHold` (a
delivery neither outlasts its lease nor dies with it: the faults are lost queries
and failed sends). Both are needed; without them the statements are false, as they
are of the code (*Divergences*).

| Module | Theorem | States |
|---|---|---|
| `SettledOutboxProofs` | `Invariance`, `TypeCorrect`, `NoSettlementIsLost`, `QueuesNeverDisagree` | `[]IInv`, `[]TypeOK`, `[]SettlementHasIntent`, `[]QueuesAgree` |
| | `TakenStaysQuiet` | `[]TakenRunIsQuiet` if `~Reordered` |
| | `ClaimsStayFenced` | `ClaimsAreFenced` (an action property) |
| `TaskWakeupProofs` | `Invariance`, `MessagesAreHeardOnce`, `WakesAreFew` | `[]IInv`, `[]HeardOnce`, `[]WakesAreBounded` |
| | `ClosedRowsAreFinal` | `ClosedIsFinal` (an action property) |
| | `OldRowsStayNumbered` | `[]OldRowsAreNumbered` |
| `RunSupervisorProofs` | `Invariance`, `ExecutionStaysOwned`, `CloseStaysQuiet` | `[]IInv`, `[]ExecutionIsOwned`, `[]ClosedIsQuiet` |
| | `StreamsAreWhole`, `EndsAreTrue` | `[]StreamIsWhole`, `EndIsTrue` (an action property) |
| `GatewayCreateProofs` | `Invariance` | `[]Core` |
| | `UnsafeStaysSingle` | `UnsafeIsNotRepeated` (an action property) |
| | `LedgersAgree`, `PromiseIsKept` | `[]EveryLedgerAgrees`, the refinement `KeepsPromise` |
| `TaskReviewProofs` | `ReviewsAlwaysAgree`, `ApprovalsAreKept`, `WalksAreWhole` | `[]ReviewsAgree`, `[]ApprovalIsKept`, `[]WalkIsWhole` |
| `ChannelDeliveryProofs` | `Invariance`, `StepsComeInOrder` | `[]IInv`, `[]DeliveredInOrder` |
| | `StepsAreSentOnce` | `[]SentOnce` if `LeasesHold` |
| `ChannelTurnProofs` | `Invariance`, `EventsActOnce` | `[]IInv`, `[]ActsOnce` |
| | `ReadsKnown`, `MessagesSeeRuns` | `[]SInv`, `[][ActsBesideNoSeenRun]_vars` |
| `RemoteProofs` | `TreeIsWellPlaced`, `TreeKeepsItsLimits` | `[]TreeInv`, `[]WithinLimits` |
| | `LoginStaysUsable`, `CallGivesOneAnswer` | `[]LoginIsKept`, `[]AnswerIsWhole` |

*Settlements.* A save skips the intent when the record in memory remembers a
delivery, so `SettlementHasIntent` needs `DeliveryIsFinal`: what the record or the
row remembers as delivered is delivered or suppressed in the outbox. Clearing an
operation skips the insertion when the outbox row exists and relies on its
status, which needs `UncertainIsAcknowledged`: while an operation is undecided,
the only notification of the run is one that the parent has acknowledged.
`OnlyProxiesOperate` excludes the saves of a local run while an operation is open.
That a run taken over stays quiet needs that it is not newer than the record and
suppressed while it is current. A payload applied out of order can undo that,
hence the hypothesis; without it the statement is false (*Divergences*). That
claims are fenced needs `BatchesAreWhole`: a parent run ends by token, and the
rows of a token are claimed together, so a run that holds one row of a batch knows
every row of it that is still claimed.

*Wakeups.* `ReadIsHeld` is the reason a message is heard once: what a run has read
it holds under a live lease until its graph ends, unless the row was retracted,
and what is open has not been part of a turn. `ClaimsAreRead` says that the
acknowledgement of a turn covers nothing it did not read. `WakesRaiseTheMark`
counts: a wakeup the mailbox causes raises the watermark, which never passes the
number of rows ever numbered, and that number is a cardinality.

*Upgrades.* That no sequence is given twice is not inductive by itself:
`SequencesHold` says that the sequences ever given out go up with the ids of their
reviews, that none is above the high-water mark, and that a review without one
has a later id than all that had one, decided or not. So the numbers an opening
gives, above the mark and in the order of ids (`NumberedIs`), continue that order.
A number is never above the id of its review (`RankBound`, by the pigeonhole
principle), so the mark never passes the number of reviews. Every waiting review
has a row after an opening because no other row can have its id (`WaitersHold`,
`BackfilledIs`); what the root shows needs `RootHolds`: it shows a review of its own
only while it waits. `FencesHold` puts the watermark of a Task between what its
broken run was sent and everything else; before the first opening there is
no watermark and no number at all, after it each has one, so that a later
opening changes none (`FencedStays`).

*Runs.* `HandlesAreOwned`: a handle that exists is the one the supervisor owns,
belongs to the one admission being rolled back (`RollbackIsGated`: of the next run,
already cancelled, before its first step), or is done and older. `InTurn` is the
fact about the event loop that callbacks of a finished run come first.
`ClosingKnows`: a shutdown that has drained the calls has a snapshot of every run
still owned.

*Creates.* The invariant is built in three layers, each inductive on top of the
ones below. `Core` holds of every create under every fault: one effect, the
boundary before it, only the owner of the claim works, what an actor relies on
(a view, an aim, an answer) exists, and a late write belongs to someone who was
cancelled. `UnsafeInv` adds, for a remote create without the contract, that a
claim behind which there may be an effect is marked as started and unsafe, and
that the recorded error of an undecided create is never one of those that may be
sent again. `CalmInv` adds, for an undisturbed create, what each request knows of
the route: a request before its effect has a pending route to itself (`Proceeds`),
what it read stays decided (`Sees`), and a claim that is being unwound is still
owned or its create has succeeded (`Recovers`). Every layer has a lemma per action, and lemmas for
whoever stands still while another moves. For the refinement each action is shown
to be a step of `IdempotentCreate` or a stutter (`MuteMoves`, `TellKeeps`,
`Making`, `Refusing`, `Forgetting`): a Task is made by `StartLocal`, `Arrive` or
`ArriveStray`, none of which meets a refused key; a key is refused by `FailRoute`
or `Settle`, neither of which meets a Task.

*Reviews.* That the root shows its oldest review, that memory is the row and that a
run waits for the review it has is preserved by a transition only because of
`MintedOnce`: ids are minted once, so what a transition inserts has never been in
the table, and what was decided never comes back. A transition that commits
projects the oldest of the new table, one that fails is undone whole, in memory and
in the rows. `OldestExists` (a set of numbered reviews that is not empty has an
oldest one) comes from the order of the numbers.

*Deliveries.* `Sound` is about rows and attempts alike (`RowSound`): a terminal step
is sent only when the steps before it are marked, and whoever looks for late
reviews, or calls the chat told, has every step marked. It needs no fence: marks
are only ever added, so what was true when an attempt read its row stays true when it
writes, however late. That a step is sent once does need the fence (`Fenced`): who is
about to send holds the row, and nobody has sent what it is about to send; what was
sent is marked, or known to the holder. A lease that runs out breaks exactly this.

*Turns.* `Owns` says that a handler whose claim has not run out has it, so two live
handlers of one event are one. `Ledgers` ties what the Gateway has done to what is
written of it: a key that was used stands for exactly one effect, and a turn
receipt or an answer "received" comes after the effect. `Sound` is what a
handler relies on between two awaits: its event, the Task it is about to touch,
and whether what it is about to say is so already. `Orders` keeps the list of Tasks by
their last update free of repetitions, so that the latest Task exists
(`RemovedOrders`, `AppendedOrders`). What a message goes
beside needs `SInv`: whoever is about to send has seen the run of the Task it will
send to, and whoever is about to make a Task has seen the runs of all, but for those
that are unseen because they began since (`Aware`). Every step by which a run begins
(`Create`, `Send`, `Wake`) makes it unseen by all who are asking, so awareness
outlives it (`StaysAware`). In a polled chat `Follows` adds that the Task a handler
has read is still the one the chat is bound to: there is one handler. That a `y`
approves one review needs `Decided`: an event that has approved is done with, or
its handler is past deciding, as long as nothing has gone wrong (`Calm`).

*Streams.* `StreamInv` is about each client, its connection and the log: what the
connection has read of the run (`after`) is what the client has and, after it, what
waits to be sent (`pend`), so nothing falls between a broken connection and the
next one, which starts at the client's last event. Of the log it says that runs come in
their order and that an artifact repeats the row before it: the end a proxy
computed from the last full event it saw is therefore the end of the row. The queries
that lead to an end are made one by one; the end is decided from the last one, under
the lock, and every earlier one has only to be a part of the log of now.

*Trees.* `Placed` says of one Task what the place it was asked for from says of its
own: a child in the same database has its parent's root, way and limits and the
depth plus one; the guest of a proxy has the proxy's root and depth, one Gateway
more on its way and limits no wider. `RightWay` says that a way ends at the
Task's Gateway and passes none twice. `Ancestors` collects what is above a Task in
as many rounds as there are Tasks; that this is enough, so that a Task with its
ancestors is the least set closed under `from` (`FamilyIsLeast`), follows from the
sizes of the sets: each round adds a Task or has closed the set. What is said of all
ancestors then needs only a closed set that has it, and the depth is the distance
from the root because the depth plus the length of the way decreases along `from`. The budget holds since one transaction
counts and inserts, and compares with the limits of every Task it counts: a
restart with other limits changes none of those.

*Approvals.* A replay starts from nothing, so `AInv` speaks of replays and not of
steps: every replay that still counts, under the permissions of now or, for a single
call, under any, asks what the pending review shows and has approved only what a
human has. The recursion of `Replayed` is taken one round at a time: two runs of it
over the same answers agree, by the least round at which they would not.

*Pages.* `Remains` is what a page opened with the cursor would still scan. Nothing
that remains was seen, and what the walk owes remains or was seen (`Parts`). Of an
open page, what is left is the end of its order (`Shaped`), its records are the
rows below its frontier, or were when it was opened (`Covers`), and what is owed is
left, listed or was seen (`Divides`). A row that comes in has a sequence above
every frontier, so it is in the way of no walk; one that is replaced or decided is
owed no longer. A batch ends at the first owner that could not be reached, which
exists since a finite set under a strict total order has a first element
(`FirstExists`, by the sizes of its initial segments).

*Logins.* `AuthInv`: new tokens are accepted until they are saved, and where they
rotate nobody else holds them (`NewTokensHold`); the file holds accepted tokens or
somebody is about to save newer ones (`FileHolds`). What is written stands for the
new tokens whatever the copy was made from (`SavedIsChosen`). That one process at a
time saves needs `OneAccepted`: until somebody logs in again there is one token to
refresh with.

*Calls.* `CallInv`: what the consumer was given belongs to the request of now,
because a request that is sent again has set no effect. The text it has lies before
what the server sends next, and what the server has streamed is shown or is the
delta that waits for its blank line.

Properties that the proofs state are checked by the runs on small instances as
well.

Model-checked only are these: all liveness properties (`LocalIntentIsDispatched`,
`CloseCompletes`, `CancelCompletes`, `TriggerIsUsed`, `FairClaimEnds` and those of
`channels_live` and `endings`), since liveness under fairness and `ENABLED` are out
of the prover's reach; `SettingsStay` and `OldMessagesAreBound` of `startup`, the
first a case distinction over a table of fields, the second about folds over
stored messages, which would need induction over data. `DeliversInOrder` and
`BesideNoSeenRun` of `channels` are `StepsComeInOrder` with `StepsAreSentOnce`,
and `MessagesSeeRuns`, of the instances of that run.

## Plan

What would be next:

1. The extension of the refinement to remote creates under the replay contract,
   with an abstract create that may fail a key behind which there is a Task.
2. Message history and MCP connections, once their external libraries have a
   contract to model.
3. An abstract `SettlementNotice` (per run: silent, due, announced, taken) that
   `SettledOutbox` refines.

## Not modelled

Formatting, HTTP framing, platform clients, parsing of Agent, provider and
permission files, skills, message history, artifacts and attachments, MCP and
shell backends, the console: sequential code or pure I/O, or a thin client of an
external service. The compatibility paths of the outbox (a mailbox in another
database), the in-memory mailbox and the JSON Task store of tests. Schema
upgrades that only add columns or indexes. The content of messages, results and
artifacts. `PROJECT.json` says of each component what is left out and why.
