--------------------------- MODULE TaskEventStream ---------------------------
(***************************************************************************)
(* The event streams of one Task (runtime/task_event_ledger.py,            *)
(* storage/task_event_repository.py, channels/http/event_routes.py) and    *)
(* the Gateway that proxies them (gateway/routing.py).  Every change of    *)
(* the Task row commits with an event of the row's run.  A stream follows  *)
(* one run: a snapshot or a cursor, then the durable events in order, then *)
(* an end whose reason is read from the row.                               *)
(*                                                                         *)
(* Writers may run in other threads: each query of a stream is a step of   *)
(* its own, and only what holds the ledger's lock is indivisible.          *)
(***************************************************************************)
EXTENDS Naturals, FiniteSets, Sequences

CONSTANTS
  Clients,     \* clients that follow the Task
  Batch,       \* DEFAULT_EVENT_BATCH_SIZE
  MaxPending,  \* max_pending_deltas
  TailPoll,    \* whether a waiting stream also wakes by itself
  MaxRuns,     \* runs of the Task (bound)
  MaxEvents,   \* durable events (bound)
  MaxDeltas,   \* deltas published (bound)
  MaxBreaks    \* connections that break, and restarts (bound)

StreamAssumption ==
  /\ {Batch, MaxPending, MaxRuns} \subseteq Nat \ {0}
  /\ {MaxEvents, MaxDeltas, MaxBreaks} \subseteq Nat
  /\ TailPoll \in BOOLEAN

VARIABLES
  task,    \* the Task row: run_count, state, whether a review is mirrored on it
  events,  \* agent_task_events: the row each event was committed with
  sub,     \* the subscription of each client's connection
  proxy,   \* what a proxying Gateway has seen of that connection
  got,     \* history: the events each client has of the run it follows
  told,    \* history: how each client's last connection ended
  deltas,  \* deltas published so far
  breaks   \* connections broken so far

streamVars == <<task, events, sub, proxy, got, told, deltas, breaks>>

----------------------------------------------------------------------------
None == "none"
Settled == {"completed", "interrupted"}

(* end_reason_for_record and end_reason_from_data.                         *)
EndReason(row) == CASE row.review \/ row.st = "waiting" -> "review_required"
                    [] ~row.review /\ row.st \in Settled -> row.st
                    [] OTHER -> None

Event(kind, row) == [kind |-> kind, run |-> row.run, row |-> row]

(* The events of a run after a position, and the first and last of some.   *)
Of(run, after) == {i \in 1..Len(events) : i > after /\ events[i].run = run}
First(S) == CHOOSE i \in S : \A j \in S : i <= j
Latest(S) == CHOOSE i \in S : \A j \in S : j <= i

Closed == [pc |-> "closed", run |-> 0, after |-> 0, snap |-> 0, pend |-> {},
           items |-> 0, end |-> None, cand |-> None, hist |-> FALSE, wake |-> FALSE]
Fresh == [first |-> TRUE, resumed |-> FALSE, full |-> FALSE, reason |-> None, ok |-> TRUE]

(* A new Task, or one that was stored before there were events.            *)
StreamInit ==
  /\ \/ /\ task = [run |-> 0, st |-> "pending", review |-> FALSE]
        /\ events = <<Event("state", task)>>
     \/ /\ task = [run |-> 1, st |-> "running", review |-> FALSE]
        /\ events = <<>>
  /\ sub = [c \in Clients |-> Closed]
  /\ proxy = [c \in Clients |-> Fresh]
  /\ got = [c \in Clients |-> [run |-> 0, from |-> 0, ids |-> <<>>]]
  /\ told = [c \in Clients |-> None]
  /\ deltas = 0
  /\ breaks = 0

Subscribed(c) == sub[c].pc # "closed" /\ ~sub[c].hist

----------------------------------------------------------------------------
(* Writers: row and event in one transaction, then the wakeups.            *)
CommitSameRun(kind, row) ==
  /\ Len(events) < MaxEvents
  /\ task' = row
  /\ events' = Append(events, Event(kind, row))
  /\ sub' = [c \in Clients |-> IF Subscribed(c) /\ row.run = sub[c].run
                               THEN [sub[c] EXCEPT !.wake = TRUE] ELSE sub[c]]
  /\ UNCHANGED <<proxy, got, told, deltas, breaks>>
Commit(kind, row) ==
  /\ Len(events) < MaxEvents
  /\ task' = row
  /\ events' = Append(events, Event(kind, row))
  /\ sub' = [c \in Clients |-> IF Subscribed(c) /\ row.run >= sub[c].run
                               THEN [sub[c] EXCEPT !.wake = TRUE] ELSE sub[c]]
  /\ UNCHANGED <<proxy, got, told, deltas, breaks>>

BeginRun ==
  /\ task.st # "running" /\ task.run < MaxRuns
  /\ Commit("state", [task EXCEPT !.run = @ + 1, !.st = "running"])

EndRun ==
  /\ task.st = "running"
  /\ \E st \in Settled \union {"waiting"} : Commit("state", [task EXCEPT !.st = st])

PublishArtifact == task.st = "running" /\ Commit("artifact", task)

(* A review of a Task further down comes to be shown on this one, or goes. *)
MirrorReview == task.run > 0 /\ Commit("state", [task EXCEPT !.review = ~@])

(* A delta is only for the run's subscribers, and not for a slow one.      *)
PublishDelta ==
  /\ task.st = "running" /\ deltas < MaxDeltas
  /\ deltas' = deltas + 1
  /\ sub' = [c \in Clients |->
               IF Subscribed(c) /\ sub[c].run = task.run /\ sub[c].items < MaxPending
               THEN [sub[c] EXCEPT !.items = @ + 1, !.wake = TRUE] ELSE sub[c]]
  /\ UNCHANGED <<task, events, proxy, got, told, breaks>>

----------------------------------------------------------------------------
(* Opening.  A first connection must ask for the Task's current run; the   *)
(* snapshot stands at the run's latest event, made up if there is none.    *)
OpenFresh(c) ==
  LET mine == Of(task.run, 0)
      made == mine = {}
      anchor == IF made THEN Len(events) + 1 ELSE Latest(mine)
  IN
  /\ sub[c].pc = "closed" /\ (got[c].ids = <<>> \/ got[c].run < task.run)
  /\ made => Len(events) < MaxEvents
  /\ events' = IF made THEN Append(events, Event("state", task)) ELSE events
  /\ sub' = [x \in Clients |->
               IF x = c THEN [Closed EXCEPT !.pc = "next", !.run = task.run, !.after = anchor,
                                            !.snap = anchor]
               ELSE IF made /\ Subscribed(x) THEN [sub[x] EXCEPT !.wake = TRUE] ELSE sub[x]]
  /\ proxy' = [proxy EXCEPT ![c] = Fresh]
  /\ got' = [got EXCEPT ![c] = [run |-> task.run, from |-> anchor, ids |-> <<>>]]
  /\ told' = [told EXCEPT ![c] = None]
  /\ UNCHANGED <<task, deltas, breaks>>

(* A connection that breaks is resumed after the last event the client has. *)
LastOf(c) == got[c].ids[Len(got[c].ids)]
ResumeBefore(c) == LastOf(c) - 1
ResumeAt(c) == LastOf(c)

Reopen(c) ==
  /\ sub[c].pc = "closed" /\ got[c].ids # <<>>
  /\ told[c] \in {"broken", "review_required"}
  /\ sub' = [sub EXCEPT ![c] = [Closed EXCEPT !.pc = "next", !.run = got[c].run,
                                              !.after = ResumeAt(c),
                                              !.hist = task.run > got[c].run]]
  /\ proxy' = [proxy EXCEPT ![c] = [Fresh EXCEPT !.resumed = TRUE]]
  /\ told' = [told EXCEPT ![c] = None]
  /\ UNCHANGED <<task, events, got, deltas, breaks>>

----------------------------------------------------------------------------
(* What the proxy makes of one event: it raises on a stream that           *)
(* contradicts itself.                                                     *)
Projected(p, kind, reason) ==
  [p EXCEPT
     !.first = FALSE,
     !.full = @ \/ kind \in {"snapshot", "state"},
     !.reason = IF kind \in {"snapshot", "state"} THEN reason ELSE @,
     !.ok = /\ @
            /\ p.first /\ ~p.resumed => kind = "snapshot"
            /\ kind = "snapshot" => p.first /\ ~p.resumed
            /\ kind = "end" /\ p.full /\ reason # "superseded" => reason = p.reason]

Sent(c, kind, reason) == proxy' = [proxy EXCEPT ![c] = Projected(@, kind, reason)]

(* TaskEventSubscription.__anext__, from the top: what is queued.  An      *)
(* event with the Task's whole state says whether the run is over.         *)
Observe(s, reason, full) == IF full /\ ~s.hist THEN [s EXCEPT !.end = reason] ELSE s

DeliverSnapshot(c) ==
  LET s == sub[c] IN
  /\ s.pc = "next" /\ s.snap > 0
  /\ sub' = [sub EXCEPT ![c] = [Observe(s, EndReason(events[s.snap].row), TRUE)
                                  EXCEPT !.snap = 0]]
  /\ got' = [got EXCEPT ![c].ids = <<s.snap>>]
  /\ Sent(c, "snapshot", EndReason(events[s.snap].row))
  /\ UNCHANGED <<task, events, told, deltas, breaks>>

DeliverEvent(c) ==
  LET s == sub[c]
      e == events[First(s.pend)]
  IN
  /\ s.pc = "next" /\ s.snap = 0 /\ s.pend # {}
  /\ sub' = [sub EXCEPT ![c] = [Observe(s, EndReason(e.row), e.kind = "state")
                                  EXCEPT !.pend = @ \ {First(@)}]]
  /\ got' = [got EXCEPT ![c].ids = Append(@, First(s.pend))]
  /\ Sent(c, e.kind, EndReason(e.row))
  /\ UNCHANGED <<task, events, told, deltas, breaks>>

Drained(c) == sub[c].pc = "next" /\ sub[c].snap = 0 /\ sub[c].pend = {}

Following(S) == {i \in S : Cardinality({j \in S : j <= i}) <= Batch}
More(c) == Following(Of(sub[c].run, sub[c].after))
Queued(s, more) == [s EXCEPT !.pend = more, !.after = Latest(more), !.pc = "next"]

(* The end, under the ledger's lock: first whatever is still unread.       *)
FinalBlind(c) ==
  LET s == sub[c] IN
  /\ Drained(c) /\ s.end # None
  /\ \/ /\ More(c) # {}
        /\ sub' = [sub EXCEPT ![c] = Queued(s, More(c))]
        /\ UNCHANGED <<proxy, told>>
     \/ /\ More(c) = {} /\ s.end # None
        /\ sub' = [sub EXCEPT ![c] = Closed]
        /\ told' = [told EXCEPT ![c] = s.end]
        /\ Sent(c, "end", s.end)
  /\ UNCHANGED <<task, events, got, deltas, breaks>>
Final(c) ==
  LET s == sub[c]
      reason == IF task.run > s.run THEN "superseded" ELSE EndReason(task)
  IN
  /\ Drained(c) /\ s.end # None
  /\ \/ /\ More(c) # {}
        /\ sub' = [sub EXCEPT ![c] = Queued(s, More(c))]
        /\ UNCHANGED <<proxy, told>>
     \/ /\ More(c) = {} /\ reason = None
        /\ sub' = [sub EXCEPT ![c].end = None]
        /\ UNCHANGED <<proxy, told>>
     \/ /\ More(c) = {} /\ reason # None
        /\ sub' = [sub EXCEPT ![c] = Closed]
        /\ told' = [told EXCEPT ![c] = reason]
        /\ Sent(c, "end", reason)
  /\ UNCHANGED <<task, events, got, deltas, breaks>>

(* A delta, or nothing, and then the wakeup is cleared before the reads.   *)
TakeItem(c) ==
  LET s == sub[c] IN
  /\ Drained(c) /\ s.end = None
  /\ sub' = [sub EXCEPT ![c] =
       IF s.items = 0
       THEN [s EXCEPT !.pc = "events", !.wake = IF s.hist THEN @ ELSE FALSE]
       ELSE [s EXCEPT !.items = @ - 1, !.wake = @ /\ s.items > 1]]
  /\ IF s.items = 0 THEN UNCHANGED proxy ELSE Sent(c, "delta", None)
  /\ UNCHANGED <<task, events, got, told, deltas, breaks>>

ReadEvents(c) ==
  /\ sub[c].pc = "events"
  /\ sub' = [sub EXCEPT ![c] = IF More(c) # {} THEN Queued(@, More(c))
                               ELSE [@ EXCEPT !.pc = "row"]]
  /\ UNCHANGED <<task, events, proxy, got, told, deltas, breaks>>

ReadRow(c) ==
  LET s == sub[c]
      reason == IF task.run > s.run \/ s.hist THEN "superseded" ELSE EndReason(task)
  IN
  /\ s.pc = "row"
  /\ sub' = [sub EXCEPT ![c] = IF reason = None THEN [s EXCEPT !.pc = "wait"]
                               ELSE [s EXCEPT !.pc = "again", !.cand = reason]]
  /\ UNCHANGED <<task, events, proxy, got, told, deltas, breaks>>

(* The row says over: are there events that committed with it?             *)
ReadAgain(c) ==
  LET s == sub[c] IN
  /\ s.pc = "again"
  /\ sub' = [sub EXCEPT ![c] = IF More(c) # {}
                               THEN [Queued(s, More(c)) EXCEPT !.cand = None]
                               ELSE [s EXCEPT !.pc = "next", !.end = s.cand, !.cand = None]]
  /\ UNCHANGED <<task, events, proxy, got, told, deltas, breaks>>

Wake(c) ==
  /\ sub[c].pc = "wait" /\ (sub[c].wake \/ TailPoll)
  /\ sub' = [sub EXCEPT ![c].pc = "next"]
  /\ UNCHANGED <<task, events, proxy, got, told, deltas, breaks>>

----------------------------------------------------------------------------
(* The connection breaks at any point; the run does not notice.            *)
Break(c) ==
  /\ sub[c].pc # "closed" /\ breaks < MaxBreaks
  /\ breaks' = breaks + 1
  /\ sub' = [sub EXCEPT ![c] = Closed]
  /\ told' = [told EXCEPT ![c] = "broken"]
  /\ UNCHANGED <<task, events, proxy, got, deltas>>

(* The process goes down and comes back: every connection breaks, and the  *)
(* run that was alive is interrupted.                                      *)
Restart ==
  /\ breaks < MaxBreaks /\ Len(events) < MaxEvents
  /\ breaks' = breaks + 1
  /\ sub' = [c \in Clients |-> Closed]
  /\ told' = [c \in Clients |-> IF sub[c].pc = "closed" THEN told[c] ELSE "broken"]
  /\ IF task.st = "running"
     THEN LET row == [task EXCEPT !.st = "interrupted"] IN
          task' = row /\ events' = Append(events, Event("state", row))
     ELSE UNCHANGED <<task, events>>
  /\ UNCHANGED <<proxy, got, deltas>>

Stream(c) ==
  \/ DeliverSnapshot(c) \/ DeliverEvent(c) \/ Final(c) \/ TakeItem(c)
  \/ ReadEvents(c) \/ ReadRow(c) \/ ReadAgain(c) \/ Wake(c)

StreamNext ==
  \/ BeginRun \/ EndRun \/ PublishArtifact \/ MirrorReview \/ PublishDelta \/ Restart
  \/ \E c \in Clients : OpenFresh(c) \/ Reopen(c) \/ Stream(c) \/ Break(c)

StreamSpec == StreamInit /\ [][StreamNext]_streamVars

----------------------------------------------------------------------------
StreamTypeOK ==
  /\ task \in [run : 0..MaxRuns, st : {"pending", "running", "waiting"} \union Settled,
               review : BOOLEAN]
  /\ \A i \in 1..Len(events) : events[i].run = events[i].row.run
  /\ \A c \in Clients :
       /\ sub[c].items \in 0..MaxPending
       /\ sub[c].pc \in {"closed", "next", "events", "row", "again", "wait"}
       /\ sub[c].hist => sub[c].items = 0 /\ task.run > sub[c].run

(* What a client has of its run is what was committed, from its snapshot   *)
(* on: in order, nothing twice, nothing left out, over any number of       *)
(* broken connections (the cursor of open_stream and _queue_stored_events). *)
Received(c) == {got[c].ids[i] : i \in 1..Len(got[c].ids)}
NoGap ==
  \A c \in Clients :
    /\ \A i, j \in 1..Len(got[c].ids) : i < j => got[c].ids[i] < got[c].ids[j]
    /\ got[c].ids # <<>> =>
         Received(c) = {i \in Of(got[c].run, 0) : got[c].from <= i /\ i <= LastOf(c)}

(* A Gateway that proxies the stream never finds it contradicting itself:  *)
(* one snapshot, only at the start of a fresh stream, and an end that      *)
(* agrees with the last state sent (project_remote against __anext__).     *)
ProxyAccepts == \A c \in Clients : proxy[c].ok

(* What the code promises of what a client is sent.                        *)
StreamIsWhole == StreamTypeOK /\ NoGap /\ ProxyAccepts

(* A stream ends with nothing of its run unsent, and for a reason that is  *)
(* true of the Task at that moment, even if the row changed between the    *)
(* queries that led to it (the locked end of __anext__).                   *)
EndsTruly ==
  \A c \in Clients :
    told'[c] # told[c] /\ told'[c] \notin {None, "broken"} =>
      /\ \A i \in Of(got[c].run, 0) : i <= LastOf(c)
      /\ told'[c] = IF task.run > got[c].run THEN "superseded" ELSE EndReason(task)

EndIsTrue == [][EndsTruly]_streamVars

(* A client that follows a run and has its snapshot hears of the run's     *)
(* end, over broken connections too, or goes on to a later run.  It needs  *)
(* no poll: no wakeup is lost between a commit and the wait (_take_item    *)
(* clears the flag before the reads).                                      *)
Over(run) == task.run > run \/ task.st \in Settled

StreamEnds ==
  \A c \in Clients, run \in 0..MaxRuns :
    sub[c].pc # "closed" /\ got[c].ids # <<>> /\ got[c].run = run /\ Over(run)
      ~> told[c] \notin {None, "broken"} \/ got[c].run > run
=============================================================================
