----------------------------- MODULE StoreUpgrade -----------------------------
(***************************************************************************)
(* Bringing the reviews and the mailbox of an old release to the numbers   *)
(* the present one orders them by.                                         *)
(*                                                                         *)
(* Every opening of the database, first by the Task store, then by the     *)
(* mailbox store, each in one transaction, makes rows of the reviews that  *)
(* are kept in the Task rows only, numbers the reviews and the messages    *)
(* that have no number, and fences the messages of Tasks whose last run    *)
(* did not succeed.  The old release may come back between two openings.   *)
(***************************************************************************)
EXTENDS Integers, FiniteSets, FiniteSetsExt

CONSTANTS
    Root, Children,     \* one delegation tree
    MaxAsked,           \* bound on the reviews asked for
    MaxMessages,        \* bound on the messages
    Nothing

Tasks == {Root} \cup Children
Review == [id : Nat, task : Tasks, seq : Nat]    \* a row of the pending reviews
Shown == [id : Nat, task : Tasks]                \* what a Task row keeps of one

UpgradeAssumption ==
    /\ Root \notin Children /\ IsFiniteSet(Children)
    /\ MaxAsked \in Nat /\ MaxMessages \in Nat
    /\ Nothing \notin Review \cup Shown

VARIABLES
    stage,      \* closed, tasks (the Task store is open), open
    waiting,    \* the Tasks that wait for a human
    json,       \* the review each Task row shows
    row,        \* the row of each Task in the table of pending reviews
    high,       \* the last ingest sequence given out
    asked,      \* the number of reviews asked for
    issued,     \* the pairs of a review and a sequence it was given
    state,      \* how the last run of each Task ended
    mark,       \* the wakeup watermark of each Task
    inbox,      \* the messages: recipient, sequence, and who wrote them
    lastWakeup, \* the last wakeup sequence given out
    numbered    \* has the mailbox been opened by the present release

upgradeVars ==
    <<stage, waiting, json, row, high, asked, issued, state, mark, inbox, lastWakeup, numbered>>

Reviews == <<waiting, json, row, high, asked, issued>>
Messages == <<state, mark, inbox, lastWakeup, numbered>>
RowSet(r) == {r[t] : t \in Tasks} \ {Nothing}

(***************************************************************************)
(* Reviews.  Ids are numbered in the order they are asked for.             *)
(***************************************************************************)
Oldest(S) == CHOOSE r \in S : \A q \in S : r.id <= q.id

\* The root shows the oldest review of the tree; a view of a child's review
\* that is gone is taken away, unless the root waits itself.
Mirrored(j, r) ==
    LET source == json[Root] # Nothing /\ json[Root].task # Root IN
    CASE RowSet(r) # {} ->
           LET first == Oldest(RowSet(r)) IN [j EXCEPT ![Root] = [id |-> first.id, task |-> first.task]]
      [] RowSet(r) = {} /\ source /\ Root \notin waiting -> [j EXCEPT ![Root] = Nothing]
      [] OTHER -> j

\* The present release asks: the row takes the next sequence.
Ask(t) ==
    LET new == [id |-> asked + 1, task |-> t, seq |-> high + 1]
        r == [row EXCEPT ![t] = new]
        j == [json EXCEPT ![t] = [id |-> asked + 1, task |-> t]]
    IN  /\ stage = "open" /\ t \notin waiting /\ asked < MaxAsked
        /\ waiting' = waiting \cup {t}
        /\ row' = r /\ json' = Mirrored(j, r)
        /\ high' = high + 1 /\ asked' = asked + 1
        /\ issued' = issued \cup {<<asked + 1, high + 1>>}
        /\ UNCHANGED <<stage, Messages>>

\* A decision: the row goes, and what the root shows follows.
Decide(t) ==
    LET r == [row EXCEPT ![t] = Nothing]
        j == [json EXCEPT ![t] = Nothing]
    IN  /\ stage = "open" /\ t \in waiting
        /\ waiting' = waiting \ {t}
        /\ row' = r
        /\ json' = IF RowSet(r) = {} THEN [j EXCEPT ![Root] = Nothing] ELSE Mirrored(j, r)
        /\ UNCHANGED <<stage, high, asked, issued, Messages>>

\* An old release asks: with a table it knew no sequences for, or with none.
OldAsk(t, table) ==
    /\ stage = "closed" /\ t \notin waiting /\ asked < MaxAsked
    /\ waiting' = waiting \cup {t}
    /\ asked' = asked + 1
    /\ json' = [json EXCEPT ![t] = [id |-> asked + 1, task |-> t]]
    /\ row' = IF table THEN [row EXCEPT ![t] = [id |-> asked + 1, task |-> t, seq |-> 0]] ELSE row
    /\ UNCHANGED <<stage, high, issued, Messages>>

\* The old release shows a child's review at the root, and forgets its own.
OldView(t) ==
    /\ stage = "closed" /\ t \in waiting \ {Root} /\ Root \notin waiting
    /\ json' = [json EXCEPT ![Root] = json[t]]
    /\ UNCHANGED <<stage, waiting, row, high, asked, issued, Messages>>

OldDecide(t) ==
    /\ stage = "closed" /\ t \in waiting
    /\ waiting' = waiting \ {t}
    /\ row' = [row EXCEPT ![t] = Nothing]
    /\ json' = [json EXCEPT ![t] = Nothing]
    /\ UNCHANGED <<stage, high, asked, issued, Messages>>

\* INSERT OR IGNORE: a Task has one row and a review id one row.
Backfilled ==
    [t \in Tasks |->
        IF /\ t \in waiting /\ json[t] # Nothing /\ row[t] = Nothing
           /\ \A r \in RowSet(row) : r.id # json[t].id
        THEN [id |-> json[t].id, task |-> t, seq |-> 0] ELSE row[t]]

\* How many of some rows come up to one in the order of ids.
Rank(q, S) == Cardinality({p \in S : p.id <= q.id})

\* The rows without a sequence are numbered, oldest first, above every sequence
\* that is or was in use.
TopOfRows(r) == Max({0} \cup {q.seq : q \in RowSet(r)})
Top(r) == Max({high} \cup {q.seq : q \in RowSet(r)})
Unnumbered(r) == {q \in RowSet(r) : q.seq = 0}
NumberedRows(r) ==
    [t \in Tasks |->
        IF r[t] = Nothing \/ r[t].seq > 0 THEN r[t]
        ELSE [r[t] EXCEPT !.seq = Top(r) + Rank(r[t], Unnumbered(r))]]

(***************************************************************************)
(* Messages.                                                               *)
(***************************************************************************)
Unsuccessful == {"failed", "running"}
To(t, S) == {m \in S : m.to = t}

\* Once both stores have their columns: an unfinished or failed run has had its
\* messages.
Fenced(msgs) ==
    [t \in Tasks |->
        CASE mark[t] # -1 -> mark[t]
          [] mark[t] = -1 /\ state[t] \in Unsuccessful -> Max({0} \cup {m.seq : m \in To(t, msgs)})
          [] OTHER -> 0]

NumberedMail ==
    LET old == {m \in inbox : m.seq = 0} IN
    (inbox \ old) \cup {[m EXCEPT !.seq = lastWakeup + Rank(m, old)] : m \in old}

OldMessage(t) ==
    /\ stage = "closed" /\ Cardinality(inbox) < MaxMessages
    /\ inbox' = inbox \cup {[id |-> Cardinality(inbox) + 1, to |-> t, old |-> ~numbered,
                           seq |-> IF numbered THEN lastWakeup + 1 ELSE 0]}
    /\ lastWakeup' = IF numbered THEN lastWakeup + 1 ELSE lastWakeup
    /\ UNCHANGED <<stage, Reviews, state, mark, numbered>>

\* The runs of the old release before the first upgrade.
OldRun(t, s) ==
    /\ stage = "closed" /\ ~numbered
    /\ state' = [state EXCEPT ![t] = s]
    /\ UNCHANGED <<stage, Reviews, mark, inbox, lastWakeup, numbered>>

NewMessage(t) ==
    /\ stage = "open" /\ Cardinality(inbox) < MaxMessages
    /\ inbox' = inbox \cup {[id |-> Cardinality(inbox) + 1, to |-> t, old |-> FALSE, seq |-> lastWakeup + 1]}
    /\ lastWakeup' = lastWakeup + 1
    /\ UNCHANGED <<stage, Reviews, state, mark, numbered>>

(***************************************************************************)
(* The two openings, and the end of the process.                           *)
(***************************************************************************)
OpenTasks ==
    LET r == NumberedRows(Backfilled) IN
    /\ stage = "closed" /\ stage' = "tasks"
    /\ row' = r
    /\ json' = Mirrored(json, Backfilled)
    /\ high' = Top(r)
    /\ issued' = issued \cup {<<q.id, q.seq>> : q \in RowSet(r)}
    /\ mark' = IF numbered THEN Fenced(inbox) ELSE mark
    /\ UNCHANGED <<waiting, asked, state, inbox, lastWakeup, numbered>>

OpenMailbox ==
    /\ stage = "tasks" /\ stage' = "open"
    /\ inbox' = NumberedMail
    /\ lastWakeup' = Max({lastWakeup} \cup {m.seq : m \in NumberedMail})
    /\ mark' = Fenced(NumberedMail)
    /\ numbered' = TRUE
    /\ UNCHANGED <<Reviews, state>>

Stop ==
    /\ stage # "closed" /\ stage' = "closed"
    /\ UNCHANGED <<Reviews, Messages>>

UpgradeInit ==
    /\ stage = "closed"
    /\ waiting = {}
    /\ json = [t \in Tasks |-> Nothing]
    /\ row = [t \in Tasks |-> Nothing]
    /\ high = 0 /\ asked = 0 /\ issued = {}
    /\ state = [t \in Tasks |-> "completed"]
    /\ mark = [t \in Tasks |-> -1]
    /\ inbox = {} /\ lastWakeup = 0 /\ numbered = FALSE

UpgradeNext ==
    \/ OpenTasks \/ OpenMailbox \/ Stop
    \/ \E t \in Tasks : Ask(t) \/ Decide(t) \/ OldMessage(t) \/ NewMessage(t)
    \/ \E t \in Tasks : OldView(t) \/ OldDecide(t)
    \/ \E t \in Tasks, table \in BOOLEAN : OldAsk(t, table)
    \/ \E t \in Tasks, s \in {"completed", "failed", "running"} : OldRun(t, s)

UpgradeSpec == UpgradeInit /\ [][UpgradeNext]_upgradeVars

(***************************************************************************)
(* Properties.                                                             *)
(***************************************************************************)
UpgradeTypeOK ==
    /\ stage \in {"closed", "tasks", "open"}
    /\ waiting \subseteq Tasks
    /\ row \in [Tasks -> Review \cup {Nothing}] /\ json \in [Tasks -> Shown \cup {Nothing}]
    /\ \A t \in Tasks : row[t] # Nothing => row[t].task = t /\ row[t].seq <= high
    /\ high \in 0..asked /\ asked \in 0..MaxAsked
    /\ mark \in [Tasks -> -1..lastWakeup] /\ lastWakeup \in 0..MaxMessages
    /\ stage = "open" => \A t \in Tasks : mark[t] >= 0

\* No sequence is ever given to two reviews, and no review has two: a cursor
\* that remembers one finds the same review or none, over decisions, crashes
\* and a return of the old release.
NeverReused == \A p, q \in issued : (p[1] = q[1]) = (p[2] = q[2])

\* A review that waits in an opened database has a row with a sequence.
EveryReviewListed ==
    stage # "closed" => \A t \in waiting : row[t] # Nothing /\ row[t].seq > 0

\* The old release's order stays the order of the reviews it left behind.
OldestFirst ==
    stage # "closed" => \A p, q \in RowSet(row) : p.id < q.id => p.seq < q.seq

\* The root of an opened database shows the oldest review of its tree, and
\* none when there is none.
RootShowsOldest ==
    stage # "closed" =>
        IF RowSet(row) = {} THEN json[Root] = Nothing ELSE json[Root].id = Oldest(RowSet(row)).id

\* What a failed or broken run of the old release was sent does not wake its
\* Task by itself after the upgrade, and everything sent later does.
OldInputIsFenced ==
    stage = "open" => \A m \in inbox :
        /\ state[m.to] \in Unsuccessful /\ m.old => m.seq <= mark[m.to]
        /\ ~m.old \/ state[m.to] = "completed" => m.seq > mark[m.to]

\* Messages are read in the order of their sequences, which is the order they
\* were written in, before the upgrade, after it, and by the old release again.
OrderIsKept == numbered => \A m, n \in inbox : m.id < n.id => m.seq < n.seq

\* What an upgrade promises: the reviews and the messages get numbers in their
\* order that are never given again, and fence what a broken run was sent.
OldRowsAreNumbered ==
    /\ UpgradeTypeOK
    /\ NeverReused /\ EveryReviewListed /\ OldestFirst /\ RootShowsOldest
    /\ OldInputIsFenced /\ OrderIsKept
=============================================================================
