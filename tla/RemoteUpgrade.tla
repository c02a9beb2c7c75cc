----------------------------- MODULE RemoteUpgrade -----------------------------
(***************************************************************************)
(* Bringing the notifications of remote Tasks to their public identity.    *)
(*                                                                         *)
(* An old release wrote settled messages under the id a remote Task has    *)
(* upstream, with the upstream's error text, with or without an intent in  *)
(* the outbox.  Every opening of the database, first by the Task store and *)
(* then by the mailbox store, rebinds what it can to the proxy Task and    *)
(* isolates what it cannot: such a message is retracted and its intents    *)
(* are suppressed.  Between two openings the notifier publishes intents,   *)
(* parents read messages, and a caller may take a result over.             *)
(***************************************************************************)
EXTENDS Naturals, Sequences, FiniteSets, SequencesExt, FiniteSetsExt

CONSTANTS
    Remote, Local,      \* the Tasks, named by their ids
    OldTasks,           \* the Task rows an old release may have left
    Runs,               \* the settled runs, pairs of a Task and a run count
    Current,            \* the runs that are the last of their Task
    Failed,             \* the runs that failed
    Messages,           \* the ids of the messages of the old release
    OldKey,             \* a key that names an upstream id
    Nothing

ConstantsAssumption ==
    /\ Remote \cap Local = {} /\ Current \subseteq Runs /\ Failed \subseteq Runs
    /\ \A k \in Runs : k[1] \in Remote \cup Local
    /\ Messages \cap Runs = {}

Tasks == Remote \cup Local
Ids == Messages \cup Runs        \* an intent written later brings its own id

VARIABLES
    task,       \* agent and upstream id of each Task, and its error text
    mail,       \* the mailbox rows
    outbox,     \* the settled intents
    phase,      \* closed, tasks (the Task store is open), open
    opened,     \* has the present release opened both stores before
    heard,      \* the runs a parent has been told of
    twice       \* has a parent been told of a run again

vars == <<task, mail, outbox, phase, opened, heard, twice>>

Undelivered == {"pending", "claimed"}

(***************************************************************************)
(* What a message and an intent say of their run.                          *)
(***************************************************************************)
Written(k, child, key, status) ==
    [about |-> k, child |-> child, agent |-> task[k[1]].agent, key |-> key,
     content |-> IF k \in Failed THEN "error" ELSE "result", status |-> status]

Names(t) == {t} \cup (IF task[t].upstream = Nothing THEN {} ELSE {task[t].upstream})

(***************************************************************************)
(* Publishing, reading and taking over, in the present release.            *)
(***************************************************************************)
Says(m, k) ==
    /\ m.child = k[1] /\ m.agent = task[k[1]].agent /\ m.about[2] = k[2]
    /\ m.content = outbox[k].content /\ m.status \in Undelivered \cup {"delivered"}

Keyed(k) == {i \in Ids : mail[i] # Nothing /\ mail[i].key = k}
Unkeyed(k) == {i \in Ids : /\ mail[i] # Nothing /\ mail[i].key = Nothing
                           /\ mail[i].child = k[1] /\ mail[i].about[2] = k[2]
                           /\ mail[i].status \in Undelivered \cup {"delivered"}}

\* The message row that stands for the intent: the keyed one, the one of an old
\* release without a key, or a new one under the message id of the intent.
Resolved(k) ==
    LET id == outbox[k].msg IN
    CASE Keyed(k) # {} -> mail
      [] Keyed(k) = {} /\ Unkeyed(k) # {} ->
           [mail EXCEPT ![CHOOSE i \in Unkeyed(k) : TRUE].key = k]
      [] OTHER -> [mail EXCEPT ![id] = [Written(k, k[1], k, "pending")
                                           EXCEPT !.content = outbox[k].content]]

Resolvable(k) ==
    CASE Keyed(k) # {} -> \A i \in Keyed(k) : Says(mail[i], k)
      [] Keyed(k) = {} /\ Unkeyed(k) # {} ->
           Cardinality(Unkeyed(k)) = 1 /\ \A i \in Unkeyed(k) : Says(mail[i], k)
      [] OTHER -> mail[outbox[k].msg] = Nothing

\* Claiming and publishing; an intent that cannot be resolved is released.
Publish(k) ==
    /\ phase = "open" /\ outbox[k] # Nothing /\ outbox[k].status = "pending"
    /\ Resolvable(k)
    /\ mail' = Resolved(k)
    /\ outbox' = [outbox EXCEPT ![k].status = "delivered"]
    /\ UNCHANGED <<task, phase, opened, heard, twice>>

\* The notifier claims an intent and does not come to publish it.
ClaimIntent(k) ==
    /\ phase = "open" /\ outbox[k] # Nothing /\ outbox[k].status = "pending"
    /\ outbox' = [outbox EXCEPT ![k].status = "claimed"]
    /\ UNCHANGED <<task, mail, phase, opened, heard, twice>>

SuppressedRun(m) ==
    \E k \in Runs : /\ k[1] = m.child /\ k[2] = m.about[2]
                    /\ outbox[k] # Nothing /\ outbox[k].status = "suppressed"

Claim(i) ==
    /\ phase = "open" /\ mail[i] # Nothing /\ mail[i].status = "pending"
    /\ ~SuppressedRun(mail[i])
    /\ mail' = [mail EXCEPT ![i].status = "claimed"]
    /\ UNCHANGED <<task, outbox, phase, opened, heard, twice>>

\* The run that claimed the message has read it and ends.
Acknowledge(i) ==
    /\ phase = "open" /\ mail[i] # Nothing /\ mail[i].status = "claimed"
    /\ mail' = [mail EXCEPT ![i].status = "delivered"]
    /\ heard' = heard \cup {mail[i].about}
    /\ twice' = (twice \/ mail[i].about \in heard)
    /\ UNCHANGED <<task, outbox, phase, opened>>

\* A caller takes the result of the current run instead of the message.
TakeOver(k) ==
    /\ phase = "open" /\ k \in Current
    /\ outbox' = IF outbox[k] = Nothing THEN outbox
                 ELSE [outbox EXCEPT ![k].status = "suppressed"]
    /\ mail' = [i \in Ids |->
                 IF /\ mail[i] # Nothing /\ mail[i].child = k[1]
                    /\ mail[i].about[2] = k[2] /\ mail[i].status \in Undelivered
                 THEN [mail[i] EXCEPT !.status = "retracted"] ELSE mail[i]]
    /\ UNCHANGED <<task, phase, opened, heard, twice>>

(***************************************************************************)
(* The migration.  It runs in the transaction that opens a store.          *)
(***************************************************************************)
\* The text of the error the Task row held before it was made public counts.
PublicContent(k, content) ==
    IF \/ k \in Failed
       \/ task[k[1]].error # Nothing /\ content = task[k[1]].error
       \/ k \in Current /\ \E f \in Failed \cap Current : f[1] = k[1]
    THEN "public" ELSE content

Tidied == [t \in Tasks |->
    IF t \in Remote /\ task[t].error # Nothing
    THEN [task[t] EXCEPT !.error = "public"] ELSE task[t]]

OutboxMadePublic == [k \in Runs |->
    IF k[1] \in Remote /\ outbox[k] # Nothing /\ outbox[k].status # "delivered"
    THEN [outbox[k] EXCEPT !.content = PublicContent(k, @),
                           !.status = IF @ = "claimed" THEN "pending" ELSE @]
    ELSE outbox[k]]

Considered(i) == mail[i] # Nothing /\ mail[i].status \in Undelivered \cup {"retracted"}
Candidates(i) == {t \in Remote : mail[i].child \in Names(t)}
Linked(i) == {k \in Runs : /\ outbox[k] # Nothing
                           /\ \/ outbox[k].msg = i
                              \/ mail[i].key # Nothing /\ mail[i].key = k}
OfLocal(i) == Cardinality(Linked(i)) = 1 /\ \A k \in Linked(i) : k[1] \in Local

\* The Tasks the message can be about; a linked intent must agree.
Matching(i) ==
    {t \in Candidates(i) : /\ mail[i].agent = task[t].agent
                           /\ \A k \in Linked(i) : k = <<t, mail[i].about[2]>>}

Bindable(i) ==
    /\ mail[i].status # "retracted"
    /\ Cardinality(Linked(i)) <= 1 /\ Cardinality(Matching(i)) = 1

\* The run a bindable message is bound to; its key is the key of that run.
BoundRun(i) == <<CHOOSE t \in Matching(i) : TRUE, mail[i].about[2]>>

Touched(i) == Considered(i) /\ ~OfLocal(i) /\ (Candidates(i) # {} \/ Linked(i) # {})

Isolated(m) ==
    [m EXCEPT !.key = Nothing, !.child = Nothing, !.agent = Nothing,
              !.content = "public", !.status = "retracted"]

Bound(m, k) ==
    [m EXCEPT !.key = k, !.child = k[1], !.agent = task[k[1]].agent,
              !.content = PublicContent(k, @),
              !.status = IF @ = "claimed" THEN "pending" ELSE @]

\* The bindable messages in the order they were read; one is isolated when
\* another is bound to the same run or still holds its key.
StepWithoutRivals(rows, i) ==
    LET k == BoundRun(i)
        rivals == {j \in Ids \ {i} : \/ rows[j] # Nothing /\ rows[j].key = k
                                     \/ Touched(j) /\ Bindable(j) /\ BoundRun(j) = k}
    IN  [rows EXCEPT ![i] = IF TRUE THEN Bound(@, k) ELSE Isolated(@)]
Step(rows, i) ==
    LET k == BoundRun(i)
        rivals == {j \in Ids \ {i} : \/ rows[j] # Nothing /\ rows[j].key = k
                                     \/ Touched(j) /\ Bindable(j) /\ BoundRun(j) = k}
    IN  [rows EXCEPT ![i] = IF rivals = {} THEN Bound(@, k) ELSE Isolated(@)]

Rebound(order) ==
    LET isolated == [i \in Ids |-> IF Touched(i) /\ ~Bindable(i)
                                   THEN Isolated(mail[i]) ELSE mail[i]]
    IN  FoldLeft(Step, isolated, SelectSeq(order, LAMBDA i : Touched(i) /\ Bindable(i)))

\* The intents of the isolated messages.
Fenced(rows) ==
    LET made == OutboxMadePublic
        lost == UNION {Linked(i) : i \in {j \in Ids : Touched(j) /\ rows[j].status = "retracted"}}
    IN  [k \in Runs |-> IF k \in lost /\ made[k].status # "delivered"
                        THEN [made[k] EXCEPT !.status = "suppressed"] ELSE made[k]]

Sanitize ==
    \E order \in SetToSeqs({i \in Ids : mail[i] # Nothing}) :
        LET rows == Rebound(order) IN
        /\ task' = Tidied
        /\ mail' = rows
        /\ outbox' = Fenced(rows)

OpenTasks ==
    /\ phase = "closed" /\ phase' = "tasks"
    /\ Sanitize
    /\ UNCHANGED <<opened, heard, twice>>

OpenMailbox ==
    /\ phase = "tasks" /\ phase' = "open" /\ opened' = TRUE
    /\ Sanitize
    /\ UNCHANGED <<heard, twice>>

\* The process ends, at any moment: an open transaction is rolled back.
Stop ==
    /\ phase # "closed" /\ phase' = "closed"
    /\ UNCHANGED <<task, mail, outbox, opened, heard, twice>>

(***************************************************************************)
(* What an old release may have left.                                      *)
(***************************************************************************)
OldMessages == {Nothing} \cup UNION {
    {Written(k, child, key, status) :
        child \in Names(k[1]),
        key \in {Nothing, k} \cup (IF k[1] \in Remote THEN {OldKey} ELSE {}),
        status \in {"pending", "claimed", "delivered", "retracted"}} : k \in Runs}

OldIntents(k) == {Nothing} \cup
    [msg : {k} \cup {i \in Messages : mail[i] # Nothing /\ mail[i].about = k},
     content : {IF k \in Failed THEN "error" ELSE "result"},
     status : {"pending", "claimed", "delivered"}]

Init ==
    /\ task \in OldTasks
    /\ mail \in {[i \in Ids |-> IF i \in Messages THEN f[i] ELSE Nothing] :
                  f \in [Messages -> OldMessages]}
    /\ \A i, j \in Messages : i # j /\ mail[i] # Nothing /\ mail[j] # Nothing =>
          /\ mail[i].key = Nothing \/ mail[i].key # mail[j].key
          /\ mail[i].about # mail[j].about
             \/ (/\ {mail[i].status, mail[j].status} \subseteq Undelivered
                 /\ mail[i].key = Nothing /\ mail[i].about[1] \in Remote)
    /\ outbox \in [Runs -> UNION {OldIntents(k) : k \in Runs}]
    /\ \A k \in Runs : outbox[k] \in OldIntents(k)
    /\ \A i \in Messages : LET k == mail[i].about IN
          mail[i] # Nothing /\ outbox[k] # Nothing =>
             /\ mail[i].key # Nothing => outbox[k].msg = i
             /\ mail[i].status = "delivered" => outbox[k].status = "delivered"
    /\ phase = "closed"
    /\ opened = FALSE
    /\ heard = {mail[i].about : i \in {j \in Ids : mail[j] # Nothing /\ mail[j].status = "delivered"}}
    /\ twice = FALSE

Next ==
    \/ OpenTasks \/ OpenMailbox \/ Stop
    \/ \E k \in Runs : Publish(k) \/ ClaimIntent(k) \/ TakeOver(k)
    \/ \E i \in Ids : Claim(i) \/ Acknowledge(i)

Spec == Init /\ [][Next]_vars

(***************************************************************************)
(* Properties.                                                             *)
(***************************************************************************)
Live(i) == mail[i] # Nothing /\ mail[i].status \in Undelivered

TypeOK ==
    /\ \A i \in Ids : mail[i] # Nothing =>
          /\ mail[i].status \in {"pending", "claimed", "delivered", "retracted"}
          /\ mail[i].about \in Runs /\ mail[i].key \in Runs \cup {OldKey, Nothing}
    /\ \A k \in Runs : outbox[k] # Nothing =>
          /\ outbox[k].status \in {"pending", "claimed", "delivered", "suppressed"}
          /\ outbox[k].msg \in Messages \cup {k}
    /\ heard \subseteq Runs

\* Once both stores are open a message that can still be read names the Task it
\* is about, by its own id: it is never bound to another Task that has, or
\* once had, the same id upstream.
NamesItsTask == phase = "open" => \A i \in Ids : Live(i) => mail[i].child = mail[i].about[1]

\* No parent is told of a run a second time because the old message, bound to
\* the run, and the intent of the run were both delivered.
HeardOnce == ~twice

\* The upstream's error text is gone from every row that can still be read.
NothingPrivate ==
    phase # "closed" =>
        /\ \A i \in Ids : Live(i) /\ mail[i].about[1] \in Remote => mail[i].content # "error"
        /\ \A k \in Runs : k[1] \in Remote /\ outbox[k] # Nothing =>
              outbox[k].content # "error" \/ outbox[k].status \notin Undelivered

\* A message that only one Task can have caused is not isolated by an opening,
\* unless its key and its intents contradict it.
Alone(i) ==
    LET t == mail[i].about[1] IN
    /\ \A o \in Tasks \ {t} : Names(o) \cap Names(t) = {}
    /\ Linked(i) \subseteq {mail[i].about}
    /\ Keyed(mail[i].about) \subseteq {i}
KeepsTheClear ==
    phase' # phase => \A i \in Ids : Live(i) /\ Alone(i) => mail'[i].status \in Undelivered

\* To open the database again changes nothing but claims: what the present
\* release wrote, or a former opening bound, is neither isolated nor rewritten.
StaysAsItIs ==
    opened /\ phase' # phase =>
        \A i \in Ids : mail[i] # Nothing /\ mail[i].status # "retracted" =>
            mail'[i] \in {mail[i], [mail[i] EXCEPT !.status = "pending"]}
=============================================================================
