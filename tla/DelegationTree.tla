--------------------------- MODULE DelegationTree ---------------------------
(***************************************************************************)
(* How a tree of delegated Tasks grows over several Gateways: the context  *)
(* a Task hands to its children (root, depth, limits and the Gateways      *)
(* visited), what a Gateway makes of the context of a request from another *)
(* one, the lock and the transaction that count the Tasks of a tree, and   *)
(* the create at the far Gateway, which is made while the lock is held.    *)
(*                                                                         *)
(* A Gateway is a node with one database and one or more processes.  The   *)
(* runs of the Tasks, and the Gateway command in front of a create, are    *)
(* modelled elsewhere (RunSupervisor, GatewayCreate).                      *)
(***************************************************************************)
EXTENDS Naturals, Sequences, FiniteSets

CONSTANTS
    Procs,         \* the processes
    NodeOf,        \* [Procs -> Nodes]: the Gateway a process serves
    Ids,           \* the Task ids
    Home,          \* [Ids -> Nodes]: the Gateway whose database holds a Task
    Wanted,        \* what is asked for: [id, from, to]; see Ask and Arrive
    Idempotent,    \* the ids of proxies whose reference declares ruyi_gateway_v1
    Limits,        \* the limits [depth, tasks] a process may be started with
    Legacy,        \* root Tasks recorded without a context by an old release
    MaxVisited,    \* MAX_VISITED_NODES
    MaxRestarts,   \* a bound
    Here,          \* "to" of a local agent
    None

Nodes == {NodeOf[p] : p \in Procs}

(* Contexts, rows and calls.  The root of a context is the Gateway that    *)
(* began the tree and the root's id there; a row names a root of its own   *)
(* Gateway by the id alone.                                                *)
Context == [root : Nodes \X Ids, depth : Nat, maxDepth : Nat, maxTasks : Nat,
            visited : Seq(Nodes)]
Root == Ids \cup (Nodes \X Ids)
Row == [from : Ids \cup {None}, to : Nodes \cup {Here}, root : Root, depth : Nat,
        ctx : Context \cup {None}, up : Ids \cup {None},
        leg : {"local", "new", "open", "bound", "failed"}]
CallRow == [pc : {"wait", "new", "go", "sent", "told", "refused", "clash", "unsure"},
            want : Wanted, root : Root, ctx : Context]

ConstantsAssumption ==
    /\ NodeOf \in [Procs -> Nodes]
    /\ IsFiniteSet(Ids) /\ \A i \in Ids : Home[i] \in Nodes
    /\ Wanted \subseteq [id : Ids, from : Ids \cup {None}, to : Nodes \cup {Here}]
    /\ Legacy \subseteq Ids
    /\ Limits \subseteq [depth : Nat, tasks : Nat]
    /\ MaxVisited \in Nat \ {0} /\ MaxRestarts \in Nat
    /\ Here \notin Nodes
    /\ {"refused", "rejected"} \cap (Ids \cup {None}) = {}
    /\ None \notin Ids /\ None \notin Wanted
    /\ None \notin Context /\ None \notin Row /\ None \notin CallRow

VARIABLES
    limits,    \* [Procs -> Limits]: the settings a process runs with
    tasks,     \* [Ids -> a Task or None]: the rows of all databases
    asked,     \* [Ids -> Wanted or None]: the request an id was given to
    calls,     \* [Procs -> [Ids -> a call or None]]: spawn_task under way
    net,       \* proxies whose create request is on its way
    answers,   \* [Ids -> ...]: the far Gateway's response to a proxy's create
    restarts   \* restarts so far

vars == <<limits, tasks, asked, calls, net, answers, restarts>>

(* The context of a tree that starts at process p with the Task r.         *)
RootContext(p, r) ==
    [root |-> <<NodeOf[p], r>>, depth |-> 1,
     maxDepth |-> limits[p].depth, maxTasks |-> limits[p].tasks,
     visited |-> <<NodeOf[p]>>]

(* The context a Task's row stands for; a row without one starts afresh.   *)
ContextOf(p, t) ==
    IF tasks[t].ctx = None THEN RootContext(p, tasks[t].root) ELSE tasks[t].ctx

(* What a Gateway makes of the context in a request's metadata.            *)
InboundOwnDepth(p, c) ==
    [c EXCEPT !.maxDepth = limits[p].depth,
              !.maxTasks = IF @ < limits[p].tasks THEN @ ELSE limits[p].tasks,
              !.visited = Append(@, NodeOf[p])]
Inbound(p, c) ==
    [c EXCEPT !.maxDepth = IF @ < limits[p].depth THEN @ ELSE limits[p].depth,
              !.maxTasks = IF @ < limits[p].tasks THEN @ ELSE limits[p].tasks,
              !.visited = Append(@, NodeOf[p])]

Visits(c, n) == \E i \in DOMAIN c.visited : c.visited[i] = n

Acceptable(p, c) ==
    /\ ~ Visits(c, NodeOf[p])
    /\ c.depth <= Inbound(p, c).maxDepth
    /\ Len(Inbound(p, c).visited) <= MaxVisited

(* Where in the tree the Task of a request goes: with a parent, below it;  *)
(* with the context of another Gateway, where that one says; otherwise it  *)
(* is a root.                                                              *)
Below(p, w) ==
    [root |-> tasks[w.from].root,
     ctx |-> [ContextOf(p, w.from) EXCEPT !.depth = tasks[w.from].depth + 1]]
AtRoot(p, w) == [root |-> w.id, ctx |-> RootContext(p, w.id)]
From(p, m) ==
    [root |-> tasks[m].ctx.root, ctx |-> Inbound(p, tasks[m].ctx)]

Live(p, i) == calls[p][i] # None /\ calls[p][i].pc \in {"wait", "new", "go", "sent"}

(* The lock of a tree in a process.                                        *)
Locked(p, root) ==
    \E i \in Ids : /\ Live(p, i)
                   /\ calls[p][i].pc # "wait"
                   /\ calls[p][i].root = root

ToAnotherNode(w) == w.from # None /\ Home[w.from] # Home[w.id]

Init ==
    /\ limits \in [Procs -> Limits]
    /\ tasks = [i \in Ids |->
          IF i \in Legacy
          THEN [from |-> None, to |-> Here, root |-> i, depth |-> 1, ctx |-> None,
                up |-> None, leg |-> "local"]
          ELSE None]
    /\ asked = [i \in Ids |-> None]
    /\ calls = [p \in Procs |-> [i \in Ids |-> None]]
    /\ net = {}
    /\ answers = [i \in Ids |-> None]
    /\ restarts = 0

Call(w, place) ==
    [pc |-> "wait", want |-> w, root |-> place.root, ctx |-> place.ctx]

(* An Agent's tool call, once, or a client's create, which may be tried    *)
(* again under the same id, also at another process; the claim of its      *)
(* Gateway command keeps two tries of a remote create apart, and ends with *)
(* a rejection.                                                            *)
Ask(p, w) ==
    /\ ~ ToAnotherNode(w)
    /\ Home[w.id] = NodeOf[p]
    /\ w.id \notin Legacy
    /\ ~ Live(p, w.id)
    /\ w.to # Here => \A o \in Procs : ~ Live(o, w.id)
    /\ \/ asked[w.id] = None
       \/ /\ asked[w.id] = w /\ w.from = None
          /\ tasks[w.id] # None => tasks[w.id].leg # "failed"
    /\ w.from # None => tasks[w.from] # None /\ tasks[w.from].to = Here
    /\ asked' = [asked EXCEPT ![w.id] = w]
    /\ calls' = [calls EXCEPT ![p][w.id] =
          Call(w, IF w.from = None THEN AtRoot(p, w) ELSE Below(p, w))]
    /\ UNCHANGED <<limits, tasks, net, answers, restarts>>

(* The call ends.  A call for another Gateway leaves its answer with the   *)
(* command there, which gives it to every later request of the same key.   *)
End(p, i, how) ==
    /\ calls' = [calls EXCEPT ![p][i].pc = how]
    /\ answers' = IF ToAnotherNode(calls[p][i].want)
                  THEN [answers EXCEPT ![calls[p][i].want.from] =
                          IF how = "told" THEN i ELSE "refused"]
                  ELSE answers

SameBinding(c, t) ==
    /\ t.to = c.want.to
    /\ t.from = c.want.from
    /\ t.root = c.root
    /\ t.depth = c.ctx.depth
    /\ t.ctx = c.ctx

(* A Task with the id of the call is there already: the call is about      *)
(* another Task, or finds it made, or has a remote create to go on with.   *)
Found(p, i) ==
    LET c == calls[p][i] IN
    \/ /\ ~ SameBinding(c, tasks[i])
       /\ End(p, i, "clash")
    \/ /\ SameBinding(c, tasks[i])
       /\ tasks[i].leg = "local" \/ tasks[i].up # None
       /\ End(p, i, "told")
    \/ /\ SameBinding(c, tasks[i])
       /\ tasks[i].leg # "local" /\ tasks[i].up = None
       /\ calls' = [calls EXCEPT ![p][i].pc = "go"]
       /\ UNCHANGED answers

(* The call takes the lock of its tree and looks for its Task.             *)
TooDeep(c) == c.ctx.depth > c.ctx.maxDepth
Enter(p, i) ==
    LET c == calls[p][i] IN
    /\ Live(p, i) /\ c.pc = "wait"
    /\ ~ Locked(p, c.root)
    /\ \/ tasks[i] # None /\ Found(p, i)
       \/ tasks[i] = None /\ TooDeep(c) /\ End(p, i, "refused")
       \/ /\ tasks[i] = None /\ ~ TooDeep(c)
          /\ calls' = [calls EXCEPT ![p][i].pc = "new"]
          /\ UNCHANGED answers
    /\ UNCHANGED <<limits, tasks, asked, net, restarts>>

(* The Tasks of a tree in one database, and the room a further one has.    *)
Tree(n, root) == {t \in Ids : tasks[t] # None /\ Home[t] = n /\ tasks[t].root = root}
Full(n, c) ==
    \E limit \in {c.ctx.maxTasks}
                 \cup {tasks[t].ctx.maxTasks : t \in {s \in Tree(n, c.root) : tasks[s].ctx # None}} :
        Cardinality(Tree(n, c.root)) >= limit

(* One transaction: the id must be new, the tree must have room.           *)
Insert(p, i) ==
    LET c == calls[p][i] IN
    /\ Live(p, i) /\ c.pc = "new"
    /\ \/ tasks[i] # None /\ Found(p, i) /\ UNCHANGED tasks
       \/ /\ tasks[i] = None /\ Full(NodeOf[p], c)
          /\ End(p, i, "refused") /\ UNCHANGED tasks
       \/ /\ tasks[i] = None /\ ~ Full(NodeOf[p], c)
          /\ tasks' = [tasks EXCEPT ![i] =
                [from |-> c.want.from, to |-> c.want.to, root |-> c.root,
                 depth |-> c.ctx.depth, ctx |-> c.ctx, up |-> None,
                 leg |-> IF c.want.to = Here THEN "local" ELSE "new"]]
          /\ IF c.want.to = Here
             THEN End(p, i, "told")
             ELSE calls' = [calls EXCEPT ![p][i].pc = "go"] /\ UNCHANGED answers
    /\ UNCHANGED <<limits, asked, net, restarts>>

(* A create whose outcome is not known may be sent again only if the far   *)
(* Gateway is known to answer the same key with the same Task.             *)
MayReplay(i) == i \in Idempotent

Leg(i, l) == tasks' = [tasks EXCEPT ![i].leg = l]

(* The intent is recorded and the request goes out, with the lock held.    *)
Send(p, i) ==
    /\ Live(p, i) /\ calls[p][i].pc = "go"
    /\ IF tasks[i].leg = "open" /\ ~ MayReplay(i)
       THEN End(p, i, "unsure") /\ UNCHANGED <<tasks, net>>
       ELSE /\ Leg(i, "open")
            /\ net' = net \cup {i}
            /\ calls' = [calls EXCEPT ![p][i].pc = "sent"]
            /\ UNCHANGED answers
    /\ UNCHANGED <<limits, asked, restarts>>

(* The request never left: no credential, no connection.                   *)
NotDispatched(p, i) ==
    /\ Live(p, i) /\ calls[p][i].pc = "go"
    /\ tasks[i].leg = "open" => MayReplay(i)
    /\ Leg(i, "new")
    /\ End(p, i, "refused")
    /\ UNCHANGED <<limits, asked, net, restarts>>

(* A request reaches process q of the Gateway its proxy i points to.  A    *)
(* known key gets the answer it has, or its Task's id again.               *)
InProgress(i) == \E q \in Procs, u \in Ids : Live(q, u) /\ calls[q][u].want.from = i
                                             /\ ToAnotherNode(calls[q][u].want)
GivenTo(i) == {w \in Wanted : w.from = i /\ asked[w.id] = w /\ ToAnotherNode(w)}
Arrive(q, i) ==
    /\ i \in net
    /\ tasks[i].to = NodeOf[q]
    /\ ~ InProgress(i)
    /\ net' = net \ {i}
    /\ \/ /\ MayReplay(i) /\ answers[i] # None
          /\ UNCHANGED <<asked, calls, answers>>
       \/ /\ MayReplay(i) => answers[i] = None
          /\ ~ Acceptable(q, tasks[i].ctx)
          /\ answers' = [answers EXCEPT ![i] = "refused"]
          /\ UNCHANGED <<asked, calls>>
       \/ /\ MayReplay(i) => answers[i] = None
          /\ Acceptable(q, tasks[i].ctx)
          /\ \E w \in Wanted :
                /\ w.from = i /\ ToAnotherNode(w) /\ Home[w.id] = NodeOf[q]
                /\ IF MayReplay(i) /\ GivenTo(i) # {}
                   THEN w \in GivenTo(i)
                   ELSE asked[w.id] = None
                /\ asked' = [asked EXCEPT ![w.id] = w]
                /\ calls' = [calls EXCEPT ![q][w.id] = Call(w, From(q, i))]
          /\ UNCHANGED answers
    /\ UNCHANGED <<limits, tasks, restarts>>

(* The far Gateway does not know the agent, or refuses the caller.         *)
Reject(q, i) ==
    /\ i \in net
    /\ tasks[i].to = NodeOf[q]
    /\ answers[i] = None /\ ~ InProgress(i)
    /\ net' = net \ {i}
    /\ answers' = [answers EXCEPT ![i] = "rejected"]
    /\ UNCHANGED <<limits, tasks, asked, calls, restarts>>

Lose(i) ==
    /\ i \in net
    /\ net' = net \ {i}
    /\ UNCHANGED <<limits, tasks, asked, calls, answers, restarts>>

(* The codes a caller takes for a refusal without effect; a limit or a     *)
(* loop at the far Gateway is not one of them.                             *)
Authoritative == {"rejected"}

(* The response arrives; the lock is released.                             *)
Hear(p, i) ==
    /\ Live(p, i) /\ calls[p][i].pc = "sent"
    /\ i \notin net /\ answers[i] # None
    /\ \/ /\ answers[i] \in Ids
          /\ tasks' = [tasks EXCEPT ![i].up = answers[i], ![i].leg = "bound"]
          /\ End(p, i, "told")
       \/ /\ answers[i] \in Authoritative
          /\ Leg(i, "failed")
          /\ End(p, i, "refused")
       \/ /\ answers[i] \notin Ids \cup Authoritative
          /\ UNCHANGED tasks
          /\ End(p, i, "refused")
    /\ UNCHANGED <<limits, asked, net, restarts>>

(* The response is late or lost, or the caller goes away.                  *)
TimeoutIfLost(p, i) ==
    /\ Live(p, i) /\ calls[p][i].pc = "sent"
    /\ i \notin net /\ ~ InProgress(i)
    /\ End(p, i, "unsure")
    /\ UNCHANGED <<limits, tasks, asked, net, restarts>>
Timeout(p, i) ==
    /\ Live(p, i) /\ calls[p][i].pc = "sent"
    /\ End(p, i, "unsure")
    /\ UNCHANGED <<limits, tasks, asked, net, restarts>>

(* A process is stopped or dies, and comes back with other settings.       *)
Restart(p, l) ==
    /\ restarts < MaxRestarts
    /\ restarts' = restarts + 1
    /\ limits' = [limits EXCEPT ![p] = l]
    /\ calls' = [calls EXCEPT ![p] = [i \in Ids |-> None]]
    /\ UNCHANGED <<tasks, asked, net, answers>>

CallStep(p, i) ==
    \/ Enter(p, i) \/ Insert(p, i) \/ Send(p, i) \/ NotDispatched(p, i)
    \/ Arrive(p, i) \/ Reject(p, i) \/ Hear(p, i) \/ Timeout(p, i)

Next ==
    \/ \E p \in Procs :
         \/ \E w \in Wanted : Ask(p, w)
         \/ \E i \in Ids : CallStep(p, i)
         \/ \E l \in Limits : Restart(p, l)
    \/ \E i \in Ids : Lose(i)

Spec == Init /\ [][Next]_vars

(* What a call does by itself, until its answer or its timeout.            *)
CallGoesOn(p) ==
    \E i \in Ids : Insert(p, i) \/ Send(p, i) \/ NotDispatched(p, i) \/ Timeout(p, i)
-----------------------------------------------------------------------------
Contexts(t) == tasks[t] # None /\ tasks[t].ctx # None

(* The rows, calls and answers have their shapes.                          *)
TypeOK ==
    /\ limits \in [Procs -> Limits]
    /\ tasks \in [Ids -> Row \cup {None}]
    /\ \A i \in Ids : tasks[i] # None =>
         /\ tasks[i].leg = "local" <=> tasks[i].to = Here
         /\ tasks[i].leg = "bound" <=> tasks[i].up # None
    /\ asked \in [Ids -> Wanted \cup {None}]
    /\ calls \in [Procs -> [Ids -> CallRow \cup {None}]]
    /\ net \subseteq Ids
    /\ answers \in [Ids -> Ids \cup {None, "refused", "rejected"}]
    /\ restarts \in 0 .. MaxRestarts

(* A database never holds more Tasks of a tree than the smallest limit any *)
(* of them came with, whichever processes spawn at once, with whichever    *)
(* settings, and whichever way round the tree reached the Gateway.         *)
WithinBudget ==
    \A n \in Nodes, t \in Ids : Contexts(t) /\ Home[t] = n =>
        Cardinality(Tree(n, tasks[t].root)) <= tasks[t].ctx.maxTasks

(* The Task a Task was asked for by: its parent, or the proxy at the       *)
(* Gateway before.                                                         *)
Ancestors(t) ==
    LET n == Cardinality({s \in Ids : tasks[s] # None})
        Up[k \in 0 .. n] ==
          IF k = 0 THEN {t}
          ELSE LET near == Up[k - 1]
               IN  near \cup ({tasks[s].from : s \in near} \ {None})
    IN  Up[n] \ {t}

(* Work never comes back to a Gateway it has left: nobody on the way from  *)
(* the root to a Task is at another Gateway below one at the Task's own.   *)
NeverReenters ==
    \A t \in Ids : tasks[t] # None =>
        \A a \in Ancestors(t) : Home[a] # Home[t] =>
            \A b \in Ancestors(a) : Home[b] # Home[t]

(* A Task is as deep as its distance from the root says, over all          *)
(* Gateways, and within the limit of every Task above it: no Gateway on    *)
(* the way can widen what the ones before allow.                           *)
ParentsAbove(t) ==
    Cardinality({s \in Ancestors(t) \cup {t} :
                   tasks[s].from # None /\ Home[tasks[s].from] = Home[s]})
NeverTooDeep ==
    \A t \in Ids : tasks[t] # None =>
        /\ tasks[t].depth = 1 + ParentsAbove(t)
        /\ \A a \in Ancestors(t) \cup {t} :
             Contexts(a) => tasks[t].depth <= tasks[a].ctx.maxDepth

(* Tasks of one tree that meet in a database count together, whichever way *)
(* they came, and their limits never exceed those of a Task above.         *)
OneTree ==
    \A t \in Ids : tasks[t] # None =>
        \A a \in Ancestors(t) : Contexts(a) =>
            /\ tasks[t].ctx.root = tasks[a].ctx.root
            /\ tasks[t].ctx.maxTasks <= tasks[a].ctx.maxTasks
            /\ \A s \in Ids :
                 (Contexts(s) /\ Home[s] = Home[t] /\ tasks[s].ctx.root = tasks[a].ctx.root)
                   => tasks[s].root = tasks[t].root

(* A call that returns a Task returns the one it asked for: same agent,    *)
(* same place in the tree, same limits, also if another process made it.   *)
ToldItsTask ==
    \A p \in Procs, i \in Ids :
        (calls[p][i] # None /\ calls[p][i].pc = "told") =>
            tasks[i] # None /\ SameBinding(calls[p][i], tasks[i])

(* However often a create is tried, one proxy has one Task at the far      *)
(* Gateway.                                                                *)
OneFarTask ==
    \A t, u \in Ids :
        (/\ tasks[t] # None /\ tasks[u] # None
         /\ tasks[t].from = tasks[u].from /\ tasks[t].from # None
         /\ Home[t] = Home[u] /\ Home[t] # Home[tasks[t].from])
          => t = u

(* All that the limits promise, and that a create, however often it is     *)
(* tried, makes the one Task its caller is told of.                        *)
WithinLimits ==
    /\ TypeOK
    /\ WithinBudget /\ OneTree /\ NeverReenters /\ NeverTooDeep
    /\ ToldItsTask /\ OneFarTask

(* A call to spawn ends, though it holds the lock of its tree while it     *)
(* waits for a Gateway that may itself wait for a lock.                    *)
SpawnEnds ==
    \A i \in Ids : (\E p \in Procs : Live(p, i)) ~> (\A p \in Procs : ~ Live(p, i))
=============================================================================
