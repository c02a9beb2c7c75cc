---------------------------- MODULE RemoteProofs ----------------------------
(***************************************************************************)
(* Proofs about what a Task has to do with the world outside its process.  *)
(* DelegationTree, for every number of Gateways, processes and Tasks,      *)
(* whatever is asked for, and whatever limits a process starts with: the   *)
(* shape of the rows and calls, what the place of one Task says of the     *)
(* place it was asked for from (Placed), the lemmas about chains of such   *)
(* places (Ancestors), and from these that a tree keeps its limits.        *)
(* CodexAuth, for every number of processes: a shared login stays usable.  *)
(* CodexStream, for every answer: a call gives one answer, all of it.      *)
(***************************************************************************)
EXTENDS DelegationTree, CodexStream, CodexAuth, FiniteSetTheorems, WellFoundedInduction, TLAPS

\* Where a Task below the Task f, in the same database, belongs, by the rows of t.
ChildPlace(t, i, f, root, c) ==
  /\ root = t[f].root /\ c.depth = t[f].depth + 1
  /\ IF t[f].ctx = None
     THEN c.root = <<Home[i], t[f].root>> /\ c.visited = <<Home[i]>>
     ELSE /\ c.root = t[f].ctx.root /\ c.visited = t[f].ctx.visited
          /\ c.maxDepth = t[f].ctx.maxDepth /\ c.maxTasks = t[f].ctx.maxTasks

\* Where the Task that a proxy f has at another Gateway belongs.
GuestPlace(t, i, f, root, c) ==
  /\ t[f].ctx # None
  /\ root = t[f].ctx.root /\ c.root = root /\ c.depth = t[f].ctx.depth
  /\ ~Visits(t[f].ctx, Home[i]) /\ c.visited = Append(t[f].ctx.visited, Home[i])
  /\ c.maxDepth <= t[f].ctx.maxDepth /\ c.maxTasks <= t[f].ctx.maxTasks

RootPlace(i, root, c) ==
  root = i /\ c.root = <<Home[i], i>> /\ c.depth = 1 /\ c.visited = <<Home[i]>>

\* The Task i, asked for by f, belongs where the row of f and its Gateway say.
Placed(t, i, f, root, c) ==
  IF f = None THEN RootPlace(i, root, c)
  ELSE /\ t[f] # None
       /\ IF Home[f] = Home[i] THEN ChildPlace(t, i, f, root, c) ELSE GuestPlace(t, i, f, root, c)

\* The way to a Task ends at its Gateway and passes none twice; a Task is known by the
\* root's id at the Gateway that began the tree, by the root's full name elsewhere.
RightWay(i, root, c) ==
  /\ Len(c.visited) > 0 /\ c.visited[Len(c.visited)] = Home[i]
  /\ \A k, l \in 1 .. Len(c.visited) : c.visited[k] = c.visited[l] => k = l
  /\ c.root[1] = c.visited[1]
  /\ root = IF Home[i] = c.root[1] THEN c.root[2] ELSE c.root

OldRow(i) ==
  [from |-> None, to |-> Here, root |-> i, depth |-> 1, ctx |-> None, up |-> None, leg |-> "local"]

\* What is so of the row of a Task.
RowFits(i) ==
  IF i \in Legacy THEN tasks[i] = OldRow(i)
  ELSE tasks[i] # None =>
    /\ tasks[i].ctx # None /\ tasks[i].depth = tasks[i].ctx.depth
    /\ tasks[i].depth <= tasks[i].ctx.maxDepth
    /\ Placed(tasks, i, tasks[i].from, tasks[i].root, tasks[i].ctx)
    /\ RightWay(i, tasks[i].root, tasks[i].ctx)
    /\ asked[i] # None /\ asked[i].from = tasks[i].from /\ asked[i].to = tasks[i].to

\* What is so of a call: it is about the request its id was given to, and it goes on
\* only with the row it asked for.
CallFits(p, i) ==
  LET c == calls[p][i] IN
  c # None =>
    /\ asked[i] = c.want /\ Home[i] = NodeOf[p]
    /\ Placed(tasks, i, c.want.from, c.root, c.ctx)
    /\ c.pc = "new" => ~TooDeep(c)
    /\ c.pc \in {"go", "sent", "told"} => tasks[i] # None /\ SameBinding(c, tasks[i])
    /\ c.pc \in {"go", "sent"} => c.want.to # Here /\ tasks[i].up = None
    /\ c.pc = "sent" => tasks[i].leg = "open"
    /\ Live(p, i) /\ c.want.to # Here => \A q \in Procs : Live(q, i) => q = p

\* A Task whose remote create was rejected is not asked for again.
Dead(i) ==
  /\ \A p \in Procs : ~Live(p, i)
  /\ ToAnotherNode(asked[i]) => answers[asked[i].from] # None

\* A proxy gives rise to one request at the far Gateway; one whose reference promises
\* nothing is sent once.
AskedOnce(i) ==
  /\ \A v, w \in GivenTo(i) : v = w
  /\ tasks[i] = None => i \notin net /\ GivenTo(i) = {}
  /\ ~MayReplay(i) => /\ tasks[i] # None /\ tasks[i].leg = "new" => i \notin net /\ GivenTo(i) = {}
                      /\ i \in net => GivenTo(i) = {}

-----------------------------------------------------------------------------
(* Where a request belongs.                                                *)

\* What a tool call or a client's create makes of its request is its place.
LEMMA AskedPlace ==
  ASSUME ConstantsAssumption, TypeOK, \A i \in Ids : RowFits(i),
         NEW p \in Procs, NEW w \in Wanted, Home[w.id] = NodeOf[p], ~ToAnotherNode(w),
         w.from # None => tasks[w.from] # None,
         NEW place, place = IF w.from = None THEN AtRoot(p, w) ELSE Below(p, w)
  PROVE  /\ place.root \in Root /\ place.ctx \in Context
         /\ Placed(tasks, w.id, w.from, place.root, place.ctx)
<1>1. w.id \in Ids /\ w.from \in Ids \cup {None} /\ limits[p] \in [depth : Nat, tasks : Nat]
  BY DEF ConstantsAssumption, TypeOK
<1>2. NodeOf[p] \in Nodes /\ <<NodeOf[p]>> \in Seq(Nodes)
  BY DEF ConstantsAssumption
<1>3. \A r \in Ids : RootContext(p, r) \in Context
  BY <1>1, <1>2 DEF RootContext, Context
<1>4. CASE w.from = None
  BY <1>1, <1>2, <1>3, <1>4 DEF AtRoot, Root, Placed, RootPlace, RootContext
<1>5. CASE w.from # None
  <2> DEFINE f == w.from
             c == ContextOf(p, f)
  <2>1. f \in Ids /\ f # None /\ Home[f] = Home[w.id] /\ tasks[f] \in Row
    BY <1>1, <1>5 DEF ToAnotherNode, TypeOK
  <2>2. tasks[f].depth \in Nat /\ tasks[f].root \in Root /\ tasks[f].ctx \in Context \cup {None}
    BY <2>1 DEF Row
  <2>3. tasks[f].ctx = None => tasks[f].root \in Ids
    <3>1. RowFits(f) /\ tasks[f] # None
      BY <2>1, <1>5
    <3> QED BY <2>1, <3>1 DEF RowFits, OldRow
  <2>4. c \in Context
    BY <1>3, <2>2, <2>3 DEF ContextOf
  <2>5. place.root = tasks[f].root /\ place.ctx = [c EXCEPT !.depth = tasks[f].depth + 1]
    BY <1>5 DEF Below
  <2>6. /\ place.ctx \in Context /\ place.ctx.depth = tasks[f].depth + 1
        /\ place.ctx.root = c.root /\ place.ctx.visited = c.visited
        /\ place.ctx.maxDepth = c.maxDepth /\ place.ctx.maxTasks = c.maxTasks
    <3> HIDE DEF c, f
    <3> QED BY <2>2, <2>4, <2>5 DEF Context
  <2>7. tasks[f].ctx = None => c.root = <<NodeOf[p], tasks[f].root>> /\ c.visited = <<NodeOf[p]>>
    BY DEF ContextOf, RootContext
  <2>8. tasks[f].ctx # None => c = tasks[f].ctx
    BY DEF ContextOf
  <2>9. ChildPlace(tasks, w.id, f, place.root, place.ctx)
    <3> HIDE DEF c, f
    <3> QED BY <2>5, <2>6, <2>7, <2>8 DEF ChildPlace
  <2> QED BY <2>1, <2>2, <2>5, <2>6, <2>9, <1>5 DEF Placed
<1> QED BY <1>4, <1>5

\* A Gateway only narrows the limits of a context, and adds itself to its way.
LEMMA InboundNarrows ==
  ASSUME ConstantsAssumption, TypeOK, NEW q \in Procs, NEW c \in Context
  PROVE  LET d == Inbound(q, c)
         IN  /\ d \in Context /\ d.root = c.root /\ d.depth = c.depth
             /\ d.maxDepth <= c.maxDepth /\ d.maxTasks <= c.maxTasks
             /\ d.visited = Append(c.visited, NodeOf[q])
<1> DEFINE m == IF c.maxDepth < limits[q].depth THEN c.maxDepth ELSE limits[q].depth
           n == IF c.maxTasks < limits[q].tasks THEN c.maxTasks ELSE limits[q].tasks
           v == Append(c.visited, NodeOf[q])
           e1 == [c EXCEPT !.maxDepth = m]
           e2 == [e1 EXCEPT !.maxTasks = n]
           d == Inbound(q, c)
<1>1. limits[q] \in [depth : Nat, tasks : Nat] /\ NodeOf[q] \in Nodes
  BY DEF ConstantsAssumption, TypeOK
<1>2. m \in Nat /\ n \in Nat /\ m <= c.maxDepth /\ n <= c.maxTasks /\ v \in Seq(Nodes)
  BY <1>1 DEF Context
<1>3. d = [c EXCEPT !.maxDepth = m, !.maxTasks = n, !.visited = v]
  BY DEF Inbound
<1> HIDE DEF m, n, v
<1>4. e1 \in Context /\ e1.maxDepth = m /\ e1.root = c.root /\ e1.depth = c.depth
  BY <1>2 DEF Context
<1>5. e2 \in Context /\ e2.maxTasks = n /\ e2.maxDepth = m /\ e2.root = c.root /\ e2.depth = c.depth
  <2> HIDE DEF e1
  <2> QED BY <1>2, <1>4 DEF Context
<1>6. d = [e2 EXCEPT !.visited = v]
  <2> HIDE DEF d
  <2> QED BY <1>3 DEF Context
<1>7. /\ d \in Context /\ d.root = c.root /\ d.depth = c.depth
      /\ d.maxDepth = m /\ d.maxTasks = n /\ d.visited = v
  <2> HIDE DEF d, e2
  <2> QED BY <1>2, <1>5, <1>6 DEF Context
<1> HIDE DEF d
<1>8. d.visited = Append(c.visited, NodeOf[q])
  BY <1>7 DEF v
<1> QED BY <1>2, <1>7, <1>8 DEF d

\* What a Gateway makes of a request of another one is its place, if it accepts it.
LEMMA ArrivedPlace ==
  ASSUME ConstantsAssumption, TypeOK, \A i \in Ids : RowFits(i),
         NEW q \in Procs, NEW i \in Ids, NEW w \in Wanted,
         tasks[i] # None, tasks[i].to = NodeOf[q], Acceptable(q, tasks[i].ctx),
         w.from = i, ToAnotherNode(w), Home[w.id] = NodeOf[q]
  PROVE  /\ From(q, i).root \in Root /\ From(q, i).ctx \in Context
         /\ Placed(tasks, w.id, w.from, From(q, i).root, From(q, i).ctx)
<1> DEFINE c == tasks[i].ctx
           d == Inbound(q, c)
<1>1. limits[q] \in [depth : Nat, tasks : Nat] /\ NodeOf[q] \in Nodes
  BY DEF ConstantsAssumption, TypeOK
<1>2. i \notin Legacy /\ c # None
  <2>1. RowFits(i) /\ tasks[i].to # Here
    BY <1>1 DEF ConstantsAssumption
  <2> QED BY <2>1 DEF RowFits, OldRow
<1>3. c \in Context
  BY <1>2 DEF TypeOK, Row
<1>6. /\ d \in Context /\ d.maxDepth <= c.maxDepth /\ d.maxTasks <= c.maxTasks
      /\ d.root = c.root /\ d.depth = c.depth /\ d.visited = Append(c.visited, NodeOf[q])
  BY <1>3, InboundNarrows
<1>7. GuestPlace(tasks, w.id, i, c.root, d)
  <2>1. ~Visits(c, NodeOf[q]) /\ c # None
    BY <1>2 DEF Acceptable
  <2> HIDE DEF d
  <2> QED BY <1>6, <2>1 DEF GuestPlace
<1>8. From(q, i).root = c.root /\ From(q, i).ctx = d
  BY DEF From
<1>9. c.root \in Root
  <2> HIDE DEF c
  <2> QED BY <1>3 DEF Context, Root
<1>10. w.from # None /\ Home[w.from] # Home[w.id]
  BY DEF ToAnotherNode
<1> HIDE DEF c, d
<1> QED BY <1>6, <1>7, <1>8, <1>9, <1>10 DEF Placed

\* The rows of existing Tasks keep what places them, so every place stays one.
Grown ==
  \A j \in Ids : tasks[j] # None =>
    /\ tasks'[j] # None
    /\ tasks'[j].from = tasks[j].from /\ tasks'[j].to = tasks[j].to
    /\ tasks'[j].root = tasks[j].root /\ tasks'[j].depth = tasks[j].depth
    /\ tasks'[j].ctx = tasks[j].ctx
LEMMA PlaceIsKept ==
  ASSUME Grown, NEW i, NEW f \in Ids \cup {None}, NEW root, NEW c, Placed(tasks, i, f, root, c)
  PROVE  Placed(tasks', i, f, root, c)
BY DEF Grown, Placed, RootPlace, ChildPlace, GuestPlace

\* A call's way is right when the way of the Task it was asked for from is.
LEMMA WayIsRight ==
  ASSUME ConstantsAssumption, TypeOK, \A j \in Ids : RowFits(j),
         NEW i \in Ids, NEW f \in Ids \cup {None}, NEW root \in Root, NEW c \in Context,
         Placed(tasks, i, f, root, c)
  PROVE  RightWay(i, root, c)
<1>0. Home[i] \in Nodes
  BY DEF ConstantsAssumption
<1>1. CASE f = None
  <2>1. root = i /\ c.root = <<Home[i], i>> /\ c.visited = <<Home[i]>>
    BY <1>1 DEF Placed, RootPlace
  <2> QED BY <2>1 DEF RightWay
<1>2. CASE f # None
  <2>0. f \in Ids /\ tasks[f] # None /\ tasks[f] \in Row
    <3>1. f \in Ids /\ tasks[f] # None
      BY <1>2 DEF Placed
    <3> QED BY <3>1 DEF TypeOK
  <2>1. CASE tasks[f].ctx = None
    <3> RowFits(f)
      BY <2>0
    <3>0. f \in Legacy /\ tasks[f].root = f
      BY <2>0, <2>1 DEF RowFits, OldRow
    <3>1. Home[f] = Home[i]
      BY <2>1, <1>2 DEF Placed, GuestPlace
    <3>2. root = f /\ c.root = <<Home[i], f>> /\ c.visited = <<Home[i]>>
      BY <3>0, <3>1, <2>1, <1>2 DEF Placed, ChildPlace
    <3> QED BY <3>1, <3>2 DEF RightWay
  <2>2. CASE tasks[f].ctx # None
    <3> DEFINE e == tasks[f].ctx
    <3> RowFits(f)
      BY <2>0
    <3>0. f \notin Legacy
      BY <2>0, <2>2 DEF RowFits, OldRow
    <3>1. RightWay(f, tasks[f].root, e)
      BY <2>0, <3>0 DEF RowFits
    <3>2. e \in Context
      BY <2>0, <2>2 DEF Row
    <3>3. CASE Home[f] = Home[i]
      <4>1. root = tasks[f].root /\ c.root = e.root /\ c.visited = e.visited
        BY <3>3, <2>2, <1>2 DEF Placed, ChildPlace
      <4> HIDE DEF e
      <4> QED BY <4>1, <3>1, <3>3 DEF RightWay
    <3>4. CASE Home[f] # Home[i]
      <4>1. root = e.root /\ c.root = e.root /\ ~Visits(e, Home[i])
            /\ c.visited = Append(e.visited, Home[i])
        BY <3>4, <2>2, <1>2 DEF Placed, GuestPlace
      <4> DEFINE v == e.visited
      <4>2. v \in Seq(Nodes) /\ Len(v) > 0 /\ \A k \in 1 .. Len(v) : v[k] # Home[i]
        <5> HIDE DEF e
        <5> QED BY <3>1, <3>2, <4>1 DEF RightWay, Visits, Context
      <4>3. \A k, l \in 1 .. Len(v) : v[k] = v[l] => k = l
        BY <3>1 DEF RightWay
      <4>4. e.root[1] = v[1]
        BY <3>1 DEF RightWay
      <4>5. Len(c.visited) = Len(v) + 1 /\ c.visited[Len(v) + 1] = Home[i]
            /\ \A k \in 1 .. Len(v) : c.visited[k] = v[k]
        <5> HIDE DEF v, e
        <5> QED BY <4>1, <4>2 DEF v
      <4> HIDE DEF v, e
      <4>6. \A k, l \in 1 .. Len(c.visited) : c.visited[k] = c.visited[l] => k = l
        BY <4>2, <4>3, <4>5
      <4>7. c.root[1] = c.visited[1] /\ c.root[1] # Home[i]
        BY <4>1, <4>2, <4>4, <4>5
      <4>8. Len(c.visited) > 0 /\ c.visited[Len(c.visited)] = Home[i]
        BY <4>2, <4>5
      <4> QED BY <4>1, <4>6, <4>7, <4>8 DEF RightWay
    <3> QED BY <3>3, <3>4
  <2> QED BY <2>1, <2>2
<1> QED BY <1>1, <1>2

-----------------------------------------------------------------------------
(* The steps of a call: it takes a turn (CallTurn) that leaves the rows as *)
(* they are, adds the row of its Task, or moves the remote leg of it.      *)

Moves(p, i, how) == calls' = [calls EXCEPT ![p][i].pc = how]
Ending == {"told", "refused", "clash", "unsure"}

\* No answer is taken back, and a call that ends has answered its far caller.
AnswersGrow(c, how) ==
  /\ answers' \in [Ids -> Ids \cup {None, "refused", "rejected"}]
  /\ \A j \in Ids : answers[j] # None => answers'[j] # None
  /\ how \in Ending /\ ToAnotherNode(c.want) => answers'[c.want.from] # None

RowsStay(p, i, how) ==
  /\ how \in Ending \cup {"new", "go"} /\ UNCHANGED <<tasks, net>>
  /\ how = "new" => tasks[i] = None /\ ~TooDeep(calls[p][i])
  /\ how \in {"go", "told"} => tasks[i] # None /\ SameBinding(calls[p][i], tasks[i])
  /\ how = "go" => tasks[i].leg # "local" /\ tasks[i].up = None

RowOf(c) ==
  [from |-> c.want.from, to |-> c.want.to, root |-> c.root, depth |-> c.ctx.depth,
   ctx |-> c.ctx, up |-> None, leg |-> IF c.want.to = Here THEN "local" ELSE "new"]
RowIsNew(p, i, how) ==
  /\ calls[p][i].pc = "new" /\ tasks[i] = None /\ ~Full(NodeOf[p], calls[p][i])
  /\ tasks' = [tasks EXCEPT ![i] = RowOf(calls[p][i])] /\ net' = net
  /\ how = IF calls[p][i].want.to = Here THEN "told" ELSE "go"

SameRow(t, u) ==
  /\ t.from = u.from /\ t.to = u.to /\ t.root = u.root /\ t.depth = u.depth /\ t.ctx = u.ctx

LegMoves(p, i, how) ==
  /\ calls[p][i].pc \in {"go", "sent"} /\ tasks[i] # None
  /\ tasks' \in [Ids -> Row \cup {None}] /\ tasks'[i] # None /\ SameRow(tasks'[i], tasks[i])
  /\ \A j \in Ids \ {i} : tasks'[j] = tasks[j]
  /\ \/ /\ how = "sent" /\ tasks'[i].leg = "open" /\ tasks'[i].up = None
        /\ net' = net \cup {i} /\ (tasks[i].leg = "open" => MayReplay(i))
     \/ /\ how = "refused" /\ tasks'[i].leg = "new" /\ tasks'[i].up = None
        /\ net' = net /\ (tasks[i].leg = "open" => MayReplay(i))
     \/ how = "told" /\ tasks'[i].leg = "bound" /\ tasks'[i].up \in Ids /\ net' = net
     \/ /\ how = "refused" /\ tasks'[i].leg = "failed" /\ tasks'[i].up = None /\ net' = net
        /\ calls[p][i].pc = "sent"

CallTurn(p, i, how) ==
  /\ Live(p, i) /\ Moves(p, i, how) /\ AnswersGrow(calls[p][i], how)
  /\ UNCHANGED <<limits, asked, restarts>>
  /\ RowsStay(p, i, how) \/ RowIsNew(p, i, how) \/ LegMoves(p, i, how)

LEMMA EndMoves ==
  ASSUME ConstantsAssumption, TypeOK, NEW p \in Procs, NEW i \in Ids, calls[p][i] # None,
         NEW how, End(p, i, how)
  PROVE  Moves(p, i, how) /\ AnswersGrow(calls[p][i], how)
<1> DEFINE c == calls[p][i]
<1>1. c.want \in Wanted
  BY DEF TypeOK, CallRow
<1>2. ToAnotherNode(c.want) => c.want.from \in Ids
  BY <1>1 DEF ToAnotherNode, ConstantsAssumption
<1>3. "refused" # None /\ \A j \in Ids : j # None
  BY DEF ConstantsAssumption
<1>4. CASE ToAnotherNode(c.want)
  <2> DEFINE a == IF how = "told" THEN i ELSE "refused"
  <2>1. answers' = [answers EXCEPT ![c.want.from] = a]
    BY <1>4 DEF End
  <2>2. a # None /\ a \in Ids \cup {None, "refused", "rejected"}
    BY <1>3
  <2> HIDE DEF a, c
  <2> QED BY <2>1, <2>2, <1>2, <1>4 DEF AnswersGrow, TypeOK, End, Moves, c
<1>5. CASE ~ToAnotherNode(c.want)
  BY <1>5 DEF End, AnswersGrow, Moves, TypeOK
<1> QED BY <1>4, <1>5

\* A call that goes on ends nothing.
LEMMA StillGoing ==
  ASSUME TypeOK, NEW c, NEW how, how \notin Ending, answers' = answers
  PROVE  AnswersGrow(c, how)
BY DEF AnswersGrow, TypeOK

LEMMA FoundStays ==
  ASSUME ConstantsAssumption, TypeOK, NEW p \in Procs, NEW i \in Ids, Live(p, i),
         tasks[i] # None, Found(p, i), UNCHANGED <<limits, tasks, asked, net, restarts>>
  PROVE  \E how : CallTurn(p, i, how)
<1>0. calls[p][i] # None
  BY DEF Live
<1>1. CASE ~SameBinding(calls[p][i], tasks[i]) /\ End(p, i, "clash")
  BY <1>0, <1>1, EndMoves DEF CallTurn, RowsStay, Ending
<1>2. CASE SameBinding(calls[p][i], tasks[i]) /\ End(p, i, "told")
  BY <1>0, <1>2, EndMoves DEF CallTurn, RowsStay, Ending
<1>3. CASE /\ SameBinding(calls[p][i], tasks[i])
           /\ tasks[i].leg # "local" /\ tasks[i].up = None
           /\ Moves(p, i, "go") /\ UNCHANGED answers
  <2>1. AnswersGrow(calls[p][i], "go")
    BY <1>3, StillGoing DEF Ending
  <2> QED BY <1>0, <1>3, <2>1 DEF CallTurn, RowsStay, Ending
<1> QED BY <1>1, <1>2, <1>3 DEF Found, Moves

LEMMA EnterTurns ==
  ASSUME ConstantsAssumption, TypeOK, NEW p \in Procs, NEW i \in Ids, Enter(p, i)
  PROVE  \E how : CallTurn(p, i, how)
<1>0. Live(p, i) /\ calls[p][i] # None /\ UNCHANGED <<limits, tasks, asked, net, restarts>>
  BY DEF Enter, Live
<1>1. CASE tasks[i] # None /\ Found(p, i)
  BY <1>0, <1>1, FoundStays
<1>2. CASE End(p, i, "refused")
  BY <1>0, <1>2, EndMoves DEF CallTurn, RowsStay, Ending
<1>3. CASE tasks[i] = None /\ ~TooDeep(calls[p][i]) /\ Moves(p, i, "new") /\ UNCHANGED answers
  <2>1. AnswersGrow(calls[p][i], "new")
    BY <1>3, StillGoing DEF Ending
  <2> QED BY <1>0, <1>3, <2>1 DEF CallTurn, RowsStay, Ending
<1> QED BY <1>1, <1>2, <1>3 DEF Enter, Moves

LEMMA InsertTurns ==
  ASSUME ConstantsAssumption, TypeOK, NEW p \in Procs, NEW i \in Ids, Insert(p, i)
  PROVE  \E how : CallTurn(p, i, how)
<1> DEFINE c == calls[p][i]
<1>0. Live(p, i) /\ c # None /\ c.pc = "new" /\ UNCHANGED <<limits, asked, net, restarts>>
  BY DEF Insert, Live
<1>1. CASE tasks[i] # None /\ Found(p, i) /\ UNCHANGED tasks
  BY <1>0, <1>1, FoundStays
<1>2. CASE End(p, i, "refused") /\ UNCHANGED tasks
  BY <1>0, <1>2, EndMoves DEF CallTurn, RowsStay, Ending
<1>3. CASE /\ tasks[i] = None /\ ~Full(NodeOf[p], c) /\ tasks' = [tasks EXCEPT ![i] = RowOf(c)]
           /\ IF c.want.to = Here THEN End(p, i, "told") ELSE Moves(p, i, "go") /\ UNCHANGED answers
  <2>1. CASE c.want.to = Here
    BY <1>0, <1>3, <2>1, EndMoves DEF CallTurn, RowIsNew
  <2>2. CASE c.want.to # Here
    <3>1. AnswersGrow(c, "go")
      BY <1>3, <2>2, StillGoing DEF Ending
    <3> QED BY <1>0, <1>3, <2>2, <3>1 DEF CallTurn, RowIsNew
  <2> QED BY <2>1, <2>2
<1> QED BY <1>1, <1>2, <1>3 DEF Insert, Moves, RowOf

LEMMA LegIsSet ==
  ASSUME ConstantsAssumption, TypeOK, NEW i \in Ids, tasks[i] # None,
         NEW l \in {"local", "new", "open", "bound", "failed"}, Leg(i, l)
  PROVE  /\ tasks' \in [Ids -> Row \cup {None}] /\ tasks'[i] # None /\ SameRow(tasks'[i], tasks[i])
         /\ \A j \in Ids \ {i} : tasks'[j] = tasks[j]
         /\ tasks'[i].leg = l /\ tasks'[i].up = tasks[i].up
<1> DEFINE r == [tasks[i] EXCEPT !.leg = l]
<1>1. tasks[i] \in Row
  BY DEF TypeOK
<1>2. r \in Row /\ SameRow(r, tasks[i]) /\ r.leg = l /\ r.up = tasks[i].up
  BY <1>1 DEF Row, SameRow
<1>3. tasks' = [tasks EXCEPT ![i] = r]
  BY DEF Leg
<1>4. r # None
  BY <1>2 DEF ConstantsAssumption
<1> HIDE DEF r
<1> QED BY <1>2, <1>3, <1>4 DEF TypeOK

LEMMA SendTurns ==
  ASSUME ConstantsAssumption, TypeOK, NEW p \in Procs, NEW i \in Ids, CallFits(p, i),
         Send(p, i)
  PROVE  \E how : CallTurn(p, i, how)
<1>0. Live(p, i) /\ calls[p][i] # None /\ calls[p][i].pc = "go" /\ UNCHANGED <<limits, asked, restarts>>
  BY DEF Send, Live
<1>1. CASE End(p, i, "unsure") /\ UNCHANGED <<tasks, net>>
  BY <1>0, <1>1, EndMoves DEF CallTurn, RowsStay, Ending
<1>2. CASE /\ ~(tasks[i].leg = "open" /\ ~MayReplay(i)) /\ Leg(i, "open")
           /\ net' = net \cup {i} /\ Moves(p, i, "sent") /\ UNCHANGED answers
  <2>1. AnswersGrow(calls[p][i], "sent")
    BY <1>2, StillGoing DEF Ending
  <2>2. tasks[i] # None /\ tasks[i].up = None
    BY <1>0 DEF CallFits
  <2>3. LegMoves(p, i, "sent")
    BY <1>0, <1>2, <2>2, LegIsSet DEF LegMoves
  <2> QED BY <1>0, <1>2, <2>1, <2>3 DEF CallTurn
<1> QED BY <1>1, <1>2 DEF Send, Moves

LEMMA NotDispatchedTurns ==
  ASSUME ConstantsAssumption, TypeOK, NEW p \in Procs, NEW i \in Ids, CallFits(p, i),
         NotDispatched(p, i)
  PROVE  \E how : CallTurn(p, i, how)
<1>0. /\ Live(p, i) /\ calls[p][i] # None /\ calls[p][i].pc = "go"
      /\ UNCHANGED <<limits, asked, net, restarts>>
  BY DEF NotDispatched, Live
<1>1. tasks[i] # None /\ tasks[i].up = None
  BY <1>0 DEF CallFits
<1>2. Leg(i, "new") /\ (tasks[i].leg = "open" => MayReplay(i))
  BY DEF NotDispatched
<1>3. LegMoves(p, i, "refused")
  BY <1>0, <1>1, <1>2, LegIsSet DEF LegMoves
<1>4. Moves(p, i, "refused") /\ AnswersGrow(calls[p][i], "refused")
  BY <1>0, EndMoves DEF NotDispatched
<1> QED BY <1>0, <1>3, <1>4 DEF CallTurn

LEMMA HearTurns ==
  ASSUME ConstantsAssumption, TypeOK, NEW p \in Procs, NEW i \in Ids, CallFits(p, i),
         Hear(p, i)
  PROVE  \E how : CallTurn(p, i, how)
<1>0. /\ Live(p, i) /\ calls[p][i] # None /\ calls[p][i].pc = "sent"
      /\ UNCHANGED <<limits, asked, net, restarts>>
  BY DEF Hear, Live
<1>1. tasks[i] # None /\ tasks[i].up = None
  BY <1>0 DEF CallFits
<1>2. CASE /\ answers[i] \in Ids /\ End(p, i, "told")
           /\ tasks' = [tasks EXCEPT ![i].up = answers[i], ![i].leg = "bound"]
  <2> DEFINE first == [tasks[i] EXCEPT !.up = answers[i]]
             r == [tasks[i] EXCEPT !.up = answers[i], !.leg = "bound"]
  <2>1. tasks[i] \in Row
    BY <1>1 DEF TypeOK
  <2>2. first \in Row /\ SameRow(first, tasks[i]) /\ first.up = answers[i]
    BY <2>1, <1>2 DEF Row, SameRow
  <2>3. r = [first EXCEPT !.leg = "bound"]
    BY <2>1 DEF Row
  <2>4. r \in Row /\ SameRow(r, first) /\ r.leg = "bound" /\ r.up = first.up
    <3> HIDE DEF first, r
    <3> QED BY <2>2, <2>3 DEF Row, SameRow
  <2>5. tasks' = [tasks EXCEPT ![i] = r]
    BY <1>2
  <2>6. r # None /\ SameRow(r, tasks[i]) /\ r.up \in Ids
    <3> HIDE DEF first, r
    <3> QED BY <2>2, <2>4, <1>2 DEF ConstantsAssumption, SameRow
  <2>7. LegMoves(p, i, "told")
    <3> HIDE DEF r
    <3> QED BY <1>0, <1>1, <2>4, <2>5, <2>6 DEF LegMoves, TypeOK
  <2>8. Moves(p, i, "told") /\ AnswersGrow(calls[p][i], "told")
    BY <1>0, <1>2, EndMoves
  <2> QED BY <1>0, <2>7, <2>8 DEF CallTurn
<1>3. CASE Leg(i, "failed") /\ End(p, i, "refused")
  <2>1. LegMoves(p, i, "refused")
    BY <1>0, <1>1, <1>3, LegIsSet DEF LegMoves
  <2>2. Moves(p, i, "refused") /\ AnswersGrow(calls[p][i], "refused")
    BY <1>0, <1>3, EndMoves
  <2> QED BY <1>0, <2>1, <2>2 DEF CallTurn
<1>4. CASE UNCHANGED tasks /\ End(p, i, "refused")
  BY <1>0, <1>4, EndMoves DEF CallTurn, RowsStay, Ending
<1> QED BY <1>2, <1>3, <1>4 DEF Hear

LEMMA TimeoutTurns ==
  ASSUME ConstantsAssumption, TypeOK, NEW p \in Procs, NEW i \in Ids, Timeout(p, i)
  PROVE  \E how : CallTurn(p, i, how)
<1>0. Live(p, i) /\ calls[p][i] # None
  BY DEF Timeout, Live
<1> QED BY <1>0, EndMoves DEF Timeout, CallTurn, RowsStay, Ending

-----------------------------------------------------------------------------
(* What a turn of a call does to the rows and the calls.                   *)

LEMMA TurnMoves ==
  ASSUME ConstantsAssumption, TypeOK, NEW p \in Procs, NEW i \in Ids, NEW how,
         CallTurn(p, i, how)
  PROVE  /\ calls' \in [Procs -> [Ids -> CallRow \cup {None}]]
         /\ calls'[p][i] # None /\ calls'[p][i].pc = how /\ calls'[p][i].want = calls[p][i].want
         /\ calls'[p][i].root = calls[p][i].root /\ calls'[p][i].ctx = calls[p][i].ctx
         /\ \A q \in Procs, j \in Ids : q # p \/ j # i => calls'[q][j] = calls[q][j]
<1> DEFINE c == calls[p][i]
           d == [c EXCEPT !.pc = how]
           row == [calls[p] EXCEPT ![i] = d]
<1>1. c \in CallRow
  BY DEF CallTurn, Live, TypeOK
<1>2. how \in {"new", "go", "sent"} \cup Ending
  BY DEF CallTurn, RowsStay, RowIsNew, LegMoves, Ending
<1>3. d \in CallRow /\ d.pc = how /\ d.want = c.want /\ d.root = c.root /\ d.ctx = c.ctx
  <2> HIDE DEF c
  <2> QED BY <1>1, <1>2 DEF CallRow, Ending
<1>4. calls' = [calls EXCEPT ![p] = row]
  BY DEF CallTurn, Moves
<1>5. d # None
  BY <1>3 DEF ConstantsAssumption
<1>6. calls[p] \in [Ids -> CallRow \cup {None}]
  BY DEF TypeOK
<1>7. row \in [Ids -> CallRow \cup {None}] /\ row[i] = d /\ \A j \in Ids \ {i} : row[j] = calls[p][j]
  <2> HIDE DEF d
  <2> QED BY <1>3, <1>6
<1>8. calls' \in [Procs -> [Ids -> CallRow \cup {None}]] /\ calls'[p] = row
      /\ \A q \in Procs \ {p} : calls'[q] = calls[q]
  <2> HIDE DEF row
  <2> QED BY <1>4, <1>7 DEF TypeOK
<1>9. \A q \in Procs, j \in Ids : q # p \/ j # i => calls'[q][j] = calls[q][j]
  <2> HIDE DEF row, d
  <2> QED BY <1>7, <1>8
<1> QED BY <1>3, <1>5, <1>7, <1>8, <1>9

LEMMA TurnRows ==
  ASSUME ConstantsAssumption, TypeOK, NEW p \in Procs, NEW i \in Ids, NEW how,
         CallTurn(p, i, how), CallFits(p, i)
  PROVE  /\ tasks' \in [Ids -> Row \cup {None}] /\ Grown
         /\ \A j \in Ids \ {i} : tasks'[j] = tasks[j]
         /\ \A j \in Ids : tasks'[j] # None =>
              /\ tasks'[j].leg = "local" <=> tasks'[j].to = Here
              /\ tasks'[j].leg = "bound" <=> tasks'[j].up # None
         /\ net' \subseteq Ids
<1> DEFINE c == calls[p][i]
<1>0. c \in CallRow /\ c # None
  BY DEF CallTurn, Live, TypeOK
<1>1. CASE RowsStay(p, i, how)
  BY <1>1 DEF RowsStay, Grown, TypeOK
<1>2. CASE RowIsNew(p, i, how)
  <2> DEFINE r == RowOf(c)
  <2>1. c.want \in [id : Ids, from : Ids \cup {None}, to : Nodes \cup {Here}]
    BY <1>0 DEF CallRow, ConstantsAssumption
  <2>2. c.root \in Root /\ c.ctx \in Context /\ c.ctx.depth \in Nat
    BY <1>0 DEF CallRow, Context
  <2>3. r \in Row /\ (r.leg = "local" <=> r.to = Here) /\ (r.leg = "bound" <=> r.up # None)
    BY <2>1, <2>2 DEF RowOf, Row
  <2>4. tasks' = [tasks EXCEPT ![i] = r] /\ tasks[i] = None /\ net' = net
    BY <1>2 DEF RowIsNew
  <2>5. r # None
    BY <2>3 DEF ConstantsAssumption
  <2> HIDE DEF r
  <2> QED BY <2>3, <2>4, <2>5 DEF Grown, TypeOK
<1>3. CASE LegMoves(p, i, how)
  <2>1. tasks[i].leg # "local" /\ tasks[i].to # Here
    BY <1>0, <1>3 DEF LegMoves, CallFits, SameBinding, TypeOK
  <2>2. tasks'[i].to = tasks[i].to /\ net' \subseteq Ids
    BY <1>3 DEF LegMoves, SameRow, TypeOK
  <2>3. /\ tasks'[i].leg = "local" <=> tasks'[i].to = Here
        /\ tasks'[i].leg = "bound" <=> tasks'[i].up # None
    BY <1>3, <2>1, <2>2 DEF LegMoves, ConstantsAssumption
  <2>4. Grown
    BY <1>3 DEF LegMoves, SameRow, Grown
  <2> QED BY <1>3, <2>2, <2>3, <2>4 DEF LegMoves, TypeOK
<1> QED BY <1>1, <1>2, <1>3 DEF CallTurn

\* A row keeps fitting while its request is the same; one of an old release never moves.
LEMMA RowIsKept ==
  ASSUME ConstantsAssumption, TypeOK, Grown, NEW j \in Ids, RowFits(j),
         tasks[j] # None, asked'[j] = asked[j], j \in Legacy => tasks'[j] = tasks[j]
  PROVE  RowFits(j)'
<1>1. CASE j \in Legacy
  BY <1>1 DEF RowFits, OldRow
<1>2. CASE j \notin Legacy
  <2>1. /\ tasks[j].ctx # None /\ tasks[j].depth = tasks[j].ctx.depth
        /\ tasks[j].depth <= tasks[j].ctx.maxDepth
        /\ Placed(tasks, j, tasks[j].from, tasks[j].root, tasks[j].ctx)
        /\ RightWay(j, tasks[j].root, tasks[j].ctx)
        /\ asked[j] # None /\ asked[j].from = tasks[j].from /\ asked[j].to = tasks[j].to
    BY <1>2 DEF RowFits
  <2>2. /\ tasks'[j].from = tasks[j].from /\ tasks'[j].to = tasks[j].to
        /\ tasks'[j].root = tasks[j].root /\ tasks'[j].depth = tasks[j].depth
        /\ tasks'[j].ctx = tasks[j].ctx
    BY DEF Grown
  <2>3. tasks[j].from \in Ids \cup {None}
    BY DEF TypeOK, Row
  <2>4. Placed(tasks', j, tasks'[j].from, tasks'[j].root, tasks'[j].ctx)
    BY <2>1, <2>2, <2>3, PlaceIsKept
  <2> QED BY <1>2, <2>1, <2>2, <2>4 DEF RowFits
<1> QED BY <1>1, <1>2

LEMMA OldRowIsRow ==
  ASSUME ConstantsAssumption, NEW i \in Ids
  PROVE  OldRow(i) # None
<1>1. OldRow(i) \in Row
  BY DEF OldRow, Row, Root
<1> QED BY <1>1 DEF ConstantsAssumption

LEMMA TurnRowsFit ==
  ASSUME ConstantsAssumption, TypeOK, \A j \in Ids : RowFits(j),
         NEW p \in Procs, NEW i \in Ids, NEW how, CallTurn(p, i, how), CallFits(p, i)
  PROVE  \A j \in Ids : RowFits(j)'
<1> DEFINE c == calls[p][i]
<1>0. c \in CallRow /\ c # None /\ asked' = asked
  BY DEF CallTurn, Live, TypeOK
<1>1. Grown /\ \A j \in Ids \ {i} : tasks'[j] = tasks[j]
  BY TurnRows
<1>2. ASSUME NEW j \in Ids, j # i PROVE RowFits(j)'
  <2>1. CASE tasks[j] = None
    <3>1. RowFits(j) /\ tasks'[j] = None /\ OldRow(j) # None
      BY <1>1, <1>2, <2>1, OldRowIsRow
    <3> QED BY <2>1, <3>1 DEF RowFits
  <2>2. CASE tasks[j] # None
    BY <1>0, <1>1, <1>2, <2>2, RowIsKept
  <2> QED BY <2>1, <2>2
<1>3. RowFits(i)'
  <2>1. CASE RowsStay(p, i, how)
    <3>1. tasks'[i] = tasks[i]
      BY <2>1 DEF RowsStay
    <3>2. CASE tasks[i] = None
      <4>1. RowFits(i) /\ OldRow(i) # None
        BY OldRowIsRow
      <4> QED BY <3>1, <3>2, <4>1 DEF RowFits
    <3> QED BY <1>0, <1>1, <3>1, <3>2, RowIsKept
  <2>2. CASE RowIsNew(p, i, how)
    <3> DEFINE r == RowOf(c)
    <3>1. i \notin Legacy
      <4>1. RowFits(i) /\ OldRow(i) # None
        BY OldRowIsRow
      <4> QED BY <4>1, <2>2 DEF RowFits, RowIsNew
    <3>2. tasks'[i] = r
      BY <2>2 DEF RowIsNew, TypeOK
    <3>3. /\ r.from = c.want.from /\ r.to = c.want.to /\ r.root = c.root /\ r.ctx = c.ctx
          /\ r.depth = c.ctx.depth
      BY DEF RowOf
    <3>4. c.want \in [id : Ids, from : Ids \cup {None}, to : Nodes \cup {Here}]
          /\ c.want # None /\ c.root \in Root /\ c.ctx \in Context /\ c.ctx # None
      BY <1>0 DEF CallRow, ConstantsAssumption
    <3>5. Placed(tasks, i, c.want.from, c.root, c.ctx) /\ asked[i] = c.want
          /\ c.ctx.depth <= c.ctx.maxDepth
      <4>1. c.pc = "new"
        BY <2>2 DEF RowIsNew
      <4>2. c.ctx.depth \in Nat /\ c.ctx.maxDepth \in Nat
        BY <3>4 DEF Context
      <4> QED BY <1>0, <4>1, <4>2 DEF CallFits, TooDeep
    <3>6. RightWay(i, c.root, c.ctx)
      BY <3>4, <3>5, WayIsRight
    <3>7. Placed(tasks', i, c.want.from, c.root, c.ctx)
      BY <1>1, <3>4, <3>5, PlaceIsKept
    <3> HIDE DEF r, c
    <3> QED BY <1>0, <3>1, <3>2, <3>3, <3>4, <3>5, <3>6, <3>7 DEF RowFits
  <2>3. CASE LegMoves(p, i, how)
    <3>1. tasks[i] # None /\ tasks[i].to # Here
      BY <1>0, <2>3 DEF LegMoves, CallFits, SameBinding
    <3>2. i \notin Legacy
      <4>1. RowFits(i)
        OBVIOUS
      <4> QED BY <3>1, <4>1 DEF RowFits, OldRow
    <3> QED BY <1>0, <1>1, <3>1, <3>2, RowIsKept
  <2> QED BY <2>1, <2>2, <2>3 DEF CallTurn
<1> QED BY <1>2, <1>3

LEMMA TurnCallsFit ==
  ASSUME ConstantsAssumption, TypeOK, \A q \in Procs, j \in Ids : CallFits(q, j),
         NEW p \in Procs, NEW i \in Ids, NEW how, CallTurn(p, i, how)
  PROVE  \A q \in Procs, j \in Ids : CallFits(q, j)'
<1> DEFINE c == calls[p][i]
<1>0. c \in CallRow /\ c # None /\ asked' = asked /\ CallFits(p, i) /\ Live(p, i)
  BY DEF CallTurn, Live, TypeOK
<1>1. Grown /\ \A j \in Ids \ {i} : tasks'[j] = tasks[j]
  BY <1>0, TurnRows
<1>2. /\ calls'[p][i] # None /\ calls'[p][i].pc = how /\ calls'[p][i].want = c.want
      /\ calls'[p][i].root = c.root /\ calls'[p][i].ctx = c.ctx
      /\ \A q \in Procs, j \in Ids : q # p \/ j # i => calls'[q][j] = calls[q][j]
  BY TurnMoves
<1>3. \A q \in Procs, j \in Ids : Live(q, j)' => Live(q, j)
  BY <1>0, <1>2 DEF Live
<1>4. \A q \in Procs, j \in Ids : calls[q][j] # None =>
        /\ calls[q][j].want \in Wanted /\ calls[q][j].want.from \in Ids \cup {None}
  BY DEF TypeOK, CallRow, ConstantsAssumption
<1>5. ASSUME NEW q \in Procs, NEW j \in Ids, q # p \/ j # i, calls[q][j] # None
      PROVE  CallFits(q, j)'
  <2> DEFINE d == calls[q][j]
  <2>1. calls'[q][j] = d /\ CallFits(q, j)
    BY <1>2, <1>5
  <2>2. /\ asked[j] = d.want /\ Home[j] = NodeOf[q]
        /\ Placed(tasks, j, d.want.from, d.root, d.ctx)
        /\ d.pc = "new" => ~TooDeep(d)
        /\ d.pc \in {"go", "sent", "told"} => tasks[j] # None /\ SameBinding(d, tasks[j])
        /\ d.pc \in {"go", "sent"} => d.want.to # Here /\ tasks[j].up = None
        /\ d.pc = "sent" => tasks[j].leg = "open"
        /\ Live(q, j) /\ d.want.to # Here => \A o \in Procs : Live(o, j) => o = q
    BY <2>1, <1>5 DEF CallFits
  <2>3. Placed(tasks', j, d.want.from, d.root, d.ctx)
    BY <1>1, <1>4, <1>5, <2>2, PlaceIsKept
  <2>4. d.pc \in {"go", "sent", "told"} => tasks'[j] # None /\ SameBinding(d, tasks'[j])
    BY <1>1, <2>2 DEF Grown, SameBinding
  <2>5. d.pc \in {"go", "sent"} => j # i
    BY <1>0, <2>2, <1>5 DEF Live
  <2>6. /\ d.pc \in {"go", "sent"} => d.want.to # Here /\ tasks'[j].up = None
        /\ d.pc = "sent" => tasks'[j].leg = "open"
    BY <1>1, <2>2, <2>5
  <2>7. Live(q, j)' => Live(q, j)
    BY <1>3
  <2>8. (Live(q, j) /\ d.want.to # Here => \A o \in Procs : Live(o, j) => o = q)
        => (Live(q, j)' /\ d.want.to # Here => \A o \in Procs : Live(o, j)' => o = q)
    BY <1>3
  <2> HIDE DEF d
  <2> QED BY <1>0, <2>1, <2>2, <2>3, <2>4, <2>6, <2>8 DEF CallFits
<1>6. CallFits(p, i)'
  <2>1. /\ asked[i] = c.want /\ Home[i] = NodeOf[p]
        /\ Placed(tasks, i, c.want.from, c.root, c.ctx)
        /\ Live(p, i) /\ c.want.to # Here => \A q \in Procs : Live(q, i) => q = p
    BY <1>0 DEF CallFits
  <2>2. Placed(tasks', i, c.want.from, c.root, c.ctx)
    BY <1>0, <1>1, <1>4, <2>1, PlaceIsKept
  <2>3. how = "new" => ~TooDeep(c)
    BY DEF CallTurn, RowsStay, RowIsNew, LegMoves
  <2>4. how \in {"go", "sent", "told"} => tasks'[i] # None /\ SameBinding(c, tasks'[i])
    <3>1. CASE RowsStay(p, i, how)
      BY <3>1 DEF RowsStay, Ending
    <3>2. CASE RowIsNew(p, i, how)
      <4>1. tasks'[i] = RowOf(c) /\ tasks'[i] # None
        <5>1. tasks'[i] = RowOf(c)
          BY <3>2 DEF RowIsNew, TypeOK
        <5>2. RowOf(c) \in Row
          BY <1>0 DEF RowOf, Row, CallRow, ConstantsAssumption, Context
        <5> QED BY <5>1, <5>2 DEF ConstantsAssumption
      <4> QED BY <4>1 DEF RowOf, SameBinding
    <3>3. CASE LegMoves(p, i, how)
      <4>1. SameBinding(c, tasks[i]) /\ tasks'[i] # None /\ SameRow(tasks'[i], tasks[i])
        BY <1>0, <3>3 DEF LegMoves, CallFits
      <4> QED BY <4>1 DEF SameBinding, SameRow
    <3> QED BY <3>1, <3>2, <3>3 DEF CallTurn
  <2>5. /\ how \in {"go", "sent"} => c.want.to # Here /\ tasks'[i].up = None
        /\ how = "sent" => tasks'[i].leg = "open"
    <3>1. CASE RowsStay(p, i, how)
      BY <3>1 DEF RowsStay, SameBinding, TypeOK, Ending
    <3>2. CASE RowIsNew(p, i, how)
      <4>1. tasks'[i] = RowOf(c)
        BY <3>2 DEF RowIsNew, TypeOK
      <4> QED BY <3>2, <4>1 DEF RowOf, RowIsNew
    <3>3. CASE LegMoves(p, i, how)
      BY <1>0, <3>3 DEF LegMoves, CallFits
    <3> QED BY <3>1, <3>2, <3>3 DEF CallTurn
  <2>6. Live(p, i)' /\ c.want.to # Here => \A q \in Procs : Live(q, i)' => q = p
    BY <1>0, <1>3, <2>1
  <2> HIDE DEF c
  <2>7. TooDeep(calls'[p][i]) = TooDeep(c) /\ SameBinding(calls'[p][i], tasks'[i]) = SameBinding(c, tasks'[i])
    BY <1>2 DEF TooDeep, SameBinding
  <2> QED BY <1>0, <1>2, <2>1, <2>2, <2>3, <2>4, <2>5, <2>6, <2>7 DEF CallFits
<1>7. ASSUME NEW q \in Procs, NEW j \in Ids, q # p \/ j # i, calls[q][j] = None
      PROVE  CallFits(q, j)'
  BY <1>2, <1>7 DEF CallFits
<1> QED BY <1>5, <1>6, <1>7

\* What a call that goes on with a remote create has found of its row.
LEMMA RemoteRow ==
  ASSUME ConstantsAssumption, TypeOK, NEW p \in Procs, NEW i \in Ids, CallFits(p, i),
         Live(p, i), calls[p][i].pc \in {"go", "sent"},
         tasks[i].leg = "failed" => Dead(i)
  PROVE  /\ calls[p][i].want.to # Here
         /\ tasks[i] # None /\ tasks[i].leg \in {"new", "open"}
<1>1. calls[p][i] # None /\ ~Dead(i)
  BY DEF Live, Dead
<1>2. /\ calls[p][i].want.to # Here /\ tasks[i] # None /\ tasks[i].up = None
      /\ tasks[i].to = calls[p][i].want.to
  BY <1>1 DEF CallFits, SameBinding
<1>3. tasks[i].leg \in {"local", "new", "open", "bound", "failed"}
  BY <1>2 DEF TypeOK, Row
<1>4. tasks[i].leg # "local" /\ tasks[i].leg # "bound"
  BY <1>2 DEF TypeOK
<1> QED BY <1>1, <1>2, <1>3, <1>4

LEMMA TurnAsksOnce ==
  ASSUME ConstantsAssumption, TypeOK, \A j \in Ids : AskedOnce(j),
         NEW p \in Procs, NEW i \in Ids, NEW how, CallTurn(p, i, how), CallFits(p, i),
         tasks[i] # None /\ tasks[i].leg = "failed" => Dead(i)
  PROVE  \A j \in Ids : AskedOnce(j)'
<1>0. asked' = asked /\ Live(p, i) /\ calls[p][i] # None
  BY DEF CallTurn, Live
<1>1. \A j \in Ids : GivenTo(j)' = GivenTo(j)
  BY <1>0 DEF GivenTo
<1>2. Grown /\ \A j \in Ids \ {i} : tasks'[j] = tasks[j]
  BY TurnRows
<1>3. \A j \in Ids \ {i} : j \in net' <=> j \in net
  BY DEF CallTurn, RowsStay, RowIsNew, LegMoves
<1>4. ASSUME NEW j \in Ids, j # i PROVE AskedOnce(j)'
  <2>1. AskedOnce(j) /\ GivenTo(j)' = GivenTo(j) /\ tasks'[j] = tasks[j] /\ (j \in net' <=> j \in net)
    BY <1>1, <1>2, <1>3, <1>4
  <2> QED BY <2>1 DEF AskedOnce, MayReplay
<1>5. AskedOnce(i)'
  <2>0. AskedOnce(i) /\ GivenTo(i)' = GivenTo(i)
    BY <1>1
  <2>1. CASE RowsStay(p, i, how)
    BY <2>0, <2>1 DEF RowsStay, AskedOnce, MayReplay
  <2>2. CASE RowIsNew(p, i, how)
    <3>1. tasks[i] = None /\ net' = net
      BY <2>2 DEF RowIsNew
    <3> QED BY <2>0, <3>1 DEF AskedOnce, MayReplay
  <2>3. CASE LegMoves(p, i, how)
    <3>1. tasks[i] # None /\ tasks[i].leg \in {"new", "open"}
      <4>1. calls[p][i].pc \in {"go", "sent"} /\ tasks[i] # None
        BY <2>3 DEF LegMoves
      <4> QED BY <1>0, <4>1, RemoteRow
    <3>2. tasks'[i] # None
      BY <2>3 DEF LegMoves
    <3>3. CASE /\ tasks'[i].leg = "open" /\ net' = net \cup {i} /\ (tasks[i].leg = "open" => MayReplay(i))
      BY <2>0, <3>1, <3>2, <3>3 DEF AskedOnce, MayReplay
    <3>4. CASE /\ tasks'[i].leg = "new" /\ net' = net /\ (tasks[i].leg = "open" => MayReplay(i))
      BY <2>0, <3>1, <3>2, <3>4 DEF AskedOnce, MayReplay
    <3>5. CASE tasks'[i].leg \in {"bound", "failed"} /\ net' = net
      BY <2>0, <3>1, <3>2, <3>5 DEF AskedOnce, MayReplay
    <3> QED BY <2>3, <3>3, <3>4, <3>5 DEF LegMoves
  <2> QED BY <2>1, <2>2, <2>3 DEF CallTurn
<1> QED BY <1>4, <1>5

\* The invariant about rejected Tasks.
DeadOnes == \A i \in Ids : tasks[i] # None /\ tasks[i].leg = "failed" => Dead(i)

LEMMA TurnKeepsDead ==
  ASSUME ConstantsAssumption, TypeOK, \A j \in Ids : RowFits(j), DeadOnes,
         NEW p \in Procs, NEW i \in Ids, NEW how, CallTurn(p, i, how), CallFits(p, i)
  PROVE  DeadOnes'
<1> DEFINE c == calls[p][i]
<1>0. asked' = asked /\ Live(p, i) /\ c # None /\ asked[i] = c.want
  BY DEF CallTurn, Live, CallFits
<1>1. \A j \in Ids \ {i} : tasks'[j] = tasks[j]
  BY TurnRows
<1>2. calls'[p][i].pc = how /\ \A q \in Procs, j \in Ids : q # p \/ j # i => calls'[q][j] = calls[q][j]
  BY TurnMoves
<1>3. \A q \in Procs, j \in Ids : Live(q, j)' => Live(q, j)
  BY <1>0, <1>2 DEF Live
<1>4. \A j \in Ids : answers[j] # None => answers'[j] # None
  BY DEF CallTurn, AnswersGrow
<1>5. \A j \in Ids : asked[j] \in Wanted \cup {None}
  BY DEF TypeOK
<1>6. \A j \in Ids : asked[j] # None /\ ToAnotherNode(asked[j]) => asked[j].from \in Ids
  BY <1>5 DEF ToAnotherNode, ConstantsAssumption
<1>7. ASSUME NEW j \in Ids, Dead(j), asked[j] # None PROVE Dead(j)'
  <2>1. ToAnotherNode(asked'[j]) => answers'[asked'[j].from] # None
    BY <1>0, <1>4, <1>6, <1>7 DEF Dead
  <2>2. \A q \in Procs : ~Live(q, j)'
    BY <1>3, <1>7 DEF Dead
  <2> QED BY <2>1, <2>2 DEF Dead
<1>8. ASSUME NEW j \in Ids, tasks[j] # None, tasks[j].leg = "failed" PROVE Dead(j)'
  <2>1. RowFits(j) /\ Dead(j)
    BY <1>8 DEF DeadOnes
  <2>2. asked[j] # None
    BY <2>1, <1>8 DEF RowFits, OldRow
  <2> QED BY <1>7, <2>1, <2>2
<1>9. ASSUME tasks'[i] # None, tasks'[i].leg = "failed" PROVE Dead(i)'
  <2>1. CASE RowsStay(p, i, how)
    BY <1>8, <1>9, <2>1 DEF RowsStay
  <2>2. CASE RowIsNew(p, i, how)
    <3>1. tasks'[i] = RowOf(c)
      BY <2>2 DEF RowIsNew, TypeOK
    <3>2. tasks'[i].leg \in {"local", "new"}
      BY <3>1 DEF RowOf
    <3> QED BY <1>9, <3>2
  <2>3. CASE LegMoves(p, i, how)
    <3>1. how = "refused" /\ c.pc = "sent"
      BY <1>9, <2>3 DEF LegMoves
    <3>2. \A q \in Procs : Live(q, i) => q = p
      BY <1>0, <3>1 DEF CallFits
    <3>3. \A q \in Procs : ~Live(q, i)'
      BY <1>2, <1>3, <3>1, <3>2 DEF Live
    <3>4. ToAnotherNode(asked'[i]) => answers'[asked'[i].from] # None
      BY <1>0, <3>1 DEF CallTurn, AnswersGrow, Ending
    <3> QED BY <3>3, <3>4 DEF Dead
  <2> QED BY <2>1, <2>2, <2>3 DEF CallTurn
<1>10. ASSUME NEW j \in Ids, tasks'[j] # None, tasks'[j].leg = "failed" PROVE Dead(j)'
  <2>1. CASE j = i
    BY <1>9, <1>10, <2>1
  <2>2. CASE j # i
    <3>1. tasks'[j] = tasks[j]
      BY <1>1, <2>2
    <3> QED BY <1>8, <1>10, <3>1
  <2> QED BY <2>1, <2>2
<1> QED BY <1>10 DEF DeadOnes

-----------------------------------------------------------------------------
(* The budget: a row is added only where every limit of its tree has room. *)

\* The Tasks of a tree in one database, counted by the rows of t.
TreeIn(t, n, root) == {s \in Ids : t[s] # None /\ Home[s] = n /\ t[s].root = root}

LEMMA SameTrees ==
  ASSUME \A j \in Ids : (tasks'[j] # None <=> tasks[j] # None) /\ tasks'[j].root = tasks[j].root,
         \A j \in Ids : tasks'[j].ctx = tasks[j].ctx,
         WithinBudget
  PROVE  WithinBudget'
<1>1. \A n, root : TreeIn(tasks', n, root) = TreeIn(tasks, n, root)
  BY DEF TreeIn
<1>2. \A n, root : Tree(n, root) = TreeIn(tasks, n, root)
  BY DEF Tree, TreeIn
<1>3. ASSUME NEW n \in Nodes, NEW t \in Ids, Contexts(t)', Home[t] = n
      PROVE  Cardinality(TreeIn(tasks', n, tasks'[t].root)) <= tasks'[t].ctx.maxTasks
  <2>1. Contexts(t)
    BY <1>3 DEF Contexts
  <2>2. Cardinality(TreeIn(tasks, n, tasks[t].root)) <= tasks[t].ctx.maxTasks
    BY <1>2, <1>3, <2>1 DEF WithinBudget
  <2>3. tasks'[t].root = tasks[t].root /\ tasks'[t].ctx = tasks[t].ctx
    OBVIOUS
  <2> QED BY <1>1, <2>2, <2>3
<1> QED BY <1>3 DEF WithinBudget, Tree, TreeIn, Contexts

LEMMA RowHasRoom ==
  ASSUME ConstantsAssumption, TypeOK, WithinBudget,
         NEW p \in Procs, NEW i \in Ids, Home[i] = NodeOf[p], NEW c \in CallRow,
         tasks[i] = None, ~Full(NodeOf[p], c), tasks' = [tasks EXCEPT ![i] = RowOf(c)]
  PROVE  WithinBudget'
<1> DEFINE n == NodeOf[p]
           old == TreeIn(tasks, n, c.root)
           r == RowOf(c)
<1>1. c.ctx \in Context /\ c.ctx.maxTasks \in Nat /\ c.ctx # None
  BY DEF CallRow, Context, ConstantsAssumption
<1>2. r.root = c.root /\ r.ctx = c.ctx /\ r # None
  <2>1. r \in Row
    BY DEF RowOf, Row, CallRow, ConstantsAssumption, Context
  <2> QED BY <2>1 DEF RowOf, ConstantsAssumption
<1>3. tasks'[i] = r /\ \A j \in Ids \ {i} : tasks'[j] = tasks[j]
  BY DEF TypeOK
<1>4. \A m, root : Tree(m, root) = TreeIn(tasks, m, root)
  BY DEF Tree, TreeIn
<1> HIDE DEF r
<1>5. TreeIn(tasks', n, c.root) = old \cup {i} /\ i \notin old
  BY <1>2, <1>3 DEF TreeIn
<1>6. IsFiniteSet(old) /\ Cardinality(old) \in Nat
  <2>1. old \subseteq Ids
    BY DEF TreeIn
  <2> HIDE DEF old
  <2> QED BY <2>1, FS_Subset, FS_CardinalityType DEF ConstantsAssumption
<1>7. Cardinality(TreeIn(tasks', n, c.root)) = Cardinality(old) + 1
  <2> HIDE DEF old
  <2> QED BY <1>5, <1>6, FS_AddElement
<1>8. Cardinality(old) < c.ctx.maxTasks
  <2>1. ~(Cardinality(Tree(n, c.root)) >= c.ctx.maxTasks)
    BY DEF Full
  <2>2. Tree(n, c.root) = old
    BY <1>4
  <2> HIDE DEF old, n
  <2> QED BY <1>1, <1>6, <2>1, <2>2
<1>9. ASSUME NEW t \in Ids, t \in old, tasks[t].ctx # None
      PROVE  Cardinality(old) < tasks[t].ctx.maxTasks
  <2>1. t \in Tree(n, c.root) /\ tasks[t] # None
    BY <1>4, <1>9 DEF TreeIn
  <2>2. ~(Cardinality(Tree(n, c.root)) >= tasks[t].ctx.maxTasks)
    BY <1>9, <2>1 DEF Full
  <2>3. tasks[t].ctx.maxTasks \in Nat
    BY <1>9, <2>1 DEF TypeOK, Row, Context
  <2>4. Tree(n, c.root) = old
    BY <1>4
  <2> HIDE DEF old, n
  <2> QED BY <1>6, <2>2, <2>3, <2>4
<1>10. ASSUME NEW m \in Nodes, NEW t \in Ids, tasks'[t] # None, tasks'[t].ctx # None, Home[t] = m
       PROVE  Cardinality(TreeIn(tasks', m, tasks'[t].root)) <= tasks'[t].ctx.maxTasks
  <2>1. CASE t = i
    <3>1. m = n /\ tasks'[t].root = c.root /\ tasks'[t].ctx = c.ctx
      BY <1>2, <1>3, <1>10, <2>1
    <3> HIDE DEF n, old
    <3> QED BY <1>1, <1>6, <1>7, <1>8, <3>1
  <2>2. CASE t # i /\ m = n /\ tasks[t].root = c.root
    <3>1. tasks'[t] = tasks[t] /\ t \in old
      BY <1>3, <1>10, <2>2 DEF TreeIn
    <3>2. tasks[t].ctx.maxTasks \in Nat
      BY <1>10, <3>1 DEF TypeOK, Row, Context
    <3>3. Cardinality(old) < tasks[t].ctx.maxTasks
      BY <1>9, <1>10, <3>1
    <3> HIDE DEF n, old
    <3> QED BY <1>6, <1>7, <2>2, <3>1, <3>2, <3>3
  <2>3. CASE t # i /\ ~(m = n /\ tasks[t].root = c.root)
    <3>1. tasks'[t] = tasks[t]
      BY <1>3, <2>3
    <3>2. TreeIn(tasks', m, tasks[t].root) = TreeIn(tasks, m, tasks[t].root)
      BY <1>2, <1>3, <2>3 DEF TreeIn
    <3>3. Contexts(t)
      BY <1>10, <3>1 DEF Contexts
    <3>4. Cardinality(TreeIn(tasks, m, tasks[t].root)) <= tasks[t].ctx.maxTasks
      BY <1>4, <1>10, <3>3 DEF WithinBudget
    <3> QED BY <3>1, <3>2, <3>4
  <2> QED BY <2>1, <2>2, <2>3
<1> QED BY <1>10 DEF WithinBudget, Tree, TreeIn, Contexts

LEMMA TurnKeepsBudget ==
  ASSUME ConstantsAssumption, TypeOK, WithinBudget,
         NEW p \in Procs, NEW i \in Ids, NEW how, CallTurn(p, i, how), CallFits(p, i)
  PROVE  WithinBudget'
<1>1. CASE RowsStay(p, i, how)
  <2>1. tasks' = tasks
    BY <1>1 DEF RowsStay
  <2> QED BY <2>1, SameTrees
<1>2. CASE RowIsNew(p, i, how)
  <2>1. calls[p][i] \in CallRow /\ Home[i] = NodeOf[p]
    BY DEF CallTurn, Live, CallFits, TypeOK
  <2>2. /\ tasks[i] = None /\ ~Full(NodeOf[p], calls[p][i])
        /\ tasks' = [tasks EXCEPT ![i] = RowOf(calls[p][i])]
    BY <1>2 DEF RowIsNew
  <2> QED BY <2>1, <2>2, RowHasRoom
<1>3. CASE LegMoves(p, i, how)
  <2>1. \A j \in Ids : /\ (tasks'[j] # None <=> tasks[j] # None) /\ tasks'[j].root = tasks[j].root
                        /\ tasks'[j].ctx = tasks[j].ctx
    BY <1>3 DEF LegMoves, SameRow
  <2> QED BY <2>1, SameTrees
<1> QED BY <1>1, <1>2, <1>3 DEF CallTurn

\* The inductive invariant, by its parts.
RequestsNamed == \A i \in Ids : asked[i] # None => asked[i].id = i
RowsFit == \A i \in Ids : RowFits(i)
AskedOnces == \A i \in Ids : AskedOnce(i)
CallsFit == \A p \in Procs, i \in Ids : CallFits(p, i)
TreeInv ==
  TypeOK /\ RequestsNamed /\ RowsFit /\ AskedOnces /\ DeadOnes /\ CallsFit /\ WithinBudget

LEMMA TurnKeepsInv ==
  ASSUME ConstantsAssumption, TreeInv, NEW p \in Procs, NEW i \in Ids, NEW how, CallTurn(p, i, how)
  PROVE  TreeInv'
<1> USE DEF TreeInv
<1>1. CallFits(p, i)
  BY DEF CallsFit
<1>2. asked' = asked /\ limits' = limits /\ restarts' = restarts
  BY DEF CallTurn
<1>3. TypeOK'
  <2>1. calls' \in [Procs -> [Ids -> CallRow \cup {None}]]
    BY TurnMoves
  <2>2. /\ tasks' \in [Ids -> Row \cup {None}] /\ net' \subseteq Ids
        /\ \A j \in Ids : tasks'[j] # None =>
              /\ tasks'[j].leg = "local" <=> tasks'[j].to = Here
              /\ tasks'[j].leg = "bound" <=> tasks'[j].up # None
    BY <1>1, TurnRows
  <2>3. answers' \in [Ids -> Ids \cup {None, "refused", "rejected"}]
    BY DEF CallTurn, AnswersGrow
  <2> QED BY <1>2, <2>1, <2>2, <2>3 DEF TypeOK
<1>4. RequestsNamed'
  BY <1>2 DEF RequestsNamed
<1>5. RowsFit'
  BY <1>1, TurnRowsFit DEF RowsFit
<1>6. AskedOnces'
  <2>1. tasks[i] # None /\ tasks[i].leg = "failed" => Dead(i)
    BY DEF DeadOnes
  <2> QED BY <1>1, <2>1, TurnAsksOnce DEF AskedOnces
<1>7. DeadOnes'
  BY <1>1, TurnKeepsDead DEF RowsFit
<1>8. CallsFit'
  BY TurnCallsFit DEF CallsFit
<1>9. WithinBudget'
  BY <1>1, TurnKeepsBudget
<1> QED BY <1>3, <1>4, <1>5, <1>6, <1>7, <1>8, <1>9

-----------------------------------------------------------------------------
(* The steps that begin a call: a tool, a client or another Gateway asks.  *)

Begins(p, w, place) ==
  /\ calls' = [calls EXCEPT ![p][w.id] = Call(w, place)]
  /\ asked' = [asked EXCEPT ![w.id] = w]
  /\ UNCHANGED <<limits, tasks, answers, restarts>> /\ net' \subseteq net

\* What must be so before it.
MayBegin(p, w, place) ==
  /\ p \in Procs /\ w \in Wanted /\ Home[w.id] = NodeOf[p]
  /\ asked[w.id] \in {None, w}
  /\ w.to # Here => \A o \in Procs : ~Live(o, w.id)
  /\ ~(tasks[w.id] # None /\ tasks[w.id].leg = "failed")
  /\ place.root \in Root /\ place.ctx \in Context
  /\ Placed(tasks, w.id, w.from, place.root, place.ctx)

LEMMA BeginsCall ==
  ASSUME ConstantsAssumption, TypeOK, NEW p \in Procs, NEW w \in Wanted, NEW place,
         MayBegin(p, w, place), Begins(p, w, place)
  PROVE  /\ w.id \in Ids /\ Call(w, place) \in CallRow
         /\ calls'[p][w.id] = Call(w, place)
         /\ \A q \in Procs, j \in Ids : q # p \/ j # w.id => calls'[q][j] = calls[q][j]
         /\ asked'[w.id] = w /\ \A j \in Ids \ {w.id} : asked'[j] = asked[j]
         /\ TypeOK'
<1> DEFINE c == Call(w, place)
           row == [calls[p] EXCEPT ![w.id] = c]
<1>1. w.id \in Ids
  BY DEF ConstantsAssumption
<1>2. c \in CallRow
  BY DEF MayBegin, Call, CallRow
<1>3. calls' = [calls EXCEPT ![p] = row] /\ asked' = [asked EXCEPT ![w.id] = w]
  BY DEF Begins
<1>4. calls[p] \in [Ids -> CallRow \cup {None}]
  BY DEF TypeOK
<1> HIDE DEF c
<1>5. row \in [Ids -> CallRow \cup {None}] /\ row[w.id] = c /\ \A j \in Ids \ {w.id} : row[j] = calls[p][j]
  BY <1>1, <1>2, <1>4
<1> HIDE DEF row
<1>6. calls' \in [Procs -> [Ids -> CallRow \cup {None}]] /\ calls'[p] = row
      /\ \A q \in Procs \ {p} : calls'[q] = calls[q]
  BY <1>3, <1>5 DEF TypeOK
<1>7. asked' \in [Ids -> Wanted \cup {None}] /\ asked'[w.id] = w
      /\ \A j \in Ids \ {w.id} : asked'[j] = asked[j]
  BY <1>1, <1>3 DEF TypeOK
<1>8. TypeOK'
  BY <1>6, <1>7 DEF TypeOK, Begins
<1> QED BY <1>1, <1>2, <1>5, <1>6, <1>7, <1>8 DEF c

LEMMA BeginKeeps ==
  ASSUME ConstantsAssumption, TreeInv, NEW p \in Procs, NEW w \in Wanted, NEW place,
         MayBegin(p, w, place), Begins(p, w, place)
  PROVE  TypeOK' /\ RequestsNamed' /\ RowsFit' /\ DeadOnes' /\ CallsFit' /\ WithinBudget'
<1> USE DEF TreeInv
<1> DEFINE i == w.id
           c == Call(w, place)
<1>0. tasks' = tasks /\ answers' = answers
  BY DEF Begins
<1>1. /\ i \in Ids /\ c \in CallRow /\ calls'[p][i] = c
      /\ \A q \in Procs, j \in Ids : q # p \/ j # i => calls'[q][j] = calls[q][j]
      /\ asked'[i] = w /\ \A j \in Ids \ {i} : asked'[j] = asked[j]
      /\ TypeOK'
  BY BeginsCall
<1>2. c.pc = "wait" /\ c.want = w /\ c.root = place.root /\ c.ctx = place.ctx /\ c # None
  BY <1>1 DEF Call, ConstantsAssumption
<1> HIDE DEF c, i
<1>3. RequestsNamed'
  BY <1>1 DEF RequestsNamed, i
<1>4. ASSUME NEW j \in Ids PROVE RowFits(j)'
  <2>0. RowFits(j)
    BY DEF RowsFit
  <2>1. CASE tasks[j] = None
    BY <1>0, <2>0, <2>1, OldRowIsRow DEF RowFits
  <2>2. CASE j \in Legacy
    BY <1>0, <2>0, <2>2 DEF RowFits, OldRow
  <2>3. CASE tasks[j] # None /\ j \notin Legacy
    <3>1. asked[j] # None
      BY <2>0, <2>3 DEF RowFits
    <3>2. asked'[j] = asked[j]
      BY <1>1, <3>1 DEF MayBegin, i
    <3>3. Grown
      BY <1>0 DEF Grown
    <3> QED BY <1>0, <2>0, <2>3, <3>2, <3>3, RowIsKept
  <2> QED BY <2>1, <2>2, <2>3
<1>5. ASSUME NEW j \in Ids, tasks[j] # None, tasks[j].leg = "failed" PROVE Dead(j)'
  <2>1. j # i
    BY <1>5 DEF MayBegin, i
  <2>2. Dead(j) /\ asked'[j] = asked[j] /\ \A q \in Procs : calls'[q][j] = calls[q][j]
    BY <1>1, <1>5, <2>1 DEF DeadOnes
  <2> QED BY <1>0, <2>2 DEF Dead, Live
<1>6. ASSUME NEW q \in Procs, NEW j \in Ids PROVE CallFits(q, j)'
  <2>0. CallFits(q, j)
    BY DEF CallsFit
  <2>1. CASE q = p /\ j = i
    <3>1. /\ asked'[i] = c.want /\ Home[i] = NodeOf[p]
          /\ Placed(tasks', i, c.want.from, c.root, c.ctx)
      BY <1>0, <1>1, <1>2 DEF MayBegin, i
    <3>2. c.want.to # Here => \A o \in Procs : Live(o, i)' => o = p
      BY <1>1, <1>2 DEF MayBegin, Live, i
    <3> QED BY <1>1, <1>2, <2>1, <3>1, <3>2 DEF CallFits
  <2>2. CASE ~(q = p /\ j = i) /\ calls[q][j] # None
    <3> DEFINE d == calls[q][j]
    <3>1. calls'[q][j] = d
      BY <1>1, <2>2
    <3>2. d.want \in Wanted /\ d.want # None /\ asked[j] = d.want
      BY <2>0, <2>2 DEF CallFits, TypeOK, CallRow, ConstantsAssumption
    <3>3. asked'[j] = asked[j]
      BY <1>1, <3>2 DEF MayBegin, i
    <3>4. Live(q, j)' /\ d.want.to # Here => \A o \in Procs : Live(o, j)' => o = q
      <4>1. CASE j = i
        <5>1. d.want = w
          BY <1>1, <3>2, <3>3, <4>1
        <5> QED BY <3>1, <4>1, <5>1 DEF MayBegin, Live, i
      <4>2. CASE j # i
        <5>1. \A o \in Procs : calls'[o][j] = calls[o][j]
          BY <1>1, <4>2
        <5> QED BY <2>0, <2>2, <5>1 DEF CallFits, Live
      <4> QED BY <4>1, <4>2
    <3> QED BY <1>0, <2>0, <2>2, <3>1, <3>3, <3>4 DEF CallFits
  <2>3. CASE ~(q = p /\ j = i) /\ calls[q][j] = None
    <3>1. calls'[q][j] = None
      BY <1>1, <2>3
    <3> QED BY <3>1 DEF CallFits
  <2> QED BY <2>1, <2>2, <2>3
<1>7. WithinBudget'
  BY <1>0, SameTrees
<1> QED BY <1>0, <1>1, <1>3, <1>4, <1>5, <1>6, <1>7 DEF RowsFit, DeadOnes, CallsFit

LEMMA AskKeepsInv ==
  ASSUME ConstantsAssumption, TreeInv, NEW p \in Procs, NEW w \in Wanted, Ask(p, w)
  PROVE  TreeInv'
<1> USE DEF TreeInv
<1> DEFINE place == IF w.from = None THEN AtRoot(p, w) ELSE Below(p, w)
<1>0. w.id \in Ids
  BY DEF ConstantsAssumption
<1>1. /\ Home[w.id] = NodeOf[p] /\ ~ToAnotherNode(w) /\ asked[w.id] \in {None, w}
      /\ w.from # None => tasks[w.from] # None
      /\ w.to # Here => \A o \in Procs : ~Live(o, w.id)
  BY DEF Ask
<1>2. ~(tasks[w.id] # None /\ tasks[w.id].leg = "failed")
  <2>1. CASE asked[w.id] = None
    <3>1. RowFits(w.id)
      BY <1>0 DEF RowsFit
    <3> QED BY <2>1, <3>1 DEF RowFits, OldRow
  <2>2. CASE tasks[w.id] # None => tasks[w.id].leg # "failed"
    BY <2>2
  <2> QED BY <2>1, <2>2 DEF Ask
<1>3. /\ place.root \in Root /\ place.ctx \in Context
      /\ Placed(tasks, w.id, w.from, place.root, place.ctx)
  <2> HIDE DEF place
  <2>1. place = IF w.from = None THEN AtRoot(p, w) ELSE Below(p, w)
    BY DEF place
  <2> QED BY <1>1, <2>1, AskedPlace DEF RowsFit
<1>4. Begins(p, w, place)
  BY DEF Ask, Begins
<1> HIDE DEF place
<1>5. MayBegin(p, w, place)
  BY <1>1, <1>2, <1>3 DEF MayBegin
<1>6. TypeOK' /\ RequestsNamed' /\ RowsFit' /\ DeadOnes' /\ CallsFit' /\ WithinBudget'
  BY <1>4, <1>5, BeginKeeps
<1>7. ASSUME NEW j \in Ids PROVE AskedOnce(j)'
  <2>1. asked'[w.id] = w /\ \A k \in Ids \ {w.id} : asked'[k] = asked[k]
    BY <1>4, <1>5, BeginsCall
  <2>2. \A v \in Wanted : v.id \in Ids /\ v # None
    BY DEF ConstantsAssumption
  <2>3. ASSUME NEW v \in Wanted, ToAnotherNode(v) PROVE asked'[v.id] = v <=> asked[v.id] = v
    BY <1>1, <2>1, <2>2, <2>3
  <2>4. GivenTo(j)' = GivenTo(j)
    BY <2>3 DEF GivenTo
  <2>5. tasks' = tasks /\ net' = net
    BY DEF Ask
  <2>6. AskedOnce(j)
    BY DEF AskedOnces
  <2> QED BY <2>4, <2>5, <2>6 DEF AskedOnce, MayReplay
<1> QED BY <1>6, <1>7 DEF AskedOnces

\* A request that arrives at a far Gateway and is not answered there at once.
LEMMA ArriveKeepsInv ==
  ASSUME ConstantsAssumption, TreeInv, NEW q \in Procs, NEW i \in Ids, Arrive(q, i)
  PROVE  TreeInv'
<1> USE DEF TreeInv
<1>0. /\ i \in net /\ tasks[i].to = NodeOf[q] /\ ~InProgress(i) /\ net' = net \ {i}
      /\ UNCHANGED <<limits, tasks, restarts>>
  BY DEF Arrive
<1>1. tasks[i] # None /\ AskedOnce(i)
  BY <1>0 DEF AskedOnces, AskedOnce
<1>2. CASE UNCHANGED <<asked, calls>> /\ answers' \in {answers, [answers EXCEPT ![i] = "refused"]}
  <2>1. "refused" # None
    BY DEF ConstantsAssumption
  <2>2. /\ answers' \in [Ids -> Ids \cup {None, "refused", "rejected"}]
        /\ \A j \in Ids : answers[j] # None => answers'[j] # None
    BY <1>2, <2>1 DEF TypeOK
  <2>3. TypeOK'
    BY <1>0, <1>2, <2>2 DEF TypeOK
  <2>4. ASSUME NEW j \in Ids PROVE AskedOnce(j)'
    <3>1. GivenTo(j)' = GivenTo(j) /\ AskedOnce(j)
      BY <1>2 DEF GivenTo, AskedOnces
    <3> QED BY <1>0, <3>1 DEF AskedOnce, MayReplay
  <2>5. ASSUME NEW j \in Ids, tasks[j] # None, tasks[j].leg = "failed" PROVE Dead(j)'
    <3>1. Dead(j) /\ RowFits(j)
      BY <2>5 DEF DeadOnes, RowsFit
    <3>2. asked[j] \in Wanted
      BY <2>5, <3>1 DEF RowFits, OldRow, TypeOK
    <3>3. ToAnotherNode(asked[j]) => asked[j].from \in Ids
      BY <3>2 DEF ToAnotherNode, ConstantsAssumption
    <3> QED BY <1>2, <2>2, <3>1, <3>3 DEF Dead, Live
  <2>6. \A j \in Ids : RowFits(j)'
    BY <1>0, <1>2 DEF RowsFit, RowFits
  <2>7. \A p \in Procs, j \in Ids : CallFits(p, j)'
    BY <1>0, <1>2 DEF CallsFit, CallFits, Live
  <2>8. WithinBudget'
    BY <1>0, SameTrees
  <2> QED BY <1>0, <1>2, <2>3, <2>4, <2>5, <2>6, <2>7, <2>8
        DEF RequestsNamed, RowsFit, AskedOnces, DeadOnes, CallsFit
<1>3. ASSUME NEW w \in Wanted, Acceptable(q, tasks[i].ctx), MayReplay(i) => answers[i] = None,
             w.from = i, ToAnotherNode(w), Home[w.id] = NodeOf[q],
             IF MayReplay(i) /\ GivenTo(i) # {} THEN w \in GivenTo(i) ELSE asked[w.id] = None,
             Begins(q, w, From(q, i))
      PROVE  TreeInv'
  <2>0. w.id \in Ids /\ w # None
    BY DEF ConstantsAssumption
  <2>1. asked[w.id] \in {None, w}
    BY <1>3 DEF GivenTo
  <2>2. \A o \in Procs : ~Live(o, w.id)
    <3>1. ASSUME NEW o \in Procs, Live(o, w.id) PROVE FALSE
      <4>1. calls[o][w.id] # None /\ CallFits(o, w.id)
        BY <2>0, <3>1 DEF Live, CallsFit
      <4>2. calls[o][w.id].want = w
        <5>1. calls[o][w.id].want = asked[w.id]
          BY <4>1 DEF CallFits
        <5>2. calls[o][w.id].want \in Wanted
          BY <2>0, <4>1 DEF TypeOK, CallRow
        <5> QED BY <2>1, <5>1, <5>2 DEF ConstantsAssumption
      <4> QED BY <1>0, <1>3, <2>0, <3>1, <4>2 DEF InProgress
    <3> QED BY <3>1
  <2>3. ~(tasks[w.id] # None /\ tasks[w.id].leg = "failed")
    <3>1. SUFFICES ASSUME tasks[w.id] # None, tasks[w.id].leg = "failed" PROVE FALSE
      OBVIOUS
    <3>2. RowFits(w.id) /\ Dead(w.id)
      BY <2>0, <3>1 DEF RowsFit, DeadOnes
    <3>3. asked[w.id] = w
      BY <2>1, <3>1, <3>2 DEF RowFits, OldRow
    <3>4. MayReplay(i)
      BY <1>3, <2>0, <3>3
    <3> QED BY <1>3, <3>2, <3>3, <3>4 DEF Dead
  <2>4. MayBegin(q, w, From(q, i))
    BY <1>0, <1>1, <1>3, <2>1, <2>2, <2>3, ArrivedPlace DEF MayBegin, RowsFit
  <2>5. TypeOK' /\ RequestsNamed' /\ RowsFit' /\ DeadOnes' /\ CallsFit' /\ WithinBudget'
    BY <1>3, <2>4, BeginKeeps
  <2>6. asked'[w.id] = w /\ \A k \in Ids \ {w.id} : asked'[k] = asked[k]
    BY <1>3, <2>4, BeginsCall
  <2>7. \A v \in Wanted : v.id \in Ids /\ v # None
    BY DEF ConstantsAssumption
  <2>8. ASSUME NEW j \in Ids, j # i PROVE AskedOnce(j)'
    <3>1. ASSUME NEW v \in Wanted, v.from = j PROVE asked'[v.id] = v <=> asked[v.id] = v
      BY <1>3, <2>1, <2>6, <2>7, <2>8, <3>1
    <3>2. GivenTo(j)' = GivenTo(j)
      BY <3>1 DEF GivenTo
    <3>3. AskedOnce(j) /\ (j \in net' <=> j \in net)
      BY <1>0, <2>8 DEF AskedOnces
    <3> QED BY <1>0, <3>2, <3>3 DEF AskedOnce, MayReplay
  <2>9. AskedOnce(i)'
    <3>1. GivenTo(i) \subseteq {w}
      <4>1. CASE MayReplay(i) /\ GivenTo(i) # {}
        BY <1>1, <1>3, <4>1 DEF AskedOnce
      <4>2. CASE ~(MayReplay(i) /\ GivenTo(i) # {})
        BY <1>0, <1>1, <4>2 DEF AskedOnce
      <4> QED BY <4>1, <4>2
    <3>2. ASSUME NEW v \in Wanted, v.from = i, asked'[v.id] = v, ToAnotherNode(v) PROVE v = w
      <4>1. CASE v.id = w.id
        BY <2>6, <3>2, <4>1
      <4>2. CASE v.id # w.id
        <5>1. asked[v.id] = v
          BY <2>6, <2>7, <3>2, <4>2
        <5>2. v \in GivenTo(i)
          BY <3>2, <5>1 DEF GivenTo
        <5> QED BY <3>1, <5>2
      <4> QED BY <4>1, <4>2
    <3>3. \A u, v \in GivenTo(i)' : u = v
      BY <3>2 DEF GivenTo
    <3>4. i \notin net' /\ tasks'[i] # None
      BY <1>0, <1>1
    <3>5. ~MayReplay(i) => tasks[i].leg # "new"
      BY <1>0, <1>1 DEF AskedOnce
    <3> QED BY <1>0, <3>3, <3>4, <3>5 DEF AskedOnce, MayReplay
  <2> QED BY <2>5, <2>8, <2>9 DEF AskedOnces
<1>4. \/ UNCHANGED <<asked, calls>> /\ answers' \in {answers, [answers EXCEPT ![i] = "refused"]}
      \/ \E w \in Wanted :
           /\ Acceptable(q, tasks[i].ctx) /\ (MayReplay(i) => answers[i] = None)
           /\ w.from = i /\ ToAnotherNode(w) /\ Home[w.id] = NodeOf[q]
           /\ IF MayReplay(i) /\ GivenTo(i) # {} THEN w \in GivenTo(i) ELSE asked[w.id] = None
           /\ Begins(q, w, From(q, i))
  BY <1>0 DEF Arrive, Begins
<1> QED BY <1>2, <1>3, <1>4

-----------------------------------------------------------------------------
(* What the network and a restart do, and the invariant itself.            *)

\* A request that is lost or rejected takes nothing back.
LEMMA NetKeepsInv ==
  ASSUME ConstantsAssumption, TreeInv, UNCHANGED <<limits, tasks, asked, calls, restarts>>,
         net' \subseteq net, answers' \in [Ids -> Ids \cup {None, "refused", "rejected"}],
         \A j \in Ids : answers[j] # None => answers'[j] # None
  PROVE  TreeInv'
<1> USE DEF TreeInv
<1>1. TypeOK'
  BY DEF TypeOK
<1>2. ASSUME NEW j \in Ids PROVE AskedOnce(j)'
  <2>1. GivenTo(j)' = GivenTo(j) /\ AskedOnce(j)
    BY DEF GivenTo, AskedOnces
  <2> QED BY <2>1 DEF AskedOnce, MayReplay
<1>3. ASSUME NEW j \in Ids, tasks[j] # None, tasks[j].leg = "failed" PROVE Dead(j)'
  <2>1. Dead(j) /\ RowFits(j)
    BY <1>3 DEF DeadOnes, RowsFit
  <2>2. asked[j] \in Wanted
    BY <1>3, <2>1 DEF RowFits, OldRow, TypeOK
  <2>3. ToAnotherNode(asked[j]) => asked[j].from \in Ids
    BY <2>2 DEF ToAnotherNode, ConstantsAssumption
  <2> QED BY <2>1, <2>3 DEF Dead, Live
<1>4. \A j \in Ids : RowFits(j)'
  BY DEF RowsFit, RowFits
<1>5. \A p \in Procs, j \in Ids : CallFits(p, j)'
  BY DEF CallsFit, CallFits, Live
<1>6. WithinBudget'
  BY SameTrees
<1> QED BY <1>1, <1>2, <1>3, <1>4, <1>5, <1>6
        DEF RequestsNamed, RowsFit, AskedOnces, DeadOnes, CallsFit

LEMMA RestartKeepsInv ==
  ASSUME ConstantsAssumption, TreeInv, NEW p \in Procs, NEW l \in Limits, Restart(p, l)
  PROVE  TreeInv'
<1> USE DEF TreeInv
<1>0. /\ restarts < MaxRestarts /\ restarts' = restarts + 1 /\ limits' = [limits EXCEPT ![p] = l]
      /\ calls' = [calls EXCEPT ![p] = [i \in Ids |-> None]]
      /\ UNCHANGED <<tasks, asked, net, answers>>
  BY DEF Restart
<1>1. \A q \in Procs, j \in Ids : calls'[q][j] = IF q = p THEN None ELSE calls[q][j]
  BY <1>0 DEF TypeOK
<1>2. TypeOK'
  <2>1. restarts' \in 0 .. MaxRestarts
    BY <1>0 DEF TypeOK, ConstantsAssumption
  <2>2. calls' \in [Procs -> [Ids -> CallRow \cup {None}]] /\ limits' \in [Procs -> Limits]
    BY <1>0 DEF TypeOK
  <2> QED BY <1>0, <2>1, <2>2 DEF TypeOK
<1>3. \A q \in Procs, j \in Ids : Live(q, j)' => Live(q, j)
  BY <1>1 DEF Live
<1>4. ASSUME NEW j \in Ids PROVE AskedOnce(j)'
  <2>1. GivenTo(j)' = GivenTo(j) /\ AskedOnce(j)
    BY <1>0 DEF GivenTo, AskedOnces
  <2> QED BY <1>0, <2>1 DEF AskedOnce, MayReplay
<1>5. ASSUME NEW j \in Ids, tasks[j] # None, tasks[j].leg = "failed" PROVE Dead(j)'
  BY <1>0, <1>3, <1>5 DEF DeadOnes, Dead
<1>6. \A j \in Ids : RowFits(j)'
  BY <1>0 DEF RowsFit, RowFits
<1>7. ASSUME NEW q \in Procs, NEW j \in Ids PROVE CallFits(q, j)'
  <2>1. CASE calls'[q][j] = None
    BY <2>1 DEF CallFits
  <2>2. CASE calls'[q][j] = calls[q][j]
    BY <1>0, <1>3, <2>2 DEF CallsFit, CallFits
  <2> QED BY <1>1, <2>1, <2>2
<1>8. WithinBudget'
  BY <1>0, SameTrees
<1> QED BY <1>0, <1>2, <1>4, <1>5, <1>6, <1>7, <1>8
        DEF RequestsNamed, RowsFit, AskedOnces, DeadOnes, CallsFit

LEMMA NextKeepsInv ==
  ASSUME ConstantsAssumption, TreeInv, [Next]_vars
  PROVE  TreeInv'
<1> USE DEF TreeInv
<1>1. ASSUME NEW p \in Procs, NEW w \in Wanted, Ask(p, w) PROVE TreeInv'
  BY <1>1, AskKeepsInv
<1>2. ASSUME NEW p \in Procs, NEW i \in Ids, CallStep(p, i) PROVE TreeInv'
  <2>0. CallFits(p, i)
    BY DEF CallsFit
  <2>1. CASE \E how : CallTurn(p, i, how)
    BY <2>1, TurnKeepsInv
  <2>2. CASE Arrive(p, i)
    BY <2>2, ArriveKeepsInv
  <2>3. CASE Reject(p, i)
    <3>1. /\ answers' \in [Ids -> Ids \cup {None, "refused", "rejected"}]
          /\ \A j \in Ids : answers[j] # None => answers'[j] # None
      BY <2>3 DEF Reject, TypeOK
    <3>2. net' \subseteq net /\ UNCHANGED <<limits, tasks, asked, calls, restarts>>
      BY <2>3 DEF Reject
    <3> QED BY <3>1, <3>2, NetKeepsInv
  <2>4. CASE Enter(p, i)
    BY <2>1, <2>4, EnterTurns
  <2>5. CASE Insert(p, i)
    BY <2>1, <2>5, InsertTurns
  <2>6. CASE Send(p, i)
    BY <2>0, <2>1, <2>6, SendTurns
  <2>7. CASE NotDispatched(p, i)
    BY <2>0, <2>1, <2>7, NotDispatchedTurns
  <2>8. CASE Hear(p, i)
    BY <2>0, <2>1, <2>8, HearTurns
  <2>9. CASE Timeout(p, i)
    BY <2>1, <2>9, TimeoutTurns
  <2> QED BY <1>2, <2>2, <2>3, <2>4, <2>5, <2>6, <2>7, <2>8, <2>9 DEF CallStep
<1>3. ASSUME NEW p \in Procs, NEW l \in Limits, Restart(p, l) PROVE TreeInv'
  BY <1>3, RestartKeepsInv
<1>4. ASSUME NEW i \in Ids, Lose(i) PROVE TreeInv'
  <2>1. net' \subseteq net /\ UNCHANGED <<limits, tasks, asked, calls, restarts, answers>>
    BY <1>4 DEF Lose
  <2>2. answers' \in [Ids -> Ids \cup {None, "refused", "rejected"}]
    BY <2>1 DEF TypeOK
  <2> QED BY <2>1, <2>2, NetKeepsInv
<1>5. CASE UNCHANGED vars
  <2>1. answers' \in [Ids -> Ids \cup {None, "refused", "rejected"}]
    BY <1>5 DEF vars, TypeOK
  <2> QED BY <1>5, <2>1, NetKeepsInv DEF vars
<1> QED BY <1>1, <1>2, <1>3, <1>4, <1>5 DEF Next

LEMMA InitHasInv ==
  ASSUME ConstantsAssumption, Init
  PROVE  TreeInv
<1>1. \A i \in Ids : tasks[i] = IF i \in Legacy THEN OldRow(i) ELSE None
  BY DEF Init, OldRow
<1>0. ASSUME NEW i \in Ids, tasks[i] # None
      PROVE  tasks[i].leg = "local" /\ tasks[i].to = Here /\ tasks[i].up = None /\ tasks[i].ctx = None
  <2>1. tasks[i] = OldRow(i)
    BY <1>0, <1>1
  <2> QED BY <2>1 DEF OldRow
<1>2. \A i \in Ids : OldRow(i) \in Row
  BY DEF OldRow, Row, Root
<1>3. \A i \in Ids : asked[i] = None /\ answers[i] = None /\ \A p \in Procs : calls[p][i] = None
  BY DEF Init
<1>4. TypeOK
  <2>1. tasks \in [Ids -> Row \cup {None}]
    BY <1>1, <1>2 DEF Init
  <2>2. \A i \in Ids : tasks[i] # None =>
          /\ tasks[i].leg = "local" <=> tasks[i].to = Here
          /\ tasks[i].leg = "bound" <=> tasks[i].up # None
    BY <1>0
  <2>3. asked \in [Ids -> Wanted \cup {None}] /\ answers \in [Ids -> Ids \cup {None, "refused", "rejected"}]
        /\ calls \in [Procs -> [Ids -> CallRow \cup {None}]]
    BY DEF Init
  <2> QED BY <2>1, <2>2, <2>3 DEF Init, TypeOK, ConstantsAssumption
<1>5. RequestsNamed /\ RowsFit /\ CallsFit
  BY <1>1, <1>3 DEF RequestsNamed, RowsFit, RowFits, CallsFit, CallFits
<1>6. AskedOnces
  <2>1. \A i \in Ids : GivenTo(i) = {}
    BY <1>3 DEF GivenTo, ConstantsAssumption
  <2> QED BY <2>1 DEF AskedOnces, AskedOnce, Init
<1>7. DeadOnes
  BY <1>0 DEF DeadOnes
<1>8. WithinBudget
  BY <1>0 DEF WithinBudget, Contexts
<1> QED BY <1>4, <1>5, <1>6, <1>7, <1>8 DEF TreeInv

\* Whatever is asked, sent, lost, rejected, tried again or restarted, every row belongs
\* where the row it was asked for from says, and every call goes on with its own row.
THEOREM TreeIsWellPlaced == ConstantsAssumption => (Spec => []TreeInv)
<1> SUFFICES ASSUME ConstantsAssumption PROVE Spec => []TreeInv
  OBVIOUS
<1>1. Init => TreeInv
  BY InitHasInv
<1>2. TreeInv /\ [Next]_vars => TreeInv'
  BY NextKeepsInv
<1> QED BY <1>1, <1>2, PTL DEF Spec

-----------------------------------------------------------------------------
(* The chain of Tasks above a Task.                                        *)

\* A set of numbers that is not empty has a least one.
LEMMA LeastNumber ==
  ASSUME NEW S \in SUBSET Nat, S # {}
  PROVE  \E m \in S : \A n \in S : m <= n
<1>1. PICK m \in S : \A n \in S : ~(<<n, m>> \in OpToRel(<, Nat))
  BY NatLessThanWellFounded, WFMin, Zenon
<1>2. \A n \in S : ~(n < m)
  BY <1>1 DEF OpToRel
<1> QED BY <1>2

\* Numbers that hold 0, and with one below n the next one, hold all up to n.
LEMMA CountUp ==
  ASSUME NEW n \in Nat, NEW S, 0 \in S, \A k \in 0 .. n : k \in S /\ k # n => k + 1 \in S
  PROVE  0 .. n \subseteq S
<1> DEFINE Bad == (0 .. n) \ S
<1>1. SUFFICES ASSUME Bad # {} PROVE FALSE
  OBVIOUS
<1>2. PICK m \in Bad : \A k \in Bad : m <= k
  <2>1. Bad \in SUBSET Nat
    OBVIOUS
  <2> HIDE DEF Bad
  <2> QED BY <1>1, <2>1, LeastNumber
<1>3. m # 0 /\ m - 1 \in 0 .. n /\ m - 1 # n
  BY <1>2
<1>4. m - 1 \in S
  BY <1>2, <1>3
<1> QED BY <1>2, <1>3, <1>4

Made == {s \in Ids : tasks[s] # None}
Near(S) == S \cup ({tasks[s].from : s \in S} \ {None})
IsUp(up, t, n) == up = [k \in 0 .. n |-> IF k = 0 THEN {t} ELSE Near(up[k - 1])]

\* The sets that Ancestors goes through exist.
LEMMA UpExists ==
  ASSUME NEW t, NEW n \in Nat
  PROVE  \E up : IsUp(up, t, n)
<1> DEFINE S == {m \in 0 .. n : \E up : IsUp(up, t, m)}
<1>1. 0 \in S
  <2> DEFINE up == [k \in 0 .. 0 |-> {t}]
  <2>1. IsUp(up, t, 0)
    BY DEF IsUp
  <2> QED BY <2>1
<1>2. ASSUME NEW m \in 0 .. n, m \in S, m # n PROVE m + 1 \in S
  <2>1. PICK old : IsUp(old, t, m)
    BY <1>2
  <2> DEFINE up == [k \in 0 .. m + 1 |-> IF k = m + 1 THEN Near(old[m]) ELSE old[k]]
             new == [k \in 0 .. m + 1 |-> IF k = 0 THEN {t} ELSE Near(up[k - 1])]
  <2>2. ASSUME NEW k \in 0 .. m PROVE old[k] = IF k = 0 THEN {t} ELSE Near(old[k - 1])
    BY <2>1 DEF IsUp
  <2>3. ASSUME NEW k \in 0 .. m + 1 PROVE up[k] = new[k]
    <3>1. CASE k = m + 1
      BY <3>1
    <3>2. CASE k # m + 1 /\ k # 0
      <4>1. up[k] = old[k] /\ up[k - 1] = old[k - 1] /\ k \in 0 .. m
        BY <3>2
      <4> QED BY <2>2, <3>2, <4>1
    <3>3. CASE k = 0
      BY <2>2, <3>3
    <3> QED BY <3>1, <3>2, <3>3
  <2>4. up = new
    BY <2>3
  <2>5. IsUp(up, t, m + 1)
    BY <2>4 DEF IsUp
  <2>6. m + 1 \in 0 .. n
    BY <1>2
  <2>7. \E f : IsUp(f, t, m + 1)
    <3> HIDE DEF up
    <3> QED BY <2>5
  <2> QED BY <2>6, <2>7
<1>3. 0 .. n \subseteq S
  <2> HIDE DEF S
  <2> QED BY <1>1, <1>2, CountUp
<1> QED BY <1>3

Closed(S) == \A s \in S : tasks[s].from # None => tasks[s].from \in S
Family(t) == Ancestors(t) \cup {t}

\* A Task and its ancestors: the smallest set of Tasks that holds it and, with a Task,
\* the one that was asked for it.
LEMMA FamilyIsLeast ==
  ASSUME ConstantsAssumption, NEW t \in Made,
         \A s \in Made : tasks[s].from # None => tasks[s].from \in Made
  PROVE  /\ Family(t) \subseteq Made /\ Closed(Family(t))
         /\ \A S : t \in S /\ Closed(S) => Family(t) \subseteq S
<1> DEFINE n == Cardinality(Made)
           up == CHOOSE f : IsUp(f, t, n)
<1>1. IsFiniteSet(Made) /\ n \in Nat
  <2>1. IsFiniteSet(Made)
    BY FS_Subset DEF ConstantsAssumption, Made
  <2> QED BY <2>1, FS_CardinalityType
<1>2. IsUp(up, t, n)
  BY <1>1, UpExists
<1> HIDE DEF n
<1>3. up[0] = {t} /\ \A k \in 1 .. n : up[k] = Near(up[k - 1])
  <2> HIDE DEF up
  <2>1. ASSUME NEW k \in 0 .. n PROVE up[k] = IF k = 0 THEN {t} ELSE Near(up[k - 1])
    BY <1>2 DEF IsUp
  <2>2. 0 \in 0 .. n /\ \A k \in 1 .. n : k \in 0 .. n /\ k # 0
    BY <1>1
  <2> QED BY <2>1, <2>2
<1>4. Ancestors(t) = up[n] \ {t}
  BY DEF Ancestors, IsUp, Near, Made, n
<1> HIDE DEF up
\* Each set is closed or larger than the one before.
<1> DEFINE Good == {k \in 0 .. n :
                      /\ up[k] \subseteq Made /\ t \in up[k]
                      /\ Closed(up[k]) \/ Cardinality(up[k]) > k}
<1>5. 0 .. n \subseteq Good
  <2>1. 0 \in Good
    <3>1. Cardinality({t}) = 1
      BY FS_Singleton
    <3> QED BY <1>1, <1>3, <3>1
  <2>2. ASSUME NEW k \in 0 .. n, k \in Good, k # n PROVE k + 1 \in Good
    <3> DEFINE new == up[k + 1]
    <3>1. k + 1 \in 1 .. n /\ new = Near(up[k])
      <4>1. k + 1 \in 1 .. n /\ (k + 1) - 1 = k
        BY <1>1, <2>2
      <4> QED BY <1>3, <4>1
    <3>2. up[k] \subseteq Made /\ t \in up[k]
      BY <2>2
    <3>3. up[k] \subseteq new /\ new \subseteq Made
      BY <3>1, <3>2 DEF Near
    <3>4. IsFiniteSet(new) /\ IsFiniteSet(up[k])
      BY <1>1, <3>2, <3>3, FS_Subset
    <3>5. CASE Closed(up[k])
      <4>1. new = up[k]
        BY <3>1, <3>5 DEF Near, Closed
      <4> QED BY <3>1, <3>2, <3>5, <4>1
    <3>6. CASE ~Closed(up[k])
      <4>1. up[k] # new
        BY <3>1, <3>6 DEF Near, Closed
      <4>2. Cardinality(up[k]) < Cardinality(new)
        <5>1. /\ Cardinality(up[k]) <= Cardinality(new)
              /\ Cardinality(up[k]) # Cardinality(new)
          <6> HIDE DEF new
          <6> QED BY <3>3, <3>4, <4>1, FS_Subset
        <5>2. Cardinality(up[k]) \in Nat /\ Cardinality(new) \in Nat
          BY <3>4, FS_CardinalityType
        <5> QED BY <5>1, <5>2
      <4>3. Cardinality(up[k]) > k /\ Cardinality(up[k]) \in Nat /\ Cardinality(new) \in Nat
        BY <2>2, <3>4, <3>6, FS_CardinalityType
      <4>4. Cardinality(new) > k + 1
        <5> HIDE DEF new
        <5> QED BY <4>2, <4>3
      <4> QED BY <3>1, <3>2, <3>3, <4>4
    <3> QED BY <3>5, <3>6
  <2> HIDE DEF Good
  <2> QED BY <1>1, <2>1, <2>2, CountUp
<1>6. up[n] \subseteq Made /\ t \in up[n] /\ Closed(up[n])
  <2>1. n \in Good
    <3> HIDE DEF Good
    <3> QED BY <1>1, <1>5
  <2>2. Cardinality(up[n]) <= n
    <3>1. Cardinality(up[n]) <= Cardinality(Made)
      BY <1>1, <2>1, FS_Subset
    <3> QED BY <3>1 DEF n
  <2>3. Cardinality(up[n]) \in Nat
    BY <1>1, <2>1, FS_Subset, FS_CardinalityType
  <2> QED BY <1>1, <2>1, <2>2, <2>3
<1>7. Family(t) = up[n]
  BY <1>4, <1>6 DEF Family
<1>8. ASSUME NEW S, t \in S, Closed(S) PROVE up[n] \subseteq S
  <2> DEFINE In == {k \in 0 .. n : up[k] \subseteq S}
  <2>1. 0 \in In
    BY <1>1, <1>3, <1>8
  <2>2. ASSUME NEW k \in 0 .. n, k \in In, k # n PROVE k + 1 \in In
    <3>1. k + 1 \in 1 .. n /\ (k + 1) - 1 = k
      BY <1>1, <2>2
    <3>2. up[k + 1] = Near(up[k])
      BY <1>3, <3>1
    <3>3. up[k + 1] \subseteq S
      BY <1>8, <2>2, <3>2 DEF Near, Closed
    <3> QED BY <3>1, <3>3
  <2>3. 0 .. n \subseteq In
    <3> HIDE DEF In
    <3> QED BY <1>1, <2>1, <2>2, CountUp
  <2>4. n \in In
    <3> HIDE DEF In
    <3> QED BY <1>1, <2>3
  <2> QED BY <2>4
<1> QED BY <1>6, <1>7, <1>8
-----------------------------------------------------------------------------
(* The context of a Task and those of the Tasks above it.                  *)

\* The way to a Task and the full name of its root, also if its row has no context.
Way(t) == IF tasks[t].ctx = None THEN <<Home[t]>> ELSE tasks[t].ctx.visited
RootName(t) == IF tasks[t].ctx = None THEN <<Home[t], tasks[t].root>> ELSE tasks[t].ctx.root
Rank(t) == tasks[t].depth + Len(Way(t))

Prefix(v, w) == Len(v) <= Len(w) /\ \A k \in 1 .. Len(v) : w[k] = v[k]

\* What is so of a Task and of one it descends from.
Descends(t, a) ==
  /\ RootName(t) = RootName(a) /\ Prefix(Way(a), Way(t))
  /\ tasks[a].ctx # None =>
       /\ tasks[t].ctx # None
       /\ tasks[t].ctx.maxTasks <= tasks[a].ctx.maxTasks
       /\ tasks[t].ctx.maxDepth <= tasks[a].ctx.maxDepth

\* What is so of every Task: its way and numbers, and where the row of its parent puts it.
RowsPlaced ==
  /\ \A t \in Made :
       /\ tasks[t].depth \in Nat /\ Way(t) \in Seq(Nodes) /\ Len(Way(t)) > 0
       /\ Way(t)[Len(Way(t))] = Home[t]
       /\ \A k, l \in 1 .. Len(Way(t)) : Way(t)[k] = Way(t)[l] => k = l
       /\ tasks[t].ctx # None => /\ tasks[t].ctx.maxTasks \in Nat /\ tasks[t].ctx.maxDepth \in Nat
                                 /\ tasks[t].depth <= tasks[t].ctx.maxDepth
       /\ tasks[t].from = None => tasks[t].depth = 1
  /\ \A t \in Made : tasks[t].from # None =>
       LET f == tasks[t].from IN
       /\ f \in Made /\ Descends(t, f)
       /\ IF Home[f] = Home[t]
          THEN tasks[t].depth = tasks[f].depth + 1 /\ Len(Way(t)) = Len(Way(f))
          ELSE tasks[t].depth = tasks[f].depth /\ Len(Way(t)) = Len(Way(f)) + 1

LEMMA RowsArePlaced ==
  ASSUME ConstantsAssumption, TypeOK, RowsFit
  PROVE  RowsPlaced
<1>1. ASSUME NEW t \in Made
      PROVE  /\ tasks[t] \in Row /\ RowFits(t) /\ t \in Ids /\ tasks[t] # None /\ Home[t] \in Nodes
             /\ tasks[t].ctx # None => tasks[t].ctx \in Context
             /\ tasks[t].ctx = None => t \in Legacy /\ tasks[t] = OldRow(t)
             /\ tasks[t].ctx # None => t \notin Legacy
  <2>1. tasks[t] \in Row /\ RowFits(t) /\ t \in Ids /\ tasks[t] # None /\ Home[t] \in Nodes
    BY DEF Made, TypeOK, RowsFit, ConstantsAssumption
  <2> QED BY <2>1 DEF RowFits, OldRow, Row
<1>2. ASSUME NEW t \in Made, tasks[t].ctx = None
      PROVE  /\ tasks[t].depth = 1 /\ tasks[t].from = None /\ tasks[t].root = t
             /\ Way(t) = <<Home[t]>> /\ RootName(t) = <<Home[t], t>>
  <2>1. tasks[t] = OldRow(t)
    BY <1>1, <1>2
  <2> QED BY <1>2, <2>1 DEF OldRow, Way, RootName
<1>3. ASSUME NEW t \in Made, tasks[t].ctx # None
      PROVE  /\ Way(t) = tasks[t].ctx.visited /\ RootName(t) = tasks[t].ctx.root
             /\ tasks[t].depth = tasks[t].ctx.depth /\ tasks[t].depth <= tasks[t].ctx.maxDepth
             /\ Placed(tasks, t, tasks[t].from, tasks[t].root, tasks[t].ctx)
             /\ RightWay(t, tasks[t].root, tasks[t].ctx)
             /\ tasks[t].ctx \in Context
  BY <1>1, <1>3 DEF RowFits, Way, RootName
<1>4. ASSUME NEW t \in Made
      PROVE  /\ tasks[t].depth \in Nat /\ Way(t) \in Seq(Nodes) /\ Len(Way(t)) > 0
             /\ Way(t)[Len(Way(t))] = Home[t]
             /\ \A k, l \in 1 .. Len(Way(t)) : Way(t)[k] = Way(t)[l] => k = l
             /\ tasks[t].ctx # None => /\ tasks[t].ctx.maxTasks \in Nat /\ tasks[t].ctx.maxDepth \in Nat
                                       /\ tasks[t].depth <= tasks[t].ctx.maxDepth
             /\ tasks[t].from = None => tasks[t].depth = 1
  <2>1. CASE tasks[t].ctx = None
    <3> DEFINE v == <<Home[t]>>
    <3>1. Way(t) = v /\ tasks[t].depth = 1
      BY <1>2, <2>1
    <3>2. v \in Seq(Nodes) /\ Len(v) = 1 /\ v[1] = Home[t]
      BY <1>1
    <3>3. \A k, l \in 1 .. Len(v) : k = l
      <4> HIDE DEF v
      <4> QED BY <3>2
    <3> HIDE DEF v
    <3> QED BY <2>1, <3>1, <3>2, <3>3
  <2>2. CASE tasks[t].ctx # None
    <3> DEFINE c == tasks[t].ctx
    <3>1. c \in Context /\ Way(t) = c.visited /\ tasks[t].depth = c.depth /\ tasks[t].depth <= c.maxDepth
      BY <1>3, <2>2
    <3>2. /\ Len(c.visited) > 0 /\ c.visited[Len(c.visited)] = Home[t]
          /\ \A k, l \in 1 .. Len(c.visited) : c.visited[k] = c.visited[l] => k = l
      BY <1>3, <2>2 DEF RightWay
    <3>3. tasks[t].from = None => c.depth = 1
      BY <1>3, <2>2 DEF Placed, RootPlace
    <3>4. c.depth \in Nat /\ c.maxTasks \in Nat /\ c.maxDepth \in Nat /\ c.visited \in Seq(Nodes)
      <4> HIDE DEF c
      <4> QED BY <3>1 DEF Context
    <3> QED BY <3>1, <3>2, <3>3, <3>4
  <2> QED BY <2>1, <2>2
<1>5. ASSUME NEW t \in Made, tasks[t].from # None
      PROVE  LET f == tasks[t].from IN
             /\ f \in Made /\ Descends(t, f)
             /\ IF Home[f] = Home[t]
                THEN tasks[t].depth = tasks[f].depth + 1 /\ Len(Way(t)) = Len(Way(f))
                ELSE tasks[t].depth = tasks[f].depth /\ Len(Way(t)) = Len(Way(f)) + 1
  <2> DEFINE f == tasks[t].from
  <2>1. tasks[t].ctx # None
    BY <1>2, <1>5
  <2>2. f \in Made
    <3>1. f \in Ids \cup {None} /\ tasks[f] # None
      BY <1>1, <1>3, <1>5, <2>1 DEF Placed, Row
    <3> QED BY <1>5, <3>1 DEF Made
  <2>3. /\ Way(t) = tasks[t].ctx.visited /\ RootName(t) = tasks[t].ctx.root
        /\ tasks[t].depth = tasks[t].ctx.depth /\ tasks[t].ctx \in Context
        /\ Placed(tasks, t, f, tasks[t].root, tasks[t].ctx)
    BY <1>3, <2>1
  <2>4. /\ tasks[f].ctx # None =>
             /\ Way(f) = tasks[f].ctx.visited /\ RootName(f) = tasks[f].ctx.root
             /\ tasks[f].depth = tasks[f].ctx.depth /\ tasks[f].ctx \in Context
        /\ tasks[f].ctx = None => Way(f) = <<Home[f]>> /\ RootName(f) = <<Home[f], tasks[f].root>>
    BY <1>3, <2>2 DEF Way, RootName
  <2>5. Way(f) \in Seq(Nodes) /\ tasks[f].depth \in Nat
    BY <1>4, <2>2
  <2>6. CASE Home[f] = Home[t]
    <3>1. ChildPlace(tasks, t, f, tasks[t].root, tasks[t].ctx)
      BY <1>5, <2>3, <2>6 DEF Placed
    <3>2. Way(t) = Way(f) /\ RootName(t) = RootName(f) /\ tasks[t].depth = tasks[f].depth + 1
      BY <2>3, <2>4, <2>6, <3>1 DEF ChildPlace
    <3>3. tasks[f].ctx # None => tasks[t].ctx.maxTasks = tasks[f].ctx.maxTasks
                                 /\ tasks[t].ctx.maxDepth = tasks[f].ctx.maxDepth
      BY <3>1 DEF ChildPlace
    <3>4. tasks[f].ctx # None => tasks[f].ctx.maxTasks \in Nat /\ tasks[f].ctx.maxDepth \in Nat
      BY <2>4 DEF Context
    <3>5. Prefix(Way(f), Way(t)) /\ Len(Way(t)) = Len(Way(f))
      BY <2>5, <3>2 DEF Prefix
    <3> QED BY <2>1, <2>2, <2>6, <3>2, <3>3, <3>4, <3>5 DEF Descends
  <2>7. CASE Home[f] # Home[t]
    <3>1. GuestPlace(tasks, t, f, tasks[t].root, tasks[t].ctx)
      BY <1>5, <2>3, <2>7 DEF Placed
    <3>2. Way(t) = Append(Way(f), Home[t]) /\ RootName(t) = RootName(f) /\ tasks[t].depth = tasks[f].depth
      BY <2>3, <2>4, <3>1 DEF GuestPlace
    <3>3. tasks[t].ctx.maxTasks <= tasks[f].ctx.maxTasks /\ tasks[t].ctx.maxDepth <= tasks[f].ctx.maxDepth
      BY <3>1 DEF GuestPlace
    <3>4. Prefix(Way(f), Way(t)) /\ Len(Way(t)) = Len(Way(f)) + 1
      <4> DEFINE v == Way(f)
      <4>1. v \in Seq(Nodes) /\ Way(t) = Append(v, Home[t])
        BY <2>5, <3>2
      <4> HIDE DEF v
      <4>2. Prefix(v, Append(v, Home[t])) /\ Len(Append(v, Home[t])) = Len(v) + 1
        BY <4>1 DEF Prefix
      <4> QED BY <4>1, <4>2 DEF v
    <3> QED BY <2>1, <2>2, <2>7, <3>2, <3>3, <3>4 DEF Descends
  <2> QED BY <2>6, <2>7
<1> QED BY <1>4, <1>5 DEF RowsPlaced

\* A Task descends from all of its family, and they are above it.
LEMMA FamilyDescends ==
  ASSUME ConstantsAssumption, RowsPlaced, NEW t \in Made, NEW a \in Family(t)
  PROVE  /\ a \in Made /\ Descends(t, a) /\ Family(a) \subseteq Family(t)
         /\ a # t => Rank(a) < Rank(t)
<1>1. /\ Family(t) \subseteq Made /\ Closed(Family(t))
      /\ \A S : t \in S /\ Closed(S) => Family(t) \subseteq S
  BY FamilyIsLeast DEF RowsPlaced
<1> DEFINE S == {s \in Made : Descends(t, s) /\ (s # t => Rank(s) < Rank(t))}
<1>2. \A s \in Made : Rank(s) \in Nat
  BY DEF RowsPlaced, Rank
<1>3. t \in S
  <2>1. Descends(t, t)
    BY DEF RowsPlaced, Descends, Prefix
  <2> QED BY <2>1
<1>4. ASSUME NEW s \in S, tasks[s].from # None PROVE tasks[s].from \in S
  <2> DEFINE f == tasks[s].from
  <2>1. s \in Made /\ Descends(t, s) /\ (s # t => Rank(s) < Rank(t))
    OBVIOUS
  <2>2. f \in Made /\ Descends(s, f)
    BY <1>4, <2>1 DEF RowsPlaced
  <2>3. Rank(f) < Rank(s)
    <3>1. /\ tasks[f].depth \in Nat /\ Len(Way(f)) \in Nat
          /\ tasks[s].depth \in Nat /\ Len(Way(s)) \in Nat
      BY <2>1, <2>2 DEF RowsPlaced
    <3>2. IF Home[f] = Home[s]
          THEN tasks[s].depth = tasks[f].depth + 1 /\ Len(Way(s)) = Len(Way(f))
          ELSE tasks[s].depth = tasks[f].depth /\ Len(Way(s)) = Len(Way(f)) + 1
      BY <1>4, <2>1 DEF RowsPlaced
    <3> HIDE DEF f
    <3> QED BY <3>1, <3>2 DEF Rank
  <2>4. Rank(f) < Rank(t)
    <3>1. Rank(f) \in Nat /\ Rank(s) \in Nat /\ Rank(t) \in Nat
      BY <1>2, <2>1, <2>2
    <3>2. s = t \/ Rank(s) < Rank(t)
      BY <2>1
    <3> HIDE DEF f
    <3> QED BY <2>3, <3>1, <3>2
  <2>5. Prefix(Way(f), Way(t))
    <3>1. Len(Way(f)) \in Nat /\ Len(Way(s)) \in Nat /\ Len(Way(t)) \in Nat
      BY <2>1, <2>2 DEF RowsPlaced
    <3> HIDE DEF f
    <3> QED BY <2>1, <2>2, <3>1 DEF Descends, Prefix
  <2>6. Descends(t, f)
    <3>1. \A x \in {f, s, t} : tasks[x].ctx # None =>
             tasks[x].ctx.maxTasks \in Nat /\ tasks[x].ctx.maxDepth \in Nat
      BY <2>1, <2>2 DEF RowsPlaced
    <3> HIDE DEF f
    <3> QED BY <2>1, <2>2, <2>5, <3>1 DEF Descends
  <2> QED BY <2>2, <2>4, <2>6
<1>5. a \in S
  <2>1. Closed(S)
    BY <1>4 DEF Closed
  <2> HIDE DEF S
  <2> QED BY <1>1, <1>3, <2>1
<1>6. Family(a) \subseteq Family(t)
  <2>1. \A U : a \in U /\ Closed(U) => Family(a) \subseteq U
    BY <1>5, FamilyIsLeast DEF RowsPlaced
  <2> QED BY <1>1, <2>1
<1> QED BY <1>5, <1>6
-----------------------------------------------------------------------------
(* That a tree keeps its limits.                                           *)

\* Nobody on the way to a Task is elsewhere below one at the Task's own Gateway.
LEMMA NeverReentered ==
  ASSUME ConstantsAssumption, RowsPlaced
  PROVE  NeverReenters
<1>1. SUFFICES ASSUME NEW t \in Made, NEW a \in Ancestors(t), NEW b \in Ancestors(a),
                      Home[a] # Home[t], Home[b] = Home[t]
               PROVE  FALSE
  BY DEF NeverReenters, Made
<1>2. a \in Made /\ Descends(t, a)
  BY FamilyDescends DEF Family
<1>3. b \in Made /\ Descends(a, b)
  BY <1>2, FamilyDescends DEF Family
<1> DEFINE x == Len(Way(t))
           y == Len(Way(a))
           z == Len(Way(b))
<1>4. /\ x \in Nat /\ y \in Nat /\ z \in Nat /\ 0 < z
      /\ Way(t)[x] = Home[t] /\ Way(a)[y] = Home[a] /\ Way(b)[z] = Home[b]
      /\ \A k, l \in 1 .. x : Way(t)[k] = Way(t)[l] => k = l
  BY <1>2, <1>3 DEF RowsPlaced
<1>5. /\ y <= x /\ \A k \in 1 .. y : Way(t)[k] = Way(a)[k]
      /\ z <= y /\ \A k \in 1 .. z : Way(a)[k] = Way(b)[k]
  BY <1>2, <1>3 DEF Descends, Prefix
<1> HIDE DEF x, y, z
<1>6. Way(t)[y] = Home[a] /\ Way(t)[z] = Home[b]
  BY <1>4, <1>5
<1>7. z = x
  BY <1>1, <1>4, <1>5, <1>6
<1>8. y = x
  BY <1>4, <1>5, <1>7
<1> QED BY <1>1, <1>4, <1>6, <1>8

\* Those of a tree that are in one database are known by the same root there.
LEMMA TreeIsOne ==
  ASSUME ConstantsAssumption, TypeOK, RowsFit, RowsPlaced
  PROVE  OneTree
<1>1. SUFFICES ASSUME NEW t \in Made, NEW a \in Ancestors(t), Contexts(a)
               PROVE  /\ tasks[t].ctx.root = tasks[a].ctx.root
                      /\ tasks[t].ctx.maxTasks <= tasks[a].ctx.maxTasks
                      /\ \A s \in Ids :
                           (Contexts(s) /\ Home[s] = Home[t] /\ tasks[s].ctx.root = tasks[a].ctx.root)
                             => tasks[s].root = tasks[t].root
  BY DEF OneTree, Made
<1>2. Descends(t, a) /\ tasks[a].ctx # None
  BY <1>1, FamilyDescends DEF Family, Contexts
<1>3. tasks[t].ctx # None /\ tasks[t].ctx.root = tasks[a].ctx.root
  BY <1>2 DEF Descends, RootName
<1>4. ASSUME NEW s \in Made, tasks[s].ctx # None
      PROVE  LET name == tasks[s].ctx.root IN
             tasks[s].root = IF Home[s] = name[1] THEN name[2] ELSE name
  <2>1. RowFits(s)
    BY DEF RowsFit, Made
  <2>2. RightWay(s, tasks[s].root, tasks[s].ctx)
    BY <1>4, <2>1 DEF RowFits, OldRow, Made
  <2> QED BY <2>2 DEF RightWay
<1>5. ASSUME NEW s \in Ids, Contexts(s), Home[s] = Home[t], tasks[s].ctx.root = tasks[a].ctx.root
      PROVE  tasks[s].root = tasks[t].root
  <2>1. s \in Made /\ tasks[s].ctx # None
    BY <1>5 DEF Contexts, Made
  <2> QED BY <1>3, <1>4, <1>5, <2>1
<1>6. tasks[t].ctx.maxTasks <= tasks[a].ctx.maxTasks
  BY <1>2 DEF Descends
<1> QED BY <1>3, <1>5, <1>6

\* The family of a Task is the Task and the family of the one that asked for it.
LEMMA FamilyOfChild ==
  ASSUME ConstantsAssumption, RowsPlaced, NEW t \in Made
  PROVE  /\ tasks[t].from = None => Family(t) = {t}
         /\ tasks[t].from # None => /\ Family(t) = Family(tasks[t].from) \cup {t}
                                    /\ t \notin Family(tasks[t].from)
<1> DEFINE f == tasks[t].from
<1>1. /\ Family(t) \subseteq Made /\ Closed(Family(t)) /\ t \in Family(t)
      /\ \A S : t \in S /\ Closed(S) => Family(t) \subseteq S
  BY FamilyIsLeast DEF RowsPlaced, Family
<1>2. CASE f = None
  <2>1. Closed({t})
    BY <1>2 DEF Closed
  <2> QED BY <1>1, <1>2, <2>1
<1>3. CASE f # None
  <2>1. f \in Made
    BY <1>3 DEF RowsPlaced
  <2>2. /\ Closed(Family(f)) /\ f \in Family(f)
        /\ \A S : f \in S /\ Closed(S) => Family(f) \subseteq S
    BY <2>1, FamilyIsLeast DEF RowsPlaced, Family
  <2>3. f \in Family(t)
    BY <1>1, <1>3 DEF Closed
  <2>4. Family(f) \subseteq Family(t)
    BY <1>1, <2>2, <2>3
  <2>5. Closed(Family(f) \cup {t})
    BY <2>2 DEF Closed
  <2>6. Family(t) \subseteq Family(f) \cup {t}
    BY <1>1, <2>5
  <2>7. t \notin Family(f)
    <3>1. SUFFICES ASSUME t \in Family(f) PROVE FALSE
      OBVIOUS
    <3>2. /\ tasks[f].depth \in Nat /\ Len(Way(f)) \in Nat
          /\ tasks[t].depth \in Nat /\ Len(Way(t)) \in Nat
      BY <2>1 DEF RowsPlaced
    <3>3. IF Home[f] = Home[t]
          THEN tasks[t].depth = tasks[f].depth + 1 /\ Len(Way(t)) = Len(Way(f))
          ELSE tasks[t].depth = tasks[f].depth /\ Len(Way(t)) = Len(Way(f)) + 1
      BY <1>3 DEF RowsPlaced
    <3>4. f # t => Rank(t) < Rank(f)
      BY <2>1, <3>1, FamilyDescends
    <3> HIDE DEF f
    <3> QED BY <3>2, <3>3, <3>4 DEF Rank
  <2> QED BY <1>1, <1>3, <2>4, <2>6, <2>7
<1> QED BY <1>2, <1>3

\* The Tasks of a chain that have their parent in their own database.
Counted(t) == {s \in Family(t) : tasks[s].from # None /\ Home[tasks[s].from] = Home[s]}

\* A Task is as deep as its distance from the root.
LEMMA DepthIsDistance ==
  ASSUME ConstantsAssumption, RowsPlaced, NEW t \in Made
  PROVE  tasks[t].depth = 1 + ParentsAbove(t)
<1>0. \A s \in Made : ParentsAbove(s) = Cardinality(Counted(s))
  BY DEF ParentsAbove, Counted, Family
<1>1. \A s \in Made : IsFiniteSet(Counted(s)) /\ Cardinality(Counted(s)) \in Nat
  <2>1. ASSUME NEW s \in Made PROVE IsFiniteSet(Counted(s))
    <3>1. Counted(s) \subseteq Ids
      BY FamilyIsLeast DEF RowsPlaced, Counted, Made
    <3> QED BY <3>1, FS_Subset DEF ConstantsAssumption
  <2> QED BY <2>1, FS_CardinalityType
<1> DEFINE Bad == {s \in Made : tasks[s].depth # 1 + Cardinality(Counted(s))}
           Ranks == {Rank(s) : s \in Bad}
<1>2. SUFFICES ASSUME Bad # {} PROVE FALSE
  BY <1>0
<1>3. \A s \in Made : Rank(s) \in Nat
  BY DEF RowsPlaced, Rank
<1>4. PICK m \in Ranks : \A n \in Ranks : m <= n
  <2>1. Ranks \in SUBSET Nat /\ Ranks # {}
    BY <1>2, <1>3
  <2> HIDE DEF Ranks
  <2> QED BY <2>1, LeastNumber
<1>5. PICK s \in Bad : Rank(s) = m
  BY <1>4
<1>6. \A r \in Bad : Rank(s) <= Rank(r)
  BY <1>4, <1>5
<1> DEFINE f == tasks[s].from
<1>7. CASE f = None
  <2>1. Counted(s) = {}
    BY <1>5, <1>7, FamilyOfChild DEF Counted
  <2>2. tasks[s].depth = 1
    BY <1>5, <1>7 DEF RowsPlaced
  <2> QED BY <1>5, <2>1, <2>2, FS_EmptySet
<1>8. CASE f # None
  <2>1. /\ s \in Made /\ f \in Made /\ Family(s) = Family(f) \cup {s} /\ s \notin Family(f)
    BY <1>5, <1>8, FamilyOfChild DEF RowsPlaced
  <2>2. IF Home[f] = Home[s]
        THEN tasks[s].depth = tasks[f].depth + 1 /\ Len(Way(s)) = Len(Way(f))
        ELSE tasks[s].depth = tasks[f].depth /\ Len(Way(s)) = Len(Way(f)) + 1
    BY <1>8, <2>1 DEF RowsPlaced
  <2>3. /\ tasks[f].depth \in Nat /\ Len(Way(f)) \in Nat
        /\ tasks[s].depth \in Nat /\ Len(Way(s)) \in Nat
    BY <2>1 DEF RowsPlaced
  <2>4. Rank(f) < Rank(s)
    <3> HIDE DEF f
    <3> QED BY <2>2, <2>3 DEF Rank
  <2>5. f \notin Bad
    <3>1. Rank(f) \in Nat /\ Rank(s) \in Nat
      BY <1>3, <2>1
    <3> HIDE DEF f, Bad
    <3> QED BY <1>6, <2>4, <3>1
  <2>6. tasks[f].depth = 1 + Cardinality(Counted(f))
    BY <2>1, <2>5
  <2>7. CASE Home[f] = Home[s]
    <3>1. Counted(s) = Counted(f) \cup {s} /\ s \notin Counted(f)
      BY <1>8, <2>1, <2>7 DEF Counted
    <3>2. Cardinality(Counted(s)) = Cardinality(Counted(f)) + 1
      BY <1>1, <2>1, <3>1, FS_AddElement
    <3>3. Cardinality(Counted(f)) \in Nat
      BY <1>1, <2>1
    <3> QED BY <1>5, <2>2, <2>6, <2>7, <3>2, <3>3
  <2>8. CASE Home[f] # Home[s]
    <3>1. Counted(s) = Counted(f)
      BY <1>8, <2>1, <2>8 DEF Counted
    <3> QED BY <1>5, <2>2, <2>6, <2>8, <3>1
  <2> QED BY <2>7, <2>8
<1> QED BY <1>7, <1>8

LEMMA NeverDeep ==
  ASSUME ConstantsAssumption, RowsPlaced
  PROVE  NeverTooDeep
<1>1. ASSUME NEW t \in Made, NEW a \in Ancestors(t) \cup {t}, Contexts(a)
      PROVE  tasks[t].depth <= tasks[a].ctx.maxDepth
  <2>1. a \in Made /\ Descends(t, a) /\ tasks[a].ctx # None
    BY <1>1, FamilyDescends DEF Family, Contexts
  <2>2. tasks[t].ctx # None /\ tasks[t].ctx.maxDepth <= tasks[a].ctx.maxDepth
    BY <2>1 DEF Descends
  <2>3. /\ tasks[t].depth \in Nat /\ tasks[t].ctx.maxDepth \in Nat /\ tasks[a].ctx.maxDepth \in Nat
        /\ tasks[t].depth <= tasks[t].ctx.maxDepth
    BY <2>1, <2>2 DEF RowsPlaced
  <2> QED BY <2>2, <2>3
<1> QED BY <1>1, DepthIsDistance DEF NeverTooDeep, Made

\* A proxy has one Task at the far Gateway, since it gave rise to one request.
LEMMA FarTaskIsOne ==
  ASSUME ConstantsAssumption, TypeOK, RequestsNamed, RowsFit, AskedOnces
  PROVE  OneFarTask
<1>1. SUFFICES ASSUME NEW t \in Ids, NEW u \in Ids, tasks[t] # None, tasks[u] # None,
                      tasks[t].from = tasks[u].from, tasks[t].from # None,
                      Home[t] = Home[u], Home[t] # Home[tasks[t].from]
               PROVE  t = u
  BY DEF OneFarTask
<1> DEFINE f == tasks[t].from
<1>2. ASSUME NEW s \in {t, u} PROVE asked[s] \in GivenTo(f) /\ asked[s].id = s
  <2>1. tasks[s].from = f /\ f # None /\ tasks[s] # None /\ s \in Ids /\ Home[f] # Home[s]
    BY <1>1
  <2>2. RowFits(s)
    BY <2>1 DEF RowsFit
  <2>3. s \notin Legacy
    BY <2>1, <2>2 DEF RowFits, OldRow
  <2>4. asked[s] # None /\ asked[s].from = f
    BY <2>1, <2>2, <2>3 DEF RowFits
  <2>5. asked[s] \in Wanted /\ asked[s].id = s
    BY <2>1, <2>4 DEF TypeOK, RequestsNamed
  <2> HIDE DEF f
  <2> QED BY <2>1, <2>4, <2>5 DEF GivenTo, ToAnotherNode
<1>3. f \in Ids
  <2>1. tasks[t] \in Row
    BY <1>1 DEF TypeOK
  <2> QED BY <1>1, <2>1 DEF Row
<1>4. asked[t] = asked[u]
  <2>1. AskedOnce(f)
    BY <1>3 DEF AskedOnces
  <2> HIDE DEF f
  <2> QED BY <1>2, <2>1 DEF AskedOnce
<1> QED BY <1>2, <1>4

LEMMA InvKeepsLimits ==
  ASSUME ConstantsAssumption, TreeInv
  PROVE  WithinLimits
<1>1. RowsPlaced
  BY RowsArePlaced DEF TreeInv
<1>2. ToldItsTask
  BY DEF TreeInv, CallsFit, CallFits, ToldItsTask
<1> QED BY <1>1, <1>2, NeverReentered, TreeIsOne, NeverDeep, FarTaskIsOne DEF TreeInv, WithinLimits

\* Whatever is asked, sent, lost, tried again or restarted, and with whatever settings, a
\* tree keeps the budget, the depth and the way of its context over all Gateways, a call
\* is told of the Task it asked for, and a proxy has one Task at the far Gateway.
THEOREM TreeKeepsItsLimits == ConstantsAssumption => (Spec => []WithinLimits)
<1> SUFFICES ASSUME ConstantsAssumption PROVE Spec => []WithinLimits
  OBVIOUS
<1>1. TreeInv => WithinLimits
  BY InvKeepsLimits
<1> QED BY <1>1, TreeIsWellPlaced, PTL

-----------------------------------------------------------------------------
(* The login that several processes share.                                 *)

\* The tokens a file stands for are tokens it holds.
LEMMA ChosenIsHeld ==
  ASSUME NEW T, NoTokens \in T, NEW f \in [known : BOOLEAN, state : T, top : T,
           pool : [1..PoolSize -> [tok : T, device : BOOLEAN, cooling : BOOLEAN]]]
  PROVE  Chosen(f) \in T
<1> DEFINE usable == {e \in 1..PoolSize : f.pool[e].tok.access # 0 /\ ~f.pool[e].cooling}
<1>1. PoolTokens(f) \in T
  <2>1. CASE usable = {}
    BY <2>1 DEF PoolTokens
  <2>2. CASE usable # {}
    <3>1. \E e \in usable : \A d \in usable : e <= d
      <4>1. usable \in SUBSET Nat
        OBVIOUS
      <4> HIDE DEF usable
      <4> QED BY <2>2, <4>1, LeastNumber
    <3> DEFINE first == CHOOSE e \in usable : \A d \in usable : e <= d
    <3>2. first \in usable
      <4> HIDE DEF usable
      <4> QED BY <3>1
    <3>3. PoolTokens(f) = f.pool[first].tok
      BY <2>2 DEF PoolTokens
    <3>4. first \in 1..PoolSize
      BY <3>2
    <3> HIDE DEF first, usable
    <3> QED BY <3>3, <3>4
  <2> QED BY <2>1, <2>2
<1> QED BY <1>1 DEF Chosen

\* Once tokens are saved, the file stands for them, whatever it was copied from.
LEMMA SavedIsChosen ==
  ASSUME NEW f \in Content, NEW tok \in Token, tok.access # 0, tok.refresh # 0
  PROVE  Saved(f, tok) \in Content /\ Chosen(Saved(f, tok)) = tok
<1> DEFINE s == [access |-> tok.access, refresh |-> IF tok.refresh # 0 THEN tok.refresh ELSE f.state.refresh]
           q == Synced(f.pool, tok)
           f1 == [f EXCEPT !.known = TRUE]
           f2 == [f1 EXCEPT !.state = s]
<1>1. s = tok
  BY DEF Token
<1>2. q \in [1..PoolSize -> Entry]
  <2>1. ASSUME NEW e \in 1..PoolSize PROVE q[e] \in Entry
    <3> DEFINE old == f.pool[e]
               new == [access |-> tok.access, refresh |-> IF tok.refresh # 0 THEN tok.refresh ELSE old.tok.refresh]
               o1 == [old EXCEPT !.tok = new]
    <3>1. old \in Entry
      BY DEF Content
    <3>2. new = tok
      BY DEF Token
    <3>3. o1 \in Entry /\ [o1 EXCEPT !.cooling = FALSE] \in Entry
      <4> HIDE DEF old, new
      <4> QED BY <3>1, <3>2 DEF Entry
    <3>4. q[e] = IF ~old.device THEN old ELSE [old EXCEPT !.tok = new, !.cooling = FALSE]
      BY DEF Synced
    <3>5. [old EXCEPT !.tok = new, !.cooling = FALSE] = [o1 EXCEPT !.cooling = FALSE]
      <4> HIDE DEF old, new
      <4> QED BY <3>1 DEF Entry
    <3> HIDE DEF old, new, o1, q
    <3> QED BY <3>1, <3>3, <3>4, <3>5
  <2>2. q = [e \in 1..PoolSize |-> q[e]]
    BY DEF Synced
  <2> HIDE DEF q
  <2> QED BY <2>1, <2>2
<1>3. Saved(f, tok) = [f EXCEPT !.known = TRUE, !.state = s, !.pool = q]
  BY DEF Saved
<1> HIDE DEF s, q
<1>4. f1 \in Content /\ f1.known = TRUE
  BY DEF Content
<1>5. f2 \in Content /\ f2.known = TRUE /\ f2.state = tok
  <2> HIDE DEF f1
  <2> QED BY <1>1, <1>4 DEF Content
<1>6. Saved(f, tok) = [f2 EXCEPT !.pool = q]
  BY <1>3 DEF Content
<1>7. Saved(f, tok) \in Content /\ Saved(f, tok).known = TRUE /\ Saved(f, tok).state = tok
  <2> HIDE DEF f2
  <2> QED BY <1>2, <1>5, <1>6 DEF Content
<1> QED BY <1>7 DEF Chosen

Saves(p) == proc[p].pc \in {"save", "write"}
Working == script.pc \in {"save", "write"}

\* Nobody writes beside another one while no mishap came about.
WritersApart ==
  ~mishap =>
    /\ \A p, q \in Process : proc[p].pc = "write" /\ proc[q].pc = "write" => p = q
    /\ script.pc = "write" => \A p \in Process : proc[p].pc # "write"
    /\ readable \/ script.pc = "write" \/ \E p \in Process : proc[p].pc = "write"

\* New tokens are accepted until they are saved; where they rotate, nobody else has them.
NewTokensHold ==
  /\ \A p \in Process :
       /\ proc[p].tok.refresh <= issued
       /\ Saves(p) => proc[p].tok.access # 0 /\ proc[p].tok.refresh # 0 /\ proc[p].tok.refresh \in accepted
  /\ script.tok.refresh <= issued /\ script.pc # "ask"
  /\ Working => script.tok.access # 0 /\ script.tok.refresh # 0 /\ script.tok.refresh \in accepted
  /\ Chosen(file).refresh <= issued /\ accepted \subseteq 1..issued
  /\ rotates =>
       /\ \A p \in Process : Saves(p) =>
            /\ Chosen(file).refresh # proc[p].tok.refresh
            /\ \A q \in Process \ {p} : proc[q].tok.refresh # proc[p].tok.refresh
       /\ Working =>
            /\ Chosen(file).refresh # script.tok.refresh
            /\ \A p \in Process : proc[p].tok.refresh # script.tok.refresh

\* The tokens in the file are accepted, or somebody is about to save newer ones.
FileHolds ==
  /\ ~rotates => Chosen(file).refresh \in accepted
  /\ ~mishap => Chosen(file).refresh \in accepted \/ \E p \in Process : Saves(p)

\* Until somebody logs in again, the endpoint accepts one token that rotates.
OneAccepted ==
  logins = 0 => script.pc = "idle" /\ (rotates => \A a, b \in accepted : a = b)

AuthInv == AuthTypeOK /\ WritersApart /\ NewTokensHold /\ FileHolds /\ OneAccepted

LEMMA AuthInitHolds ==
  ASSUME AuthAssumption, AuthInit
  PROVE  AuthInv
<1> DEFINE one == [access |-> 1, refresh |-> 1]
           T == {NoTokens, one}
<1>1. T \subseteq Token /\ one.access = 1 /\ one.refresh = 1 /\ NoTokens.access = 0 /\ NoTokens.refresh = 0
  BY DEF AuthAssumption, Token, NoTokens
<1>2. /\ file \in [known : BOOLEAN, state : T, top : T,
                   pool : [1..PoolSize -> [tok : T, device : BOOLEAN, cooling : BOOLEAN]]]
      /\ Chosen(file).access # 0
  BY DEF AuthInit
<1>3. Chosen(file) \in T
  <2> HIDE DEF one
  <2> QED BY <1>2, ChosenIsHeld
<1>4. Chosen(file).refresh = 1
  <2> HIDE DEF one
  <2> QED BY <1>1, <1>2, <1>3
<1>5. file \in Content
  <2> HIDE DEF one
  <2>1. [tok : T, device : BOOLEAN, cooling : BOOLEAN] \subseteq Entry
    BY <1>1 DEF Entry
  <2>2. file.pool \in [1..PoolSize -> Entry]
    BY <1>2, <2>1
  <2> QED BY <1>1, <1>2, <2>2 DEF Content
<1>6. Idle \in Copying /\ Idle.pc = "idle" /\ Idle.tok = NoTokens
  <2>1. [e \in 1..PoolSize |-> [tok |-> NoTokens, device |-> FALSE, cooling |-> FALSE]] \in [1..PoolSize -> Entry]
    BY <1>1 DEF Entry
  <2> QED BY <1>1, <2>1 DEF Idle, Copying, Content
<1>7. /\ readable = TRUE /\ mishap = FALSE /\ rotates \in BOOLEAN
      /\ proc = [p \in Process |-> Idle] /\ script = Idle
      /\ accepted = {1} /\ issued = 1 /\ expiring = {} /\ logins = 0
  BY DEF AuthInit
<1>8. \A p \in Process : proc[p] = Idle
  BY <1>7
<1> HIDE DEF T, one
<1>9. AuthTypeOK
  <2>1. Saving = {}
    BY <1>6, <1>8 DEF Saving
  <2>2. proc \in [Process -> Copying]
    BY <1>6, <1>7
  <2>3. {readable, rotates, mishap} \subseteq BOOLEAN
    BY <1>7
  <2>4. accepted \union expiring \subseteq 1..MaxTokens /\ issued \in 1..MaxTokens /\ logins \in 0..MaxLogins
    BY <1>7 DEF AuthAssumption
  <2> QED BY <1>5, <1>6, <1>7, <2>1, <2>2, <2>3, <2>4 DEF AuthTypeOK
<1>10. WritersApart
  BY <1>6, <1>7, <1>8 DEF WritersApart
<1>11. NewTokensHold
  BY <1>1, <1>4, <1>6, <1>7, <1>8 DEF NewTokensHold, Saves, Working
<1>12. FileHolds
  BY <1>4, <1>7 DEF FileHolds
<1>13. OneAccepted
  BY <1>6, <1>7 DEF OneAccepted
<1> QED BY <1>9, <1>10, <1>11, <1>12, <1>13 DEF AuthInv

\* What a step does to the copy of one process.
Turns(p, x) == proc' = [proc EXCEPT ![p] = x]

LEMMA TurnsOne ==
  ASSUME AuthTypeOK, NEW p \in Process, NEW x \in Copying, Turns(p, x)
  PROVE  /\ proc' \in [Process -> Copying] /\ proc'[p] = x
         /\ \A q \in Process \ {p} : proc'[q] = proc[q]
BY DEF AuthTypeOK, Turns

LEMMA IdleCopies ==
  ASSUME AuthAssumption
  PROVE  Idle \in Copying /\ Idle.pc = "idle" /\ Idle.tok.refresh = 0 /\ Idle.copy \in Content
<1>1. NoTokens \in Token /\ NoTokens.refresh = 0
  BY DEF AuthAssumption, Token, NoTokens
<1>2. [e \in 1..PoolSize |-> [tok |-> NoTokens, device |-> FALSE, cooling |-> FALSE]] \in [1..PoolSize -> Entry]
  BY <1>1 DEF Entry
<1> QED BY <1>1, <1>2 DEF Idle, Copying, Content

LEMMA ChosenType ==
  ASSUME AuthAssumption, NEW f \in Content
  PROVE  Chosen(f) \in Token
<1>1. NoTokens \in Token
  BY DEF AuthAssumption, Token, NoTokens
<1> QED BY <1>1, ChosenIsHeld DEF Content, Entry

LEMMA ResolveHolds ==
  ASSUME AuthAssumption, AuthInv, NEW p \in Process, Resolve(p), UNCHANGED rotates
  PROVE  AuthInv'
<1> USE DEF AuthInv
<1> DEFINE x == [pc |-> "ask", copy |-> file, tok |-> Chosen(file)]
<1>1. /\ proc[p].pc = "idle" /\ readable /\ Chosen(file).access # 0 /\ Turns(p, x)
      /\ UNCHANGED <<file, readable, script, accepted, issued, expiring, logins, mishap>>
  BY DEF Resolve, Turns
<1>2. x \in Copying /\ x.pc = "ask" /\ x.tok = Chosen(file)
  BY ChosenType DEF AuthTypeOK, Copying
<1> HIDE DEF x
<1>3. /\ proc' \in [Process -> Copying] /\ proc'[p] = x
      /\ \A q \in Process \ {p} : proc'[q] = proc[q]
  BY <1>1, <1>2, TurnsOne
<1>4. \A q \in Process : proc'[q].pc \in {"save", "write"} <=> proc[q].pc \in {"save", "write"}
  BY <1>1, <1>2, <1>3
<1>5. AuthTypeOK'
  <2>1. Saving' = Saving
    BY <1>4 DEF Saving
  <2> QED BY <1>1, <1>3, <2>1 DEF AuthTypeOK
<1>6. WritersApart'
  <2>1. \A q \in Process : proc'[q].pc = "write" <=> proc[q].pc = "write"
    BY <1>1, <1>2, <1>3
  <2> QED BY <1>1, <2>1 DEF WritersApart
<1>7. NewTokensHold'
  <2>1. \A q \in Process : Saves(q)' <=> Saves(q)
    BY <1>4 DEF Saves
  <2>2. ~Saves(p)
    BY <1>1 DEF Saves
  <2>3. \A q \in Process : proc'[q].tok.refresh <= issued
    BY <1>2, <1>3 DEF NewTokensHold
  <2>4. ASSUME NEW q \in Process, Saves(q)
        PROVE  /\ proc'[q] = proc[q]
               /\ rotates => \A r \in Process \ {q} : proc'[r].tok.refresh # proc'[q].tok.refresh
    BY <1>2, <1>3, <2>2, <2>4 DEF NewTokensHold
  <2>5. Working /\ rotates => \A q \in Process : proc'[q].tok.refresh # script.tok.refresh
    BY <1>2, <1>3 DEF NewTokensHold
  <2> QED BY <1>1, <2>1, <2>3, <2>4, <2>5 DEF NewTokensHold, Working
<1>8. FileHolds'
  BY <1>1, <1>4 DEF FileHolds, Saves
<1>9. OneAccepted'
  BY <1>1 DEF OneAccepted
<1> QED BY <1>5, <1>6, <1>7, <1>8, <1>9

LEMMA RefreshHolds ==
  ASSUME AuthAssumption, AuthInv, NEW p \in Process, Refresh(p), UNCHANGED rotates
  PROVE  AuthInv'
<1> USE DEF AuthInv
<1> DEFINE n == issued + 1
           r == proc[p].tok.refresh
           t == [access |-> n, refresh |-> IF rotates THEN n ELSE r]
           x == [proc[p] EXCEPT !.pc = "save", !.tok = t]
<1>0. proc[p].pc = "ask" /\ UNCHANGED <<file, readable, script, expiring, logins>>
  BY DEF Refresh
<1>1. proc[p] \in Copying /\ r \in 0..MaxTokens /\ issued \in 1..MaxTokens /\ ~Saves(p)
  BY <1>0 DEF AuthTypeOK, Copying, Token, Saves
<1>2. CASE proc' = [proc EXCEPT ![p] = Idle] /\ UNCHANGED <<accepted, issued>>
           /\ (mishap => mishap') /\ mishap' \in BOOLEAN
  <2>1. /\ proc' \in [Process -> Copying] /\ proc'[p] = Idle
        /\ \A q \in Process \ {p} : proc'[q] = proc[q]
    BY <1>2, IdleCopies, TurnsOne DEF Turns
  <2>2. Idle.pc = "idle" /\ Idle.tok.refresh = 0
    BY IdleCopies
  <2>3. \A q \in Process : Saves(q)' <=> Saves(q)
    BY <1>1, <2>1, <2>2 DEF Saves
  <2>4. AuthTypeOK'
    <3>1. Saving' = Saving
      BY <2>3 DEF Saving, Saves
    <3> QED BY <1>0, <1>2, <2>1, <3>1 DEF AuthTypeOK
  <2>5. WritersApart'
    <3>1. \A q \in Process : proc'[q].pc = "write" <=> proc[q].pc = "write"
      BY <1>0, <2>1, <2>2
    <3> QED BY <1>0, <1>2, <3>1 DEF WritersApart
  <2>6. NewTokensHold'
    <3>1. \A q \in Process : proc'[q].tok.refresh <= issued
      BY <1>1, <2>1, <2>2 DEF NewTokensHold
    <3>2. ASSUME NEW q \in Process, Saves(q)
          PROVE  /\ proc'[q] = proc[q]
                 /\ rotates => \A u \in Process \ {q} : proc'[u].tok.refresh # proc'[q].tok.refresh
      BY <1>1, <2>1, <2>2, <3>2 DEF NewTokensHold
    <3>3. Working /\ rotates => \A q \in Process : proc'[q].tok.refresh # script.tok.refresh
      BY <2>1, <2>2 DEF NewTokensHold
    <3> QED BY <1>0, <1>2, <2>3, <3>1, <3>2, <3>3 DEF NewTokensHold, Working
  <2>7. FileHolds'
    BY <1>0, <1>2, <2>3 DEF FileHolds
  <2>8. OneAccepted'
    BY <1>0, <1>2 DEF OneAccepted
  <2> QED BY <2>4, <2>5, <2>6, <2>7, <2>8
<1>3. CASE /\ r \in accepted /\ issued < MaxTokens /\ issued' = n
           /\ accepted' = IF rotates THEN (accepted \ {r}) \union {n} ELSE accepted
           /\ \/ Turns(p, x) /\ UNCHANGED mishap
              \/ Turns(p, Idle) /\ mishap' = (mishap \/ rotates)
  <2>0. n \in 1..MaxTokens /\ n > issued /\ r \in 1..issued
    <3>1. r \in 1..issued
      <4> HIDE DEF r, x, t, n
      <4> QED BY <1>3 DEF NewTokensHold
    <3>2. n = issued + 1 /\ issued \in Nat /\ issued < MaxTokens /\ MaxTokens \in Nat
      <4> HIDE DEF r, x, t
      <4> QED BY <1>1, <1>3 DEF n, AuthTypeOK, AuthAssumption
    <3> HIDE DEF r, x, t, n
    <3> QED BY <3>1, <3>2
  <2>1. t \in Token /\ t.access # 0 /\ t.refresh # 0 /\ t.refresh <= n /\ t.refresh \in accepted'
        /\ t.refresh = IF rotates THEN n ELSE r
    BY <1>1, <1>3, <2>0 DEF Token
  <2>2. x \in Copying /\ x.pc = "save" /\ x.tok = t
    <3> HIDE DEF t
    <3> QED BY <1>1, <2>1 DEF Copying
  <2> DEFINE y == proc'[p]
  <2>3. /\ proc' \in [Process -> Copying] /\ y \in {x, Idle}
        /\ \A q \in Process \ {p} : proc'[q] = proc[q]
        /\ y = Idle => mishap' = (mishap \/ rotates)
        /\ y = x => mishap' = mishap
    <3>1. x # Idle
      BY <2>2, IdleCopies
    <3> HIDE DEF x
    <3> QED BY <1>3, <2>2, <3>1, IdleCopies, TurnsOne
  <2>4. Idle.pc = "idle" /\ Idle.tok.refresh = 0
    BY IdleCopies
  <2> HIDE DEF x, t, n, r
  <2>5. \A q \in Process \ {p} : Saves(q)' <=> Saves(q)
    BY <2>3 DEF Saves
  <2>6. Saves(p)' <=> y = x
    BY <2>2, <2>3, <2>4 DEF Saves
  <2>7. AuthTypeOK'
    <3>1. issued' \in 1..MaxTokens /\ issued' > 1
      BY <1>1, <1>3, <2>0 DEF n
    <3>2. accepted' \union expiring' \subseteq 1..MaxTokens
      BY <1>0, <1>3, <2>0 DEF AuthTypeOK
    <3>3. {readable', rotates', mishap'} \subseteq BOOLEAN
      BY <1>0, <1>3 DEF AuthTypeOK
    <3> QED BY <1>0, <2>3, <3>1, <3>2, <3>3 DEF AuthTypeOK
  <2>8. WritersApart'
    <3>1. \A q \in Process : proc'[q].pc = "write" <=> proc[q].pc = "write"
      BY <1>0, <2>2, <2>3, <2>4
    <3>2. mishap => mishap'
      BY <1>3
    <3> QED BY <1>0, <3>1, <3>2 DEF WritersApart
  <2>9. NewTokensHold'
    <3>1. \A q \in Process : proc'[q].tok.refresh <= issued'
      <4>1. \A q \in Process : proc[q].tok.refresh <= issued /\ proc[q].tok.refresh \in Nat
        BY DEF NewTokensHold, AuthTypeOK, Copying, Token
      <4> QED BY <1>1, <1>3, <2>0, <2>1, <2>2, <2>3, <2>4, <4>1
    <3>2. Saves(p)' => proc'[p].tok = t
      BY <2>2, <2>6
    <3>3. ASSUME NEW q \in Process \ {p}, Saves(q)
          PROVE  /\ proc[q].tok.access # 0 /\ proc[q].tok.refresh # 0 /\ proc[q].tok.refresh \in accepted'
                 /\ proc[q].tok.refresh <= issued
                 /\ rotates => /\ Chosen(file).refresh # proc[q].tok.refresh /\ r # proc[q].tok.refresh
                               /\ \A u \in Process \ {q} : proc[u].tok.refresh # proc[q].tok.refresh
      BY <1>3, <3>3 DEF NewTokensHold, r
    <3>4. Working => script.tok.access # 0 /\ script.tok.refresh # 0 /\ script.tok.refresh \in accepted'
      BY <1>3 DEF NewTokensHold, r
    <3>5. accepted' \subseteq 1..issued' /\ Chosen(file).refresh <= issued' /\ script.tok.refresh <= issued'
      <4>1. Chosen(file).refresh \in Nat /\ script.tok.refresh \in Nat
        BY ChosenType DEF AuthTypeOK, Copying, Token
      <4> QED BY <1>1, <1>3, <2>0, <4>1 DEF NewTokensHold
    <3>6. \A q \in Process : proc[q].tok.refresh # n
      <4>1. \A q \in Process : proc[q].tok.refresh <= issued /\ proc[q].tok.refresh \in Nat
        BY DEF NewTokensHold, AuthTypeOK, Copying, Token
      <4> QED BY <1>1, <2>0, <4>1
    <3>7. Chosen(file).refresh # n /\ script.tok.refresh # n
      <4>1. Chosen(file).refresh \in Nat /\ script.tok.refresh \in Nat
        BY ChosenType DEF AuthTypeOK, Copying, Token
      <4> QED BY <1>1, <2>0, <4>1 DEF NewTokensHold
    <3>8. ASSUME rotates, NEW q \in Process, Saves(q)'
          PROVE  /\ Chosen(file).refresh # proc'[q].tok.refresh
                 /\ \A u \in Process \ {q} : proc'[u].tok.refresh # proc'[q].tok.refresh
      <4>1. CASE q = p
        <5>1. proc'[q].tok.refresh = n
          BY <2>1, <3>2, <3>8, <4>1
        <5> QED BY <2>3, <3>6, <3>7, <4>1, <5>1
      <4>2. CASE q # p
        <5>1. proc'[q] = proc[q] /\ Saves(q)
          BY <2>3, <2>5, <3>8, <4>2
        <5>2. proc'[p].tok.refresh # proc[q].tok.refresh
          BY <2>1, <2>2, <2>3, <2>4, <3>3, <3>6, <3>8, <4>2, <5>1
        <5> QED BY <2>3, <3>3, <3>8, <4>2, <5>1, <5>2
      <4> QED BY <4>1, <4>2
    <3>9. ASSUME rotates, Working
          PROVE  /\ Chosen(file).refresh # script.tok.refresh
                 /\ \A q \in Process : proc'[q].tok.refresh # script.tok.refresh
      <4>1. script.tok.refresh # 0 /\ \A q \in Process : proc[q].tok.refresh # script.tok.refresh
        BY <3>9 DEF NewTokensHold
      <4>2. proc'[p].tok.refresh \in {n, 0}
        BY <2>1, <2>2, <2>3, <2>4, <3>9
      <4> QED BY <2>3, <3>7, <3>9, <4>1, <4>2 DEF NewTokensHold
    <3>10. ASSUME NEW q \in Process, Saves(q)'
           PROVE  proc'[q].tok.access # 0 /\ proc'[q].tok.refresh # 0 /\ proc'[q].tok.refresh \in accepted'
      <4>1. CASE q = p
        BY <2>1, <3>2, <3>10, <4>1
      <4>2. CASE q # p
        BY <2>3, <2>5, <3>3, <3>10, <4>2
      <4> QED BY <4>1, <4>2
    <3> QED BY <1>0, <3>1, <3>4, <3>5, <3>8, <3>9, <3>10 DEF NewTokensHold, Working
  <2>10. FileHolds'
    <3>1. ~rotates => accepted' = accepted
      BY <1>3
    <3>2. ~mishap' => ~mishap /\ (rotates => y = x)
      BY <1>3, <2>3
    <3>3. ~rotates => Chosen(file).refresh \in accepted
      BY DEF FileHolds
    <3> QED BY <1>0, <2>6, <3>1, <3>2, <3>3 DEF FileHolds
  <2>11. OneAccepted'
    <3>1. logins = 0 /\ rotates => accepted = {r}
      BY <1>3 DEF OneAccepted
    <3>2. logins = 0 /\ rotates => accepted' = {n}
      BY <1>3, <3>1
    <3> QED BY <1>0, <3>2 DEF OneAccepted
  <2> QED BY <2>7, <2>8, <2>9, <2>10, <2>11
<1>4. Refresh(p) => \/ /\ proc' = [proc EXCEPT ![p] = Idle] /\ UNCHANGED <<accepted, issued>>
                       /\ (mishap => mishap') /\ mishap' \in BOOLEAN
                    \/ /\ r \in accepted /\ issued < MaxTokens /\ issued' = n
                       /\ accepted' = IF rotates THEN (accepted \ {r}) \union {n} ELSE accepted
                       /\ \/ Turns(p, x) /\ UNCHANGED mishap
                          \/ Turns(p, Idle) /\ mishap' = (mishap \/ rotates)
  <2>1. CASE r \in accepted
    <3>1. issued < MaxTokens /\ issued' = n
          /\ accepted' = IF rotates THEN (accepted \ {r}) \union {n} ELSE accepted
      BY <2>1 DEF Refresh
    <3>2. \/ /\ proc' = [proc EXCEPT ![p].pc = "save", ![p].tok = [access |-> n, refresh |-> IF rotates THEN n ELSE @.refresh]]
             /\ UNCHANGED mishap
          \/ proc' = [proc EXCEPT ![p] = Idle] /\ mishap' = (mishap \/ rotates)
      BY <2>1, <3>1 DEF Refresh
    <3>3. ASSUME proc' = [proc EXCEPT ![p].pc = "save", ![p].tok = [access |-> n, refresh |-> IF rotates THEN n ELSE @.refresh]]
          PROVE  proc' = [proc EXCEPT ![p] = x]
      BY <3>3, <1>1 DEF AuthTypeOK, Copying
    <3> QED BY <2>1, <3>1, <3>2, <3>3 DEF Turns
  <2>2. CASE r \notin accepted
    BY <2>2 DEF Refresh, AuthTypeOK
  <2> QED BY <2>1, <2>2
<1> QED BY <1>2, <1>3, <1>4

LEMMA NoWriters ==
  ASSUME AuthAssumption, ~(Writers > 0)
  PROVE  script.pc # "write" /\ \A p \in Process : proc[p].pc # "write"
<1> DEFINE S == {p \in Process : proc[p].pc = "write"}
<1>1. IsFiniteSet(S) /\ Cardinality(S) \in Nat
  <2>1. IsFiniteSet(S)
    BY FS_Subset DEF AuthAssumption
  <2> HIDE DEF S
  <2> QED BY <2>1, FS_CardinalityType
<1>2. Writers = Cardinality(S) + (IF script.pc = "write" THEN 1 ELSE 0)
  BY DEF Writers
<1>3. Cardinality(S) = 0 /\ script.pc # "write"
  <2> HIDE DEF S
  <2> QED BY <1>1, <1>2
<1>4. S = {}
  <2> HIDE DEF S
  <2> QED BY <1>1, <1>3, FS_EmptySet
<1> QED BY <1>3, <1>4

LEMMA TruncateHolds ==
  ASSUME AuthAssumption, AuthInv, NEW p \in Process, Truncate(p), UNCHANGED rotates
  PROVE  AuthInv'
<1> USE DEF AuthInv
<1> DEFINE x == [proc[p] EXCEPT !.pc = "write"]
<1>1. /\ proc[p].pc = "save" /\ readable' = FALSE /\ mishap' = (mishap \/ Writers > 0)
      /\ UNCHANGED <<file, script, accepted, issued, expiring, logins>>
  BY DEF Truncate
<1>2. Turns(p, x)
  BY DEF Truncate, Turns, AuthTypeOK
<1>3. x \in Copying /\ x.pc = "write" /\ x.tok = proc[p].tok
  BY DEF AuthTypeOK, Copying
<1> HIDE DEF x
<1>4. /\ proc' \in [Process -> Copying] /\ proc'[p] = x
      /\ \A q \in Process \ {p} : proc'[q] = proc[q]
  BY <1>2, <1>3, TurnsOne
<1>5. \A q \in Process : (Saves(q)' <=> Saves(q)) /\ proc'[q].tok = proc[q].tok
  BY <1>1, <1>3, <1>4 DEF Saves
<1>6. AuthTypeOK'
  <2>1. Saving' = Saving
    BY <1>5 DEF Saving, Saves
  <2>2. {readable', rotates', mishap'} \subseteq BOOLEAN
    BY <1>1 DEF AuthTypeOK
  <2> QED BY <1>1, <1>4, <2>1, <2>2 DEF AuthTypeOK
<1>7. WritersApart'
  <2>1. SUFFICES ASSUME ~mishap' PROVE WritersApart'
    BY DEF WritersApart
  <2>2. script.pc # "write" /\ \A q \in Process : proc[q].pc # "write"
    BY <1>1, <2>1, NoWriters
  <2> QED BY <1>1, <1>3, <1>4, <2>2 DEF WritersApart
<1>8. NewTokensHold'
  BY <1>1, <1>5 DEF NewTokensHold, Working
<1>9. FileHolds'
  BY <1>1, <1>5 DEF FileHolds
<1>10. OneAccepted'
  BY <1>1 DEF OneAccepted
<1> QED BY <1>6, <1>7, <1>8, <1>9, <1>10

\* A process has written its copy with the new tokens in it, or it is gone.
LEMMA StopHolds ==
  ASSUME AuthAssumption, AuthInv, NEW p \in Process, Write(p) \/ Crash(p), UNCHANGED rotates
  PROVE  AuthInv'
<1> USE DEF AuthInv
<1>1. Turns(p, Idle) /\ UNCHANGED <<script, accepted, issued, expiring, logins>>
  BY DEF Write, Crash, Turns
<1>2. Idle.pc = "idle" /\ Idle.tok.refresh = 0
  BY IdleCopies
<1>3. /\ proc' \in [Process -> Copying] /\ proc'[p] = Idle
      /\ \A q \in Process \ {p} : proc'[q] = proc[q]
  BY <1>1, IdleCopies, TurnsOne
<1>4. ~Saves(p)' /\ \A q \in Process \ {p} : Saves(q)' <=> Saves(q)
  BY <1>2, <1>3 DEF Saves
<1> DEFINE t == proc[p].tok
<1>5. \/ /\ Write(p) /\ proc[p].pc = "write" /\ file' \in Content /\ Chosen(file') = t
         /\ t.refresh \in accepted /\ t.refresh <= issued /\ mishap' = mishap
         /\ readable' \in BOOLEAN /\ (~mishap => readable')
      \/ /\ file' = file /\ readable' = readable /\ proc[p].pc # "idle"
         /\ mishap' = (mishap \/ proc[p].pc = "write" \/ (proc[p].pc = "save" /\ rotates))
  <2>1. CASE Write(p)
    <3>1. proc[p].copy \in Content /\ t \in Token
      BY DEF AuthTypeOK, Copying
    <3>2. t.access # 0 /\ t.refresh # 0 /\ t.refresh \in accepted /\ t.refresh <= issued
      BY <2>1 DEF Write, Saves, NewTokensHold
    <3>3. file' = Saved(proc[p].copy, t)
      BY <2>1 DEF Write
    <3>4. file' \in Content /\ Chosen(file') = t
      BY <3>1, <3>2, <3>3, SavedIsChosen
    <3> QED BY <2>1, <3>2, <3>4 DEF Write
  <2>2. CASE Crash(p)
    BY <2>2 DEF Crash
  <2> QED BY <2>1, <2>2
<1>6. file' = file \/ Chosen(file') = t
  BY <1>5
<1>7. AuthTypeOK'
  <2>1. Saving' \subseteq Saving
    BY <1>4 DEF Saving, Saves
  <2>2. {readable', rotates', mishap'} \subseteq BOOLEAN /\ file' \in Content
    BY <1>5 DEF AuthTypeOK
  <2> QED BY <1>1, <1>3, <2>1, <2>2 DEF AuthTypeOK
<1>8. WritersApart'
  <2>1. SUFFICES ASSUME ~mishap' PROVE WritersApart'
    BY DEF WritersApart
  <2>2. ~mishap
    BY <1>5, <2>1
  <2>3. \A q \in Process : proc'[q].pc = "write" => proc[q].pc = "write" /\ q # p
    BY <1>2, <1>3
  <2>4. readable' \/ script'.pc = "write" \/ \E q \in Process : proc'[q].pc = "write"
    <3>1. CASE Write(p)
      BY <1>5, <2>2, <3>1 DEF Write
    <3>2. CASE Crash(p)
      <4>1. proc[p].pc # "write" /\ readable' = readable
        BY <2>1, <3>2 DEF Crash
      <4>2. \A q \in Process : proc'[q].pc = "write" <=> proc[q].pc = "write"
        BY <1>2, <1>3, <4>1
      <4> QED BY <1>1, <2>2, <4>1, <4>2 DEF WritersApart
    <3> QED BY <3>1, <3>2
  <2> QED BY <1>1, <2>2, <2>3, <2>4 DEF WritersApart
<1>9. NewTokensHold'
  <2>1. \A q \in Process : proc'[q].tok.refresh <= issued
    <3>1. issued \in Nat
      BY DEF AuthTypeOK
    <3> QED BY <1>2, <1>3, <3>1 DEF NewTokensHold
  <2>2. ASSUME NEW q \in Process, Saves(q)'
        PROVE  /\ q # p /\ Saves(q) /\ proc'[q] = proc[q]
               /\ rotates => /\ Chosen(file').refresh # proc[q].tok.refresh
                             /\ \A u \in Process \ {q} : proc'[u].tok.refresh # proc'[q].tok.refresh
    <3>1. q # p /\ Saves(q) /\ proc'[q] = proc[q]
      BY <1>3, <1>4, <2>2
    <3>2. proc[q].tok.refresh # 0
      BY <3>1 DEF NewTokensHold
    <3> QED BY <1>2, <1>3, <1>6, <3>1, <3>2 DEF NewTokensHold
  <2>3. ASSUME Working, rotates
        PROVE  /\ Chosen(file').refresh # script.tok.refresh
               /\ \A q \in Process : proc'[q].tok.refresh # script.tok.refresh
    BY <1>2, <1>3, <1>6, <2>3 DEF NewTokensHold
  <2>4. Chosen(file').refresh <= issued
    BY <1>5 DEF NewTokensHold
  <2>5. \A q \in Process : Saves(q)' =>
          proc'[q].tok.access # 0 /\ proc'[q].tok.refresh # 0 /\ proc'[q].tok.refresh \in accepted
    BY <2>2 DEF NewTokensHold
  <2> QED BY <1>1, <2>1, <2>2, <2>3, <2>4, <2>5 DEF NewTokensHold, Working
<1>10. FileHolds'
  <2>1. CASE Chosen(file').refresh \in accepted
    BY <1>1, <2>1 DEF FileHolds
  <2>2. CASE Chosen(file').refresh \notin accepted
    <3>1. file' = file /\ mishap' = (mishap \/ proc[p].pc = "write" \/ (proc[p].pc = "save" /\ rotates))
      BY <1>5, <2>2
    <3>2. rotates
      BY <2>2, <3>1 DEF FileHolds
    <3>3. ~mishap' => \E q \in Process \ {p} : Saves(q)
      BY <2>2, <3>1, <3>2 DEF FileHolds, Saves
    <3> QED BY <1>1, <1>4, <3>2, <3>3 DEF FileHolds
  <2> QED BY <2>1, <2>2
<1>11. OneAccepted'
  BY <1>1 DEF OneAccepted
<1> QED BY <1>7, <1>8, <1>9, <1>10, <1>11

LEMMA LoginHolds ==
  ASSUME AuthAssumption, AuthInv, Login, UNCHANGED rotates
  PROVE  AuthInv'
<1> USE DEF AuthInv
<1> DEFINE n == issued + 1
           t == [access |-> n, refresh |-> n]
           f == IF readable THEN file ELSE Idle.copy
<1>1. /\ script.pc = "idle" /\ logins < MaxLogins /\ issued < MaxTokens
      /\ logins' = logins + 1 /\ issued' = n /\ accepted' = accepted \union {n}
      /\ script' = [pc |-> "save", copy |-> f, tok |-> t]
      /\ UNCHANGED <<file, readable, proc, expiring, mishap>>
  BY DEF Login
<1>2. issued \in Nat /\ n \in 1..MaxTokens /\ n > issued /\ n # 0
  BY <1>1 DEF AuthTypeOK, AuthAssumption
<1>3. t \in Token /\ t.access = n /\ t.refresh = n
  BY <1>2 DEF Token
<1>4. script' \in Copying /\ script'.pc = "save" /\ script'.tok = t
  <2>1. f \in Content
    BY IdleCopies DEF AuthTypeOK
  <2> HIDE DEF f, t
  <2> QED BY <1>1, <1>3, <2>1 DEF Copying
<1>5. /\ \A p \in Process : proc[p].tok.refresh <= issued /\ proc[p].tok.refresh \in Nat
      /\ Chosen(file).refresh <= issued /\ Chosen(file).refresh \in Nat
  BY ChosenType DEF NewTokensHold, AuthTypeOK, Copying, Token
<1> HIDE DEF n, t, f
<1>6. \A p \in Process : Saves(p)' <=> Saves(p)
  BY <1>1 DEF Saves
<1>7. AuthTypeOK'
  <2>1. Saving' = Saving
    BY <1>1 DEF Saving
  <2>2. logins' \in 0..MaxLogins /\ issued' \in 1..MaxTokens /\ (issued > 1 => issued' > 1)
    BY <1>1, <1>2 DEF AuthTypeOK, AuthAssumption
  <2> QED BY <1>1, <1>2, <1>4, <2>1, <2>2 DEF AuthTypeOK
<1>8. WritersApart'
  BY <1>1, <1>4 DEF WritersApart
<1>9. NewTokensHold'
  <2>1. accepted' \subseteq 1..issued'
    <3>1. accepted \subseteq 1..issued
      BY DEF NewTokensHold
    <3>2. 1..issued \subseteq 1..n /\ n \in 1..n
      BY <1>2
    <3> QED BY <1>1, <3>1, <3>2
  <2>2. /\ Chosen(file).refresh <= issued' /\ Chosen(file).refresh # n /\ n <= issued'
        /\ \A p \in Process : proc[p].tok.refresh <= issued' /\ proc[p].tok.refresh # n
    BY <1>1, <1>2, <1>5
  <2>3. Working' /\ script'.tok.access = n /\ script'.tok.refresh = n /\ n \in accepted'
    BY <1>1, <1>3, <1>4 DEF Working
  <2>4. \A p \in Process : Saves(p)' => proc[p].tok.access # 0 /\ proc[p].tok.refresh # 0
                                        /\ proc[p].tok.refresh \in accepted'
    BY <1>1, <1>6 DEF NewTokensHold
  <2>5. rotates => \A p \in Process : Saves(p)' =>
          /\ Chosen(file).refresh # proc[p].tok.refresh
          /\ \A q \in Process \ {p} : proc[q].tok.refresh # proc[p].tok.refresh
    BY <1>6 DEF NewTokensHold
  <2> QED BY <1>1, <1>2, <1>4, <2>1, <2>2, <2>3, <2>4, <2>5 DEF NewTokensHold
<1>10. FileHolds'
  BY <1>1, <1>6 DEF FileHolds
<1>11. OneAccepted'
  <2>1. logins' # 0
    BY <1>1 DEF AuthTypeOK
  <2> QED BY <2>1 DEF OneAccepted
<1> QED BY <1>7, <1>8, <1>9, <1>10, <1>11

LEMMA SaveLoginHolds ==
  ASSUME AuthAssumption, AuthInv, SaveLogin, UNCHANGED rotates
  PROVE  AuthInv'
<1> USE DEF AuthInv
<1>0. UNCHANGED <<proc, accepted, issued, expiring, logins>>
  BY DEF SaveLogin
<1>1. \A p \in Process : Saves(p)' <=> Saves(p)
  BY <1>0 DEF Saves
<1>2. Saving' = Saving
  BY <1>0 DEF Saving
<1>3. CASE /\ script.pc = "save" /\ script' = [script EXCEPT !.pc = "write"]
           /\ readable' = FALSE /\ mishap' = (mishap \/ Writers > 0) /\ UNCHANGED file
  <2>1. script' \in Copying /\ script'.pc = "write" /\ script'.tok = script.tok /\ Working /\ Working'
    BY <1>3 DEF AuthTypeOK, Copying, Working
  <2>2. AuthTypeOK'
    <3>1. {readable', rotates', mishap'} \subseteq BOOLEAN
      BY <1>3 DEF AuthTypeOK
    <3> QED BY <1>0, <1>2, <1>3, <2>1, <3>1 DEF AuthTypeOK
  <2>3. WritersApart'
    <3>1. SUFFICES ASSUME ~mishap' PROVE WritersApart'
      BY DEF WritersApart
    <3>2. \A q \in Process : proc[q].pc # "write"
      BY <1>3, <3>1, NoWriters
    <3> QED BY <1>0, <2>1, <3>2 DEF WritersApart
  <2>4. NewTokensHold'
    BY <1>0, <1>1, <1>3, <2>1 DEF NewTokensHold
  <2>5. FileHolds'
    BY <1>0, <1>1, <1>3 DEF FileHolds
  <2>6. OneAccepted'
    BY <1>0, <1>3 DEF OneAccepted
  <2> QED BY <2>2, <2>3, <2>4, <2>5, <2>6
<1>4. CASE /\ script.pc = "write" /\ file' = Saved(script.copy, script.tok)
           /\ readable' \in IF mishap THEN BOOLEAN ELSE {TRUE}
           /\ script' = Idle /\ UNCHANGED mishap
  <2> DEFINE t == script.tok
  <2>1. /\ Working /\ script.copy \in Content /\ t \in Token /\ t.access # 0 /\ t.refresh # 0
        /\ t.refresh \in accepted /\ t.refresh <= issued
    BY <1>4 DEF Working, NewTokensHold, AuthTypeOK, Copying
  <2>2. file' \in Content /\ Chosen(file') = t
    BY <1>4, <2>1, SavedIsChosen
  <2>3. script' \in Copying /\ script'.pc = "idle" /\ script'.tok.refresh = 0 /\ ~Working'
    BY <1>4, IdleCopies DEF Working
  <2>4. AuthTypeOK'
    <3>1. {readable', rotates', mishap'} \subseteq BOOLEAN
      BY <1>4 DEF AuthTypeOK
    <3> QED BY <1>0, <1>2, <2>2, <2>3, <3>1 DEF AuthTypeOK
  <2>5. WritersApart'
    BY <1>0, <1>4, <2>3 DEF WritersApart
  <2>6. NewTokensHold'
    <3>1. 0 <= issued
      BY DEF AuthTypeOK
    <3>2. rotates => \A p \in Process : Saves(p) =>
            /\ t.refresh # proc[p].tok.refresh
            /\ \A q \in Process \ {p} : proc[q].tok.refresh # proc[p].tok.refresh
      BY <2>1 DEF NewTokensHold
    <3> HIDE DEF t
    <3> QED BY <1>0, <1>1, <2>1, <2>2, <2>3, <3>1, <3>2 DEF NewTokensHold
  <2>7. FileHolds'
    BY <1>0, <2>1, <2>2 DEF FileHolds
  <2>8. OneAccepted'
    BY <1>0, <2>3 DEF OneAccepted
  <2> QED BY <2>4, <2>5, <2>6, <2>7, <2>8
<1> QED BY <1>3, <1>4 DEF SaveLogin

LEMMA AuthNextHolds ==
  ASSUME AuthAssumption, AuthInv, [AuthNext]_authVars
  PROVE  AuthInv'
<1> USE DEF AuthInv
<1>1. CASE UNCHANGED <<file, readable, proc, script, rotates, accepted, issued, logins, mishap>>
           /\ expiring' \subseteq 1..MaxTokens
  BY <1>1 DEF AuthTypeOK, WritersApart, NewTokensHold, FileHolds, OneAccepted, Saving, Saves, Working
<1>2. CASE Age /\ UNCHANGED rotates
  <2>1. expiring' \subseteq 1..MaxTokens
    <3>1. expiring \subseteq 1..MaxTokens /\ issued \in Nat /\ issued <= MaxTokens /\ MaxTokens \in Nat
      BY DEF AuthTypeOK, AuthAssumption
    <3>2. \E t \in 1..issued : expiring' = expiring \union {t}
      BY <1>2 DEF Age
    <3>3. 1..issued \subseteq 1..MaxTokens
      BY <3>1
    <3> QED BY <3>1, <3>2, <3>3
  <2> QED BY <1>1, <1>2, <2>1 DEF Age
<1>3. CASE UNCHANGED authVars
  BY <1>1, <1>3 DEF authVars, AuthTypeOK
<1>4. ASSUME NEW p \in Process, UNCHANGED rotates,
             Resolve(p) \/ Refresh(p) \/ Truncate(p) \/ Write(p) \/ Crash(p)
      PROVE  AuthInv'
  BY <1>4, ResolveHolds, RefreshHolds, TruncateHolds, StopHolds
<1>5. CASE (Login \/ SaveLogin) /\ UNCHANGED rotates
  BY <1>5, LoginHolds, SaveLoginHolds
<1> QED BY <1>2, <1>3, <1>4, <1>5 DEF AuthNext

LEMMA InvKeepsLogin ==
  ASSUME AuthAssumption, AuthInv
  PROVE  LoginIsKept
<1> USE DEF AuthInv
<1>1. FileIsUsable
  <2>1. SUFFICES ASSUME ~mishap, Saving = {}, script.pc # "write"
                 PROVE  readable /\ Chosen(file).refresh \in accepted
    BY DEF FileIsUsable
  <2>2. \A p \in Process : ~Saves(p)
    BY <2>1 DEF Saving, Saves
  <2> QED BY <2>1, <2>2 DEF WritersApart, FileHolds, Saves
<1>2. OneSaver
  <2>1. SUFFICES ASSUME rotates, logins = 0 PROVE Cardinality(Saving) <= 1
    BY DEF OneSaver
  <2>2. ASSUME NEW p \in Saving, NEW q \in Saving, p # q PROVE FALSE
    <3>1. Saves(p) /\ Saves(q) /\ p \in Process /\ q \in Process
      BY DEF Saving, Saves
    <3>2. proc[p].tok.refresh # proc[q].tok.refresh
      BY <2>1, <2>2, <3>1 DEF NewTokensHold
    <3>3. proc[p].tok.refresh \in accepted /\ proc[q].tok.refresh \in accepted
      BY <3>1 DEF NewTokensHold
    <3> QED BY <2>1, <3>2, <3>3 DEF OneAccepted
  <2>3. CASE Saving = {}
    BY <2>3, FS_EmptySet
  <2>4. ASSUME NEW p \in Saving PROVE Cardinality(Saving) <= 1
    <3>1. Saving = {p}
      BY <2>2, <2>4
    <3>2. Cardinality({p}) = 1
      BY FS_Singleton
    <3> QED BY <3>1, <3>2
  <2> QED BY <2>3, <2>4
<1> QED BY <1>1, <1>2 DEF LoginIsKept

\* However many processes refresh, save and end, and whoever logs in meanwhile: nothing
\* short of the three mishaps loses the login, and a rotating token lets one save.
THEOREM LoginStaysUsable == AuthAssumption => (AuthSpec => []LoginIsKept)
<1> SUFFICES ASSUME AuthAssumption PROVE AuthSpec => []LoginIsKept
  OBVIOUS
<1>1. AuthInit => AuthInv
  BY AuthInitHolds
<1>2. AuthInv /\ [AuthNext]_authVars => AuthInv'
  BY AuthNextHolds
<1>3. AuthInv => LoginIsKept
  BY InvKeepsLogin
<1> QED BY <1>1, <1>2, <1>3, PTL DEF AuthSpec
----------------------------------------------------------------------------
(* One call of the Codex model.                                            *)
(*                                                                         *)
(* CallInv is inductive.  A chunk that is an effect belongs to the request *)
(* of now, and there is one only after yielded_effect, which no request    *)
(* that is sent again has set.  What was shown lies before the piece the   *)
(* server sends next, and before the delta that waits for its blank line;  *)
(* what the server has streamed is shown, or is that delta.                *)
ChunkType == [kind : {"text", "tool", "last"}, text : Seq(Piece), attempt : Nat]
AnswerType == [part : 1..(Parts + 1), streamed : 0..Pieces, tool : BOOLEAN,
               over : {"no", "completed", "failed"}, said : SUBSET Piece]

Gives(g, i, j) == i \in 1..Len(g) /\ j \in 1..Len(g[i].text)
InOrder(g) == \A i, j, k, l \in Nat :
  Gives(g, i, j) /\ Gives(g, k, l) /\ (i < k \/ (i = k /\ j < l))
    => Before(g[i].text[j], g[k].text[l])
EndsBefore(g, z) == \A i, j \in Nat : Gives(g, i, j) => Before(g[i].text[j], z)
Has(g, y) == \E i, j \in Nat : Gives(g, i, j) /\ g[i].text[j] = y
TextInOrder(t) == \A j, l \in 1..Len(t) : j < l => Before(t[j], t[l])

CallTypes ==
  /\ attempt \in 0..MaxRetries
  /\ phase \in {"sending", "reading", "backoff", "returned", "raised", "cancelled"}
  /\ block \in Event \union {NoEvent}
  /\ yielded_delta \in BOOLEAN /\ yielded_effect \in BOOLEAN
  /\ given \in Seq(ChunkType) /\ server \in AnswerType

EffectsHold ==
  /\ yielded_delta => yielded_effect
  /\ phase \in {"sending", "backoff"} => ~yielded_effect
  /\ phase = "backoff" => attempt < MaxRetries
  /\ \A i \in 1..Len(given) :
       /\ given[i].attempt <= attempt
       /\ given[i].kind # "last" => yielded_effect /\ given[i].attempt = attempt
       /\ IF given[i].kind = "text" THEN yielded_delta ELSE given[i].text = <<>>

BlockHolds ==
  /\ phase = "sending" => server = NewAnswer
  /\ phase \notin {"reading", "cancelled"} => block = NoEvent
  /\ block.type = "delta" =>
       /\ server.streamed >= 1 /\ block.piece = <<server.part, server.streamed>>
       /\ EndsBefore(given, block.piece)
  /\ block.type = "done" => server.streamed = 0 /\ block.part = server.part - 1
  /\ server.over = "failed" =>
       phase # "returned" /\ (phase = "reading" => block.type = "failed")

TextHolds ==
  /\ InOrder(given)
  /\ EndsBefore(given, <<server.part, server.streamed + 1>>)
  /\ phase \in {"reading", "returned"} => \A y \in server.said :
       Has(given, y) \/ (block.type = "delta" /\ block.piece = y)

CallInv == CallTypes /\ EffectsHold /\ BlockHolds /\ TextHolds

\* What a further chunk does to the text the consumer has.
LEMMA AppendShows ==
  ASSUME NEW g \in Seq(ChunkType), NEW c \in ChunkType
  PROVE  /\ Append(g, c) \in Seq(ChunkType) /\ Len(Append(g, c)) = Len(g) + 1
         /\ \A i \in 1..Len(g) : Append(g, c)[i] = g[i]
         /\ Append(g, c)[Len(g) + 1] = c
         /\ Len(g) \in Nat
  OBVIOUS

LEMMA AppendGives ==
  ASSUME NEW g \in Seq(ChunkType), NEW c \in ChunkType, NEW i \in Nat, NEW j \in Nat
  PROVE  Gives(Append(g, c), i, j) <=> Gives(g, i, j) \/ (i = Len(g) + 1 /\ j \in 1..Len(c.text))
<1> DEFINE h == Append(g, c)
<1>1. /\ Len(h) = Len(g) + 1 /\ \A n \in 1..Len(g) : h[n] = g[n]
      /\ h[Len(g) + 1] = c /\ Len(g) \in Nat
  BY AppendShows
<1> HIDE DEF h
<1>2. Gives(h, i, j) <=> Gives(g, i, j) \/ (i = Len(g) + 1 /\ j \in 1..Len(c.text))
  <2>1. i \in 1..Len(h) <=> i \in 1..Len(g) \/ i = Len(g) + 1
    BY <1>1
  <2>2. i = Len(g) + 1 => i \notin 1..Len(g)
    BY <1>1
  <2> QED BY <1>1, <2>1, <2>2 DEF Gives
<1> QED BY <1>2 DEF h

LEMMA AppendText ==
  ASSUME NEW g \in Seq(ChunkType), NEW c \in ChunkType
  PROVE  /\ InOrder(g) /\ TextInOrder(c.text) /\ (\A j \in 1..Len(c.text) : EndsBefore(g, c.text[j]))
              => InOrder(Append(g, c))
         /\ \A z : EndsBefore(g, z) /\ (\A j \in 1..Len(c.text) : Before(c.text[j], z))
              => EndsBefore(Append(g, c), z)
         /\ \A y : Has(g, y) \/ (\E j \in 1..Len(c.text) : c.text[j] = y) => Has(Append(g, c), y)
<1> DEFINE h == Append(g, c)
           n == Len(g) + 1
<1>1. /\ \A i \in 1..Len(g) : h[i] = g[i]
      /\ h[n] = c /\ Len(g) \in Nat /\ n \in Nat /\ \A i \in 1..Len(g) : i < n
  BY AppendShows
<1>2. \A i, j \in Nat : Gives(h, i, j) <=> Gives(g, i, j) \/ (i = n /\ j \in 1..Len(c.text))
  BY AppendGives
<1>3. \A i, j \in Nat : Gives(g, i, j) => i \in 1..Len(g) /\ h[i] = g[i] /\ i < n
  BY <1>1 DEF Gives
<1>4. c.text \in Seq(Piece) /\ \A j \in 1..Len(c.text) : j \in Nat
  BY DEF ChunkType
<1> HIDE DEF h, n
<1>5. ASSUME InOrder(g), TextInOrder(c.text), \A j \in 1..Len(c.text) : EndsBefore(g, c.text[j])
      PROVE  InOrder(h)
  <2>1. SUFFICES ASSUME NEW i \in Nat, NEW j \in Nat, NEW k \in Nat, NEW l \in Nat,
                        Gives(h, i, j), Gives(h, k, l), i < k \/ (i = k /\ j < l)
                 PROVE  Before(h[i].text[j], h[k].text[l])
    BY DEF InOrder
  <2>2. CASE Gives(g, i, j) /\ Gives(g, k, l)
    <3>1. Before(g[i].text[j], g[k].text[l])
      BY <1>5, <2>1, <2>2 DEF InOrder
    <3> QED BY <1>3, <2>2, <3>1
  <2>3. CASE Gives(g, i, j) /\ k = n /\ l \in 1..Len(c.text)
    <3>1. Before(g[i].text[j], c.text[l])
      BY <1>5, <2>3 DEF EndsBefore
    <3> QED BY <1>1, <1>3, <2>3, <3>1
  <2>4. CASE i = n /\ j \in 1..Len(c.text) /\ k = n /\ l \in 1..Len(c.text)
    <3>1. j < l
      BY <1>1, <2>1, <2>4
    <3>2. Before(c.text[j], c.text[l])
      BY <1>5, <2>4, <3>1 DEF TextInOrder
    <3> QED BY <1>1, <2>4, <3>2
  <2>5. CASE i = n /\ Gives(g, k, l)
    <3>1. k < n
      BY <1>3, <2>5
    <3> QED BY <1>1, <2>1, <2>5, <3>1
  <2> QED BY <1>2, <2>1, <2>2, <2>3, <2>4, <2>5
<1>6. ASSUME NEW z, EndsBefore(g, z), \A j \in 1..Len(c.text) : Before(c.text[j], z)
      PROVE  EndsBefore(h, z)
  <2>1. SUFFICES ASSUME NEW i \in Nat, NEW j \in Nat, Gives(h, i, j) PROVE Before(h[i].text[j], z)
    BY DEF EndsBefore
  <2>2. CASE Gives(g, i, j)
    <3>1. Before(g[i].text[j], z)
      BY <1>6, <2>2 DEF EndsBefore
    <3> QED BY <1>3, <2>2, <3>1
  <2>3. CASE i = n /\ j \in 1..Len(c.text)
    <3>1. Before(c.text[j], z)
      BY <1>6, <2>3
    <3> QED BY <1>1, <2>3, <3>1
  <2> QED BY <1>2, <2>1, <2>2, <2>3
<1>7. ASSUME NEW y, Has(g, y) PROVE Has(h, y)
  <2>1. PICK i \in Nat, j \in Nat : Gives(g, i, j) /\ g[i].text[j] = y
    BY <1>7 DEF Has
  <2>2. Gives(h, i, j) /\ h[i].text[j] = y
    BY <1>2, <1>3, <2>1
  <2> QED BY <2>2 DEF Has
<1>8. ASSUME NEW y, NEW j \in 1..Len(c.text), c.text[j] = y PROVE Has(h, y)
  <2>1. Gives(h, n, j) /\ h[n].text[j] = y /\ n \in Nat /\ j \in Nat
    BY <1>1, <1>2, <1>4, <1>8
  <2> QED BY <2>1 DEF Has
<1> QED BY <1>5, <1>6, <1>7, <1>8 DEF h

\* The whole text of a part is its pieces, in order.
LEMMA WholeText ==
  ASSUME CodexAssumption, NEW m \in 1..Parts
  PROVE  LET t == [k \in 1..Pieces |-> <<m, k>>]
         IN /\ t \in Seq(Piece) /\ Len(t) = Pieces /\ t # <<>> /\ TextInOrder(t)
            /\ \A j \in 1..Len(t) : t[j] = <<m, j>>
<1> DEFINE t == [k \in 1..Pieces |-> <<m, k>>]
<1>1. Pieces \in Nat /\ Pieces >= 1 /\ Parts \in Nat
  BY DEF CodexAssumption
<1>2. \A k \in 1..Pieces : <<m, k>> \in Piece
  BY DEF Piece
<1>3. t \in Seq(Piece) /\ Len(t) = Pieces
  BY <1>1, <1>2
<1>4. \A j \in 1..Len(t) : t[j] = <<m, j>>
  BY <1>3
<1> HIDE DEF t
<1>5. t # <<>>
  BY <1>1, <1>3
<1>6. TextInOrder(t)
  <2>1. SUFFICES ASSUME NEW j \in 1..Len(t), NEW l \in 1..Len(t), j < l PROVE Before(t[j], t[l])
    BY DEF TextInOrder
  <2>2. t[j] = <<m, j>> /\ t[l] = <<m, l>>
    BY <1>4
  <2> QED BY <2>1, <2>2 DEF Before
<1> QED BY <1>3, <1>4, <1>5, <1>6 DEF t

\* Which chunk an event becomes.
LEMMA ChunkIs ==
  ASSUME CodexAssumption, NEW e \in Event \union {NoEvent}
  PROVE  LET t == [k \in 1..Pieces |-> <<e.part, k>>] IN
         /\ e.type = "delta" =>
              /\ e.piece \in Piece
              /\ Chunk(e) = [kind |-> "text", text |-> <<e.piece>>, attempt |-> attempt]
         /\ e.type = "done" =>
              /\ e.part \in 1..Parts
              /\ yielded_delta => Chunk(e) = NoEvent
              /\ ~yielded_delta => Chunk(e) = [kind |-> "text", text |-> t, attempt |-> attempt]
         /\ e.type = "tool" => Chunk(e) = [kind |-> "tool", text |-> <<>>, attempt |-> attempt]
         /\ e.type = "completed" => Chunk(e) = [kind |-> "last", text |-> <<>>, attempt |-> attempt]
         /\ e.type \in {"failed", "other", "none"} => Chunk(e) = NoEvent
         /\ e.type \in {"delta", "done", "tool", "completed", "failed", "other", "none"}
<1> DEFINE t == [k \in 1..Pieces |-> <<e.part, k>>]
<1>1. /\ e.type \in {"delta", "done", "tool", "completed", "failed", "other", "none"}
      /\ e.type = "delta" => e.piece \in Piece
      /\ e.type = "done" => e.part \in 1..Parts
  BY DEF Event, NoEvent
<1>2. e.type = "delta" => Text(e) = <<e.piece>> /\ Text(e) # <<>>
  BY DEF Text
<1>3. e.type = "done" /\ ~yielded_delta => Text(e) = t /\ t # <<>>
  BY <1>1, WholeText DEF Text
<1>4. e.type # "delta" /\ ~(e.type = "done" /\ ~yielded_delta) => Text(e) = <<>>
  BY DEF Text
<1> HIDE DEF t
<1>5. e.type = "delta" => Chunk(e) = [kind |-> "text", text |-> <<e.piece>>, attempt |-> attempt]
  BY <1>2 DEF Chunk
<1>6. e.type = "done" /\ ~yielded_delta => Chunk(e) = [kind |-> "text", text |-> t, attempt |-> attempt]
  BY <1>3 DEF Chunk
<1>7. e.type # "delta" /\ ~(e.type = "done" /\ ~yielded_delta) =>
        /\ e.type = "tool" => Chunk(e) = [kind |-> "tool", text |-> <<>>, attempt |-> attempt]
        /\ e.type = "completed" => Chunk(e) = [kind |-> "last", text |-> <<>>, attempt |-> attempt]
        /\ e.type \notin {"tool", "completed"} => Chunk(e) = NoEvent
  BY <1>4 DEF Chunk
<1> QED BY <1>1, <1>5, <1>6, <1>7 DEF t

LEMMA ChunkIsNoEvent ==
  ASSUME NEW k, NEW t, NEW a
  PROVE  [kind |-> k, text |-> t, attempt |-> a] # NoEvent
<1> SUFFICES ASSUME [kind |-> k, text |-> t, attempt |-> a] = NoEvent PROVE FALSE
  OBVIOUS
<1>1. DOMAIN [kind |-> k, text |-> t, attempt |-> a] = DOMAIN NoEvent
  OBVIOUS
<1>2. "kind" \in DOMAIN [kind |-> k, text |-> t, attempt |-> a] /\ "kind" \notin DOMAIN NoEvent
  BY DEF NoEvent
<1> QED BY <1>1, <1>2

\* The chunk of the event that waits is the next of the text, and no effect of another request.
LEMMA ChunkFits ==
  ASSUME CodexAssumption, CallInv, Chunk(block) # NoEvent
  PROVE  LET c == Chunk(block) IN
         /\ c \in ChunkType /\ c.attempt = attempt
         /\ block.type = "tool" => c.kind = "tool"
         /\ c.kind # "text" => c.text = <<>>
         /\ TextInOrder(c.text)
         /\ \A j \in 1..Len(c.text) :
              EndsBefore(given, c.text[j]) /\ Before(c.text[j], <<server.part, server.streamed + 1>>)
         /\ block.type = "delta" => \E j \in 1..Len(c.text) : c.text[j] = block.piece
<1> DEFINE c == Chunk(block)
<1> USE DEF CallInv
<1>0. attempt \in Nat /\ server.part \in Nat /\ server.streamed \in Nat
  BY DEF CallTypes, AnswerType, CodexAssumption
<1>1. CASE block.type = "delta"
  <2>1. block.piece \in Piece /\ c = [kind |-> "text", text |-> <<block.piece>>, attempt |-> attempt]
    BY <1>1, ChunkIs DEF CallTypes
  <2>2. EndsBefore(given, block.piece) /\ block.piece = <<server.part, server.streamed>>
    BY <1>1 DEF BlockHolds
  <2>3. Before(block.piece, <<server.part, server.streamed + 1>>)
    BY <1>0, <2>2 DEF Before
  <2> HIDE DEF c
  <2>4. c \in ChunkType /\ c.attempt = attempt /\ c.kind = "text" /\ c.text = <<block.piece>>
    BY <1>0, <2>1 DEF ChunkType
  <2>5. Len(c.text) = 1 /\ c.text[1] = block.piece
    BY <2>4
  <2>6. \A j \in 1..Len(c.text) : j = 1
    BY <2>5
  <2>7. TextInOrder(c.text)
    BY <2>6 DEF TextInOrder
  <2> QED BY <1>1, <2>2, <2>3, <2>4, <2>5, <2>6, <2>7 DEF c
<1>2. CASE block.type = "done"
  <2> DEFINE t == [k \in 1..Pieces |-> <<block.part, k>>]
  <2>1. /\ block.part \in 1..Parts /\ ~yielded_delta
        /\ c = [kind |-> "text", text |-> t, attempt |-> attempt]
    BY <1>2, ChunkIs DEF CallTypes
  <2>2. t \in Seq(Piece) /\ TextInOrder(t) /\ \A j \in 1..Len(t) : t[j] = <<block.part, j>>
    BY <2>1, WholeText
  <2> HIDE DEF t, c
  <2>3. c \in ChunkType /\ c.attempt = attempt /\ c.kind = "text" /\ c.text = t
    BY <1>0, <2>1, <2>2 DEF ChunkType
  <2>4. ASSUME NEW i \in Nat, NEW j \in Nat, Gives(given, i, j) PROVE FALSE
    <3>1. i \in 1..Len(given) /\ j \in 1..Len(given[i].text)
      BY <2>4 DEF Gives
    <3>2. given[i].text = <<>>
      BY <2>1, <3>1 DEF EffectsHold
    <3> QED BY <3>1, <3>2
  <2>5. \A z : EndsBefore(given, z)
    BY <2>4 DEF EndsBefore
  <2>6. block.part = server.part - 1
    BY <1>2 DEF BlockHolds
  <2>7. ASSUME NEW j \in 1..Len(t) PROVE Before(t[j], <<server.part, server.streamed + 1>>)
    <3>1. t[j] = <<block.part, j>> /\ block.part < server.part
      BY <1>0, <2>1, <2>2, <2>6
    <3> QED BY <3>1 DEF Before
  <2> QED BY <1>2, <2>2, <2>3, <2>5, <2>7 DEF c
<1>3. CASE block.type \in {"tool", "completed"}
  <2>1. /\ block.type = "tool" => c = [kind |-> "tool", text |-> <<>>, attempt |-> attempt]
        /\ block.type = "completed" => c = [kind |-> "last", text |-> <<>>, attempt |-> attempt]
    BY <1>3, ChunkIs DEF CallTypes
  <2> HIDE DEF c
  <2>2. c.kind \in {"tool", "last"} /\ c.text = <<>> /\ c.attempt = attempt
        /\ c = [kind |-> c.kind, text |-> <<>>, attempt |-> attempt]
        /\ (block.type = "tool" => c.kind = "tool")
    BY <1>3, <2>1
  <2>3. c \in ChunkType
    <3>1. <<>> \in Seq(Piece) /\ c.kind \in {"text", "tool", "last"}
      BY <2>2
    <3>2. [kind |-> c.kind, text |-> <<>>, attempt |-> attempt] \in ChunkType
      BY <1>0, <3>1 DEF ChunkType
    <3> QED BY <2>2, <3>2
  <2>4. \A j \in 1..Len(c.text) : FALSE
    BY <2>2
  <2>5. TextInOrder(c.text)
    BY <2>4 DEF TextInOrder
  <2> QED BY <1>3, <2>2, <2>3, <2>4, <2>5 DEF c
<1> QED BY <1>1, <1>2, <1>3, ChunkIs DEF CallTypes

LEMMA CallInitHolds ==
  ASSUME CodexAssumption, CodexInit
  PROVE  CallInv
<1>1. CallTypes
  <2>1. NewAnswer \in AnswerType
    BY DEF CodexAssumption, NewAnswer, AnswerType
  <2>2. <<>> \in Seq(ChunkType) /\ 0 \in 0..MaxRetries
    BY DEF CodexAssumption
  <2> QED BY <2>1, <2>2 DEF CodexInit, CallTypes
<1>2. Len(given) = 0 /\ ~yielded_delta /\ ~yielded_effect /\ server.said = {} /\ server.over = "no"
      /\ block.type = "none" /\ server = NewAnswer /\ block = NoEvent /\ phase = "sending"
  BY DEF CodexInit, NewAnswer, NoEvent
<1>3. EffectsHold
  BY <1>2 DEF EffectsHold
<1>4. \A i, j \in Nat : ~Gives(given, i, j)
  BY <1>2 DEF Gives
<1>5. BlockHolds
  BY <1>2 DEF BlockHolds
<1>6. TextHolds
  BY <1>2, <1>4 DEF TextHolds, InOrder, EndsBefore
<1> QED BY <1>1, <1>3, <1>5, <1>6 DEF CallInv

\* A request that failed, or a call that is cancelled: nothing more is given.
LEMMA CallStops ==
  ASSUME CodexAssumption, CallInv, phase \in {"sending", "reading", "backoff"},
         phase' \in {"backoff", "raised", "cancelled"}, phase' = "backoff" => ~yielded_effect /\ attempt < MaxRetries,
         UNCHANGED <<attempt, yielded_delta, yielded_effect, given, server>>,
         block' = NoEvent \/ (block' = block /\ phase' = "cancelled")
  PROVE  CallInv'
<1> USE DEF CallInv
<1>1. CallTypes'
  BY DEF CallTypes
<1>2. EffectsHold'
  BY DEF EffectsHold
<1>3. BlockHolds'
  BY DEF BlockHolds, NoEvent
<1>4. TextHolds'
  BY DEF TextHolds
<1> QED BY <1>1, <1>2, <1>3, <1>4

LEMMA FlushHolds ==
  ASSUME CodexAssumption, CallInv, phase = "reading", NEW next \in {"reading", "returned"},
         Flush(block, next), block' = NoEvent, UNCHANGED server
  PROVE  CallInv'
<1> USE DEF CallInv
<1>1. CASE Raises(block)
  <2>1. /\ phase' \in {"backoff", "raised"} /\ (phase' = "backoff" => ~yielded_effect /\ attempt < MaxRetries)
        /\ UNCHANGED <<attempt, yielded_delta, yielded_effect, given>>
    BY <1>1 DEF Flush, Except
  <2> QED BY <2>1, CallStops
<1>2. ASSUME ~Raises(block) PROVE server.over # "failed" /\ block'.type = "none"
  BY <1>2 DEF Raises, BlockHolds, NoEvent
<1>3. CASE ~Raises(block) /\ Chunk(block) = NoEvent
  <2>1. /\ phase' = next
        /\ UNCHANGED <<attempt, yielded_delta, yielded_effect, given>>
    BY <1>3 DEF Flush
  <2>2. block.type # "delta"
    BY <1>3, ChunkIs, ChunkIsNoEvent DEF CallTypes
  <2>3. CallTypes'
    BY <2>1 DEF CallTypes
  <2>4. EffectsHold'
    BY <2>1 DEF EffectsHold
  <2>5. BlockHolds'
    BY <1>2, <1>3, <2>1 DEF BlockHolds
  <2>6. TextHolds'
    BY <2>1, <2>2 DEF TextHolds
  <2> QED BY <2>3, <2>4, <2>5, <2>6
<1>4. CASE ~Raises(block) /\ Chunk(block) # NoEvent
  <2> DEFINE c == Chunk(block)
             n == Len(given) + 1
  <2>1. /\ phase' = next /\ given' = Append(given, c)
        /\ yielded_delta' = (yielded_delta \/ c.kind = "text")
        /\ yielded_effect' = (yielded_effect \/ c.kind \in {"text", "tool"})
        /\ UNCHANGED attempt
    BY <1>4 DEF Flush
  <2>2. /\ c \in ChunkType /\ c.attempt = attempt
        /\ c.kind # "text" => c.text = <<>>
        /\ TextInOrder(c.text)
        /\ \A j \in 1..Len(c.text) :
             EndsBefore(given, c.text[j]) /\ Before(c.text[j], <<server.part, server.streamed + 1>>)
        /\ block.type = "delta" => \E j \in 1..Len(c.text) : c.text[j] = block.piece
    BY <1>4, ChunkFits
  <2>3. given \in Seq(ChunkType)
    BY DEF CallTypes
  <2>4. /\ given' \in Seq(ChunkType) /\ Len(given') = n /\ Len(given) \in Nat
        /\ \A i \in 1..Len(given) : given'[i] = given[i]
        /\ given'[n] = c
    BY <2>1, <2>2, <2>3, AppendShows
  <2>5. /\ InOrder(given)
              => InOrder(given')
        /\ EndsBefore(given, <<server.part, server.streamed + 1>>)
              => EndsBefore(given', <<server.part, server.streamed + 1>>)
        /\ \A y : Has(given, y) \/ (\E j \in 1..Len(c.text) : c.text[j] = y) => Has(given', y)
    BY <2>1, <2>2, <2>3, AppendText
  <2> HIDE DEF c
  <2>6. CallTypes'
    BY <2>1, <2>2, <2>4 DEF CallTypes
  <2>7. EffectsHold'
    <3>0. c.kind \in {"text", "tool", "last"} /\ attempt \in Nat
      BY <2>2 DEF ChunkType, CallTypes
    <3>1. ASSUME NEW i \in 1..Len(given')
          PROVE  /\ given'[i].attempt <= attempt
                 /\ given'[i].kind # "last" => yielded_effect' /\ given'[i].attempt = attempt
                 /\ IF given'[i].kind = "text" THEN yielded_delta' ELSE given'[i].text = <<>>
      <4>1. CASE i \in 1..Len(given)
        <5>1. given'[i] = given[i]
          BY <2>4, <4>1
        <5>2. /\ given[i].attempt <= attempt
              /\ given[i].kind # "last" => yielded_effect /\ given[i].attempt = attempt
              /\ IF given[i].kind = "text" THEN yielded_delta ELSE given[i].text = <<>>
          BY <4>1 DEF EffectsHold
        <5> QED BY <2>1, <5>1, <5>2
      <4>2. CASE i = n
        <5>1. given'[i] = c
          BY <2>4, <4>2
        <5>2. c.kind # "last" => yielded_effect'
          BY <2>1, <3>0
        <5>3. IF c.kind = "text" THEN yielded_delta' ELSE c.text = <<>>
          BY <2>1, <2>2
        <5> QED BY <2>2, <3>0, <5>1, <5>2, <5>3
      <4> QED BY <2>4, <3>1, <4>1, <4>2
    <3>2. yielded_delta' => yielded_effect'
      BY <2>1 DEF EffectsHold
    <3>3. phase' \notin {"sending", "backoff"} /\ attempt' = attempt
      BY <2>1
    <3> QED BY <3>1, <3>2, <3>3 DEF EffectsHold
  <2>8. BlockHolds'
    BY <1>2, <1>4, <2>1 DEF BlockHolds
  <2>9. TextHolds'
    <3>1. InOrder(given) /\ EndsBefore(given, <<server.part, server.streamed + 1>>)
      BY DEF TextHolds
    <3>2. \A y \in server.said : Has(given, y) \/ (block.type = "delta" /\ block.piece = y)
      BY DEF TextHolds
    <3>3. \A y \in server.said : Has(given', y)
      BY <2>2, <2>5, <3>2
    <3> QED BY <2>5, <3>1, <3>3 DEF TextHolds
  <2> QED BY <2>6, <2>7, <2>8, <2>9
<1> QED BY <1>1, <1>3, <1>4

\* The server goes on: what it has streamed so far lies behind its next event.
LEMMA ReceiveHolds ==
  ASSUME CodexAssumption, CallInv, Receive
  PROVE  CallInv'
<1> USE DEF CallInv
<1>1. PICK e \in Says(server) : block' = e /\ server' = Said(server, e)
  BY DEF Receive
<1>2. /\ phase = "reading" /\ block = NoEvent /\ server.over = "no" /\ e \in Event
      /\ UNCHANGED <<attempt, phase, yielded_delta, yielded_effect, given>>
  BY <1>1 DEF Receive, Says
<1>3. /\ e.type \in {"delta", "done", "tool", "completed", "failed", "other"}
      /\ e.type = "delta" => /\ server.part <= Parts /\ server.streamed < Pieces
                             /\ e.piece = <<server.part, server.streamed + 1>> /\ e.piece \in Piece
      /\ e.type = "done" => server.part <= Parts /\ e.part = server.part
  BY <1>1 DEF Says, Event
<1>4. /\ server.part \in 1..(Parts + 1) /\ server.streamed \in 0..Pieces /\ server.said \subseteq Piece
      /\ Parts \in Nat /\ Pieces \in Nat /\ Pieces >= 1 /\ server \in AnswerType
  BY DEF CallTypes, AnswerType, CodexAssumption
<1>5. server' \in AnswerType
  <2>1. CASE e.type = "delta"
    <3>1. server' = [server EXCEPT !.streamed = @ + 1, !.said = @ \union {e.piece}]
      BY <1>1, <2>1 DEF Said
    <3>2. server.streamed + 1 \in 0..Pieces /\ server.said \union {e.piece} \in SUBSET Piece
      BY <1>3, <1>4, <2>1
    <3> QED BY <1>4, <3>1, <3>2 DEF AnswerType
  <2>2. CASE e.type = "done"
    <3>1. server' = [server EXCEPT !.part = @ + 1, !.streamed = 0]
      BY <1>1, <2>2 DEF Said
    <3>2. server.part + 1 \in 1..(Parts + 1) /\ 0 \in 0..Pieces
      BY <1>3, <1>4, <2>2
    <3> QED BY <1>4, <3>1, <3>2 DEF AnswerType
  <2>3. CASE e.type \in {"tool", "completed", "failed", "other"}
    <3>1. server' \in {server, [server EXCEPT !.tool = TRUE], [server EXCEPT !.over = "completed"],
                       [server EXCEPT !.over = "failed"]}
      BY <1>1, <2>3 DEF Said
    <3> QED BY <1>4, <3>1 DEF AnswerType
  <2> QED BY <1>3, <2>1, <2>2, <2>3
<1>6. CallTypes'
  BY <1>1, <1>2, <1>5 DEF CallTypes
<1>7. EffectsHold'
  BY <1>2 DEF EffectsHold
<1>8. EndsBefore(given, <<server.part, server.streamed + 1>>)
  BY DEF TextHolds
<1>9. /\ block'.type = e.type /\ phase' = "reading" /\ given' = given /\ block.type = "none"
  BY <1>1, <1>2 DEF NoEvent
<1>10. CASE e.type = "delta"
  <2>1. server' = [server EXCEPT !.streamed = @ + 1, !.said = @ \union {e.piece}]
    BY <1>1, <1>10 DEF Said
  <2>2. server'.part = server.part /\ server'.streamed = server.streamed + 1 /\ server'.over = "no"
        /\ server'.said = server.said \union {e.piece}
    BY <1>2, <1>4, <2>1 DEF AnswerType
  <2>3. block'.piece = <<server'.part, server'.streamed>> /\ server'.streamed >= 1
    BY <1>1, <1>3, <1>4, <1>10, <2>2
  <2>4. BlockHolds'
    BY <1>1, <1>2, <1>3, <1>8, <1>9, <1>10, <2>2, <2>3 DEF BlockHolds
  <2>5. EndsBefore(given, <<server'.part, server'.streamed + 1>>)
    <3>1. SUFFICES ASSUME NEW i \in Nat, NEW j \in Nat, Gives(given, i, j)
                   PROVE  Before(given[i].text[j], <<server'.part, server'.streamed + 1>>)
      BY DEF EndsBefore
    <3>2. Before(given[i].text[j], <<server.part, server.streamed + 1>>)
      BY <1>8, <3>1 DEF EndsBefore
    <3>3. given[i].text[j][2] \in Nat
      <4>1. i \in 1..Len(given) /\ j \in 1..Len(given[i].text) /\ given \in Seq(ChunkType)
        BY <3>1 DEF Gives, CallTypes
      <4>2. given[i] \in ChunkType
        BY <4>1
      <4>3. given[i].text \in Seq(Piece)
        BY <4>2 DEF ChunkType
      <4>4. given[i].text[j] \in Piece
        BY <4>1, <4>3
      <4> QED BY <4>4 DEF Piece
    <3> QED BY <1>4, <2>2, <3>2, <3>3 DEF Before
  <2>6. \A y \in server.said : Has(given, y)
    BY <1>2, <1>9 DEF TextHolds
  <2>7. TextHolds'
    BY <1>1, <1>2, <1>9, <1>10, <2>2, <2>5, <2>6 DEF TextHolds
  <2> QED BY <1>6, <1>7, <2>4, <2>7
<1>11. CASE e.type = "done"
  <2>1. server' = [server EXCEPT !.part = @ + 1, !.streamed = 0]
    BY <1>1, <1>11 DEF Said
  <2>2. server'.part = server.part + 1 /\ server'.streamed = 0 /\ server'.over = "no"
        /\ server'.said = server.said
    BY <1>2, <1>4, <2>1 DEF AnswerType
  <2>3. BlockHolds'
    BY <1>1, <1>2, <1>3, <1>4, <1>9, <1>11, <2>2 DEF BlockHolds
  <2>4. EndsBefore(given, <<server'.part, server'.streamed + 1>>)
    <3>1. SUFFICES ASSUME NEW i \in Nat, NEW j \in Nat, Gives(given, i, j)
                   PROVE  Before(given[i].text[j], <<server'.part, server'.streamed + 1>>)
      BY DEF EndsBefore
    <3>2. Before(given[i].text[j], <<server.part, server.streamed + 1>>)
      BY <1>8, <3>1 DEF EndsBefore
    <3>3. given[i].text[j][1] \in Nat
      <4>1. i \in 1..Len(given) /\ j \in 1..Len(given[i].text) /\ given \in Seq(ChunkType)
        BY <3>1 DEF Gives, CallTypes
      <4>2. given[i] \in ChunkType
        BY <4>1
      <4>3. given[i].text \in Seq(Piece)
        BY <4>2 DEF ChunkType
      <4>4. given[i].text[j] \in Piece
        BY <4>1, <4>3
      <4> QED BY <4>4 DEF Piece
    <3> QED BY <1>4, <2>2, <3>2, <3>3 DEF Before
  <2>5. TextHolds'
    BY <1>2, <1>9, <1>11, <2>2, <2>4 DEF TextHolds
  <2> QED BY <1>6, <1>7, <2>3, <2>5
<1>12. CASE e.type \in {"tool", "completed", "failed", "other"}
  <2>1. server' \in {server, [server EXCEPT !.tool = TRUE], [server EXCEPT !.over = "completed"],
                     [server EXCEPT !.over = "failed"]}
        /\ (server' = [server EXCEPT !.over = "failed"] => e.type = "failed")
    <3>1. /\ [server EXCEPT !.tool = TRUE].over = "no" /\ [server EXCEPT !.over = "completed"].over = "completed"
          /\ [server EXCEPT !.over = "failed"].over = "failed"
      BY <1>2, <1>4 DEF AnswerType
    <3> QED BY <1>1, <1>2, <1>12, <3>1 DEF Said
  <2>2. server'.part = server.part /\ server'.streamed = server.streamed /\ server'.said = server.said
        /\ (server'.over = "failed" => e.type = "failed")
    BY <1>2, <1>4, <2>1 DEF AnswerType
  <2>3. BlockHolds'
    BY <1>2, <1>9, <1>12, <2>2 DEF BlockHolds
  <2>4. TextHolds'
    BY <1>2, <1>9, <1>12, <2>2 DEF TextHolds
  <2> QED BY <1>6, <1>7, <2>3, <2>4
<1> QED BY <1>3, <1>10, <1>11, <1>12

\* A request is sent again only when nothing of the last one was shown.
LEMMA SendAgainHolds ==
  ASSUME CodexAssumption, CallInv, SendAgain
  PROVE  CallInv'
<1> USE DEF CallInv
<1>1. /\ phase = "backoff" /\ phase' = "sending" /\ attempt' = attempt + 1 /\ server' = NewAnswer
      /\ UNCHANGED <<block, yielded_delta, yielded_effect, given>>
  BY DEF SendAgain
<1>2. block = NoEvent /\ ~yielded_effect /\ ~yielded_delta /\ attempt \in Nat /\ MaxRetries \in Nat
      /\ attempt < MaxRetries
  BY <1>1 DEF BlockHolds, EffectsHold, CallTypes, CodexAssumption
<1>3. NewAnswer \in AnswerType /\ NewAnswer.over = "no"
  BY DEF NewAnswer, AnswerType, CodexAssumption
<1>4. CallTypes'
  BY <1>1, <1>2, <1>3 DEF CallTypes
<1>5. \A i \in 1..Len(given) :
        given[i].attempt <= attempt /\ given[i].kind = "last" /\ given[i].text = <<>>
  BY <1>2 DEF EffectsHold
<1>6. EffectsHold'
  <2>1. ASSUME NEW i \in 1..Len(given) PROVE given[i].attempt <= attempt + 1
    <3>1. given[i].attempt \in Nat
      <4>1. given[i] \in ChunkType
        BY DEF CallTypes
      <4> QED BY <4>1 DEF ChunkType
    <3> QED BY <1>2, <1>5, <3>1
  <2> QED BY <1>1, <1>2, <1>5, <2>1 DEF EffectsHold
<1>7. BlockHolds'
  BY <1>1, <1>2, <1>3 DEF BlockHolds, NoEvent
<1>8. ASSUME NEW i \in Nat, NEW j \in Nat, Gives(given, i, j) PROVE FALSE
  <2>1. i \in 1..Len(given) /\ j \in 1..Len(given[i].text)
    BY <1>8 DEF Gives
  <2>2. given[i].text = <<>>
    BY <1>5, <2>1
  <2> QED BY <2>1, <2>2
<1>9. TextHolds'
  BY <1>1, <1>8 DEF TextHolds, InOrder, EndsBefore
<1> QED BY <1>4, <1>6, <1>7, <1>9

LEMMA CallNextHolds ==
  ASSUME CodexAssumption, CallInv, [CodexNext]_codexVars
  PROVE  CallInv'
<1>0. attempt \in Nat /\ MaxRetries \in Nat
  BY DEF CallInv, CallTypes, CodexAssumption
<1>1. ASSUME NEW retryable \in BOOLEAN, Except(retryable)
      PROVE  /\ phase' \in {"backoff", "raised"}
             /\ phase' = "backoff" => ~yielded_effect /\ attempt < MaxRetries
             /\ UNCHANGED <<attempt, yielded_delta, yielded_effect, given>>
  BY <1>0, <1>1 DEF Except
<1>2. CASE Connect
  <2>1. CASE phase' = "reading"
    <3>1. /\ phase = "sending" /\ server = NewAnswer /\ block = NoEvent
          /\ UNCHANGED <<attempt, yielded_delta, yielded_effect, given, block, server>>
      BY <1>1, <1>2, <2>1 DEF Connect, CallInv, BlockHolds
    <3>2. server.over = "no" /\ server.said = {} /\ block.type = "none"
      BY <3>1 DEF NewAnswer, NoEvent
    <3>3. CallTypes'
      BY <2>1, <3>1 DEF CallInv, CallTypes
    <3>4. EffectsHold'
      BY <2>1, <3>1 DEF CallInv, EffectsHold
    <3>5. BlockHolds'
      BY <2>1, <3>1, <3>2 DEF BlockHolds
    <3>6. TextHolds'
      BY <2>1, <3>1, <3>2 DEF CallInv, TextHolds
    <3> QED BY <3>3, <3>4, <3>5, <3>6 DEF CallInv
  <2>2. CASE phase' # "reading"
    <3>1. PICK retryable \in BOOLEAN : Except(retryable)
      BY <1>2, <2>2 DEF Connect
    <3>2. phase = "sending" /\ block' = block /\ server' = server /\ block = NoEvent
      BY <1>2 DEF Connect, CallInv, BlockHolds
    <3> QED BY <1>1, <3>1, <3>2, CallStops
  <2> QED BY <2>1, <2>2
<1>3. CASE BlankLine
  BY <1>3, FlushHolds DEF BlankLine
<1>4. CASE EndOfBody
  BY <1>4, FlushHolds DEF EndOfBody
<1>5. CASE Break
  BY <1>1, <1>5, CallStops DEF Break
<1>6. CASE /\ phase \in {"sending", "reading", "backoff"} /\ phase' = "cancelled"
           /\ UNCHANGED <<attempt, block, yielded_delta, yielded_effect, given, server>>
  BY <1>6, CallStops
<1>7. CASE UNCHANGED codexVars
  BY <1>7 DEF codexVars, CallInv, CallTypes, EffectsHold, BlockHolds, TextHolds
<1> QED BY <1>2, <1>3, <1>4, <1>5, <1>6, <1>7, ReceiveHolds, SendAgainHolds
        DEF CodexNext, AStream, Stream

LEMMA InvKeepsAnswer ==
  ASSUME CodexAssumption, CallInv
  PROVE  AnswerIsWhole
<1> USE DEF CallInv
<1>0. \A i \in 1..Len(given) : given[i] \in ChunkType
  BY DEF CallTypes
<1>1. CodexTypeOK
  <2>1. \A i \in 1..Len(given) :
          given[i].kind \in {"text", "tool", "last"} /\ given[i].attempt \in 0..attempt
    <3>1. \A i \in 1..Len(given) : given[i].kind \in {"text", "tool", "last"} /\ given[i].attempt \in Nat
      BY <1>0 DEF ChunkType
    <3>2. \A i \in 1..Len(given) : given[i].attempt <= attempt
      BY DEF EffectsHold
    <3>3. attempt \in Nat
      BY DEF CallTypes, CodexAssumption
    <3> QED BY <3>1, <3>2, <3>3
  <2> QED BY <2>1 DEF CodexTypeOK, CallTypes, AnswerType
<1>2. OneAnswer
  BY DEF OneAnswer, Effects, EffectsHold
<1>3. ASSUME NEW x \in Shown
      PROVE  \E i, j \in Nat : x = <<i, j>> /\ Gives(given, i, j) /\ At(x) = given[i].text[j]
  <2>1. PICK i \in 1..Len(given) : x \in {<<i, j>> : j \in 1..Len(given[i].text)}
    BY <1>3 DEF Shown
  <2>2. PICK j \in 1..Len(given[i].text) : x = <<i, j>>
    BY <2>1
  <2> QED BY <2>2 DEF Gives, At
<1>4. TextOnce
  <2>1. SUFFICES ASSUME NEW x \in Shown, NEW y \in Shown, Before(x, y) PROVE Before(At(x), At(y))
    BY DEF TextOnce
  <2>2. PICK i \in Nat, j \in Nat : x = <<i, j>> /\ Gives(given, i, j) /\ At(x) = given[i].text[j]
    BY <1>3
  <2>3. PICK k \in Nat, l \in Nat : y = <<k, l>> /\ Gives(given, k, l) /\ At(y) = given[k].text[l]
    BY <1>3
  <2>4. i < k \/ (i = k /\ j < l)
    BY <2>1, <2>2, <2>3 DEF Before
  <2> QED BY <2>2, <2>3, <2>4 DEF TextHolds, InOrder
<1>5. NothingSkipped
  <2>1. SUFFICES ASSUME phase = "returned", NEW y \in server.said PROVE \E x \in Shown : At(x) = y
    BY DEF NothingSkipped
  <2>2. block.type # "delta"
    BY <2>1 DEF BlockHolds, NoEvent
  <2>3. Has(given, y)
    BY <2>1, <2>2 DEF TextHolds
  <2>4. PICK i \in Nat, j \in Nat : Gives(given, i, j) /\ given[i].text[j] = y
    BY <2>3 DEF Has
  <2>5. <<i, j>> \in Shown /\ At(<<i, j>>) = y
    BY <2>4 DEF Gives, Shown, At
  <2> QED BY <2>5
<1>6. FailureIsTold
  BY DEF FailureIsTold, BlockHolds
<1> QED BY <1>1, <1>2, <1>4, <1>5, <1>6 DEF AnswerIsWhole

\* However often the request fails, and wherever the connection breaks: the consumer has
\* one answer, in order, all of it once the call returns, and no failed one as a success.
THEOREM CallGivesOneAnswer == CodexAssumption => (CodexSpec => []AnswerIsWhole)
<1> SUFFICES ASSUME CodexAssumption PROVE CodexSpec => []AnswerIsWhole
  OBVIOUS
<1>1. CodexInit => CallInv
  BY CallInitHolds
<1>2. CallInv /\ [CodexNext]_codexVars => CallInv'
  BY CallNextHolds
<1>3. CallInv => AnswerIsWhole
  BY InvKeepsAnswer
<1> QED BY <1>1, <1>2, <1>3, PTL DEF CodexSpec
=============================================================================
