-------------------------- MODULE ChannelTurnProofs --------------------------
(* Proofs about ChannelTurn, for any events, handlers, bounds and faults:  *)
(* whatever is handed over twice, runs out, fails or dies, an event has    *)
(* one live holder and one effect, who is told "received" has had it, and  *)
(* one "y" approves one review while nothing goes wrong (ActsOnce); and no *)
(* message is acted on beside a run its handler could have seen            *)
(* (ActsBesideNoSeenRun).                                                  *)
EXTENDS ChannelTurn, FiniteSetTheorems, SequenceTheorems, TLAPS

----------------------------------------------------------------------------
(* The order of the Tasks                                                  *)

\* RemoveFirst takes the one occurrence out and leaves the others in their order.
LEMMA RemovedOrders ==
  ASSUME NEW T, NEW s, Orders(s, T), NEW e
  PROVE Orders(RemoveFirst(s, e), T \ {e})
<1> DEFINE n == Len(s)
<1>0. /\ s \in Seq(T) /\ n \in Nat /\ DOMAIN s = 1..n
      /\ \A i \in 1..n : s[i] \in T
      /\ \A t \in T : \E i \in 1..n : s[i] = t
      /\ \A i, j \in 1..n : s[i] = s[j] => i = j
  BY LenProperties, ElementOfSeq DEF Orders, Range, IsInjective
<1>1. CASE e \notin T
  <2>1. RemoveFirst(s, e) = s
    BY <1>0, <1>1 DEF RemoveFirst
  <2> QED BY <1>1, <2>1 DEF Orders
<1>2. CASE e \in T
  <2>1. PICK k \in 1..n : s[k] = e
    BY <1>0, <1>2
  <2> DEFINE a == SubSeq(s, 1, k - 1)
             b == SubSeq(s, k + 1, n)
             r == a \o b
  <2>2. RemoveFirst(s, e) = r
    <3>1. {i \in 1..n : s[i] = e} = {k}
      BY <1>0, <2>1
    <3>2. Min({k}) = k
      BY <2>1 DEF Min
    <3>3. SelectInSeq(s, LAMBDA v : v = e) = k
      BY <3>1, <3>2 DEF SelectInSeq
    <3> QED BY <2>1, <3>3 DEF RemoveFirst, RemoveAt
  <2>3. a \in Seq(T) /\ Len(a) = k - 1 /\ \A i \in 1..(k - 1) : a[i] = s[i]
    BY <1>0, SubSeqProperties
  <2>4. b \in Seq(T) /\ Len(b) = n - k /\ \A i \in 1..(n - k) : b[i] = s[i + k]
    <3>1. \A i \in (k + 1)..n : s[i] \in T
      BY <1>0
    <3>2. /\ b \in Seq(T) /\ Len(b) = IF k + 1 <= n THEN n - (k + 1) + 1 ELSE 0
          /\ \A i \in 1..(n - (k + 1) + 1) : b[i] = s[(k + 1) + i - 1]
      <4> HIDE DEF n
      <4> QED BY <1>0, <3>1, SubSeqProperties
    <3> HIDE DEF n, b
    <3>3. n - (k + 1) + 1 = n - k /\ (k + 1 <= n \/ n - k = 0)
      BY <1>0
    <3>4. \A i \in 1..(n - k) : (k + 1) + i - 1 = i + k
      BY <1>0
    <3> QED BY <3>2, <3>3, <3>4
  <2> HIDE DEF a, b
  <2>5. /\ r \in Seq(T) /\ Len(r) = n - 1
        /\ \A i \in 1..(n - 1) : r[i] = IF i < k THEN s[i] ELSE s[i + 1]
    <3>1. /\ r \in Seq(T) /\ Len(r) = Len(a) + Len(b)
          /\ \A i \in 1..(Len(a) + Len(b)) : r[i] = IF i <= Len(a) THEN a[i] ELSE b[i - Len(a)]
      BY <2>3, <2>4, ConcatProperties
    <3> HIDE DEF r, n
    <3>2. Len(a) + Len(b) = n - 1
      BY <1>0, <2>3, <2>4
    <3>3. \A i \in 1..(n - 1) : r[i] = IF i <= k - 1 THEN a[i] ELSE b[i - (k - 1)]
      BY <3>1, <3>2, <2>3
    <3>4. ASSUME NEW i \in 1..(n - 1), i < k PROVE r[i] = s[i]
      <4>1. i <= k - 1 /\ i \in 1..(k - 1)
        BY <3>4, <1>0
      <4> QED BY <4>1, <3>3, <2>3
    <3>5. ASSUME NEW i \in 1..(n - 1), ~(i < k) PROVE r[i] = s[i + 1]
      <4>1. ~(i <= k - 1) /\ i - (k - 1) \in 1..(n - k) /\ (i - (k - 1)) + k = i + 1
        BY <3>5, <1>0
      <4> QED BY <4>1, <3>3, <2>4
    <3>6. r \in Seq(T) /\ Len(r) = n - 1
      BY <3>1, <3>2
    <3> QED BY <3>4, <3>5, <3>6
  <2> HIDE DEF r, n
  <2>6. DOMAIN r = 1..(n - 1)
    BY <2>5, LenProperties
  <2>7. \A i \in 1..(n - 1) : i + 1 \in 1..n /\ i \in 1..n
    BY <1>0
  <2>8. \A i \in 1..(n - 1) : r[i] \in T \ {e}
    BY <1>0, <2>1, <2>5, <2>7
  <2>9. r \in Seq(T \ {e})
    <3>1. r \in [1..(n - 1) -> T \ {e}]
      BY <2>5, <2>6, <2>8, LenProperties
    <3>2. n - 1 \in Nat
      BY <1>0, <2>1
    <3> QED BY <3>1, <3>2
  <2>10. \A t \in T \ {e} : \E i \in 1..(n - 1) : r[i] = t
    <3> SUFFICES ASSUME NEW t \in T \ {e} PROVE \E i \in 1..(n - 1) : r[i] = t
      OBVIOUS
    <3>1. PICK i \in 1..n : s[i] = t
      BY <1>0
    <3>2. i # k
      BY <3>1, <2>1
    <3>3. CASE i < k
      <4>1. i \in 1..(n - 1)
        BY <3>3, <1>0
      <4> QED BY <4>1, <3>1, <3>3, <2>5
    <3>4. CASE i > k
      <4>1. i - 1 \in 1..(n - 1) /\ ~(i - 1 < k) /\ (i - 1) + 1 = i
        BY <3>4, <1>0
      <4> QED BY <4>1, <3>1, <2>5
    <3> QED BY <3>2, <3>3, <3>4, <1>0
  <2>11. ASSUME NEW i \in 1..(n - 1), NEW j \in 1..(n - 1), r[i] = r[j] PROVE i = j
    <3> DEFINE Was(x) == IF x < k THEN x ELSE x + 1
    <3>1. s[Was(i)] = s[Was(j)] /\ Was(i) \in 1..n /\ Was(j) \in 1..n
      BY <2>5, <2>7, <2>11
    <3>2. Was(i) = Was(j)
      BY <3>1, <1>0
    <3> QED BY <3>2, <1>0
  <2>12. Range(r) = T \ {e}
    BY <2>6, <2>8, <2>10 DEF Range
  <2> QED BY <2>2, <2>6, <2>9, <2>11, <2>12 DEF Orders, IsInjective
<1> QED BY <1>1, <1>2

\* What is new goes to the end.
LEMMA AppendedOrders ==
  ASSUME NEW T, NEW s, Orders(s, T), NEW e, e \notin T
  PROVE Orders(Append(s, e), T \union {e})
<1>0. /\ s \in Seq(T) /\ Len(s) \in Nat /\ DOMAIN s = 1..Len(s)
      /\ \A i \in 1..Len(s) : s[i] \in T
      /\ \A t \in T : \E i \in 1..Len(s) : s[i] = t
      /\ \A i, j \in 1..Len(s) : s[i] = s[j] => i = j
  BY LenProperties, ElementOfSeq DEF Orders, Range, IsInjective
<1> DEFINE r == Append(s, e)
<1>1. s \in Seq(T \union {e})
  BY <1>0, SeqMonotonic
<1>2. /\ r \in Seq(T \union {e}) /\ Len(r) = Len(s) + 1
      /\ \A i \in 1..Len(s) : r[i] = s[i]
      /\ r[Len(s) + 1] = e
  BY <1>1, AppendProperties
<1> HIDE DEF r
<1>3. DOMAIN r = 1..(Len(s) + 1)
  BY <1>2, LenProperties
<1>4. \A i \in 1..(Len(s) + 1) : i \in 1..Len(s) \/ i = Len(s) + 1
  BY <1>0
<1>5. 1..Len(s) \subseteq 1..(Len(s) + 1) /\ Len(s) + 1 \in 1..(Len(s) + 1)
  BY <1>0
<1>6. \A i, j \in 1..(Len(s) + 1) : r[i] = r[j] => i = j
  BY <1>0, <1>2, <1>4
<1>7. Range(r) = T \union {e}
  BY <1>0, <1>2, <1>3, <1>4, <1>5 DEF Range
<1> QED BY <1>2, <1>3, <1>6, <1>7 DEF Orders, IsInjective, r

\* The Task last updated is one of those there are; touching one keeps the order.
LEMMA LatestIs ==
  ASSUME NEW T, Orders(recent, T), Latest # NoTask
  PROVE  Latest \in T
<1>1. recent \in Seq(T) /\ recent # <<>> /\ Latest = recent[Len(recent)]
  BY DEF Latest, Orders, Last
<1>2. Len(recent) \in 1..Len(recent)
  BY <1>1, EmptySeq
<1> QED BY <1>1, <1>2, ElementOfSeq

LEMMA TouchedOrders ==
  ASSUME NEW T, Orders(recent, T), NEW t
  PROVE  Orders(Touched(t), T \union {t})
<1>1. Orders(RemoveFirst(recent, t), T \ {t})
  BY RemovedOrders
<1>2. Orders(Touched(t), (T \ {t}) \union {t})
  BY <1>1, AppendedOrders DEF Touched
<1>3. (T \ {t}) \union {t} = T \union {t}
  OBVIOUS
<1> QED BY <1>2, <1>3

----------------------------------------------------------------------------
(* The invariant                                                           *)

\* What a handler's state relies on: its event; the Task it is about to touch; that
\* it says "received" only of what has had its effect (eff); and that the polling
\* loop handles the update it has got to (off).
Sound(h, eff, off) ==
  /\ h \in HandlerState
  /\ h.pc # "idle" => h.ev \in Events
  /\ h.pc \in {"before", "send", "decide", "adopt"} => h.task \in Events
  /\ h.pc = "adopt" => h.then \in {"before", "decide", "reply"}
  /\ h.pc = "bind" => h.say = "started"
  /\ h.pc # "idle" /\ h.say = "started" => eff[h.ev] = 1
  /\ h.pc # "idle" /\ Ingress = "poll" => h.ev = off

Workshop == wk \in [Workers -> HandlerState] /\ \A w \in Workers : Sound(wk[w], effects, offset)

\* A handler whose claim has not run out has it.
Owns == \A w \in Workers :
  wk[w].pc # "idle" /\ ~wk[w].lapsed =>
    receipt[wk[w].ev] = [st |-> "claimed", by |-> w, old |-> FALSE]

Stores ==
  /\ receipt \in [Events -> [st : {"absent", "claimed", "free", "processed"},
                            by : Workers \union {Nobody}, old : BOOLEAN]]
  /\ given \in [Events -> 0..MaxDeliveries]
  /\ offset \in 1..(Cardinality(Events) + 1)
  /\ session \in Tasks
  /\ watched \subseteq Events
  /\ faults \in 0..MaxFaults

World ==
  /\ tasks \in [Events -> [st : {"none", "running", "review", "settled", "gone"},
                          rev : 0..MaxReviews]]
  /\ Orders(recent, {t \in Events : Live(t)})
  /\ approvals \in [Events -> SUBSET (Events \X (1..MaxReviews))]
  /\ \A t \in Events : tasks[t].st = "review" => tasks[t].rev > 0

\* A key is used with the one effect of its event, and only then is the event settled
\* by a turn receipt or the user told.
Ledgers ==
  /\ cmd \in [Events -> [op : Ops, task : Tasks]]
  /\ turn \in [Events -> [op : Ops, task : Tasks]]
  /\ effects \in [Events -> 0..1]
  /\ told \in [Events -> SUBSET Says]
  /\ \A e \in Events :
       /\ cmd[e] = Nothing <=> effects[e] = 0
       /\ turn[e] # Nothing => effects[e] = 1
       /\ "started" \in told[e] => effects[e] = 1

IInv == Stores /\ World /\ Ledgers /\ Workshop /\ Owns

----------------------------------------------------------------------------
(* A handler goes on                                                       *)

\* A handler that keeps its event, and no effect undone: all handlers are sound.
LEMMA OneMoves ==
  ASSUME IInv, NEW w \in Workers, NEW h,
         wk' = [wk EXCEPT ![w] = h], wk[w].pc # "idle",
         h.ev = wk[w].ev, h.lapsed = wk[w].lapsed,
         Sound(h, effects', offset'),
         offset' = offset, receipt' = receipt,
         \A e \in Events : effects[e] = 1 => effects'[e] = 1
  PROVE  Workshop' /\ Owns'
<1>1. wk' \in [Workers -> HandlerState]
  BY DEF IInv, Workshop, Sound
<1>2. ASSUME NEW v \in Workers PROVE Sound(wk'[v], effects', offset')
  <2>1. CASE v = w
    BY <2>1 DEF IInv, Workshop
  <2>2. CASE v # w
    <3>1. wk'[v] = wk[v] /\ Sound(wk[v], effects, offset)
      BY <2>2 DEF IInv, Workshop
    <3> QED BY <3>1 DEF Sound
  <2> QED BY <2>1, <2>2
<1>3. Owns'
  BY DEF IInv, Workshop, Owns
<1> QED BY <1>1, <1>2, <1>3 DEF Workshop

\* What the steps below take for granted of the events.
LEMMA EventsAre ==
  ASSUME ConstantsAssumption
  PROVE  /\ Cardinality(Events) \in Nat /\ Events = 1..Cardinality(Events)
         /\ 1 \in Events /\ NoTask \notin Events
<1>1. Cardinality(Events) \in Nat /\ Events = 1..Cardinality(Events) /\ Events # {}
  BY FS_CardinalityType DEF ConstantsAssumption
<1> QED BY <1>1 DEF NoTask

LEMMA WorldStands ==
  ASSUME World, UNCHANGED <<tasks, recent, approvals>>
  PROVE  World'
BY DEF World, Live

LEMMA LedgersStand ==
  ASSUME Ledgers, UNCHANGED <<cmd, turn, effects, told>>
  PROVE  Ledgers'
BY DEF Ledgers

\* What a snapshot of a Task leads to.
LEMMA ChosenIs ==
  ASSUME IInv, NEW w \in Workers, NEW t \in Events, wk[w].pc \in {"fetch", "list"}
  PROVE  LET h == Chosen(w, t) IN
         /\ h \in HandlerState /\ h.pc \in {"before", "decide", "reply"} /\ h.task = t
         /\ h.ev = wk[w].ev /\ h.lapsed = wk[w].lapsed
         /\ h.say = "started" => wk[w].say = "started"
<1>1. wk[w] \in HandlerState /\ t \in Tasks /\ tasks[t].rev \in 0..MaxReviews
  BY DEF IInv, Workshop, World, Tasks
<1>2. /\ {"before", "decide", "reply"} \subseteq Pcs
      /\ {"review", "busy", "nothing"} \subseteq Says
  BY DEF Pcs, Says
<1>3. Chosen(w, t) \in {ReviewChoice(w, t), TurnChoice(w, t)}
  BY DEF Chosen
<1>4. CASE Chosen(w, t) = ReviewChoice(w, t)
  BY <1>1, <1>2, <1>4 DEF ReviewChoice, HandlerState
<1>5. CASE Chosen(w, t) = TurnChoice(w, t)
  BY <1>1, <1>2, <1>5 DEF TurnChoice, HandlerState
<1> QED BY <1>3, <1>4, <1>5

LEMMA ReadTurnKeeps ==
  ASSUME ConstantsAssumption, IInv, NEW w \in Workers, ReadTurn(w)
  PROVE  IInv'
<1>0. /\ wk[w].pc = "turn" /\ wk[w] \in HandlerState /\ Sound(wk[w], effects, offset)
      /\ UNCHANGED <<receipt, given, offset, turn, session, tasks, recent, cmd, effects,
                     approvals, watched, told, faults>>
  BY DEF ReadTurn, At, IInv, Workshop, stored, gateway
<1>1. Stores' /\ World' /\ Ledgers'
  BY <1>0, WorldStands, LedgersStand DEF IInv, Stores
<1>2. CASE turn[Ev(w)] # Nothing
  <2> DEFINE h == [wk[w] EXCEPT !.pc = "reply", !.say = "started", !.task = turn[Ev(w)].task]
  <2>1. wk' = [wk EXCEPT ![w] = h]
    BY <1>2 DEF ReadTurn
  <2>2. turn[Ev(w)].task \in Tasks /\ effects[Ev(w)] = 1
    BY <1>0, <1>2 DEF IInv, Ledgers, Sound, Ev
  <2>3. Sound(h, effects', offset')
    BY <1>0, <2>2 DEF Sound, HandlerState, Pcs, Says, Ev
  <2>4. h.ev = wk[w].ev /\ h.lapsed = wk[w].lapsed
    BY <1>0 DEF HandlerState
  <2> HIDE DEF h
  <2> QED BY <1>0, <1>1, <2>1, <2>3, <2>4, OneMoves DEF IInv
<1>3. CASE turn[Ev(w)] = Nothing
  <2> DEFINE h == [wk[w] EXCEPT !.pc = IF KindOf(w) = "new" THEN "create" ELSE "session"]
  <2>1. wk' = [wk EXCEPT ![w] = h]
    BY <1>3 DEF ReadTurn, Goto
  <2>3. Sound(h, effects', offset')
    BY <1>0 DEF Sound, HandlerState, Pcs
  <2>4. h.ev = wk[w].ev /\ h.lapsed = wk[w].lapsed
    BY <1>0 DEF HandlerState
  <2> HIDE DEF h
  <2> QED BY <1>0, <1>1, <2>1, <2>3, <2>4, OneMoves DEF IInv
<1> QED BY <1>2, <1>3

\* A step that leaves the rows and the Gateway alone, the session perhaps excepted.
LEMMA Proceeds ==
  ASSUME IInv, NEW w \in Workers, wk[w].pc # "idle", NEW h,
         wk' = [wk EXCEPT ![w] = h], h.ev = wk[w].ev, h.lapsed = wk[w].lapsed,
         Sound(h, effects, offset), session' \in Tasks,
         UNCHANGED <<receipt, given, offset, turn, gateway, watched, told, faults>>
  PROVE  IInv'
<1>0. UNCHANGED <<tasks, recent, cmd, effects, approvals>>
  BY DEF gateway
<1>1. Stores' /\ World' /\ Ledgers'
  BY <1>0, WorldStands, LedgersStand DEF IInv, Stores
<1>2. Sound(h, effects', offset')
  BY <1>0
<1>3. Workshop' /\ Owns'
  BY <1>0, <1>2, OneMoves
<1> QED BY <1>1, <1>3 DEF IInv

LEMMA HandlerIs ==
  ASSUME IInv, NEW w \in Workers, wk[w].pc # "idle"
  PROVE  wk[w] \in HandlerState /\ wk[w].ev \in Events /\ Sound(wk[w], effects, offset)
BY DEF IInv, Workshop, Sound

\* A handler that only goes on to another place, where nothing new is relied on.
LEMMA Goes ==
  ASSUME IInv, NEW w \in Workers, NEW pc \in Pcs \ {"idle", "adopt", "bind"}, wk[w].pc # "idle",
         pc \in {"before", "send", "decide"} => wk[w].task \in Events
  PROVE  LET h == [wk[w] EXCEPT !.pc = pc] IN
         /\ Sound(h, effects, offset) /\ h.ev = wk[w].ev /\ h.lapsed = wk[w].lapsed
<1>1. wk[w] \in HandlerState /\ wk[w].ev \in Events /\ Sound(wk[w], effects, offset)
  BY HandlerIs
<1> DEFINE h == [wk[w] EXCEPT !.pc = pc]
<1>2. /\ h \in HandlerState /\ h.pc = pc /\ h.ev = wk[w].ev /\ h.lapsed = wk[w].lapsed
      /\ h.say = wk[w].say /\ h.task = wk[w].task
  BY <1>1 DEF HandlerState
<1> HIDE DEF h
<1>3. Sound(h, effects, offset)
  BY <1>1, <1>2 DEF Sound
<1> QED BY <1>2, <1>3 DEF h

LEMMA ReadSessionKeeps ==
  ASSUME ConstantsAssumption, IInv, NEW w \in Workers, ReadSession(w)
  PROVE  IInv'
<1>0. wk[w].pc = "session" /\ wk[w] \in HandlerState /\ wk[w].ev \in Events /\ Sound(wk[w], effects, offset)
  BY HandlerIs DEF ReadSession, At
<1> DEFINE h == [wk[w] EXCEPT !.pc = IF session = NoTask THEN "list" ELSE "fetch", !.task = session]
<1>1. /\ wk' = [wk EXCEPT ![w] = h] /\ session' = session /\ session \in Tasks
      /\ UNCHANGED <<receipt, given, offset, turn, gateway, watched, told, faults>>
  BY DEF ReadSession, stored, IInv, Stores
<1>2. h \in HandlerState /\ h.ev = wk[w].ev /\ h.lapsed = wk[w].lapsed
  BY <1>0, <1>1 DEF HandlerState, Pcs
<1>3. h.pc \in {"list", "fetch"} /\ h.say = wk[w].say
  BY <1>0 DEF HandlerState
<1> HIDE DEF h
<1>4. Sound(h, effects, offset)
  BY <1>0, <1>2, <1>3 DEF Sound
<1> QED BY <1>0, <1>1, <1>2, <1>4, Proceeds

LEMMA FetchKeeps ==
  ASSUME ConstantsAssumption, IInv, NEW w \in Workers, Fetch(w)
  PROVE  IInv'
<1>0. wk[w].pc = "fetch" /\ wk[w] \in HandlerState /\ wk[w].ev \in Events /\ Sound(wk[w], effects, offset)
  BY HandlerIs DEF Fetch, At
<1>1. UNCHANGED <<receipt, given, offset, turn, gateway, watched, told, faults>>
  BY DEF Fetch
<1>2. CASE Live(wk[w].task) /\ wk' = [wk EXCEPT ![w] = Chosen(w, wk[w].task)] /\ session' = session
  <2> DEFINE h == Chosen(w, wk[w].task)
  <2>1. wk[w].task \in Events /\ session' \in Tasks
    BY <1>0, <1>2 DEF HandlerState, Tasks, Live, IInv, Stores
  <2>2. /\ h \in HandlerState /\ h.pc \in {"before", "decide", "reply"} /\ h.task = wk[w].task
        /\ h.ev = wk[w].ev /\ h.lapsed = wk[w].lapsed
        /\ h.say = "started" => wk[w].say = "started"
    BY <1>0, <2>1, ChosenIs
  <2> HIDE DEF h
  <2>3. Sound(h, effects, offset)
    BY <1>0, <2>1, <2>2 DEF Sound
  <2>4. wk' = [wk EXCEPT ![w] = h]
    BY <1>2 DEF h
  <2> QED BY <1>0, <1>1, <2>1, <2>2, <2>3, <2>4, Proceeds
<1>3. CASE session' = NoTask /\ Goto(w, "list")
  <2>1. session' \in Tasks
    BY <1>3 DEF Tasks
  <2> DEFINE h == [wk[w] EXCEPT !.pc = "list"]
  <2>2. wk' = [wk EXCEPT ![w] = h]
    BY <1>3 DEF Goto
  <2>3. Sound(h, effects, offset) /\ h.ev = wk[w].ev /\ h.lapsed = wk[w].lapsed
    BY <1>0, Goes DEF Pcs
  <2> HIDE DEF h
  <2> QED BY <1>0, <1>1, <2>1, <2>2, <2>3, Proceeds
<1> QED BY <1>2, <1>3 DEF Fetch

LEMMA ListKeeps ==
  ASSUME ConstantsAssumption, IInv, NEW w \in Workers, List(w)
  PROVE  IInv'
<1>0. wk[w].pc = "list" /\ wk[w] \in HandlerState /\ wk[w].ev \in Events /\ Sound(wk[w], effects, offset)
  BY HandlerIs DEF List, At
<1>1. /\ session' \in Tasks
      /\ UNCHANGED <<receipt, given, offset, turn, gateway, watched, told, faults>>
  BY DEF List, stored, IInv, Stores
<1> DEFINE c == Chosen(w, Latest)
<1>2. CASE Latest # NoTask
  <2> DEFINE h == [c EXCEPT !.pc = "adopt", !.then = c.pc]
  <2>1. wk' = [wk EXCEPT ![w] = h]
    BY <1>2 DEF List
  <2>2. Latest \in Events
    BY <1>2, LatestIs DEF IInv, World
  <2>3. /\ c \in HandlerState /\ c.pc \in {"before", "decide", "reply"} /\ c.task = Latest
        /\ c.ev = wk[w].ev /\ c.lapsed = wk[w].lapsed
        /\ c.say = "started" => wk[w].say = "started"
    BY <1>0, <2>2, ChosenIs
  <2> HIDE DEF c
  <2>4. /\ h \in HandlerState /\ h.pc = "adopt" /\ h.then = c.pc /\ h.task = c.task
        /\ h.ev = c.ev /\ h.lapsed = c.lapsed /\ h.say = c.say
    BY <2>3 DEF HandlerState, Pcs
  <2> HIDE DEF h
  <2>5. Sound(h, effects, offset)
    BY <1>0, <2>2, <2>3, <2>4 DEF Sound
  <2> QED BY <1>0, <1>1, <2>1, <2>3, <2>4, <2>5, Proceeds
<1>3. CASE Latest = NoTask /\ KindOf(w) = "yes"
  <2> DEFINE h == [wk[w] EXCEPT !.pc = "reply", !.say = "nothing"]
  <2>1. wk' = [wk EXCEPT ![w] = h]
    BY <1>3 DEF List
  <2>2. /\ h \in HandlerState /\ h.pc = "reply" /\ h.say = "nothing"
        /\ h.ev = wk[w].ev /\ h.lapsed = wk[w].lapsed
    BY <1>0 DEF HandlerState, Pcs, Says
  <2> HIDE DEF h
  <2>3. Sound(h, effects, offset)
    BY <1>0, <2>2 DEF Sound
  <2> QED BY <1>0, <1>1, <2>1, <2>2, <2>3, Proceeds
<1>4. CASE Latest = NoTask /\ KindOf(w) # "yes"
  <2> DEFINE h == [wk[w] EXCEPT !.pc = "create"]
  <2>1. wk' = [wk EXCEPT ![w] = h]
    BY <1>4 DEF List
  <2>2. Sound(h, effects, offset) /\ h.ev = wk[w].ev /\ h.lapsed = wk[w].lapsed
    BY <1>0, Goes DEF Pcs
  <2> HIDE DEF h
  <2> QED BY <1>0, <1>1, <2>1, <2>2, Proceeds
<1> QED BY <1>2, <1>3, <1>4

LEMMA AdoptKeeps ==
  ASSUME ConstantsAssumption, IInv, NEW w \in Workers, Adopt(w)
  PROVE  IInv'
<1>0. wk[w].pc = "adopt" /\ wk[w] \in HandlerState /\ wk[w].ev \in Events /\ Sound(wk[w], effects, offset)
  BY HandlerIs DEF Adopt, At
<1>1. wk[w].task \in Events /\ wk[w].then \in {"before", "decide", "reply"}
  BY <1>0 DEF Sound
<1> DEFINE h == [wk[w] EXCEPT !.pc = wk[w].then]
<1>2. /\ wk' = [wk EXCEPT ![w] = h] /\ session' \in Tasks
      /\ UNCHANGED <<receipt, given, offset, turn, gateway, watched, told, faults>>
  BY <1>1 DEF Adopt, Goto, Tasks
<1>3. Sound(h, effects, offset) /\ h.ev = wk[w].ev /\ h.lapsed = wk[w].lapsed
  <2>1. wk[w].then \in Pcs \ {"idle", "adopt", "bind"}
    BY <1>1 DEF Pcs
  <2> QED BY <2>1, <1>0, <1>1, Goes
<1> HIDE DEF h
<1> QED BY <1>0, <1>2, <1>3, Proceeds

LEMMA BeforeKeeps ==
  ASSUME ConstantsAssumption, IInv, NEW w \in Workers, Before(w)
  PROVE  IInv'
<1>0. wk[w].pc = "before" /\ wk[w] \in HandlerState /\ wk[w].ev \in Events /\ Sound(wk[w], effects, offset)
  BY HandlerIs DEF Before, At
<1> DEFINE h == [wk[w] EXCEPT !.pc = "send"]
<1>1. /\ wk' = [wk EXCEPT ![w] = h] /\ session' \in Tasks
      /\ UNCHANGED <<receipt, given, offset, turn, gateway, watched, told, faults>>
  BY DEF Before, Goto, stored, IInv, Stores
<1>2. Sound(h, effects, offset) /\ h.ev = wk[w].ev /\ h.lapsed = wk[w].lapsed
  <2>1. wk[w].task \in Events
    BY <1>0 DEF Sound
  <2> QED BY <2>1, <1>0, Goes DEF Pcs
<1> HIDE DEF h
<1> QED BY <1>0, <1>1, <1>2, Proceeds

LEMMA UnbindKeeps ==
  ASSUME ConstantsAssumption, IInv, NEW w \in Workers, Unbind(w)
  PROVE  IInv'
<1>0. wk[w].pc = "unbind" /\ wk[w] \in HandlerState /\ wk[w].ev \in Events /\ Sound(wk[w], effects, offset)
  BY HandlerIs DEF Unbind, At
<1>1. /\ session' \in Tasks
      /\ UNCHANGED <<receipt, given, offset, turn, gateway, watched, told, faults>>
  BY DEF Unbind, Tasks
<1>2. CASE KindOf(w) = "start"
  <2> DEFINE h == [wk[w] EXCEPT !.pc = "create"]
  <2>1. wk' = [wk EXCEPT ![w] = h]
    BY <1>2 DEF Unbind
  <2>2. Sound(h, effects, offset) /\ h.ev = wk[w].ev /\ h.lapsed = wk[w].lapsed
    BY <1>0, Goes DEF Pcs
  <2> HIDE DEF h
  <2> QED BY <1>0, <1>1, <2>1, <2>2, Proceeds
<1>3. CASE KindOf(w) # "start"
  <2> DEFINE h == [wk[w] EXCEPT !.pc = "reply", !.say = "switched"]
  <2>1. wk' = [wk EXCEPT ![w] = h]
    BY <1>3 DEF Unbind
  <2>2. /\ h \in HandlerState /\ h.pc = "reply" /\ h.say = "switched"
        /\ h.ev = wk[w].ev /\ h.lapsed = wk[w].lapsed
    BY <1>0 DEF HandlerState, Pcs, Says
  <2> HIDE DEF h
  <2>3. Sound(h, effects, offset)
    BY <1>0, <2>2 DEF Sound
  <2> QED BY <1>0, <1>1, <2>1, <2>2, <2>3, Proceeds
<1> QED BY <1>2, <1>3

LEMMA ResumeKeeps ==
  ASSUME ConstantsAssumption, IInv, NEW w \in Workers, Resume(w)
  PROVE  IInv'
<1>0. wk[w].pc = "resume" /\ wk[w] \in HandlerState /\ wk[w].ev \in Events /\ Sound(wk[w], effects, offset)
  BY HandlerIs DEF Resume, At
<1>1. /\ session' \in Tasks
      /\ UNCHANGED <<receipt, given, offset, turn, gateway, watched, told, faults>>
  BY DEF Resume, stored, IInv, Stores
<1>2. CASE Live(1)
  <2> DEFINE h == [wk[w] EXCEPT !.pc = "rebind", !.task = 1, !.say = "resumed"]
  <2>1. wk' = [wk EXCEPT ![w] = h]
    BY <1>2 DEF Resume
  <2>2. 1 \in Tasks
    BY EventsAre DEF Tasks
  <2>3. /\ h \in HandlerState /\ h.pc = "rebind" /\ h.say = "resumed"
        /\ h.ev = wk[w].ev /\ h.lapsed = wk[w].lapsed
    BY <1>0, <2>2 DEF HandlerState, Pcs, Says
  <2> HIDE DEF h
  <2>4. Sound(h, effects, offset)
    BY <1>0, <2>3 DEF Sound
  <2> QED BY <1>0, <1>1, <2>1, <2>3, <2>4, Proceeds
<1>3. CASE ~Live(1)
  <2> DEFINE h == [wk[w] EXCEPT !.pc = "reply", !.say = "nothing"]
  <2>1. wk' = [wk EXCEPT ![w] = h]
    BY <1>3 DEF Resume
  <2>2. /\ h \in HandlerState /\ h.pc = "reply" /\ h.say = "nothing"
        /\ h.ev = wk[w].ev /\ h.lapsed = wk[w].lapsed
    BY <1>0 DEF HandlerState, Pcs, Says
  <2> HIDE DEF h
  <2>3. Sound(h, effects, offset)
    BY <1>0, <2>2 DEF Sound
  <2> QED BY <1>0, <1>1, <2>1, <2>2, <2>3, Proceeds
<1> QED BY <1>2, <1>3

LEMMA RebindKeeps ==
  ASSUME ConstantsAssumption, IInv, NEW w \in Workers, Rebind(w)
  PROVE  IInv'
<1>0. wk[w].pc = "rebind" /\ wk[w] \in HandlerState /\ wk[w].ev \in Events /\ Sound(wk[w], effects, offset)
  BY HandlerIs DEF Rebind, At
<1> DEFINE h == [wk[w] EXCEPT !.pc = "reply"]
<1>1. /\ wk' = [wk EXCEPT ![w] = h] /\ session' \in Tasks
      /\ UNCHANGED <<receipt, given, offset, turn, gateway, watched, told, faults>>
  BY <1>0 DEF Rebind, Goto, HandlerState
<1>2. Sound(h, effects, offset) /\ h.ev = wk[w].ev /\ h.lapsed = wk[w].lapsed
  BY <1>0, Goes DEF Pcs
<1> HIDE DEF h
<1> QED BY <1>0, <1>1, <1>2, Proceeds

LEMMA BindKeeps ==
  ASSUME ConstantsAssumption, IInv, NEW w \in Workers, Bind(w)
  PROVE  IInv'
<1> DEFINE e == wk[w].ev
           done == [op |-> wk[w].op, task |-> wk[w].task]
<1>0. wk[w].pc = "bind" /\ wk[w] \in HandlerState /\ e \in Events /\ Sound(wk[w], effects, offset)
  BY HandlerIs DEF Bind, At
<1>1. UNCHANGED <<receipt, given, offset, gateway, watched, told, faults>>
  BY DEF Bind
<1>2. done \in [op : Ops, task : Tasks] /\ effects[e] = 1
  BY <1>0 DEF HandlerState, Sound
<1>3. CASE session' = wk[w].task /\ turn' = [turn EXCEPT ![e] = done] /\ Goto(w, "reply")
  <2> DEFINE h == [wk[w] EXCEPT !.pc = "reply"]
  <2>1. wk' = [wk EXCEPT ![w] = h]
    BY <1>3 DEF Goto
  <2>2. Sound(h, effects, offset) /\ h.ev = wk[w].ev /\ h.lapsed = wk[w].lapsed
    BY <1>0, Goes DEF Pcs
  <2> HIDE DEF h
  <2>3. UNCHANGED <<receipt, offset, effects, tasks, recent, approvals, cmd, told, given, watched, faults>>
    BY <1>1 DEF gateway
  <2>4. Workshop' /\ Owns'
    BY <1>0, <2>1, <2>2, <2>3, OneMoves
  <2>5. Stores' /\ World'
    BY <1>0, <1>3, <2>3, WorldStands DEF IInv, Stores, HandlerState
  <2>6. Ledgers'
    <3> HIDE DEF done, e
    <3>1. turn' \in [Events -> [op : Ops, task : Tasks]]
      BY <1>0, <1>2, <1>3 DEF IInv, Ledgers
    <3>2. \A x \in Events : turn'[x] # Nothing => effects[x] = 1
      BY <1>0, <1>2, <1>3 DEF IInv, Ledgers
    <3> QED BY <2>3, <3>1, <3>2 DEF IInv, Ledgers
  <2> QED BY <2>4, <2>5, <2>6 DEF IInv
<1>4. CASE Fail(w) /\ UNCHANGED <<session, turn>>
  <2> DEFINE h == [wk[w] EXCEPT !.pc = "release"]
  <2>1. wk' = [wk EXCEPT ![w] = h] /\ session' \in Tasks
    BY <1>4 DEF Fail, Goto, IInv, Stores
  <2>2. Sound(h, effects, offset) /\ h.ev = wk[w].ev /\ h.lapsed = wk[w].lapsed
    BY <1>0, Goes DEF Pcs
  <2> HIDE DEF h
  <2> QED BY <1>0, <1>1, <1>4, <2>1, <2>2, Proceeds
<1> QED BY <1>3, <1>4 DEF Bind, Ev

\* A failed step: the claim will be given back.
LEMMA FailIs ==
  ASSUME IInv, NEW w \in Workers, wk[w].pc # "idle", Fail(w),
         UNCHANGED <<receipt, offset, effects>>
  PROVE  Workshop' /\ Owns'
<1> DEFINE h == [wk[w] EXCEPT !.pc = "release"]
<1>1. wk' = [wk EXCEPT ![w] = h]
  BY DEF Fail, Goto
<1>2. Sound(h, effects, offset) /\ h.ev = wk[w].ev /\ h.lapsed = wk[w].lapsed
  BY Goes DEF Pcs
<1> HIDE DEF h
<1> QED BY <1>1, <1>2, OneMoves

LEMMA RefusedKeeps ==
  ASSUME IInv, NEW w \in Workers, wk[w].pc # "idle", Refused(w),
         UNCHANGED <<stored, watched, told>>
  PROVE  IInv'
<1>1. UNCHANGED <<receipt, given, offset, turn, session, tasks, recent, cmd, effects, approvals,
                  watched, told, faults>> /\ Fail(w)
  BY DEF Refused, stored, gateway
<1>2. Stores' /\ World' /\ Ledgers'
  BY <1>1, WorldStands, LedgersStand DEF IInv, Stores
<1> QED BY <1>1, <1>2, FailIs DEF IInv

\* The answer of a command that has had its effect.
LEMMA AnsweredIs ==
  ASSUME IInv, NEW w \in Workers, wk[w].pc # "idle", NEW command \in [op : Ops, task : Tasks],
         NEW then \in {"bind", "rebind"}, Answered(w, command, then),
         UNCHANGED <<receipt, offset>>, effects'[wk[w].ev] = 1,
         \A e \in Events : effects[e] = 1 => effects'[e] = 1
  PROVE  Workshop' /\ Owns' /\ (faults' = faults \/ Fault("lost"))
<1>0. wk[w] \in HandlerState /\ wk[w].ev \in Events /\ Sound(wk[w], effects, offset)
  BY HandlerIs
<1>1. CASE wk' = [wk EXCEPT ![w].pc = then, ![w].op = command.op,
                  ![w].task = command.task, ![w].say = "started"]
           /\ UNCHANGED faults
  <2> DEFINE h1 == [wk[w] EXCEPT !.pc = then, !.op = command.op]
             h == [h1 EXCEPT !.task = command.task, !.say = "started"]
  <2>1. wk' = [wk EXCEPT ![w] = h]
    BY <1>1 DEF IInv, Workshop
  <2>2. h1 \in HandlerState /\ h1.pc = then /\ h1.ev = wk[w].ev /\ h1.lapsed = wk[w].lapsed
    BY <1>0 DEF HandlerState, Pcs
  <2> HIDE DEF h1
  <2>3. h \in HandlerState /\ h.pc = then /\ h.ev = h1.ev /\ h.lapsed = h1.lapsed /\ h.say = "started"
    BY <2>2 DEF HandlerState, Says
  <2> HIDE DEF h
  <2>4. Sound(h, effects', offset')
    BY <1>0, <2>2, <2>3 DEF Sound
  <2> QED BY <1>1, <2>1, <2>2, <2>3, <2>4, OneMoves
<1>2. CASE Fault("lost") /\ Fail(w)
  <2> DEFINE h == [wk[w] EXCEPT !.pc = "release"]
  <2>1. wk' = [wk EXCEPT ![w] = h]
    BY <1>2 DEF Fail, Goto
  <2>2. h.ev = wk[w].ev /\ h.lapsed = wk[w].lapsed /\ h \in HandlerState /\ h.pc = "release"
    BY <1>0 DEF HandlerState, Pcs
  <2> HIDE DEF h
  <2>3. Sound(h, effects', offset')
    BY <1>0, <2>2 DEF Sound
  <2> QED BY <1>2, <2>1, <2>2, <2>3, OneMoves
<1> QED BY <1>1, <1>2 DEF Answered

LEMMA FaultCounts ==
  ASSUME ConstantsAssumption, IInv, NEW f, faults' = faults \/ Fault(f)
  PROVE  faults' \in 0..MaxFaults
BY DEF Fault, IInv, Stores, ConstantsAssumption

\* The key of an event is used, with its one effect.
LEMMA KeyIsUsed ==
  ASSUME Ledgers, NEW e \in Events, NEW command \in [op : Ops, task : Tasks],
         command # Nothing, cmd[e] = Nothing,
         cmd' = [cmd EXCEPT ![e] = command], effects' = [effects EXCEPT ![e] = @ + 1],
         UNCHANGED <<turn, told>>
  PROVE  Ledgers' /\ effects'[e] = 1 /\ \A x \in Events : effects[x] = 1 => effects'[x] = 1
<1>1. effects[e] = 0 /\ effects' \in [Events -> 0..1] /\ effects'[e] = 1
      /\ \A x \in Events : x # e => effects'[x] = effects[x]
  BY DEF Ledgers
<1>2. cmd' \in [Events -> [op : Ops, task : Tasks]] /\ cmd'[e] # Nothing
      /\ \A x \in Events : x # e => cmd'[x] = cmd[x]
  BY DEF Ledgers
<1>3. \A x \in Events : cmd'[x] = Nothing <=> effects'[x] = 0
  BY <1>1, <1>2 DEF Ledgers
<1>4. \A x \in Events : effects[x] = 1 => effects'[x] = 1
  BY <1>1
<1> QED BY <1>1, <1>2, <1>3, <1>4 DEF Ledgers

LEMMA CreateKeeps ==
  ASSUME ConstantsAssumption, IInv, NEW w \in Workers, Create(w)
  PROVE  IInv'
<1> DEFINE e == wk[w].ev
           command == [op |-> "create", task |-> e]
           then == IF KindOf(w) = "start" THEN "rebind" ELSE "bind"
<1>0. wk[w].pc = "create" /\ wk[w] \in HandlerState /\ e \in Events /\ Sound(wk[w], effects, offset)
  BY HandlerIs DEF Create, At
<1>1. UNCHANGED <<stored, watched, told>> /\ UNCHANGED <<receipt, given, offset, turn, session, watched, told>>
  BY DEF Create, stored
<1>2. command \in [op : Ops, task : Tasks] /\ command # Nothing /\ then \in {"bind", "rebind"}
  BY <1>0 DEF Ops, Tasks, Nothing
<1>3. CASE /\ cmd[e] = Nothing
           /\ cmd' = [cmd EXCEPT ![e] = command]
           /\ tasks' = [tasks EXCEPT ![e] = [st |-> "running", rev |-> 0]]
           /\ recent' = Touched(e)
           /\ effects' = [effects EXCEPT ![e] = @ + 1]
           /\ Answered(w, command, then)
           /\ UNCHANGED approvals
  <2> HIDE DEF command, then
  <2>1. Ledgers' /\ effects'[e] = 1 /\ \A x \in Events : effects[x] = 1 => effects'[x] = 1
    <3> HIDE DEF e
    <3> QED BY <1>0, <1>1, <1>2, <1>3, KeyIsUsed DEF IInv
  <2>2. Workshop' /\ Owns' /\ (faults' = faults \/ Fault("lost"))
    BY <1>0, <1>1, <1>2, <1>3, <2>1, AnsweredIs
  <2>3. Stores'
    BY <1>1, <2>2, FaultCounts DEF IInv, Stores
  <2>4. World'
    <3> HIDE DEF e
    <3> DEFINE row == [st |-> "running", rev |-> 0]
               Row == [st : {"none", "running", "review", "settled", "gone"}, rev : 0..MaxReviews]
               T == {t \in Events : Live(t)}
    <3>1. row \in Row
      BY DEF ConstantsAssumption
    <3>2. tasks' \in [Events -> Row] /\ tasks'[e] = row /\ \A t \in Events : t # e => tasks'[t] = tasks[t]
      <4> HIDE DEF row
      <4> QED BY <1>0, <1>3, <3>1 DEF IInv, World, row
    <3>3. {t \in Events : Live(t)}' = T \union {e}
      BY <1>0, <3>2, EventsAre DEF Live
    <3>4. Orders(recent', T \union {e})
      BY <1>3, TouchedOrders DEF IInv, World
    <3>5. \A t \in Events : tasks'[t].st = "review" => tasks'[t].rev > 0
      BY <3>2 DEF IInv, World
    <3> QED BY <1>3, <3>2, <3>3, <3>4, <3>5 DEF IInv, World
  <2> QED BY <2>1, <2>2, <2>3, <2>4 DEF IInv
<1>4. CASE cmd[e] = command /\ Answered(w, command, then) /\ UNCHANGED gateway
  <2>1. UNCHANGED <<tasks, recent, cmd, effects, approvals>>
    BY <1>4 DEF gateway
  <2>2. effects'[e] = 1
    BY <1>0, <1>2, <1>4, <2>1 DEF IInv, Ledgers
  <2>3. Workshop' /\ Owns' /\ (faults' = faults \/ Fault("lost"))
    <3> HIDE DEF command, then
    <3> QED BY <1>0, <1>1, <1>2, <1>4, <2>1, <2>2, AnsweredIs
  <2>4. Stores' /\ World' /\ Ledgers'
    BY <1>1, <2>1, <2>3, FaultCounts, WorldStands, LedgersStand DEF IInv, Stores
  <2> QED BY <2>3, <2>4 DEF IInv
<1>5. CASE Refused(w)
  BY <1>0, <1>1, <1>5, RefusedKeeps
<1> QED BY <1>3, <1>4, <1>5 DEF Create, Ev

\* A Task that there is goes on: what becomes of its row and of the order.
LEMMA TaskGoesOn ==
  ASSUME ConstantsAssumption, World, NEW t \in Events, Live(t),
         NEW st \in {"running", "review", "settled"}, NEW rev \in 0..MaxReviews,
         st = "review" => rev > 0,
         tasks' = [tasks EXCEPT ![t] = [st |-> st, rev |-> rev]], recent' = Touched(t)
  PROVE  /\ tasks' \in [Events -> [st : {"none", "running", "review", "settled", "gone"},
                                   rev : 0..MaxReviews]]
         /\ Orders(recent', {x \in Events : Live(x)}')
         /\ \A x \in Events : tasks'[x].st = "review" => tasks'[x].rev > 0
<1> DEFINE row == [st |-> st, rev |-> rev]
           Row == [st : {"none", "running", "review", "settled", "gone"}, rev : 0..MaxReviews]
           T == {x \in Events : Live(x)}
<1>1. row \in Row /\ row.st = st /\ row.rev = rev
  OBVIOUS
<1>2. tasks' \in [Events -> Row] /\ tasks'[t] = row /\ \A x \in Events : x # t => tasks'[x] = tasks[x]
  <2> HIDE DEF row
  <2> QED BY <1>1 DEF World, row
<1>3. T' = T
  BY <1>1, <1>2, EventsAre DEF Live
<1>4. Orders(recent', T)
  <2>1. T \union {t} = T
    OBVIOUS
  <2> QED BY <2>1, TouchedOrders DEF World
<1>5. \A x \in Events : tasks'[x].st = "review" => tasks'[x].rev > 0
  BY <1>1, <1>2 DEF World
<1> QED BY <1>2, <1>3, <1>4, <1>5

LEMMA SendKeeps ==
  ASSUME ConstantsAssumption, IInv, NEW w \in Workers, Send(w)
  PROVE  IInv'
<1> DEFINE e == wk[w].ev
           t == wk[w].task
           command == [op |-> "send", task |-> t]
<1>0. /\ wk[w].pc = "send" /\ wk[w] \in HandlerState /\ e \in Events /\ Sound(wk[w], effects, offset)
      /\ t \in Events
  BY HandlerIs DEF Send, At, Sound
<1>1. UNCHANGED <<stored, watched, told>> /\ UNCHANGED <<receipt, given, offset, turn, session, watched, told>>
  BY DEF Send, stored
<1>2. command \in [op : Ops, task : Tasks] /\ command # Nothing
  BY <1>0 DEF Ops, Tasks, Nothing
<1>3. CASE /\ cmd[e] = Nothing /\ Listens(t)
           /\ cmd' = [cmd EXCEPT ![e] = command]
           /\ tasks' = IF tasks[t].st = "settled"
                       THEN [tasks EXCEPT ![t].st = "running"] ELSE tasks
           /\ recent' = Touched(t)
           /\ effects' = [effects EXCEPT ![e] = @ + 1]
           /\ Answered(w, command, "bind")
           /\ UNCHANGED approvals
  <2> HIDE DEF command
  <2>1. Ledgers' /\ effects'[e] = 1 /\ \A x \in Events : effects[x] = 1 => effects'[x] = 1
    <3> HIDE DEF e, t
    <3> QED BY <1>0, <1>1, <1>2, <1>3, KeyIsUsed DEF IInv
  <2>2. Workshop' /\ Owns' /\ (faults' = faults \/ Fault("lost"))
    BY <1>0, <1>1, <1>2, <1>3, <2>1, AnsweredIs
  <2>3. Stores'
    BY <1>1, <2>2, FaultCounts DEF IInv, Stores
  <2>4. World'
    <3> HIDE DEF e, t
    <3>1. /\ tasks[t] \in [st : {"none", "running", "review", "settled", "gone"}, rev : 0..MaxReviews]
          /\ Live(t) /\ tasks[t].st \in {"running", "settled"}
      BY <1>0, <1>3 DEF IInv, World, Listens, Live
    <3>2. tasks' = [tasks EXCEPT ![t] = [st |-> "running", rev |-> tasks[t].rev]]
      <4>1. [tasks[t] EXCEPT !.st = "running"] = [st |-> "running", rev |-> tasks[t].rev]
        BY <3>1
      <4>2. CASE tasks[t].st = "settled"
        BY <1>3, <4>1, <4>2
      <4>3. CASE tasks[t].st = "running"
        <5>1. tasks[t] = [st |-> "running", rev |-> tasks[t].rev] /\ tasks' = tasks
          BY <1>3, <3>1, <4>3
        <5>2. tasks \in [Events -> [st : {"none", "running", "review", "settled", "gone"}, rev : 0..MaxReviews]]
          BY DEF IInv, World
        <5> QED BY <1>0, <5>1, <5>2
      <4> QED BY <3>1, <4>2, <4>3
    <3>3. /\ tasks' \in [Events -> [st : {"none", "running", "review", "settled", "gone"},
                                    rev : 0..MaxReviews]]
          /\ Orders(recent', {x \in Events : Live(x)}')
          /\ \A x \in Events : tasks'[x].st = "review" => tasks'[x].rev > 0
      BY <1>0, <1>3, <3>1, <3>2, TaskGoesOn DEF IInv
    <3> QED BY <1>3, <3>3 DEF IInv, World
  <2> QED BY <2>1, <2>2, <2>3, <2>4 DEF IInv
<1>4. CASE cmd[e] = command /\ Answered(w, command, "bind") /\ UNCHANGED gateway
  <2>1. UNCHANGED <<tasks, recent, cmd, effects, approvals>>
    BY <1>4 DEF gateway
  <2>2. effects'[e] = 1
    BY <1>0, <1>2, <1>4, <2>1 DEF IInv, Ledgers
  <2>3. Workshop' /\ Owns' /\ (faults' = faults \/ Fault("lost"))
    <3> HIDE DEF command
    <3> QED BY <1>0, <1>1, <1>2, <1>4, <2>1, <2>2, AnsweredIs
  <2>4. Stores' /\ World' /\ Ledgers'
    BY <1>1, <2>1, <2>3, FaultCounts, WorldStands, LedgersStand DEF IInv, Stores
  <2> QED BY <2>3, <2>4 DEF IInv
<1>5. CASE Refused(w)
  BY <1>0, <1>1, <1>5, RefusedKeeps
<1> QED BY <1>3, <1>4, <1>5 DEF Send, Ev

LEMMA DecideKeeps ==
  ASSUME ConstantsAssumption, IInv, NEW w \in Workers, Decide(w)
  PROVE  IInv'
<1> DEFINE t == wk[w].task
           rev == wk[w].rev
<1>0. /\ wk[w].pc = "decide" /\ wk[w] \in HandlerState /\ wk[w].ev \in Events
      /\ Sound(wk[w], effects, offset) /\ t \in Events
  BY HandlerIs DEF Decide, At, Sound
<1>1. UNCHANGED <<stored, watched, told>> /\ UNCHANGED <<receipt, given, offset, turn, session, watched, told>>
  BY DEF Decide, stored
<1>2. CASE /\ tasks[t] = [st |-> "review", rev |-> rev]
           /\ tasks' = [tasks EXCEPT ![t].st = "running"]
           /\ recent' = Touched(t)
           /\ approvals' = [approvals EXCEPT ![wk[w].ev] = @ \union {<<t, rev>>}]
           /\ \/ /\ wk' = [wk EXCEPT ![w].pc = "rebind", ![w].say = "submitted"]
                 /\ UNCHANGED faults
              \/ Fault("lost") /\ Fail(w)
           /\ UNCHANGED <<cmd, effects>>
  <2>1. Live(t) /\ rev \in 0..MaxReviews /\ rev > 0
    <3> HIDE DEF t, rev
    <3>1. tasks[t].st = "review" /\ tasks[t].rev = rev
      BY <1>2
    <3> QED BY <1>0, <3>1, EventsAre DEF Live, IInv, World
  <2>2. Workshop' /\ Owns' /\ (faults' = faults \/ Fault("lost"))
    <3>1. CASE wk' = [wk EXCEPT ![w].pc = "rebind", ![w].say = "submitted"] /\ UNCHANGED faults
      <4> DEFINE h == [wk[w] EXCEPT !.pc = "rebind", !.say = "submitted"]
      <4>1. wk' = [wk EXCEPT ![w] = h]
        BY <3>1
      <4>2. /\ h \in HandlerState /\ h.pc = "rebind" /\ h.say = "submitted"
            /\ h.ev = wk[w].ev /\ h.lapsed = wk[w].lapsed
        BY <1>0 DEF HandlerState, Pcs, Says
      <4> HIDE DEF h, t, rev
      <4>3. Sound(h, effects', offset')
        BY <1>0, <1>1, <1>2, <4>2 DEF Sound
      <4>4. \A x \in Events : effects[x] = 1 => effects'[x] = 1
        BY <1>2
      <4> QED BY <1>0, <1>1, <3>1, <4>1, <4>2, <4>3, <4>4, OneMoves
    <3>2. CASE Fault("lost") /\ Fail(w)
      BY <1>0, <1>1, <1>2, <3>2, FailIs
    <3> QED BY <1>2, <3>1, <3>2
  <2>3. Stores' /\ Ledgers'
    BY <1>1, <1>2, <2>2, FaultCounts, LedgersStand DEF IInv, Stores
  <2>4. World'
    <3> HIDE DEF t, rev
    <3>1. tasks' = [tasks EXCEPT ![t] = [st |-> "running", rev |-> rev]]
      <4>1. [tasks[t] EXCEPT !.st = "running"] = [st |-> "running", rev |-> rev]
        BY <1>2
      <4> QED BY <1>2, <4>1
    <3>2. /\ tasks' \in [Events -> [st : {"none", "running", "review", "settled", "gone"},
                                    rev : 0..MaxReviews]]
          /\ Orders(recent', {x \in Events : Live(x)}')
          /\ \A x \in Events : tasks'[x].st = "review" => tasks'[x].rev > 0
      BY <1>0, <1>2, <2>1, <3>1, TaskGoesOn DEF IInv
    <3>3. approvals' \in [Events -> SUBSET (Events \X (1..MaxReviews))]
      <4>1. rev \in 1..MaxReviews
        BY <2>1 DEF ConstantsAssumption
      <4> QED BY <1>0, <1>2, <4>1 DEF IInv, World
    <3> QED BY <3>2, <3>3 DEF World
  <2> QED BY <2>2, <2>3, <2>4 DEF IInv
<1>3. CASE Refused(w)
  BY <1>0, <1>1, <1>3, RefusedKeeps
<1> QED BY <1>2, <1>3 DEF Decide, Ev

\* The user is told, or the answer fails.
LEMMA ReplyKeeps ==
  ASSUME ConstantsAssumption, IInv, NEW w \in Workers, PollReply(w) \/ PushReply(w)
  PROVE  IInv'
<1>0. wk[w].pc = "reply" /\ wk[w] \in HandlerState /\ wk[w].ev \in Events /\ Sound(wk[w], effects, offset)
  BY HandlerIs DEF PollReply, PushReply, At
<1>1. /\ UNCHANGED <<receipt, given, offset, turn, session, tasks, recent, cmd, effects, approvals>>
      /\ Told(w) \/ NotTold(w)
      /\ watched' \subseteq Events
  <2>1. watched' \subseteq watched \union {wk[w].ev}
    BY DEF PollReply, PushReply, Ev
  <2>2. Told(w) \/ NotTold(w)
    BY DEF PollReply, PushReply
  <2>3. UNCHANGED <<stored, gateway>>
    BY DEF PollReply, PushReply
  <2> QED BY <1>0, <2>1, <2>2, <2>3 DEF IInv, Stores, stored, gateway
<1>2. World'
  BY <1>1, WorldStands DEF IInv
<1>3. CASE Told(w)
  <2> DEFINE h == [wk[w] EXCEPT !.pc = "mark"]
             e == wk[w].ev
  <2>1. wk' = [wk EXCEPT ![w] = h] /\ told' = [told EXCEPT ![e] = @ \union {wk[w].say}] /\ faults' = faults
    BY <1>3 DEF Told, Goto, Ev
  <2>2. Sound(h, effects, offset) /\ h.ev = wk[w].ev /\ h.lapsed = wk[w].lapsed
    BY <1>0, Goes DEF Pcs
  <2>3. Workshop' /\ Owns'
    <3> HIDE DEF h, e
    <3> QED BY <1>0, <1>1, <2>1, <2>2, OneMoves
  <2>4. Ledgers'
    <3>1. wk[w].say \in Says /\ (wk[w].say = "started" => effects[e] = 1)
      BY <1>0 DEF Sound, HandlerState
    <3> HIDE DEF h, e
    <3>2. told' \in [Events -> SUBSET Says]
      BY <2>1, <3>1 DEF IInv, Ledgers
    <3>3. \A x \in Events : "started" \in told'[x] => effects[x] = 1
      BY <2>1, <3>1 DEF IInv, Ledgers
    <3> QED BY <1>1, <3>2, <3>3 DEF IInv, Ledgers
  <2>5. Stores'
    BY <1>1, <2>1 DEF IInv, Stores
  <2> QED BY <1>2, <2>3, <2>4, <2>5 DEF IInv
<1>4. CASE NotTold(w)
  <2>1. Fault("reply") /\ Fail(w) /\ told' = told
    BY <1>4 DEF NotTold
  <2>2. Workshop' /\ Owns'
    BY <1>0, <1>1, <2>1, FailIs
  <2>3. Stores' /\ Ledgers'
    BY <1>1, <2>1, FaultCounts, LedgersStand DEF IInv, Stores
  <2> QED BY <1>2, <2>2, <2>3 DEF IInv
<1> QED BY <1>1, <1>3, <1>4

----------------------------------------------------------------------------
(* Claims                                                                  *)

LEMMA IdleIs ==
  ASSUME ConstantsAssumption
  PROVE  Idle \in HandlerState /\ Idle.pc = "idle" /\ \A eff, off : Sound(Idle, eff, off)
BY DEF ConstantsAssumption, Idle, HandlerState, Pcs, Says, Ops, Tasks, NoTask, Sound

\* What can be claimed has no live holder, so the new holder is the only one.
LEMMA TakeClaimIs ==
  ASSUME ConstantsAssumption, IInv, NEW w \in Workers, NEW e \in Events,
         wk[w].pc = "idle", CanClaim(e), TakeClaim(w, e), Ingress = "poll" => e = offset,
         UNCHANGED <<offset, effects>>
  PROVE  Workshop' /\ Owns'
         /\ receipt' \in [Events -> [st : {"absent", "claimed", "free", "processed"},
                                     by : Workers \union {Nobody}, old : BOOLEAN]]
<1> DEFINE claim == [st |-> "claimed", by |-> w, old |-> FALSE]
           h == [Idle EXCEPT !.pc = Entry(e), !.ev = e]
<1>1. receipt' = [receipt EXCEPT ![e] = claim] /\ wk' = [wk EXCEPT ![w] = h]
  BY DEF TakeClaim
<1>2. Kind[e] \in Kinds
  BY DEF ConstantsAssumption
<1>3. Entry(e) \in {"turn", "session", "unbind", "resume"}
  BY <1>2 DEF Entry, Kinds
<1>4. /\ h \in HandlerState /\ h.pc = Entry(e) /\ h.ev = e /\ h.say = "none" /\ h.lapsed = FALSE
  BY <1>3, IdleIs DEF Idle, HandlerState, Pcs
<1>5. claim.st = "claimed" /\ claim.by = w /\ claim.old = FALSE
  OBVIOUS
<1> HIDE DEF h, claim
<1>6. Sound(h, effects', offset')
  BY <1>3, <1>4 DEF Sound
<1>7. /\ wk' \in [Workers -> HandlerState] /\ wk'[w] = h
      /\ \A v \in Workers : v # w => wk'[v] = wk[v]
  BY <1>1, <1>4 DEF IInv, Workshop
<1>8. Workshop'
  BY <1>6, <1>7 DEF IInv, Workshop, Sound
<1>9. receipt'[e] = claim /\ \A x \in Events : x # e => receipt'[x] = receipt[x]
  BY <1>1 DEF IInv, Stores
<1>10. ASSUME NEW v \in Workers, wk[v].pc # "idle", ~wk[v].lapsed, wk[v].ev = e
       PROVE  FALSE
  <2>1. receipt[e] = [st |-> "claimed", by |-> v, old |-> FALSE]
    BY <1>10 DEF IInv, Owns
  <2>2. receipt[e].st = "claimed" /\ ~receipt[e].old
    BY <2>1
  <2> QED BY <2>2 DEF CanClaim
<1>11. Owns'
  <2> SUFFICES ASSUME NEW v \in Workers, wk'[v].pc # "idle", ~wk'[v].lapsed
               PROVE receipt'[wk'[v].ev] = [st |-> "claimed", by |-> v, old |-> FALSE]
    BY DEF Owns
  <2>1. CASE v = w
    BY <2>1, <1>4, <1>7, <1>9 DEF claim
  <2>2. CASE v # w
    <3>1. wk'[v] = wk[v] /\ wk[v].ev \in Events
      BY <1>7, <2>2 DEF IInv, Workshop, Sound
    <3> QED BY <1>9, <1>10, <3>1 DEF IInv, Owns
  <2> QED BY <2>1, <2>2
<1>12. receipt' \in [Events -> [st : {"absent", "claimed", "free", "processed"},
                                by : Workers \union {Nobody}, old : BOOLEAN]]
  BY <1>1 DEF IInv, Stores, claim
<1> QED BY <1>8, <1>11, <1>12

LEMMA PollClaimKeeps ==
  ASSUME ConstantsAssumption, IInv, NEW w \in Workers, PollClaim(w)
  PROVE  IInv'
<1>0. /\ wk[w].pc = "idle" /\ offset \in Events /\ Ingress = "poll"
      /\ UNCHANGED <<given, turn, session, tasks, recent, cmd, effects, approvals, watched, told, faults>>
  BY DEF PollClaim, At, gateway
<1>1. World' /\ Ledgers'
  BY <1>0, WorldStands, LedgersStand DEF IInv
<1>2. CASE CanClaim(offset) /\ TakeClaim(w, offset) /\ UNCHANGED offset
  <2>1. Workshop' /\ Owns'
         /\ receipt' \in [Events -> [st : {"absent", "claimed", "free", "processed"},
                                     by : Workers \union {Nobody}, old : BOOLEAN]]
    BY <1>0, <1>2, TakeClaimIs
  <2> QED BY <1>0, <1>1, <1>2, <2>1 DEF IInv, Stores
<1>3. CASE offset' = offset + 1 /\ UNCHANGED <<receipt, wk>>
  <2>1. offset' \in 1..(Cardinality(Events) + 1)
    BY <1>0, <1>3, EventsAre
  <2>2. \A v \in Workers : v = w
    BY <1>0 DEF ConstantsAssumption
  <2>3. Workshop' /\ Owns'
    BY <1>0, <1>3, <2>2 DEF IInv, Workshop, Owns, Sound
  <2> QED BY <1>0, <1>1, <1>3, <2>1, <2>3 DEF IInv, Stores
<1> QED BY <1>2, <1>3 DEF PollClaim

LEMMA PushClaimKeeps ==
  ASSUME ConstantsAssumption, IInv, NEW w \in Workers, NEW e \in Events, PushClaim(w, e)
  PROVE  IInv'
<1>0. /\ wk[w].pc = "idle" /\ Ingress = "push" /\ given[e] < MaxDeliveries
      /\ given' = [given EXCEPT ![e] = @ + 1]
      /\ UNCHANGED <<offset, turn, session, tasks, recent, cmd, effects, approvals, watched, told, faults>>
  BY DEF PushClaim, At, gateway
<1>1. World' /\ Ledgers'
  BY <1>0, WorldStands, LedgersStand DEF IInv
<1>2. given' \in [Events -> 0..MaxDeliveries]
  BY <1>0 DEF IInv, Stores, ConstantsAssumption
<1>3. CASE CanClaim(e) /\ TakeClaim(w, e)
  <2>1. Workshop' /\ Owns'
         /\ receipt' \in [Events -> [st : {"absent", "claimed", "free", "processed"},
                                     by : Workers \union {Nobody}, old : BOOLEAN]]
    BY <1>0, <1>3, TakeClaimIs
  <2> QED BY <1>0, <1>1, <1>2, <2>1 DEF IInv, Stores
<1>4. CASE UNCHANGED <<receipt, wk>>
  <2>1. Workshop' /\ Owns'
    BY <1>0, <1>4 DEF IInv, Workshop, Owns, Sound
  <2> QED BY <1>0, <1>1, <1>2, <1>4, <2>1 DEF IInv, Stores
<1> QED BY <1>3, <1>4 DEF PushClaim

\* A handler ends: only the claim it still has is ended or given back with it.
LEMMA EndsKeeps ==
  ASSUME ConstantsAssumption, IInv, NEW w \in Workers, wk[w].pc # "idle",
         NEW st \in {"free", "processed"},
         receipt' = IF Holds(w) THEN [receipt EXCEPT ![Ev(w)] = Unclaimed(st)] ELSE receipt,
         offset' = offset \/ (Ingress = "poll" /\ offset' = offset + 1),
         wk' = [wk EXCEPT ![w] = Idle],
         UNCHANGED <<given, turn, session, gateway, watched, told, faults>>
  PROVE  IInv'
<1>0. /\ wk[w] \in HandlerState /\ wk[w].ev \in Events /\ Sound(wk[w], effects, offset)
      /\ UNCHANGED <<tasks, recent, cmd, effects, approvals>>
  BY HandlerIs DEF gateway
<1>1. World' /\ Ledgers'
  BY <1>0, WorldStands, LedgersStand DEF IInv
<1>2. offset' \in 1..(Cardinality(Events) + 1)
  <2>1. CASE offset' = offset
    BY <2>1 DEF IInv, Stores
  <2>2. CASE Ingress = "poll" /\ offset' = offset + 1
    <3>1. offset \in Events
      BY <1>0, <2>2 DEF Sound
    <3> QED BY <2>2, <3>1, EventsAre
  <2> QED BY <2>1, <2>2
<1> DEFINE row == Unclaimed(st)
<1>3. row \in [st : {"absent", "claimed", "free", "processed"},
               by : Workers \union {Nobody}, old : BOOLEAN]
  BY DEF Unclaimed
<1> HIDE DEF row
<1>4. receipt' \in [Events -> [st : {"absent", "claimed", "free", "processed"},
                               by : Workers \union {Nobody}, old : BOOLEAN]]
  BY <1>0, <1>3 DEF IInv, Stores, Ev, row
<1>5. wk' \in [Workers -> HandlerState] /\ wk'[w] = Idle /\ \A v \in Workers : v # w => wk'[v] = wk[v]
  BY IdleIs DEF IInv, Workshop
<1>6. Workshop'
  <2> SUFFICES ASSUME NEW v \in Workers PROVE Sound(wk'[v], effects', offset')
    BY <1>5 DEF Workshop
  <2>1. CASE v = w
    BY <1>5, <2>1, IdleIs
  <2>2. CASE v # w
    <3>1. Ingress # "poll" /\ offset' = offset
      BY <2>2 DEF ConstantsAssumption
    <3> QED BY <1>0, <1>5, <2>2, <3>1 DEF IInv, Workshop
  <2> QED BY <2>1, <2>2
<1>7. Owns'
  <2> SUFFICES ASSUME NEW v \in Workers, wk'[v].pc # "idle", ~wk'[v].lapsed
               PROVE receipt'[wk'[v].ev] = [st |-> "claimed", by |-> v, old |-> FALSE]
    BY DEF Owns
  <2>1. v # w
    BY <1>5, IdleIs
  <2>2. wk'[v] = wk[v] /\ wk[v].ev \in Events
        /\ receipt[wk[v].ev] = [st |-> "claimed", by |-> v, old |-> FALSE]
    BY <1>5, <2>1 DEF IInv, Owns, Workshop, Sound
  <2>3. receipt'[wk[v].ev] = receipt[wk[v].ev]
    BY <1>0, <2>1, <2>2 DEF Holds, Ev, IInv, Stores
  <2> QED BY <2>2, <2>3
<1> QED BY <1>1, <1>2, <1>4, <1>6, <1>7 DEF IInv, Stores

LEMMA MarkKeeps ==
  ASSUME ConstantsAssumption, IInv, NEW w \in Workers, PollMark(w) \/ PushMark(w) \/ Release(w)
  PROVE  IInv'
<1>1. CASE PollMark(w)
  BY <1>1, EndsKeeps DEF PollMark, At, Processed
<1>2. CASE PushMark(w)
  BY <1>2, EndsKeeps DEF PushMark, At, Processed
<1>3. CASE Release(w)
  BY <1>3, EndsKeeps DEF Release, At
<1> QED BY <1>1, <1>2, <1>3

LEMMA LapseDeadKeeps ==
  ASSUME ConstantsAssumption, IInv, NEW e \in Events, LapseDead(e)
  PROVE  IInv'
<1>0. /\ receipt[e].st = "claimed" /\ ~Handling(receipt[e].by, e)
      /\ receipt' = [receipt EXCEPT ![e].old = TRUE]
      /\ UNCHANGED <<given, offset, turn, session, tasks, recent, cmd, effects, approvals, wk,
                     watched, told, faults>>
  BY DEF LapseDead, gateway
<1>1. World' /\ Ledgers' /\ Stores'
  BY <1>0, WorldStands, LedgersStand DEF IInv, Stores
<1>2. Workshop'
  BY <1>0 DEF IInv, Workshop
<1>3. ASSUME NEW v \in Workers, wk[v].pc # "idle", ~wk[v].lapsed, wk[v].ev = e
      PROVE  FALSE
  <2>1. receipt[e] = [st |-> "claimed", by |-> v, old |-> FALSE]
    BY <1>3 DEF IInv, Owns
  <2>2. receipt[e].by = v
    BY <2>1
  <2> QED BY <1>0, <1>3, <2>2 DEF Handling
<1>4. Owns'
  BY <1>0, <1>3 DEF IInv, Owns, Stores
<1> QED BY <1>1, <1>2, <1>4 DEF IInv

LEMMA LapseSlowKeeps ==
  ASSUME ConstantsAssumption, IInv, NEW w \in Workers, LapseSlow(w)
  PROVE  IInv'
<1>0. /\ wk[w].pc # "idle" /\ Holds(w) /\ Fault("slow")
      /\ receipt' = [receipt EXCEPT ![wk[w].ev].old = TRUE]
      /\ wk' = [wk EXCEPT ![w].lapsed = TRUE]
      /\ UNCHANGED <<given, offset, turn, session, tasks, recent, cmd, effects, approvals, watched, told>>
  BY DEF LapseSlow, gateway, At, Ev
<1>1. wk[w] \in HandlerState /\ wk[w].ev \in Events /\ Sound(wk[w], effects, offset)
  BY <1>0, HandlerIs
<1>2. World' /\ Ledgers' /\ Stores'
  BY <1>0, WorldStands, LedgersStand, FaultCounts DEF IInv, Stores
<1> DEFINE h == [wk[w] EXCEPT !.lapsed = TRUE]
<1>3. /\ h \in HandlerState /\ h.pc = wk[w].pc /\ h.ev = wk[w].ev /\ h.task = wk[w].task
      /\ h.then = wk[w].then /\ h.say = wk[w].say /\ h.lapsed
  BY <1>1 DEF HandlerState
<1>4. wk' = [wk EXCEPT ![w] = h]
  BY <1>0
<1> HIDE DEF h
<1>5. Sound(h, effects, offset)
  BY <1>1, <1>3 DEF Sound
<1>6. wk' \in [Workers -> HandlerState] /\ wk'[w] = h /\ \A v \in Workers : v # w => wk'[v] = wk[v]
  BY <1>3, <1>4 DEF IInv, Workshop
<1>7. Workshop'
  BY <1>0, <1>5, <1>6 DEF IInv, Workshop
<1>8. Owns'
  <2> SUFFICES ASSUME NEW v \in Workers, wk'[v].pc # "idle", ~wk'[v].lapsed
               PROVE receipt'[wk'[v].ev] = [st |-> "claimed", by |-> v, old |-> FALSE]
    BY DEF Owns
  <2>1. v # w
    BY <1>3, <1>6
  <2>2. wk'[v] = wk[v] /\ wk[v].ev \in Events
        /\ receipt[wk[v].ev] = [st |-> "claimed", by |-> v, old |-> FALSE]
    BY <1>6, <2>1 DEF IInv, Owns, Workshop, Sound
  <2>3. wk[v].ev # wk[w].ev
    BY <1>0, <2>1, <2>2 DEF Holds, Ev
  <2> QED BY <1>0, <1>1, <2>2, <2>3 DEF IInv, Stores
<1> QED BY <1>2, <1>7, <1>8 DEF IInv

----------------------------------------------------------------------------
(* The Tasks by themselves, and the process                                *)

LEMMA TaskMoves ==
  ASSUME ConstantsAssumption, IInv,
         UNCHANGED <<stored, cmd, effects, approvals, wk, watched, told>>,
         faults' \in 0..MaxFaults,
         tasks' \in [Events -> [st : {"none", "running", "review", "settled", "gone"},
                               rev : 0..MaxReviews]],
         Orders(recent', {x \in Events : Live(x)}'),
         \A x \in Events : tasks'[x].st = "review" => tasks'[x].rev > 0
  PROVE  IInv'
<1>0. UNCHANGED <<receipt, given, offset, turn, session>>
  BY DEF stored
<1>1. World'
  BY DEF IInv, World
<1>2. Stores' /\ Ledgers'
  BY <1>0, LedgersStand DEF IInv, Stores
<1>3. Workshop' /\ Owns'
  BY <1>0 DEF IInv, Workshop, Owns
<1> QED BY <1>1, <1>2, <1>3 DEF IInv

LEMMA SettleKeeps ==
  ASSUME ConstantsAssumption, IInv, NEW t \in Events, Settle(t)
  PROVE  IInv'
<1>1. /\ tasks[t] \in [st : {"none", "running", "review", "settled", "gone"}, rev : 0..MaxReviews]
      /\ Live(t) /\ faults' \in 0..MaxFaults
      /\ UNCHANGED <<stored, cmd, effects, approvals, wk, watched, told>>
  BY EventsAre DEF Settle, Live, IInv, World, Stores
<1>2. tasks' = [tasks EXCEPT ![t] = [st |-> "settled", rev |-> tasks[t].rev]] /\ recent' = Touched(t)
  <2>1. [tasks[t] EXCEPT !.st = "settled"] = [st |-> "settled", rev |-> tasks[t].rev]
    BY <1>1
  <2> QED BY <2>1 DEF Settle
<1>3. /\ tasks' \in [Events -> [st : {"none", "running", "review", "settled", "gone"},
                                rev : 0..MaxReviews]]
      /\ Orders(recent', {x \in Events : Live(x)}')
      /\ \A x \in Events : tasks'[x].st = "review" => tasks'[x].rev > 0
  BY <1>1, <1>2, TaskGoesOn DEF IInv
<1> QED BY <1>1, <1>3, TaskMoves

LEMMA WakeKeeps ==
  ASSUME ConstantsAssumption, IInv, NEW t \in Events, Wake(t)
  PROVE  IInv'
<1>1. /\ tasks[t] \in [st : {"none", "running", "review", "settled", "gone"}, rev : 0..MaxReviews]
      /\ Live(t) /\ faults' \in 0..MaxFaults
      /\ UNCHANGED <<stored, cmd, effects, approvals, wk, watched, told>>
  BY EventsAre DEF Wake, Live, IInv, World, Stores
<1>2. tasks' = [tasks EXCEPT ![t] = [st |-> "running", rev |-> tasks[t].rev]] /\ recent' = Touched(t)
  <2>1. [tasks[t] EXCEPT !.st = "running"] = [st |-> "running", rev |-> tasks[t].rev]
    BY <1>1
  <2> QED BY <2>1 DEF Wake
<1>3. /\ tasks' \in [Events -> [st : {"none", "running", "review", "settled", "gone"},
                                rev : 0..MaxReviews]]
      /\ Orders(recent', {x \in Events : Live(x)}')
      /\ \A x \in Events : tasks'[x].st = "review" => tasks'[x].rev > 0
  BY <1>1, <1>2, TaskGoesOn DEF IInv
<1> QED BY <1>1, <1>3, TaskMoves

LEMMA AskReviewKeeps ==
  ASSUME ConstantsAssumption, IInv, NEW t \in Events, AskReview(t)
  PROVE  IInv'
<1>1. /\ tasks[t] \in [st : {"none", "running", "review", "settled", "gone"}, rev : 0..MaxReviews]
      /\ Live(t) /\ faults' \in 0..MaxFaults
      /\ UNCHANGED <<stored, cmd, effects, approvals, wk, watched, told>>
  BY EventsAre DEF AskReview, Live, IInv, World, Stores
<1> DEFINE rev == tasks[t].rev + 1
<1>2. tasks' = [tasks EXCEPT ![t] = [st |-> "review", rev |-> rev]] /\ recent' = Touched(t)
  BY DEF AskReview
<1>3. rev \in 0..MaxReviews /\ rev > 0
  BY <1>1 DEF AskReview, ConstantsAssumption
<1> HIDE DEF rev
<1>4. /\ tasks' \in [Events -> [st : {"none", "running", "review", "settled", "gone"},
                                rev : 0..MaxReviews]]
      /\ Orders(recent', {x \in Events : Live(x)}')
      /\ \A x \in Events : tasks'[x].st = "review" => tasks'[x].rev > 0
  BY <1>1, <1>2, <1>3, TaskGoesOn DEF IInv
<1> QED BY <1>1, <1>4, TaskMoves

LEMMA VanishKeeps ==
  ASSUME ConstantsAssumption, IInv, NEW t \in Events, Vanish(t)
  PROVE  IInv'
<1> DEFINE Row == [st : {"none", "running", "review", "settled", "gone"}, rev : 0..MaxReviews]
           T == {x \in Events : Live(x)}
           row == [tasks[t] EXCEPT !.st = "gone"]
<1>1. /\ tasks[t] \in Row /\ faults' \in 0..MaxFaults
      /\ UNCHANGED <<stored, cmd, effects, approvals, wk, watched, told>>
  BY FaultCounts DEF Vanish, IInv, World
<1>2. tasks' = [tasks EXCEPT ![t] = row] /\ recent' = RemoveFirst(recent, t)
  BY DEF Vanish
<1>3. row \in Row /\ row.st = "gone"
  BY <1>1
<1> HIDE DEF row
<1>4. tasks' \in [Events -> Row] /\ tasks'[t] = row /\ \A x \in Events : x # t => tasks'[x] = tasks[x]
  BY <1>2, <1>3 DEF IInv, World
<1>5. T' = T \ {t}
  BY <1>3, <1>4 DEF Live
<1>6. Orders(recent', T \ {t})
  BY <1>2, RemovedOrders DEF IInv, World
<1>7. \A x \in Events : tasks'[x].st = "review" => tasks'[x].rev > 0
  BY <1>3, <1>4 DEF IInv, World
<1> QED BY <1>1, <1>4, <1>5, <1>6, <1>7, TaskMoves

LEMMA CrashKeeps ==
  ASSUME ConstantsAssumption, IInv, Crash
  PROVE  IInv'
<1>0. /\ Fault("crash") /\ wk' = [w \in Workers |-> Idle] /\ offset' = 1
      /\ UNCHANGED <<receipt, given, turn, session, tasks, recent, cmd, effects, approvals, watched, told>>
  BY DEF Crash, gateway
<1>1. World' /\ Ledgers'
  BY <1>0, WorldStands, LedgersStand DEF IInv
<1>2. Stores'
  BY <1>0, FaultCounts, EventsAre DEF IInv, Stores
<1>3. Workshop'
  BY <1>0, IdleIs DEF Workshop
<1>4. Owns'
  BY <1>0, IdleIs DEF Owns
<1> QED BY <1>1, <1>2, <1>3, <1>4 DEF IInv

LEMMA InitHolds ==
  ASSUME ConstantsAssumption, Init
  PROVE  IInv
<1>1. Stores
  BY EventsAre DEF Init, Stores, ConstantsAssumption, Unclaimed, Tasks
<1>2. World
  <2>1. tasks = [e \in Events |-> [st |-> "none", rev |-> 0]] /\ recent = <<>>
    BY DEF Init
  <2>2. {t \in Events : Live(t)} = {}
    BY <2>1 DEF Live
  <2>3. Orders(<<>>, {})
    <3>1. <<>> \in Seq({}) /\ Len(<<>>) = 0
      BY EmptySeq
    <3>2. DOMAIN <<>> = {}
      BY <3>1, LenProperties
    <3> QED BY <3>1, <3>2 DEF Orders, Range, IsInjective
  <2>4. Orders(recent, {t \in Events : Live(t)})
    BY <2>1, <2>2, <2>3
  <2>5. /\ tasks \in [Events -> [st : {"none", "running", "review", "settled", "gone"},
                                rev : 0..MaxReviews]]
        /\ \A t \in Events : tasks[t].st = "review" => tasks[t].rev > 0
    BY <2>1 DEF ConstantsAssumption
  <2>6. approvals \in [Events -> SUBSET (Events \X (1..MaxReviews))]
    BY DEF Init
  <2> QED BY <2>4, <2>5, <2>6 DEF World
<1>3. Ledgers
  BY DEF Init, Ledgers, Nothing, Ops, Tasks, NoTask
<1>4. Workshop /\ Owns
  BY IdleIs DEF Init, Workshop, Owns
<1> QED BY <1>1, <1>2, <1>3, <1>4 DEF IInv

\* No step of a handler, of the platform, of a Task or of the process breaks it.
LEMMA StepKeeps ==
  ASSUME ConstantsAssumption, IInv, [Next]_vars
  PROVE  IInv'
<1>1. ASSUME NEW w \in Workers, PollClaim(w) \/ Handler(w) \/ LapseSlow(w)
      PROVE  IInv'
  BY <1>1, PollClaimKeeps, LapseSlowKeeps, ReadTurnKeeps, ReadSessionKeeps, FetchKeeps, ListKeeps,
     AdoptKeeps, BeforeKeeps, UnbindKeeps, ResumeKeeps, CreateKeeps, SendKeeps, DecideKeeps,
     BindKeeps, RebindKeeps, ReplyKeeps, MarkKeeps DEF Handler
<1>2. ASSUME NEW w \in Workers, NEW e \in Events, PushClaim(w, e)
      PROVE  IInv'
  BY <1>2, PushClaimKeeps
<1>3. ASSUME NEW e \in Events, LapseDead(e) \/ Settle(e) \/ Wake(e) \/ AskReview(e) \/ Vanish(e)
      PROVE  IInv'
  BY <1>3, LapseDeadKeeps, SettleKeeps, WakeKeeps, AskReviewKeeps, VanishKeeps
<1>4. CASE Crash
  BY <1>4, CrashKeeps
<1>5. CASE UNCHANGED vars
  <2>1. UNCHANGED <<receipt, given, offset, turn, session, tasks, recent, cmd, effects, approvals,
                    wk, watched, told, faults>>
    BY <1>5 DEF vars, stored, gateway
  <2> QED BY <2>1, WorldStands, LedgersStand DEF IInv, Stores, Workshop, Owns
<1> QED BY <1>1, <1>2, <1>3, <1>4, <1>5 DEF Next

\* The invariant of every turn under every fault.
THEOREM Invariance == ConstantsAssumption /\ Spec => []IInv
<1> SUFFICES ASSUME ConstantsAssumption PROVE Spec => []IInv
  OBVIOUS
<1>1. Init => IInv
  BY InitHolds
<1>2. IInv /\ [Next]_vars => IInv'
  BY StepKeeps
<1> QED BY <1>1, <1>2, PTL DEF Spec

\* A set with no two members has at most one.
LEMMA AtMostOne ==
  ASSUME NEW S, \A a, b \in S : a = b
  PROVE  IsFiniteSet(S) /\ Cardinality(S) <= 1
<1>1. CASE S = {}
  BY <1>1, FS_EmptySet
<1>2. CASE S # {}
  <2>1. PICK a \in S : TRUE
    BY <1>2
  <2>2. S = {a}
    BY <2>1
  <2>3. IsFiniteSet({a}) /\ Cardinality({a}) = 1
    BY FS_Singleton
  <2> QED BY <2>2, <2>3
<1> QED BY <1>1, <1>2

LEMMA InvariantSays ==
  ASSUME ConstantsAssumption, IInv, unseen \in [Events -> SUBSET Workers]
  PROVE  HandledOnce
<1>1. TypeOK
  BY DEF TypeOK, IInv, Stores, World, Ledgers, Workshop
<1>2. EffectOnce /\ StartedHasEffect
  BY DEF EffectOnce, StartedHasEffect, IInv, Ledgers
<1>3. ASSUME NEW e \in Events
      PROVE  Cardinality({w \in Workers : Handling(w, e) /\ ~wk[w].lapsed}) <= 1
  <2>1. ASSUME NEW v \in Workers, NEW w \in Workers, Handling(v, e), ~wk[v].lapsed,
               Handling(w, e), ~wk[w].lapsed
        PROVE  v = w
    <3>1. receipt[e] = [st |-> "claimed", by |-> v, old |-> FALSE]
          /\ receipt[e] = [st |-> "claimed", by |-> w, old |-> FALSE]
      BY <2>1 DEF Handling, IInv, Owns
    <3> QED BY <3>1
  <2> QED BY <2>1, AtMostOne
<1>4. OneLiveHolder
  BY <1>3 DEF OneLiveHolder
<1> QED BY <1>1, <1>2, <1>4 DEF HandledOnce

----------------------------------------------------------------------------
(* What a message's handler has read and what it has not                   *)

Busy == {"running", "review"}
AskingPcs == {"adopt", "before", "send", "create"}

\* Handler v, in state h, about to ask the Gateway for a message: a Task it will send to
\* (any Task, if it will make one) is busy only with a run that began after it had read.
Aware(v, h, all, seen) == h.pc # "idle" /\ Kind[h.ev] = "text" =>
  /\ h.pc \in {"before", "send"} \/ (h.pc = "adopt" /\ h.then = "before") =>
       (all[h.task].st \in Busy => v \in seen[h.task])
  /\ h.pc = "create" => \A t \in Events : all[t].st \in Busy => v \in seen[t]

SInv ==
  /\ unseen \in [Events -> SUBSET Workers]
  /\ \A v \in Workers : Aware(v, wk[v], tasks, unseen)

\* Handler w comes to a state it is aware in; no Task moves.
LEMMA HandlerAware ==
  ASSUME SInv, NEW w \in Workers, UNCHANGED <<tasks, unseen>>,
         \A v \in Workers \ {w} : wk'[v] = wk[v], Aware(w, wk'[w], tasks, unseen)
  PROVE  SInv'
<1>1. ASSUME NEW v \in Workers PROVE Aware(v, wk'[v], tasks, unseen)
  <2>1. CASE v = w
    BY <2>1
  <2>2. CASE v # w
    BY <2>2 DEF SInv
  <2> QED BY <2>1, <2>2
<1> QED BY <1>1 DEF SInv

\* One that is about to ask for nothing is aware whatever becomes of the Tasks.
LEMMA NotAsking ==
  ASSUME NEW v, NEW h, NEW all, NEW seen, h.pc \notin AskingPcs \/ Kind[h.ev] # "text"
  PROVE  Aware(v, h, all, seen)
BY DEF Aware, AskingPcs

\* Tasks move: whoever asks next stays aware if every run that began is unseen.
LEMMA StaysAware ==
  ASSUME IInv, SInv, NEW v \in Workers, NEW t \in Events, NEW all, NEW seen,
         seen \in {unseen, Unseen(t)},
         \A x \in Events : all[x].st \in Busy =>
           tasks[x].st \in Busy \/ (x = t /\ seen = Unseen(t))
  PROVE  Aware(v, wk[v], all, seen)
<1>1. Aware(v, wk[v], tasks, unseen) /\ Sound(wk[v], effects, offset)
      /\ unseen \in [Events -> SUBSET Workers]
  BY DEF SInv, IInv, Workshop
<1>2. wk[v].pc \in {"adopt", "before", "send"} => wk[v].task \in Events
  BY <1>1 DEF Sound
<1>3. Asking(v) => \A x \in Events : v \in unseen[x] => v \in seen[x]
  BY <1>1 DEF Unseen
<1>4. Asking(v) /\ seen = Unseen(t) => v \in seen[t]
  BY <1>1 DEF Unseen
<1>5. ASSUME wk[v].pc # "idle", Kind[wk[v].ev] = "text",
             wk[v].pc \in {"before", "send"} \/ (wk[v].pc = "adopt" /\ wk[v].then = "before"),
             all[wk[v].task].st \in Busy
      PROVE  v \in seen[wk[v].task]
  <2>1. Asking(v) /\ wk[v].task \in Events
    BY <1>2, <1>5 DEF Asking, At, KindOf, Ev
  <2> QED BY <1>1, <1>3, <1>4, <1>5, <2>1 DEF Aware
<1>6. ASSUME wk[v].pc # "idle", Kind[wk[v].ev] = "text", wk[v].pc = "create",
             NEW x \in Events, all[x].st \in Busy
      PROVE  v \in seen[x]
  <2>1. Asking(v)
    BY <1>6 DEF Asking, At, KindOf, Ev
  <2> QED BY <1>1, <1>3, <1>4, <1>6, <2>1 DEF Aware
<1> QED BY <1>5, <1>6 DEF Aware

\* What one handler asks for and gets does not make another forget.
LEMMA AskedStays ==
  ASSUME IInv, NEW v \in Workers, NEW w \in Workers, v # w, NEW all,
         NEW seen \in [Events -> SUBSET Workers], Aware(v, wk[v], all, seen)
  PROVE  Aware(v, wk[v], all, Asked(w, seen))
<1>1. Sound(wk[v], effects, offset)
  BY DEF IInv, Workshop
<1>2. wk[v].pc \in {"adopt", "before", "send"} => wk[v].task \in Events
  BY <1>1 DEF Sound
<1>3. \A x \in Events : v \in seen[x] => v \in Asked(w, seen)[x]
  BY DEF Asked
<1> QED BY <1>2, <1>3 DEF Aware

\* A choice made of a Task that is there: a message goes on if it is not active.
LEMMA ChosenKnows ==
  ASSUME IInv, NEW w \in Workers, NEW t \in Events, wk[w].pc \in {"fetch", "list"},
         Chosen(w, t).pc = "before"
  PROVE  tasks[t].st \notin Busy
<1>1. wk[w] \in HandlerState
  BY DEF IInv, Workshop
<1>2. Chosen(w, t) = TurnChoice(w, t)
  <2>1. ReviewChoice(w, t).pc # "before"
    BY <1>1 DEF ReviewChoice, HandlerState
  <2> QED BY <2>1 DEF Chosen
<1>3. tasks[t].st \in Busy => TurnChoice(w, t).pc = "reply"
  BY <1>1 DEF TurnChoice, HandlerState, Busy
<1> QED BY <1>2, <1>3

\* A chat without a Task has none that is busy.
LEMMA NoneLive ==
  ASSUME ConstantsAssumption, IInv, Latest = NoTask
  PROVE  \A t \in Events : tasks[t].st \notin Busy
<1> DEFINE T == {t \in Events : Live(t)}
<1>1. Orders(recent, T) /\ NoTask \notin T
  BY EventsAre DEF IInv, World
<1>2. CASE recent # <<>>
  <2>1. recent \in Seq(T) /\ Latest = recent[Len(recent)] /\ Len(recent) \in 1..Len(recent)
    BY <1>1, <1>2, EmptySeq DEF Orders, Latest, Last
  <2>2. Latest \in T
    BY <2>1, ElementOfSeq
  <2> QED BY <1>1, <2>2
<1>3. CASE recent = <<>>
  <2>1. Range(recent) = {}
    BY <1>3 DEF Range
  <2>2. T = {}
    BY <1>1, <2>1 DEF Orders
  <2> QED BY <2>2, EventsAre DEF Live, Busy
<1> QED BY <1>2, <1>3

LEMMA FetchAware ==
  ASSUME ConstantsAssumption, IInv, SInv, NEW w \in Workers, Fetch(w)
  PROVE  SInv'
<1>0. /\ wk[w].pc = "fetch" /\ wk \in [Workers -> HandlerState]
      /\ wk[w] \in HandlerState /\ UNCHANGED <<tasks, unseen>>
  BY HandlerIs DEF Fetch, At, gateway, IInv, Workshop
<1>1. CASE Live(wk[w].task) /\ wk' = [wk EXCEPT ![w] = Chosen(w, wk[w].task)]
  <2> DEFINE h == Chosen(w, wk[w].task)
  <2>1. wk[w].task \in Events
    BY <1>0, <1>1 DEF HandlerState, Tasks, Live
  <2>2. /\ h.pc \in {"before", "decide", "reply"} /\ h.task = wk[w].task
        /\ h.pc = "before" => tasks[wk[w].task].st \notin Busy
    BY <1>0, <2>1, ChosenIs, ChosenKnows
  <2>3. wk'[w] = h /\ \A v \in Workers \ {w} : wk'[v] = wk[v]
    BY <1>0, <1>1
  <2> HIDE DEF h
  <2>4. Aware(w, wk'[w], tasks, unseen)
    BY <2>2, <2>3 DEF Aware
  <2> QED BY <1>0, <2>3, <2>4, HandlerAware
<1>2. CASE Goto(w, "list")
  <2>1. wk'[w].pc = "list" /\ \A v \in Workers \ {w} : wk'[v] = wk[v]
    BY <1>0, <1>2 DEF Goto, HandlerState
  <2>2. Aware(w, wk'[w], tasks, unseen)
    BY <2>1, NotAsking DEF AskingPcs
  <2> QED BY <1>0, <2>1, <2>2, HandlerAware
<1> QED BY <1>1, <1>2 DEF Fetch

LEMMA ListAware ==
  ASSUME ConstantsAssumption, IInv, SInv, NEW w \in Workers, List(w)
  PROVE  SInv'
<1>0. /\ wk[w].pc = "list" /\ wk \in [Workers -> HandlerState]
      /\ wk[w] \in HandlerState /\ UNCHANGED <<tasks, unseen>>
  BY HandlerIs DEF List, At, gateway, IInv, Workshop
<1> DEFINE c == Chosen(w, Latest)
<1>1. CASE Latest # NoTask
  <2> DEFINE h == [c EXCEPT !.pc = "adopt", !.then = c.pc]
  <2>1. wk' = [wk EXCEPT ![w] = h]
    BY <1>1 DEF List
  <2>2. Latest \in Events
    BY <1>1, LatestIs DEF IInv, World
  <2>3. /\ c \in HandlerState /\ c.task = Latest
        /\ c.pc = "before" => tasks[Latest].st \notin Busy
    BY <1>0, <2>2, ChosenIs, ChosenKnows
  <2> HIDE DEF c
  <2>4. h.pc = "adopt" /\ h.then = c.pc /\ h.task = Latest
    BY <2>3 DEF HandlerState
  <2> HIDE DEF h
  <2>5. wk'[w] = h /\ \A v \in Workers \ {w} : wk'[v] = wk[v]
    BY <1>0, <2>1
  <2>6. Aware(w, wk'[w], tasks, unseen)
    BY <2>3, <2>4, <2>5 DEF Aware
  <2> QED BY <1>0, <2>5, <2>6, HandlerAware
<1>2. CASE Latest = NoTask /\ KindOf(w) = "yes"
  <2>1. wk'[w].pc = "reply" /\ \A v \in Workers \ {w} : wk'[v] = wk[v]
    BY <1>0, <1>2 DEF List, HandlerState
  <2>2. Aware(w, wk'[w], tasks, unseen)
    BY <2>1, NotAsking DEF AskingPcs
  <2> QED BY <1>0, <2>1, <2>2, HandlerAware
<1>3. CASE Latest = NoTask /\ KindOf(w) # "yes"
  <2>1. wk'[w].pc = "create" /\ \A v \in Workers \ {w} : wk'[v] = wk[v]
    BY <1>0, <1>3 DEF List, HandlerState
  <2>2. \A t \in Events : tasks[t].st \notin Busy
    BY <1>3, NoneLive
  <2>3. Aware(w, wk'[w], tasks, unseen)
    BY <2>1, <2>2 DEF Aware
  <2> QED BY <1>0, <2>1, <2>3, HandlerAware
<1> QED BY <1>1, <1>2, <1>3

\* The steps that read nothing of the Tasks and are still to ask.
LEMMA PassingAware ==
  ASSUME ConstantsAssumption, IInv, SInv, NEW w \in Workers,
         Adopt(w) \/ Before(w) \/ LapseSlow(w)
  PROVE  SInv'
<1>0. /\ wk \in [Workers -> HandlerState] /\ wk[w] \in HandlerState
      /\ Sound(wk[w], effects, offset) /\ Aware(w, wk[w], tasks, unseen)
      /\ UNCHANGED <<tasks, unseen>>
  BY DEF Adopt, Before, LapseSlow, gateway, IInv, Workshop, SInv
<1>1. \A v \in Workers \ {w} : wk'[v] = wk[v]
  BY <1>0 DEF Adopt, Before, LapseSlow, Goto
<1>2. CASE Adopt(w)
  <2> DEFINE h == [wk[w] EXCEPT !.pc = wk[w].then]
  <2>1. wk'[w] = h /\ wk[w].pc = "adopt"
    BY <1>0, <1>2 DEF Adopt, Goto, At
  <2>2. /\ h.ev = wk[w].ev /\ h.task = wk[w].task /\ h.pc = wk[w].then
        /\ wk[w].then \in {"before", "decide", "reply"}
    BY <1>0, <2>1 DEF HandlerState, Sound
  <2> HIDE DEF h
  <2>3. Aware(w, wk'[w], tasks, unseen)
    BY <1>0, <2>1, <2>2 DEF Aware
  <2> QED BY <1>0, <1>1, <2>3, HandlerAware
<1>3. CASE Before(w)
  <2> DEFINE h == [wk[w] EXCEPT !.pc = "send"]
  <2>1. wk'[w] = h /\ wk[w].pc = "before"
    BY <1>0, <1>3 DEF Before, Goto, At
  <2>2. h.ev = wk[w].ev /\ h.task = wk[w].task /\ h.pc = "send"
    BY <1>0 DEF HandlerState
  <2> HIDE DEF h
  <2>3. Aware(w, wk'[w], tasks, unseen)
    BY <1>0, <2>1, <2>2 DEF Aware
  <2> QED BY <1>0, <1>1, <2>3, HandlerAware
<1>4. CASE LapseSlow(w)
  <2> DEFINE h == [wk[w] EXCEPT !.lapsed = TRUE]
  <2>1. wk'[w] = h
    BY <1>0, <1>4 DEF LapseSlow
  <2>2. h.ev = wk[w].ev /\ h.task = wk[w].task /\ h.pc = wk[w].pc /\ h.then = wk[w].then
    BY <1>0 DEF HandlerState
  <2> HIDE DEF h
  <2>3. Aware(w, wk'[w], tasks, unseen)
    BY <1>0, <2>1, <2>2 DEF Aware
  <2> QED BY <1>0, <1>1, <2>3, HandlerAware
<1> QED BY <1>2, <1>3, <1>4

\* The steps that lead to asking for nothing: what they leave a handler in.
LEMMA QuietSteps ==
  ASSUME ConstantsAssumption, IInv, NEW w \in Workers,
         \/ ReadTurn(w) \/ ReadSession(w) \/ Unbind(w) \/ Resume(w) \/ Bind(w) \/ Rebind(w)
         \/ PollReply(w) \/ PushReply(w) \/ PollMark(w) \/ PushMark(w) \/ Release(w)
  PROVE  /\ UNCHANGED <<tasks, unseen>> /\ \A v \in Workers \ {w} : wk'[v] = wk[v]
         /\ wk'[w].pc \notin AskingPcs \/ Kind[wk'[w].ev] # "text"
<1>0. /\ wk \in [Workers -> HandlerState] /\ wk[w] \in HandlerState
      /\ UNCHANGED <<tasks, unseen>>
  BY DEF ReadTurn, ReadSession, Unbind, Resume, Bind, Rebind, PollReply, PushReply, PollMark,
         PushMark, Release, gateway, IInv, Workshop
<1>1. CASE ReadTurn(w)
  <2>1. \A v \in Workers \ {w} : wk'[v] = wk[v]
    BY <1>0, <1>1 DEF ReadTurn, Goto
  <2>2. \/ wk'[w].pc = "reply"
        \/ /\ wk'[w].ev = wk[w].ev
           /\ wk'[w].pc = IF KindOf(w) = "new" THEN "create" ELSE "session"
    BY <1>0, <1>1 DEF ReadTurn, Goto, HandlerState
  <2> QED BY <1>0, <2>1, <2>2 DEF KindOf, Ev, AskingPcs
<1>2. CASE Unbind(w)
  <2>1. \A v \in Workers \ {w} : wk'[v] = wk[v]
    BY <1>0, <1>2 DEF Unbind
  <2>2. wk'[w].pc = "reply" \/ (KindOf(w) = "start" /\ wk'[w].ev = wk[w].ev)
    BY <1>0, <1>2 DEF Unbind, HandlerState
  <2> QED BY <1>0, <2>1, <2>2 DEF KindOf, Ev, AskingPcs
<1>3. CASE ReadSession(w) \/ Resume(w)
  <2>1. \A v \in Workers \ {w} : wk'[v] = wk[v]
    BY <1>0, <1>3 DEF ReadSession, Resume
  <2>2. wk'[w].pc \in {"list", "fetch", "rebind", "reply"}
    BY <1>0, <1>3 DEF ReadSession, Resume, HandlerState
  <2> QED BY <1>0, <2>1, <2>2 DEF AskingPcs
<1>4. CASE Bind(w) \/ Rebind(w) \/ PollReply(w) \/ PushReply(w)
  <2>1. Goto(w, "reply") \/ Goto(w, "mark") \/ Goto(w, "release")
    BY <1>4 DEF Bind, Rebind, PollReply, PushReply, Told, NotTold, Fail
  <2>2. \A v \in Workers \ {w} : wk'[v] = wk[v]
    BY <1>0, <2>1 DEF Goto
  <2>3. wk'[w].pc \in {"reply", "mark", "release"}
    BY <1>0, <2>1 DEF Goto, HandlerState
  <2> QED BY <1>0, <2>2, <2>3 DEF AskingPcs
<1>5. CASE PollMark(w) \/ PushMark(w) \/ Release(w)
  <2>1. wk'[w] = Idle /\ \A v \in Workers \ {w} : wk'[v] = wk[v]
    BY <1>0, <1>5 DEF PollMark, PushMark, Release
  <2> QED BY <1>0, <2>1 DEF Idle, AskingPcs
<1> QED BY <1>1, <1>2, <1>3, <1>4, <1>5

\* A claim starts a handler before it has read anything.
LEMMA ClaimSteps ==
  ASSUME ConstantsAssumption, IInv, NEW w \in Workers, NEW e \in Events, TakeClaim(w, e)
  PROVE  wk'[w].pc \notin AskingPcs /\ \A v \in Workers \ {w} : wk'[v] = wk[v]
<1>1. wk \in [Workers -> HandlerState] /\ wk'[w].pc = Entry(e)
      /\ \A v \in Workers \ {w} : wk'[v] = wk[v]
  BY DEF TakeClaim, IInv, Workshop, Idle
<1>2. Entry(e) \in {"turn", "session", "unbind", "resume"}
  <2>1. Kind[e] \in Kinds
    BY DEF ConstantsAssumption
  <2> QED BY <2>1 DEF Entry, Kinds
<1> QED BY <1>1, <1>2 DEF AskingPcs

LEMMA ClaimAware ==
  ASSUME ConstantsAssumption, IInv, SInv, NEW w \in Workers, NEW e \in Events,
         PollClaim(w) \/ PushClaim(w, e)
  PROVE  SInv'
<1>0. UNCHANGED <<tasks, unseen>>
  BY DEF PollClaim, PushClaim, gateway
<1>1. CASE \E x \in Events : TakeClaim(w, x)
  BY <1>0, <1>1, ClaimSteps, NotAsking, HandlerAware
<1>2. CASE UNCHANGED wk
  BY <1>0, <1>2 DEF SInv
<1> QED BY <1>1, <1>2 DEF PollClaim, PushClaim

\* What a request leaves its handler in.
LEMMA RequestSteps ==
  ASSUME ConstantsAssumption, IInv, NEW w \in Workers, Create(w) \/ Send(w) \/ Decide(w)
  PROVE  /\ wk'[w].pc \in {"bind", "rebind", "release"} /\ wk'[w].ev = wk[w].ev
         /\ \A v \in Workers \ {w} : wk'[v] = wk[v]
<1>0. wk \in [Workers -> HandlerState] /\ wk[w] \in HandlerState
  BY DEF IInv, Workshop
<1>1. ASSUME Fail(w)
      PROVE  /\ wk'[w].pc = "release" /\ wk'[w].ev = wk[w].ev
             /\ \A v \in Workers \ {w} : wk'[v] = wk[v]
  BY <1>0, <1>1 DEF Fail, Goto, HandlerState
<1>2. ASSUME NEW command, NEW then \in {"bind", "rebind"}, Answered(w, command, then)
      PROVE  /\ wk'[w].pc \in {"bind", "rebind", "release"} /\ wk'[w].ev = wk[w].ev
             /\ \A v \in Workers \ {w} : wk'[v] = wk[v]
  <2>1. CASE wk' = [wk EXCEPT ![w].pc = then, ![w].op = command.op,
                              ![w].task = command.task, ![w].say = "started"]
    BY <1>0, <2>1 DEF HandlerState
  <2> QED BY <1>1, <1>2, <2>1 DEF Answered
<1>3. CASE Create(w) \/ Send(w)
  BY <1>1, <1>2, <1>3 DEF Create, Send, Refused
<1>4. CASE Decide(w)
  <2>1. CASE wk' = [wk EXCEPT ![w].pc = "rebind", ![w].say = "submitted"]
    BY <1>0, <2>1 DEF HandlerState
  <2> QED BY <1>1, <1>4, <2>1 DEF Decide, Refused
<1> QED BY <1>3, <1>4

\* A request that a run begins with, and one that none begins with.
LEMMA RequestAware ==
  ASSUME ConstantsAssumption, IInv, SInv, NEW w \in Workers, Create(w) \/ Send(w)
  PROVE  SInv'
<1>0. /\ wk[w].pc \in {"create", "send"} /\ Sound(wk[w], effects, offset)
      /\ unseen \in [Events -> SUBSET Workers]
      /\ tasks \in [Events -> [st : {"none", "running", "review", "settled", "gone"},
                               rev : 0..MaxReviews]]
  BY DEF Create, Send, At, IInv, Workshop, World, SInv
<1>1. \E t \in Events : \E seen \in {unseen, Unseen(t)} :
        /\ unseen' = Asked(w, seen)
        /\ \A x \in Events : tasks'[x].st \in Busy =>
             tasks[x].st \in Busy \/ (x = t /\ seen = Unseen(t))
  <2>1. CASE Create(w)
    <3> DEFINE e == wk[w].ev
               seen == IF cmd[e] = Nothing THEN Unseen(e) ELSE unseen
    <3>1. e \in Events /\ seen \in {unseen, Unseen(e)} /\ unseen' = Asked(w, seen)
      BY <1>0, <2>1 DEF Create, Ev, Sound
    <3>2. ASSUME NEW x \in Events, tasks'[x].st \in Busy, tasks[x].st \notin Busy
          PROVE  x = e /\ seen = Unseen(e)
      <4>1. tasks' # tasks
        BY <3>2
      <4>2. cmd[e] = Nothing /\ tasks' = [tasks EXCEPT ![e] = [st |-> "running", rev |-> 0]]
        BY <2>1, <4>1 DEF Create, Ev, Refused, gateway
      <4> QED BY <1>0, <3>1, <3>2, <4>2
    <3> HIDE DEF e, seen
    <3> QED BY <3>1, <3>2
  <2>2. CASE Send(w)
    <3> DEFINE e == wk[w].ev
               t == wk[w].task
               seen == IF cmd[e] = Nothing /\ tasks[t].st = "settled" THEN Unseen(t) ELSE unseen
    <3>1. t \in Events /\ seen \in {unseen, Unseen(t)} /\ unseen' = Asked(w, seen)
      BY <1>0, <2>2 DEF Send, Ev, At, Sound
    <3>2. ASSUME NEW x \in Events, tasks'[x].st \in Busy, tasks[x].st \notin Busy
          PROVE  x = t /\ seen = Unseen(t)
      <4>1. tasks' # tasks
        BY <3>2
      <4>2. /\ cmd[e] = Nothing /\ tasks[t].st = "settled"
            /\ tasks' = [tasks EXCEPT ![t].st = "running"]
        BY <2>2, <4>1 DEF Send, Ev, Refused, gateway
      <4> QED BY <1>0, <3>1, <3>2, <4>2
    <3> HIDE DEF e, t, seen
    <3> QED BY <3>1, <3>2
  <2> QED BY <2>1, <2>2
<1>2. PICK t \in Events : \E seen \in {unseen, Unseen(t)} :
        /\ unseen' = Asked(w, seen)
        /\ \A x \in Events : tasks'[x].st \in Busy =>
             tasks[x].st \in Busy \/ (x = t /\ seen = Unseen(t))
  BY <1>1
<1>3. PICK seen \in {unseen, Unseen(t)} :
        /\ unseen' = Asked(w, seen)
        /\ \A x \in Events : tasks'[x].st \in Busy =>
             tasks[x].st \in Busy \/ (x = t /\ seen = Unseen(t))
  BY <1>2
<1>4. /\ wk'[w].pc \notin AskingPcs /\ \A v \in Workers \ {w} : wk'[v] = wk[v]
  BY RequestSteps DEF AskingPcs
<1>5. seen \in [Events -> SUBSET Workers]
  BY <1>0, <1>3 DEF Unseen
<1>6. unseen' \in [Events -> SUBSET Workers]
  BY <1>3, <1>5 DEF Asked
<1>7. ASSUME NEW v \in Workers PROVE Aware(v, wk'[v], tasks', unseen')
  <2>1. CASE v = w
    BY <1>4, <2>1, NotAsking
  <2>2. CASE v # w
    <3>1. Aware(v, wk[v], tasks', seen)
      BY <1>3, StaysAware
    <3>2. Aware(v, wk[v], tasks', Asked(w, seen))
      BY <1>5, <2>2, <3>1, AskedStays
    <3> QED BY <1>3, <1>4, <2>2, <3>2
  <2> QED BY <2>1, <2>2
<1> QED BY <1>6, <1>7 DEF SInv

\* The Tasks move by themselves, or by a decision.
LEMMA TasksAware ==
  ASSUME ConstantsAssumption, IInv, SInv, NEW t \in Events,
         NEW seen \in {unseen, Unseen(t)}, UNCHANGED wk, unseen' = seen,
         \A x \in Events : tasks'[x].st \in Busy =>
           tasks[x].st \in Busy \/ (x = t /\ seen = Unseen(t))
  PROVE  SInv'
<1>1. \A v \in Workers : Aware(v, wk[v], tasks', seen)
  BY StaysAware
<1>2. seen \in [Events -> SUBSET Workers]
  BY DEF SInv, Unseen
<1> QED BY <1>1, <1>2 DEF SInv

LEMMA DecideAware ==
  ASSUME ConstantsAssumption, IInv, SInv, NEW w \in Workers, Decide(w)
  PROVE  SInv'
<1>0. /\ tasks \in [Events -> [st : {"none", "running", "review", "settled", "gone"},
                               rev : 0..MaxReviews]]
      /\ wk[w].task \in Events /\ unseen' = unseen
  BY DEF Decide, At, IInv, Workshop, World, Sound
<1>1. \A x \in Events : tasks'[x].st \in Busy => tasks[x].st \in Busy
  <2>1. CASE tasks' = tasks
    BY <2>1
  <2>2. CASE tasks' # tasks
    <3>1. /\ tasks[wk[w].task].st = "review"
          /\ tasks' = [tasks EXCEPT ![wk[w].task].st = "running"]
      BY <2>2 DEF Decide, Refused, gateway
    <3> QED BY <1>0, <3>1 DEF Busy
  <2> QED BY <2>1, <2>2
<1>2. wk'[w].pc \notin AskingPcs /\ \A v \in Workers \ {w} : wk'[v] = wk[v]
  BY RequestSteps DEF AskingPcs
<1>3. ASSUME NEW v \in Workers PROVE Aware(v, wk'[v], tasks', unseen)
  <2>1. CASE v = w
    BY <1>2, <2>1, NotAsking
  <2>2. CASE v # w
    <3>1. Aware(v, wk[v], tasks', unseen)
      BY <1>0, <1>1, StaysAware
    <3> QED BY <1>2, <2>2, <3>1
  <2> QED BY <2>1, <2>2
<1> QED BY <1>0, <1>3 DEF SInv

LEMMA TaskStepAware ==
  ASSUME ConstantsAssumption, IInv, SInv, NEW t \in Events,
         Settle(t) \/ Wake(t) \/ AskReview(t) \/ Vanish(t)
  PROVE  SInv'
<1>0. /\ tasks \in [Events -> [st : {"none", "running", "review", "settled", "gone"},
                               rev : 0..MaxReviews]]
      /\ unseen \in [Events -> SUBSET Workers] /\ UNCHANGED wk
  BY DEF Settle, Wake, AskReview, Vanish, IInv, World, SInv
<1>1. CASE Settle(t)
  <2>1. /\ tasks'[t].st = "settled" /\ \A x \in Events \ {t} : tasks'[x] = tasks[x]
        /\ unseen' \in [Events -> SUBSET Workers]
        /\ \A x \in Events \ {t} : unseen'[x] = unseen[x]
    BY <1>0, <1>1 DEF Settle
  <2>2. ASSUME NEW v \in Workers PROVE Aware(v, wk[v], tasks', unseen')
    <3>1. Aware(v, wk[v], tasks, unseen) /\ Sound(wk[v], effects, offset)
      BY DEF SInv, IInv, Workshop
    <3>2. wk[v].pc \in {"adopt", "before", "send"} => wk[v].task \in Events
      BY <3>1 DEF Sound
    <3>3. \A x \in Events : tasks'[x].st \in Busy =>
            tasks[x].st \in Busy /\ unseen'[x] = unseen[x]
      BY <2>1 DEF Busy
    <3> QED BY <3>1, <3>2, <3>3 DEF Aware
  <2> QED BY <1>0, <2>1, <2>2 DEF SInv
<1>2. CASE Wake(t)
  <2> DEFINE seen == IF tasks[t].st = "settled" THEN Unseen(t) ELSE unseen
  <2>1. seen \in {unseen, Unseen(t)} /\ unseen' = seen
    BY <1>2 DEF Wake
  <2>2. \A x \in Events : tasks'[x].st \in Busy =>
          tasks[x].st \in Busy \/ (x = t /\ seen = Unseen(t))
    BY <1>0, <1>2 DEF Wake, Busy
  <2> HIDE DEF seen
  <2> QED BY <1>0, <2>1, <2>2, TasksAware
<1>3. CASE AskReview(t) \/ Vanish(t)
  <2>1. unseen' = unseen
    BY <1>3 DEF AskReview, Vanish
  <2>2. \A x \in Events : tasks'[x].st \in Busy => tasks[x].st \in Busy
    BY <1>0, <1>3 DEF AskReview, Vanish, Busy
  <2> QED BY <1>0, <2>1, <2>2, TasksAware
<1> QED BY <1>1, <1>2, <1>3

LEMMA AwareKeeps ==
  ASSUME ConstantsAssumption, IInv, SInv, [Next]_vars
  PROVE  SInv'
<1>1. ASSUME NEW w \in Workers, Handler(w)
      PROVE  SInv'
  <2>1. CASE \/ ReadTurn(w) \/ ReadSession(w) \/ Unbind(w) \/ Resume(w) \/ Bind(w) \/ Rebind(w)
             \/ PollReply(w) \/ PushReply(w) \/ PollMark(w) \/ PushMark(w) \/ Release(w)
    BY <2>1, QuietSteps, NotAsking, HandlerAware
  <2>2. CASE Fetch(w) \/ List(w) \/ Adopt(w) \/ Before(w)
    BY <2>2, FetchAware, ListAware, PassingAware
  <2>3. CASE Create(w) \/ Send(w) \/ Decide(w)
    BY <2>3, RequestAware, DecideAware
  <2> QED BY <1>1, <2>1, <2>2, <2>3 DEF Handler
<1>2. ASSUME NEW w \in Workers, PollClaim(w) \/ LapseSlow(w)
      PROVE  SInv'
  BY <1>2, EventsAre, ClaimAware, PassingAware
<1>3. ASSUME NEW w \in Workers, NEW e \in Events, PushClaim(w, e)
      PROVE  SInv'
  BY <1>3, ClaimAware
<1>4. ASSUME NEW e \in Events, Settle(e) \/ Wake(e) \/ AskReview(e) \/ Vanish(e)
      PROVE  SInv'
  BY <1>4, TaskStepAware
<1>5. CASE UNCHANGED vars \/ \E e \in Events : LapseDead(e)
  <2>1. UNCHANGED <<wk, tasks, unseen>>
    BY <1>5 DEF LapseDead, vars, gateway
  <2> QED BY <2>1 DEF SInv
<1>6. CASE Crash
  <2>1. unseen' \in [Events -> SUBSET Workers] /\ \A v \in Workers : wk'[v].pc = "idle"
    BY <1>6 DEF Crash, Idle
  <2> QED BY <2>1 DEF SInv, Aware
<1> QED BY <1>1, <1>2, <1>3, <1>4, <1>5, <1>6 DEF Next

\* What every handler about to ask the Gateway has read, and what began since.
THEOREM ReadsKnown == ConstantsAssumption /\ Spec => []SInv
<1> SUFFICES ASSUME ConstantsAssumption PROVE Spec => []SInv
  OBVIOUS
<1>1. Init => SInv
  BY DEF Init, SInv, Aware, Idle
<1>2. IInv /\ SInv /\ [Next]_vars => SInv'
  BY AwareKeeps
<1> QED BY <1>1, <1>2, Invariance, PTL DEF Spec

----------------------------------------------------------------------------
(* Events handled one by one: the Task read is the chat's when asked       *)

Bound(h, current) == h.pc # "idle" /\ Kind[h.ev] = "text" =>
  /\ h.pc \in {"fetch", "before", "send"} => h.task = current

Follows == Ingress = "poll" => \A w \in Workers : Bound(wk[w], session)

LEMMA FollowsKeeps ==
  ASSUME ConstantsAssumption, IInv, Follows, [Next]_vars
  PROVE  Follows'
<1> SUFFICES ASSUME Ingress = "poll", NEW w \in Workers
             PROVE  Bound(wk'[w], session')
  BY DEF Follows
<1>0. /\ wk \in [Workers -> HandlerState] /\ wk[w] \in HandlerState
      /\ Bound(wk[w], session) /\ \A v \in Workers : v = w
      /\ Sound(wk[w], effects, offset)
  BY DEF Follows, ConstantsAssumption, IInv, Workshop
<1>1. ASSUME wk'[w].pc \notin {"fetch", "before", "send"}
      PROVE  Bound(wk'[w], session')
  BY <1>1 DEF Bound
<1>2. ASSUME NEW v \in Workers, v = w,
             \/ ReadTurn(w) \/ ReadSession(w) \/ Unbind(w) \/ Resume(w) \/ Bind(w) \/ Rebind(w)
             \/ PollReply(w) \/ PushReply(w) \/ PollMark(w) \/ PushMark(w) \/ Release(w)
      PROVE  Bound(wk'[w], session')
  <2>1. CASE ReadSession(w)
    <3>1. session' = session /\ (wk'[w].pc = "fetch" => wk'[w].task = session)
          /\ wk'[w].pc \in {"fetch", "list"}
      BY <1>0, <2>1 DEF ReadSession, stored, HandlerState
    <3> QED BY <3>1 DEF Bound
  <2>2. CASE ReadTurn(w)
    BY <1>0, <1>1, <2>2 DEF ReadTurn, Goto, HandlerState
  <2>3. CASE Unbind(w) \/ Resume(w)
    BY <1>0, <1>1, <2>3 DEF Unbind, Resume, HandlerState
  <2>4. CASE \/ Bind(w) \/ Rebind(w) \/ PollReply(w) \/ PushReply(w)
    <3>1. Goto(w, "reply") \/ Goto(w, "mark") \/ Goto(w, "release")
      BY <2>4 DEF Bind, Rebind, PollReply, PushReply, Told, NotTold, Fail
    <3> QED BY <1>0, <1>1, <3>1 DEF Goto, HandlerState
  <2>5. CASE PollMark(w) \/ PushMark(w) \/ Release(w)
    BY <1>0, <1>1, <2>5 DEF PollMark, PushMark, Release, Idle
  <2> QED BY <1>2, <2>1, <2>2, <2>3, <2>4, <2>5
<1>3. CASE Fetch(w)
  <2>0. wk[w].pc = "fetch"
    BY <1>3 DEF Fetch, At
  <2>1. CASE /\ Live(wk[w].task) /\ wk' = [wk EXCEPT ![w] = Chosen(w, wk[w].task)]
             /\ session' = session
    <3> DEFINE h == Chosen(w, wk[w].task)
    <3>1. wk[w].task \in Events
      BY <1>0, <2>1 DEF HandlerState, Tasks, Live
    <3>2. h.task = wk[w].task /\ h.ev = wk[w].ev /\ wk'[w] = h
      BY <1>0, <2>0, <2>1, <3>1, ChosenIs
    <3> HIDE DEF h
    <3> QED BY <1>0, <2>0, <2>1, <3>2 DEF Bound
  <2>2. CASE Goto(w, "list")
    BY <1>0, <1>1, <2>2 DEF Goto, HandlerState
  <2> QED BY <1>3, <2>1, <2>2 DEF Fetch
<1>4. CASE List(w)
  <2> DEFINE c == Chosen(w, Latest)
  <2>1. CASE Latest # NoTask
    <3>1. wk'[w] = [c EXCEPT !.pc = "adopt", !.then = c.pc]
      BY <1>0, <1>4, <2>1 DEF List
    <3>2. Latest \in Events /\ wk[w].pc = "list"
      BY <1>4, <2>1, LatestIs DEF IInv, World, List, At
    <3>3. c \in HandlerState
      BY <3>2, ChosenIs
    <3> HIDE DEF c
    <3>4. wk'[w].pc = "adopt"
      BY <3>1, <3>3 DEF HandlerState
    <3> QED BY <1>1, <3>4
  <2>2. CASE Latest = NoTask
    BY <1>0, <1>1, <1>4, <2>2 DEF List, HandlerState
  <2> QED BY <2>1, <2>2
<1>5. CASE Adopt(w)
  <2>1. session' = wk[w].task /\ wk'[w].task = wk[w].task
    BY <1>0, <1>5 DEF Adopt, Goto, HandlerState
  <2> QED BY <2>1 DEF Bound
<1>6. CASE Before(w) \/ LapseSlow(w)
  <2>1. /\ session' = session /\ wk'[w].task = wk[w].task /\ wk'[w].ev = wk[w].ev
        /\ wk'[w].pc = wk[w].pc \/ wk[w].pc = "before"
    BY <1>0, <1>6 DEF Before, LapseSlow, Goto, HandlerState, stored, At
  <2>2. wk'[w].pc \in {"fetch", "before", "send"} => wk[w].pc \in {"fetch", "before", "send"}
    BY <2>1
  <2> QED BY <1>0, <2>1, <2>2 DEF Bound
<1>7. CASE Create(w) \/ Send(w) \/ Decide(w)
  BY <1>1, <1>7, RequestSteps
<1>8. CASE PollClaim(w)
  <2>1. CASE TakeClaim(w, offset) /\ offset \in Events
    <3>1. wk'[w].pc = Entry(offset) /\ Kind[offset] \in Kinds
      BY <1>0, <2>1 DEF TakeClaim, Idle, ConstantsAssumption
    <3>2. Entry(offset) \in {"turn", "session", "unbind", "resume"}
      BY <3>1 DEF Entry, Kinds
    <3> QED BY <1>1, <3>1, <3>2
  <2>2. CASE UNCHANGED <<wk, session>>
    BY <1>0, <2>2
  <2> QED BY <1>8, <2>1, <2>2 DEF PollClaim
<1>9. CASE \/ UNCHANGED vars
           \/ \E e \in Events : LapseDead(e) \/ Settle(e) \/ Wake(e) \/ AskReview(e) \/ Vanish(e)
  <2>1. UNCHANGED <<wk, session>>
    BY <1>9 DEF LapseDead, Settle, Wake, AskReview, Vanish, vars, stored
  <2> QED BY <1>0, <2>1
<1>10. CASE Crash
  BY <1>1, <1>10 DEF Crash, Idle
<1>11. ~\E v \in Workers, e \in Events : PushClaim(v, e)
  BY DEF PushClaim
<1> QED BY <1>0, <1>2, <1>3, <1>4, <1>5, <1>6, <1>7, <1>8, <1>9, <1>10, <1>11 DEF Next, Handler

\* Only a create or an input that is accepted for the first time has an effect.
LEMMA EffectIsActing ==
  ASSUME ConstantsAssumption, IInv, [Next]_vars,
         NEW e \in Events, effects'[e] > effects[e]
  PROVE  \E w \in Workers : wk[w].pc \in {"create", "send"} /\ wk[w].ev = e /\ wk'[w] # wk[w]
<1>1. effects' # effects /\ effects \in [Events -> 0..1]
  BY DEF IInv, Ledgers
<1>2. PICK w \in Workers : Create(w) \/ Send(w)
  BY <1>1 DEF Next, vars, stored, gateway, Handler, PollClaim, PushClaim, ReadTurn, ReadSession, Fetch,
     List, Adopt, Before, Unbind, Resume, Decide, Bind, Rebind, PollReply, PushReply, PollMark,
     PushMark, Release, LapseSlow, LapseDead, Settle, Wake, AskReview, Vanish, Crash, Refused
<1>3. wk[w].pc \in {"create", "send"} /\ effects' = [effects EXCEPT ![wk[w].ev] = @ + 1]
  BY <1>1, <1>2 DEF Create, Send, At, Ev, Refused, gateway
<1>4. wk[w].ev = e
  BY <1>1, <1>3
<1>5. wk'[w] # wk[w]
  BY <1>2, <1>3, RequestSteps
<1> QED BY <1>3, <1>4, <1>5

\* However the events of a chat are handled, one by one or at once, and whatever fails:
\* a message makes a Task, or reaches one, beside a run only if that run began after its
\* handler had read the chat (turn.py:176-199), by another handler, by the Task's mailbox
\* (task_runtime.py:236) or by another client.  In a polled chat the Task it reaches is
\* still the chat's current one.
THEOREM MessagesSeeRuns ==
  ConstantsAssumption /\ Spec => [][ActsBesideNoSeenRun]_vars
<1> SUFFICES ASSUME ConstantsAssumption PROVE Spec => [][ActsBesideNoSeenRun]_vars
  OBVIOUS
<1>1. Init => Follows
  BY DEF Init, Follows, Bound, Idle
<1>2. IInv /\ Follows /\ [Next]_vars => Follows'
  BY FollowsKeeps
<1>3. IInv /\ SInv /\ Follows /\ [Next]_vars => [ActsBesideNoSeenRun]_vars
  <2> SUFFICES ASSUME IInv, SInv, Follows, [Next]_vars,
                      NEW e \in Events, Kind[e] = "text", effects'[e] > effects[e]
               PROVE  \E w \in Workers :
                        /\ Handling(w, e) /\ wk'[w] # wk[w]
                        /\ \A t \in Events : Active(t) /\ Beside(w, t) => w \in unseen[t]
    BY DEF ActsBesideNoSeenRun
  <2>1. PICK w \in Workers : wk[w].pc \in {"create", "send"} /\ wk[w].ev = e /\ wk'[w] # wk[w]
    BY EffectIsActing
  <2>2. Aware(w, wk[w], tasks, unseen)
    BY DEF SInv
  <2>3. ASSUME NEW t \in Events, Active(t), Beside(w, t) PROVE w \in unseen[t]
    <3>1. tasks[t].st \in Busy
      BY <2>3 DEF Active, Busy
    <3>2. CASE wk[w].pc = "create"
      BY <2>1, <2>2, <3>1, <3>2 DEF Aware
    <3>3. CASE wk[w].pc = "send"
      <4>1. t = wk[w].task
        BY <2>1, <2>3, <3>3 DEF Beside, At, Follows, Bound
      <4> QED BY <2>1, <2>2, <3>1, <3>3, <4>1 DEF Aware
    <3> QED BY <2>1, <3>2, <3>3
  <2> QED BY <2>1, <2>3 DEF Handling
<1> QED BY <1>1, <1>2, <1>3, Invariance, ReadsKnown, PTL DEF Spec

----------------------------------------------------------------------------
(* One review approved by one "y", while answers arrive                    *)

Past == {"rebind", "reply", "mark"}

\* An event that has approved a review is done with, or its handler is past deciding.
Decided ==
  /\ \A w \in Workers : ~wk[w].lapsed
  /\ \A e \in Events : approvals[e] # {} =>
       \/ receipt[e].st = "processed"
       \/ \E w \in Workers : wk[w].pc \in Past /\ wk[w].ev = e

YInv == YesOnce /\ Decided

LEMMA NothingFails ==
  ASSUME IInv, NEW f, f # "gone", Fault(f), Calm'
  PROVE  FALSE
<1>1. faults \in Nat /\ faults' = faults + 1 /\ f \in Faults
  BY DEF IInv, Stores, Fault
<1> QED BY <1>1 DEF Calm

LEMMA CalmBefore ==
  ASSUME IInv, [Next]_vars, Calm'
  PROVE  Calm
<1>1. faults \in Nat
  BY DEF IInv, Stores
<1>2. faults' = faults \/ \E f \in {"slow", "lost", "reply", "gone", "crash"} : Fault(f)
  <2>1. ASSUME NEW w \in Workers, Create(w) \/ Send(w) \/ Decide(w)
        PROVE  faults' = faults \/ Fault("lost")
    BY <2>1 DEF Create, Send, Decide, Answered, Refused
  <2>2. ASSUME NEW w \in Workers, PollReply(w) \/ PushReply(w)
        PROVE  faults' = faults \/ Fault("reply")
    BY <2>2 DEF PollReply, PushReply, Told, NotTold
  <2>3. ASSUME NEW w \in Workers, PollMark(w) \/ PushMark(w) \/ Release(w) \/ PollClaim(w)
        PROVE  faults' = faults
    BY <2>3 DEF PollMark, PushMark, Release, PollClaim
  <2>4. ASSUME NEW w \in Workers,
               \/ ReadTurn(w) \/ ReadSession(w) \/ Fetch(w) \/ List(w) \/ Adopt(w) \/ Before(w)
               \/ Unbind(w) \/ Resume(w) \/ Bind(w) \/ Rebind(w)
        PROVE  faults' = faults
    BY <2>4 DEF ReadTurn, ReadSession, Fetch, List, Adopt, Before, Unbind, Resume, Bind, Rebind
  <2>5. ASSUME NEW w \in Workers, LapseSlow(w)
        PROVE  Fault("slow")
    BY <2>5 DEF LapseSlow
  <2>6. ASSUME NEW w \in Workers, NEW e \in Events, PushClaim(w, e)
        PROVE  faults' = faults
    BY <2>6 DEF PushClaim
  <2>7. ASSUME NEW e \in Events, LapseDead(e) \/ Settle(e) \/ Wake(e) \/ AskReview(e) \/ Vanish(e)
        PROVE  faults' = faults \/ Fault("gone")
    BY <2>7 DEF LapseDead, Settle, Wake, AskReview, Vanish
  <2>8. CASE Crash
    BY <2>8 DEF Crash
  <2>9. CASE UNCHANGED vars
    BY <2>9 DEF vars
  <2> QED BY <2>1, <2>2, <2>3, <2>4, <2>5, <2>6, <2>7, <2>8, <2>9 DEF Next, Handler
<1>3. faults' \in {faults, faults + 1}
  BY <1>2 DEF Fault
<1> QED BY <1>1, <1>3 DEF Calm

\* What a handler's step does to the handler itself, its end and its claim apart.
Steps(w) ==
  /\ wk[w].pc # "idle" /\ wk' = [wk EXCEPT ![w] = wk'[w]] /\ receipt' = receipt
  /\ wk'[w].ev = wk[w].ev /\ wk'[w].lapsed = wk[w].lapsed
  /\ wk[w].pc \in Past => wk'[w].pc \in Past

LEMMA StepDecided ==
  ASSUME IInv, Decided, NEW w \in Workers, Steps(w), UNCHANGED approvals
  PROVE  Decided'
<1>1. wk \in [Workers -> HandlerState]
  BY DEF IInv, Workshop
<1>2. ASSUME NEW v \in Workers
      PROVE  /\ wk'[v].ev = wk[v].ev /\ wk'[v].lapsed = wk[v].lapsed
             /\ wk[v].pc \in Past => wk'[v].pc \in Past
  <2>1. CASE v = w
    BY <2>1 DEF Steps
  <2>2. CASE v # w
    BY <1>1, <2>2 DEF Steps
  <2> QED BY <2>1, <2>2
<1> QED BY <1>2 DEF Decided, Steps

LEMMA YesStands ==
  ASSUME YesOnce, UNCHANGED approvals
  PROVE  YesOnce'
BY DEF YesOnce

\* A step to another place, with anything but the event and the claim changed.
LEMMA FailSteps ==
  ASSUME IInv, NEW w \in Workers, wk[w].pc \notin Past \union {"idle"}, Fail(w), UNCHANGED receipt
  PROVE  Steps(w)
BY DEF IInv, Workshop, HandlerState, Fail, Goto, Steps

LEMMA AnsweredSteps ==
  ASSUME IInv, NEW w \in Workers, wk[w].pc \notin Past \union {"idle"},
         NEW command, NEW then, Answered(w, command, then), UNCHANGED receipt
  PROVE  Steps(w)
<1>1. wk \in [Workers -> HandlerState] /\ wk[w] \in HandlerState
  BY DEF IInv, Workshop
<1>2. CASE wk' = [wk EXCEPT ![w].pc = then, ![w].op = command.op,
                            ![w].task = command.task, ![w].say = "started"]
  BY <1>1, <1>2 DEF Steps, HandlerState
<1> QED BY <1>2, FailSteps DEF Answered

LEMMA ReadingSteps ==
  ASSUME ConstantsAssumption, IInv, NEW w \in Workers,
         ReadTurn(w) \/ ReadSession(w) \/ Fetch(w) \/ List(w) \/ Adopt(w) \/ Before(w)
         \/ Unbind(w) \/ Resume(w)
  PROVE  Steps(w)
<1>0. wk \in [Workers -> HandlerState] /\ wk[w] \in HandlerState
      /\ wk[w].pc \in {"turn", "session", "fetch", "list", "adopt", "before", "unbind", "resume"}
      /\ receipt' = receipt
  BY DEF IInv, Workshop, ReadTurn, ReadSession, Fetch, List, Adopt, Before, Unbind, Resume, At, stored
<1>1. wk[w].pc \notin Past \union {"idle"}
  BY <1>0 DEF Past
<1>2. ASSUME NEW t \in Events, wk[w].pc \in {"fetch", "list"}
      PROVE  Chosen(w, t).ev = wk[w].ev /\ Chosen(w, t).lapsed = wk[w].lapsed
             /\ Chosen(w, t) \in HandlerState
  BY <1>2, ChosenIs
<1>3. CASE Fetch(w)
  <2>1. CASE Live(wk[w].task) /\ wk' = [wk EXCEPT ![w] = Chosen(w, wk[w].task)]
    <3>1. wk[w].task \in Events /\ wk[w].pc = "fetch"
      BY <1>0, <1>3, <2>1 DEF HandlerState, Tasks, Live, Fetch, At
    <3> QED BY <1>0, <1>1, <1>2, <2>1, <3>1 DEF Steps
  <2>2. CASE Goto(w, "list")
    BY <1>0, <1>1, <2>2 DEF Goto, Steps, HandlerState
  <2> QED BY <1>3, <2>1, <2>2 DEF Fetch
<1>4. CASE List(w)
  <2> DEFINE c == Chosen(w, Latest)
  <2>1. CASE Latest # NoTask
    <3>1. wk' = [wk EXCEPT ![w] = [c EXCEPT !.pc = "adopt", !.then = c.pc]]
      BY <1>4, <2>1 DEF List
    <3>2. Latest \in Events /\ wk[w].pc = "list"
      BY <1>4, <2>1, LatestIs DEF IInv, World, List, At
    <3>3. c.ev = wk[w].ev /\ c.lapsed = wk[w].lapsed /\ c \in HandlerState
      BY <1>2, <3>2
    <3> HIDE DEF c
    <3> QED BY <1>0, <1>1, <3>1, <3>3 DEF Steps, HandlerState
  <2>2. CASE Latest = NoTask
    BY <1>0, <1>1, <1>4, <2>2 DEF List, Steps, HandlerState
  <2> QED BY <2>1, <2>2
<1>5. CASE ReadTurn(w)
  BY <1>0, <1>1, <1>5 DEF ReadTurn, Goto, Steps, HandlerState
<1>6. CASE ReadSession(w) \/ Adopt(w) \/ Before(w)
  BY <1>0, <1>1, <1>6 DEF ReadSession, Adopt, Before, Goto, Steps, HandlerState
<1>7. CASE Unbind(w) \/ Resume(w)
  BY <1>0, <1>1, <1>7 DEF Unbind, Resume, Steps, HandlerState
<1> QED BY <1>3, <1>4, <1>5, <1>6, <1>7

LEMMA ActingSteps ==
  ASSUME ConstantsAssumption, Calm', IInv, NEW w \in Workers,
         Create(w) \/ Send(w) \/ Bind(w) \/ Rebind(w) \/ PollReply(w) \/ PushReply(w)
  PROVE  Steps(w) /\ UNCHANGED approvals
<1>0. wk \in [Workers -> HandlerState] /\ wk[w] \in HandlerState /\ receipt' = receipt
  BY DEF IInv, Workshop, Create, Send, Bind, Rebind, PollReply, PushReply, stored
<1>1. CASE Create(w) \/ Send(w)
  <2>1. wk[w].pc \notin Past \union {"idle"}
    BY <1>1 DEF Create, Send, At, Past
  <2> QED BY <1>0, <1>1, <2>1, FailSteps, AnsweredSteps DEF Create, Send, Refused, gateway
<1>2. CASE Bind(w)
  <2>1. wk[w].pc \notin Past \union {"idle"} /\ UNCHANGED approvals
    BY <1>2 DEF Bind, At, Past, gateway
  <2>2. CASE Goto(w, "reply")
    BY <1>0, <2>1, <2>2 DEF Goto, Steps, HandlerState
  <2> QED BY <1>0, <1>2, <2>1, <2>2, FailSteps DEF Bind
<1>3. CASE Rebind(w) \/ PollReply(w) \/ PushReply(w)
  <2>1. ~Fault("reply")
    BY NothingFails
  <2>2. wk[w].pc \in Past /\ (Goto(w, "reply") \/ Goto(w, "mark")) /\ UNCHANGED approvals
    BY <1>3, <2>1 DEF Rebind, PollReply, PushReply, Told, NotTold, At, Past, gateway
  <2> QED BY <1>0, <2>2 DEF Goto, Steps, HandlerState, Past
<1> QED BY <1>1, <1>2, <1>3

\* An event is decided by the one handler that has it, and was not decided before.
LEMMA DecideOnce ==
  ASSUME ConstantsAssumption, Calm', IInv, YInv, NEW w \in Workers, Decide(w)
  PROVE  YInv'
<1> DEFINE e == wk[w].ev
<1>0. /\ wk \in [Workers -> HandlerState] /\ wk[w] \in HandlerState /\ wk[w].pc = "decide"
      /\ e \in Events /\ receipt' = receipt /\ ~wk[w].lapsed
      /\ receipt[e] = [st |-> "claimed", by |-> w, old |-> FALSE]
  BY HandlerIs DEF Decide, At, stored, IInv, Workshop, Owns, YInv, Decided
<1>1. approvals[e] = {}
  <2>1. receipt[e].st # "processed"
    BY <1>0
  <2>2. ASSUME NEW v \in Workers, wk[v].pc \in Past, wk[v].ev = e PROVE FALSE
    <3>1. receipt[e] = [st |-> "claimed", by |-> v, old |-> FALSE]
      BY <2>2 DEF IInv, Owns, YInv, Decided, Past
    <3>2. v = w
      BY <1>0, <3>1
    <3> QED BY <1>0, <2>2, <3>2 DEF Past
  <2> QED BY <1>0, <2>1, <2>2 DEF YInv, Decided
<1>2. ~Fault("lost")
  BY NothingFails
<1>3. CASE /\ approvals' = [approvals EXCEPT ![Ev(w)] = @ \union {<<wk[w].task, wk[w].rev>>}]
           /\ wk' = [wk EXCEPT ![w].pc = "rebind", ![w].say = "submitted"]
  <2>1. /\ approvals'[e] = {<<wk[w].task, wk[w].rev>>}
        /\ \A x \in Events \ {e} : approvals'[x] = approvals[x]
    BY <1>0, <1>1, <1>3 DEF IInv, World, Ev
  <2>2. Cardinality({<<wk[w].task, wk[w].rev>>}) = 1
    BY FS_Singleton
  <2>3. YesOnce'
    <3>1. Cardinality(approvals'[e]) = 1
      BY <2>1, <2>2
    <3>2. \A x \in Events \ {e} : Cardinality(approvals'[x]) <= 1
      BY <2>1 DEF YInv, YesOnce
    <3>3. ASSUME NEW x \in Events PROVE Cardinality(approvals'[x]) <= 1
      <4>1. CASE x = e
        BY <3>1, <4>1
      <4> QED BY <3>2, <4>1
    <3> QED BY <3>3 DEF YesOnce
  <2>4. wk'[w].pc \in Past /\ wk'[w].ev = e /\ wk'[w].lapsed = wk[w].lapsed
    BY <1>0, <1>3 DEF HandlerState, Past
  <2>5. \A v \in Workers \ {w} : wk'[v] = wk[v]
    BY <1>0, <1>3
  <2>6. Decided'
    <3>1. \A v \in Workers : ~wk'[v].lapsed
      BY <1>0, <2>4, <2>5 DEF YInv, Decided
    <3>2. ASSUME NEW x \in Events \ {e}, NEW v \in Workers, wk[v].pc \in Past, wk[v].ev = x
          PROVE  wk'[v].pc \in Past /\ wk'[v].ev = x
      BY <2>5, <3>2
    <3> QED BY <1>0, <2>1, <2>4, <3>1, <3>2 DEF YInv, Decided
  <2> QED BY <2>3, <2>6 DEF YInv
<1>4. CASE Refused(w)
  <2>1. Steps(w) /\ UNCHANGED approvals
    BY <1>0, <1>4, FailSteps DEF Refused, gateway, Past
  <2> QED BY <2>1, StepDecided, YesStands DEF YInv
<1> QED BY <1>2, <1>3, <1>4 DEF Decide

LEMMA EndDecided ==
  ASSUME ConstantsAssumption, IInv, YInv, NEW w \in Workers,
         PollMark(w) \/ PushMark(w) \/ Release(w)
  PROVE  YInv'
<1> DEFINE e == wk[w].ev
<1>0. /\ wk \in [Workers -> HandlerState] /\ wk[w].pc \in {"mark", "release"} /\ e \in Events
      /\ wk' = [wk EXCEPT ![w] = Idle] /\ approvals' = approvals
      /\ receipt[e] = [st |-> "claimed", by |-> w, old |-> FALSE]
  BY HandlerIs DEF PollMark, PushMark, Release, At, gateway, IInv, Workshop, Owns, YInv, Decided
<1>1. receipt' = [receipt EXCEPT ![e] = IF wk[w].pc = "mark" THEN Processed ELSE Unclaimed("free")]
  BY <1>0 DEF PollMark, PushMark, Release, At, Holds, Ev
<1>2. /\ \A v \in Workers \ {w} : wk'[v] = wk[v]
      /\ wk'[w] = Idle /\ ~Idle.lapsed
  BY <1>0 DEF Idle
<1>3. /\ \A x \in Events \ {e} : receipt'[x] = receipt[x]
      /\ wk[w].pc = "mark" => receipt'[e].st = "processed"
  BY <1>0, <1>1 DEF IInv, Stores, Processed, Unclaimed
<1>4. ASSUME NEW x \in Events, approvals[x] # {}
      PROVE  \/ receipt'[x].st = "processed"
             \/ \E v \in Workers : wk'[v].pc \in Past /\ wk'[v].ev = x
  <2>1. CASE receipt[x].st = "processed"
    <3>1. x # e
      BY <1>0, <2>1
    <3> QED BY <1>3, <2>1, <3>1
  <2>2. ASSUME NEW v \in Workers, wk[v].pc \in Past, wk[v].ev = x
        PROVE  \/ receipt'[x].st = "processed"
               \/ \E u \in Workers : wk'[u].pc \in Past /\ wk'[u].ev = x
    <3>1. CASE v = w
      BY <1>0, <1>3, <2>2, <3>1 DEF Past
    <3>2. CASE v # w
      BY <1>2, <2>2, <3>2
    <3> QED BY <3>1, <3>2
  <2> QED BY <1>4, <2>1, <2>2 DEF YInv, Decided
<1>5. Decided'
  <2>1. \A v \in Workers : ~wk'[v].lapsed
    BY <1>2 DEF YInv, Decided
  <2> QED BY <1>0, <1>4, <2>1 DEF Decided
<1> QED BY <1>0, <1>5, YesStands DEF YInv

\* An event that was decided is not claimed again.
LEMMA ClaimDecided ==
  ASSUME ConstantsAssumption, IInv, YInv, NEW w \in Workers, NEW e \in Events,
         wk[w].pc = "idle", CanClaim(e), TakeClaim(w, e), UNCHANGED approvals
  PROVE  YInv'
<1> DEFINE h == [Idle EXCEPT !.pc = Entry(e), !.ev = e]
<1>0. wk \in [Workers -> HandlerState] /\ wk' = [wk EXCEPT ![w] = h] /\ ~h.lapsed
  BY DEF IInv, Workshop, TakeClaim, Idle
<1> HIDE DEF h
<1>1. approvals[e] = {}
  <2>1. receipt[e].st # "processed"
    BY DEF CanClaim
  <2>2. ASSUME NEW v \in Workers, wk[v].pc \in Past, wk[v].ev = e PROVE FALSE
    <3>1. receipt[e] = [st |-> "claimed", by |-> v, old |-> FALSE]
      BY <2>2 DEF IInv, Owns, YInv, Decided, Past
    <3> QED BY <3>1 DEF CanClaim
  <2> QED BY <2>1, <2>2 DEF YInv, Decided
<1>2. /\ \A v \in Workers : ~wk'[v].lapsed
      /\ \A v \in Workers : wk[v].pc \in Past => wk'[v] = wk[v]
  BY <1>0 DEF YInv, Decided, Past
<1>3. \A x \in Events \ {e} : receipt'[x] = receipt[x]
  BY DEF TakeClaim, IInv, Stores
<1>4. Decided'
  BY <1>1, <1>2, <1>3 DEF YInv, Decided
<1> QED BY <1>4, YesStands DEF YInv

LEMMA YesKeeps ==
  ASSUME ConstantsAssumption, Calm', IInv, YInv, [Next]_vars
  PROVE  YInv'
<1>1. ASSUME NEW w \in Workers, Handler(w)
      PROVE  YInv'
  <2>1. CASE Decide(w)
    BY <2>1, DecideOnce
  <2>2. CASE PollMark(w) \/ PushMark(w) \/ Release(w)
    BY <2>2, EndDecided
  <2>3. CASE Create(w) \/ Send(w) \/ Bind(w) \/ Rebind(w) \/ PollReply(w) \/ PushReply(w)
    BY <2>3, ActingSteps, StepDecided, YesStands DEF YInv
  <2>4. CASE \/ ReadTurn(w) \/ ReadSession(w) \/ Fetch(w) \/ List(w) \/ Adopt(w) \/ Before(w)
             \/ Unbind(w) \/ Resume(w)
    <3>1. UNCHANGED approvals
      BY <2>4 DEF ReadTurn, ReadSession, Fetch, List, Adopt, Before, Unbind, Resume, gateway
    <3> QED BY <2>4, <3>1, ReadingSteps, StepDecided, YesStands DEF YInv
  <2> QED BY <1>1, <2>1, <2>2, <2>3, <2>4 DEF Handler
<1>2. ASSUME NEW w \in Workers, NEW e \in Events, PollClaim(w) \/ PushClaim(w, e)
      PROVE  YInv'
  <2>0. UNCHANGED approvals /\ wk[w].pc = "idle"
    BY <1>2 DEF PollClaim, PushClaim, gateway, At
  <2>1. CASE PollClaim(w) /\ CanClaim(offset) /\ TakeClaim(w, offset)
    BY <2>0, <2>1, ClaimDecided DEF PollClaim
  <2>2. CASE PushClaim(w, e) /\ CanClaim(e) /\ TakeClaim(w, e)
    BY <2>0, <2>2, ClaimDecided
  <2>3. CASE UNCHANGED <<receipt, wk>>
    BY <2>0, <2>3, YesStands DEF YInv, Decided
  <2> QED BY <1>2, <2>1, <2>2, <2>3 DEF PollClaim, PushClaim
<1>3. ASSUME NEW w \in Workers, PollClaim(w)
      PROVE  YInv'
  BY <1>2, <1>3 DEF PollClaim
<1>4. ASSUME NEW e \in Events, LapseDead(e)
      PROVE  YInv'
  <2>1. UNCHANGED <<wk, approvals>> /\ \A x \in Events : receipt'[x].st = receipt[x].st
    BY <1>4 DEF LapseDead, gateway, IInv, Stores
  <2> QED BY <2>1, YesStands DEF YInv, Decided
<1>5. CASE UNCHANGED vars \/ \E e \in Events : Settle(e) \/ Wake(e) \/ AskReview(e) \/ Vanish(e)
  <2>1. UNCHANGED <<wk, approvals, receipt>>
    BY <1>5 DEF vars, stored, gateway, Settle, Wake, AskReview, Vanish
  <2> QED BY <2>1, YesStands DEF YInv, Decided
<1>6. ~Crash /\ \A w \in Workers : ~LapseSlow(w)
  BY NothingFails DEF Crash, LapseSlow
<1> QED BY <1>1, <1>2, <1>3, <1>4, <1>5, <1>6 DEF Next

\* However often an event is handed over, retried or handled twice at once, whatever
\* fails and whenever the process dies: it has one live holder and one effect, and
\* who is told "received" has had it; and while nothing has gone wrong one "y"
\* approves one review, whichever its Task asks for next (turn.py, event_receipts.py).
THEOREM EventsActOnce == ConstantsAssumption /\ Spec => []ActsOnce
<1> SUFFICES ASSUME ConstantsAssumption PROVE Spec => []ActsOnce
  OBVIOUS
<1> DEFINE CalmInv == Calm => YInv
           Known == unseen \in [Events -> SUBSET Workers]
<1>1. Init => CalmInv
  BY FS_EmptySet DEF Init, YInv, YesOnce, Decided, Idle
<1>2. IInv /\ CalmInv /\ [Next]_vars => CalmInv'
  BY YesKeeps, CalmBefore
<1>3. IInv /\ CalmInv /\ Known => ActsOnce
  BY InvariantSays DEF ActsOnce, YInv
<1>4. SInv => Known
  BY DEF SInv
<1> QED BY <1>1, <1>2, <1>3, <1>4, Invariance, ReadsKnown, PTL DEF Spec
=============================================================================
