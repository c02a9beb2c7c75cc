--------------------------- MODULE TaskWakeupProofs ---------------------------
(***************************************************************************)
(* Proofs about TaskWakeup, for every set of inputs and notices, any       *)
(* number of reviews and any faults; and, in the second half, about        *)
(* StoreUpgrade, which numbers the messages and reviews of an old release, *)
(* for every tree and any number of openings.                              *)
(***************************************************************************)
EXTENDS TaskWakeup, StoreUpgrade, FiniteSetTheorems, WellFoundedInduction, TLAPS

Status == {"absent", "pending", "claimed", "delivered", "retracted"}
Row == [st : Status, seq : 0..Cardinality(Message), by : Nat, live : BOOLEAN]
Numbered(rows) == {m \in Message : rows[m].seq > 0}
Open == {"absent", "pending", "claimed"}

(* The inductive invariant: the types and what ties the variables together, *)
(* and one fact for each property.                                          *)

\* The rows and the sequence that numbers them.
Rows(rows, count) ==
  /\ rows \in [Message -> Row] /\ count \in Nat
  /\ count = Cardinality(Numbered(rows))
  /\ \A m \in Message : (rows[m].st = "absent" <=> rows[m].seq = 0) /\ rows[m].seq <= count

\* The Task, its run and its waker.
Actors ==
  /\ task \in [st : {"settled", "running", "review"}, run : Nat, wm : 0..counter]
  /\ run \in [pc : {"none", "admitted", "graph", "returned", "tail"}, read : SUBSET Message]
  /\ waker \in [pc : {"none", "admit", "reject"}, seq : 0..counter]
  /\ HasRun => task.st = (IF run.pc = "tail" THEN "settled" ELSE "running")
  /\ up /\ task.st = "running" => HasRun
  /\ waker.pc # "none" => task.st = "settled" /\ ~HasRun
  /\ ~up => run = NoRun /\ waker = Asleep

History == heard \in [Message -> Nat] /\ woken \in Nat /\ stalled \in BOOLEAN

Typed == Rows(msg, counter) /\ Actors /\ History

\* Only a claim has a lease, no claim is of a later run, and what a run holds before
\* its graph ends it has read.
ClaimsAreRead ==
  \A m \in Message :
    /\ msg[m].live => msg[m].st = "claimed"
    /\ msg[m].by <= task.run
    /\ msg[m].st = "claimed" /\ msg[m].by = task.run /\ run.pc \in {"admitted", "graph"}
         => m \in run.read

\* What a run has read it holds, unless it was retracted; what is open has not been
\* part of a successful turn.
ReadIsHeld ==
  ~stalled => \A m \in Message :
    /\ msg[m].st \in Open => heard[m] = 0
    /\ msg[m].st = "delivered" => heard[m] = 1
    /\ msg[m].st = "retracted" => m \in Note /\ heard[m] <= 1
    /\ m \in run.read /\ run.pc \in {"admitted", "graph"} =>
         /\ heard[m] = 0
         /\ \/ msg[m].st = "retracted"
            \/ msg[m].st = "claimed" /\ msg[m].by = task.run /\ msg[m].live

\* Every wakeup that the mailbox caused has raised the watermark.
WakesRaiseTheMark ==
  /\ woken <= task.wm
  /\ waker.pc # "none" => task.wm < waker.seq

IInv == Typed /\ ClaimsAreRead /\ ReadIsHeld /\ WakesRaiseTheMark

-----------------------------------------------------------------------------
(* Maxima.                                                                  *)

\* A finite set of numbers that is not empty has a greatest one: the elements
\* not below it form the least of the sets of that kind.
LEMMA MaxOfBounded ==
  ASSUME NEW n \in Nat, NEW S \in SUBSET (0..n), S # {}
  PROVE  Max(S) \in S /\ \A y \in S : Max(S) >= y
<1> DEFINE Above(x) == {y \in S : y >= x}
           Sets == {Above(x) : x \in S}
<1>1. IsFiniteSet(S)
  <2>1. IsFiniteSet(0..n)
    BY FS_Interval, 0 \in Int, n \in Int
  <2> QED BY <2>1, FS_Subset
<1>2. Sets \subseteq FiniteSubsetsOf(S) /\ Sets # {}
  <2>1. ASSUME NEW U \in Sets PROVE U \in FiniteSubsetsOf(S)
    <3>1. U \in SUBSET S
      OBVIOUS
    <3>2. IsFiniteSet(U)
      BY <3>1, <1>1, FS_Subset
    <3> QED BY <3>1, <3>2 DEF FiniteSubsetsOf
  <2>2. PICK x \in S : TRUE
    OBVIOUS
  <2>3. Above(x) \in Sets
    OBVIOUS
  <2> QED BY <2>1, <2>3
<1>3. PICK U \in Sets : \A V \in Sets : ~(<<V, U>> \in StrictSubsetOrdering(S))
  <2>1. IsWellFoundedOn(StrictSubsetOrdering(S), FiniteSubsetsOf(S))
    BY FS_StrictSubsetOrderingWellFounded
  <2> HIDE DEF Sets
  <2> QED BY <2>1, <1>2, WFMin
<1>4. PICK x \in S : U = Above(x)
  OBVIOUS
<1>5. ASSUME NEW y \in S, y > x PROVE FALSE
  <2>0. S \subseteq Nat /\ Above(y) \in Sets
    OBVIOUS
  <2> HIDE DEF Sets
  <2>a. x \in Nat /\ y \in Nat /\ ~(x >= y) /\ x >= x
    BY <1>5, <2>0
  <2>b. ASSUME NEW z \in Above(y) PROVE z \in Above(x)
    <3>1. z \in S /\ z \in Nat /\ z >= y
      BY <2>0
    <3>2. z >= x
      BY <3>1, <2>a, <1>5
    <3> QED BY <3>1, <3>2
  <2>1. Above(y) \subseteq Above(x) /\ x \in Above(x) /\ x \notin Above(y)
    BY <2>a, <2>b
  <2>2. <<Above(y), U>> \in (SUBSET S) \X (SUBSET S) /\ Above(y) # U
    BY <2>1, <1>4
  <2>3. <<Above(y), U>> \in StrictSubsetOrdering(S)
    BY <2>1, <2>2, <1>4 DEF StrictSubsetOrdering
  <2> QED BY <2>0, <2>3, <1>3
<1>6. \A y \in S : x >= y
  BY <1>5
<1> QED BY <1>6 DEF Max

LEMMA MaxOfPair ==
  ASSUME NEW a \in Nat, NEW b \in Nat
  PROVE  Max({a, b}) = IF a >= b THEN a ELSE b
<1>1. PICK x \in {a, b} : \A y \in {a, b} : x >= y
  <2>1. CASE a >= b
    BY <2>1
  <2>2. CASE b >= a
    BY <2>2
  <2> QED BY <2>1, <2>2
<1>2. Max({a, b}) \in {a, b} /\ \A y \in {a, b} : Max({a, b}) >= y
  BY <1>1 DEF Max
<1>3. CASE a >= b
  BY <1>2, <1>3
<1>4. CASE ~(a >= b)
  BY <1>2, <1>4
<1> QED BY <1>3, <1>4

-----------------------------------------------------------------------------
(* Rows.                                                                    *)

\* The types of the runs.
LEMMA TypesFollow ==
  ASSUME Typed
  PROVE  TypeOK
<1>1. counter <= Cardinality(Message) /\ Cardinality(Message) \in Nat
  BY MessageAssumption, FS_CardinalityType, FS_Subset DEF Typed, Rows, Numbered
<1>2. \A m \in Message : (msg[m].st = "absent") = (msg[m].seq = 0)
  BY DEF Typed, Rows
<1> QED BY <1>1, <1>2 DEF Typed, Actors, TypeOK, Rows, Row, Status, Numbered

\* A row without a claim.
LEMMA UnclaimedRow ==
  ASSUME NEW s \in Status, NEW n \in 0..Cardinality(Message)
  PROVE  /\ Unclaimed(s, n) \in Row
         /\ Unclaimed(s, n).st = s /\ Unclaimed(s, n).seq = n
         /\ Unclaimed(s, n).by = 0 /\ Unclaimed(s, n).live = FALSE
  BY DEF Unclaimed, Row

\* Changing rows without numbering them keeps the sequence true.
LEMMA KeptRows ==
  ASSUME NEW rows, NEW count, Rows(rows, count), NEW rows2 \in [Message -> Row],
         \A m \in Message : rows2[m].seq = rows[m].seq /\ (rows2[m].st = "absent" <=> rows[m].st = "absent")
  PROVE  Rows(rows2, count)
<1>1. Numbered(rows2) = Numbered(rows)
  BY DEF Numbered
<1> QED BY <1>1 DEF Rows

\* A new row takes the next number.
LEMMA InsertedRow ==
  ASSUME Rows(msg, counter), NEW m \in Message, msg[m].st = "absent", Insert(m)
  PROVE  Rows(msg', counter')
<1>1. Rows(msg, counter) /\ IsFiniteSet(Numbered(msg))
  BY MessageAssumption, FS_Subset DEF Numbered
<1>2. msg[m].seq = 0 /\ m \notin Numbered(msg)
  BY <1>1 DEF Rows, Numbered
<1>3. msg' = [msg EXCEPT ![m] = Unclaimed("pending", counter + 1)]
  BY DEF Insert
<1>4. Numbered(msg') = Numbered(msg) \cup {m}
  <2>1. msg'[m].seq > 0 /\ \A x \in Message \ {m} : msg'[x] = msg[x]
    BY <1>1, <1>3 DEF Rows, Unclaimed
  <2> QED BY <2>1 DEF Numbered
<1>5. Cardinality(Numbered(msg')) = counter + 1
  BY <1>1, <1>2, <1>4, FS_AddElement DEF Rows
<1>6. Numbered(msg') \in SUBSET Message
  BY DEF Numbered
<1>7. counter + 1 <= Cardinality(Message) /\ Cardinality(Message) \in Nat
  BY <1>5, <1>6, MessageAssumption, FS_Subset, FS_CardinalityType
<1>8. Unclaimed("pending", counter + 1) \in Row
  BY <1>1, <1>7 DEF Rows, Row, Status, Unclaimed
<1>9. msg' \in [Message -> Row]
  BY <1>1, <1>3, <1>8 DEF Rows
<1>10. ASSUME NEW x \in Message
       PROVE  (msg'[x].st = "absent" <=> msg'[x].seq = 0) /\ msg'[x].seq <= counter + 1
  <2>1. CASE x = m
    BY <2>1, <1>1, <1>3 DEF Rows, Unclaimed
  <2>2. CASE x # m
    BY <2>2, <1>1, <1>3 DEF Rows, Row
  <2> QED BY <2>1, <2>2
<1> QED BY <1>1, <1>5, <1>9, <1>10 DEF Rows, Insert

\* Freed rows are pending under their number and of no run; the others stay.
LEMMA FreedRows ==
  ASSUME Rows(msg, counter), NEW ms \in SUBSET Message, \A m \in ms : msg[m].st = "claimed"
  PROVE  /\ Freed(ms) \in [Message -> Row] /\ Rows(Freed(ms), counter)
         /\ \A m \in ms : Freed(ms)[m] = Unclaimed("pending", msg[m].seq)
         /\ \A m \in Message \ ms : Freed(ms)[m] = msg[m]
<1>1. msg \in [Message -> Row]
  BY DEF Rows
<1>2. \A m \in ms : Freed(ms)[m] = Unclaimed("pending", msg[m].seq)
  BY DEF Freed
<1>3. \A m \in Message \ ms : Freed(ms)[m] = msg[m]
  BY DEF Freed
<1>4. ASSUME NEW m \in Message
      PROVE  /\ Freed(ms)[m] \in Row /\ Freed(ms)[m].seq = msg[m].seq
             /\ (Freed(ms)[m].st = "absent" <=> msg[m].st = "absent")
  <2>1. CASE m \in ms
    <3>1. msg[m].seq \in 0..Cardinality(Message) /\ msg[m].st = "claimed"
      BY <2>1, <1>1 DEF Row
    <3>2. Freed(ms)[m] = Unclaimed("pending", msg[m].seq)
      BY <2>1, <1>2
    <3>3. /\ Unclaimed("pending", msg[m].seq) \in Row
          /\ Unclaimed("pending", msg[m].seq).st = "pending"
          /\ Unclaimed("pending", msg[m].seq).seq = msg[m].seq
      BY <3>1, UnclaimedRow DEF Status
    <3> QED BY <3>1, <3>2, <3>3
  <2>2. CASE m \notin ms
    BY <2>2, <1>1, <1>3
  <2> QED BY <2>1, <2>2
<1>5. Freed(ms) \in [Message -> Row]
  BY <1>4 DEF Freed
<1>6. Rows(Freed(ms), counter)
  BY <1>1, <1>4, <1>5, KeptRows
<1> QED BY <1>2, <1>3, <1>5, <1>6

\* The newest trigger is a number that was given.
LEMMA TriggerBound ==
  ASSUME NEW rows, NEW count, Rows(rows, count)
  PROVE  MaxTrigger(rows) \in 0..count
<1> DEFINE S == {0} \union {rows[m].seq : m \in {x \in Message : rows[x].st = "pending"}}
<1>1. S \in SUBSET (0..count) /\ S # {} /\ count \in Nat
  BY DEF Rows, Row
<1>2. Max(S) \in S
  BY <1>1, MaxOfBounded
<1> QED BY <1>1, <1>2 DEF MaxTrigger

-----------------------------------------------------------------------------
(* Every step keeps the rows and the sequence.                              *)

LEMMA RowsStep ==
  ASSUME Typed, Next
  PROVE  Rows(msg', counter')
<1> USE DEF Typed
<1>t. /\ Rows(msg, counter) /\ msg \in [Message -> Row]
      /\ task.run \in Nat
  BY DEF Rows, Actors
<1>a. \A m \in Expired : msg[m].st = "claimed" /\ m \in Message
  BY DEF Expired, InState
<1>b. \A m \in Owned : msg[m].st = "claimed" /\ m \in Message
  BY DEF Owned, InState
<1>e. Rows(Freed(Expired), counter)
  BY <1>t, <1>a, FreedRows
<1>1. ASSUME NEW m \in Message, Publish(m) PROVE Rows(msg', counter')
  BY <1>t, <1>1, InsertedRow DEF Publish
<1>2. ASSUME NEW m \in Message, PublishNote(m) PROVE Rows(msg', counter')
  BY <1>t, <1>2, InsertedRow DEF PublishNote
<1>3. ASSUME NEW m \in Message, Retract(m) PROVE Rows(msg', counter')
  <2>1. msg[m].seq \in 0..Cardinality(Message) /\ msg[m].st # "absent" /\ counter' = counter
    BY <1>t, <1>3 DEF Retract, Row
  <2>2. /\ Unclaimed("retracted", msg[m].seq) \in Row
        /\ Unclaimed("retracted", msg[m].seq).st = "retracted"
        /\ Unclaimed("retracted", msg[m].seq).seq = msg[m].seq
    BY <2>1, UnclaimedRow DEF Status
  <2>3. msg' = [msg EXCEPT ![m] = Unclaimed("retracted", msg[m].seq)]
    BY <1>3 DEF Retract
  <2>4. msg' \in [Message -> Row]
    BY <2>2, <2>3, <1>t
  <2>5. \A x \in Message : msg'[x].seq = msg[x].seq /\ (msg'[x].st = "absent" <=> msg[x].st = "absent")
    BY <2>1, <2>2, <2>3, <1>t
  <2> QED BY <1>t, <2>1, <2>4, <2>5, KeptRows
<1>4. ASSUME NEW m \in Message, LapseDead(m) PROVE Rows(msg', counter')
  <2>1. msg' = [msg EXCEPT ![m].live = FALSE] /\ counter' = counter
    BY <1>4 DEF LapseDead
  <2>2. msg' \in [Message -> Row]
    BY <2>1, <1>t DEF Row
  <2>3. \A x \in Message : msg'[x].seq = msg[x].seq /\ (msg'[x].st = "absent" <=> msg[x].st = "absent")
    BY <2>1, <1>t DEF Row
  <2> QED BY <1>t, <2>1, <2>2, <2>3, KeptRows
<1>5. CASE Stall
  <2>1. msg' = [m \in Message |-> [msg[m] EXCEPT !.live = FALSE]] /\ counter' = counter
    BY <1>5 DEF Stall
  <2>2. msg' \in [Message -> Row]
    BY <2>1, <1>t DEF Row
  <2>3. \A x \in Message : msg'[x].seq = msg[x].seq /\ (msg'[x].st = "absent" <=> msg[x].st = "absent")
    BY <2>1, <1>t DEF Row
  <2> QED BY <1>t, <2>1, <2>2, <2>3, KeptRows
<1>6. CASE RecoverClaims \/ BeginWake \/ ResumeReview
  BY <1>6, <1>e DEF RecoverClaims, BeginWake, ResumeReview
<1>7. CASE ModelBoundary
  <2> DEFINE batch == InState("pending") \union Expired
  <2>1. /\ counter' = counter
        /\ msg' = [m \in Message |-> IF m \in batch
                      THEN [msg[m] EXCEPT !.st = "claimed", !.by = task.run, !.live = TRUE]
                      ELSE msg[m]]
    BY <1>7 DEF ModelBoundary
  <2>2. \A m \in batch : msg[m].st # "absent"
    BY <1>a DEF InState
  <2>3. ASSUME NEW m \in Message
        PROVE  /\ msg'[m] \in Row /\ msg'[m].seq = msg[m].seq
               /\ (msg'[m].st = "absent" <=> msg[m].st = "absent")
    <3>1. CASE m \in batch
      <4>1. msg'[m] = [msg[m] EXCEPT !.st = "claimed", !.by = task.run, !.live = TRUE]
        BY <3>1, <2>1
      <4>2. msg[m] \in Row
        BY <1>t
      <4> QED BY <4>1, <4>2, <3>1, <2>2, <1>t DEF Row, Status
    <3>2. CASE m \notin batch
      BY <3>2, <2>1, <1>t
    <3> QED BY <3>1, <3>2
  <2>4. msg' \in [Message -> Row]
    BY <2>1, <2>3
  <2> QED BY <1>t, <2>1, <2>3, <2>4, KeptRows
<1>8. CASE GraphReturns
  <2>1. msg' = Acknowledged /\ counter' = counter
    BY <1>8 DEF GraphReturns
  <2>3. ASSUME NEW m \in Message
        PROVE  /\ msg'[m] \in Row /\ msg'[m].seq = msg[m].seq
               /\ (msg'[m].st = "absent" <=> msg[m].st = "absent")
    <3>1. CASE m \in Owned
      <4>1. msg'[m] = Unclaimed("delivered", msg[m].seq)
        BY <3>1, <2>1 DEF Acknowledged
      <4>2. msg[m].seq \in 0..Cardinality(Message) /\ msg[m].st # "absent"
        BY <1>t, <3>1, <1>b DEF Row
      <4>3. /\ Unclaimed("delivered", msg[m].seq) \in Row
            /\ Unclaimed("delivered", msg[m].seq).st = "delivered"
            /\ Unclaimed("delivered", msg[m].seq).seq = msg[m].seq
        BY <4>2, UnclaimedRow DEF Status
      <4> QED BY <4>1, <4>2, <4>3
    <3>2. CASE m \notin Owned
      BY <3>2, <2>1, <1>t DEF Acknowledged
    <3> QED BY <3>1, <3>2
  <2>4. msg' \in [Message -> Row]
    BY <2>1, <2>3 DEF Acknowledged
  <2> QED BY <1>t, <2>1, <2>3, <2>4, KeptRows
<1>9. CASE GraphFails
  BY <1>9, <1>t, <1>b, FreedRows DEF GraphFails, Releasable
<1>10. CASE \/ AdmitWake \/ RejectWake \/ Settle \/ AskForReview \/ EndTail
            \/ AgentMissing \/ CancelReview \/ Crash \/ Restart
  <2>1. msg' = msg /\ counter' = counter
    BY <1>10 DEF AdmitWake, RejectWake, Settle, AskForReview, EndTail, AgentMissing,
                 CancelReview, Crash, Restart
  <2> QED BY <2>1, <1>t
<1> QED BY <1>1, <1>2, <1>3, <1>4, <1>5, <1>6, <1>7, <1>8, <1>9, <1>10 DEF Next

-----------------------------------------------------------------------------
(* Every step keeps the actors' types, the histories and the watermark.     *)

\* What an admission with a trigger that was given writes.
LEMMA AdmittedTask ==
  ASSUME Typed, NEW seq \in 0..counter
  PROVE  /\ Admitted(seq).st = "running" /\ Admitted(seq).run = task.run + 1
         /\ Admitted(seq).wm \in 0..counter
         /\ Admitted(seq).wm >= task.wm /\ Admitted(seq).wm >= seq
         /\ Admitted(seq) \in [st : {"settled", "running", "review"}, run : Nat, wm : 0..counter]
<1>1. task.wm \in 0..counter /\ task.run \in Nat /\ counter \in Nat
  BY DEF Typed, Actors, Rows
<1>2. Max({task.wm, seq}) = IF task.wm >= seq THEN task.wm ELSE seq
  BY <1>1, MaxOfPair
<1>3. /\ Max({task.wm, seq}) \in 0..counter
      /\ Max({task.wm, seq}) >= task.wm /\ Max({task.wm, seq}) >= seq
  BY <1>1, <1>2
<1> QED BY <1>1, <1>3 DEF Admitted

LEMMA ActorsStep ==
  ASSUME Typed, Next
  PROVE  Actors'
<1>t. Rows(msg, counter) /\ Actors /\ counter \in Nat /\ Rows(msg', counter')
  BY RowsStep DEF Typed, Rows
<1>e. MaxTrigger(Freed(Expired)) \in 0..counter
  <2>1. \A m \in Expired : msg[m].st = "claimed" /\ m \in Message
    BY DEF Expired, InState
  <2> QED BY <2>1, <1>t, FreedRows, TriggerBound
<1>1. ASSUME NEW m \in Message, Publish(m) \/ PublishNote(m) PROVE Actors'
  <2>1. counter' = counter + 1 /\ UNCHANGED <<task, run, waker, up>>
    BY <1>1 DEF Publish, PublishNote, Insert
  <2> QED BY <1>t, <2>1 DEF Actors, HasRun
<1>2. CASE \/ \E m \in Message : Retract(m) \/ LapseDead(m)
           \/ Stall \/ RecoverClaims
  <2>1. UNCHANGED <<counter, task, run, waker, up>>
    BY <1>2 DEF Retract, LapseDead, Stall, RecoverClaims
  <2> QED BY <1>t, <2>1 DEF Actors, HasRun
<1>3. CASE BeginWake
  <2>1. /\ waker' = [pc |-> IF known THEN "admit" ELSE "reject", seq |-> MaxTrigger(Freed(Expired))]
        /\ up /\ ~HasRun /\ task.st = "settled"
        /\ UNCHANGED <<counter, task, run, up>>
    BY <1>3 DEF BeginWake
  <2> QED BY <1>t, <1>e, <2>1 DEF Actors, HasRun
<1>4. CASE AdmitWake
  <2>1. /\ task' = Admitted(waker.seq) /\ run' = [pc |-> "admitted", read |-> {}]
        /\ waker' = Asleep /\ up /\ UNCHANGED <<counter, up>>
    BY <1>4 DEF AdmitWake
  <2>2. waker.seq \in 0..counter
    BY <1>t DEF Actors
  <2>3. task'.st = "running" /\ task' \in [st : {"settled", "running", "review"}, run : Nat, wm : 0..counter]
    BY <2>1, <2>2, AdmittedTask
  <2> QED BY <1>t, <2>1, <2>3 DEF Actors, HasRun, Asleep
<1>5. CASE RejectWake
  <2>1. /\ task' = [Admitted(waker.seq) EXCEPT !.st = "settled"]
        /\ waker' = Asleep /\ up /\ waker.pc = "reject" /\ UNCHANGED <<counter, up, run>>
    BY <1>5 DEF RejectWake
  <2>2. waker.seq \in 0..counter
    BY <1>t DEF Actors
  <2>3. task'.st = "settled" /\ task' \in [st : {"settled", "running", "review"}, run : Nat, wm : 0..counter]
    BY <2>1, <2>2, AdmittedTask
  <2> QED BY <1>t, <2>1, <2>3 DEF Actors, HasRun, Asleep
<1>6. CASE ResumeReview
  <2>1. /\ task' = Admitted(MaxTrigger(Freed(Expired))) /\ run' = [pc |-> "admitted", read |-> {}]
        /\ up /\ task.st = "review" /\ UNCHANGED <<counter, waker, up>>
    BY <1>6 DEF ResumeReview
  <2>2. task'.st = "running" /\ task' \in [st : {"settled", "running", "review"}, run : Nat, wm : 0..counter]
    BY <2>1, <1>e, AdmittedTask
  <2>3. waker.pc = "none"
    BY <1>t, <2>1 DEF Actors
  <2> QED BY <1>t, <2>1, <2>2, <2>3 DEF Actors, HasRun
<1>7. CASE ModelBoundary
  <2>1. /\ run' = [pc |-> "graph", read |-> run.read \union (InState("pending") \union Expired)]
        /\ up /\ run.pc \in {"admitted", "graph"} /\ UNCHANGED <<counter, task, waker, up>>
    BY <1>7 DEF ModelBoundary
  <2>2. InState("pending") \union Expired \subseteq Message
    BY DEF InState, Expired
  <2> QED BY <1>t, <2>1, <2>2 DEF Actors, HasRun
<1>8. CASE GraphReturns \/ GraphFails \/ AgentMissing
  <2>1. /\ run' = [run EXCEPT !.pc = "returned"] /\ up
        /\ run.pc \in {"admitted", "graph"} /\ UNCHANGED <<counter, task, waker, up>>
    BY <1>8 DEF GraphReturns, GraphFails, AgentMissing
  <2>2. run' = [pc |-> "returned", read |-> run.read] /\ run.read \subseteq Message
    BY <1>t, <2>1 DEF Actors
  <2> QED BY <1>t, <2>1, <2>2 DEF Actors, HasRun
<1>9. CASE Settle
  <2>1. /\ task' = [task EXCEPT !.st = "settled"] /\ run' = [run EXCEPT !.pc = "tail"]
        /\ up /\ run.pc = "returned" /\ UNCHANGED <<counter, waker, up>>
    BY <1>9 DEF Settle
  <2>2. /\ run' = [pc |-> "tail", read |-> run.read] /\ run.read \subseteq Message
        /\ task' = [st |-> "settled", run |-> task.run, wm |-> task.wm]
    BY <1>t, <2>1 DEF Actors
  <2> QED BY <1>t, <2>1, <2>2 DEF Actors, HasRun
<1>10. CASE AskForReview
  <2>1. /\ task' = [task EXCEPT !.st = "review"] /\ run' = NoRun
        /\ up /\ run.pc = "returned" /\ UNCHANGED <<counter, waker, up>>
    BY <1>10 DEF AskForReview
  <2>2. task' = [st |-> "review", run |-> task.run, wm |-> task.wm]
    BY <1>t, <2>1 DEF Actors
  <2> QED BY <1>t, <2>1, <2>2 DEF Actors, HasRun, NoRun
<1>11. CASE CancelReview
  <2>1. /\ task' = [task EXCEPT !.st = "settled"] /\ ~HasRun
        /\ up /\ UNCHANGED <<counter, waker, up, run>>
    BY <1>11 DEF CancelReview
  <2>2. task' = [st |-> "settled", run |-> task.run, wm |-> task.wm]
    BY <1>t, <2>1 DEF Actors
  <2> QED BY <1>t, <2>1, <2>2 DEF Actors, HasRun
<1>12. CASE EndTail
  <2>1. run' = NoRun /\ up /\ run.pc = "tail" /\ UNCHANGED <<counter, waker, up, task>>
    BY <1>12 DEF EndTail
  <2> QED BY <1>t, <2>1 DEF Actors, HasRun, NoRun
<1>13. CASE Crash
  <2>1. up' = FALSE /\ run' = NoRun /\ waker' = Asleep /\ UNCHANGED <<counter, task>>
    BY <1>13 DEF Crash
  <2> QED BY <1>t, <2>1 DEF Actors, HasRun, NoRun, Asleep
<1>14. CASE Restart
  <2>1. /\ task' = IF task.st = "running" THEN [task EXCEPT !.st = "settled"] ELSE task
        /\ ~up /\ up' = TRUE /\ UNCHANGED <<counter, run, waker>>
    BY <1>14 DEF Restart
  <2>2. /\ task'.st # "running"
        /\ task' \in [st : {"settled", "running", "review"}, run : Nat, wm : 0..counter]
    BY <1>t, <2>1 DEF Actors
  <2>3. run = NoRun /\ waker = Asleep
    BY <1>t, <2>1 DEF Actors
  <2> QED BY <1>t, <2>1, <2>2, <2>3 DEF Actors, HasRun, NoRun, Asleep
<1> QED BY <1>1, <1>2, <1>3, <1>4, <1>5, <1>6, <1>7, <1>8, <1>9, <1>10, <1>11, <1>12, <1>13,
           <1>14 DEF Next

LEMMA HistoryStep ==
  ASSUME Typed, Next
  PROVE  History'
<1>t. History
  BY DEF Typed
<1>1. CASE GraphReturns
  <2>1. /\ heard' = [m \in Message |-> heard[m] + (IF m \in run.read THEN 1 ELSE 0)]
        /\ UNCHANGED <<woken, stalled>>
    BY <1>1 DEF GraphReturns
  <2>2. heard' \in [Message -> Nat]
    BY <1>t, <2>1 DEF History
  <2> QED BY <1>t, <2>1, <2>2 DEF History
<1>2. CASE AdmitWake \/ RejectWake
  <2>1. woken' = woken + 1 /\ UNCHANGED <<heard, stalled>>
    BY <1>2 DEF AdmitWake, RejectWake
  <2> QED BY <1>t, <2>1 DEF History
<1>3. CASE Stall
  <2>1. stalled' = TRUE /\ UNCHANGED <<heard, woken>>
    BY <1>3 DEF Stall
  <2> QED BY <1>t, <2>1 DEF History
<1>4. CASE \/ \E m \in Message : Publish(m) \/ PublishNote(m) \/ Retract(m) \/ LapseDead(m)
           \/ RecoverClaims \/ BeginWake \/ ResumeReview \/ ModelBoundary \/ GraphFails
           \/ Settle \/ AskForReview \/ EndTail \/ AgentMissing \/ CancelReview
           \/ Crash \/ Restart
  <2>1. UNCHANGED <<heard, woken, stalled>>
    BY <1>4 DEF Publish, PublishNote, Retract, LapseDead, RecoverClaims, BeginWake, ResumeReview,
                ModelBoundary, GraphFails, Settle, AskForReview, EndTail, AgentMissing,
                CancelReview, Crash, Restart, history
  <2> QED BY <1>t, <2>1 DEF History
<1> QED BY <1>1, <1>2, <1>3, <1>4 DEF Next

LEMMA MarkStep ==
  ASSUME Typed, WakesRaiseTheMark, Next
  PROVE  WakesRaiseTheMark'
<1>t. /\ Actors /\ woken \in Nat /\ counter \in Nat /\ task.wm \in Nat /\ waker.seq \in 0..counter
      /\ woken <= task.wm /\ (waker.pc # "none" => task.wm < waker.seq)
  BY DEF Typed, Actors, History, Rows, WakesRaiseTheMark
<1>1. CASE BeginWake
  <2>1. /\ waker'.seq = MaxTrigger(Freed(Expired)) /\ MaxTrigger(Freed(Expired)) > task.wm
        /\ UNCHANGED <<task, woken>>
    BY <1>1 DEF BeginWake, history
  <2>2. MaxTrigger(Freed(Expired)) \in 0..counter
    <3>1. \A m \in Expired : msg[m].st = "claimed" /\ m \in Message
      BY DEF Expired, InState
    <3> QED BY <3>1, FreedRows, TriggerBound DEF Typed
  <2> QED BY <1>t, <2>1, <2>2 DEF WakesRaiseTheMark
<1>2. CASE AdmitWake \/ RejectWake
  <2>1. /\ task'.wm = Admitted(waker.seq).wm /\ woken' = woken + 1 /\ waker'.pc = "none"
        /\ waker.pc # "none"
    BY <1>2 DEF AdmitWake, RejectWake, Asleep, Admitted
  <2>2. Admitted(waker.seq).wm >= waker.seq /\ Admitted(waker.seq).wm \in Nat
    BY <1>t, AdmittedTask
  <2> QED BY <1>t, <2>1, <2>2 DEF WakesRaiseTheMark
<1>3. CASE ResumeReview
  <2>1. /\ task'.wm = Admitted(MaxTrigger(Freed(Expired))).wm /\ task.st = "review"
        /\ UNCHANGED <<waker, woken>>
    BY <1>3 DEF ResumeReview, history
  <2>2. MaxTrigger(Freed(Expired)) \in 0..counter
    <3>1. \A m \in Expired : msg[m].st = "claimed" /\ m \in Message
      BY DEF Expired, InState
    <3> QED BY <3>1, FreedRows, TriggerBound DEF Typed
  <2>3. task'.wm >= task.wm /\ task'.wm \in Nat
    BY <2>1, <2>2, AdmittedTask, <1>t
  <2>4. waker'.pc = "none"
    BY <1>t, <2>1 DEF Actors
  <2> QED BY <1>t, <2>1, <2>3, <2>4 DEF WakesRaiseTheMark
<1>4. CASE Crash
  <2>1. waker'.pc = "none" /\ UNCHANGED <<task, woken>>
    BY <1>4 DEF Crash, Asleep, history
  <2> QED BY <1>t, <2>1 DEF WakesRaiseTheMark
<1>5. CASE Settle \/ AskForReview \/ CancelReview \/ Restart
  <2>1. /\ task' = task \/ \E st \in {"settled", "review"} : task' = [task EXCEPT !.st = st]
        /\ UNCHANGED <<waker, woken>>
    BY <1>5 DEF Settle, AskForReview, CancelReview, Restart, history
  <2>2. task'.wm = task.wm
    BY <1>t, <2>1 DEF Actors
  <2> QED BY <1>t, <2>1, <2>2 DEF WakesRaiseTheMark
<1>6. CASE \/ \E m \in Message : Publish(m) \/ PublishNote(m) \/ Retract(m) \/ LapseDead(m)
           \/ Stall \/ RecoverClaims \/ ModelBoundary \/ GraphReturns \/ GraphFails
           \/ EndTail \/ AgentMissing
  <2>1. UNCHANGED <<task, waker, woken>>
    BY <1>6 DEF Publish, PublishNote, Retract, LapseDead, Stall, RecoverClaims, ModelBoundary,
                GraphReturns, GraphFails, EndTail, AgentMissing, history
  <2> QED BY <1>t, <2>1 DEF WakesRaiseTheMark
<1> QED BY <1>1, <1>2, <1>3, <1>4, <1>5, <1>6 DEF Next

-----------------------------------------------------------------------------
(* Every step keeps what the claims say of the runs.                        *)

\* The rows that a step writes, by action.
LEMMA WrittenRows ==
  ASSUME Typed, Next, NEW m \in Message
  PROVE  \/ msg'[m] = msg[m]
         \/ /\ msg[m].st = "absent" /\ msg'[m] = Unclaimed("pending", counter + 1)
            /\ UNCHANGED <<task, run, heard, stalled>>
         \/ /\ m \in Note /\ msg[m].st \in {"pending", "claimed"}
            /\ msg'[m] = Unclaimed("retracted", msg[m].seq)
            /\ UNCHANGED <<task, run, heard, stalled>>
         \/ /\ msg[m].st = "claimed" /\ msg'[m] = [msg[m] EXCEPT !.live = FALSE]
            /\ ~HasRun \/ msg[m].by # task.run
            /\ UNCHANGED <<task, run, heard, stalled>>
         \/ Stall /\ msg'[m] = [msg[m] EXCEPT !.live = FALSE]
         \/ /\ msg[m].st = "claimed" /\ ~msg[m].live
            /\ msg'[m] = Unclaimed("pending", msg[m].seq)
            /\ RecoverClaims \/ BeginWake \/ ResumeReview
         \/ /\ ModelBoundary /\ m \in InState("pending") \union Expired
            /\ msg'[m] = [msg[m] EXCEPT !.st = "claimed", !.by = task.run, !.live = TRUE]
         \/ GraphReturns /\ m \in Owned /\ msg'[m] = Unclaimed("delivered", msg[m].seq)
         \/ GraphFails /\ m \in Owned /\ msg'[m] = Unclaimed("pending", msg[m].seq)
<1>t. Rows(msg, counter) /\ msg \in [Message -> Row]
  BY DEF Typed, Rows
<1>1. ASSUME NEW x \in Message, Publish(x) \/ PublishNote(x)
      PROVE  \/ msg'[m] = msg[m]
             \/ /\ msg[m].st = "absent" /\ msg'[m] = Unclaimed("pending", counter + 1)
                /\ UNCHANGED <<task, run, heard, stalled>>
  BY <1>t, <1>1 DEF Publish, PublishNote, Insert, history
<1>2. ASSUME NEW x \in Message, Retract(x)
      PROVE  \/ msg'[m] = msg[m]
             \/ /\ m \in Note /\ msg[m].st \in {"pending", "claimed"}
                /\ msg'[m] = Unclaimed("retracted", msg[m].seq)
                /\ UNCHANGED <<task, run, heard, stalled>>
  BY <1>t, <1>2 DEF Retract, history
<1>3. ASSUME NEW x \in Message, LapseDead(x)
      PROVE  \/ msg'[m] = msg[m]
             \/ /\ msg[m].st = "claimed" /\ msg'[m] = [msg[m] EXCEPT !.live = FALSE]
                /\ ~HasRun \/ msg[m].by # task.run
                /\ UNCHANGED <<task, run, heard, stalled>>
  BY <1>t, <1>3 DEF LapseDead, history
<1>4. CASE Stall
  BY <1>t, <1>4 DEF Stall
<1>5. CASE RecoverClaims \/ BeginWake \/ ResumeReview
  <2>1. msg' = Freed(Expired)
    BY <1>5 DEF RecoverClaims, BeginWake, ResumeReview
  <2>2. CASE m \in Expired
    BY <1>5, <2>1, <2>2 DEF Freed, Expired, InState
  <2>3. CASE m \notin Expired
    BY <2>1, <2>3 DEF Freed
  <2> QED BY <2>2, <2>3
<1>6. CASE ModelBoundary
  BY <1>6 DEF ModelBoundary
<1>7. CASE GraphReturns
  <2>1. msg' = Acknowledged
    BY <1>7 DEF GraphReturns
  <2> QED BY <1>7, <2>1 DEF Acknowledged
<1>8. CASE GraphFails
  <2>1. msg' = Freed(Owned)
    BY <1>8 DEF GraphFails, Releasable
  <2> QED BY <1>8, <2>1 DEF Freed
<1>9. CASE \/ AdmitWake \/ RejectWake \/ Settle \/ AskForReview \/ EndTail
           \/ AgentMissing \/ CancelReview \/ Crash \/ Restart
  BY <1>9 DEF AdmitWake, RejectWake, Settle, AskForReview, EndTail, AgentMissing,
              CancelReview, Crash, Restart
<1> QED BY <1>1, <1>2, <1>3, <1>4, <1>5, <1>6, <1>7, <1>8, <1>9 DEF Next

\* What is closed stays as it is: only a claim has a lease to lose.
LEMMA ClosedStep ==
  ASSUME Typed, ClaimsAreRead, Next, NEW m \in Message, msg[m].st \in {"delivered", "retracted"}
  PROVE  msg'[m] = msg[m]
<1>1. msg[m] \in Row /\ msg[m].live = FALSE
  BY DEF Typed, Rows, Row, ClaimsAreRead
<1>2. [msg[m] EXCEPT !.live = FALSE] = msg[m]
  BY <1>1 DEF Row
<1>3. m \notin InState("pending") /\ m \notin Expired /\ m \notin Owned
  BY DEF InState, Expired, Owned
<1> QED BY <1>2, <1>3, WrittenRows

\* The runs that a step begins, goes on with or ends.
LEMMA RunStep ==
  ASSUME Typed, Next
  PROVE  \/ task'.run = task.run + 1 /\ (run'.pc \in {"admitted", "graph"} => run'.read = {})
         \/ task'.run = task.run /\ (run'.pc \in {"admitted", "graph"} => run' = run)
         \/ /\ ModelBoundary /\ task' = task /\ run.pc \in {"admitted", "graph"}
            /\ run'.read = run.read \union (InState("pending") \union Expired)
<1>t. /\ task \in [st : {"settled", "running", "review"}, run : Nat, wm : 0..counter]
      /\ run \in [pc : {"none", "admitted", "graph", "returned", "tail"}, read : SUBSET Message]
      /\ waker.seq \in 0..counter
  BY DEF Typed, Actors
<1>1. CASE AdmitWake \/ RejectWake
  <2>1. /\ task'.run = Admitted(waker.seq).run
        /\ run' = [pc |-> "admitted", read |-> {}] \/ (RejectWake /\ run' = run)
    BY <1>1 DEF AdmitWake, RejectWake, Admitted
  <2>2. RejectWake => ~HasRun
    BY DEF Typed, Actors, RejectWake
  <2> QED BY <1>t, <2>1, <2>2, AdmittedTask DEF HasRun
<1>2. CASE ResumeReview
  <2>1. task'.run = task.run + 1 /\ run' = [pc |-> "admitted", read |-> {}]
    BY <1>2 DEF ResumeReview, Admitted
  <2> QED BY <2>1
<1>3. CASE ModelBoundary
  <2>1. /\ run' = [pc |-> "graph", read |-> run.read \union (InState("pending") \union Expired)]
        /\ run.pc \in {"admitted", "graph"} /\ task' = task
    BY <1>3 DEF ModelBoundary
  <2> QED BY <1>3, <2>1
<1>4. CASE GraphReturns \/ GraphFails \/ AgentMissing \/ Settle \/ AskForReview \/ EndTail \/ Crash
  <2>1. /\ \/ run' = NoRun \/ \E pc \in {"returned", "tail"} : run' = [run EXCEPT !.pc = pc]
        /\ \/ task' = task \/ \E st \in {"settled", "review"} : task' = [task EXCEPT !.st = st]
    BY <1>4 DEF GraphReturns, GraphFails, AgentMissing, Settle, AskForReview, EndTail, Crash
  <2>2. run'.pc \notin {"admitted", "graph"} /\ task'.run = task.run
    BY <1>t, <2>1 DEF NoRun
  <2> QED BY <2>2
<1>5. CASE CancelReview \/ Restart
  <2>1. /\ run' = run
        /\ \/ task' = task \/ \E st \in {"settled", "review"} : task' = [task EXCEPT !.st = st]
    BY <1>5 DEF CancelReview, Restart
  <2>2. task'.run = task.run
    BY <1>t, <2>1
  <2> QED BY <2>1, <2>2
<1>6. CASE \/ \E m \in Message : Publish(m) \/ PublishNote(m) \/ Retract(m) \/ LapseDead(m)
           \/ Stall \/ RecoverClaims \/ BeginWake
  <2>1. run' = run /\ task' = task
    BY <1>6 DEF Publish, PublishNote, Retract, LapseDead, Stall, RecoverClaims, BeginWake
  <2> QED BY <2>1
<1> QED BY <1>1, <1>2, <1>3, <1>4, <1>5, <1>6 DEF Next

LEMMA ClaimsStep ==
  ASSUME Typed, ClaimsAreRead, Next
  PROVE  ClaimsAreRead'
<1> SUFFICES ASSUME NEW m \in Message
             PROVE  /\ msg'[m].live => msg'[m].st = "claimed"
                    /\ msg'[m].by <= task'.run
                    /\ msg'[m].st = "claimed" /\ msg'[m].by = task'.run
                         /\ run'.pc \in {"admitted", "graph"} => m \in run'.read
  BY DEF ClaimsAreRead
<1>t. msg[m] \in Row /\ task.run \in Nat
  BY DEF Typed, Rows, Actors
<1>c. /\ msg[m].live => msg[m].st = "claimed"
      /\ msg[m].by <= task.run
      /\ msg[m].st = "claimed" /\ msg[m].by = task.run /\ run.pc \in {"admitted", "graph"}
           => m \in run.read
  BY DEF ClaimsAreRead
<1> DEFINE Kept == /\ msg'[m].st = msg[m].st /\ msg'[m].by = msg[m].by
                   /\ msg'[m].live => msg[m].live
           Dropped == msg'[m].live = FALSE /\ msg'[m].by = 0 /\ msg'[m].st # "claimed"
           Taken == /\ ModelBoundary /\ m \in InState("pending") \union Expired
                    /\ msg'[m].st = "claimed" /\ msg'[m].by = task.run
<1>2. Kept \/ Dropped \/ Taken
  <2>1. CASE msg'[m] = msg[m]
    BY <2>1
  <2>2. CASE msg'[m] = [msg[m] EXCEPT !.live = FALSE]
    <3>1. msg'[m].st = msg[m].st /\ msg'[m].by = msg[m].by /\ msg'[m].live = FALSE
      BY <2>2, <1>t DEF Row
    <3> QED BY <3>1
  <2>3. ASSUME NEW s \in {"pending", "retracted", "delivered"}, NEW n, msg'[m] = Unclaimed(s, n)
        PROVE  Dropped
    BY <2>3 DEF Unclaimed
  <2>4. CASE /\ ModelBoundary /\ m \in InState("pending") \union Expired
             /\ msg'[m] = [msg[m] EXCEPT !.st = "claimed", !.by = task.run, !.live = TRUE]
    BY <2>4, <1>t DEF Row
  <2> HIDE DEF Kept, Dropped, Taken
  <2> QED BY <2>1, <2>2, <2>3, <2>4, WrittenRows
<1>3. task'.run \in Nat /\ task'.run >= task.run
  BY <1>t, RunStep
<1>4. CASE Kept
  <2>1. msg[m].by \in Nat /\ msg'[m].by <= task'.run /\ (msg'[m].live => msg'[m].st = "claimed")
    BY <1>4, <1>t, <1>c, <1>3 DEF Row
  <2>2. CASE task'.run = task.run + 1
    BY <2>1, <2>2, <1>4, <1>t, <1>c
  <2>3. CASE task'.run = task.run /\ (run'.pc \in {"admitted", "graph"} => run' = run)
    BY <2>1, <2>3, <1>4, <1>c
  <2>4. CASE /\ ModelBoundary /\ task' = task /\ run.pc \in {"admitted", "graph"}
             /\ run'.read = run.read \union (InState("pending") \union Expired)
    BY <2>1, <2>4, <1>4, <1>c
  <2> QED BY <2>2, <2>3, <2>4, RunStep
<1>5. CASE Dropped
  BY <1>5, <1>3
<1>6. CASE Taken
  <2>1. task' = task /\ run'.read = run.read \union (InState("pending") \union Expired)
    BY <1>6 DEF ModelBoundary
  <2> QED BY <2>1, <1>6, <1>t
<1> QED BY <1>2, <1>4, <1>5, <1>6

LEMMA ReadStep ==
  ASSUME Typed, ClaimsAreRead, ReadIsHeld, Next
  PROVE  ReadIsHeld'
<1>0. stalled' = FALSE => stalled = FALSE /\ ~Stall
  BY HistoryStep DEF Typed, History, Next, Stall, history, Publish, PublishNote, Retract, LapseDead,
     RecoverClaims, BeginWake, AdmitWake, RejectWake, ResumeReview, ModelBoundary, GraphReturns,
     GraphFails, Settle, AskForReview, EndTail, AgentMissing, CancelReview, Crash, Restart
<1> DEFINE Held(m) == \/ msg[m].st = "retracted"
                      \/ msg[m].st = "claimed" /\ msg[m].by = task.run /\ msg[m].live
<1> SUFFICES ASSUME stalled' = FALSE, NEW m \in Message
             PROVE  /\ msg'[m].st \in Open => heard'[m] = 0
                    /\ msg'[m].st = "delivered" => heard'[m] = 1
                    /\ msg'[m].st = "retracted" => m \in Note /\ heard'[m] <= 1
                    /\ m \in run'.read /\ run'.pc \in {"admitted", "graph"} =>
                         heard'[m] = 0 /\ Held(m)'
  BY HistoryStep DEF ReadIsHeld, History
<1>t. /\ msg[m] \in Row /\ msg \in [Message -> Row] /\ heard \in [Message -> Nat]
      /\ run \in [pc : {"none", "admitted", "graph", "returned", "tail"}, read : SUBSET Message]
  BY DEF Typed, Rows, Actors, History
<1>c. msg[m].st = "claimed" /\ msg[m].by = task.run /\ run.pc \in {"admitted", "graph"}
        => m \in run.read
  BY DEF ClaimsAreRead
<1>r. /\ msg[m].st \in Open => heard[m] = 0
      /\ msg[m].st = "delivered" => heard[m] = 1
      /\ msg[m].st = "retracted" => m \in Note /\ heard[m] <= 1
      /\ m \in run.read /\ run.pc \in {"admitted", "graph"} => heard[m] = 0 /\ Held(m)
  BY <1>0, <1>t DEF ReadIsHeld
<1>1. CASE GraphReturns
  <2>1. /\ run.pc = "graph" /\ run'.pc = "returned"
        /\ heard'[m] = heard[m] + (IF m \in run.read THEN 1 ELSE 0)
        /\ msg'[m] = IF m \in Owned THEN Unclaimed("delivered", msg[m].seq) ELSE msg[m]
    BY <1>1, <1>t DEF GraphReturns, Acknowledged
  <2>2. CASE m \in Owned
    <3>1. msg[m].st = "claimed" /\ msg[m].by = task.run /\ msg'[m].st = "delivered"
      BY <2>1, <2>2 DEF Owned, InState, Unclaimed
    <3>2. heard'[m] = 1
      BY <3>1, <2>1, <1>c, <1>r
    <3> QED BY <2>1, <3>1, <3>2 DEF Open
  <2>3. CASE m \notin Owned /\ m \in run.read
    <3>1. msg[m].st = "retracted" /\ heard[m] = 0
      BY <2>1, <2>3, <1>r DEF Owned, InState
    <3> QED BY <2>1, <2>3, <3>1, <1>r DEF Open
  <2>4. CASE m \notin Owned /\ m \notin run.read
    BY <2>1, <2>4, <1>r, <1>t
  <2> QED BY <2>2, <2>3, <2>4
<1>2. CASE ModelBoundary
  <2> DEFINE batch == InState("pending") \union Expired
  <2>1. /\ run'.read = run.read \union batch /\ run.pc \in {"admitted", "graph"}
        /\ heard' = heard /\ task' = task
        /\ msg'[m] = IF m \in batch
                     THEN [msg[m] EXCEPT !.st = "claimed", !.by = task.run, !.live = TRUE]
                     ELSE msg[m]
    BY <1>2 DEF ModelBoundary, history
  <2>2. CASE m \in batch
    <3>1. heard[m] = 0
      BY <2>2, <1>r DEF InState, Expired, Open
    <3>2. msg'[m].st = "claimed" /\ msg'[m].by = task.run /\ msg'[m].live
      BY <2>1, <2>2, <1>t DEF Row
    <3> QED BY <2>1, <3>1, <3>2
  <2>3. CASE m \notin batch
    BY <2>1, <2>3, <1>r
  <2> QED BY <2>2, <2>3
<1>3. CASE ~GraphReturns /\ ~ModelBoundary
  <2>1. heard' = heard
    BY <1>0, <1>3 DEF Next, history, Publish, PublishNote, Retract, LapseDead, RecoverClaims,
       BeginWake, AdmitWake, RejectWake, ResumeReview, GraphFails, Settle, AskForReview, EndTail,
       AgentMissing, CancelReview, Crash, Restart
  <2>2. \/ run'.pc \in {"admitted", "graph"} => run'.read = {}
        \/ task'.run = task.run /\ (run'.pc \in {"admitted", "graph"} => run' = run)
    BY <1>3, RunStep
  <2>3. CASE msg'[m] = msg[m]
    BY <2>1, <2>2, <2>3, <1>r
  <2>4. CASE msg[m].st = "absent" /\ msg'[m] = Unclaimed("pending", counter + 1)
    <3>1. msg'[m].st = "pending"
      BY <2>4 DEF Unclaimed
    <3> QED BY <2>1, <2>2, <2>4, <3>1, <1>r DEF Open
  <2>5. CASE /\ m \in Note /\ msg[m].st \in {"pending", "claimed"}
             /\ msg'[m] = Unclaimed("retracted", msg[m].seq)
    <3>1. msg'[m].st = "retracted"
      BY <2>5 DEF Unclaimed
    <3> QED BY <2>1, <2>2, <2>5, <3>1, <1>r DEF Open
  <2>6. CASE /\ msg[m].st = "claimed" /\ msg'[m] = [msg[m] EXCEPT !.live = FALSE]
             /\ ~HasRun \/ msg[m].by # task.run
             /\ UNCHANGED <<task, run, heard, stalled>>
    <3>1. msg'[m].st = "claimed"
      BY <2>6, <1>t DEF Row
    <3> QED BY <2>6, <3>1, <1>r DEF Open, HasRun
  <2>7. CASE /\ msg[m].st = "claimed" /\ ~msg[m].live
             /\ msg'[m] = Unclaimed("pending", msg[m].seq)
    <3>1. msg'[m].st = "pending"
      BY <2>7 DEF Unclaimed
    <3> QED BY <2>1, <2>2, <2>7, <3>1, <1>r DEF Open
  <2>8. CASE GraphFails /\ m \in Owned /\ msg'[m] = Unclaimed("pending", msg[m].seq)
    <3>1. msg'[m].st = "pending" /\ msg[m].st = "claimed" /\ run'.pc = "returned"
      BY <2>8, <1>t DEF Unclaimed, Owned, InState, GraphFails
    <3> QED BY <2>1, <3>1, <1>r DEF Open
  <2> QED BY <1>0, <1>3, <2>3, <2>4, <2>5, <2>6, <2>7, <2>8, WrittenRows
<1> QED BY <1>1, <1>2, <1>3

-----------------------------------------------------------------------------
(* The theorems.                                                            *)

LEMMA Initially ==
  ASSUME Init
  PROVE  IInv
<1>1. /\ \A m \in Message : msg[m] = Absent
      /\ msg = [m \in Message |-> Absent] /\ counter = 0
  BY DEF Init
<1>2. Absent.st = "absent" /\ Absent.seq = 0 /\ Absent.by = 0 /\ Absent.live = FALSE
  BY DEF Absent, Unclaimed
<1>3. Cardinality(Message) \in Nat
  BY MessageAssumption, FS_CardinalityType
<1>4. Absent \in Row
  <2>1. "absent" \in Status /\ 0 \in 0..Cardinality(Message)
    BY <1>3 DEF Status
  <2> QED BY <2>1, UnclaimedRow DEF Absent
<1>5. Numbered(msg) = {}
  BY <1>1, <1>2 DEF Numbered
<1>6. Rows(msg, counter)
  BY <1>1, <1>2, <1>4, <1>5, FS_EmptySet DEF Rows
<1>7. Actors /\ History
  <2>1. /\ task = [st |-> "running", run |-> 1, wm |-> 0] /\ run = [pc |-> "admitted", read |-> {}]
        /\ waker = [pc |-> "none", seq |-> 0] /\ up = TRUE /\ 0 \in 0..counter
    BY <1>1 DEF Init, Asleep
  <2>2. Actors
    BY <2>1 DEF Actors, HasRun
  <2>3. History
    BY DEF Init, History
  <2> QED BY <2>2, <2>3
<1>8. ClaimsAreRead /\ ReadIsHeld
  BY <1>1, <1>2 DEF Init, ClaimsAreRead, ReadIsHeld, Open
<1>9. WakesRaiseTheMark
  BY DEF Init, WakesRaiseTheMark, Asleep
<1> QED BY <1>6, <1>7, <1>8, <1>9 DEF IInv, Typed

LEMMA Inductive ==
  ASSUME IInv, [Next]_vars
  PROVE  IInv'
<1>1. CASE Next
  BY <1>1, RowsStep, ActorsStep, HistoryStep, ClaimsStep, ReadStep, MarkStep DEF IInv, Typed
<1>2. CASE UNCHANGED vars
  <2>1. UNCHANGED <<msg, counter, task, run, waker, up, heard, woken, stalled>>
    BY <1>2 DEF vars
  <2> QED BY <2>1 DEF IInv, Typed, Rows, Numbered, Actors, History, HasRun, ClaimsAreRead,
                      ReadIsHeld, WakesRaiseTheMark
<1> QED BY <1>1, <1>2

\* The strengthened invariant holds in every reachable state.
THEOREM Invariance == Spec => []IInv
<1>1. Init => IInv
  BY Initially
<1>2. IInv /\ [Next]_vars => IInv'
  BY Inductive
<1> QED BY <1>1, <1>2, PTL DEF Spec

\* A message is part of one successful turn, whatever fails, is retracted or is
\* cancelled, however often the process dies, and for any number of messages, as
\* long as no lease runs out under a live run.
THEOREM MessagesAreHeardOnce == Spec => []HeardOnce
<1>1. IInv => HeardOnce
  <2> SUFFICES ASSUME IInv PROVE HeardOnce
    OBVIOUS
  <2>1. TypeOK
    BY TypesFollow DEF IInv
  <2>2. ASSUME ~stalled, NEW m \in Message
        PROVE  /\ heard[m] <= 1
               /\ msg[m].st = "delivered" => heard[m] = 1
               /\ m \in Input /\ heard[m] = 1 => msg[m].st = "delivered"
    <3>1. /\ msg[m].st \in Open => heard[m] = 0
          /\ msg[m].st = "delivered" => heard[m] = 1
          /\ msg[m].st = "retracted" => m \in Note /\ heard[m] <= 1
      BY <2>2 DEF IInv, ReadIsHeld
    <3>2. msg[m].st \in Status
      BY DEF IInv, Typed, Rows, Row
    <3>3. m \in Input => m \notin Note
      BY MessageAssumption
    <3> QED BY <3>1, <3>2, <3>3 DEF Status, Open
  <2> QED BY <2>1, <2>2 DEF HeardOnce
<1> QED BY <1>1, Invariance, PTL

\* The mailbox wakes the Task at most once for each message there ever was.
THEOREM WakesAreFew == Spec => []WakesAreBounded
<1>1. IInv => WakesAreBounded
  BY DEF IInv, Typed, Rows, Actors, History, WakesRaiseTheMark, WakesAreBounded
<1> QED BY <1>1, Invariance, PTL

\* No late release, expiry or retraction touches what is delivered or retracted.
THEOREM ClosedRowsAreFinal == Spec => ClosedIsFinal
<1>1. IInv /\ [Next]_vars =>
        [\A m \in Message : msg[m].st \in {"delivered", "retracted"} => msg'[m] = msg[m]]_vars
  BY ClosedStep DEF IInv
<1> QED BY <1>1, Invariance, PTL DEF Spec, ClosedIsFinal

-----------------------------------------------------------------------------
(***************************************************************************)
(* What opening an old database does to its reviews and messages           *)
(* (StoreUpgrade).  A sequence goes up with the id of its review: what has *)
(* none yet has a later id than all that have one.  And the watermark of a *)
(* Task lies between the messages its broken run was sent and all others.  *)
(***************************************************************************)
IsNumbered(t) == row[t] # Nothing /\ row[t].seq > 0

\* The review a Task waits for: its row, or else what its Task row shows.
ReviewOf(t) == IF row[t] # Nothing THEN row[t].id ELSE json[t].id

UpgradeTypes ==
  /\ stage \in {"closed", "tasks", "open"} /\ waiting \in SUBSET Tasks
  /\ json \in [Tasks -> Shown \cup {Nothing}] /\ row \in [Tasks -> Review \cup {Nothing}]
  /\ asked \in 0..MaxAsked /\ high \in 0..asked
  /\ issued \in SUBSET (Nat \X Nat)

\* Who waits has a review, which an opened database has numbered.
WaitersHold ==
  /\ \A t \in Tasks : row[t] # Nothing => t \in waiting /\ row[t].task = t /\ row[t].seq <= high
  /\ \A t \in waiting :
       /\ row[t] = Nothing => stage = "closed" /\ json[t] # Nothing
       /\ stage # "closed" => row[t].seq > 0
       /\ ReviewOf(t) \in 1..asked
  /\ \A t, u \in waiting : ReviewOf(t) = ReviewOf(u) => t = u

\* The sequences given out go up with the ids, and what has none is later than all.
SequencesHold ==
  /\ \A p \in issued : p[1] \in 1..asked /\ p[2] \in 1..high
  /\ \A p, q \in issued : (p[1] < q[1] => p[2] < q[2]) /\ (p[1] = q[1] => p[2] = q[2])
  /\ \A t \in waiting :
       IF IsNumbered(t) THEN <<row[t].id, row[t].seq>> \in issued
       ELSE high < ReviewOf(t) /\ \A p \in issued : p[1] < ReviewOf(t)

\* The root shows a review of its own only while it waits.
RootHolds ==
  /\ \A t \in Tasks : json[t] # Nothing /\ json[t].task = Root => t = Root /\ Root \in waiting
  /\ RootShowsOldest

ReviewInv == UpgradeTypes /\ WaitersHold /\ SequencesHold /\ RootHolds

\* The messages: none has a sequence before the first upgrade, all have one after it.
MessageType == [id : Nat, to : Tasks, old : BOOLEAN, seq : Nat]
Ended == {"completed", "failed", "running"}
MessageTypes ==
  /\ stage \in {"closed", "tasks", "open"} /\ numbered \in BOOLEAN /\ (stage = "open" => numbered)
  /\ inbox \in SUBSET MessageType /\ IsFiniteSet(inbox) /\ Cardinality(inbox) <= MaxMessages
  /\ state \in [Tasks -> Ended] /\ mark \in [Tasks -> -1..lastWakeup] /\ lastWakeup \in Nat
  /\ lastWakeup <= Cardinality(inbox)
  /\ \A m \in inbox : m.id <= Cardinality(inbox)

FencesHold ==
  IF numbered
  THEN /\ \A m \in inbox :
            /\ m.seq \in 1..lastWakeup
            /\ IF m.old /\ state[m.to] \in Unsuccessful THEN m.seq <= mark[m.to]
               ELSE m.seq > mark[m.to]
       /\ \A m, n \in inbox : m.id < n.id => m.seq < n.seq
       /\ \A t \in Tasks : mark[t] # -1
  ELSE /\ \A m \in inbox : m.seq = 0 /\ m.old
       /\ lastWakeup = 0 /\ \A t \in Tasks : mark[t] = -1

MessageInv == MessageTypes /\ FencesHold

UpgradeInv == ReviewInv /\ MessageInv

-----------------------------------------------------------------------------
(* Numbers and ranks                                                        *)

LEMMA MaxIs ==
  ASSUME NEW S \in SUBSET Nat, NEW x \in S, \A y \in S : y <= x
  PROVE  Max(S) = x
<1>1. x \in S /\ \A y \in S : x >= y
  OBVIOUS
<1>2. Max(S) \in S /\ \A y \in S : Max(S) >= y
  BY <1>1 DEF Max
<1>3. Max(S) >= x /\ x >= Max(S) /\ Max(S) \in Nat /\ x \in Nat
  BY <1>1, <1>2
<1> QED BY <1>3

\* A set of numbers that is not empty has a least one.
LEMMA LeastNumber ==
  ASSUME NEW S \in SUBSET Nat, S # {}
  PROVE  \E m \in S : \A n \in S : m <= n
<1>1. PICK m \in S : \A n \in S : ~(<<n, m>> \in OpToRel(<, Nat))
  BY NatLessThanWellFounded, WFMin, Zenon
<1>2. \A n \in S : ~(n < m)
  BY <1>1 DEF OpToRel
<1> QED BY <1>2

LEMMA OldestIs ==
  ASSUME NEW S \in SUBSET Review, S # {}
  PROVE  Oldest(S) \in S /\ \A q \in S : Oldest(S).id <= q.id
<1> DEFINE Numbers == {q.id : q \in S}
<1>1. Numbers \in SUBSET Nat /\ Numbers # {}
  BY DEF Review
<1>2. PICK least \in Numbers : \A n \in Numbers : least <= n
  <2> HIDE DEF Numbers
  <2> QED BY <1>1, LeastNumber
<1>3. PICK r \in S : least = r.id
  BY <1>2
<1>4. \A q \in S : r.id <= q.id
  BY <1>2, <1>3
<1> QED BY <1>3, <1>4 DEF Oldest

\* The rank of a row among some goes up with its id, and does not pass their number.
LEMMA RankUp ==
  ASSUME NEW S, IsFiniteSet(S), \A x \in S : x.id \in Nat, NEW q \in S
  PROVE  /\ Rank(q, S) \in 1..Cardinality(S)
         /\ \A p \in S : p.id < q.id => Rank(p, S) < Rank(q, S)
<1> DEFINE Upto(p) == {x \in S : x.id <= p.id}
<1>1. \A p \in S : IsFiniteSet(Upto(p)) /\ Cardinality(Upto(p)) \in Nat
  BY FS_Subset, FS_CardinalityType
<1>2. \A p \in S : Rank(p, S) = Cardinality(Upto(p))
  BY DEF Rank
<1>3. Cardinality(Upto(q)) <= Cardinality(S) /\ Cardinality(S) \in Nat
  BY FS_Subset, FS_CardinalityType
<1>4. Cardinality(Upto(q)) # 0
  <2>1. q \in Upto(q)
    OBVIOUS
  <2> HIDE DEF Upto
  <2> QED BY <1>1, <2>1, FS_EmptySet
<1>5. ASSUME NEW p \in S, p.id < q.id PROVE Cardinality(Upto(p)) < Cardinality(Upto(q))
  <2>1. p.id \in Nat /\ q.id \in Nat
    OBVIOUS
  <2>2. q \in Upto(q) /\ q \notin Upto(p)
    BY <1>5, <2>1
  <2>3. Upto(p) \in SUBSET Upto(q)
    BY <1>5, <2>1
  <2> HIDE DEF Upto
  <2>4. /\ Cardinality(Upto(p)) <= Cardinality(Upto(q))
        /\ Cardinality(Upto(p)) # Cardinality(Upto(q))
    BY <1>1, <2>2, <2>3, FS_Subset
  <2> QED BY <1>1, <2>4
<1> HIDE DEF Upto
<1> QED BY <1>1, <1>2, <1>3, <1>4, <1>5

\* Of rows whose ids differ and are above a number, at most as many come up to one.
LEMMA RankBound ==
  ASSUME NEW S, IsFiniteSet(S), NEW low \in Nat, \A x \in S : x.id \in Nat /\ low < x.id,
         \A x, y \in S : x.id = y.id => x = y, NEW q \in S
  PROVE  low + Rank(q, S) <= q.id
<1> DEFINE Upto == {x \in S : x.id <= q.id}
           Numbers == (low + 1)..q.id
           f == [x \in Upto |-> x.id]
<1>1. IsFiniteSet(Upto) /\ Cardinality(Upto) \in Nat
  BY FS_Subset, FS_CardinalityType
<1>2. q.id \in Nat /\ low < q.id /\ low + 1 \in Int /\ q.id \in Int
  OBVIOUS
<1>3. IsFiniteSet(Numbers) /\ Cardinality(Numbers) = q.id - low
  <2>1. IsFiniteSet(Numbers)
    BY <1>2, FS_Interval
  <2>2. \A a, b \in Int : Cardinality(a..b) = IF a > b THEN 0 ELSE b - a + 1
    BY FS_Interval
  <2>3. ~(low + 1 > q.id)
    BY <1>2
  <2>4. Cardinality(Numbers) = IF low + 1 > q.id THEN 0 ELSE q.id - (low + 1) + 1
    BY <1>2, <2>2
  <2> HIDE DEF Numbers
  <2> QED BY <1>2, <2>1, <2>3, <2>4
<1>4. f \in [Upto -> Numbers]
  <2>1. ASSUME NEW x \in Upto PROVE x.id \in Numbers
    BY <1>2
  <2> QED BY <2>1
<1>5. \A x, y \in Upto : x # y => f[x] # f[y]
  OBVIOUS
<1>6. ~(Cardinality(Numbers) < Cardinality(Upto))
  <2> HIDE DEF Upto, Numbers, f
  <2> QED BY <1>1, <1>3, <1>4, <1>5, FS_PigeonHole
<1>7. Rank(q, S) = Cardinality(Upto)
  BY DEF Rank
<1> HIDE DEF Upto, Numbers, f
<1> QED BY <1>1, <1>2, <1>3, <1>6, <1>7

-----------------------------------------------------------------------------
(* Rows of a tree                                                           *)

LEMMA RowsAre ==
  ASSUME UpgradeAssumption, NEW r \in [Tasks -> Review \cup {Nothing}]
  PROVE  /\ RowSet(r) \in SUBSET Review /\ IsFiniteSet(RowSet(r))
         /\ \A q : q \in RowSet(r) <=> \E t \in Tasks : r[t] # Nothing /\ q = r[t]
<1> DEFINE T == {r[t] : t \in Tasks}
           f == [t \in Tasks |-> r[t]]
<1>1. IsFiniteSet(Tasks)
  <2>1. IsFiniteSet({Root})
    BY FS_Singleton
  <2>2. IsFiniteSet(Children \cup {Root})
    BY FS_AddElement DEF UpgradeAssumption
  <2>3. Tasks = Children \cup {Root}
    BY DEF Tasks
  <2> QED BY <2>2, <2>3
<1>2. f \in Surjection(Tasks, T)
  BY DEF Surjection
<1>3. IsFiniteSet(T)
  <2> HIDE DEF f, T
  <2> QED BY <1>1, <1>2, FS_Surjection
<1>4. RowSet(r) = T \ {Nothing}
  BY DEF RowSet
<1>5. IsFiniteSet(RowSet(r))
  <2> HIDE DEF T
  <2>1. RowSet(r) \in SUBSET T
    BY <1>4
  <2> QED BY <1>3, <2>1, FS_Subset
<1>6. RowSet(r) \in SUBSET Review
  BY <1>4
<1> QED BY <1>4, <1>5, <1>6

\* With rows there are, the root shows the oldest one.
LEMMA MirroredIs ==
  ASSUME UpgradeAssumption, NEW j \in [Tasks -> Shown \cup {Nothing}],
         NEW r \in [Tasks -> Review \cup {Nothing}], RowSet(r) # {},
         \A t \in Tasks : r[t] # Nothing => r[t].task = t
  PROVE  \E u \in Tasks :
           /\ r[u] # Nothing /\ Oldest(RowSet(r)) = r[u]
           /\ [id |-> r[u].id, task |-> u] \in Shown
           /\ Mirrored(j, r) = [j EXCEPT ![Root] = [id |-> r[u].id, task |-> u]]
<1>1. Oldest(RowSet(r)) \in RowSet(r)
  BY RowsAre, OldestIs
<1>2. PICK u \in Tasks : r[u] # Nothing /\ Oldest(RowSet(r)) = r[u]
  BY <1>1, RowsAre
<1>3. r[u].task = u /\ r[u].id \in Nat
  BY <1>2 DEF Review
<1>4. Mirrored(j, r) = [j EXCEPT ![Root] = [id |-> r[u].id, task |-> u]]
  BY <1>2, <1>3 DEF Mirrored
<1> QED BY <1>2, <1>3, <1>4 DEF Shown

\* That record is none of the absent ones.
LEMMA Present ==
  ASSUME UpgradeAssumption
  PROVE  /\ \A i \in Nat, t \in Tasks, n \in Nat :
              [id |-> i, task |-> t, seq |-> n] \in Review /\ [id |-> i, task |-> t, seq |-> n] # Nothing
         /\ \A i \in Nat, t \in Tasks : [id |-> i, task |-> t] \in Shown /\ [id |-> i, task |-> t] # Nothing
         /\ Root \in Tasks
BY DEF UpgradeAssumption, Review, Shown, Tasks

\* What the root shows is one of its own only if that waits, whatever it showed before.
LEMMA RootFollows ==
  ASSUME UpgradeAssumption, NEW W, NEW j \in [Tasks -> Shown \cup {Nothing}],
         NEW r \in [Tasks -> Review \cup {Nothing}], RowSet(r) # {},
         \A t \in Tasks : r[t] # Nothing => t \in W /\ r[t].task = t,
         \A t \in Tasks : j[t] # Nothing /\ j[t].task = Root => t = Root
  PROVE  /\ Mirrored(j, r) \in [Tasks -> Shown \cup {Nothing}]
         /\ Mirrored(j, r)[Root].id = Oldest(RowSet(r)).id
         /\ \A t \in Tasks \ {Root} : Mirrored(j, r)[t] = j[t]
         /\ Mirrored(j, r)[Root] # Nothing
         /\ \A t \in Tasks : Mirrored(j, r)[t] # Nothing /\ Mirrored(j, r)[t].task = Root
              => t = Root /\ Root \in W
<1>1. PICK u \in Tasks :
        /\ r[u] # Nothing /\ Oldest(RowSet(r)) = r[u]
        /\ [id |-> r[u].id, task |-> u] \in Shown
        /\ Mirrored(j, r) = [j EXCEPT ![Root] = [id |-> r[u].id, task |-> u]]
  <2>1. \A t \in Tasks : r[t] # Nothing => r[t].task = t
    OBVIOUS
  <2> QED BY <2>1, MirroredIs
<1>2. [id |-> r[u].id, task |-> u] # Nothing /\ Root \in Tasks
  BY <1>1 DEF UpgradeAssumption, Tasks
<1>3. /\ Mirrored(j, r) \in [Tasks -> Shown \cup {Nothing}]
      /\ Mirrored(j, r)[Root] = [id |-> r[u].id, task |-> u]
      /\ \A t \in Tasks \ {Root} : Mirrored(j, r)[t] = j[t]
  BY <1>1, <1>2
<1>4. u \in W
  BY <1>1
<1> QED BY <1>1, <1>2, <1>3, <1>4

\* The oldest of rows with the same ids have the same id.
LEMMA OldestAlike ==
  ASSUME NEW A \in SUBSET Review, NEW B \in SUBSET Review, A # {},
         \A p \in A : \E q \in B : p.id = q.id, \A q \in B : \E p \in A : p.id = q.id
  PROVE  Oldest(A).id = Oldest(B).id
<1>1. B # {}
  OBVIOUS
<1>2. Oldest(A) \in A /\ \A q \in A : Oldest(A).id <= q.id
  BY OldestIs
<1>3. Oldest(B) \in B /\ \A q \in B : Oldest(B).id <= q.id
  BY <1>1, OldestIs
<1>4. PICK p \in A : p.id = Oldest(B).id
  BY <1>3
<1>5. PICK q \in B : q.id = Oldest(A).id
  BY <1>2
<1>6. Oldest(A).id <= Oldest(B).id /\ Oldest(B).id <= Oldest(A).id
  BY <1>2, <1>3, <1>4, <1>5
<1>7. Oldest(A).id \in Nat /\ Oldest(B).id \in Nat
  BY <1>2, <1>3 DEF Review
<1> QED BY <1>6, <1>7

\* In an opened database every review that waits has a row with a sequence.
LEMMA AllNumbered ==
  ASSUME ReviewInv, stage # "closed"
  PROVE  \A t \in waiting :
           /\ t \in Tasks /\ row[t] # Nothing /\ row[t] \in Review /\ row[t].task = t
           /\ row[t].seq \in 1..high /\ row[t].id \in 1..asked
           /\ <<row[t].id, row[t].seq>> \in issued
<1>1. ASSUME NEW t \in waiting
      PROVE  t \in Tasks /\ row[t] # Nothing /\ row[t].task = t /\ row[t].seq > 0 /\ row[t].seq <= high
  BY <1>1 DEF ReviewInv, UpgradeTypes, WaitersHold
<1>2. ASSUME NEW t \in waiting
      PROVE  row[t] \in Review /\ row[t].id \in 1..asked /\ <<row[t].id, row[t].seq>> \in issued
  BY <1>1 DEF ReviewInv, UpgradeTypes, WaitersHold, SequencesHold, ReviewOf, IsNumbered
<1>3. high \in Int
  BY DEF ReviewInv, UpgradeTypes
<1>4. ASSUME NEW t \in waiting PROVE row[t].seq \in Nat
  BY <1>2 DEF Review
<1> QED BY <1>1, <1>2, <1>3, <1>4

-----------------------------------------------------------------------------
(* One step of the reviews each                                             *)

LEMMA AskHolds ==
  ASSUME UpgradeAssumption, ReviewInv, NEW t \in Tasks, Ask(t)
  PROVE  ReviewInv'
<1> DEFINE new == [id |-> asked + 1, task |-> t, seq |-> high + 1]
           r == [row EXCEPT ![t] = new]
           shown == [id |-> asked + 1, task |-> t]
           j == [json EXCEPT ![t] = shown]
<1>1. /\ stage = "open" /\ stage' = stage /\ t \notin waiting /\ asked < MaxAsked
      /\ waiting' = waiting \cup {t} /\ row' = r /\ json' = Mirrored(j, r)
      /\ high' = high + 1 /\ asked' = asked + 1 /\ issued' = issued \cup {<<asked + 1, high + 1>>}
  BY DEF Ask
<1>2. asked \in Nat /\ high \in Nat /\ high <= asked /\ MaxAsked \in Nat /\ Root \in Tasks
  BY Present DEF ReviewInv, UpgradeTypes, UpgradeAssumption
<1>3. new \in Review /\ new # Nothing /\ shown \in Shown /\ shown # Nothing
  BY <1>2, Present
<1>4. /\ r \in [Tasks -> Review \cup {Nothing}] /\ r[t] = new
      /\ \A s \in Tasks \ {t} : r[s] = row[s]
  BY <1>3 DEF ReviewInv, UpgradeTypes
<1>5. /\ j \in [Tasks -> Shown \cup {Nothing}] /\ j[t] = shown
      /\ \A s \in Tasks \ {t} : j[s] = json[s]
  BY <1>3 DEF ReviewInv, UpgradeTypes
<1>6. \A s \in waiting :
           /\ s \in Tasks /\ row[s] # Nothing /\ row[s] \in Review /\ row[s].task = s
           /\ row[s].seq \in 1..high /\ row[s].id \in 1..asked
           /\ <<row[s].id, row[s].seq>> \in issued
  BY <1>1, AllNumbered
<1>7. \A s \in waiting' :
           /\ s \in Tasks /\ row'[s] # Nothing /\ row'[s].task = s
           /\ row'[s].seq \in 1..high' /\ row'[s].id \in 1..asked'
           /\ <<row'[s].id, row'[s].seq>> \in issued'
           /\ row'[s].id = IF s = t THEN asked + 1 ELSE row[s].id
  <2>1. CASE t \in waiting'
    <3>1. /\ row'[t] # Nothing /\ row'[t].task = t
          /\ row'[t].seq = high + 1 /\ row'[t].id = asked + 1
      BY <1>1, <1>3, <1>4
    <3>2. ASSUME NEW s \in waiting PROVE s # t /\ row'[s] = row[s] /\ s \in Tasks
      BY <1>1, <1>4, <1>6
    <3> HIDE DEF r, j, new, shown
    <3> QED BY <1>1, <1>2, <1>6, <3>1, <3>2
  <2> QED BY <1>1, <2>1
<1>7a. \A s \in waiting' : row'[s].seq > 0 /\ row'[s].seq <= high'
  <2>1. high' \in Nat
    BY <1>1, <1>2
  <2>2. \A s \in waiting' : row'[s].seq \in 1..high'
    BY <1>7
  <2> QED BY <2>1, <2>2
<1>8. \A s \in Tasks : row'[s] # Nothing => s \in waiting'
  BY <1>1, <1>4 DEF ReviewInv, WaitersHold
<1> HIDE DEF r, j, new, shown
<1>9. RowSet(r) # {}
  BY <1>3, <1>4, RowsAre
<1>10. \A s \in Tasks : j[s] # Nothing /\ j[s].task = Root => s = Root
  <2>1. j[t].task = t
    BY <1>5 DEF shown
  <2> QED BY <1>5, <2>1 DEF ReviewInv, RootHolds
<1>11. \A s \in Tasks : r[s] # Nothing => s \in waiting' /\ r[s].task = s
  BY <1>1, <1>7, <1>8
<1>12. /\ json' \in [Tasks -> Shown \cup {Nothing}]
       /\ json'[Root].id = Oldest(RowSet(r)).id
       /\ \A s \in Tasks : json'[s] # Nothing /\ json'[s].task = Root => s = Root /\ Root \in waiting'
  <2>1. /\ Mirrored(j, r) \in [Tasks -> Shown \cup {Nothing}]
        /\ Mirrored(j, r)[Root].id = Oldest(RowSet(r)).id
        /\ \A s \in Tasks : Mirrored(j, r)[s] # Nothing /\ Mirrored(j, r)[s].task = Root
              => s = Root /\ Root \in waiting'
    BY <1>4, <1>5, <1>9, <1>10, <1>11, RootFollows
  <2> QED BY <1>1, <2>1
<1>13. UpgradeTypes'
  <2>1. issued' \in SUBSET (Nat \X Nat)
    BY <1>1, <1>2 DEF ReviewInv, UpgradeTypes
  <2>2. stage' \in {"closed", "tasks", "open"} /\ waiting' \in SUBSET Tasks
    BY <1>1 DEF ReviewInv, UpgradeTypes
  <2>3. asked' \in 0..MaxAsked /\ high' \in 0..asked'
    BY <1>1, <1>2
  <2> QED BY <1>1, <1>4, <1>12, <2>1, <2>2, <2>3 DEF UpgradeTypes
<1>14. WaitersHold'
  <2>1. \A s, u \in waiting : ReviewOf(s) = ReviewOf(u) => s = u
    BY DEF ReviewInv, WaitersHold
  <2>2. \A s, u \in waiting : row[s].id = row[u].id => s = u
    BY <1>6, <2>1 DEF ReviewOf
  <2>3. \A s, u \in waiting' : row'[s].id = row'[u].id => s = u
    <3>1. \A s \in waiting' : s = t \/ s \in waiting
      BY <1>1
    <3>2. \A s \in waiting : row'[s].id \in 1..asked /\ row'[s].id = row[s].id
      BY <1>1, <1>6, <1>7
    <3>3. t \in waiting' => row'[t].id = asked + 1
      BY <1>7
    <3> QED BY <1>2, <2>2, <3>1, <3>2, <3>3
  <2>4. \A s \in waiting' : ReviewOf(s)' = row'[s].id
    BY <1>7 DEF ReviewOf
  <2>5. \A s \in Tasks : row'[s] # Nothing => s \in waiting' /\ row'[s].task = s /\ row'[s].seq <= high'
    BY <1>7, <1>7a, <1>8
  <2>6. \A s \in waiting' :
         /\ row'[s] = Nothing => stage' = "closed" /\ json'[s] # Nothing
         /\ stage' # "closed" => row'[s].seq > 0
         /\ ReviewOf(s)' \in 1..asked'
    BY <1>7, <1>7a, <2>4
  <2>7. \A s, u \in waiting' : ReviewOf(s)' = ReviewOf(u)' => s = u
    BY <2>3, <2>4
  <2> QED BY <2>5, <2>6, <2>7 DEF WaitersHold
<1>15. SequencesHold'
  <2>1. \A p \in issued : p[1] \in 1..asked /\ p[2] \in 1..high
    BY DEF ReviewInv, SequencesHold
  <2>2. \A p \in issued' : p[1] \in 1..asked' /\ p[2] \in 1..high'
    BY <1>1, <1>2, <2>1
  <2>3. \A p, q \in issued : (p[1] < q[1] => p[2] < q[2]) /\ (p[1] = q[1] => p[2] = q[2])
    BY DEF ReviewInv, SequencesHold
  <2>4. \A p, q \in issued' : (p[1] < q[1] => p[2] < q[2]) /\ (p[1] = q[1] => p[2] = q[2])
    BY <1>1, <1>2, <2>1, <2>3
  <2>5. \A s \in waiting' : IsNumbered(s)' /\ <<row'[s].id, row'[s].seq>> \in issued'
    BY <1>7, <1>7a DEF IsNumbered
  <2> QED BY <2>2, <2>4, <2>5 DEF SequencesHold
<1>16. RootHolds'
  <2>1. RootShowsOldest'
    BY <1>1, <1>9, <1>12 DEF RootShowsOldest
  <2> QED BY <1>12, <2>1 DEF RootHolds
<1> QED BY <1>13, <1>14, <1>15, <1>16 DEF ReviewInv

LEMMA DecideHolds ==
  ASSUME UpgradeAssumption, ReviewInv, NEW t \in Tasks, Decide(t)
  PROVE  ReviewInv'
<1> DEFINE r == [row EXCEPT ![t] = Nothing]
           j == [json EXCEPT ![t] = Nothing]
<1>1. /\ stage = "open" /\ stage' = stage /\ t \in waiting /\ waiting' = waiting \ {t} /\ row' = r
      /\ json' = IF RowSet(r) = {} THEN [j EXCEPT ![Root] = Nothing] ELSE Mirrored(j, r)
      /\ high' = high /\ asked' = asked /\ issued' = issued
  BY DEF Decide
<1>2. /\ r \in [Tasks -> Review \cup {Nothing}] /\ r[t] = Nothing
      /\ \A s \in Tasks \ {t} : r[s] = row[s]
  BY DEF ReviewInv, UpgradeTypes
<1>3. /\ j \in [Tasks -> Shown \cup {Nothing}] /\ j[t] = Nothing
      /\ \A s \in Tasks \ {t} : j[s] = json[s]
  BY DEF ReviewInv, UpgradeTypes
<1>4. \A s \in waiting :
           /\ s \in Tasks /\ row[s] # Nothing /\ row[s] \in Review /\ row[s].task = s
           /\ row[s].seq \in 1..high /\ row[s].id \in 1..asked
           /\ <<row[s].id, row[s].seq>> \in issued
  BY <1>1, AllNumbered
<1> HIDE DEF r, j
<1>5. \A s \in waiting' : s \in waiting /\ row'[s] = row[s]
  BY <1>1, <1>2, <1>4
<1>6. \A s \in Tasks : row'[s] # Nothing => s \in waiting'
  <2>1. \A s \in Tasks : row[s] # Nothing => s \in waiting
    BY DEF ReviewInv, WaitersHold
  <2> QED BY <1>1, <1>2, <2>1
<1>7. \A s \in Tasks : r[s] # Nothing => s \in waiting' /\ r[s].task = s
  BY <1>1, <1>4, <1>5, <1>6
<1>8. \A s \in Tasks : j[s] # Nothing /\ j[s].task = Root => s = Root
  BY <1>3 DEF ReviewInv, RootHolds
<1>9. /\ json' \in [Tasks -> Shown \cup {Nothing}]
      /\ IF RowSet(r) = {} THEN json'[Root] = Nothing ELSE json'[Root].id = Oldest(RowSet(r)).id
      /\ \A s \in Tasks : json'[s] # Nothing /\ json'[s].task = Root => s = Root /\ Root \in waiting'
  <2>1. CASE RowSet(r) = {}
    <3>1. json' = [j EXCEPT ![Root] = Nothing]
      BY <1>1, <2>1
    <3>2. json' \in [Tasks -> Shown \cup {Nothing}] /\ json'[Root] = Nothing
      BY <1>3, <3>1, Present
    <3>3. \A s \in Tasks : s # Root => json'[s] = j[s]
      BY <1>3, <3>1
    <3> QED BY <1>8, <2>1, <3>2, <3>3
  <2>2. CASE RowSet(r) # {}
    <3>1. /\ Mirrored(j, r) \in [Tasks -> Shown \cup {Nothing}]
          /\ Mirrored(j, r)[Root].id = Oldest(RowSet(r)).id
          /\ \A s \in Tasks : Mirrored(j, r)[s] # Nothing /\ Mirrored(j, r)[s].task = Root
                => s = Root /\ Root \in waiting'
      <4>1. j \in [Tasks -> Shown \cup {Nothing}] /\ r \in [Tasks -> Review \cup {Nothing}]
        BY <1>2, <1>3
      <4> QED BY <1>7, <1>8, <2>2, <4>1, RootFollows
    <3> QED BY <1>1, <2>2, <3>1
  <2> QED BY <2>1, <2>2
<1>10. UpgradeTypes'
  BY <1>1, <1>2, <1>9 DEF ReviewInv, UpgradeTypes
<1>11. \A s \in waiting : row[s].seq > 0 /\ row[s].seq <= high
  <2>1. high \in Int
    BY DEF ReviewInv, UpgradeTypes
  <2>2. \A s \in waiting : row[s].seq \in 1..high
    BY <1>4
  <2> QED BY <2>1, <2>2
<1>12. WaitersHold'
  <2>1. \A s, u \in waiting : row[s].id = row[u].id => s = u
    BY <1>4 DEF ReviewInv, WaitersHold, ReviewOf
  <2>2. \A s \in waiting' : ReviewOf(s)' = row[s].id
    BY <1>4, <1>5 DEF ReviewOf
  <2>3. \A s \in Tasks : row'[s] # Nothing => s \in waiting' /\ row'[s].task = s /\ row'[s].seq <= high'
    BY <1>1, <1>4, <1>5, <1>6, <1>11
  <2>4. \A s \in waiting' :
         /\ row'[s] = Nothing => stage' = "closed" /\ json'[s] # Nothing
         /\ stage' # "closed" => row'[s].seq > 0
         /\ ReviewOf(s)' \in 1..asked'
    BY <1>1, <1>4, <1>5, <1>11, <2>2
  <2>5. \A s, u \in waiting' : ReviewOf(s)' = ReviewOf(u)' => s = u
    BY <1>5, <2>1, <2>2
  <2> QED BY <2>3, <2>4, <2>5 DEF WaitersHold
<1>13. SequencesHold'
  <2>1. \A s \in waiting' : IsNumbered(s)' /\ <<row'[s].id, row'[s].seq>> \in issued'
    BY <1>1, <1>4, <1>5, <1>11 DEF IsNumbered
  <2> QED BY <1>1, <2>1 DEF ReviewInv, SequencesHold
<1>14. RootHolds'
  <2>1. RootShowsOldest'
    BY <1>1, <1>9 DEF RootShowsOldest
  <2> QED BY <1>9, <2>1 DEF RootHolds
<1> QED BY <1>10, <1>12, <1>13, <1>14 DEF ReviewInv

\* An old release asks: what it leaves without a sequence is later than all that have one.
LEMMA OldAskHolds ==
  ASSUME UpgradeAssumption, ReviewInv, NEW t \in Tasks, NEW table \in BOOLEAN, OldAsk(t, table)
  PROVE  ReviewInv'
<1> DEFINE new == [id |-> asked + 1, task |-> t, seq |-> 0]
           shown == [id |-> asked + 1, task |-> t]
<1>1. /\ stage = "closed" /\ stage' = stage /\ t \notin waiting /\ asked < MaxAsked
      /\ waiting' = waiting \cup {t}
      /\ row' = IF table THEN [row EXCEPT ![t] = new] ELSE row
      /\ json' = [json EXCEPT ![t] = shown]
      /\ high' = high /\ asked' = asked + 1 /\ issued' = issued
  BY DEF OldAsk
<1>2. asked \in Nat /\ high \in Nat /\ high <= asked /\ MaxAsked \in Nat
  BY DEF ReviewInv, UpgradeTypes, UpgradeAssumption
<1>3. new \in Review /\ new # Nothing /\ shown \in Shown /\ shown # Nothing
  BY <1>2, Present
<1>4. row[t] = Nothing /\ \A s \in Tasks : row[s] # Nothing => s \in waiting
  BY <1>1 DEF ReviewInv, WaitersHold
<1>5. /\ row' \in [Tasks -> Review \cup {Nothing}] /\ row'[t] \in {new, Nothing}
      /\ \A s \in Tasks \ {t} : row'[s] = row[s]
  BY <1>1, <1>3, <1>4 DEF ReviewInv, UpgradeTypes
<1>6. /\ json' \in [Tasks -> Shown \cup {Nothing}] /\ json'[t] = shown
      /\ \A s \in Tasks \ {t} : json'[s] = json[s]
  BY <1>1, <1>3 DEF ReviewInv, UpgradeTypes
<1>7. new.id = asked + 1 /\ new.task = t /\ new.seq = 0 /\ shown.id = asked + 1 /\ shown.task = t
  OBVIOUS
<1> HIDE DEF new, shown
<1>8. UpgradeTypes'
  <2>1. asked' \in 0..MaxAsked /\ high' \in 0..asked'
    BY <1>1, <1>2
  <2>2. /\ stage' \in {"closed", "tasks", "open"} /\ waiting' \in SUBSET Tasks
        /\ issued' \in SUBSET (Nat \X Nat)
    BY <1>1 DEF ReviewInv, UpgradeTypes
  <2> QED BY <1>5, <1>6, <2>1, <2>2 DEF UpgradeTypes
<1>9. ReviewOf(t)' = asked + 1 /\ ~IsNumbered(t)'
  BY <1>2, <1>3, <1>5, <1>6, <1>7 DEF ReviewOf, IsNumbered
<1>10. \A s \in waiting :
         /\ s \in Tasks /\ s # t /\ row'[s] = row[s] /\ json'[s] = json[s]
         /\ ReviewOf(s)' = ReviewOf(s) /\ ReviewOf(s) \in 1..asked /\ IsNumbered(s)' = IsNumbered(s)
  <2>1. \A s \in waiting : s \in Tasks /\ s # t /\ ReviewOf(s) \in 1..asked
    BY <1>1 DEF ReviewInv, UpgradeTypes, WaitersHold
  <2> QED BY <1>5, <1>6, <2>1 DEF ReviewOf, IsNumbered
<1>11. WaitersHold'
  <2>1. \A s \in Tasks : row'[s] # Nothing => s \in waiting' /\ row'[s].task = s /\ row'[s].seq <= high'
    <3>1. \A s \in Tasks : row[s] # Nothing => row[s].task = s /\ row[s].seq <= high
      BY DEF ReviewInv, WaitersHold
    <3>2. new.seq <= high
      BY <1>2, <1>7
    <3> QED BY <1>1, <1>4, <1>5, <1>7, <3>1, <3>2
  <2>2. \A s \in waiting' : (row'[s] = Nothing => json'[s] # Nothing) /\ ReviewOf(s)' \in 1..asked'
    <3>1. \A s \in waiting : row[s] = Nothing => json[s] # Nothing
      BY DEF ReviewInv, WaitersHold
    <3>2. \A s \in waiting : ReviewOf(s)' \in 1..asked'
      BY <1>1, <1>2, <1>10
    <3>3. asked + 1 \in 1..asked'
      BY <1>1, <1>2
    <3>4. json'[t] # Nothing
      BY <1>3, <1>6
    <3> QED BY <1>1, <1>9, <1>10, <3>1, <3>2, <3>3, <3>4
  <2>3. \A s, u \in waiting' : ReviewOf(s)' = ReviewOf(u)' => s = u
    <3>1. \A s, u \in waiting : ReviewOf(s)' = ReviewOf(u)' => s = u
      BY <1>10 DEF ReviewInv, WaitersHold
    <3>2. \A s \in waiting : ReviewOf(s)' # ReviewOf(t)'
      BY <1>2, <1>9, <1>10
    <3> QED BY <1>1, <3>1, <3>2
  <2> QED BY <1>1, <2>1, <2>2, <2>3 DEF WaitersHold
<1>12. SequencesHold'
  <2>1. \A p \in issued : p[1] \in 1..asked /\ p[2] \in 1..high
    BY DEF ReviewInv, SequencesHold
  <2>2. \A p \in issued' : p[1] \in 1..asked' /\ p[2] \in 1..high'
    BY <1>1, <1>2, <2>1
  <2>3. high' < ReviewOf(t)' /\ \A p \in issued' : p[1] < ReviewOf(t)'
    BY <1>1, <1>2, <1>9, <2>1
  <2>4. \A s \in waiting' :
          IF IsNumbered(s)' THEN <<row'[s].id, row'[s].seq>> \in issued'
          ELSE high' < ReviewOf(s)' /\ \A p \in issued' : p[1] < ReviewOf(s)'
    <3>1. \A s \in waiting :
            IF IsNumbered(s) THEN <<row[s].id, row[s].seq>> \in issued
            ELSE high < ReviewOf(s) /\ \A p \in issued : p[1] < ReviewOf(s)
      BY DEF ReviewInv, SequencesHold
    <3>2. ASSUME NEW s \in waiting
          PROVE  IF IsNumbered(s)' THEN <<row'[s].id, row'[s].seq>> \in issued'
                 ELSE high' < ReviewOf(s)' /\ \A p \in issued' : p[1] < ReviewOf(s)'
      BY <1>1, <1>10, <3>1
    <3> QED BY <1>1, <1>9, <2>3, <3>2
  <2>5. \A p, q \in issued' : (p[1] < q[1] => p[2] < q[2]) /\ (p[1] = q[1] => p[2] = q[2])
    BY <1>1 DEF ReviewInv, SequencesHold
  <2> QED BY <2>2, <2>4, <2>5 DEF SequencesHold
<1>13. RootHolds'
  <2>1. \A s \in Tasks : json'[s] # Nothing /\ json'[s].task = Root => s = Root /\ Root \in waiting'
    BY <1>1, <1>6, <1>7 DEF ReviewInv, RootHolds
  <2>2. RootShowsOldest'
    BY <1>1 DEF RootShowsOldest
  <2> QED BY <2>1, <2>2 DEF RootHolds
<1> QED BY <1>8, <1>11, <1>12, <1>13 DEF ReviewInv

LEMMA OldViewHolds ==
  ASSUME UpgradeAssumption, ReviewInv, NEW t \in Tasks, OldView(t)
  PROVE  ReviewInv'
<1>1. /\ stage = "closed" /\ stage' = stage /\ t \in waiting \ {Root} /\ Root \notin waiting
      /\ waiting' = waiting /\ row' = row /\ json' = [json EXCEPT ![Root] = json[t]]
      /\ high' = high /\ asked' = asked /\ issued' = issued
  BY DEF OldView
<1>2. /\ json' \in [Tasks -> Shown \cup {Nothing}] /\ json'[Root] = json[t]
      /\ \A s \in Tasks \ {Root} : json'[s] = json[s]
  BY <1>1, Present DEF ReviewInv, UpgradeTypes
<1>3. UpgradeTypes'
  BY <1>1, <1>2 DEF ReviewInv, UpgradeTypes
<1>4. \A s \in waiting : /\ s \in Tasks /\ json'[s] = json[s] /\ ReviewOf(s)' = ReviewOf(s)
                         /\ IsNumbered(s)' = IsNumbered(s)
  <2>1. \A s \in waiting : s \in Tasks \ {Root}
    BY <1>1 DEF ReviewInv, UpgradeTypes
  <2> QED BY <1>1, <1>2, <2>1 DEF ReviewOf, IsNumbered
<1>5. WaitersHold'
  BY <1>1, <1>4 DEF ReviewInv, WaitersHold
<1>6. SequencesHold'
  BY <1>1, <1>4 DEF ReviewInv, SequencesHold
<1>7. RootHolds'
  <2>1. \A s \in Tasks : json'[s] # Nothing /\ json'[s].task = Root => s = Root /\ Root \in waiting'
    BY <1>1, <1>2 DEF ReviewInv, RootHolds
  <2>2. RootShowsOldest'
    BY <1>1 DEF RootShowsOldest
  <2> QED BY <2>1, <2>2 DEF RootHolds
<1> QED BY <1>3, <1>5, <1>6, <1>7 DEF ReviewInv

LEMMA OldDecideHolds ==
  ASSUME UpgradeAssumption, ReviewInv, NEW t \in Tasks, OldDecide(t)
  PROVE  ReviewInv'
<1>1. /\ stage = "closed" /\ stage' = stage /\ waiting' = waiting \ {t}
      /\ row' = [row EXCEPT ![t] = Nothing] /\ json' = [json EXCEPT ![t] = Nothing]
      /\ high' = high /\ asked' = asked /\ issued' = issued
  BY DEF OldDecide
<1>2. /\ json' \in [Tasks -> Shown \cup {Nothing}] /\ json'[t] = Nothing
      /\ row' \in [Tasks -> Review \cup {Nothing}] /\ row'[t] = Nothing
      /\ \A s \in Tasks \ {t} : json'[s] = json[s] /\ row'[s] = row[s]
  BY <1>1 DEF ReviewInv, UpgradeTypes
<1>3. UpgradeTypes'
  BY <1>1, <1>2 DEF ReviewInv, UpgradeTypes
<1>4. \A s \in waiting' : /\ s \in waiting /\ s \in Tasks /\ json'[s] = json[s] /\ row'[s] = row[s]
                          /\ ReviewOf(s)' = ReviewOf(s) /\ IsNumbered(s)' = IsNumbered(s)
  <2>1. \A s \in waiting' : s \in waiting /\ s \in Tasks \ {t}
    BY <1>1 DEF ReviewInv, UpgradeTypes
  <2> QED BY <1>1, <1>2, <2>1 DEF ReviewOf, IsNumbered
<1>5. WaitersHold'
  <2>1. \A s \in Tasks : row'[s] # Nothing => s \in waiting' /\ row'[s].task = s /\ row'[s].seq <= high'
    BY <1>1, <1>2 DEF ReviewInv, WaitersHold
  <2> QED BY <1>1, <1>4, <2>1 DEF ReviewInv, WaitersHold
<1>6. SequencesHold'
  BY <1>1, <1>4 DEF ReviewInv, SequencesHold
<1>7. RootHolds'
  <2>1. \A s \in Tasks : json'[s] # Nothing /\ json'[s].task = Root => s = Root /\ Root \in waiting'
    BY <1>1, <1>2 DEF ReviewInv, RootHolds
  <2>2. RootShowsOldest'
    BY <1>1 DEF RootShowsOldest
  <2> QED BY <2>1, <2>2 DEF RootHolds
<1> QED BY <1>3, <1>5, <1>6, <1>7 DEF ReviewInv

\* Every review that waits gets a row: what the Task row shows is that of no other.
LEMMA BackfilledIs ==
  ASSUME UpgradeAssumption, ReviewInv, stage = "closed"
  PROVE  /\ Backfilled \in [Tasks -> Review \cup {Nothing}]
         /\ \A t \in Tasks : Backfilled[t] # Nothing <=> t \in waiting
         /\ \A t \in waiting :
              /\ Backfilled[t] \in Review /\ Backfilled[t].id = ReviewOf(t)
              /\ Backfilled[t].task = t
              /\ IF IsNumbered(t) THEN Backfilled[t] = row[t] ELSE Backfilled[t].seq = 0
<1>1. /\ row \in [Tasks -> Review \cup {Nothing}] /\ json \in [Tasks -> Shown \cup {Nothing}]
      /\ waiting \in SUBSET Tasks
  BY DEF ReviewInv, UpgradeTypes
<1>2. \A t \in Tasks : row[t] # Nothing => t \in waiting /\ row[t].task = t
  BY DEF ReviewInv, WaitersHold
<1>3. ASSUME NEW t \in waiting, row[t] = Nothing
      PROVE  json[t] # Nothing /\ \A r \in RowSet(row) : r.id # json[t].id
  <2>1. json[t] # Nothing
    BY <1>3 DEF ReviewInv, WaitersHold
  <2>2. ASSUME NEW r \in RowSet(row), r.id = json[t].id PROVE FALSE
    <3>1. PICK u \in Tasks : row[u] # Nothing /\ r = row[u]
      BY <1>1, RowsAre
    <3>2. u \in waiting /\ ReviewOf(u) = row[u].id /\ ReviewOf(t) = json[t].id
      BY <1>2, <1>3, <3>1 DEF ReviewOf
    <3>3. u = t
      BY <2>2, <3>1, <3>2 DEF ReviewInv, WaitersHold
    <3> QED BY <1>3, <3>1, <3>3
  <2> QED BY <2>1, <2>2
<1>4. ASSUME NEW t \in waiting, row[t] = Nothing
      PROVE  /\ Backfilled[t] = [id |-> json[t].id, task |-> t, seq |-> 0]
             /\ Backfilled[t] \in Review /\ Backfilled[t] # Nothing
             /\ ReviewOf(t) = json[t].id /\ ~IsNumbered(t)
  <2>1. t \in Tasks /\ json[t] \in Shown
    BY <1>1, <1>3, <1>4
  <2>2. Backfilled[t] = [id |-> json[t].id, task |-> t, seq |-> 0]
    BY <1>3, <1>4, <2>1 DEF Backfilled
  <2>3. json[t].id \in Nat
    BY <2>1 DEF Shown
  <2> QED BY <1>4, <2>1, <2>2, <2>3, Present DEF ReviewOf, IsNumbered
<1>5. ASSUME NEW t \in Tasks, t \in waiting => row[t] # Nothing
      PROVE  Backfilled[t] = row[t]
  BY <1>5 DEF Backfilled
<1>6. \A t \in waiting : row[t] # Nothing =>
        /\ row[t] \in Review /\ row[t].seq \in Nat
        /\ ReviewOf(t) = row[t].id /\ (~IsNumbered(t) => row[t].seq = 0)
  BY <1>1 DEF ReviewOf, IsNumbered, Review
<1>7. Backfilled = [t \in Tasks |-> Backfilled[t]]
  BY DEF Backfilled
<1>8. ASSUME NEW t \in waiting
      PROVE  /\ Backfilled[t] # Nothing
             /\ Backfilled[t] \in Review /\ Backfilled[t].id = ReviewOf(t)
             /\ Backfilled[t].task = t
             /\ IF IsNumbered(t) THEN Backfilled[t] = row[t] ELSE Backfilled[t].seq = 0
  <2>1. CASE row[t] = Nothing
    <3>1. /\ Backfilled[t] = [id |-> json[t].id, task |-> t, seq |-> 0]
          /\ Backfilled[t] \in Review /\ Backfilled[t] # Nothing
          /\ ReviewOf(t) = json[t].id /\ ~IsNumbered(t)
      BY <1>4, <2>1
    <3>2. /\ Backfilled[t].id = json[t].id /\ Backfilled[t].task = t /\ Backfilled[t].seq = 0
      BY <3>1
    <3> QED BY <3>1, <3>2
  <2>2. CASE row[t] # Nothing
    BY <1>1, <1>2, <1>5, <1>6, <2>2
  <2> QED BY <2>1, <2>2
<1>9. ASSUME NEW t \in Tasks, t \notin waiting PROVE Backfilled[t] = Nothing
  BY <1>2, <1>5, <1>9
<1>10. Backfilled \in [Tasks -> Review \cup {Nothing}]
  BY <1>7, <1>8, <1>9
<1> QED BY <1>1, <1>8, <1>9, <1>10

\* The numbering keeps what has a number, and gives the others numbers in the order of
\* their ids, above all that were in use and none above its id.
LEMMA NumberedIs ==
  ASSUME UpgradeAssumption, ReviewInv, stage = "closed"
  PROVE  LET N == NumberedRows(Backfilled) IN
         /\ N \in [Tasks -> Review \cup {Nothing}]
         /\ \A t \in Tasks : N[t] # Nothing <=> t \in waiting
         /\ \A t \in waiting :
              /\ N[t] \in Review /\ N[t].id = ReviewOf(t) /\ N[t].task = t
              /\ IF IsNumbered(t) THEN N[t] = row[t] ELSE N[t].seq \in (high + 1)..ReviewOf(t)
         /\ \A t, u \in waiting :
              ~IsNumbered(t) /\ ~IsNumbered(u) /\ ReviewOf(t) < ReviewOf(u) => N[t].seq < N[u].seq
<1> DEFINE B == Backfilled
           U == Unnumbered(B)
           N == NumberedRows(B)
<1>1. /\ B \in [Tasks -> Review \cup {Nothing}]
      /\ \A t \in Tasks : B[t] # Nothing <=> t \in waiting
      /\ \A t \in waiting :
           /\ B[t] \in Review /\ B[t].id = ReviewOf(t) /\ B[t].task = t
           /\ IF IsNumbered(t) THEN B[t] = row[t] ELSE B[t].seq = 0
  BY BackfilledIs
<1> HIDE DEF B
<1>2. /\ high \in Nat /\ asked \in Nat
      /\ waiting \in SUBSET Tasks /\ \A t \in waiting : ReviewOf(t) \in 1..asked
      /\ \A t \in waiting : ~IsNumbered(t) => high < ReviewOf(t)
      /\ \A t, u \in waiting : ReviewOf(t) = ReviewOf(u) => t = u
      /\ \A t \in waiting : IsNumbered(t) => row[t].seq > 0 /\ row[t].seq <= high
  <2>1. high \in Nat /\ asked \in Nat /\ waiting \in SUBSET Tasks
    BY DEF ReviewInv, UpgradeTypes, UpgradeAssumption
  <2>2. /\ \A t \in waiting : ReviewOf(t) \in 1..asked
        /\ \A t, u \in waiting : ReviewOf(t) = ReviewOf(u) => t = u
    BY DEF ReviewInv, WaitersHold
  <2>3. \A t \in waiting : ~IsNumbered(t) => high < ReviewOf(t)
    BY DEF ReviewInv, SequencesHold
  <2>4. \A t \in waiting : IsNumbered(t) => row[t].seq > 0 /\ row[t].seq <= high
    BY <2>1 DEF ReviewInv, WaitersHold, IsNumbered
  <2> QED BY <2>1, <2>2, <2>3, <2>4
<1>3. /\ RowSet(B) \in SUBSET Review /\ IsFiniteSet(RowSet(B))
      /\ \A q : q \in RowSet(B) <=> \E t \in Tasks : B[t] # Nothing /\ q = B[t]
  BY <1>1, RowsAre
<1>4. Top(B) = high
  <2> DEFINE S == {high} \cup {q.seq : q \in RowSet(B)}
  <2>1. S \in SUBSET Nat /\ high \in S
    BY <1>2, <1>3 DEF Review
  <2>2. ASSUME NEW q \in RowSet(B) PROVE q.seq <= high
    <3>1. PICK t \in waiting : q = B[t]
      BY <1>1, <1>2, <1>3
    <3> QED BY <1>1, <1>2, <3>1
  <2>3. \A y \in S : y <= high
    BY <1>2, <2>2
  <2> HIDE DEF S
  <2>4. Max(S) = high
    BY <2>1, <2>3, MaxIs
  <2> QED BY <2>4 DEF S, Top
<1>5. /\ U \in SUBSET Review /\ IsFiniteSet(U) /\ \A x \in U : x.id \in Nat /\ high < x.id
      /\ \A x, y \in U : x.id = y.id => x = y
      /\ \A t \in waiting : ~IsNumbered(t) => B[t] \in U
  <2>1. U \in SUBSET RowSet(B)
    BY DEF Unnumbered
  <2>2. U \in SUBSET Review /\ IsFiniteSet(U)
    BY <1>3, <2>1, FS_Subset
  <2>3. ASSUME NEW x \in U PROVE \E t \in waiting : x = B[t] /\ ~IsNumbered(t)
    <3>1. PICK t \in waiting : x = B[t]
      BY <1>1, <1>2, <1>3, <2>1
    <3>2. x.seq = 0
      BY DEF Unnumbered
    <3>3. CASE IsNumbered(t)
      <4>1. B[t] = row[t] /\ row[t].seq > 0
        BY <1>1, <1>2, <3>3
      <4> QED BY <3>1, <3>2, <4>1
    <3> QED BY <3>1, <3>3
  <2>4. \A x \in U : x.id \in Nat /\ high < x.id
    BY <1>1, <1>2, <2>2, <2>3 DEF Review
  <2>5. \A x, y \in U : x.id = y.id => x = y
    BY <1>1, <1>2, <2>3
  <2>6. ASSUME NEW t \in waiting, ~IsNumbered(t) PROVE B[t] \in U
    <3>1. B[t] \in RowSet(B)
      BY <1>1, <1>2, <1>3
    <3> QED BY <1>1, <2>6, <3>1 DEF Unnumbered
  <2> QED BY <2>2, <2>4, <2>5, <2>6
<1> HIDE DEF U
<1>6. \A q \in U : /\ Rank(q, U) \in Nat /\ Rank(q, U) >= 1 /\ high + Rank(q, U) <= q.id
                   /\ \A p \in U : p.id < q.id => Rank(p, U) < Rank(q, U)
  <2>0. \A x \in U : x.id \in Nat
    BY <1>5
  <2>1. ASSUME NEW q \in U
        PROVE  /\ Rank(q, U) \in 1..Cardinality(U)
               /\ \A p \in U : p.id < q.id => Rank(p, U) < Rank(q, U)
    BY <1>5, <2>0, RankUp
  <2>2. ASSUME NEW q \in U PROVE high + Rank(q, U) <= q.id
    BY <1>2, <1>5, RankBound
  <2> QED BY <2>1, <2>2
<1>7. ASSUME NEW t \in waiting, ~IsNumbered(t)
      PROVE  /\ N[t] = [B[t] EXCEPT !.seq = high + Rank(B[t], U)]
             /\ N[t].id = ReviewOf(t) /\ N[t].task = t /\ N[t] \in Review
             /\ N[t].seq = high + Rank(B[t], U)
             /\ N[t].seq \in (high + 1)..ReviewOf(t)
  <2>1. /\ t \in Tasks /\ B[t] \in U /\ B[t] \in Review /\ B[t] # Nothing /\ B[t].seq = 0
        /\ B[t].id = ReviewOf(t) /\ B[t].task = t
    BY <1>1, <1>2, <1>5, <1>7
  <2>2. N[t] = [B[t] EXCEPT !.seq = Top(B) + Rank(B[t], Unnumbered(B))]
    BY <2>1 DEF NumberedRows
  <2>3. N[t] = [B[t] EXCEPT !.seq = high + Rank(B[t], U)]
    BY <1>4, <2>2 DEF U
  <2>4. /\ Rank(B[t], U) \in Nat /\ Rank(B[t], U) >= 1
        /\ high + Rank(B[t], U) <= ReviewOf(t)
    BY <1>6, <2>1
  <2>5. high + Rank(B[t], U) \in Nat /\ high + Rank(B[t], U) \in (high + 1)..ReviewOf(t)
    BY <1>2, <2>4
  <2> HIDE DEF N
  <2>6. N[t].id = ReviewOf(t) /\ N[t].task = t /\ N[t].seq = high + Rank(B[t], U) /\ N[t] \in Review
    BY <2>1, <2>3, <2>5 DEF Review
  <2> QED BY <2>3, <2>5, <2>6
<1>8. ASSUME NEW t \in waiting, IsNumbered(t) PROVE N[t] = row[t] /\ N[t] = B[t]
  <2>1. t \in Tasks /\ B[t] = row[t] /\ row[t].seq > 0
    BY <1>1, <1>2, <1>8
  <2> QED BY <2>1 DEF NumberedRows
<1>9. ASSUME NEW t \in Tasks, t \notin waiting PROVE N[t] = Nothing
  BY <1>1, <1>9 DEF NumberedRows
<1>10. N = [t \in Tasks |-> N[t]]
  BY DEF NumberedRows
<1> HIDE DEF N
<1>11. ASSUME NEW t \in waiting
       PROVE  /\ N[t] \in Review /\ N[t] # Nothing /\ N[t].id = ReviewOf(t) /\ N[t].task = t
              /\ IF IsNumbered(t) THEN N[t] = row[t] ELSE N[t].seq \in (high + 1)..ReviewOf(t)
  BY <1>1, <1>7, <1>8 DEF UpgradeAssumption
<1>12. N \in [Tasks -> Review \cup {Nothing}]
  BY <1>9, <1>10, <1>11
<1>13. ASSUME NEW t \in waiting, NEW u \in waiting, ~IsNumbered(t), ~IsNumbered(u),
              ReviewOf(t) < ReviewOf(u)
       PROVE  N[t].seq < N[u].seq
  <2>1. /\ B[t] \in U /\ B[u] \in U /\ B[t].id < B[u].id
        /\ N[t].seq = high + Rank(B[t], U) /\ N[u].seq = high + Rank(B[u], U)
    BY <1>1, <1>5, <1>7, <1>13
  <2>2. Rank(B[t], U) \in Nat /\ Rank(B[u], U) \in Nat /\ Rank(B[t], U) < Rank(B[u], U)
    BY <1>6, <2>1
  <2> QED BY <1>2, <2>1, <2>2
<1> QED BY <1>2, <1>9, <1>11, <1>12, <1>13 DEF N, B

LEMMA OpenTasksHolds ==
  ASSUME UpgradeAssumption, ReviewInv, OpenTasks
  PROVE  ReviewInv'
<1> DEFINE B == Backfilled
           N == NumberedRows(Backfilled)
<1>1. /\ stage = "closed" /\ stage' = "tasks" /\ waiting' = waiting /\ asked' = asked
      /\ row' = N /\ json' = Mirrored(json, B) /\ high' = Top(N)
      /\ issued' = issued \cup {<<q.id, q.seq>> : q \in RowSet(N)}
  BY DEF OpenTasks
<1>2. /\ B \in [Tasks -> Review \cup {Nothing}]
      /\ \A t \in Tasks : B[t] # Nothing <=> t \in waiting
      /\ \A t \in waiting : B[t] \in Review /\ B[t].id = ReviewOf(t) /\ B[t].task = t
  BY <1>1, BackfilledIs
<1>3. /\ N \in [Tasks -> Review \cup {Nothing}]
      /\ \A t \in Tasks : N[t] # Nothing <=> t \in waiting
      /\ \A t \in waiting :
           /\ N[t] \in Review /\ N[t].id = ReviewOf(t) /\ N[t].task = t
           /\ IF IsNumbered(t) THEN N[t] = row[t] ELSE N[t].seq \in (high + 1)..ReviewOf(t)
      /\ \A t, u \in waiting :
           ~IsNumbered(t) /\ ~IsNumbered(u) /\ ReviewOf(t) < ReviewOf(u) => N[t].seq < N[u].seq
  BY <1>1, NumberedIs
<1> HIDE DEF B, N
<1>4. /\ high \in Nat /\ asked \in Nat /\ high <= asked
      /\ waiting \in SUBSET Tasks /\ \A t \in waiting : ReviewOf(t) \in 1..asked
      /\ \A t, u \in waiting : ReviewOf(t) = ReviewOf(u) => t = u
      /\ \A t \in waiting : IsNumbered(t) => row[t].seq > 0 /\ row[t].seq <= high
  <2>1. high \in Nat /\ asked \in Nat /\ high <= asked /\ waiting \in SUBSET Tasks
    BY DEF ReviewInv, UpgradeTypes, UpgradeAssumption
  <2>2. /\ \A t \in waiting : ReviewOf(t) \in 1..asked
        /\ \A t, u \in waiting : ReviewOf(t) = ReviewOf(u) => t = u
    BY DEF ReviewInv, WaitersHold
  <2>3. \A t \in waiting : IsNumbered(t) => row[t].seq > 0 /\ row[t].seq <= high
    BY <2>1 DEF ReviewInv, WaitersHold, IsNumbered
  <2> QED BY <2>1, <2>2, <2>3
<1>5. ASSUME NEW t \in waiting PROVE N[t].seq \in 1..asked /\ N[t].seq > 0
  <2>1. CASE IsNumbered(t)
    <3>1. N[t] = row[t] /\ N[t].seq \in Nat /\ row[t].seq > 0 /\ row[t].seq <= high
      BY <1>3, <1>4, <2>1 DEF Review
    <3> QED BY <1>4, <3>1
  <2>2. CASE ~IsNumbered(t)
    <3>1. N[t].seq \in (high + 1)..ReviewOf(t) /\ ReviewOf(t) \in 1..asked
      BY <1>3, <1>4, <2>2
    <3> QED BY <1>4, <3>1
  <2> QED BY <2>1, <2>2
<1>6. \A q : q \in RowSet(N) <=> \E t \in waiting : q = N[t]
  <2>1. \A q : q \in RowSet(N) <=> \E t \in Tasks : N[t] # Nothing /\ q = N[t]
    BY <1>3, RowsAre
  <2> QED BY <1>3, <1>4, <2>1
<1>7. high' \in Nat /\ high <= high' /\ high' <= asked /\ \A t \in waiting : N[t].seq <= high'
  <2> DEFINE S == {high} \cup {q.seq : q \in RowSet(N)}
  <2>1. S \in SUBSET (0..asked) /\ S # {}
    BY <1>4, <1>5, <1>6
  <2>2. high \in S /\ \A t \in waiting : N[t].seq \in S
    BY <1>6
  <2>3. high' = Max(S)
    BY <1>1 DEF Top
  <2> HIDE DEF S
  <2>4. Max(S) \in S /\ \A y \in S : Max(S) >= y
    BY <1>4, <2>1, MaxOfBounded
  <2>5. Max(S) \in 0..asked
    BY <2>1, <2>4
  <2>6. high' \in Nat /\ high <= high' /\ high' <= asked
    BY <1>4, <2>2, <2>3, <2>4, <2>5
  <2>7. \A t \in waiting : N[t].seq <= high'
    BY <1>5, <2>2, <2>3, <2>4, <2>6
  <2> QED BY <2>6, <2>7
<1>8. \A t \in waiting : <<N[t].id, N[t].seq>> \in issued'
  BY <1>1, <1>6
<1>9. ASSUME NEW p \in issued'
      PROVE  \/ p \in issued
             \/ \E t \in waiting : ~IsNumbered(t) /\ p = <<ReviewOf(t), N[t].seq>>
  <2>1. CASE p \in {<<q.id, q.seq>> : q \in RowSet(N)}
    <3>1. PICK t \in waiting : p = <<N[t].id, N[t].seq>>
      BY <1>6, <2>1
    <3>2. CASE IsNumbered(t)
      <4>1. N[t] = row[t] /\ <<row[t].id, row[t].seq>> \in issued
        BY <1>3, <3>2 DEF ReviewInv, SequencesHold
      <4> QED BY <3>1, <4>1
    <3>3. CASE ~IsNumbered(t)
      BY <1>3, <3>1, <3>3
    <3> QED BY <3>2, <3>3
  <2> QED BY <1>1, <2>1
<1>10. /\ \A p \in issued : p[1] \in 1..asked /\ p[2] \in 1..high
       /\ \A p, q \in issued : (p[1] < q[1] => p[2] < q[2]) /\ (p[1] = q[1] => p[2] = q[2])
       /\ \A t \in waiting : ~IsNumbered(t) => high < ReviewOf(t) /\ \A p \in issued : p[1] < ReviewOf(t)
  BY DEF ReviewInv, SequencesHold
<1>11. \A p \in issued' : p[1] \in 1..asked' /\ p[2] \in 1..high'
  <2>1. \A p \in issued : p[1] \in 1..asked' /\ p[2] \in 1..high'
    BY <1>1, <1>4, <1>7, <1>10
  <2>2. ASSUME NEW t \in waiting PROVE ReviewOf(t) \in 1..asked' /\ N[t].seq \in 1..high'
    BY <1>1, <1>4, <1>5, <1>7
  <2> QED BY <1>9, <2>1, <2>2
<1>12. ASSUME NEW p \in issued', NEW q \in issued'
       PROVE  (p[1] < q[1] => p[2] < q[2]) /\ (p[1] = q[1] => p[2] = q[2])
  <2>1. ASSUME NEW x \in issued, NEW t \in waiting, ~IsNumbered(t)
        PROVE  /\ x[1] \in Nat /\ ReviewOf(t) \in Nat /\ x[1] < ReviewOf(t)
               /\ x[2] \in Nat /\ N[t].seq \in Nat /\ x[2] < N[t].seq
    <3>1. N[t].seq \in (high + 1)..ReviewOf(t) /\ ReviewOf(t) \in 1..asked
      BY <1>3, <1>4, <2>1
    <3>2. x[1] \in 1..asked /\ x[2] \in 1..high /\ x[1] < ReviewOf(t)
      BY <1>10, <2>1
    <3> QED BY <1>4, <3>1, <3>2
  <2>2. CASE p \in issued /\ q \in issued
    BY <1>10, <2>2
  <2>3. CASE p \in issued /\ q \notin issued
    <3>1. PICK t \in waiting : ~IsNumbered(t) /\ q = <<ReviewOf(t), N[t].seq>>
      BY <1>9, <2>3
    <3> QED BY <2>1, <2>3, <3>1
  <2>4. CASE p \notin issued /\ q \in issued
    <3>1. PICK t \in waiting : ~IsNumbered(t) /\ p = <<ReviewOf(t), N[t].seq>>
      BY <1>9, <2>4
    <3> QED BY <2>1, <2>4, <3>1
  <2>5. CASE p \notin issued /\ q \notin issued
    <3>1. PICK t \in waiting : ~IsNumbered(t) /\ p = <<ReviewOf(t), N[t].seq>>
      BY <1>9, <2>5
    <3>2. PICK u \in waiting : ~IsNumbered(u) /\ q = <<ReviewOf(u), N[u].seq>>
      BY <1>9, <2>5
    <3>3. ReviewOf(t) = ReviewOf(u) => t = u
      BY <1>4
    <3>4. ReviewOf(t) < ReviewOf(u) => N[t].seq < N[u].seq
      BY <1>3, <3>1, <3>2
    <3> QED BY <3>1, <3>2, <3>3, <3>4
  <2> QED BY <2>2, <2>3, <2>4, <2>5
<1>13. /\ json' \in [Tasks -> Shown \cup {Nothing}]
       /\ IF RowSet(N) = {} THEN json'[Root] = Nothing ELSE json'[Root].id = Oldest(RowSet(N)).id
       /\ \A t \in Tasks : json'[t] # Nothing /\ json'[t].task = Root => t = Root /\ Root \in waiting
  <2>0. /\ json \in [Tasks -> Shown \cup {Nothing}] /\ Root \in Tasks
        /\ \A t \in Tasks : json[t] # Nothing /\ json[t].task = Root => t = Root /\ Root \in waiting
    BY Present DEF ReviewInv, UpgradeTypes, RootHolds
  <2>1. /\ RowSet(B) \in SUBSET Review /\ RowSet(N) \in SUBSET Review
        /\ \A q : q \in RowSet(B) <=> \E t \in waiting : q = B[t]
    <3>1. /\ RowSet(B) \in SUBSET Review /\ RowSet(N) \in SUBSET Review
          /\ \A q : q \in RowSet(B) <=> \E t \in Tasks : B[t] # Nothing /\ q = B[t]
      BY <1>2, <1>3, RowsAre
    <3> QED BY <1>2, <1>4, <3>1
  <2>2. CASE waiting = {}
    <3>1. RowSet(B) = {} /\ RowSet(N) = {}
      BY <1>6, <2>1, <2>2
    <3>2. Root \notin waiting /\ (json[Root] # Nothing => json[Root].task # Root)
      BY <2>0, <2>2
    <3>3. json' = IF json[Root] # Nothing THEN [json EXCEPT ![Root] = Nothing] ELSE json
      BY <1>1, <3>1, <3>2 DEF Mirrored
    <3>4. /\ json' \in [Tasks -> Shown \cup {Nothing}] /\ json'[Root] = Nothing
          /\ \A t \in Tasks \ {Root} : json'[t] = json[t]
      <4>1. CASE json[Root] # Nothing
        BY <2>0, <3>3, <4>1
      <4>2. CASE json[Root] = Nothing
        BY <2>0, <3>3, <4>2
      <4> QED BY <4>1, <4>2
    <3> QED BY <2>0, <3>1, <3>4
  <2>3. CASE waiting # {}
    <3>1. RowSet(B) # {} /\ RowSet(N) # {}
      BY <1>6, <2>1, <2>3
    <3>2. /\ \A t \in Tasks : B[t] # Nothing => t \in waiting /\ B[t].task = t
          /\ \A t \in Tasks : json[t] # Nothing /\ json[t].task = Root => t = Root
      BY <1>2, <2>0
    <3>3. /\ Mirrored(json, B) \in [Tasks -> Shown \cup {Nothing}]
          /\ Mirrored(json, B)[Root].id = Oldest(RowSet(B)).id
          /\ \A t \in Tasks : Mirrored(json, B)[t] # Nothing /\ Mirrored(json, B)[t].task = Root
                => t = Root /\ Root \in waiting
      BY <1>2, <2>0, <3>1, <3>2, RootFollows
    <3>4. Oldest(RowSet(B)).id = Oldest(RowSet(N)).id
      <4>1. \A p \in RowSet(B) : \E q \in RowSet(N) : p.id = q.id
        BY <1>2, <1>3, <1>6, <2>1
      <4>2. \A q \in RowSet(N) : \E p \in RowSet(B) : p.id = q.id
        BY <1>2, <1>3, <1>6, <2>1
      <4> QED BY <2>1, <3>1, <4>1, <4>2, OldestAlike
    <3> QED BY <1>1, <3>1, <3>3, <3>4
  <2> QED BY <2>2, <2>3
<1>14. UpgradeTypes'
  <2>1. issued' \in SUBSET (Nat \X Nat)
    <3>1. \A t \in waiting : <<ReviewOf(t), N[t].seq>> \in Nat \X Nat
      BY <1>4, <1>5
    <3>2. issued \in SUBSET (Nat \X Nat)
      BY DEF ReviewInv, UpgradeTypes
    <3> QED BY <1>9, <3>1, <3>2
  <2>2. asked' \in 0..MaxAsked /\ high' \in 0..asked'
    <3>1. asked' \in 0..MaxAsked
      BY <1>1 DEF ReviewInv, UpgradeTypes
    <3>2. high' \in 0..asked'
      BY <1>1, <1>4, <1>7
    <3> QED BY <3>1, <3>2
  <2>3. stage' \in {"closed", "tasks", "open"} /\ waiting' \in SUBSET Tasks
    BY <1>1, <1>4
  <2> QED BY <1>1, <1>3, <1>13, <2>1, <2>2, <2>3 DEF UpgradeTypes
<1>15. ASSUME NEW t \in waiting'
       PROVE  /\ t \in waiting /\ t \in Tasks /\ row'[t] = N[t] /\ N[t] # Nothing
              /\ ReviewOf(t)' = ReviewOf(t) /\ IsNumbered(t)'
  <2>1. t \in waiting /\ t \in Tasks /\ row'[t] = N[t] /\ N[t] # Nothing
    BY <1>1, <1>3, <1>4
  <2>2. ReviewOf(t)' = ReviewOf(t)
    BY <1>3, <2>1 DEF ReviewOf
  <2>3. IsNumbered(t)'
    BY <1>5, <2>1 DEF IsNumbered
  <2> QED BY <2>1, <2>2, <2>3
<1>16. WaitersHold'
  <2>1. \A t \in Tasks : row'[t] # Nothing => t \in waiting' /\ row'[t].task = t /\ row'[t].seq <= high'
    BY <1>1, <1>3, <1>7
  <2>2. \A t \in waiting' :
         /\ row'[t] = Nothing => stage' = "closed" /\ json'[t] # Nothing
         /\ stage' # "closed" => row'[t].seq > 0
         /\ ReviewOf(t)' \in 1..asked'
    BY <1>1, <1>4, <1>5, <1>15
  <2>3. \A t, u \in waiting' : ReviewOf(t)' = ReviewOf(u)' => t = u
    BY <1>4, <1>15
  <2> QED BY <2>1, <2>2, <2>3 DEF WaitersHold
<1>17. SequencesHold'
  <2>1. \A t \in waiting' : IsNumbered(t)' /\ <<row'[t].id, row'[t].seq>> \in issued'
    BY <1>8, <1>15
  <2> QED BY <1>11, <1>12, <2>1 DEF SequencesHold
<1>18. RootHolds'
  <2>1. RootShowsOldest'
    BY <1>1, <1>13 DEF RootShowsOldest
  <2> QED BY <1>1, <1>13, <2>1 DEF RootHolds
<1> QED BY <1>14, <1>16, <1>17, <1>18 DEF ReviewInv

\* Where the reviews stand still, the stage does not open the database.
LEMMA ReviewsStand ==
  ASSUME ReviewInv, UNCHANGED Reviews, stage' \in {"closed", "tasks", "open"},
         stage' # "closed" => stage # "closed"
  PROVE  ReviewInv'
<1>1. /\ waiting' = waiting /\ json' = json /\ row' = row /\ high' = high /\ asked' = asked
      /\ issued' = issued
  BY DEF Reviews
<1>2. \A t : ReviewOf(t)' = ReviewOf(t) /\ IsNumbered(t)' = IsNumbered(t)
  BY <1>1 DEF ReviewOf, IsNumbered
<1>3. UpgradeTypes'
  BY <1>1 DEF ReviewInv, UpgradeTypes
<1>4. WaitersHold'
  BY <1>1, <1>2 DEF ReviewInv, WaitersHold
<1>5. SequencesHold'
  BY <1>1, <1>2 DEF ReviewInv, SequencesHold
<1>6. RootHolds'
  <2>1. RootShowsOldest'
    BY <1>1 DEF ReviewInv, RootHolds, RootShowsOldest
  <2> QED BY <1>1, <2>1 DEF ReviewInv, RootHolds
<1> QED BY <1>3, <1>4, <1>5, <1>6 DEF ReviewInv

-----------------------------------------------------------------------------
(* One step of the messages each                                            *)

\* A watermark that was set stays.
LEMMA FencedStays ==
  ASSUME MessageInv, numbered, NEW msgs
  PROVE  Fenced(msgs) = mark
<1>1. mark \in [Tasks -> -1..lastWakeup] /\ \A t \in Tasks : mark[t] # -1
  BY DEF MessageInv, MessageTypes, FencesHold
<1>2. ASSUME NEW t \in Tasks PROVE Fenced(msgs)[t] = mark[t]
  BY <1>1 DEF Fenced
<1>3. Fenced(msgs) = [t \in Tasks |-> Fenced(msgs)[t]]
  BY DEF Fenced
<1> QED BY <1>1, <1>2, <1>3

\* The first one covers what a broken run was sent, and nothing of another Task.
LEMMA FencedIs ==
  ASSUME NEW t \in Tasks, mark[t] = -1, NEW n \in Nat, NEW msgs \in SUBSET MessageType,
         \A m \in msgs : m.seq \in 1..n
  PROVE  /\ Fenced(msgs)[t] \in 0..n
         /\ state[t] \in Unsuccessful => \A m \in msgs : m.to = t => m.seq <= Fenced(msgs)[t]
         /\ state[t] \notin Unsuccessful => Fenced(msgs)[t] = 0
<1>1. CASE state[t] \in Unsuccessful
  <2> DEFINE S == {0} \cup {m.seq : m \in To(t, msgs)}
  <2>1. Fenced(msgs)[t] = Max(S)
    BY <1>1 DEF Fenced
  <2>2. S \in SUBSET (0..n) /\ S # {} /\ \A m \in msgs : m.to = t => m.seq \in S
    BY DEF To
  <2> HIDE DEF S
  <2>3. Max(S) \in S /\ \A y \in S : Max(S) >= y
    BY <2>2, MaxOfBounded
  <2>4. Max(S) \in 0..n /\ \A y \in S : y \in Nat
    <3>1. \A y \in 0..n : y \in Nat
      OBVIOUS
    <3> QED BY <2>2, <2>3, <3>1
  <2>5. \A m \in msgs : m.to = t => m.seq <= Max(S)
    BY <2>2, <2>3, <2>4
  <2> QED BY <1>1, <2>1, <2>4, <2>5
<1>2. CASE state[t] \notin Unsuccessful
  BY <1>2 DEF Fenced
<1> QED BY <1>1, <1>2

LEMMA MessageHolds ==
  ASSUME UpgradeAssumption, MessageInv, NEW t \in Tasks, NEW m,
         m = [id |-> Cardinality(inbox) + 1, to |-> t, old |-> ~numbered,
              seq |-> IF numbered THEN lastWakeup + 1 ELSE 0],
         Cardinality(inbox) < MaxMessages, inbox' = inbox \cup {m},
         lastWakeup' = (IF numbered THEN lastWakeup + 1 ELSE lastWakeup),
         UNCHANGED <<stage, state, mark, numbered>>
  PROVE  MessageInv'
<1>1. /\ inbox \in SUBSET MessageType /\ IsFiniteSet(inbox) /\ lastWakeup \in Nat
      /\ lastWakeup <= Cardinality(inbox) /\ \A x \in inbox : x.id <= Cardinality(inbox)
      /\ numbered \in BOOLEAN /\ state \in [Tasks -> Ended] /\ mark \in [Tasks -> -1..lastWakeup]
      /\ stage \in {"closed", "tasks", "open"} /\ (stage = "open" => numbered)
  BY DEF MessageInv, MessageTypes
<1>2. Cardinality(inbox) \in Nat /\ MaxMessages \in Nat
  BY <1>1, FS_CardinalityType DEF UpgradeAssumption
<1>3. m \in MessageType /\ m.id = Cardinality(inbox) + 1 /\ m.to = t
      /\ (numbered => m.seq = lastWakeup + 1 /\ ~m.old) /\ (~numbered => m.seq = 0 /\ m.old)
  <2>1. CASE numbered
    <3>1. m = [id |-> Cardinality(inbox) + 1, to |-> t, old |-> FALSE, seq |-> lastWakeup + 1]
      BY <2>1
    <3> QED BY <1>1, <1>2, <2>1, <3>1 DEF MessageType
  <2>2. CASE ~numbered
    <3>1. m = [id |-> Cardinality(inbox) + 1, to |-> t, old |-> TRUE, seq |-> 0]
      BY <2>2
    <3> QED BY <1>1, <1>2, <2>2, <3>1 DEF MessageType
  <2> QED BY <2>1, <2>2
<1>4. m \notin inbox
  BY <1>1, <1>2, <1>3 DEF MessageType
<1>5. IsFiniteSet(inbox') /\ Cardinality(inbox') = Cardinality(inbox) + 1
  BY <1>1, <1>4, FS_AddElement
<1>6. lastWakeup' \in Nat /\ lastWakeup <= lastWakeup' /\ lastWakeup' <= Cardinality(inbox')
  BY <1>1, <1>2, <1>5
<1>7. MessageTypes'
  <2>1. Cardinality(inbox') <= MaxMessages
    BY <1>2, <1>5
  <2>2. \A x \in inbox' : x.id <= Cardinality(inbox')
    BY <1>1, <1>2, <1>3, <1>5 DEF MessageType
  <2>3. mark' \in [Tasks -> -1..lastWakeup']
    BY <1>1, <1>6
  <2> QED BY <1>1, <1>3, <1>5, <1>6, <2>1, <2>2, <2>3 DEF MessageTypes
<1>8. FencesHold'
  <2>1. CASE numbered
    <3>1. /\ \A x \in inbox :
               /\ x.seq \in 1..lastWakeup
               /\ IF x.old /\ state[x.to] \in Unsuccessful THEN x.seq <= mark[x.to]
                  ELSE x.seq > mark[x.to]
          /\ \A x, y \in inbox : x.id < y.id => x.seq < y.seq
          /\ \A u \in Tasks : mark[u] # -1
      BY <2>1 DEF MessageInv, FencesHold
    <3>2. m.seq \in 1..lastWakeup' /\ ~m.old /\ m.seq > mark[m.to]
      <4>1. m.seq = lastWakeup + 1 /\ ~m.old /\ mark[m.to] \in -1..lastWakeup /\ lastWakeup' = lastWakeup + 1
        BY <1>1, <1>3, <2>1
      <4> QED BY <1>1, <4>1
    <3>3. \A x \in inbox : x.seq \in 1..lastWakeup'
      BY <1>1, <1>6, <3>1
    <3>4. \A x, y \in inbox' : x.id < y.id => x.seq < y.seq
      <4>1. \A x \in inbox : x.id \in Nat /\ x.id <= Cardinality(inbox) /\ x.seq \in 1..lastWakeup
        BY <1>1, <3>1 DEF MessageType
      <4>2. m.id = Cardinality(inbox) + 1 /\ m.seq = lastWakeup + 1
        BY <1>3, <2>1
      <4>3. \A x \in inbox : ~(m.id < x.id) /\ x.seq < m.seq
        BY <1>1, <1>2, <4>1, <4>2
      <4>4. ~(m.id < m.id)
        BY <1>2, <4>2
      <4> QED BY <3>1, <4>3, <4>4
    <3>5. numbered' /\ mark' = mark /\ state' = state
      BY <2>1
    <3>6. ASSUME NEW x \in inbox'
          PROVE  /\ x.seq \in 1..lastWakeup'
                 /\ IF x.old /\ state'[x.to] \in Unsuccessful THEN x.seq <= mark'[x.to]
                    ELSE x.seq > mark'[x.to]
      <4>1. CASE x = m
        BY <3>2, <3>5, <4>1
      <4>2. CASE x \in inbox
        BY <3>1, <3>3, <3>5, <4>2
      <4> QED BY <4>1, <4>2
    <3> QED BY <3>1, <3>4, <3>5, <3>6 DEF FencesHold
  <2>2. CASE ~numbered
    <3>1. /\ \A x \in inbox' : x.seq = 0 /\ x.old
          /\ lastWakeup' = 0 /\ \A u \in Tasks : mark'[u] = -1
      BY <1>3, <2>2 DEF MessageInv, FencesHold
    <3> QED BY <2>2, <3>1 DEF FencesHold
  <2> QED BY <2>1, <2>2
<1> QED BY <1>7, <1>8 DEF MessageInv

\* The first opening numbers all messages, in the order they were written in.
LEMMA NumberedMailIs ==
  ASSUME MessageInv, ~numbered
  PROVE  /\ NumberedMail \in SUBSET MessageType /\ IsFiniteSet(NumberedMail)
         /\ Cardinality(NumberedMail) = Cardinality(inbox)
         /\ \A x \in NumberedMail :
              /\ x.seq \in 1..Cardinality(inbox) /\ x.old
              /\ \E m \in inbox : x.id = m.id
         /\ \A x, y \in NumberedMail : x.id < y.id => x.seq < y.seq
<1>1. /\ inbox \in SUBSET MessageType /\ IsFiniteSet(inbox)
      /\ lastWakeup = 0 /\ \A m \in inbox : m.seq = 0 /\ m.old
  BY DEF MessageInv, MessageTypes, FencesHold
<1>2. Cardinality(inbox) \in Nat
  BY <1>1, FS_CardinalityType
<1> DEFINE N(m) == [m EXCEPT !.seq = Rank(m, inbox)]
           f == [m \in inbox |-> N(m)]
<1>3. ASSUME NEW m \in inbox
      PROVE  /\ Rank(m, inbox) \in 1..Cardinality(inbox)
             /\ \A p \in inbox : p.id < m.id => Rank(p, inbox) < Rank(m, inbox)
  <2>1. \A x \in inbox : x.id \in Nat
    BY <1>1 DEF MessageType
  <2> QED BY <1>1, <2>1, RankUp
<1>4. NumberedMail = {N(m) : m \in inbox}
  <2>1. {m \in inbox : m.seq = 0} = inbox
    BY <1>1
  <2>2. NumberedMail = {[m EXCEPT !.seq = 0 + Rank(m, inbox)] : m \in inbox}
    BY <1>1, <2>1 DEF NumberedMail
  <2>3. \A m \in inbox : 0 + Rank(m, inbox) = Rank(m, inbox)
    BY <1>3
  <2> QED BY <2>2, <2>3
<1>5. ASSUME NEW m \in inbox
      PROVE  /\ N(m) \in MessageType /\ N(m).id = m.id /\ N(m).old = m.old /\ N(m).to = m.to
             /\ N(m).seq = Rank(m, inbox) /\ Rank(m, inbox) \in Nat
  <2>1. m \in MessageType /\ Rank(m, inbox) \in Nat
    BY <1>1, <1>2, <1>3
  <2> QED BY <2>1 DEF MessageType
<1>6. \A m, p \in inbox : N(m) = N(p) => m = p
  <2>1. ASSUME NEW m \in inbox, NEW p \in inbox, N(m) = N(p) PROVE m = p
    <3>1. m.id = p.id /\ m.to = p.to /\ m.old = p.old /\ m.seq = p.seq
      BY <1>1, <1>5, <2>1
    <3>2. m \in MessageType /\ p \in MessageType
      BY <1>1
    <3> QED BY <3>1, <3>2 DEF MessageType
  <2> QED BY <2>1
<1> HIDE DEF N
<1>7. f \in Bijection(inbox, NumberedMail)
  <2>1. f \in [inbox -> NumberedMail] /\ \A m \in inbox : f[m] = N(m)
    BY <1>4
  <2>2. \A x \in NumberedMail : \E m \in inbox : f[m] = x
    BY <1>4, <2>1
  <2>3. \A m, p \in inbox : f[m] = f[p] => m = p
    BY <1>6, <2>1
  <2> HIDE DEF f
  <2> QED BY <2>1, <2>2, <2>3 DEF Bijection, Injection, Surjection, IsInjective
<1>8. IsFiniteSet(NumberedMail) /\ Cardinality(NumberedMail) = Cardinality(inbox)
  <2>1. ExistsBijection(inbox, NumberedMail)
    BY <1>7 DEF ExistsBijection
  <2> QED BY <1>1, <2>1, FS_Bijection
<1>9. ASSUME NEW x \in NumberedMail
      PROVE  \E m \in inbox : x = N(m)
  BY <1>4
<1>10. \A x \in NumberedMail :
         /\ x \in MessageType /\ x.seq \in 1..Cardinality(inbox) /\ x.old
         /\ \E m \in inbox : x.id = m.id
  BY <1>1, <1>3, <1>5, <1>9
<1>11. ASSUME NEW x \in NumberedMail, NEW y \in NumberedMail, x.id < y.id PROVE x.seq < y.seq
  <2>1. PICK m \in inbox : x = N(m)
    BY <1>9
  <2>2. PICK p \in inbox : y = N(p)
    BY <1>9
  <2> QED BY <1>3, <1>5, <1>11, <2>1, <2>2
<1> QED BY <1>8, <1>10, <1>11

LEMMA OpenMailboxHolds ==
  ASSUME UpgradeAssumption, MessageInv, OpenMailbox
  PROVE  MessageInv'
<1> DEFINE N == NumberedMail
<1>1. /\ stage' = "open" /\ inbox' = N /\ lastWakeup' = Max({lastWakeup} \cup {m.seq : m \in N})
      /\ mark' = Fenced(N) /\ numbered' = TRUE /\ state' = state
  BY DEF OpenMailbox
<1>2. /\ inbox \in SUBSET MessageType /\ IsFiniteSet(inbox) /\ lastWakeup \in Nat
      /\ lastWakeup <= Cardinality(inbox) /\ \A x \in inbox : x.id <= Cardinality(inbox)
      /\ Cardinality(inbox) <= MaxMessages /\ Cardinality(inbox) \in Nat
      /\ state \in [Tasks -> Ended] /\ mark \in [Tasks -> -1..lastWakeup]
  BY FS_CardinalityType DEF MessageInv, MessageTypes
<1>3. CASE numbered
  <2>1. /\ \A m \in inbox :
             /\ m.seq \in 1..lastWakeup
             /\ IF m.old /\ state[m.to] \in Unsuccessful THEN m.seq <= mark[m.to]
                ELSE m.seq > mark[m.to]
        /\ \A m, n \in inbox : m.id < n.id => m.seq < n.seq
        /\ \A t \in Tasks : mark[t] # -1
    BY <1>3 DEF MessageInv, FencesHold
  <2>2. {m \in inbox : m.seq = 0} = {}
    BY <1>2, <2>1
  <2>3. N = inbox
    BY <2>2 DEF NumberedMail
  <2> HIDE DEF N
  <2>4. lastWakeup' = lastWakeup
    <3> DEFINE S == {lastWakeup} \cup {m.seq : m \in N}
    <3>1. S \in SUBSET Nat /\ lastWakeup \in S /\ \A y \in S : y <= lastWakeup
      BY <1>2, <2>1, <2>3
    <3>2. lastWakeup' = Max(S)
      BY <1>1
    <3> HIDE DEF S
    <3> QED BY <3>1, <3>2, MaxIs
  <2>5. mark' = mark
    BY <1>1, <1>3, FencedStays
  <2>6. inbox' = inbox
    BY <1>1, <2>3
  <2>7. MessageTypes'
    BY <1>1, <1>2, <2>4, <2>5, <2>6 DEF MessageTypes
  <2>8. FencesHold'
    BY <1>1, <2>1, <2>4, <2>5, <2>6 DEF FencesHold
  <2> QED BY <2>7, <2>8 DEF MessageInv
<1>4. CASE ~numbered
  <2>1. /\ N \in SUBSET MessageType /\ IsFiniteSet(N) /\ Cardinality(N) = Cardinality(inbox)
        /\ \A x \in N : /\ x.seq \in 1..Cardinality(inbox) /\ x.old
                        /\ \E m \in inbox : x.id = m.id
        /\ \A x, y \in N : x.id < y.id => x.seq < y.seq
    BY <1>4, NumberedMailIs
  <2>2. lastWakeup = 0 /\ \A t \in Tasks : mark[t] = -1
    BY <1>4 DEF MessageInv, FencesHold
  <2> HIDE DEF N
  <2>3. /\ lastWakeup' \in 0..Cardinality(inbox) /\ lastWakeup' \in Nat
        /\ \A x \in N : x.seq \in 1..lastWakeup'
    <3> DEFINE S == {lastWakeup} \cup {m.seq : m \in N}
    <3>1. S \in SUBSET (0..Cardinality(inbox)) /\ S # {} /\ \A x \in N : x.seq \in S
      BY <1>2, <2>1, <2>2
    <3>2. lastWakeup' = Max(S)
      BY <1>1
    <3> HIDE DEF S
    <3>3. Max(S) \in S /\ \A y \in S : Max(S) >= y
      BY <1>2, <3>1, MaxOfBounded
    <3>4. Max(S) \in 0..Cardinality(inbox) /\ Max(S) \in Nat
      <4>1. Max(S) \in 0..Cardinality(inbox)
        BY <3>1, <3>3
      <4> QED BY <4>1
    <3>5. \A x \in N : x.seq \in 1..Max(S)
      BY <1>2, <2>1, <3>1, <3>3, <3>4
    <3> QED BY <3>2, <3>4, <3>5
  <2>4. ASSUME NEW t \in Tasks
        PROVE  /\ mark'[t] \in 0..lastWakeup'
               /\ state[t] \in Unsuccessful => \A m \in N : m.to = t => m.seq <= mark'[t]
               /\ state[t] \notin Unsuccessful => mark'[t] = 0
    BY <1>1, <2>1, <2>2, <2>3, FencedIs
  <2>5. mark' \in [Tasks -> -1..lastWakeup'] /\ \A t \in Tasks : mark'[t] # -1
    <3>1. mark' = [t \in Tasks |-> mark'[t]]
      BY <1>1 DEF Fenced
    <3>2. \A t \in Tasks : mark'[t] \in -1..lastWakeup' /\ mark'[t] # -1
      BY <2>3, <2>4
    <3> QED BY <3>1, <3>2
  <2>6. MessageTypes'
    <3>1. inbox' \in SUBSET MessageType /\ IsFiniteSet(inbox') /\ Cardinality(inbox') = Cardinality(inbox)
      BY <1>1, <2>1
    <3>2. \A x \in inbox' : x.id <= Cardinality(inbox')
      BY <1>1, <1>2, <2>1, <3>1
    <3>3. lastWakeup' <= Cardinality(inbox')
      BY <1>2, <2>3, <3>1
    <3> QED BY <1>1, <1>2, <2>3, <2>5, <3>1, <3>2, <3>3 DEF MessageTypes
  <2>7. FencesHold'
    <3>1. ASSUME NEW x \in inbox'
          PROVE  /\ x.seq \in 1..lastWakeup'
                 /\ IF x.old /\ state'[x.to] \in Unsuccessful THEN x.seq <= mark'[x.to]
                    ELSE x.seq > mark'[x.to]
      <4>1. x \in N /\ x.to \in Tasks /\ x.old /\ x.seq \in 1..lastWakeup' /\ state' = state
        BY <1>1, <2>1, <2>3 DEF MessageType
      <4>2. CASE state[x.to] \in Unsuccessful
        BY <2>4, <4>1, <4>2
      <4>3. CASE state[x.to] \notin Unsuccessful
        <5>1. mark'[x.to] = 0
          BY <2>4, <4>1, <4>3
        <5>2. x.seq > mark'[x.to]
          BY <2>3, <4>1, <5>1
        <5> QED BY <4>1, <4>3, <5>2
      <4> QED BY <4>2, <4>3
    <3>2. \A x, y \in inbox' : x.id < y.id => x.seq < y.seq
      BY <1>1, <2>1
    <3> QED BY <1>1, <2>5, <3>1, <3>2 DEF FencesHold
  <2> QED BY <2>6, <2>7 DEF MessageInv
<1> QED BY <1>3, <1>4

\* Opening the Task store only sets what is set already.
LEMMA MessagesStand ==
  ASSUME MessageInv, UNCHANGED <<inbox, lastWakeup, numbered, state>>,
         mark' = mark \/ (numbered /\ mark' = Fenced(inbox)),
         stage' \in {"closed", "tasks", "open"}, stage' = "open" => stage = "open"
  PROVE  MessageInv'
<1>1. mark' = mark
  BY FencedStays
<1>2. MessageTypes'
  BY <1>1 DEF MessageInv, MessageTypes
<1>3. FencesHold'
  BY <1>1 DEF MessageInv, FencesHold
<1> QED BY <1>2, <1>3 DEF MessageInv

LEMMA OldRunHolds ==
  ASSUME MessageInv, NEW t \in Tasks, NEW s \in Ended, OldRun(t, s)
  PROVE  MessageInv'
<1>1. /\ ~numbered /\ stage' = stage /\ state' = [state EXCEPT ![t] = s]
      /\ mark' = mark /\ inbox' = inbox /\ lastWakeup' = lastWakeup /\ numbered' = numbered
  BY DEF OldRun
<1>2. state' \in [Tasks -> Ended]
  BY <1>1 DEF MessageInv, MessageTypes
<1>3. MessageTypes'
  BY <1>1, <1>2 DEF MessageInv, MessageTypes
<1>4. FencesHold'
  BY <1>1 DEF MessageInv, FencesHold
<1> QED BY <1>3, <1>4 DEF MessageInv

-----------------------------------------------------------------------------
(* Openings keep what they promise                                          *)

LEMMA UpgradeInitially == UpgradeAssumption /\ UpgradeInit => UpgradeInv
<1> SUFFICES ASSUME UpgradeAssumption, UpgradeInit PROVE UpgradeInv
  OBVIOUS
<1> USE DEF UpgradeInit
<1>1. \A t \in Tasks : row[t] = Nothing /\ json[t] = Nothing /\ mark[t] = -1
  OBVIOUS
<1>2. UpgradeTypes
  <2>1. MaxAsked \in Nat
    BY DEF UpgradeAssumption
  <2> QED BY <2>1 DEF UpgradeTypes
<1>3. WaitersHold /\ SequencesHold
  BY <1>1 DEF WaitersHold, SequencesHold
<1>4. RootHolds
  BY <1>1 DEF RootHolds, RootShowsOldest
<1>5. MessageInv
  <2>1. IsFiniteSet(inbox) /\ Cardinality(inbox) = 0 /\ MaxMessages \in Nat
    BY FS_EmptySet DEF UpgradeAssumption
  <2>2. mark \in [Tasks -> -1..lastWakeup] /\ state \in [Tasks -> Ended]
    BY DEF Ended
  <2>3. MessageTypes
    <3>1. Cardinality(inbox) <= MaxMessages /\ lastWakeup <= Cardinality(inbox) /\ lastWakeup \in Nat
      BY <2>1
    <3>2. inbox \in SUBSET MessageType /\ \A m \in inbox : m.id <= Cardinality(inbox)
      OBVIOUS
    <3>3. stage \in {"closed", "tasks", "open"} /\ numbered \in BOOLEAN /\ (stage = "open" => numbered)
      OBVIOUS
    <3> QED BY ONLY <2>1, <2>2, <3>1, <3>2, <3>3 DEF MessageTypes
  <2>4. FencesHold
    BY <1>1 DEF FencesHold
  <2> QED BY <2>3, <2>4 DEF MessageInv
<1> QED BY <1>2, <1>3, <1>4, <1>5 DEF UpgradeInv, ReviewInv

LEMMA UpgradeInductive == UpgradeAssumption /\ UpgradeInv /\ [UpgradeNext]_upgradeVars => UpgradeInv'
<1> SUFFICES ASSUME UpgradeAssumption, ReviewInv, MessageInv, [UpgradeNext]_upgradeVars
             PROVE  ReviewInv' /\ MessageInv'
  BY DEF UpgradeInv
<1>1. stage \in {"closed", "tasks", "open"}
  BY DEF MessageInv, MessageTypes
<1>2. CASE OpenTasks
  <2>1. MessageInv'
    BY <1>2, MessagesStand DEF OpenTasks
  <2> QED BY <1>2, <2>1, OpenTasksHolds
<1>3. CASE OpenMailbox
  <2>1. ReviewInv'
    BY <1>1, <1>3, ReviewsStand DEF OpenMailbox
  <2> QED BY <1>3, <2>1, OpenMailboxHolds
<1>4. CASE Stop
  <2>1. ReviewInv'
    BY <1>4, ReviewsStand DEF Stop
  <2>2. MessageInv'
    BY <1>4, MessagesStand DEF Stop, Messages
  <2> QED BY <2>1, <2>2
<1>5. ASSUME NEW t \in Tasks,
             Ask(t) \/ Decide(t) \/ OldView(t) \/ OldDecide(t) \/ \E table \in BOOLEAN : OldAsk(t, table)
      PROVE  ReviewInv' /\ MessageInv'
  <2>1. ReviewInv'
    BY <1>5, AskHolds, DecideHolds, OldViewHolds, OldDecideHolds, OldAskHolds
  <2>2. UNCHANGED <<stage, state, mark, inbox, lastWakeup, numbered>>
    BY <1>5 DEF Ask, Decide, OldView, OldDecide, OldAsk, Messages
  <2>3. MessageInv'
    BY <1>1, <2>2, MessagesStand
  <2> QED BY <2>1, <2>3
<1>6. ASSUME NEW t \in Tasks, OldMessage(t) PROVE ReviewInv' /\ MessageInv'
  <2>1. ReviewInv'
    BY <1>1, <1>6, ReviewsStand DEF OldMessage
  <2>2. MessageInv'
    BY <1>6, MessageHolds DEF OldMessage
  <2> QED BY <2>1, <2>2
<1>7. ASSUME NEW t \in Tasks, NewMessage(t) PROVE ReviewInv' /\ MessageInv'
  <2>1. ReviewInv'
    BY <1>1, <1>7, ReviewsStand DEF NewMessage
  <2>2. numbered
    BY <1>7 DEF NewMessage, MessageInv, MessageTypes
  <2>3. MessageInv'
    BY <1>7, <2>2, MessageHolds DEF NewMessage
  <2> QED BY <2>1, <2>3
<1>8. ASSUME NEW t \in Tasks, NEW s \in Ended, OldRun(t, s) PROVE ReviewInv' /\ MessageInv'
  <2>1. ReviewInv'
    BY <1>1, <1>8, ReviewsStand DEF OldRun
  <2> QED BY <1>8, <2>1, OldRunHolds
<1>9. CASE UNCHANGED upgradeVars
  <2>1. UNCHANGED Reviews /\ UNCHANGED <<stage, state, mark, inbox, lastWakeup, numbered>>
    BY <1>9 DEF upgradeVars, Reviews
  <2> QED BY <1>1, <2>1, ReviewsStand, MessagesStand
<1> QED BY <1>2, <1>3, <1>4, <1>5, <1>6, <1>7, <1>8, <1>9 DEF UpgradeNext, Ended

LEMMA UpgradePromises == UpgradeAssumption /\ UpgradeInv => OldRowsAreNumbered
<1> SUFFICES ASSUME UpgradeAssumption, ReviewInv, MessageInv PROVE OldRowsAreNumbered
  BY DEF UpgradeInv
<1>1. /\ lastWakeup \in Nat /\ mark \in [Tasks -> -1..lastWakeup] /\ IsFiniteSet(inbox)
      /\ lastWakeup <= Cardinality(inbox) /\ Cardinality(inbox) <= MaxMessages
      /\ inbox \in SUBSET MessageType /\ state \in [Tasks -> Ended]
      /\ (stage = "open" => numbered) /\ MaxMessages \in Nat /\ Cardinality(inbox) \in Nat
  BY FS_CardinalityType DEF MessageInv, MessageTypes, UpgradeAssumption
<1>2. UpgradeTypeOK
  <2>1. \A t \in Tasks : row[t] # Nothing => row[t].task = t /\ row[t].seq <= high
    BY DEF ReviewInv, WaitersHold
  <2>2. lastWakeup \in 0..MaxMessages
    BY <1>1
  <2>3. stage = "open" => \A t \in Tasks : mark[t] >= 0
    <3>1. ASSUME stage = "open", NEW t \in Tasks PROVE mark[t] >= 0
      <4>1. mark[t] \in -1..lastWakeup /\ mark[t] # -1
        BY <1>1, <3>1 DEF MessageInv, FencesHold
      <4> QED BY <1>1, <4>1
    <3> QED BY <3>1
  <2>4. /\ stage \in {"closed", "tasks", "open"} /\ waiting \subseteq Tasks
        /\ row \in [Tasks -> Review \cup {Nothing}] /\ json \in [Tasks -> Shown \cup {Nothing}]
        /\ high \in 0..asked /\ asked \in 0..MaxAsked
    BY DEF ReviewInv, UpgradeTypes
  <2> QED BY <1>1, <2>1, <2>2, <2>3, <2>4 DEF UpgradeTypeOK
<1>3. \A p \in issued : p[1] \in Nat /\ p[2] \in Nat
  BY DEF ReviewInv, UpgradeTypes
<1>4. \A p, q \in issued : (p[1] < q[1] => p[2] < q[2]) /\ (p[1] = q[1] => p[2] = q[2])
  BY DEF ReviewInv, SequencesHold
<1>5. NeverReused
  <2>1. ASSUME NEW p \in issued, NEW q \in issued PROVE (p[1] = q[1]) <=> (p[2] = q[2])
    <3>1. p[1] < q[1] \/ p[1] = q[1] \/ q[1] < p[1]
      BY <1>3
    <3> QED BY <1>3, <1>4, <3>1
  <2> QED BY <2>1 DEF NeverReused
<1>6. EveryReviewListed
  <2>1. ASSUME stage # "closed", NEW t \in waiting PROVE row[t] # Nothing /\ row[t].seq > 0
    BY <2>1 DEF ReviewInv, WaitersHold
  <2> QED BY <2>1 DEF EveryReviewListed
<1>7. OldestFirst
  <2>1. ASSUME stage # "closed", NEW p \in RowSet(row), NEW q \in RowSet(row), p.id < q.id
        PROVE  p.seq < q.seq
    <3>1. row \in [Tasks -> Review \cup {Nothing}] /\ \A t \in Tasks : row[t] # Nothing => t \in waiting
      BY DEF ReviewInv, UpgradeTypes, WaitersHold
    <3>2. PICK t \in waiting : p = row[t]
      BY <3>1, RowsAre
    <3>3. PICK u \in waiting : q = row[u]
      BY <3>1, RowsAre
    <3>4. <<p.id, p.seq>> \in issued /\ <<q.id, q.seq>> \in issued
      BY <2>1, <3>2, <3>3, AllNumbered
    <3>5. <<p.id, p.seq>>[1] < <<q.id, q.seq>>[1] => <<p.id, p.seq>>[2] < <<q.id, q.seq>>[2]
      BY <1>4, <3>4
    <3> QED BY <2>1, <3>5
  <2> QED BY <2>1 DEF OldestFirst
<1>8. RootShowsOldest
  BY DEF ReviewInv, RootHolds
<1>9. OldInputIsFenced
  <2>1. ASSUME stage = "open", NEW m \in inbox
        PROVE  /\ state[m.to] \in Unsuccessful /\ m.old => m.seq <= mark[m.to]
               /\ ~m.old \/ state[m.to] = "completed" => m.seq > mark[m.to]
    <3>1. IF m.old /\ state[m.to] \in Unsuccessful THEN m.seq <= mark[m.to] ELSE m.seq > mark[m.to]
      BY <1>1, <2>1 DEF MessageInv, FencesHold
    <3>2. state[m.to] = "completed" => state[m.to] \notin Unsuccessful
      BY DEF Unsuccessful
    <3> QED BY <3>1, <3>2
  <2> QED BY <2>1 DEF OldInputIsFenced
<1>10. OrderIsKept
  BY DEF MessageInv, FencesHold, OrderIsKept
<1> QED BY <1>2, <1>5, <1>6, <1>7, <1>8, <1>9, <1>10 DEF OldRowsAreNumbered

\* However often the present and the old release take turns on one database, and
\* wherever an opening breaks off between its two stores: no sequence is given to two
\* reviews, every waiting review of an opened database is listed in the old order, the
\* root shows the oldest one, messages keep their order, and a broken run's old
\* messages and no others are fenced.
THEOREM OldRowsStayNumbered == UpgradeAssumption => (UpgradeSpec => []OldRowsAreNumbered)
<1> SUFFICES ASSUME UpgradeAssumption PROVE UpgradeSpec => []OldRowsAreNumbered
  OBVIOUS
<1>1. UpgradeInit => UpgradeInv
  BY UpgradeInitially
<1>2. UpgradeInv /\ [UpgradeNext]_upgradeVars => UpgradeInv'
  BY UpgradeInductive
<1>3. UpgradeInv => OldRowsAreNumbered
  BY UpgradePromises
<1> QED BY <1>1, <1>2, <1>3, PTL DEF UpgradeSpec
=============================================================================
