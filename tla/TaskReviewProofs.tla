-------------------------- MODULE TaskReviewProofs --------------------------
(***************************************************************************)
(* Proofs about the reviews: how they are kept (TaskReview), what they are  *)
(* asked for (ToolApproval) and how a client lists them (ReviewListing).    *)
(*                                                                          *)
(* For any tree of Tasks, any number of reviews and runs, and however many  *)
(* transactions fail or processes die, the rows and the records in memory   *)
(* say the same, the root shows the oldest review of the tree, and a        *)
(* decision resumes one run.  And whatever calls the model proposes,        *)
(* however often after_model is replayed and whatever the humans answer,    *)
(* the tools run nothing that is neither allowed nor approved.  And a walk  *)
(* through the pages shows every review that is pending all along, once.    *)
(***************************************************************************)
EXTENDS TaskReview, ToolApproval, ReviewListing, FiniteSetTheorems, WellFoundedInduction, TLAPS

(* The inductive invariant: what the runs check, and that ids are minted    *)
(* once.                                                                    *)

\* Every review there is was minted, and none comes back when it was decided.
MintedOnce ==
  /\ made <= MaxReviews
  /\ \A t \in Task : table[t].id <= made
  /\ \A i \in 1..MaxReviews : used[i] # 0 => i <= made /\ \A t \in Task : table[t].id # i

IInv == ReviewsAgree /\ MintedOnce

----------------------------------------------------------------------------
(* The oldest review                                                        *)

\* A set of numbers that is not empty has a least one.
LEMMA LeastNumber ==
  ASSUME NEW S \in SUBSET Nat, S # {}
  PROVE  \E m \in S : \A n \in S : m <= n
<1>1. IsWellFoundedOn(OpToRel(<, Nat), Nat)
  BY NatLessThanWellFounded
<1>2. PICK m \in S : \A n \in S : ~(<<n, m>> \in OpToRel(<, Nat))
  BY <1>1, WFMin, Zenon
<1>3. \A n \in S : ~(n < m)
  BY <1>2 DEF OpToRel
<1> QED BY <1>3

\* Reviews that are pending have an oldest one (_project_root_review).
LEMMA OldestExists ==
  ASSUME NEW S \in SUBSET Review, S # {}
  PROVE  \E r \in S : \A s \in S : Before(r, s)
<1> DEFINE Born == {s.born : s \in S}
<1>1. Born \in SUBSET Nat /\ Born # {}
  BY DEF Review
<1>2. PICK first \in Born : \A n \in Born : first <= n
  <2> HIDE DEF Born
  <2> QED BY <1>1, LeastNumber
<1> DEFINE Firsts == {s \in S : s.born = first}
           Numbers == {s.id : s \in Firsts}
<1>3. Numbers \in SUBSET Nat /\ Numbers # {}
  BY <1>2 DEF Review
<1>4. PICK low \in Numbers : \A n \in Numbers : low <= n
  <2> HIDE DEF Numbers
  <2> QED BY <1>3, LeastNumber
<1>5. PICK r \in Firsts : r.id = low
  OBVIOUS
<1>6. ASSUME NEW s \in S PROVE Before(r, s)
  <2>1. /\ first <= s.born /\ first \in Nat /\ s.born \in Nat /\ r.born = first
        /\ s.born = first => r.id <= s.id
    BY <1>2, <1>4, <1>5, <1>1 DEF Review
  <2> QED BY <2>1 DEF Before
<1> QED BY <1>5, <1>6

\* What the root shows: nothing, exactly when no Task owns a review; else a review
\* that a Task of the tree owns, none of which was created before it.
LEMMA OldestIsOldest ==
  ASSUME NEW tab \in [Task -> Review]
  PROVE  /\ Oldest(tab) \in Nat
         /\ (Oldest(tab) = 0) <=> (\A t \in Task : tab[t].id = 0)
         /\ Oldest(tab) # 0 => \E t \in Task :
              /\ tab[t].id = Oldest(tab)
              /\ \A u \in Task : tab[u].id # 0 => Before(tab[t], tab[u])
<1> DEFINE pending == {tab[t] : t \in {x \in Task : tab[x].id # 0}}
<1>1. CASE pending = {}
  <2>1. Oldest(tab) = 0
    BY <1>1 DEF Oldest
  <2>2. \A t \in Task : tab[t].id = 0
    BY <1>1
  <2> QED BY <2>1, <2>2
<1>2. CASE pending # {}
  <2>1. pending \in SUBSET Review
    OBVIOUS
  <2> DEFINE first == CHOOSE r \in pending : \A s \in pending : Before(r, s)
  <2>2. first \in pending /\ \A s \in pending : Before(first, s)
    <3>1. \E r \in pending : \A s \in pending : Before(r, s)
      <4> HIDE DEF pending
      <4> QED BY <1>2, <2>1, OldestExists
    <3> HIDE DEF pending
    <3> QED BY <3>1
  <2>3. Oldest(tab) = first.id
    BY <1>2 DEF Oldest
  <2>4. PICK t \in Task : tab[t] = first /\ tab[t].id # 0
    <3> HIDE DEF first
    <3> QED BY <2>2
  <2>5. \A u \in Task : tab[u].id # 0 => Before(tab[t], tab[u])
    <3> HIDE DEF first
    <3> QED BY <2>2, <2>4
  <2>6. tab[t].id \in Nat
    BY DEF Review
  <2> HIDE DEF first, pending
  <2> QED BY <2>3, <2>4, <2>5, <2>6
<1> QED BY <1>1, <1>2

----------------------------------------------------------------------------
(* One transition                                                           *)

\* What a Task's new record and the review it then owns must be like.
Proper(t, record, review) ==
  /\ t \in Task /\ record \in Record /\ review \in Review
  /\ t \in Own => (record.st = "waiting" <=> review.id # 0)
  /\ review.id # 0 => \A u \in Task \ {t} : table[u].id # review.id

\* A transition that is committed leaves rows and memory that agree, whichever Task
\* it is about, the root included.
LEMMA CommittedAgrees ==
  ASSUME ConstantsAssumption, IInv, NEW t, NEW record, NEW review,
         Proper(t, record, review), Succeeds(t, record, review)
  PROVE  /\ mem' \in [Task -> Record] /\ row' = mem'
         /\ table' = [table EXCEPT ![t] = review] /\ table' \in [Task -> Review]
         /\ \A x, y \in Task : table'[x].id = table'[y].id /\ table'[x].id # 0 => x = y
         /\ MirrorIsOldest' /\ WaitsForItsReview'
<1> DEFINE tab == [table EXCEPT ![t] = review]
           records == Projected([mem EXCEPT ![t] = record], tab)
<1>1. /\ mem \in [Task -> Record] /\ row = mem /\ table \in [Task -> Review]
      /\ \A x, y \in Task : table[x].id = table[y].id /\ table[x].id # 0 => x = y
      /\ WaitsForItsReview
  BY DEF IInv, ReviewsAgree, TypeOK, MemoryIsRow
<1>2. t \in Task /\ record \in Record /\ review \in Review /\ Root \in Own /\ Root \in Task
  BY DEF Proper, Own, Task
<1>3. /\ mem' = records /\ table' = tab
      /\ row' = [row EXCEPT ![t] = records[t], ![Root] = records[Root]]
  BY DEF Succeeds
<1>4. tab \in [Task -> Review]
  BY <1>1, <1>2
<1>5. Oldest(tab) \in Nat
  BY <1>4, OldestIsOldest
<1>6. records \in [Task -> Record] /\ records[Root].shown = Oldest(tab)
  BY <1>1, <1>2, <1>5 DEF Projected, Record
<1>7. \A x \in Task : records[x].st = IF x = t THEN record.st ELSE mem[x].st
  BY <1>1, <1>2, <1>5 DEF Projected, Record
<1>8. row' = records
  <2>1. ASSUME NEW x \in Task, x # t, x # Root PROVE records[x] = row[x]
    BY <1>1, <1>2, <2>1 DEF Projected
  <2> HIDE DEF records
  <2> QED BY <1>1, <1>2, <1>3, <1>6, <2>1
<1>9. \A x, y \in Task : tab[x].id = tab[y].id /\ tab[x].id # 0 => x = y
  BY <1>1, <1>2 DEF Proper
<1>10. \A x \in Own : (records[x].st = "waiting") <=> (tab[x].id # 0)
  BY <1>1, <1>2, <1>7 DEF WaitsForItsReview, Proper, Task
<1> HIDE DEF records
<1> QED BY <1>3, <1>4, <1>6, <1>8, <1>9, <1>10 DEF MirrorIsOldest, WaitsForItsReview

\* A transition that fails is not seen: the records of its Task and of the root are
\* put back, and no other was touched.
LEMMA FailedIsUndone ==
  ASSUME ConstantsAssumption, IInv, NEW t \in Task, NEW record, NEW review,
         Fails(t, record, review)
  PROVE  UNCHANGED <<mem, row, table>> /\ faults' \in Nat
<1>1. mem \in [Task -> Record] /\ faults \in Nat /\ Root \in Task
  BY DEF IInv, ReviewsAgree, TypeOK, Own, Task
<1>2. mem' = Restored(Projected([mem EXCEPT ![t] = record], [table EXCEPT ![t] = review]), t)
  BY DEF Fails
<1>3. mem' = mem
  BY <1>1, <1>2 DEF Restored, Projected
<1> QED BY <1>1, <1>3 DEF Fails

\* What a committed transition, or one that failed, owes to the invariant besides.
LEMMA StepKeepsInvariant ==
  ASSUME ConstantsAssumption, IInv, NEW t, NEW record, NEW review,
         Proper(t, record, review),
         \/ Succeeds(t, record, review)
         \/ Fails(t, record, review),
         made' \in Nat, made' >= made, made' <= MaxReviews, review.id <= made',
         live' \subseteq Own, faults' \in Nat, used' = used,
         review.id \in 1..MaxReviews => used[review.id] = 0
  PROVE  IInv'
<1>1. /\ mem \in [Task -> Record] /\ row = mem /\ table \in [Task -> Review]
      /\ made \in Nat /\ used \in [1..MaxReviews -> Nat] /\ MintedOnce /\ DecidedOnce
      /\ MaxReviews \in Nat /\ t \in Task /\ review \in Review
  BY DEF IInv, ReviewsAgree, TypeOK, MemoryIsRow, Proper, ConstantsAssumption
<1>2. \A x \in Task : table[x].id \in Nat
  BY <1>1 DEF Review
<1>3. review.id \in Nat
  BY <1>1 DEF Review
<1>4. CASE Succeeds(t, record, review)
  <2>1. /\ mem' \in [Task -> Record] /\ row' = mem'
        /\ table' = [table EXCEPT ![t] = review] /\ table' \in [Task -> Review]
        /\ \A x, y \in Task : table'[x].id = table'[y].id /\ table'[x].id # 0 => x = y
        /\ MirrorIsOldest' /\ WaitsForItsReview'
    BY <1>4, CommittedAgrees
  <2>2. TypeOK' /\ DecidedOnce' /\ MemoryIsRow'
    BY <1>1, <2>1 DEF TypeOK, DecidedOnce, MemoryIsRow
  <2>3. \A x \in Task : table'[x].id <= made'
    BY <1>1, <1>2, <1>3, <2>1 DEF MintedOnce
  <2>4. ASSUME NEW i \in 1..MaxReviews, used'[i] # 0
        PROVE  i <= made' /\ \A x \in Task : table'[x].id # i
    BY <1>1, <1>3, <2>1, <2>4 DEF MintedOnce
  <2> QED BY <2>1, <2>2, <2>3, <2>4 DEF IInv, ReviewsAgree, MintedOnce
<1>5. CASE Fails(t, record, review)
  <2>1. UNCHANGED <<mem, row, table>>
    BY <1>1, <1>5, FailedIsUndone
  <2>2. TypeOK' /\ MirrorIsOldest' /\ MemoryIsRow' /\ WaitsForItsReview' /\ DecidedOnce'
    BY <2>1 DEF IInv, ReviewsAgree, TypeOK, MirrorIsOldest, MemoryIsRow, WaitsForItsReview,
       DecidedOnce, Oldest
  <2>3. MintedOnce'
    BY <1>1, <1>2, <2>1 DEF MintedOnce
  <2> QED BY <2>2, <2>3 DEF IInv, ReviewsAgree
<1> QED BY <1>4, <1>5

----------------------------------------------------------------------------
(* The steps                                                                *)

\* The parts of the invariant the steps use, in one place.
LEMMA Facts ==
  ASSUME ConstantsAssumption, IInv
  PROVE  /\ mem \in [Task -> Record] /\ row = mem /\ table \in [Task -> Review]
         /\ made \in Nat /\ live \subseteq Own /\ used \in [1..MaxReviews -> Nat]
         /\ faults \in Nat /\ MaxReviews \in Nat /\ MaxRuns \in Nat /\ made <= MaxReviews
         /\ Root \in Own /\ Own \subseteq Task /\ Own \intersect Remotes = {}
         /\ NoReview \in Review /\ NoReview.id = 0
         /\ \A t \in Task : Running(t) \in Record /\ Running(t).st = "running"
         /\ \A t \in Task : Over(t) \in Record /\ Over(t).st = "idle"
         /\ \A t \in Task : table[t].id \in Nat /\ table[t].id <= made
         /\ \A i \in 1..MaxReviews : used[i] # 0 => i <= made /\ \A t \in Task : table[t].id # i
<1>1. /\ mem \in [Task -> Record] /\ row = mem /\ table \in [Task -> Review]
      /\ made \in Nat /\ live \subseteq Own /\ used \in [1..MaxReviews -> Nat]
      /\ faults \in Nat /\ MaxReviews \in Nat /\ MaxRuns \in Nat /\ made <= MaxReviews
      /\ Root \in Own /\ Own \subseteq Task /\ Own \intersect Remotes = {}
  BY DEF IInv, ReviewsAgree, TypeOK, MemoryIsRow, MintedOnce, ConstantsAssumption, Own, Task
<1>2. NoReview \in Review /\ NoReview.id = 0
  BY DEF NoReview, Review
<1>3. ASSUME NEW t \in Task PROVE Running(t) \in Record /\ Running(t).st = "running"
  <2>1. mem[t] \in Record
    BY <1>1
  <2> DEFINE old == mem[t]
             number == old.run + 1
             next == [old EXCEPT !.st = "running", !.run = number]
  <2>2. Running(t) = [next EXCEPT !.shown = 0]
    BY <2>1 DEF Running, Record
  <2>3. old \in Record /\ number \in Nat
    BY <2>1 DEF Record
  <2> HIDE DEF old, number
  <2>4. next \in Record /\ next.st = "running"
    BY <2>3 DEF Record
  <2> HIDE DEF next
  <2> QED BY <2>2, <2>4 DEF Record
<1>4. ASSUME NEW t \in Task PROVE Over(t) \in Record /\ Over(t).st = "idle"
  <2>1. mem[t] \in Record
    BY <1>1
  <2> QED BY <2>1 DEF Over, Record
<1>5. \A t \in Task : table[t].id \in Nat /\ table[t].id <= made
  BY <1>1 DEF Review, IInv, MintedOnce
<1>6. \A i \in 1..MaxReviews : used[i] # 0 => i <= made /\ \A t \in Task : table[t].id # i
  BY DEF IInv, MintedOnce
<1> QED BY <1>1, <1>2, <1>3, <1>4, <1>5, <1>6

\* A run starts, ends or is cancelled: its Task owns no review afterwards.
LEMMA NoReviewIsProper ==
  ASSUME ConstantsAssumption, IInv, NEW t \in Task
  PROVE  Proper(t, Running(t), NoReview) /\ Proper(t, Over(t), NoReview)
BY Facts DEF Proper

LEMMA StartRunKeeps ==
  ASSUME ConstantsAssumption, IInv, NEW t \in Task, StartRun(t)
  PROVE  IInv'
<1>1. \/ Succeeds(t, Running(t), NoReview) /\ live' = live \union {t} /\ UNCHANGED faults
      \/ Fails(t, Running(t), NoReview) /\ UNCHANGED live
  BY DEF StartRun
<1>2. live' \subseteq Own /\ UNCHANGED <<made, used>>
  BY Facts DEF StartRun
<1>3. faults' \in Nat
  BY <1>1, FailedIsUndone, Facts
<1>4. Proper(t, Running(t), NoReview)
  BY NoReviewIsProper
<1>5. NoReview.id = 0 /\ made \in Nat /\ made <= MaxReviews
  BY Facts
<1> QED BY <1>1, <1>2, <1>3, <1>4, <1>5, StepKeepsInvariant

\* A fresh review is minted also when its Task cannot be saved.
LEMMA AskForReviewKeeps ==
  ASSUME ConstantsAssumption, IInv, NEW t \in Task, AskForReview(t)
  PROVE  IInv'
<1>1. /\ made' = made + 1 /\ made < MaxReviews /\ UNCHANGED <<live, used>>
      /\ \/ Succeeds(t, Asked(t), Fresh) /\ UNCHANGED faults
         \/ Succeeds(t, Over(t), NoReview) /\ faults' = faults + 1
         \/ Fails(t, Asked(t), Fresh)
  BY DEF AskForReview
<1>2. /\ made \in Nat /\ MaxReviews \in Nat /\ faults \in Nat /\ live \subseteq Own
      /\ NoReview.id = 0
  BY Facts
<1>3. Proper(t, Asked(t), Fresh)
  <2>1. Asked(t) \in Record /\ Asked(t).st = "waiting"
    <3>1. mem[t] \in Record
      BY Facts
    <3> DEFINE old == mem[t]
               number == made + 1
    <3>2. Asked(t) = [old EXCEPT !.st = "waiting", !.shown = number]
      BY DEF Asked
    <3>3. number \in Nat
      BY <1>2
    <3> HIDE DEF old, number
    <3> QED BY <3>1, <3>2, <3>3 DEF Record, old
  <2>2. Fresh \in Review /\ Fresh.id = made + 1
    BY <1>2 DEF Fresh, Review
  <2>3. \A u \in Task : table[u].id # Fresh.id
    BY <1>2, <2>2, Facts
  <2> QED BY <1>2, <2>1, <2>2, <2>3 DEF Proper
<1>4. used[made + 1] = 0
  BY <1>1, <1>2, Facts
<1>5. faults' \in Nat
  BY <1>1, <1>2, FailedIsUndone
<1>6. Fresh.id = made + 1
  BY DEF Fresh
<1>7. CASE Succeeds(t, Asked(t), Fresh) \/ Fails(t, Asked(t), Fresh)
  BY <1>1, <1>2, <1>3, <1>4, <1>5, <1>6, <1>7, StepKeepsInvariant
<1>8. CASE Succeeds(t, Over(t), NoReview)
  BY <1>1, <1>2, <1>5, <1>8, NoReviewIsProper, StepKeepsInvariant
<1> QED BY <1>1, <1>7, <1>8

LEMMA OverKeeps ==
  ASSUME ConstantsAssumption, IInv, NEW t \in Task, EndRun(t) \/ CancelWaiting(t)
  PROVE  IInv'
<1>1. /\ UNCHANGED <<made, live, used>>
      /\ \/ Succeeds(t, Over(t), NoReview) /\ UNCHANGED faults
         \/ Fails(t, Over(t), NoReview)
  BY DEF EndRun, CancelWaiting
<1>2. faults' \in Nat
  BY <1>1, FailedIsUndone, Facts
<1>3. Proper(t, Over(t), NoReview)
  BY NoReviewIsProper
<1>4. NoReview.id = 0 /\ made \in Nat /\ made <= MaxReviews /\ live \subseteq Own
  BY Facts
<1> QED BY <1>1, <1>2, <1>3, <1>4, StepKeepsInvariant

\* The decision of a review starts a run and removes the review in one transaction,
\* so nothing can decide it again.
LEMMA DecideKeeps ==
  ASSUME ConstantsAssumption, IInv, NEW t \in Task, Decide(t)
  PROVE  IInv'
<1>1. /\ t \in Own /\ table[t].id # 0 /\ UNCHANGED made
      /\ \/ /\ Succeeds(t, Running(t), NoReview) /\ live' = live \union {t}
            /\ used' = [used EXCEPT ![table[t].id] = @ + 1] /\ UNCHANGED faults
         \/ Fails(t, Running(t), NoReview) /\ UNCHANGED <<live, used>>
  BY DEF Decide
<1>2. Proper(t, Running(t), NoReview)
  BY NoReviewIsProper
<1>3. NoReview.id = 0 /\ made \in Nat /\ made <= MaxReviews /\ live \subseteq Own
  BY Facts
<1>4. CASE Fails(t, Running(t), NoReview) /\ UNCHANGED <<live, used>>
  <2>1. faults' \in Nat
    BY <1>4, FailedIsUndone
  <2> QED BY <1>1, <1>2, <1>3, <1>4, <2>1, StepKeepsInvariant
<1>5. CASE /\ Succeeds(t, Running(t), NoReview) /\ live' = live \union {t}
           /\ used' = [used EXCEPT ![table[t].id] = @ + 1] /\ UNCHANGED faults
  <2>1. /\ mem' \in [Task -> Record] /\ row' = mem'
        /\ table' = [table EXCEPT ![t] = NoReview] /\ table' \in [Task -> Review]
        /\ \A x, y \in Task : table'[x].id = table'[y].id /\ table'[x].id # 0 => x = y
        /\ MirrorIsOldest' /\ WaitsForItsReview'
    BY <1>2, <1>5, CommittedAgrees
  <2>2. table[t].id \in 1..MaxReviews /\ used[table[t].id] = 0
    BY <1>1, Facts
  <2>3. used' \in [1..MaxReviews -> Nat] /\ DecidedOnce'
    BY <1>5, <2>2, Facts DEF IInv, ReviewsAgree, DecidedOnce
  <2>4. TypeOK' /\ MemoryIsRow'
    BY <1>1, <1>5, <2>1, <2>3, Facts DEF TypeOK, MemoryIsRow
  <2>5. \A x \in Task : table'[x].id <= made'
    BY <1>1, <1>3, <2>1, Facts
  <2>6. ASSUME NEW i \in 1..MaxReviews, used'[i] # 0
        PROVE  i <= made' /\ \A x \in Task : table'[x].id # i
    <3>1. CASE i = table[t].id
      BY <1>1, <1>3, <2>1, <2>2, <3>1, Facts DEF IInv, ReviewsAgree, TypeOK
    <3>2. CASE i # table[t].id
      BY <1>1, <1>3, <1>5, <2>1, <2>6, <3>2, Facts
    <3> QED BY <3>1, <3>2
  <2> QED BY <1>1, <1>3, <2>1, <2>3, <2>4, <2>5, <2>6 DEF IInv, ReviewsAgree, MintedOnce
<1> QED BY <1>1, <1>4, <1>5

\* Whatever another Gateway says of its Task, only a review that no other Task owns
\* becomes the Task's, and never one that was decided here.
LEMMA SyncRemoteKeeps ==
  ASSUME ConstantsAssumption, IInv, NEW t \in Task, SyncRemote(t)
  PROVE  IInv'
<1>1. PICK st \in {"idle", "running", "waiting"}, run \in 1..MaxRuns,
           id \in {0, made + 1} \union {table[u].id : u \in Remotes}, born \in 1..MaxReviews :
        /\ t \in Remotes
        /\ id <= MaxReviews /\ ~Taken(t, st, id)
        /\ made' = IF id > made THEN id ELSE made
        /\ \/ Succeeds(t, Told(t, st, run, id), Owned(t, st, id, born)) /\ UNCHANGED faults
           \/ Fails(t, Told(t, st, run, id), Owned(t, st, id, born))
        /\ UNCHANGED <<live, used>>
  BY DEF SyncRemote
<1> DEFINE record == Told(t, st, run, id)
           review == Owned(t, st, id, born)
<1>2. Remotes \subseteq Task /\ t \notin Own
  BY <1>1, Facts DEF Task
<1>3. id \in Nat /\ run \in Nat /\ born \in Nat
  BY <1>1, <1>2, Facts
<1>4. record \in Record
  BY <1>3 DEF Told, Record
<1>5. review \in Review /\ review.id \in {0, id}
  BY <1>3, Facts DEF Owned, NoReview, Review
<1>6. review.id # 0 => \A u \in Task \ {t} : table[u].id # review.id
  BY <1>1, <1>5 DEF Taken, Owned, NoReview
<1>7. Proper(t, record, review)
  BY <1>2, <1>4, <1>5, <1>6 DEF Proper
<1>8. made' \in Nat /\ made' >= made /\ made' <= MaxReviews /\ review.id <= made'
  BY <1>1, <1>3, <1>5, Facts
<1>9. id \in 1..MaxReviews => used[id] = 0
  <2>1. CASE id = made + 1
    BY <2>1, Facts
  <2>2. CASE \E u \in Remotes : id = table[u].id
    BY <1>2, <2>2, Facts
  <2> QED BY <1>1, <2>1, <2>2
<1>10. faults' \in Nat /\ live' \subseteq Own
  BY <1>1, FailedIsUndone, Facts
<1>11. review.id \in 1..MaxReviews => used[review.id] = 0
  BY <1>5, <1>9
<1>12. Succeeds(t, record, review) \/ Fails(t, record, review)
  BY <1>1
<1>13. used' = used
  BY <1>1
<1> HIDE DEF record, review
<1> QED BY <1>7, <1>8, <1>10, <1>11, <1>12, <1>13, StepKeepsInvariant

\* Only states change, and in memory and rows alike: of a remote Task, or from
\* running to idle.
LEMMA StatesKeep ==
  ASSUME ConstantsAssumption, IInv, mem' \in [Task -> Record], row' = mem',
         mem'[Root].shown = mem[Root].shown,
         \A t \in Own : (mem'[t].st = "waiting") <=> (mem[t].st = "waiting"),
         UNCHANGED <<table, made, used>>, live' \subseteq Own, faults' \in Nat
  PROVE  IInv'
<1>1. TypeOK' /\ MemoryIsRow' /\ DecidedOnce'
  BY Facts DEF IInv, ReviewsAgree, TypeOK, MemoryIsRow, DecidedOnce
<1>2. MirrorIsOldest' /\ WaitsForItsReview'
  <2>1. row'[Root].shown = row[Root].shown /\ table' = table
        /\ \A t \in Own : (row'[t].st = "waiting") <=> (row[t].st = "waiting")
    BY Facts
  <2>2. MirrorIsOldest /\ WaitsForItsReview
    BY DEF IInv, ReviewsAgree
  <2>3. MirrorIsOldest'
    BY <2>1, <2>2 DEF MirrorIsOldest
  <2>4. WaitsForItsReview'
    BY <2>1, <2>2 DEF WaitsForItsReview
  <2> QED BY <2>3, <2>4
<1>3. MintedOnce'
  BY DEF IInv, MintedOnce
<1> QED BY <1>1, <1>2, <1>3 DEF IInv, ReviewsAgree

LEMMA UncertainKeeps ==
  ASSUME ConstantsAssumption, IInv, NEW t \in Task, Uncertain(t)
  PROVE  IInv'
<1>1. /\ t \in Remotes /\ mem' = [mem EXCEPT ![t].st = "idle"]
      /\ row' = [row EXCEPT ![t] = mem'[t]] /\ UNCHANGED <<table, made, live, used, faults>>
  BY DEF Uncertain
<1>2. mem' \in [Task -> Record] /\ row' = mem'
  BY <1>1, Facts DEF Record
<1>3. \A u \in Own : mem'[u] = mem[u]
  BY <1>1, Facts
<1> QED BY <1>1, <1>2, <1>3, StatesKeep, Facts

\* A run that did not live is read back as interrupted.
LEMMA ReloadedKeeps ==
  ASSUME ConstantsAssumption, IInv, NEW t \in Task
  PROVE  /\ Reloaded(t) \in Record /\ Reloaded(t).shown = mem[t].shown
         /\ (Reloaded(t).st = "waiting") <=> (mem[t].st = "waiting")
BY Facts DEF Reloaded, Record

LEMMA ReloadKeeps ==
  ASSUME ConstantsAssumption, IInv, Reload \/ Restart
  PROVE  IInv'
<1>1. /\ mem' \in [Task -> Record] /\ row' = mem'
      /\ \A t \in Task : mem'[t] = mem[t] \/ mem'[t] = Reloaded(t)
  BY ReloadedKeeps, Facts DEF Reload, Restart
<1>2. UNCHANGED <<table, made, used>> /\ live' \subseteq Own /\ faults' \in Nat
  BY Facts DEF Reload, Restart
<1>3. \A t \in Task : /\ mem'[t].shown = mem[t].shown
                      /\ (mem'[t].st = "waiting") <=> (mem[t].st = "waiting")
  BY <1>1, ReloadedKeeps
<1> QED BY <1>1, <1>2, <1>3, StatesKeep, Facts

LEMMA RunDoneKeeps ==
  ASSUME ConstantsAssumption, IInv, NEW t \in Task, RunDone(t)
  PROVE  IInv'
BY StatesKeep, Facts DEF RunDone

LEMMA InitHolds ==
  ASSUME ConstantsAssumption, Init
  PROVE  IInv
<1>1. table \in [Task -> Review] /\ \A t \in Task : table[t].id = 0
  BY DEF Init, NoReview, Review
<1>2. Oldest(table) = 0
  BY <1>1, OldestIsOldest
<1>3. Root \in Task
  BY DEF Own, Task
<1>4. TypeOK
  BY <1>1 DEF Init, TypeOK, Record
<1>5. MirrorIsOldest /\ MemoryIsRow /\ WaitsForItsReview /\ DecidedOnce
  BY <1>1, <1>2, <1>3 DEF Init, MirrorIsOldest, MemoryIsRow, WaitsForItsReview, DecidedOnce,
     Own, Task
<1>6. MintedOnce
  BY <1>1 DEF Init, MintedOnce, ConstantsAssumption
<1> QED BY <1>4, <1>5, <1>6 DEF IInv, ReviewsAgree

LEMMA NextKeeps ==
  ASSUME ConstantsAssumption, IInv, [Next]_vars
  PROVE  IInv'
<1>1. CASE Reload \/ Restart
  BY <1>1, ReloadKeeps
<1>2. ASSUME NEW t \in Task,
             \/ StartRun(t) \/ AskForReview(t) \/ EndRun(t) \/ RunDone(t) \/ Decide(t)
             \/ CancelWaiting(t) \/ SyncRemote(t) \/ Uncertain(t)
      PROVE  IInv'
  BY <1>2, StartRunKeeps, AskForReviewKeeps, OverKeeps, RunDoneKeeps, DecideKeeps,
     SyncRemoteKeeps, UncertainKeeps
<1>3. CASE UNCHANGED vars
  BY <1>3, StatesKeep, Facts DEF vars
<1> QED BY <1>1, <1>2, <1>3 DEF Next, TaskStep

\* Whatever order reviews are asked for, decided, cancelled and synchronised in, and
\* however often a transaction fails or the process dies: memory is what the rows
\* say, the root shows the oldest review of its tree, a local Task waits exactly as
\* long as it owns a review, and a decision resumes one run.
THEOREM ReviewsAlwaysAgree ==
  ASSUME ConstantsAssumption
  PROVE  Spec => []ReviewsAgree
<1>1. Init => IInv
  BY InitHolds
<1>2. IInv /\ [Next]_vars => IInv'
  BY NextKeeps
<1>3. IInv => ReviewsAgree
  BY DEF IInv
<1> QED BY <1>1, <1>2, <1>3, PTL DEF Spec

----------------------------------------------------------------------------
(* Tool calls and approvals.                                               *)

\* The calls asked about have the places 1, 2, ... of the answers, one each.
LEMMA PlacesDiffer ==
  ASSUME NEW n \in Nat, NEW S \in SUBSET (1..n)
  PROVE  /\ IsFiniteSet(S) /\ Cardinality(S) \in Nat
         /\ \A c \in S : Place(c, S) \in 1..Cardinality(S)
         /\ \A c, d \in S : Place(c, S) = Place(d, S) => c = d
<1>1. IsFiniteSet(S) /\ Cardinality(S) \in Nat
  <2>1. IsFiniteSet(1..n)
    BY FS_Interval
  <2>2. IsFiniteSet(S)
    BY <2>1, FS_Subset
  <2> QED BY <2>2, FS_CardinalityType
<1> DEFINE Up(c) == {d \in S : d <= c}
<1>2. ASSUME NEW c \in S
      PROVE  /\ IsFiniteSet(Up(c)) /\ Cardinality(Up(c)) \in 1..Cardinality(S) /\ c \in Up(c)
             /\ Place(c, S) = Cardinality(Up(c))
  <2>1. c \in Up(c) /\ Up(c) \in SUBSET S
    OBVIOUS
  <2>2. IsFiniteSet(Up(c)) /\ Cardinality(Up(c)) <= Cardinality(S) /\ Cardinality(Up(c)) \in Nat
    BY <1>1, <2>1, FS_Subset, FS_CardinalityType
  <2>3. Cardinality(Up(c)) # 0
    BY <2>1, <2>2, FS_EmptySet
  <2>4. Place(c, S) = Cardinality(Up(c))
    BY DEF Place
  <2> HIDE DEF Up
  <2> QED BY <1>1, <2>1, <2>2, <2>3, <2>4
<1>3. ASSUME NEW c \in S, NEW d \in S, c < d PROVE Place(c, S) # Place(d, S)
  <2>1. Up(c) \in SUBSET Up(d) /\ d \in Up(d) /\ d \notin Up(c)
    <3>1. \A e \in S : e \in Nat
      OBVIOUS
    <3>2. \A e \in S : e <= c => e <= d
      BY <1>3, <3>1
    <3>3. d <= d /\ ~(d <= c)
      BY <1>3, <3>1
    <3> QED BY <3>2, <3>3
  <2> HIDE DEF Up
  <2>2. Up(c) # Up(d)
    BY <2>1
  <2>3. Cardinality(Up(c)) # Cardinality(Up(d))
    BY <1>2, <2>1, <2>2, FS_Subset
  <2> QED BY <1>2, <2>3
<1>4. ASSUME NEW c \in S, NEW d \in S, Place(c, S) = Place(d, S) PROVE c = d
  <2>1. c < d \/ d < c \/ c = d
    OBVIOUS
  <2> QED BY <1>3, <1>4, <2>1
<1> HIDE DEF Up
<1> QED BY <1>1, <1>2, <1>4

\* And every place up to their number is taken.
LEMMA PlacesAreTaken ==
  ASSUME NEW n \in Nat, NEW S \in SUBSET (1..n), NEW i \in 1..Cardinality(S)
  PROVE  \E c \in S : Place(c, S) = i
<1> DEFINE f == [c \in S |-> Place(c, S)]
           T == 1..Cardinality(S)
<1>1. IsFiniteSet(S) /\ Cardinality(S) \in Nat
  BY PlacesDiffer
<1>2. f \in Injection(S, T)
  BY PlacesDiffer DEF Injection, IsInjective
<1>3. IsFiniteSet(T) /\ Cardinality(T) = Cardinality(S)
  BY <1>1, FS_Interval
<1>4. f \in Surjection(S, T)
  <2> HIDE DEF f, T
  <2> QED BY <1>2, <1>3, FS_Injection
<1> QED BY <1>4 DEF Surjection

----------------------------------------------------------------------------
\* What after_model holds after the answers a, under the profile p.
Run(p, a) == CHOOSE f : f = [n \in 0..Len(a) |-> IF n = 0 THEN Start ELSE Round(p, f[n - 1], a[n])]
Came(p, a) == Run(p, a)[Len(a)]

\* What Replayed computes, under the names used here.
LEMMA ReplayedIs == \A p : Replayed(p) = Evaluated(p, Came(p, answers))
  BY DEF Replayed, Came, Run

\* f holds the states of the first m rounds.
RunTo(f, p, a, m) ==
  /\ f = [n \in 0..m |-> f[n]] /\ f[0] = Start
  /\ \A n \in 1..m : f[n] = Round(p, f[n - 1], a[n])

\* A replay has a state after every answer (if not, there is a least number of answers
\* after which it has none).
LEMMA RunExists ==
  ASSUME NEW p, NEW S, NEW a \in Seq(S)
  PROVE  \E f : RunTo(f, p, a, Len(a))
<1> DEFINE Missing == {m \in 0..Len(a) : ~\E f : RunTo(f, p, a, m)}
<1>0. Len(a) \in Nat
  OBVIOUS
<1>1. SUFFICES ASSUME Missing # {} PROVE FALSE
  BY <1>0
<1>2. PICK m \in Missing : \A n \in Missing : m <= n
  <2>1. Missing \in SUBSET Nat
    OBVIOUS
  <2> HIDE DEF Missing
  <2> QED BY <1>1, <2>1, LeastNumber
<1>3. m \in 0..Len(a) /\ ~\E f : RunTo(f, p, a, m)
  OBVIOUS
<1>4. m # 0
  <2>1. RunTo([n \in 0..0 |-> Start], p, a, 0)
    BY DEF RunTo
  <2> QED BY <1>3, <2>1
<1>5. m - 1 \in 0..Len(a) /\ m - 1 \notin Missing
  <2>1. m - 1 \in 0..Len(a) /\ ~(m <= m - 1)
    BY <1>0, <1>3, <1>4
  <2> QED BY <1>2, <2>1
<1>6. PICK f : RunTo(f, p, a, m - 1)
  BY <1>5
<1> DEFINE g == [n \in 0..m |-> IF n = m THEN Round(p, f[m - 1], a[m]) ELSE f[n]]
<1> HIDE DEF Missing
<1>7. m \in Nat /\ m >= 1
  BY <1>0, <1>3, <1>4
<1>8. \A n \in 0..(m - 1) : g[n] = f[n] /\ n \in 0..m
  BY <1>7
<1>9. g[m] = Round(p, f[m - 1], a[m])
  BY <1>7
<1>10. RunTo(g, p, a, m)
  <2>1. g = [n \in 0..m |-> g[n]]
    OBVIOUS
  <2>2. g[0] = Start
    BY <1>6, <1>7, <1>8 DEF RunTo
  <2>3. ASSUME NEW n \in 1..m PROVE g[n] = Round(p, g[n - 1], a[n])
    <3>1. g[n - 1] = f[n - 1] /\ n - 1 \in 0..(m - 1)
      BY <1>7, <1>8
    <3>2. CASE n = m
      BY <1>9, <3>1, <3>2
    <3>3. CASE n # m
      <4>1. n \in 1..(m - 1) /\ n \in 0..(m - 1)
        BY <1>7, <3>3
      <4>2. f[n] = Round(p, f[n - 1], a[n])
        BY <1>6, <4>1 DEF RunTo
      <4>3. g[n] = f[n]
        BY <1>8, <4>1
      <4> HIDE DEF g
      <4> QED BY <3>1, <4>2, <4>3
    <3> QED BY <3>2, <3>3
  <2> HIDE DEF g
  <2> QED BY <2>1, <2>2, <2>3 DEF RunTo
<1> QED BY <1>3, <1>10

\* A run goes through the same states as long as the answers are the same.
LEMMA RunsAgree ==
  ASSUME NEW p, NEW f, NEW g, NEW a, NEW b, NEW k \in Nat, NEW m \in Nat, NEW l \in Nat,
         RunTo(f, p, a, m), RunTo(g, p, b, l), k <= m, k <= l, \A n \in 1..k : a[n] = b[n]
  PROVE  f[k] = g[k]
<1> DEFINE Differ == {n \in 0..k : f[n] # g[n]}
<1>1. SUFFICES ASSUME Differ # {} PROVE FALSE
  OBVIOUS
<1>2. PICK n \in Differ : \A j \in Differ : n <= j
  <2>1. Differ \in SUBSET Nat
    OBVIOUS
  <2> HIDE DEF Differ
  <2> QED BY <1>1, <2>1, LeastNumber
<1>3. n \in 0..k /\ f[n] # g[n]
  OBVIOUS
<1>4. n # 0
  BY <1>3 DEF RunTo
<1>5. n - 1 \in 0..k /\ n \in 1..m /\ n \in 1..l /\ n \in 1..k /\ ~(n <= n - 1)
  BY <1>3, <1>4
<1>6. f[n - 1] = g[n - 1]
  BY <1>2, <1>5
<1>7. f[n] = Round(p, f[n - 1], a[n]) /\ g[n] = Round(p, g[n - 1], b[n]) /\ a[n] = b[n]
  BY <1>5 DEF RunTo
<1> QED BY <1>3, <1>6, <1>7

\* The states a replay goes through are those its rounds make.
LEMMA RunIs ==
  ASSUME NEW p, NEW S, NEW a \in Seq(S)
  PROVE  RunTo(Run(p, a), p, a, Len(a))
<1> DEFINE R(f) == f = [n \in 0..Len(a) |-> IF n = 0 THEN Start ELSE Round(p, f[n - 1], a[n])]
<1>0. Len(a) \in Nat
  OBVIOUS
<1>1. PICK g : RunTo(g, p, a, Len(a))
  BY RunExists
<1>2. R(g)
  <2> DEFINE h == [n \in 0..Len(a) |-> IF n = 0 THEN Start ELSE Round(p, g[n - 1], a[n])]
  <2>1. \A n \in 0..Len(a) : g[n] = h[n]
    BY <1>0, <1>1 DEF RunTo
  <2>2. g = [n \in 0..Len(a) |-> g[n]]
    BY <1>1 DEF RunTo
  <2>3. h = [n \in 0..Len(a) |-> h[n]]
    OBVIOUS
  <2>4. g = h
    <3> HIDE DEF h
    <3> QED BY <2>1, <2>2, <2>3
  <2> QED BY <2>4
<1>3. R(Run(p, a))
  <2>1. \E f : R(f)
    BY <1>2
  <2>2. Run(p, a) = CHOOSE f : R(f)
    BY DEF Run
  <2> HIDE DEF R
  <2> QED BY <2>1, <2>2
<1> DEFINE f == Run(p, a)
<1> HIDE DEF f
<1>4. f = [n \in 0..Len(a) |-> IF n = 0 THEN Start ELSE Round(p, f[n - 1], a[n])]
  BY <1>3 DEF f
<1>5. RunTo(f, p, a, Len(a))
  <2>1. f[0] = Start
    BY <1>0, <1>4
  <2>2. \A n \in 1..Len(a) : f[n] = Round(p, f[n - 1], a[n])
    BY <1>0, <1>4
  <2>3. f = [n \in 0..Len(a) |-> f[n]]
    BY <1>4
  <2> QED BY <2>1, <2>2, <2>3 DEF RunTo
<1> QED BY <1>5 DEF f

\* interrupt() returns the answers one after the other: a further one is read last.
LEMMA CameStart == \A p : Came(p, <<>>) = Start
<1> TAKE p
<1>1. <<>> \in Seq({}) /\ Len(<<>>) = 0
  OBVIOUS
<1>2. RunTo(Run(p, <<>>), p, <<>>, 0)
  BY <1>1, RunIs
<1> QED BY <1>1, <1>2 DEF RunTo, Came

\* One more answer is one more round.
LEMMA CameNext ==
  ASSUME NEW p, NEW S, NEW a \in Seq(S), NEW x \in S
  PROVE  Came(p, Append(a, x)) = Round(p, Came(p, a), x)
<1> DEFINE b == Append(a, x)
           k == Len(a)
<1>1. b \in Seq(S) /\ Len(b) = k + 1 /\ k \in Nat /\ b[k + 1] = x /\ \A n \in 1..k : b[n] = a[n]
  OBVIOUS
<1>2. RunTo(Run(p, a), p, a, k)
  BY RunIs
<1> HIDE DEF b, k
<1>3. RunTo(Run(p, b), p, b, k + 1)
  BY <1>1, RunIs
<1>4. Run(p, b)[k + 1] = Round(p, Run(p, b)[k], b[k + 1])
  <2>1. k + 1 \in 1..(k + 1) /\ (k + 1) - 1 = k
    BY <1>1
  <2> QED BY <1>3, <2>1 DEF RunTo
<1>5. Run(p, b)[k] = Run(p, a)[k]
  <2>1. k <= k + 1 /\ k <= k /\ k + 1 \in Nat /\ k \in Nat /\ \A n \in 1..k : b[n] = a[n]
    BY <1>1
  <2> DEFINE f == Run(p, b)
             g == Run(p, a)
  <2>2. RunTo(f, p, b, k + 1) /\ RunTo(g, p, a, k)
    BY <1>2, <1>3
  <2> HIDE DEF f, g
  <2>3. f[k] = g[k]
    BY <2>1, <2>2, RunsAgree
  <2> QED BY <2>3 DEF f, g
<1>6. Came(p, b) = Run(p, b)[k + 1] /\ Came(p, a) = Run(p, a)[k]
  BY <1>1 DEF Came, k
<1>7. Came(p, b) = Round(p, Came(p, a), x)
  BY <1>1, <1>4, <1>5, <1>6
<1> QED BY <1>7 DEF b

----------------------------------------------------------------------------
\* What after_model keeps of the calls, and what a human says of one.
StateType ==
  [act : [Call -> Action], approved : SUBSET (Call \X Action),
   blocked : SUBSET (Call \X Action), failed : BOOLEAN]
AnswerType == [type : Decision, act : Action]

\* PermissionPolicy.evaluate: what it does not deny begins with no denied prefix, and
\* what it allows shows no risk that is reviewed.
LEMMA EvaluateIs ==
  ASSUME NEW p \in Profile, NEW a \in Action
  PROVE  /\ Evaluate(p, a) \in Policy
         /\ Evaluate(p, a) # "deny" /\ a.tool = "execute" /\ a.command # <<>> =>
              p.rules[a.command[1]] # "deny"
         /\ Evaluate(p, a) = "allow" /\ a.tool = "execute" =>
              Risks(a.command) \intersect p.reviewed = {}
<1>1. a.tool \in {"execute", "publish"} /\ (a.tool = "execute" => a.command \in Command)
  BY DEF Action
<1>2. /\ p.execute \in Policy \union {"unset"} /\ p.default \in Policy \union {"unset"}
      /\ p.rules \in [Prefix -> Policy \union {"unset"}]
  BY DEF Profile
<1>3. \A tool : ToolPolicy(p, tool) \in Policy
  BY <1>2 DEF ToolPolicy, Policy
<1>4. a.tool = "execute" /\ a.command # <<>> =>
        Len(a.command) \in {1, 2} /\ a.command[1] \in Prefix
  BY <1>1 DEF Command, Prefix
<1>5. a.tool = "execute" => Rule(p, a.command) \in Policy \union {"unset"}
  BY <1>2, <1>4 DEF Rule, Policy
<1>6. a.tool = "execute" /\ a.command # <<>> /\ p.rules[a.command[1]] = "deny" => DeniedBy(p, a.command)
  <2>1. a.tool = "execute" /\ a.command # <<>> => 1 \in 1..Len(a.command)
    BY <1>4
  <2> QED BY <2>1 DEF DeniedBy
<1>7. a.tool # "execute" => Evaluate(p, a) \in Policy
  BY <1>3 DEF Evaluate
<1>8. CASE a.tool = "execute"
  <2>1. Evaluate(p, a) \in Policy
    BY <1>3, <1>5, <1>8 DEF Evaluate, Policy
  <2>2. Evaluate(p, a) # "deny" => ~DeniedBy(p, a.command)
    BY <1>8 DEF Evaluate
  <2>3. Evaluate(p, a) = "allow" => Risks(a.command) \intersect p.reviewed = {}
    BY <1>8 DEF Evaluate
  <2> QED BY <1>6, <2>1, <2>2, <2>3
<1> QED BY <1>7, <1>8

\* A round first blocks what is denied, and asks about nothing new by that.
LEMMA EvaluatedIs ==
  ASSUME NEW p, NEW st \in StateType
  PROVE  LET e == Evaluated(p, st) IN
         /\ e \in StateType /\ e.act = st.act /\ e.approved = st.approved /\ e.failed = st.failed
         /\ \A c \in Call :
              <<c, st.act[c]>> \in e.approved \/ <<c, st.act[c]>> \in e.blocked
                \/ Evaluate(p, st.act[c]) # "deny"
         /\ AskedOf(p, e) \subseteq AskedOf(p, st)
<1> DEFINE new == {<<c, st.act[c]>> : c \in {o \in Open(st) : Evaluate(p, st.act[o]) = "deny"}}
           e == Evaluated(p, st)
<1>1. st.act \in [Call -> Action] /\ st.approved \subseteq Call \X Action /\ st.blocked \subseteq Call \X Action
      /\ st.failed \in BOOLEAN
  BY DEF StateType
<1>2. new \subseteq Call \X Action
  <2>1. \A c \in Open(st) : c \in Call /\ <<c, st.act[c]>> \in Call \X Action
    <3>1. \A c \in Open(st) : c \in Call
      BY DEF Open
    <3> QED BY <1>1, <3>1
  <2> QED BY <2>1
<1>3. e = [st EXCEPT !.blocked = @ \union new]
  BY DEF Evaluated
<1>4. \A c \in Call : <<c, st.act[c]>> \in st.approved \union st.blocked \/ <<c, st.act[c]>> \in new
                        \/ Evaluate(p, st.act[c]) # "deny"
  BY DEF Open
<1> HIDE DEF new, e
<1>5. e \in StateType /\ e.act = st.act /\ e.approved = st.approved /\ e.failed = st.failed
      /\ e.blocked = st.blocked \union new
  BY <1>1, <1>2, <1>3 DEF StateType
<1>6. AskedOf(p, e) \subseteq AskedOf(p, st)
  BY <1>5 DEF AskedOf, Open
<1> QED BY <1>4, <1>5, <1>6 DEF e

\* The calls that answers belong to, in one round.
Chose(x, q, type) == {c \in q : x[Place(c, q)].type = type}

\* What a round makes of its answers.
LEMMA AnsweredIs ==
  ASSUME proposed \in Seq(Action), NEW p, NEW st \in StateType, NEW x \in Seq(AnswerType), Fits(p, st, x)
  PROVE  LET q == AskedOf(p, st)
             r == Answered(p, st, x)
         IN /\ r \in StateType /\ r.failed = st.failed
            /\ r.approved = st.approved \union {<<c, st.act[c]>> : c \in Chose(x, q, "approve")}
            /\ \A c \in Call : r.act[c] = IF c \in Chose(x, q, "edit") THEN x[Place(c, q)].act ELSE st.act[c]
<1> DEFINE q == AskedOf(p, st)
           r == Answered(p, st, x)
           yes == {<<c, st.act[c]>> : c \in Chose(x, q, "approve")}
           no == {<<c, st.act[c]>> : c \in Chose(x, q, "reject")}
           new == [c \in Call |-> IF c \in Chose(x, q, "edit") THEN x[Place(c, q)].act ELSE st.act[c]]
<1>1. st.act \in [Call -> Action] /\ st.approved \subseteq Call \X Action /\ st.blocked \subseteq Call \X Action
      /\ st.failed \in BOOLEAN /\ st = [act |-> st.act, approved |-> st.approved, blocked |-> st.blocked,
                                        failed |-> st.failed]
  BY DEF StateType
<1>2. q \in SUBSET Call /\ Call = 1..Len(proposed)
  BY DEF AskedOf, Open, Call
<1>3. r = [st EXCEPT !.approved = @ \union yes, !.blocked = @ \union no, !.act = new]
  BY DEF Answered, Chose
<1>4. yes \subseteq Call \X Action /\ no \subseteq Call \X Action
  BY <1>1, <1>2 DEF Chose
<1>5. \A c \in q : x[Place(c, q)].act \in Action
  <2>1. ASSUME NEW c \in q PROVE Place(c, q) \in 1..Cardinality(q)
    <3>1. Len(proposed) \in Nat
      OBVIOUS
    <3> HIDE DEF q
    <3> QED BY <1>2, <2>1, <3>1, PlacesDiffer
  <2>2. Len(x) = Cardinality(q)
    BY DEF Fits
  <2> HIDE DEF q
  <2>3. \A c \in q : x[Place(c, q)] \in AnswerType
    BY <2>1, <2>2
  <2> QED BY <2>3 DEF AnswerType
<1>6. new \in [Call -> Action]
  BY <1>1, <1>2, <1>5 DEF Chose
<1>7. \A c \in Call : new[c] = IF c \in Chose(x, q, "edit") THEN x[Place(c, q)].act ELSE st.act[c]
  OBVIOUS
<1> HIDE DEF q, r, yes, no, new
<1>8. r = [act |-> new, approved |-> st.approved \union yes, blocked |-> st.blocked \union no,
           failed |-> st.failed]
  BY <1>1, <1>3
<1>9. r \in StateType /\ r.failed = st.failed /\ r.approved = st.approved \union yes /\ r.act = new
  BY <1>1, <1>4, <1>6, <1>8 DEF StateType
<1>10. \A c \in Call : r.act[c] = IF c \in Chose(x, q, "edit") THEN x[Place(c, q)].act ELSE st.act[c]
  BY <1>7, <1>9
<1> QED BY <1>9, <1>10 DEF q, r, yes

\* One round of after_model.
LEMMA RoundIs ==
  ASSUME proposed \in Seq(Action), NEW p, NEW st \in StateType, NEW x \in Seq(AnswerType)
  PROVE  LET e == Evaluated(p, st)
             q == AskedOf(p, e)
             r == Round(p, st, x)
         IN /\ r \in StateType
            /\ st.failed \/ q = {} => r = e
            /\ ~st.failed /\ q # {} /\ ~Fits(p, e, x) =>
                 r.failed /\ r.act = st.act /\ r.approved = st.approved
            /\ ~st.failed /\ q # {} /\ Fits(p, e, x) =>
                 /\ ~r.failed
                 /\ r.approved = st.approved \union {<<c, st.act[c]>> : c \in Chose(x, q, "approve")}
                 /\ \A c \in Call : r.act[c] = IF c \in Chose(x, q, "edit") THEN x[Place(c, q)].act ELSE st.act[c]
<1> DEFINE e == Evaluated(p, st)
           q == AskedOf(p, e)
           r == Round(p, st, x)
<1>1. e \in StateType /\ e.act = st.act /\ e.approved = st.approved /\ e.failed = st.failed
  BY EvaluatedIs
<1>2. r = IF st.failed \/ q = {} THEN e
          ELSE IF Fits(p, e, x) THEN Answered(p, e, x) ELSE [e EXCEPT !.failed = TRUE]
  BY DEF Round
<1> HIDE DEF e, r
<1>3. CASE st.failed \/ q = {}
  BY <1>1, <1>2, <1>3 DEF e, r
<1>4. CASE ~st.failed /\ q # {} /\ ~Fits(p, e, x)
  <2>1. r = [e EXCEPT !.failed = TRUE]
    BY <1>2, <1>4
  <2>2. r \in StateType /\ r.failed = TRUE /\ r.act = e.act /\ r.approved = e.approved
    BY <1>1, <2>1 DEF StateType
  <2> QED BY <1>1, <1>4, <2>2 DEF e, r
<1>5. CASE ~st.failed /\ q # {} /\ Fits(p, e, x)
  <2>1. r = Answered(p, e, x)
    BY <1>2, <1>5
  <2>2. /\ r \in StateType /\ r.failed = e.failed
        /\ r.approved = e.approved \union {<<c, e.act[c]>> : c \in Chose(x, q, "approve")}
        /\ \A c \in Call : r.act[c] = IF c \in Chose(x, q, "edit") THEN x[Place(c, q)].act ELSE e.act[c]
    BY <1>1, <1>5, <2>1, AnsweredIs
  <2>3. ~r.failed
    BY <1>1, <1>5, <2>2
  <2> QED BY <1>1, <1>5, <2>2, <2>3 DEF e, r
<1> QED BY <1>3, <1>4, <1>5 DEF e, r


----------------------------------------------------------------------------
\* Answered, of the calls asked about.
AnsweredBy(st, answer, asked, all) ==
  LET of(type) == {c \in asked : answer[Place(c, asked)].type = type}
  IN [st EXCEPT
       !.approved = @ \union {<<c, st.act[c]>> : c \in of("approve")},
       !.blocked = @ \union {<<c, st.act[c]>> : c \in of("reject")},
       !.act = [c \in all |-> IF c \in of("edit") THEN answer[Place(c, asked)].act ELSE @[c]]]

\* The calls the model proposed stay: a step replays as the next one does.
LEMMA SameRound ==
  ASSUME proposed' = proposed, NEW p, NEW st, NEW x
  PROVE  /\ Round(p, st, x)' = Round(p, st, x) /\ Start' = Start
         /\ Evaluated(p, st)' = Evaluated(p, st) /\ AskedOf(p, st)' = AskedOf(p, st)
<1>1. Call' = Call
  BY DEF Call
<1>2. \A s : Open(s)' = Open(s)
  BY <1>1 DEF Open
<1>3. \A s : AskedOf(p, s)' = AskedOf(p, s)
  BY <1>2 DEF AskedOf
<1>4. \A s : Evaluated(p, s)' = Evaluated(p, s)
  BY <1>2 DEF Evaluated
<1>5. \A s : Fits(p, s, x)' = Fits(p, s, x)
  BY <1>3 DEF Fits
<1>6. \A s : Answered(p, s, x)' = Answered(p, s, x)
  <2>1. ASSUME NEW s PROVE Answered(p, s, x)' = Answered(p, s, x)
    <3>1. Answered(p, s, x) = AnsweredBy(s, x, AskedOf(p, s), Call)
      BY DEF Answered, AnsweredBy
    <3>2. Answered(p, s, x)' = AnsweredBy(s, x, AskedOf(p, s)', Call')
      BY DEF Answered, AnsweredBy
    <3> QED BY <1>1, <1>3, <3>1, <3>2
  <2> QED BY <2>1
<1>7. Round(p, st, x)' = Round(p, st, x)
  BY <1>3, <1>4, <1>5, <1>6 DEF Round
<1> QED BY <1>3, <1>4, <1>7 DEF Start

\* Every replay has its states, now and after a step.
RunsExist == \A p, S : \A a \in Seq(S) : RunTo(Run(p, a), p, a, Len(a))

LEMMA RunsAlwaysExist == RunsExist /\ RunsExist'
<1>1. RunsExist
  BY RunIs DEF RunsExist
<1> QED BY <1>1, PTL

\* So do whole replays.
LEMMA SameCame ==
  ASSUME proposed' = proposed, NEW p, NEW S, NEW a \in Seq(S)
  PROVE  Came(p, a)' = Came(p, a)
<1> DEFINE n == Len(a)
<1>0. n \in Nat
  OBVIOUS
<1>1. RunTo(Run(p, a), p, a, n)'
  BY RunsAlwaysExist DEF RunsExist
<1>2. RunTo(Run(p, a), p, a, n)
  BY RunsAlwaysExist DEF RunsExist
<1>3. PICK f : f = Run(p, a)'
  OBVIOUS
<1>4. f = [k \in 0..n |-> f[k]] /\ f[0] = Start' /\ \A k \in 1..n : f[k] = Round(p, f[k - 1], a[k])'
  BY <1>1, <1>3 DEF RunTo
<1>5. RunTo(f, p, a, n)
  BY <1>4, SameRound DEF RunTo
<1>6. f[n] = Run(p, a)[n]
  <2>1. n <= n /\ \A k \in 1..n : a[k] = a[k]
    BY <1>0
  <2> DEFINE g == Run(p, a)
  <2>2. RunTo(g, p, a, n)
    BY <1>2
  <2> HIDE DEF g, n
  <2>3. f[n] = g[n]
    BY <1>0, <1>5, <2>1, <2>2, RunsAgree
  <2> QED BY <2>3 DEF g
<1>7. Came(p, a)' = f[n]
  BY <1>3 DEF Came
<1>8. Came(p, a) = Run(p, a)[n]
  BY DEF Came
<1> QED BY <1>6, <1>7, <1>8

----------------------------------------------------------------------------
(* AInv is inductive.  An approval is good for the form of a call that was *)
(* shown: every replay that still counts, under the permissions of now or, *)
(* for a single call, under any, asks what the pending review shows and    *)
(* has approved only what a human has.                                     *)
Replay(p) == Came(p, answers)
Asks(p) == AskedOf(p, Evaluated(p, Replay(p)))
Asking(p) == ~Replay(p).failed /\ Asks(p) # {}
ReviewOf(p) == {<<c, Replay(p).act[c]>> : c \in Asks(p)}

\* The permissions have stayed, or there is one call for the answers to belong to; and
\* the profiles that a replay may then be run with.
Sure == changes = 0 \/ Len(proposed) = 1
Readers == IF Len(proposed) = 1 THEN Profiles ELSE {profile}

\* The types of what is kept.
ApprovalTypes ==
  /\ ApprovalTypeOK
  /\ answers \in Seq(Seq(AnswerType))
  /\ mistaken \in BOOLEAN /\ changes \in Nat

\* What a replay approves was asked about and approved by a human, in the same form; and
\* under unchanged permissions the replay and the human agree on all of it.
ReplayHolds ==
  /\ \A p \in Profiles :
       Replay(p) \in StateType /\ \A x \in Replay(p).approved : Evaluate(p, x[2]) = "ask"
  /\ Sure => \A p \in Readers : Replay(p).approved \subseteq granted
  /\ Sure => \A p, q \in Readers : Asking(p) /\ Asking(q) => Replay(p).act = Replay(q).act
  /\ changes = 0 =>
       IF Replay(profile).failed THEN mistaken ELSE granted = Replay(profile).approved

\* The pending review shows what the replay asks; only a mistaken answer fails.
ReviewHolds ==
  /\ phase = "waiting" =>
       /\ Sure => \A p \in Readers : Asking(p) => shown.calls = ReviewOf(p)
       /\ changes = 0 => Asking(profile)
  /\ phase = "failed" /\ changes = 0 => mistaken

\* What may run: no denied call, and none that needed an approval it has not got.
MayRun(x) ==
  /\ Evaluate(profile, x[2]) \in {"allow", "ask"}
  /\ Sure => Evaluate(profile, x[2]) = "allow" \/ x \in granted

\* The tools are left, and run, only what they may.
ToolsHold ==
  /\ phase # "done" => ran = {}
  /\ phase = "tools" => \A c \in Call \ calls.blocked : MayRun(<<c, calls.act[c]>>)
  /\ \A x \in ran : MayRun(x)

\* The inductive invariant of the approvals.
AInv == ApprovalTypes /\ ReplayHolds /\ ReviewHolds /\ ToolsHold

\* With the answers and the profile the replay stays as it is.
LEMMA SameReplay ==
  ASSUME proposed' = proposed, answers' = answers, answers \in Seq(Seq(AnswerType)), NEW p
  PROVE  /\ Replay(p)' = Replay(p) /\ Asks(p)' = Asks(p) /\ (Asking(p)' <=> Asking(p))
         /\ ReviewOf(p)' = ReviewOf(p)
<1>1. Replay(p)' = Replay(p)
  <2>1. PICK a : a = answers
    OBVIOUS
  <2>2. Came(p, a)' = Came(p, a)
    BY <2>1, SameCame
  <2>3. Replay(p)' = Came(p, a)'
    BY <2>1 DEF Replay, Came, Run
  <2>4. Replay(p) = Came(p, a)
    BY <2>1 DEF Replay
  <2> QED BY <2>2, <2>3, <2>4
<1>2. Asks(p)' = Asks(p)
  BY <1>1, SameRound DEF Asks
<1> QED BY <1>1, <1>2 DEF Asking, ReviewOf

\* No answers, nothing asked, nothing run.
LEMMA ApprovalInitHolds ==
  ASSUME ApprovalAssumption, ApprovalInit
  PROVE  AInv
<1>1. PICK n \in 1..MaxCalls : proposed \in [1..n -> Action]
  BY DEF ApprovalInit
<1>2. proposed \in Seq(Action) /\ Len(proposed) = n /\ n \in 1..MaxCalls /\ n \in Nat
  BY <1>1 DEF ApprovalAssumption
<1>3. proposed \in [Call -> Action]
  BY <1>1, <1>2 DEF Call
<1>4. /\ profile \in Profiles /\ answers = <<>> /\ shown.calls = {} /\ phase = "model"
      /\ calls.act = proposed /\ calls.blocked = {} /\ ran = {} /\ granted = {}
      /\ mistaken = FALSE /\ changes = 0
  BY DEF ApprovalInit
<1>5. ApprovalTypes
  <2>1. ApprovalTypeOK
    BY <1>2, <1>3, <1>4 DEF ApprovalTypeOK
  <2>2. <<>> \in Seq(Seq(AnswerType))
    OBVIOUS
  <2> QED BY <1>4, <2>1, <2>2 DEF ApprovalTypes
<1>6. \A p : Replay(p) = Start
  BY <1>4, CameStart DEF Replay
<1>7. Start \in StateType /\ Start.act = proposed /\ Start.approved = {} /\ ~Start.failed
  BY <1>3 DEF Start, StateType
<1>8. ReplayHolds
  BY <1>4, <1>6, <1>7 DEF ReplayHolds
<1>9. ReviewHolds /\ ToolsHold
  BY <1>4 DEF ReviewHolds, ToolsHold
<1> QED BY <1>5, <1>8, <1>9 DEF AInv

\* What a step that reads no answer and changes no permission leaves as it was.
LEMMA QuietStep ==
  ASSUME AInv, UNCHANGED <<profile, proposed, answers, granted, mistaken, changes>>
  PROVE  /\ ReplayHolds' /\ (Sure' <=> Sure) /\ Readers' = Readers /\ Call' = Call
         /\ \A x : MayRun(x)' <=> MayRun(x)
         /\ \A p : Replay(p)' = Replay(p) /\ (Asking(p)' <=> Asking(p)) /\ ReviewOf(p)' = ReviewOf(p)
<1>1. \A p : Replay(p)' = Replay(p) /\ (Asking(p)' <=> Asking(p)) /\ ReviewOf(p)' = ReviewOf(p)
  BY SameReplay DEF AInv, ApprovalTypes
<1>2. (Sure' <=> Sure) /\ Readers' = Readers /\ Call' = Call
  BY DEF Sure, Readers, Call
<1>3. \A x : MayRun(x)' <=> MayRun(x)
  BY <1>2 DEF MayRun
<1>4. ReplayHolds'
  <2>1. Replay(profile)' = Replay(profile)
    <3>1. PICK p : p = profile
      OBVIOUS
    <3>2. Replay(p)' = Replay(p)
      BY <1>1
    <3> QED BY <3>1, <3>2 DEF Replay
  <2>2. StateType' = StateType
    BY <1>2 DEF StateType
  <2> QED BY <1>1, <1>2, <2>1, <2>2 DEF AInv, ReplayHolds
<1> QED BY <1>1, <1>2, <1>3, <1>4

\* What after_model asks is what the replay of the answers asks, and what it passes on
\* is allowed, or approved by a human, or blocked.
LEMMA AfterModelHolds ==
  ASSUME ApprovalAssumption, AInv, AfterModel
  PROVE  AInv'
<1> DEFINE st == Replayed(profile)
           asked == AskedOf(profile, st)
           before == Replay(profile)
<1> USE DEF AInv
<1>0. profile \in Profiles /\ profile \in Readers /\ profile \in Profile /\ proposed \in Seq(Action)
  BY DEF ApprovalTypes, ApprovalTypeOK, Readers, ApprovalAssumption
<1>1. st = Evaluated(profile, before) /\ before \in StateType
  BY <1>0, ReplayedIs DEF Replay, ReplayHolds
<1>2. /\ st \in StateType /\ st.act = before.act /\ st.approved = before.approved
      /\ st.failed = before.failed
      /\ \A c \in Call :
           <<c, st.act[c]>> \in st.approved \/ <<c, st.act[c]>> \in st.blocked
             \/ Evaluate(profile, st.act[c]) # "deny"
  BY <1>1, EvaluatedIs
<1>3. asked = Asks(profile) /\ asked \subseteq Call
  BY <1>1 DEF Asks, AskedOf, Open
<1>4. UNCHANGED <<profile, proposed, answers, ran, granted, mistaken, changes>> /\ phase = "model"
  BY DEF AfterModel
<1>5. /\ ReplayHolds' /\ (Sure' <=> Sure) /\ Readers' = Readers /\ Call' = Call
      /\ \A x : MayRun(x)' <=> MayRun(x)
      /\ \A p : Replay(p)' = Replay(p) /\ (Asking(p)' <=> Asking(p)) /\ ReviewOf(p)' = ReviewOf(p)
  BY <1>4, QuietStep
<1>6. ran = {} /\ shown.calls = {}
  BY <1>4 DEF ToolsHold, ApprovalTypes, ApprovalTypeOK
<1>7. CASE st.failed
  <2>1. phase' = "failed" /\ UNCHANGED <<shown, calls>>
    BY <1>7 DEF AfterModel
  <2>2. ApprovalTypes'
    BY <1>4, <1>5, <1>6, <2>1 DEF ApprovalTypes, ApprovalTypeOK
  <2>3. ReviewHolds'
    BY <1>2, <1>4, <1>7, <2>1 DEF ReviewHolds, ReplayHolds
  <2>4. ToolsHold'
    BY <1>4, <1>6, <2>1 DEF ToolsHold
  <2> QED BY <1>5, <2>2, <2>3, <2>4
<1>8. CASE ~st.failed /\ asked # {}
  <2> DEFINE review == {<<c, st.act[c]>> : c \in asked}
  <2>1. phase' = "waiting" /\ shown'.calls = review /\ UNCHANGED calls
    BY <1>8 DEF AfterModel
  <2>2. review = ReviewOf(profile) /\ Asking(profile) /\ before.act = st.act
    BY <1>2, <1>3, <1>8 DEF ReviewOf, Asking
  <2>3. review \subseteq Call \X Action /\ review # {}
    <3>1. st.act \in [Call -> Action]
      BY <1>2 DEF StateType
    <3>2. \A c \in asked : <<c, st.act[c]>> \in Call \X Action
      BY <1>3, <3>1
    <3> HIDE DEF st, asked
    <3> QED BY <1>8, <3>2
  <2>4. ApprovalTypes'
    <3> HIDE DEF review
    <3> QED BY <1>4, <1>5, <2>1, <2>3 DEF ApprovalTypes, ApprovalTypeOK
  <2>5. ASSUME Sure, NEW p \in Readers, Asking(p) PROVE review = ReviewOf(p)
    <3>1. CASE p = profile
      BY <2>2, <3>1
    <3>2. CASE Len(proposed) = 1
      <4>1. Replay(p).act = before.act
        BY <1>0, <2>2, <2>5 DEF ReplayHolds
      <4>2. Asks(p) \subseteq Call /\ Asks(p) # {} /\ Call = 1..1
        BY <2>5, <3>2 DEF Asks, AskedOf, Open, Asking, Call
      <4>3. Asks(p) = {1} /\ asked = {1}
        BY <1>3, <1>8, <4>2
      <4> QED BY <2>2, <4>1, <4>3 DEF ReviewOf
    <3> QED BY <2>5, <3>1, <3>2 DEF Readers
  <2>6. Asking(profile)'
    <3>1. PICK p : p = profile
      OBVIOUS
    <3>2. Asking(p)'
      BY <1>5, <2>2, <3>1
    <3> QED BY <1>4, <3>1, <3>2 DEF Asking, Asks, Replay
  <2>7. ReviewHolds'
    <3>1. \A p \in Readers : Sure /\ Asking(p) => review = ReviewOf(p)
      BY <2>5
    <3> HIDE DEF review
    <3> QED BY <1>5, <2>1, <2>6, <3>1 DEF ReviewHolds
  <2>8. ToolsHold'
    BY <1>4, <1>6, <2>1 DEF ToolsHold
  <2> QED BY <1>5, <2>4, <2>7, <2>8
<1>9. CASE ~st.failed /\ asked = {}
  <2> DEFINE blocked == {b[1] : b \in st.blocked}
  <2>1. phase' = "tools" /\ calls' = [act |-> st.act, blocked |-> blocked] /\ UNCHANGED shown
    BY <1>9 DEF AfterModel
  <2>2. blocked \subseteq Call /\ st.act \in [Call -> Action]
    BY <1>2 DEF StateType
  <2>3. ApprovalTypes'
    <3> HIDE DEF blocked, st
    <3> QED BY <1>4, <1>5, <1>6, <2>1, <2>2 DEF ApprovalTypes, ApprovalTypeOK
  <2>4. ReviewHolds'
    BY <2>1 DEF ReviewHolds
  <2>5. ASSUME NEW c \in Call \ blocked PROVE MayRun(<<c, st.act[c]>>)
    <3> DEFINE x == <<c, st.act[c]>>
    <3>1. x \notin st.blocked /\ x[2] = st.act[c]
      BY <2>5
    <3>2. CASE x \in st.approved
      <4>1. x \in before.approved
        BY <1>2, <3>2
      <4>2. Evaluate(profile, x[2]) = "ask"
        BY <1>0, <4>1 DEF ReplayHolds
      <4>3. Sure => x \in granted
        BY <1>0, <4>1 DEF ReplayHolds
      <4> QED BY <4>2, <4>3 DEF MayRun
    <3>3. CASE x \notin st.approved
      <4>1. c \in Open(st)
        BY <3>1, <3>3 DEF Open
      <4>2. Evaluate(profile, st.act[c]) # "ask"
        BY <1>9, <4>1 DEF AskedOf
      <4>3. Evaluate(profile, st.act[c]) # "deny"
        BY <1>2, <2>5, <3>1, <3>3
      <4>4. Evaluate(profile, st.act[c]) \in Policy
        BY <1>0, <2>2, <2>5, EvaluateIs
      <4>5. Evaluate(profile, x[2]) = "allow"
        BY <3>1, <4>2, <4>3, <4>4 DEF Policy
      <4> QED BY <4>5 DEF MayRun
    <3> QED BY <3>2, <3>3
  <2>6. ToolsHold'
    <3>1. \A c \in Call' \ calls'.blocked : MayRun(<<c, calls'.act[c]>>)
      <4> HIDE DEF blocked, st
      <4> QED BY <1>5, <2>1, <2>5
    <3>2. (\A c \in Call \ calls.blocked : MayRun(<<c, calls.act[c]>>))'
      <4>1. ASSUME NEW c \in Call' \ calls'.blocked PROVE MayRun(<<c, calls.act[c]>>)'
        <5>1. PICK x : x = <<c, calls'.act[c]>>
          OBVIOUS
        <5>2. MayRun(x)
          BY <3>1, <5>1
        <5>3. MayRun(x)'
          BY <1>5, <5>2
        <5> QED BY <5>1, <5>3 DEF MayRun
      <4> QED BY <4>1
    <3> QED BY <1>4, <1>6, <2>1, <3>2 DEF ToolsHold
  <2> QED BY <1>5, <2>3, <2>4, <2>6
<1> QED BY <1>7, <1>8, <1>9

\* The tools run what after_model has left them.
LEMMA RunToolsHolds ==
  ASSUME ApprovalAssumption, AInv, RunTools
  PROVE  AInv'
<1> USE DEF AInv
<1>1. /\ UNCHANGED <<profile, proposed, answers, shown, calls, granted, mistaken, minted, changes>>
      /\ phase = "tools" /\ phase' = "done"
      /\ ran' = {<<c, calls.act[c]>> : c \in Call \ calls.blocked}
  BY DEF RunTools
<1>2. /\ ReplayHolds' /\ Call' = Call
      /\ \A x : MayRun(x)' <=> MayRun(x)
  BY <1>1, QuietStep
<1>3. ran' \subseteq Call \X Action
  BY <1>1 DEF ApprovalTypes, ApprovalTypeOK
<1>4. ApprovalTypes'
  BY <1>1, <1>2, <1>3 DEF ApprovalTypes, ApprovalTypeOK
<1>5. ReviewHolds'
  BY <1>1 DEF ReviewHolds
<1>6. \A x \in ran' : MayRun(x)
  BY <1>1 DEF ToolsHold
<1>7. ToolsHold'
  BY <1>1, <1>2, <1>6 DEF ToolsHold
<1> QED BY <1>2, <1>4, <1>5, <1>7

\* With one call alone every profile that asks about it asks the same.
LEMMA ChangePermissionsHolds ==
  ASSUME ApprovalAssumption, AInv, ChangePermissions
  PROVE  AInv'
<1> USE DEF AInv
<1>1. /\ UNCHANGED <<proposed, answers, shown, phase, calls, ran, granted, mistaken>>
      /\ phase = "waiting" /\ profile' \in Profiles /\ changes' = changes + 1
  BY DEF ChangePermissions
<1>2. changes' \in Nat /\ changes' # 0
  BY <1>1 DEF ApprovalTypes
<1>3. Call' = Call
  BY <1>1 DEF Call
<1>4. ApprovalTypes'
  BY <1>1, <1>2, <1>3 DEF ApprovalTypes, ApprovalTypeOK
<1>5. \A p : Replay(p)' = Replay(p) /\ (Asking(p)' <=> Asking(p)) /\ ReviewOf(p)' = ReviewOf(p)
  BY <1>1, SameReplay DEF ApprovalTypes
<1>6. Sure' => Sure /\ Readers' = Readers
  BY <1>1, <1>2 DEF Sure, Readers
<1>7. ReplayHolds'
  <2>1. StateType' = StateType
    BY <1>3 DEF StateType
  <2> QED BY <1>1, <1>2, <1>5, <1>6, <2>1 DEF ReplayHolds
<1>8. ReviewHolds'
  BY <1>1, <1>2, <1>5, <1>6 DEF ReviewHolds
<1>9. ToolsHold'
  BY <1>1 DEF ToolsHold
<1> QED BY <1>4, <1>7, <1>8, <1>9

\* The answer is read by the next replay as one round more: either it fits what was
\* asked, and approves what the human has seen, or it fails the run.
LEMMA AnswerReviewHolds ==
  ASSUME ApprovalAssumption, AInv, AnswerReview
  PROVE  AInv'
<1> USE DEF AInv
<1> DEFINE k == Cardinality(Offered)
<1>1. PICK pick \in [Offered -> [type : Decision, act : Action]], short \in BOOLEAN :
        LET full == [i \in 1..k |-> pick[CHOOSE c \in Offered : Place(c, Offered) = i]]
            offered == \A c \in Offered : pick[c].type \in Choices(profile, ShownAct(c))
        IN /\ answers' = Append(answers, IF short THEN Tail(full) ELSE full)
           /\ mistaken' = (mistaken \/ short \/ ~offered)
           /\ granted' = granted \union {<<c, ShownAct(c)>> : c \in {o \in Offered : pick[o].type = "approve"}}
  BY DEF AnswerReview
<1> DEFINE full == [i \in 1..k |-> pick[CHOOSE c \in Offered : Place(c, Offered) = i]]
           x == IF short THEN Tail(full) ELSE full
           said == {<<c, ShownAct(c)>> : c \in {o \in Offered : pick[o].type = "approve"}}
<1>2. /\ phase = "waiting" /\ phase' = "model" /\ shown'.calls = {}
      /\ UNCHANGED <<profile, proposed, calls, ran, changes>>
  BY DEF AnswerReview
<1>3. /\ answers' = Append(answers, x) /\ granted' = granted \union said
      /\ mistaken' = (mistaken \/ short \/ ~\A c \in Offered : pick[c].type \in Choices(profile, ShownAct(c)))
  BY <1>1
<1>4. /\ proposed \in Seq(Action) /\ Len(proposed) \in Nat /\ profile \in Profiles
      /\ answers \in Seq(Seq(AnswerType)) /\ shown.calls \subseteq Call \X Action /\ shown.calls # {}
      /\ changes \in Nat /\ mistaken \in BOOLEAN /\ granted \subseteq Call \X Action
  BY <1>2 DEF ApprovalTypes, ApprovalTypeOK
<1>5. Offered \subseteq Call /\ Offered \subseteq 1..Len(proposed) /\ Offered # {}
  <2>1. PICK y \in shown.calls : TRUE
    BY <1>4
  <2>2. y[1] \in Call
    BY <1>4
  <2> QED BY <2>2 DEF Offered, Call
<1>6. \A c \in Offered : <<c, ShownAct(c)>> \in Call \X Action
  <2>1. ASSUME NEW c \in Offered PROVE <<c, ShownAct(c)>> \in Call \X Action
    <3>1. \E y \in shown.calls : y[1] = c
      BY DEF Offered
    <3>2. (CHOOSE y \in shown.calls : y[1] = c) \in shown.calls
      BY <3>1
    <3>3. ShownAct(c) \in Action
      BY <1>4, <3>2 DEF ShownAct
    <3> QED BY <1>5, <3>3
  <2> QED BY <2>1
<1>7. said \subseteq Call \X Action
  BY <1>6
<1>8. k \in Nat /\ k >= 1 /\ \A c \in Offered : Place(c, Offered) \in 1..k
  <2>1. IsFiniteSet(Offered) /\ k \in Nat /\ \A c \in Offered : Place(c, Offered) \in 1..k
    BY <1>4, <1>5, PlacesDiffer
  <2>2. k # 0
    BY <1>5, <2>1, FS_EmptySet
  <2> QED BY <2>1, <2>2
<1>9. \A i \in 1..k : \E c \in Offered : Place(c, Offered) = i
  BY <1>4, <1>5, PlacesAreTaken
<1>10. full \in Seq(AnswerType) /\ Len(full) = k
  <2>1. \A i \in 1..k : (CHOOSE c \in Offered : Place(c, Offered) = i) \in Offered
    BY <1>9
  <2>2. \A i \in 1..k : pick[CHOOSE c \in Offered : Place(c, Offered) = i] \in AnswerType
    BY <2>1 DEF AnswerType
  <2> HIDE DEF k
  <2> QED BY <1>8, <2>2
<1>11. \A c \in Offered : full[Place(c, Offered)] = pick[c]
  <2>1. ASSUME NEW c \in Offered PROVE full[Place(c, Offered)] = pick[c]
    <3>1. (CHOOSE d \in Offered : Place(d, Offered) = Place(c, Offered)) = c
      <4> DEFINE e == CHOOSE d \in Offered : Place(d, Offered) = Place(c, Offered)
      <4>1. e \in Offered /\ Place(e, Offered) = Place(c, Offered)
        OBVIOUS
      <4> HIDE DEF e
      <4>2. e = c
        BY <1>4, <1>5, <4>1, PlacesDiffer
      <4> QED BY <4>2 DEF e
    <3>2. Place(c, Offered) \in 1..k
      BY <1>8
    <3> HIDE DEF k
    <3> QED BY <3>1, <3>2
  <2> QED BY <2>1
<1> HIDE DEF full, said
<1>12. x \in Seq(AnswerType) /\ (short => Len(x) = k - 1) /\ (~short => x = full)
  <2>1. full # <<>>
    BY <1>8, <1>10
  <2>2. Tail(full) \in Seq(AnswerType) /\ Len(Tail(full)) = k - 1
    BY <1>8, <1>10, <2>1
  <2> QED BY <1>10, <2>2
<1> HIDE DEF x, k
<1>13. ASSUME NEW p PROVE Replay(p)' = Round(p, Replay(p), x)
  <2>1. PICK a : a = Append(answers, x)
    OBVIOUS
  <2>2. a \in Seq(Seq(AnswerType)) /\ a = answers'
    BY <1>3, <1>4, <1>12, <2>1
  <2>3. Came(p, a)' = Came(p, a)
    BY <1>2, <2>2, SameCame
  <2>4. Came(p, Append(answers, x)) = Round(p, Came(p, answers), x)
    BY <1>4, <1>12, CameNext
  <2>5. Replay(p)' = Came(p, a)'
    BY <2>2 DEF Replay
  <2> QED BY <2>1, <2>3, <2>4, <2>5 DEF Replay
<1>14. Call' = Call /\ StateType' = StateType /\ (Sure' <=> Sure) /\ Readers' = Readers
       /\ Readers \subseteq Profiles /\ profile \in Readers
  BY <1>2, <1>4 DEF Call, StateType, Sure, Readers
<1>15. \A p : Asks(p) \subseteq Call /\ \A c \in Asks(p) : Evaluate(p, Evaluated(p, Replay(p)).act[c]) = "ask"
  BY DEF Asks, AskedOf, Open
<1>16. ASSUME NEW p \in Profiles
       PROVE  /\ Replay(p) \in StateType /\ Replay(p)' \in StateType
              /\ Evaluated(p, Replay(p)).act = Replay(p).act
              /\ Replay(p).failed \/ Asks(p) = {} =>
                   /\ Replay(p)' = Evaluated(p, Replay(p))
                   /\ Replay(p)'.approved = Replay(p).approved /\ Replay(p)'.failed = Replay(p).failed
              /\ Asking(p) /\ ~Fits(p, Evaluated(p, Replay(p)), x) =>
                   Replay(p)'.failed /\ Replay(p)'.approved = Replay(p).approved
              /\ Asking(p) /\ Fits(p, Evaluated(p, Replay(p)), x) =>
                   /\ ~Replay(p)'.failed
                   /\ Replay(p)'.approved = Replay(p).approved
                        \union {<<c, Replay(p).act[c]>> : c \in Chose(x, Asks(p), "approve")}
                   /\ \A c \in Call : Replay(p)'.act[c] =
                        IF c \in Chose(x, Asks(p), "edit") THEN x[Place(c, Asks(p))].act ELSE Replay(p).act[c]
  <2> DEFINE st == Replay(p)
  <2>1. st \in StateType /\ Replay(p)' = Round(p, st, x)
    BY <1>13 DEF ReplayHolds
  <2>2. LET e == Evaluated(p, st) IN
          e.act = st.act /\ e.approved = st.approved /\ e.failed = st.failed
    BY <2>1, EvaluatedIs
  <2> HIDE DEF st
  <2>3. Asks(p) = AskedOf(p, Evaluated(p, st)) /\ (Asking(p) <=> ~st.failed /\ Asks(p) # {})
    BY DEF Asks, Asking, st
  <2>4. LET e == Evaluated(p, st)
            q == AskedOf(p, e)
            r == Round(p, st, x)
        IN /\ r \in StateType
           /\ st.failed \/ q = {} => r = e
           /\ ~st.failed /\ q # {} /\ ~Fits(p, e, x) =>
                r.failed /\ r.act = st.act /\ r.approved = st.approved
           /\ ~st.failed /\ q # {} /\ Fits(p, e, x) =>
                /\ ~r.failed
                /\ r.approved = st.approved \union {<<c, st.act[c]>> : c \in Chose(x, q, "approve")}
                /\ \A c \in Call : r.act[c] = IF c \in Chose(x, q, "edit") THEN x[Place(c, q)].act ELSE st.act[c]
    BY <1>4, <1>12, <2>1, RoundIs
  <2> QED BY <2>1, <2>2, <2>3, <2>4 DEF st
<1>17. ApprovalTypes'
  <2>1. answers' \in Seq(Seq(AnswerType))
    BY <1>3, <1>4, <1>12
  <2>2. granted' \subseteq Call \X Action /\ mistaken' \in BOOLEAN
    BY <1>3, <1>4, <1>7
  <2>3. ApprovalTypeOK'
    BY <1>2, <1>14, <2>2 DEF ApprovalTypes, ApprovalTypeOK
  <2> QED BY <1>2, <1>4, <2>1, <2>2, <2>3 DEF ApprovalTypes
<1>18. ASSUME Sure, NEW p \in Readers, Asking(p)
       PROVE  Offered = Asks(p) /\ \A c \in Offered : ShownAct(c) = Replay(p).act[c]
  <2>1. shown.calls = {<<c, Replay(p).act[c]>> : c \in Asks(p)}
    BY <1>2, <1>18 DEF ReviewHolds, ReviewOf
  <2>2. Offered = Asks(p)
    <3>1. ASSUME NEW c \in Asks(p) PROVE c \in Offered
      <4>1. <<c, Replay(p).act[c]>> \in shown.calls /\ <<c, Replay(p).act[c]>>[1] = c /\ c \in Call
        BY <1>15, <2>1
      <4> QED BY <4>1 DEF Offered
    <3>2. ASSUME NEW c \in Offered PROVE c \in Asks(p)
      <4>1. PICK y \in shown.calls : y[1] = c
        BY DEF Offered
      <4>2. PICK d \in Asks(p) : y = <<d, Replay(p).act[d]>>
        BY <2>1
      <4> QED BY <4>1, <4>2
    <3> QED BY <3>1, <3>2
  <2>3. ASSUME NEW c \in Offered PROVE ShownAct(c) = Replay(p).act[c]
    <3>1. \E y \in shown.calls : y[1] = c
      BY <2>3 DEF Offered
    <3>2. \A y \in shown.calls : y[1] = c => y[2] = Replay(p).act[c]
      BY <2>1
    <3> QED BY <3>1, <3>2 DEF ShownAct
  <2> QED BY <2>2, <2>3
<1>19. ASSUME Sure, NEW p \in Readers, Asking(p), Fits(p, Evaluated(p, Replay(p)), x)
       PROVE  /\ x = full
              /\ {<<c, Replay(p).act[c]>> : c \in Chose(x, Asks(p), "approve")} = said
  <2>1. Offered = Asks(p) /\ \A c \in Offered : ShownAct(c) = Replay(p).act[c]
    BY <1>18, <1>19
  <2>2. Len(x) = k
    BY <1>19, <2>1 DEF Fits, Asks, k
  <2>3. x = full
    BY <1>8, <1>12, <2>2
  <2>4. Chose(x, Asks(p), "approve") = {o \in Offered : pick[o].type = "approve"}
    BY <1>11, <2>1, <2>3 DEF Chose
  <2> QED BY <2>1, <2>3, <2>4 DEF said
<1>20. Sure => \A p \in Readers : Replay(p)'.approved \subseteq granted'
  <2>1. ASSUME Sure, NEW p \in Readers PROVE Replay(p)'.approved \subseteq granted \union said
    <3>1. Replay(p).approved \subseteq granted /\ p \in Profiles
      BY <1>14, <2>1 DEF ReplayHolds
    <3>2. CASE Asking(p) /\ Fits(p, Evaluated(p, Replay(p)), x)
      <4>1. Replay(p)'.approved = Replay(p).approved
              \union {<<c, Replay(p).act[c]>> : c \in Chose(x, Asks(p), "approve")}
        BY <1>16, <3>1, <3>2
      <4>2. {<<c, Replay(p).act[c]>> : c \in Chose(x, Asks(p), "approve")} = said
        BY <1>19, <2>1, <3>2
      <4> QED BY <3>1, <4>1, <4>2
    <3>3. CASE ~(Asking(p) /\ Fits(p, Evaluated(p, Replay(p)), x))
      <4>1. Replay(p)'.approved = Replay(p).approved
        BY <1>16, <3>1, <3>3 DEF Asking
      <4> QED BY <3>1, <4>1
    <3> QED BY <3>2, <3>3
  <2> QED BY <1>3, <2>1
<1>21. ASSUME NEW p \in Profiles, Asking(p)'
       PROVE  Asking(p) /\ Fits(p, Evaluated(p, Replay(p)), x)
  <2>1. PICK r : r = Replay(p)'
    OBVIOUS
  <2>5. PICK s : s = Evaluated(p, r)
    OBVIOUS
  <2>6. ~r.failed /\ AskedOf(p, s) # {}
    <3>1. (Evaluated(p, r)' = Evaluated(p, r)) /\ (AskedOf(p, s)' = AskedOf(p, s))
      BY <1>2, SameRound
    <3>2. Evaluated(p, Replay(p))' = s
      BY <2>1, <2>5, <3>1
    <3>3. Asks(p)' = AskedOf(p, s)'
      BY <3>2 DEF Asks
    <3> QED BY <1>21, <2>1, <3>1, <3>3 DEF Asking
  <2>2. CASE Replay(p).failed
    BY <1>16, <2>1, <2>2, <2>6
  <2>3. CASE ~Replay(p).failed /\ Asks(p) = {}
    <3>1. Replay(p)' = Evaluated(p, Replay(p)) /\ Replay(p)' \in StateType
      BY <1>16, <2>3
    <3>2. r = Evaluated(p, Replay(p)) /\ r \in StateType
      BY <2>1, <3>1
    <3>3. AskedOf(p, s) \subseteq AskedOf(p, r)
      BY <2>5, <3>2, EvaluatedIs
    <3>4. AskedOf(p, r) = {}
      BY <2>3, <3>2 DEF Asks
    <3> QED BY <2>6, <3>3, <3>4
  <2>4. CASE Asking(p) /\ ~Fits(p, Evaluated(p, Replay(p)), x)
    BY <1>16, <2>1, <2>4, <2>6
  <2> QED BY <2>2, <2>3, <2>4 DEF Asking
<1>22. ASSUME Sure, NEW p \in Readers, NEW q \in Readers, Asking(p)', Asking(q)'
       PROVE  Replay(p)'.act = Replay(q)'.act
  <2>1. p \in Profiles /\ q \in Profiles
    BY <1>14
  <2>2. Asking(p) /\ Asking(q) /\ Fits(p, Evaluated(p, Replay(p)), x) /\ Fits(q, Evaluated(q, Replay(q)), x)
    BY <1>21, <1>22, <2>1
  <2>3. Replay(p).act = Replay(q).act
    BY <1>22, <2>2 DEF ReplayHolds
  <2>4. Asks(p) = Asks(q)
    BY <1>18, <1>22, <2>2
  <2>5. \A c \in Call : Replay(p)'.act[c] = Replay(q)'.act[c]
    BY <1>16, <2>1, <2>2, <2>3, <2>4
  <2>6. Replay(p)'.act \in [Call -> Action] /\ Replay(q)'.act \in [Call -> Action]
    BY <1>16, <2>1 DEF StateType
  <2> QED BY <2>5, <2>6
<1>23. ASSUME NEW p \in Profiles, NEW y \in Replay(p)'.approved PROVE Evaluate(p, y[2]) = "ask"
  <2>1. CASE y \in Replay(p).approved
    BY <2>1 DEF ReplayHolds
  <2>2. CASE y \notin Replay(p).approved
    <3>1. y \in {<<c, Replay(p).act[c]>> : c \in Chose(x, Asks(p), "approve")}
      BY <1>16, <1>23, <2>2 DEF Asking
    <3>2. PICK c \in Asks(p) : y = <<c, Replay(p).act[c]>>
      BY <3>1 DEF Chose
    <3>3. Evaluate(p, Replay(p).act[c]) = "ask"
      BY <1>15, <1>16
    <3> QED BY <3>2, <3>3
  <2> QED BY <2>1, <2>2
<1>24. ASSUME changes = 0, NEW p, p = profile
       PROVE  IF Replay(p)'.failed THEN mistaken' ELSE granted' = Replay(p)'.approved
  <2>1. Sure /\ p \in Readers /\ p \in Profiles /\ Asking(p) /\ ~Replay(p).failed
    BY <1>2, <1>4, <1>14, <1>24 DEF Sure, ReviewHolds, Asking
  <2>2. granted = Replay(p).approved
    BY <1>24, <2>1 DEF ReplayHolds
  <2>3. CASE Fits(p, Evaluated(p, Replay(p)), x)
    <3>1. /\ ~Replay(p)'.failed
          /\ Replay(p)'.approved = Replay(p).approved
               \union {<<c, Replay(p).act[c]>> : c \in Chose(x, Asks(p), "approve")}
      BY <1>16, <2>1, <2>3
    <3>2. {<<c, Replay(p).act[c]>> : c \in Chose(x, Asks(p), "approve")} = said
      BY <1>19, <2>1, <2>3
    <3> QED BY <1>3, <2>2, <3>1, <3>2
  <2>4. CASE ~Fits(p, Evaluated(p, Replay(p)), x)
    <3>1. Replay(p)'.failed
      BY <1>16, <2>1, <2>4
    <3>2. SUFFICES ASSUME ~short, \A c \in Offered : pick[c].type \in Choices(profile, ShownAct(c)) PROVE FALSE
      BY <1>3, <3>1
    <3>3. Offered = Asks(p) /\ (\A c \in Offered : ShownAct(c) = Replay(p).act[c])
          /\ x = full /\ Evaluated(p, Replay(p)).act = Replay(p).act
      BY <1>12, <1>16, <1>18, <2>1, <3>2
    <3>4. Asks(p) = AskedOf(p, Evaluated(p, Replay(p)))
      BY DEF Asks
    <3>5. Len(x) = Cardinality(Asks(p))
      BY <1>10, <3>3 DEF k
    <3>6. \A c \in Asks(p) : x[Place(c, Asks(p))].type \in Choices(p, Evaluated(p, Replay(p)).act[c])
      BY <1>11, <1>24, <3>2, <3>3
    <3> QED BY <2>4, <3>4, <3>5, <3>6 DEF Fits
  <2> QED BY <2>3, <2>4
<1>25. ReplayHolds'
  <2>1. changes' = 0 => IF Replay(profile)'.failed THEN mistaken' ELSE granted' = Replay(profile)'.approved
    <3>1. PICK p : p = profile
      OBVIOUS
    <3>2. Replay(profile)' = Replay(p)'
      BY <1>2, <3>1 DEF Replay
    <3> QED BY <1>2, <1>24, <3>1, <3>2
  <2> QED BY <1>2, <1>14, <1>16, <1>20, <1>22, <1>23, <2>1 DEF ReplayHolds
<1>26. ReviewHolds'
  BY <1>2 DEF ReviewHolds
<1>27. ToolsHold'
  BY <1>2 DEF ToolsHold
<1> QED BY <1>17, <1>25, <1>26, <1>27

\* The invariant is kept by every step.
LEMMA AInvHolds ==
  ASSUME ApprovalAssumption, AInv, [ApprovalNext]_approvalVars
  PROVE  AInv'
<1>1. CASE UNCHANGED approvalVars
  <2>1. UNCHANGED <<profile, proposed, answers, granted, mistaken, changes>>
        /\ UNCHANGED <<shown, phase, calls, ran>>
    BY <1>1 DEF approvalVars
  <2>2. /\ ReplayHolds' /\ (Sure' <=> Sure) /\ Readers' = Readers /\ Call' = Call
        /\ \A x : MayRun(x)' <=> MayRun(x)
        /\ \A p : Replay(p)' = Replay(p) /\ (Asking(p)' <=> Asking(p)) /\ ReviewOf(p)' = ReviewOf(p)
    BY <2>1, QuietStep
  <2>3. ApprovalTypes'
    BY <2>1, <2>2 DEF AInv, ApprovalTypes, ApprovalTypeOK
  <2>4. Asking(profile)' <=> Asking(profile)
    <3>1. PICK p : p = profile
      OBVIOUS
    <3>2. Asking(p)' <=> Asking(p)
      BY <2>2
    <3> QED BY <2>1, <3>1, <3>2 DEF Asking, Asks, Replay
  <2>5. ReviewHolds'
    BY <2>1, <2>2, <2>4 DEF AInv, ReviewHolds
  <2>6. (\A c \in Call \ calls.blocked : MayRun(<<c, calls.act[c]>>))'
          <=> \A c \in Call \ calls.blocked : MayRun(<<c, calls.act[c]>>)
    BY <2>1, <2>2 DEF MayRun
  <2>7. ToolsHold'
    BY <2>1, <2>2, <2>6 DEF AInv, ToolsHold
  <2> QED BY <2>2, <2>3, <2>5, <2>7 DEF AInv
<1> QED BY <1>1, AfterModelHolds, AnswerReviewHolds, ChangePermissionsHolds, RunToolsHolds DEF ApprovalNext

\* And it says what is promised.
LEMMA AInvKeepsApproval ==
  ASSUME ApprovalAssumption, AInv
  PROVE  ApprovalIsKept
<1> USE DEF AInv
<1>1. ApprovalTypeOK /\ profile \in Profile /\ profile \in Profiles /\ profile \in Readers
  BY DEF ApprovalTypes, ApprovalTypeOK, ApprovalAssumption, Readers
<1>2. Sure => NothingUnapprovedRuns
  BY DEF ToolsHold, MayRun, NothingUnapprovedRuns
<1>3. Sure => DenyAndRiskComeFirst
  <2>1. SUFFICES ASSUME Sure, NEW x \in ran, x[2].tool = "execute"
                 PROVE  /\ x[2].command # <<>> => profile.rules[x[2].command[1]] # "deny"
                        /\ x[2].command = <<>> \/ Len(x[2].command) > 1 \/ x[2].command = <<"rm">> =>
                             x \in granted
                               \/ (IF x[2].command = <<>> THEN "command_parse_error"
                                   ELSE IF Len(x[2].command) > 1 THEN "shell_control_operator"
                                   ELSE "destructive_filesystem") \notin profile.reviewed
    BY DEF DenyAndRiskComeFirst
  <2>2. x[2] \in Action /\ MayRun(x)
    BY <1>1, <2>1 DEF ApprovalTypeOK, ToolsHold
  <2>3. x[2].command # <<>> => profile.rules[x[2].command[1]] # "deny"
    BY <1>1, <2>1, <2>2, EvaluateIs DEF MayRun
  <2>4. x \notin granted => Risks(x[2].command) \intersect profile.reviewed = {}
    BY <1>1, <2>1, <2>2, EvaluateIs DEF MayRun
  <2>5. \A command \in Command :
          /\ command = <<>> => Risks(command) = {"command_parse_error"}
          /\ command # <<>> /\ Len(command) > 1 => Risks(command) = {"shell_control_operator"}
          /\ command = <<"rm">> => Risks(command) = {"destructive_filesystem"} /\ ~(Len(command) > 1)
    <3>1. <<>> # <<"rm">> /\ ~(Len(<<>>) > 1) /\ ~(Len(<<"rm">>) > 1)
      OBVIOUS
    <3>2. ASSUME NEW command \in Command, command = <<>> PROVE Risks(command) = {"command_parse_error"}
      BY <3>1, <3>2 DEF Risks
    <3>3. ASSUME NEW command \in Command, command # <<>>, Len(command) > 1
          PROVE  Risks(command) = {"shell_control_operator"}
      <4>1. command # <<"rm">>
        BY <3>1, <3>3
      <4> QED BY <3>3, <4>1 DEF Risks
    <3>4. ASSUME NEW command \in Command, command = <<"rm">> PROVE Risks(command) = {"destructive_filesystem"}
      BY <3>1, <3>4 DEF Risks
    <3> QED BY <3>1, <3>2, <3>3, <3>4
  <2>6. x[2].command \in Command
    BY <2>2 DEF Action, Command
  <2> QED BY <2>3, <2>4, <2>5, <2>6
<1>4. changes = 0 => AskedOnce
  <2>1. CASE phase = "waiting" /\ changes = 0
    <3>1. Sure /\ Asking(profile) /\ shown.calls = ReviewOf(profile) /\ granted = Replay(profile).approved
      BY <1>1, <2>1 DEF ReviewHolds, ReplayHolds, Sure, Asking
    <3>2. Replay(profile) \in StateType
      BY <1>1 DEF ReplayHolds
    <3>3. Evaluated(profile, Replay(profile)).act = Replay(profile).act
          /\ Evaluated(profile, Replay(profile)).approved = Replay(profile).approved
      BY <3>2, EvaluatedIs
    <3>4. \A c \in Asks(profile) : <<c, Replay(profile).act[c]>> \notin Replay(profile).approved
      BY <3>3 DEF Asks, AskedOf, Open
    <3> QED BY <3>1, <3>4 DEF AskedOnce, ReviewOf
  <2>2. CASE phase # "waiting"
    BY <1>1, <2>2 DEF ApprovalTypeOK, AskedOnce
  <2> QED BY <2>1, <2>2
<1>5. changes = 0 => AnswersAreApplied
  BY DEF ReviewHolds, AnswersAreApplied
<1> QED BY <1>1, <1>2, <1>3, <1>4, <1>5 DEF ApprovalIsKept, Sure

\* Whatever the model proposes, however often after_model is replayed, and whatever the
\* humans answer: nothing runs unapproved or against a denied prefix, nothing is asked
\* twice, and no answer given as offered fails the run.
THEOREM ApprovalsAreKept == ApprovalAssumption => (ApprovalSpec => []ApprovalIsKept)
<1> SUFFICES ASSUME ApprovalAssumption PROVE ApprovalSpec => []ApprovalIsKept
  OBVIOUS
<1>1. ApprovalInit => AInv
  BY ApprovalInitHolds
<1>2. AInv /\ [ApprovalNext]_approvalVars => AInv'
  BY AInvHolds
<1>3. AInv => ApprovalIsKept
  BY AInvKeepsApproval
<1> QED BY <1>1, <1>2, <1>3, PTL DEF ApprovalSpec

----------------------------------------------------------------------------
(* The walk through the reviews                                             *)

Row == [id : Ids, seq : 1..MaxSeq, order : Times]
Boundary == [id : Nat, order : Nat, include : BOOLEAN]
CursorType ==
  [version : {"start", "v2", "v4", "v5", "end"}, id : Nat, at : Nat, frontier : Nat,
   boundary : Boundary]
PageType ==
  [open : BOOLEAN, limit : Nat, old : BOOLEAN, records : SUBSET Row, left : SUBSET Row,
   frontier : Nat, boundary : Boundary, items : SUBSET Row, blocked : BOOLEAN]

\* Rows differ in their id, their owner and their sequence.
RowsDiffer(R) == \A r, q \in R : Owner[r.id] = Owner[q.id] \/ r.seq = q.seq => r = q
RowsHold ==
  /\ reviews \in SUBSET Row /\ IsFiniteSet(reviews) /\ RowsDiffer(reviews)
  /\ lastSeq \in 0..MaxSeq /\ \A r \in reviews : r.seq <= lastSeq
  /\ seen \in SUBSET Row /\ ~twice

\* The rows a page opened with a cursor would still have to scan.
Remains(q, c) ==
  \/ c.version = "start"
  \/ c.version = "v2" /\ (q.id = c.id \/ Precedes(OldKey(q), <<c.at, c.id>>))
  \/ c.version = "v4" /\ q.seq <= c.frontier /\ (q.id = c.id \/ q.seq < c.at)
  \/ /\ c.version = "v5" /\ q.seq <= c.frontier /\ Within(q, c.boundary)
     /\ q.id = c.id \/ Precedes(OldKey(q), <<c.at, c.id>>)

\* A cursor is one of the walk: its key is that of the row it names, if that is there.
Points(c, R, top) ==
  /\ c.version = "start" => c = NoCursor
  /\ c.version = "end" => c = EndCursor
  /\ c.version \in {"v4", "v5"} =>
       /\ c.frontier \in 1..top
       /\ \A q \in R : q.id = c.id /\ q.seq <= c.frontier =>
            c.at = IF c.version = "v4" THEN q.seq ELSE q.order

\* Nothing that remains was seen, and what the walk owes remains or was seen.
Parts(c, R, given, owed) ==
  /\ c.version \in {"start", "v2"} => given = {}
  /\ \A b \in given, q \in R : q.id = b.id => ~Remains(q, c)
  /\ c.version # "start" =>
       \A s \in owed : \E q \in R :
         Owner[q.id] \in Routed /\ q.seq = s /\ (Remains(q, c) \/ s \in Seqs(given))

\* What is left of a page is the end of its order, and its items were before that.
InPage(q, p) == q.seq <= p.frontier /\ (p.old => Within(q, p.boundary))
Shaped(p, top) ==
  /\ p.left \subseteq p.records /\ IsFiniteSet(p.records)
  /\ p.frontier <= top
  /\ \A r, q \in p.records : r.id = q.id \/ r.seq = q.seq => r = q
  /\ \A r \in p.records : InPage(r, p)
  /\ \A r \in p.records, l \in p.left : Above(l, r, p.old) => r \in p.left
  /\ \A a \in p.items : \E r \in p.records \ p.left : r.id = a.id
  /\ IsFiniteSet(p.items) /\ Cardinality(p.items) <= p.limit

\* The records of a page are the rows below its frontier, or were when it was opened.
Covers(p, R) ==
  /\ \A q \in R : InPage(q, p) => q \in p.records
  /\ \A q \in R, r \in p.records : q.id = r.id => q = r \/ q.seq > p.frontier

\* Nothing that is listed or left was seen; what is owed is listed, left or was seen.
Divides(p, R, given, owed) ==
  /\ \A b \in given : \A r \in p.items \cup p.left : b.id # r.id
  /\ \A s \in owed : \E q \in R :
       Owner[q.id] \in Routed /\ q.seq = s /\ (q \in p.left \/ q \in p.items \/ s \in Seqs(given))

CursorHolds ==
  cursor \in CursorType /\ Points(cursor, reviews, lastSeq) /\ Parts(cursor, reviews, seen, due)
PageHolds ==
  /\ page \in PageType
  /\ page.open => /\ cursor.version # "end"
                  /\ Shaped(page, lastSeq)
                  /\ Covers(page, reviews)
                  /\ Divides(page, reviews, seen, due)

ListingInv == RowsHold /\ CursorHolds /\ PageHolds

----------------------------------------------------------------------------
(* Orders                                                                   *)

LEMMA RowIs ==
  ASSUME ListingAssumption, NEW r \in Row
  PROVE  r.id \in Ids /\ r.id \in Nat /\ r.seq \in Nat /\ r.seq > 0 /\ r.order \in Nat
<1>1. r.id \in Ids /\ r.seq \in 1..MaxSeq /\ r.order \in Times
  BY DEF Row
<1>2. Ids \subseteq Nat /\ Times \subseteq Nat /\ MaxSeq \in Nat
  BY DEF ListingAssumption
<1>3. r.seq \in Nat /\ r.seq > 0
  BY <1>1, <1>2
<1> QED BY <1>1, <1>2, <1>3

\* The order of the pages, by its keys.
LEMMA AboveIs ==
  ASSUME ListingAssumption, NEW r \in Row, NEW q \in Row, NEW old \in BOOLEAN
  PROVE  Above(r, q, old) <=>
           IF old THEN q.order < r.order \/ (q.order = r.order /\ q.id < r.id)
                  ELSE q.seq < r.seq \/ (q.seq = r.seq /\ q.id < r.id)
BY DEF Above, Precedes, OldKey

LEMMA AboveIsAnOrder ==
  ASSUME ListingAssumption, NEW r \in Row, NEW q \in Row, NEW old \in BOOLEAN
  PROVE  /\ ~Above(r, r, old)
         /\ Above(r, q, old) => ~Above(q, r, old)
         /\ r.id # q.id => Above(r, q, old) \/ Above(q, r, old)
         /\ \A s \in Row : Above(r, q, old) /\ Above(q, s, old) => Above(r, s, old)
<1>1. /\ r.id \in Nat /\ r.seq \in Nat /\ r.order \in Nat
      /\ q.id \in Nat /\ q.seq \in Nat /\ q.order \in Nat
  BY RowIs
<1>2. ~Above(r, r, old)
  BY <1>1, AboveIs
<1>3. Above(r, q, old) => ~Above(q, r, old)
  BY <1>1, AboveIs
<1>4. r.id # q.id => Above(r, q, old) \/ Above(q, r, old)
  BY <1>1, AboveIs
<1>5. ASSUME NEW s \in Row, Above(r, q, old), Above(q, s, old) PROVE Above(r, s, old)
  <2>1. s.id \in Nat /\ s.seq \in Nat /\ s.order \in Nat
    BY RowIs
  <2> QED BY <1>1, <1>5, <2>1, AboveIs
<1> QED BY <1>2, <1>3, <1>4, <1>5

\* In a finite set with a strict order that is total, one element comes before all.
LEMMA FirstExists ==
  ASSUME NEW S, S # {}, IsFiniteSet(S), NEW O \in SUBSET (S \X S),
         \A a \in S : <<a, a>> \notin O,
         \A a, b, c \in S : <<a, b>> \in O /\ <<b, c>> \in O => <<a, c>> \in O,
         \A a, b \in S : a # b => <<a, b>> \in O \/ <<b, a>> \in O
  PROVE  \E m \in S : \A a \in S : a = m \/ <<m, a>> \in O
<1> DEFINE Upto(a) == {b \in S : b = a \/ <<b, a>> \in O}
           Sizes == {Cardinality(Upto(a)) : a \in S}
<1>1. \A a \in S : IsFiniteSet(Upto(a)) /\ Cardinality(Upto(a)) \in Nat
  BY FS_Subset, FS_CardinalityType
<1>2. PICK least \in Sizes : \A n \in Sizes : least <= n
  <2>1. Sizes \in SUBSET Nat /\ Sizes # {}
    <3> HIDE DEF Upto
    <3> QED BY <1>1
  <2> HIDE DEF Sizes
  <2> QED BY <2>1, LeastNumber
<1>3. PICK m \in S : least = Cardinality(Upto(m))
  BY <1>2
<1>4. ASSUME NEW a \in S, a # m, <<m, a>> \notin O PROVE FALSE
  <2>1. <<a, m>> \in O
    BY <1>4
  <2>2. Upto(a) \in SUBSET Upto(m)
    BY <2>1
  <2>3. m \notin Upto(a) /\ m \in Upto(m)
    BY <1>4
  <2>4. Cardinality(Upto(a)) <= Cardinality(Upto(m))
        /\ Cardinality(Upto(a)) # Cardinality(Upto(m))
    <3> HIDE DEF Upto
    <3> QED BY <1>1, <2>2, <2>3, FS_Subset
  <2> HIDE DEF Upto
  <2>5. least <= Cardinality(Upto(a))
    BY <1>2, <1>4
  <2> QED BY <1>1, <1>3, <2>4, <2>5
<1> QED BY <1>4

\* Rows of different ids have a first and a last one in the order of the pages.
LEMMA EndsExist ==
  ASSUME ListingAssumption, NEW old \in BOOLEAN, NEW S \in SUBSET Row, S # {},
         IsFiniteSet(S), \A r, q \in S : r.id = q.id => r = q
  PROVE  /\ \E m \in S : \A q \in S : q = m \/ Above(m, q, old)
         /\ \E m \in S : \A q \in S : q = m \/ Above(q, m, old)
<1> DEFINE Down == {x \in S \X S : Above(x[1], x[2], old)}
           Up == {x \in S \X S : Above(x[2], x[1], old)}
<1>1. \A r \in S : ~Above(r, r, old)
  BY AboveIsAnOrder
<1>2. \A r, q, s \in S : Above(r, q, old) /\ Above(q, s, old) => Above(r, s, old)
  BY AboveIsAnOrder
<1>3. \A r, q \in S : r # q => Above(r, q, old) \/ Above(q, r, old)
  BY AboveIsAnOrder
<1>4. \E m \in S : \A q \in S : q = m \/ <<m, q>> \in Down
  <2>1. /\ Down \in SUBSET (S \X S)
        /\ \A a \in S : <<a, a>> \notin Down
    BY <1>1
  <2>2. \A a, b, c \in S : <<a, b>> \in Down /\ <<b, c>> \in Down => <<a, c>> \in Down
    BY <1>2
  <2>3. \A a, b \in S : a # b => <<a, b>> \in Down \/ <<b, a>> \in Down
    BY <1>3
  <2> HIDE DEF Down
  <2> QED BY <2>1, <2>2, <2>3, FirstExists
<1>5. \E m \in S : \A q \in S : q = m \/ <<m, q>> \in Up
  <2>1. /\ Up \in SUBSET (S \X S)
        /\ \A a \in S : <<a, a>> \notin Up
    BY <1>1
  <2>2. \A a, b, c \in S : <<a, b>> \in Up /\ <<b, c>> \in Up => <<a, c>> \in Up
    BY <1>2
  <2>3. \A a, b \in S : a # b => <<a, b>> \in Up \/ <<b, a>> \in Up
    BY <1>3
  <2> HIDE DEF Up
  <2> QED BY <2>1, <2>2, <2>3, FirstExists
<1> QED BY <1>4, <1>5

LEMMA TopmostIs ==
  ASSUME ListingAssumption, NEW old \in BOOLEAN, NEW S \in SUBSET Row, S # {},
         IsFiniteSet(S), \A r, q \in S : r.id = q.id => r = q
  PROVE  /\ Topmost(S, old) \in S
         /\ \A q \in S : Topmost(S, old) = q \/ Above(Topmost(S, old), q, old)
<1>1. \E m \in S : \A q \in S : m = q \/ Above(m, q, old)
  BY EndsExist
<1> QED BY <1>1 DEF Topmost

\* The frontier of a first page is the highest of its sequences.
LEMMA FrontierIs ==
  ASSUME ListingAssumption, NEW S \in SUBSET Row, NEW top \in Nat,
         \A r \in S : r.seq <= top
  PROVE  /\ Frontier(S) \in Nat /\ Frontier(S) <= top
         /\ \A r \in S : r.seq <= Frontier(S)
<1> DEFINE Bounds == {n \in Nat : \A r \in S : r.seq <= n}
<1>1. PICK n \in Bounds : \A k \in Bounds : n <= k
  <2>1. Bounds \in SUBSET Nat /\ Bounds # {}
    OBVIOUS
  <2> HIDE DEF Bounds
  <2> QED BY <2>1, LeastNumber
<1>2. n \in {0} \cup Seqs(S)
  <2>1. SUFFICES ASSUME n # 0 PROVE n \in Seqs(S)
    OBVIOUS
  <2>2. n - 1 \in Nat /\ n - 1 \notin Bounds
    BY <1>1, <2>1
  <2>3. PICK r \in S : ~(r.seq <= n - 1)
    BY <2>2
  <2>4. r.seq = n
    BY <1>1, <2>3, RowIs
  <2> QED BY <2>4 DEF Seqs
<1>3. Frontier(S) \in {0} \cup Seqs(S) /\ \A r \in S : r.seq <= Frontier(S)
  BY <1>1, <1>2 DEF Frontier
<1>4. Frontier(S) = 0 \/ \E r \in S : Frontier(S) = r.seq
  BY <1>3 DEF Seqs
<1> QED BY <1>3, <1>4, RowIs

----------------------------------------------------------------------------
(* Pages are opened                                                         *)

\* A page is opened with the rows of its range, and of these what remains is left.
OpensFor(p, limit, c) ==
  /\ p \in PageType
  /\ p.open /\ p.limit = limit /\ p.items = {}
  /\ p.frontier <= lastSeq
  /\ p.records = {q \in reviews : InPage(q, p)}
  /\ p.left = {q \in reviews : Remains(q, c)}
  /\ \A q \in reviews : Remains(q, c) => InPage(q, p)
  /\ \A r \in p.records, l \in p.left : Above(l, r, p.old) => r \in p.left

LEMMA OpenedFits ==
  ASSUME NEW limit \in Nat, NEW old \in BOOLEAN, NEW records \in SUBSET Row,
         NEW left \in SUBSET Row, NEW frontier \in Nat, NEW boundary \in Boundary
  PROVE  Opened(limit, old, records, left, frontier, boundary) \in PageType
BY DEF Opened, PageType

LEMMA BoundaryIs == NoBoundary \in Boundary
BY DEF NoBoundary, Boundary

LEMMA FreshPageOpens ==
  ASSUME ListingAssumption, RowsHold, NEW limit \in Nat, NEW c, c.version = "start"
  PROVE  OpensFor(FreshPage(limit), limit, c)
<1> DEFINE f == Frontier(reviews)
           p == Opened(limit, FALSE, reviews, reviews, f, NoBoundary)
<1>1. f \in Nat /\ f <= lastSeq /\ \A r \in reviews : r.seq <= f
  <2>1. lastSeq \in Nat /\ reviews \in SUBSET Row /\ \A r \in reviews : r.seq <= lastSeq
    BY DEF RowsHold, ListingAssumption
  <2> QED BY <2>1, FrontierIs
<1> HIDE DEF f
<1>2. reviews \in SUBSET Row
  BY DEF RowsHold
<1>3. p \in PageType
  BY <1>1, <1>2, BoundaryIs, OpenedFits
<1>4. /\ p.open = TRUE /\ p.limit = limit /\ p.old = FALSE
      /\ p.records = reviews /\ p.left = reviews
      /\ p.frontier = f /\ p.items = {}
  BY DEF Opened
<1> HIDE DEF p
<1>5. \A q \in reviews : Remains(q, c) /\ InPage(q, p)
  BY <1>1, <1>4 DEF Remains, InPage
<1>6. OpensFor(p, limit, c)
  BY <1>1, <1>3, <1>4, <1>5 DEF OpensFor
<1> QED BY <1>6 DEF p, f, FreshPage

LEMMA SequencePageOpens ==
  ASSUME ListingAssumption, RowsHold, NEW limit \in Nat, NEW c \in CursorType,
         c.version = "v4", Points(c, reviews, lastSeq)
  PROVE  OpensFor(SequencePage(limit, c), limit, c)
<1> DEFINE all == {r \in reviews : r.seq <= c.frontier}
           below == {r \in all : r.seq < c.at}
           left == Resumed(all, FALSE, c.id, below)
           p == Opened(limit, FALSE, all, left, c.frontier, NoBoundary)
<1>1. /\ reviews \in SUBSET Row /\ lastSeq \in Nat
      /\ \A r, q \in reviews : r.id = q.id \/ r.seq = q.seq => r = q
  BY DEF RowsHold, RowsDiffer, ListingAssumption
<1>2. /\ c.frontier \in Nat /\ c.frontier <= lastSeq /\ c.at \in Nat
      /\ \A q \in all : q.id = c.id => c.at = q.seq
  <2>1. c.frontier \in 1..lastSeq /\ \A q \in all : q.id = c.id => c.at = q.seq
    BY DEF Points
  <2> HIDE DEF all
  <2>2. c.at \in Nat
    BY DEF CursorType
  <2> QED BY <1>1, <2>1, <2>2
<1>3. \A q \in reviews : Remains(q, c) <=> q \in all /\ (q.id = c.id \/ q.seq < c.at)
  BY DEF Remains
<1>4. ASSUME NEW q \in all PROVE q \in left <=> q.id = c.id \/ q.seq < c.at
  <2>1. CASE \E r \in all : r.id = c.id
    <3>1. PICK r \in all : r.id = c.id
      BY <2>1
    <3>2. \A x \in all : x.id = c.id => x = r
      BY <1>1, <3>1
    <3>3. q \in left <=> ~Above(q, r, FALSE)
      BY <3>1, <3>2 DEF Resumed
    <3>4. ~Above(q, r, FALSE) <=> q.seq < r.seq \/ (q.seq = r.seq /\ q.id <= r.id)
      <4>1. q \in Row /\ r \in Row
        BY <1>1
      <4>2. Above(q, r, FALSE) <=> r.seq < q.seq \/ (r.seq = q.seq /\ r.id < q.id)
        BY <4>1, AboveIs
      <4>3. q.seq \in Nat /\ r.seq \in Nat /\ q.id \in Nat /\ r.id \in Nat
        BY <4>1, RowIs
      <4>4. ~(r.seq < q.seq \/ (r.seq = q.seq /\ r.id < q.id))
            <=> q.seq < r.seq \/ (q.seq = r.seq /\ q.id <= r.id)
        BY <4>3
      <4> QED BY <4>2, <4>4, Zenon
    <3>5. q.seq = r.seq <=> q = r
      BY <1>1
    <3>6. q.id = c.id <=> q = r
      BY <3>1, <3>2
    <3>7. r.id \in Nat /\ c.at = r.seq
      BY <1>1, <1>2, <3>1, RowIs
    <3>8. q = r => q.id <= r.id
      BY <3>7
    <3> HIDE DEF all, left
    <3> QED BY <3>3, <3>4, <3>5, <3>6, <3>7, <3>8
  <2>2. CASE ~\E r \in all : r.id = c.id
    <3>1. left = below
      BY <2>2 DEF Resumed
    <3> QED BY <2>2, <3>1
  <2> QED BY <2>1, <2>2
<1>5. left \subseteq all
  BY DEF Resumed
<1> HIDE DEF left
<1>6. left = {q \in reviews : Remains(q, c)}
  BY <1>3, <1>4, <1>5
<1>7. ASSUME NEW r \in all, NEW l \in left, Above(l, r, FALSE) PROVE r \in left
  <2>1. /\ r \in Row /\ l \in Row /\ l \in all
        /\ l.id = c.id \/ l.seq < c.at
    BY <1>1, <1>4, <1>5
  <2>2. r.seq < l.seq \/ (r.seq = l.seq /\ r.id < l.id)
    BY <1>7, <2>1, AboveIs
  <2>3. l.seq <= c.at /\ l.seq \in Nat /\ r.seq \in Nat
    BY <1>2, <2>1, RowIs
  <2>4. r.seq = l.seq => r = l
    BY <1>1, <2>1
  <2>5. r.seq < l.seq
    BY <2>1, <2>2, <2>4, RowIs
  <2>6. r.seq < c.at
    BY <1>2, <2>3, <2>5
  <2> QED BY <1>4, <2>6
<1>8. p \in PageType
  BY <1>1, <1>2, <1>5, BoundaryIs, OpenedFits
<1>9. /\ p.open = TRUE /\ p.limit = limit /\ p.old = FALSE
      /\ p.records = all /\ p.left = left
      /\ p.frontier = c.frontier /\ p.items = {}
  BY DEF Opened
<1> HIDE DEF p
<1>10. \A q \in reviews : InPage(q, p) <=> q \in all
  BY <1>9 DEF InPage
<1>11. \A q \in reviews : Remains(q, c) => InPage(q, p)
  BY <1>3, <1>10
<1>12. p.records = {q \in reviews : InPage(q, p)}
  BY <1>9, <1>10
<1> HIDE DEF all
<1>13. OpensFor(p, limit, c)
  BY <1>2, <1>6, <1>7, <1>8, <1>9, <1>11, <1>12 DEF OpensFor
<1> QED BY <1>13 DEF p, left, all, SequencePage

\* What follows in the order of an old release.
LEMMA OldOrder ==
  ASSUME ListingAssumption, NEW r \in Row, NEW id \in Nat, NEW at \in Nat
  PROVE  Precedes(OldKey(r), <<at, id>>) <=> r.order < at \/ (r.order = at /\ r.id < id)
BY DEF Precedes, OldKey

LEMMA UpgradedPageOpens ==
  ASSUME ListingAssumption, RowsHold, NEW limit \in Nat, NEW c \in CursorType,
         c.version = "v2"
  PROVE  OpensFor(UpgradedPage(limit, c), limit, c)
<1> DEFINE f == Frontier(reviews)
           b == [id |-> c.id, order |-> c.at, include |-> WithId(c.id) # {}]
           all == LegacyRecords(b, f)
           p == Opened(limit, TRUE, all, all, f, b)
<1>1. f \in Nat /\ f <= lastSeq /\ \A r \in reviews : r.seq <= f
  <2>1. lastSeq \in Nat /\ reviews \in SUBSET Row /\ \A r \in reviews : r.seq <= lastSeq
    BY DEF RowsHold, ListingAssumption
  <2> QED BY <2>1, FrontierIs
<1> HIDE DEF f
<1>2. reviews \in SUBSET Row
  BY DEF RowsHold
<1>3. b \in Boundary
  BY DEF Boundary, CursorType
<1>4. b.id = c.id /\ b.order = c.at /\ (b.include <=> \E q \in reviews : q.id = c.id)
  BY DEF WithId
<1> HIDE DEF b
<1>5. \A q \in reviews : Remains(q, c) <=> Within(q, b)
  BY <1>4 DEF Remains, Within
<1>6. \A q \in reviews : q \in all <=> Within(q, b)
  BY <1>1 DEF LegacyRecords
<1>7. all \subseteq reviews
  BY DEF LegacyRecords
<1> HIDE DEF all
<1>8. p \in PageType
  BY <1>1, <1>2, <1>3, <1>7, OpenedFits
<1>9. /\ p.open = TRUE /\ p.limit = limit /\ p.old = TRUE
      /\ p.records = all /\ p.left = all
      /\ p.frontier = f /\ p.boundary = b /\ p.items = {}
  BY DEF Opened
<1> HIDE DEF p
<1>10. \A q \in reviews : InPage(q, p) <=> Within(q, b)
  BY <1>1, <1>9 DEF InPage
<1>11. \A q \in reviews : Remains(q, c) => InPage(q, p)
  BY <1>5, <1>10
<1>12. p.records = {q \in reviews : InPage(q, p)}
  BY <1>6, <1>7, <1>9, <1>10
<1>13. p.left = {q \in reviews : Remains(q, c)}
  BY <1>5, <1>6, <1>7, <1>9
<1>14. OpensFor(p, limit, c)
  BY <1>1, <1>8, <1>9, <1>11, <1>12, <1>13 DEF OpensFor
<1> QED BY <1>14 DEF p, all, b, f, UpgradedPage

LEMMA LegacyPageOpens ==
  ASSUME ListingAssumption, RowsHold, NEW limit \in Nat, NEW c \in CursorType,
         c.version = "v5", Points(c, reviews, lastSeq)
  PROVE  OpensFor(LegacyPage(limit, c), limit, c)
<1> DEFINE all == LegacyRecords(c.boundary, c.frontier)
           below == {r \in all : Precedes(OldKey(r), <<c.at, c.id>>)}
           left == Resumed(all, TRUE, c.id, below)
           p == Opened(limit, TRUE, all, left, c.frontier, c.boundary)
           After(q) == q.order < c.at \/ (q.order = c.at /\ q.id < c.id)
<1>1. /\ reviews \in SUBSET Row /\ lastSeq \in Nat
      /\ \A r, q \in reviews : r.id = q.id => r = q
  BY DEF RowsHold, RowsDiffer, ListingAssumption
<1>2. \A q \in reviews : q \in all <=> q.seq <= c.frontier /\ Within(q, c.boundary)
  BY DEF LegacyRecords
<1>3. all \subseteq reviews
  BY DEF LegacyRecords
<1>4. c.id \in Nat /\ c.at \in Nat /\ c.boundary \in Boundary
  BY DEF CursorType
<1>5. /\ c.frontier \in Nat /\ c.frontier <= lastSeq
      /\ \A q \in all : q.id = c.id => c.at = q.order
  <2>1. c.frontier \in 1..lastSeq
        /\ \A q \in reviews : q.id = c.id /\ q.seq <= c.frontier => c.at = q.order
    BY DEF Points
  <2> HIDE DEF all
  <2> QED BY <1>1, <1>2, <1>3, <2>1
<1>6. \A q \in all : Precedes(OldKey(q), <<c.at, c.id>>) <=> After(q)
  BY <1>1, <1>3, <1>4, OldOrder
<1>7. \A q \in reviews : Remains(q, c) <=> q \in all /\ (q.id = c.id \/ After(q))
  <2> HIDE DEF all, After
  <2>1. \A q \in reviews : Remains(q, c) <=>
          q \in all /\ (q.id = c.id \/ Precedes(OldKey(q), <<c.at, c.id>>))
    BY <1>2 DEF Remains
  <2> QED BY <1>6, <2>1
<1>8. ASSUME NEW q \in all PROVE q \in left <=> q.id = c.id \/ After(q)
  <2>1. CASE \E r \in all : r.id = c.id
    <3>1. PICK r \in all : r.id = c.id
      BY <2>1
    <3>2. \A x \in all : x.id = c.id => x = r
      BY <1>1, <1>3, <3>1
    <3>3. q \in left <=> ~Above(q, r, TRUE)
      <4> HIDE DEF all
      <4> QED BY <3>1, <3>2 DEF Resumed
    <3>4. q \in Row /\ r \in Row /\ c.at = r.order
      BY <1>1, <1>3, <1>5, <3>1
    <3>5. ~Above(q, r, TRUE) <=> q.order < r.order \/ (q.order = r.order /\ q.id <= r.id)
      <4>1. Above(q, r, TRUE) <=> r.order < q.order \/ (r.order = q.order /\ r.id < q.id)
        BY <3>4, AboveIs
      <4>2. q.order \in Nat /\ r.order \in Nat /\ q.id \in Nat /\ r.id \in Nat
        BY <3>4, RowIs
      <4>3. ~(r.order < q.order \/ (r.order = q.order /\ r.id < q.id))
            <=> q.order < r.order \/ (q.order = r.order /\ q.id <= r.id)
        BY <4>2
      <4> QED BY <4>1, <4>3, Zenon
    <3>6. q.id \in Nat /\ q.order \in Nat /\ (q.id = c.id => q.order = r.order)
      BY <3>2, <3>4, RowIs
    <3>7. q.id <= r.id <=> q.id < c.id \/ q.id = c.id
      BY <1>4, <3>1, <3>6
    <3> HIDE DEF all, left
    <3> QED BY <3>3, <3>4, <3>5, <3>6, <3>7
  <2>2. CASE ~\E r \in all : r.id = c.id
    <3>1. left = below
      BY <2>2 DEF Resumed
    <3> QED BY <1>6, <2>2, <3>1
  <2> QED BY <2>1, <2>2
<1>9. left \subseteq all
  BY DEF Resumed
<1> HIDE DEF left, all
<1>10. left = {q \in reviews : Remains(q, c)}
  BY <1>3, <1>7, <1>8, <1>9
<1>11. ASSUME NEW r \in all, NEW l \in left, Above(l, r, TRUE) PROVE r \in left
  <2>1. /\ r \in Row /\ l \in Row /\ l \in all
        /\ l.id = c.id \/ After(l)
    BY <1>1, <1>3, <1>8, <1>9
  <2>2. r.order < l.order \/ (r.order = l.order /\ r.id < l.id)
    BY <1>11, <2>1, AboveIs
  <2>3. l.id = c.id => l.order = c.at
    BY <1>5, <2>1
  <2>4. /\ l.id \in Nat /\ l.order \in Nat /\ r.id \in Nat /\ r.order \in Nat
    BY <2>1, RowIs
  <2>5. After(r)
    BY <1>4, <2>1, <2>2, <2>3, <2>4
  <2> QED BY <1>8, <2>5
<1>12. p \in PageType
  <2>1. all \in SUBSET Row /\ left \in SUBSET Row
    BY <1>1, <1>3, <1>9
  <2> QED BY <1>4, <1>5, <2>1, OpenedFits
<1>13. /\ p.open = TRUE /\ p.limit = limit /\ p.old = TRUE
       /\ p.records = all /\ p.left = left
       /\ p.frontier = c.frontier /\ p.boundary = c.boundary /\ p.items = {}
  BY DEF Opened
<1> HIDE DEF p, After
<1>14. \A q \in reviews : InPage(q, p) <=> q \in all
  BY <1>2, <1>13 DEF InPage
<1>15. \A q \in reviews : Remains(q, c) => InPage(q, p)
  BY <1>7, <1>14
<1>16. p.records = {q \in reviews : InPage(q, p)}
  BY <1>3, <1>13, <1>14
<1>17. OpensFor(p, limit, c)
  BY <1>5, <1>10, <1>11, <1>12, <1>13, <1>15, <1>16 DEF OpensFor
<1> QED BY <1>17 DEF p, left, all, LegacyPage

LEMMA PageOpens ==
  ASSUME ListingAssumption, RowsHold, CursorHolds, NEW limit \in Nat,
         cursor.version # "end"
  PROVE  OpensFor(PageOf(limit, cursor), limit, cursor)
<1>1. /\ cursor \in CursorType /\ Points(cursor, reviews, lastSeq)
      /\ cursor.version \in {"start", "v2", "v4", "v5"}
  BY DEF CursorHolds, CursorType
<1>2. CASE cursor.version = "start"
  BY <1>2, FreshPageOpens DEF PageOf
<1>3. CASE cursor.version = "v2"
  BY <1>1, <1>3, UpgradedPageOpens DEF PageOf
<1>4. CASE cursor.version = "v4"
  BY <1>1, <1>4, SequencePageOpens DEF PageOf
<1>5. CASE cursor.version = "v5"
  BY <1>1, <1>5, LegacyPageOpens DEF PageOf
<1> QED BY <1>1, <1>2, <1>3, <1>4, <1>5

----------------------------------------------------------------------------
(* Batches                                                                  *)

\* A batch is the beginning of what is left, and the page has room for it.
LEMMA BatchIs ==
  ASSUME ListingAssumption, NEW p \in PageType, NEW top \in Nat, Shaped(p, top)
  PROVE  /\ NextBatch(p) \subseteq p.left /\ IsFiniteSet(NextBatch(p))
         /\ \A r \in NextBatch(p), l \in p.left : Above(l, r, p.old) => l \in NextBatch(p)
         /\ Cardinality(NextBatch(p)) + Cardinality(p.items) <= p.limit
<1>1. /\ p.left \in SUBSET Row /\ p.old \in BOOLEAN /\ p.limit \in Nat
      /\ IsFiniteSet(p.left) /\ IsFiniteSet(p.items) /\ Cardinality(p.items) <= p.limit
      /\ \A r, q \in p.left : r.id = q.id => r = q
  <2>1. IsFiniteSet(p.left)
    BY FS_Subset DEF Shaped
  <2> QED BY <2>1 DEF Shaped, PageType
<1>2. Cardinality(p.items) \in Nat
  BY <1>1, FS_CardinalityType
<1>3. \A r \in p.left : UpTo(p, r) \subseteq p.left /\ IsFiniteSet(UpTo(p, r))
                        /\ Cardinality(UpTo(p, r)) \in Nat
  <2>1. \A r \in p.left : UpTo(p, r) \in SUBSET p.left
    BY DEF UpTo
  <2> QED BY <1>1, <2>1, FS_Subset, FS_CardinalityType
<1>4. NextBatch(p) \subseteq p.left
  BY DEF NextBatch
<1>5. IsFiniteSet(NextBatch(p)) /\ Cardinality(NextBatch(p)) \in Nat
  BY <1>1, <1>4, FS_Subset, FS_CardinalityType
<1>6. ASSUME NEW r \in NextBatch(p), NEW l \in p.left, Above(l, r, p.old)
      PROVE  l \in NextBatch(p)
  <2>1. UpTo(p, l) \in SUBSET UpTo(p, r)
    <3>1. \A q \in p.left : Above(q, l, p.old) => Above(q, r, p.old)
      BY <1>1, <1>4, <1>6, AboveIsAnOrder
    <3> QED BY <1>6, <3>1 DEF UpTo
  <2>2. r \in p.left
    BY <1>4
  <2>3. Cardinality(UpTo(p, l)) <= Cardinality(UpTo(p, r))
    BY <1>3, <2>1, <2>2, FS_Subset
  <2>4. Cardinality(UpTo(p, r)) + Cardinality(p.items) <= p.limit
    BY DEF NextBatch
  <2>5. Cardinality(UpTo(p, l)) \in Nat /\ Cardinality(UpTo(p, r)) \in Nat
    BY <1>3, <2>2
  <2>6. Cardinality(UpTo(p, l)) + Cardinality(p.items) <= p.limit
    BY <1>1, <1>2, <2>3, <2>4, <2>5
  <2> QED BY <2>6 DEF NextBatch
<1>7. Cardinality(NextBatch(p)) + Cardinality(p.items) <= p.limit
  <2>1. CASE NextBatch(p) = {}
    BY <1>1, <1>2, <2>1, FS_EmptySet
  <2>2. CASE NextBatch(p) # {}
    <3>1. NextBatch(p) \in SUBSET Row /\ \A r, q \in NextBatch(p) : r.id = q.id => r = q
      BY <1>1, <1>4
    <3>2. PICK m \in NextBatch(p) : \A q \in NextBatch(p) : q = m \/ Above(q, m, p.old)
      BY <1>1, <1>5, <2>2, <3>1, EndsExist
    <3>3. NextBatch(p) \in SUBSET UpTo(p, m)
      BY <1>4, <3>2 DEF UpTo
    <3>4. m \in p.left
      BY <1>4
    <3>5. Cardinality(NextBatch(p)) <= Cardinality(UpTo(p, m))
      BY <1>3, <3>3, <3>4, FS_Subset
    <3>6. Cardinality(UpTo(p, m)) + Cardinality(p.items) <= p.limit
      BY DEF NextBatch
    <3>7. Cardinality(UpTo(p, m)) \in Nat
      BY <1>3, <3>4
    <3> QED BY <1>1, <1>2, <1>5, <3>5, <3>6, <3>7
  <2> QED BY <2>1, <2>2
<1> QED BY <1>4, <1>5, <1>6, <1>7

\* The rows that are still there under the ids of others are no more than those.
LEMMA KeptAreNoMore ==
  ASSUME NEW R, NEW K, IsFiniteSet(K), \A r, q \in R : r.id = q.id => r = q
  PROVE  LET T == {q \in R : \E r \in K : q.id = r.id}
         IN  IsFiniteSet(T) /\ Cardinality(T) <= Cardinality(K)
<1> DEFINE T == {q \in R : \E r \in K : q.id = r.id}
           f == [q \in T |-> CHOOSE r \in K : q.id = r.id]
<1>1. \A q \in T : f[q] \in K /\ q.id = f[q].id
  OBVIOUS
<1>2. f \in [T -> K]
  BY <1>1
<1>3. \A q, r \in T : f[q] = f[r] => q = r
  BY <1>1
<1> HIDE DEF f
<1>4. f \in Injection(T, K)
  <2> HIDE DEF T
  <2> QED BY <1>2, <1>3 DEF Injection, IsInjective
<1> HIDE DEF T
<1>5. IsFiniteSet(T) /\ Cardinality(T) <= Cardinality(K)
  BY <1>4, FS_Injection
<1> QED BY <1>5 DEF T

----------------------------------------------------------------------------
(* Steps of the walk                                                        *)

LEMMA ScanKeeps ==
  ASSUME ListingAssumption, ListingInv, NEW unavailable, ScanBatch(unavailable)
  PROVE  ListingInv'
<1> DEFINE batch == NextBatch(page)
           bad == {r \in batch : Owner[r.id] \in unavailable}
           done == {r \in batch : \A b \in bad : Above(r, b, page.old)}
           kept == {r \in done : Owner[r.id] \in Routed}
           new == {q \in reviews : \E r \in kept : q.id = r.id}
           p == Scanned(page, unavailable)
<1>1. /\ page.open /\ page' = p
      /\ reviews' = reviews /\ lastSeq' = lastSeq /\ cursor' = cursor
      /\ seen' = seen /\ twice' = twice /\ due' = due
  BY DEF ScanBatch
<1>2. /\ page \in PageType /\ Shaped(page, lastSeq) /\ Covers(page, reviews)
      /\ Divides(page, reviews, seen, due) /\ cursor.version # "end"
      /\ RowsHold /\ CursorHolds /\ lastSeq \in Nat
  BY <1>1 DEF ListingInv, PageHolds, RowsHold, ListingAssumption
<1>3. /\ batch \subseteq page.left /\ IsFiniteSet(batch)
      /\ \A r \in batch, l \in page.left : Above(l, r, page.old) => l \in batch
      /\ Cardinality(batch) + Cardinality(page.items) <= page.limit
  BY <1>2, BatchIs
<1>4. done \subseteq batch /\ done \subseteq page.left /\ kept \subseteq done
      /\ bad \subseteq batch
  BY <1>3
<1>5. /\ p.open = page.open /\ p.limit = page.limit /\ p.old = page.old
      /\ p.records = page.records /\ p.frontier = page.frontier
      /\ p.boundary = page.boundary
      /\ p.left = page.left \ done /\ p.items = page.items \cup new
  BY <1>2 DEF Scanned, PageType
<1>6. p \in PageType
  <2>1. reviews \in SUBSET Row /\ new \subseteq reviews
    BY <1>2 DEF RowsHold
  <2>2. (bad # {}) \in BOOLEAN
    OBVIOUS
  <2>3. p = [page EXCEPT !.left = page.left \ done, !.blocked = (bad # {}),
                         !.items = page.items \cup new]
    BY DEF Scanned
  <2> DEFINE l == page.left \ done
             i == page.items \cup new
             b == (bad # {})
  <2>4. l \in SUBSET Row /\ i \in SUBSET Row /\ b \in BOOLEAN
    BY <1>2, <2>1 DEF PageType
  <2>5. p = [page EXCEPT !.left = l, !.blocked = b, !.items = i]
    BY <2>3
  <2> HIDE DEF l, i, b, p
  <2> QED BY <1>2, <2>4, <2>5 DEF PageType
<1> HIDE DEF p
<1>7. IsFiniteSet(p.items) /\ Cardinality(p.items) <= p.limit
  <2>1. IsFiniteSet(kept) /\ Cardinality(kept) <= Cardinality(batch)
    BY <1>3, <1>4, FS_Subset
  <2>2. \A r, q \in reviews : r.id = q.id => r = q
    BY <1>2 DEF RowsHold, RowsDiffer
  <2>3. IsFiniteSet(new) /\ Cardinality(new) <= Cardinality(kept)
    <3> HIDE DEF kept
    <3> QED BY <2>1, <2>2, KeptAreNoMore
  <2> HIDE DEF batch, bad, done, kept, new
  <2>4. IsFiniteSet(page.items) /\ page.limit \in Nat
    BY <1>2 DEF Shaped, PageType
  <2>5. /\ IsFiniteSet(page.items \cup new)
        /\ Cardinality(page.items \cup new)
             = Cardinality(page.items) + Cardinality(new) - Cardinality(page.items \cap new)
    BY <2>3, <2>4, FS_Union
  <2>6. /\ Cardinality(batch) \in Nat /\ Cardinality(kept) \in Nat /\ Cardinality(new) \in Nat
        /\ Cardinality(page.items) \in Nat
    BY <1>3, <2>1, <2>3, <2>4, FS_CardinalityType
  <2>7. Cardinality(page.items \cap new) \in Nat
    BY <2>4, FS_Intersection, FS_CardinalityType
  <2>8. Cardinality(page.items \cup new) <= page.limit
    BY <1>3, <2>1, <2>3, <2>4, <2>5, <2>6, <2>7
  <2> QED BY <1>5, <2>5, <2>8
<1>8. ASSUME NEW r \in page.records, NEW l \in page.left \ done, Above(l, r, page.old)
      PROVE  r \in page.left \ done
  <2>1. r \in page.left /\ r \in Row /\ l \in Row /\ page.old \in BOOLEAN
    BY <1>2, <1>8 DEF Shaped, PageType
  <2>2. SUFFICES ASSUME r \in done PROVE FALSE
    BY <2>1
  <2>3. l \in batch
    BY <1>3, <1>4, <1>8, <2>2
  <2>4. \A b \in bad : Above(r, b, page.old)
    BY <2>2
  <2>5. bad \subseteq Row
    BY <1>2, <1>3, <1>4 DEF PageType
  <2>6. \A b \in bad : Above(l, b, page.old)
    <3> HIDE DEF bad
    <3> QED BY <1>8, <2>1, <2>4, <2>5, AboveIsAnOrder
  <2>7. l \in done
    BY <2>3, <2>6
  <2> QED BY <1>8, <2>7
<1>9. Shaped(p, lastSeq)
  <2>1. /\ page.left \subseteq page.records /\ IsFiniteSet(page.records)
        /\ page.frontier <= lastSeq
        /\ \A r, q \in page.records : r.id = q.id \/ r.seq = q.seq => r = q
        /\ \A r \in page.records : InPage(r, page)
        /\ \A a \in page.items : \E r \in page.records \ page.left : r.id = a.id
    BY <1>2 DEF Shaped
  <2>2. \A r \in page.records : InPage(r, p)
    BY <1>5, <2>1 DEF InPage
  <2>3. \A a \in new : \E r \in done : r.id = a.id
    BY <1>4
  <2> HIDE DEF done, new
  <2>4. \A a \in page.items \cup new : \E r \in page.records \ (page.left \ done) : r.id = a.id
    BY <1>4, <2>1, <2>3
  <2> QED BY <1>5, <1>7, <1>8, <2>1, <2>2, <2>4 DEF Shaped
<1>10. Covers(p, reviews)
  BY <1>2, <1>5 DEF Covers, InPage
<1>11. Divides(p, reviews, seen, due)
  <2>1. \A b \in seen : \A r \in page.items \cup page.left : b.id # r.id
    BY <1>2 DEF Divides
  <2>2. \A a \in new : \E r \in page.left : r.id = a.id
    BY <1>4
  <2>3. \A b \in seen : \A r \in p.items \cup p.left : b.id # r.id
    <3> HIDE DEF new, done
    <3> QED BY <1>5, <2>1, <2>2
  <2>4. ASSUME NEW s \in due
        PROVE  \E q \in reviews : /\ Owner[q.id] \in Routed /\ q.seq = s
                                  /\ q \in p.left \/ q \in p.items \/ s \in Seqs(seen)
    <3>1. PICK q \in reviews : /\ Owner[q.id] \in Routed /\ q.seq = s
                               /\ q \in page.left \/ q \in page.items \/ s \in Seqs(seen)
      BY <1>2 DEF Divides
    <3>2. q \in done => q \in new
      BY <3>1
    <3> HIDE DEF new, done
    <3> QED BY <1>5, <3>1, <3>2
  <2> QED BY <2>3, <2>4 DEF Divides
<1> QED BY <1>1, <1>2, <1>5, <1>6, <1>9, <1>10, <1>11
        DEF ListingInv, RowsHold, CursorHolds, PageHolds

LEMMA ListKeeps ==
  ASSUME ListingAssumption, ListingInv, NEW limit \in Limits, List(limit)
  PROVE  ListingInv'
<1> DEFINE p == PageOf(limit, cursor)
<1>1. /\ ~page.open /\ cursor # EndCursor /\ page' = p
      /\ due' = (IF cursor = NoCursor THEN Seqs(RoutedRows) ELSE due)
      /\ reviews' = reviews /\ lastSeq' = lastSeq /\ cursor' = cursor
      /\ seen' = seen /\ twice' = twice
  BY DEF List
<1>2. /\ RowsHold /\ CursorHolds /\ limit \in Nat /\ lastSeq \in Nat
      /\ Points(cursor, reviews, lastSeq) /\ Parts(cursor, reviews, seen, due)
      /\ IsFiniteSet(reviews) /\ RowsDiffer(reviews)
  BY DEF ListingInv, CursorHolds, RowsHold, ListingAssumption
<1>3. cursor.version # "end"
  BY <1>1, <1>2 DEF Points
<1>4. OpensFor(p, limit, cursor)
  BY <1>2, <1>3, PageOpens
<1> HIDE DEF p
<1>5. /\ p \in PageType /\ p.open /\ p.items = {} /\ p.limit = limit
      /\ p.records \subseteq reviews /\ p.left = {q \in reviews : Remains(q, cursor)}
  BY <1>4 DEF OpensFor
<1>6. Shaped(p, lastSeq)
  <2>1. /\ p.left \subseteq p.records /\ p.frontier <= lastSeq
        /\ \A r \in p.records : InPage(r, p)
        /\ \A r \in p.records, l \in p.left : Above(l, r, p.old) => r \in p.left
    BY <1>4 DEF OpensFor
  <2>2. IsFiniteSet(p.records)
    BY <1>2, <1>5, FS_Subset
  <2>3. \A r, q \in p.records : r.id = q.id \/ r.seq = q.seq => r = q
    BY <1>2, <1>5 DEF RowsDiffer
  <2>4. IsFiniteSet(p.items) /\ Cardinality(p.items) <= p.limit
    BY <1>2, <1>5, FS_EmptySet
  <2> QED BY <1>5, <2>1, <2>2, <2>3, <2>4 DEF Shaped
<1>7. Covers(p, reviews)
  <2>1. \A q \in reviews : InPage(q, p) => q \in p.records
    BY <1>4 DEF OpensFor
  <2>2. \A q \in reviews, r \in p.records : q.id = r.id => q = r
    BY <1>2, <1>5 DEF RowsDiffer
  <2> QED BY <2>1, <2>2 DEF Covers
<1>8. CASE cursor.version = "start"
  <2>1. seen = {} /\ cursor = NoCursor
    BY <1>2, <1>8 DEF Parts, Points
  <2>2. due' = Seqs(RoutedRows)
    BY <1>1, <2>1
  <2>3. \A q \in reviews : q \in p.left
    BY <1>5, <1>8 DEF Remains
  <2>4. Divides(p, reviews, seen, due')
    BY <2>1, <2>2, <2>3, <1>5 DEF Divides, Seqs, RoutedRows
  <2>5. Parts(cursor, reviews, seen, due')
    BY <1>2, <1>8, <2>1 DEF Parts
  <2> QED BY <1>1, <1>2, <1>3, <1>5, <1>6, <1>7, <2>4, <2>5
          DEF ListingInv, RowsHold, CursorHolds, PageHolds
<1>9. CASE cursor.version # "start"
  <2>1. due' = due
    BY <1>1, <1>9 DEF NoCursor
  <2>2. \A b \in seen : \A r \in p.items \cup p.left : b.id # r.id
    BY <1>2, <1>5 DEF Parts
  <2>3. Divides(p, reviews, seen, due)
    <3>1. \A s \in due : \E q \in reviews :
            Owner[q.id] \in Routed /\ q.seq = s /\ (Remains(q, cursor) \/ s \in Seqs(seen))
      BY <1>2, <1>9 DEF Parts
    <3>2. \A s \in due : \E q \in reviews :
            Owner[q.id] \in Routed /\ q.seq = s /\ (q \in p.left \/ s \in Seqs(seen))
      BY <1>5, <3>1
    <3> QED BY <2>2, <3>2 DEF Divides
  <2> QED BY <1>1, <1>2, <1>3, <1>5, <1>6, <1>7, <2>1, <2>3
          DEF ListingInv, RowsHold, CursorHolds, PageHolds
<1> QED BY <1>8, <1>9

LEMMA NoPageIs == NoPage \in PageType /\ ~NoPage.open
BY DEF NoPage, Opened, PageType, NoBoundary, Boundary

LEMMA LoseKeeps ==
  ASSUME ListingInv, Lose
  PROVE  ListingInv'
BY NoPageIs DEF Lose, ListingInv, RowsHold, CursorHolds, PageHolds

LEMMA CursorFits ==
  /\ \A r, f, b : f \in Nat /\ b \in Boundary /\ r.id \in Nat /\ r.seq \in Nat /\ r.order \in Nat
       => V4(r, f) \in CursorType /\ V5(r, f, b) \in CursorType /\ V2(r) \in CursorType
  /\ EndCursor \in CursorType /\ NoCursor \in CursorType
<1>1. NoBoundary \in Boundary
  BY BoundaryIs
<1>2. ASSUME NEW r, NEW f, NEW b, f \in Nat, b \in Boundary,
             r.id \in Nat, r.seq \in Nat, r.order \in Nat
      PROVE  V4(r, f) \in CursorType /\ V5(r, f, b) \in CursorType /\ V2(r) \in CursorType
  BY <1>1, <1>2 DEF V4, V5, V2, NoCursor, CursorType
<1>3. EndCursor \in CursorType /\ NoCursor \in CursorType
  BY <1>1 DEF EndCursor, NoCursor, CursorType
<1> QED BY <1>2, <1>3

\* The cursor of a reply names the first row that is left: what remains with it, is left.
LEMMA NextCursorIs ==
  ASSUME ListingAssumption, RowsHold, NEW p \in PageType, Shaped(p, lastSeq),
         Covers(p, reviews), p.left # {}
  PROVE  LET c == NextCursor(p) IN
         /\ c \in CursorType /\ c.version \in {"v4", "v5"}
         /\ Points(c, reviews, lastSeq)
         /\ \A q \in reviews : Remains(q, c) => q \in p.left
         /\ \A q \in p.left : Remains(q, c)
<1> DEFINE top == Topmost(p.left, p.old)
           c == CursorAt(p, top)
<1>1. /\ p.left \in SUBSET Row /\ p.old \in BOOLEAN /\ p.frontier \in Nat
      /\ p.boundary \in Boundary /\ p.left \subseteq p.records /\ p.records \subseteq Row
      /\ IsFiniteSet(p.left) /\ \A r, q \in p.records : r.id = q.id => r = q
  <2>1. p.left \in SUBSET p.records /\ IsFiniteSet(p.records)
    BY DEF Shaped
  <2>2. IsFiniteSet(p.left)
    BY <2>1, FS_Subset
  <2> QED BY <2>2 DEF Shaped, PageType
<1>2. top \in p.left /\ \A q \in p.left : top = q \/ Above(top, q, p.old)
  BY <1>1, TopmostIs
<1> HIDE DEF top
<1>3. /\ top \in Row /\ top.id \in Nat /\ top.seq \in Nat /\ top.seq > 0 /\ top.order \in Nat
      /\ top \in p.records
  BY <1>1, <1>2, RowIs
<1>4. c \in CursorType
  BY <1>1, <1>3, CursorFits DEF CursorAt
<1>5. /\ c.version = (IF p.old THEN "v5" ELSE "v4") /\ c.id = top.id
      /\ c.at = (IF p.old THEN top.order ELSE top.seq) /\ c.frontier = p.frontier
      /\ p.old => c.boundary = p.boundary
  BY <1>1 DEF CursorAt, V4, V5
<1> HIDE DEF c
<1>6. /\ InPage(top, p) /\ p.frontier <= lastSeq /\ lastSeq \in Nat
      /\ top.seq <= p.frontier
  BY <1>3 DEF Shaped, InPage, RowsHold, ListingAssumption
<1>7. c.frontier \in 1..lastSeq
  BY <1>1, <1>3, <1>5, <1>6
<1>8. \A q \in reviews : q.id = c.id /\ q.seq <= p.frontier => q = top
  <2>1. \A q \in reviews, r \in p.records : q.id = r.id => q = r \/ q.seq > p.frontier
    BY DEF Covers
  <2>2. \A q \in reviews : q.seq \in Nat
    BY RowIs DEF RowsHold
  <2> QED BY <1>1, <1>3, <1>5, <2>1, <2>2
<1>9. Points(c, reviews, lastSeq)
  BY <1>5, <1>7, <1>8 DEF Points
<1>10. ASSUME NEW q \in Row PROVE /\ q.id \in Nat /\ q.seq \in Nat /\ q.order \in Nat
  BY RowIs
<1>11. ASSUME NEW q \in p.records, InPage(q, p)
       PROVE  Remains(q, c) <=> q = top \/ Above(top, q, p.old)
  <2>1. q \in Row /\ (q.id = top.id <=> q = top)
    BY <1>1, <1>3
  <2>2. q.id \in Nat /\ q.seq \in Nat /\ q.order \in Nat
    BY <2>1, RowIs
  <2>3. CASE p.old
    <3>1. Remains(q, c) <=> q.id = top.id \/ Precedes(OldKey(q), <<top.order, top.id>>)
      BY <1>5, <1>11, <2>3 DEF Remains, InPage
    <3>2. Above(top, q, p.old) <=> Precedes(OldKey(q), <<top.order, top.id>>)
      BY <2>3 DEF Above, OldKey
    <3> QED BY <2>1, <3>1, <3>2
  <2>4. CASE ~p.old
    <3>1. Remains(q, c) <=> q.id = top.id \/ q.seq < top.seq
      BY <1>5, <1>11, <2>4 DEF Remains, InPage
    <3>2. Above(top, q, p.old) <=> q.seq < top.seq \/ (q.seq = top.seq /\ q.id < top.id)
      BY <1>1, <1>3, <2>1, <2>4, AboveIs
    <3>3. q.seq = top.seq => q = top
      BY <1>3 DEF Shaped
    <3> QED BY <1>3, <2>1, <2>2, <3>1, <3>2, <3>3
  <2> QED BY <2>3, <2>4
<1>12. ASSUME NEW q \in reviews, Remains(q, c) PROVE q \in p.left
  <2>1. q.seq <= p.frontier /\ (p.old => Within(q, p.boundary))
    BY <1>5, <1>12 DEF Remains
  <2>2. q \in p.records
    BY <2>1 DEF InPage, Covers
  <2>3. q = top \/ Above(top, q, p.old)
    BY <1>11, <1>12, <2>1, <2>2 DEF InPage
  <2> QED BY <1>2, <2>2, <2>3 DEF Shaped
<1>13. \A q \in p.left : Remains(q, c)
  <2>1. \A q \in p.left : q \in p.records /\ InPage(q, p)
    BY <1>1 DEF Shaped
  <2> QED BY <1>2, <1>11, <2>1
<1>14. c = NextCursor(p)
  BY DEF c, top, NextCursor
<1>15. c.version \in {"v4", "v5"}
  BY <1>1, <1>5
<1> QED BY <1>4, <1>9, <1>12, <1>13, <1>14, <1>15

LEMMA ReplyKeeps ==
  ASSUME ListingAssumption, ListingInv, Reply
  PROVE  ListingInv'
<1> DEFINE c == NextCursor(page)
           given == seen \cup page.items
<1>1. /\ page.open /\ page' = NoPage /\ cursor' = c
      /\ twice' = (twice \/ \E a \in page.items, b \in seen : a.id = b.id)
      /\ seen' = given
      /\ reviews' = reviews /\ lastSeq' = lastSeq /\ due' = due
  BY DEF Reply
<1>2. /\ page \in PageType /\ Shaped(page, lastSeq) /\ Covers(page, reviews)
      /\ Divides(page, reviews, seen, due) /\ RowsHold
  BY <1>1 DEF ListingInv, PageHolds
<1>3. ~twice' /\ given \in SUBSET Row
  <2>1. ~\E a \in page.items, b \in seen : a.id = b.id
    BY <1>2 DEF Divides
  <2> QED BY <1>1, <1>2, <2>1 DEF RowsHold, PageType
<1>4. \A b \in given, r \in page.left : b.id # r.id
  <2>1. \A b \in seen, r \in page.left : b.id # r.id
    BY <1>2 DEF Divides
  <2>2. ASSUME NEW a \in page.items, NEW l \in page.left, a.id = l.id PROVE FALSE
    <3>1. PICK r \in page.records \ page.left : r.id = a.id
      BY <1>2 DEF Shaped
    <3>2. l \in page.records
      BY <1>2 DEF Shaped
    <3> QED BY <1>2, <2>2, <3>1, <3>2 DEF Shaped
  <2> QED BY <2>1, <2>2
<1>5. \A s \in due : \E q \in reviews :
        Owner[q.id] \in Routed /\ q.seq = s /\ (q \in page.left \/ s \in Seqs(given))
  <2>1. ASSUME NEW s \in due
        PROVE  \E q \in reviews :
                 Owner[q.id] \in Routed /\ q.seq = s /\ (q \in page.left \/ s \in Seqs(given))
    <3>1. PICK q \in reviews : /\ Owner[q.id] \in Routed /\ q.seq = s
                               /\ q \in page.left \/ q \in page.items \/ s \in Seqs(seen)
      BY <1>2 DEF Divides
    <3>2. q \in page.items \/ s \in Seqs(seen) => s \in Seqs(given)
      BY <3>1 DEF Seqs
    <3> HIDE DEF given
    <3> QED BY <3>1, <3>2
  <2> QED BY <2>1
<1> HIDE DEF given
<1>6. c \in CursorType /\ Points(c, reviews, lastSeq) /\ Parts(c, reviews, given, due)
  <2>1. CASE page.left = {}
    <3>1. c = EndCursor
      BY <2>1 DEF NextCursor
    <3> HIDE DEF c
    <3>2. /\ c.version = "end" /\ \A q : ~Remains(q, c)
      BY <3>1 DEF EndCursor, NoCursor, Remains
    <3>3. c \in CursorType
      BY <3>1, CursorFits
    <3>4. Points(c, reviews, lastSeq)
      BY <3>1, <3>2 DEF Points
    <3>5. Parts(c, reviews, given, due)
      BY <1>5, <2>1, <3>2 DEF Parts
    <3> QED BY <3>3, <3>4, <3>5
  <2>2. CASE page.left # {}
    <3>1. /\ c \in CursorType /\ c.version \in {"v4", "v5"}
          /\ Points(c, reviews, lastSeq)
          /\ \A q \in reviews : Remains(q, c) => q \in page.left
          /\ \A q \in page.left : Remains(q, c)
      BY <1>2, <2>2, NextCursorIs
    <3> HIDE DEF c
    <3>2. Parts(c, reviews, given, due)
      BY <1>4, <1>5, <3>1 DEF Parts
    <3> QED BY <3>1, <3>2
  <2> QED BY <2>1, <2>2
<1> HIDE DEF c
<1> QED BY <1>1, <1>2, <1>3, <1>6, NoPageIs
        DEF ListingInv, RowsHold, CursorHolds, PageHolds

LEMMA OldReleaseKeeps ==
  ASSUME ListingAssumption, ListingInv, NEW r \in reviews, OldRelease(r)
  PROVE  ListingInv'
<1> DEFINE c == V2(r)
<1>1. /\ cursor = NoCursor /\ ~page.open /\ cursor' = c
      /\ due' = Seqs({q \in RoutedRows : q = r \/ Above(r, q, TRUE)})
      /\ page' = page /\ reviews' = reviews /\ lastSeq' = lastSeq
      /\ seen' = seen /\ twice' = twice
  BY DEF OldRelease
<1>2. /\ RowsHold /\ page \in PageType /\ seen = {} /\ r \in Row
  BY <1>1 DEF ListingInv, CursorHolds, PageHolds, Parts, NoCursor, RowsHold
<1>3. r.id \in Nat /\ r.seq \in Nat /\ r.order \in Nat
  BY <1>2, RowIs
<1>4. c \in CursorType
  BY <1>3, BoundaryIs, CursorFits
<1>5. c.version = "v2" /\ c.id = r.id /\ c.at = r.order
  BY DEF V2, NoCursor
<1> HIDE DEF c
<1>6. Points(c, reviews, lastSeq)
  BY <1>5 DEF Points
<1>7. Parts(c, reviews, seen, due')
  <2>1. ASSUME NEW s \in due'
        PROVE  \E q \in reviews : Owner[q.id] \in Routed /\ q.seq = s /\ Remains(q, c)
    <3>1. PICK q \in RoutedRows : (q = r \/ Above(r, q, TRUE)) /\ q.seq = s
      BY <1>1, <2>1 DEF Seqs
    <3>2. Above(r, q, TRUE) => Precedes(OldKey(q), <<r.order, r.id>>)
      BY DEF Above, OldKey
    <3>3. Remains(q, c)
      BY <1>5, <3>1, <3>2 DEF Remains
    <3> QED BY <3>1, <3>3 DEF RoutedRows
  <2> QED BY <1>2, <1>5, <2>1 DEF Parts
<1> QED BY <1>1, <1>2, <1>4, <1>6, <1>7
        DEF ListingInv, RowsHold, CursorHolds, PageHolds

\* Rows that go take what is owed for them along.
LEMMA ResolveKeeps ==
  ASSUME ListingAssumption, ListingInv, NEW t \in Tasks, Resolve(t)
  PROVE  ListingInv'
<1> DEFINE R == reviews \ OfTask(t)
           owed == due \ Seqs(OfTask(t))
<1>1. /\ reviews' = R /\ due' = owed /\ lastSeq' = lastSeq /\ page' = page
      /\ cursor' = cursor /\ seen' = seen /\ twice' = twice
  BY DEF Resolve
<1>2. RowsHold'
  <2>1. RowsHold
    BY DEF ListingInv
  <2>2. IsFiniteSet(R)
    BY <2>1, FS_Difference DEF RowsHold
  <2>3. R \subseteq reviews
    OBVIOUS
  <2> HIDE DEF R
  <2> QED BY <1>1, <2>1, <2>2, <2>3 DEF RowsHold, RowsDiffer
<1>3. \A s \in owed, q \in reviews : q.seq = s => q \in R
  BY DEF Seqs
<1>4. R \subseteq reviews /\ owed \subseteq due
  OBVIOUS
<1> HIDE DEF R, owed
<1>5. CursorHolds'
  <2>1. /\ cursor \in CursorType /\ Points(cursor, reviews, lastSeq)
        /\ Parts(cursor, reviews, seen, due)
    BY DEF ListingInv, CursorHolds
  <2>2. Points(cursor, R, lastSeq)
    BY <1>4, <2>1 DEF Points
  <2>3. cursor.version # "start" =>
          \A s \in owed : \E q \in R :
            Owner[q.id] \in Routed /\ q.seq = s /\ (Remains(q, cursor) \/ s \in Seqs(seen))
    <3>1. SUFFICES ASSUME cursor.version # "start", NEW s \in owed
                   PROVE  \E q \in R : /\ Owner[q.id] \in Routed /\ q.seq = s
                                       /\ Remains(q, cursor) \/ s \in Seqs(seen)
      OBVIOUS
    <3>2. PICK q \in reviews : /\ Owner[q.id] \in Routed /\ q.seq = s
                               /\ Remains(q, cursor) \/ s \in Seqs(seen)
      BY <1>4, <2>1, <3>1 DEF Parts
    <3> QED BY <1>3, <3>2
  <2>4. Parts(cursor, R, seen, owed)
    BY <1>4, <2>1, <2>3 DEF Parts
  <2> QED BY <1>1, <2>1, <2>2, <2>4 DEF CursorHolds
<1>6. PageHolds'
  <2>1. page \in PageType /\ (page.open => /\ cursor.version # "end" /\ Shaped(page, lastSeq)
                                           /\ Covers(page, reviews)
                                           /\ Divides(page, reviews, seen, due))
    BY DEF ListingInv, PageHolds
  <2>2. Covers(page, reviews) => Covers(page, R)
    BY <1>4 DEF Covers
  <2>3. ASSUME Divides(page, reviews, seen, due) PROVE Divides(page, R, seen, owed)
    <3>1. ASSUME NEW s \in owed
          PROVE  \E q \in R : /\ Owner[q.id] \in Routed /\ q.seq = s
                              /\ q \in page.left \/ q \in page.items \/ s \in Seqs(seen)
      <4>1. PICK q \in reviews : /\ Owner[q.id] \in Routed /\ q.seq = s
                                 /\ q \in page.left \/ q \in page.items \/ s \in Seqs(seen)
        BY <1>4, <2>3, <3>1 DEF Divides
      <4> QED BY <1>3, <4>1
    <3>2. \A b \in seen : \A r \in page.items \cup page.left : b.id # r.id
      BY <2>3 DEF Divides
    <3> QED BY <3>1, <3>2 DEF Divides
  <2> QED BY <1>1, <2>1, <2>2, <2>3 DEF PageHolds
<1> QED BY <1>2, <1>5, <1>6 DEF ListingInv

\* A review that comes in again keeps its row; a new one comes above every frontier.
LEMMA IngestKeeps ==
  ASSUME ListingAssumption, ListingInv, NEW id \in Ids, NEW time \in Times, Ingest(id, time)
  PROVE  ListingInv'
<1> DEFINE old == OfTask(Owner[id])
           fresh == [id |-> id, seq |-> lastSeq + 1, order |-> time]
           new == IF WithId(id) # {} THEN WithId(id) ELSE {fresh}
           R == (reviews \ old) \cup new
           owed == due \ Seqs(old \ new)
           top == IF WithId(id) = {} THEN lastSeq + 1 ELSE lastSeq
<1>1. /\ reviews' = R /\ due' = owed /\ lastSeq' = top /\ page' = page
      /\ cursor' = cursor /\ seen' = seen /\ twice' = twice
      /\ WithId(id) = {} => lastSeq < MaxSeq
  BY DEF Ingest
<1>2. /\ RowsHold /\ reviews \in SUBSET Row /\ IsFiniteSet(reviews) /\ RowsDiffer(reviews)
      /\ lastSeq \in 0..MaxSeq /\ MaxSeq \in Nat /\ lastSeq \in Nat
      /\ \A r \in reviews : r.seq <= lastSeq
  BY DEF ListingInv, RowsHold, ListingAssumption
<1>3. /\ \A r : r \in WithId(id) <=> r \in reviews /\ r.id = id
      /\ \A r : r \in old <=> r \in reviews /\ Owner[r.id] = Owner[id]
  BY DEF WithId, OfTask
<1>4. fresh.id = id /\ fresh.seq = lastSeq + 1
  OBVIOUS
\* What there is afterwards: rows there were, or the new one, which is above them all.
<1>5. \A r \in R : \/ r \in reviews
                   \/ WithId(id) = {} /\ r = fresh
  <2>1. CASE WithId(id) = {}
    <3> HIDE DEF fresh, old
    <3> QED BY <2>1
  <2>2. CASE WithId(id) # {}
    <3>1. new = WithId(id) /\ WithId(id) \subseteq reviews
      BY <1>3, <2>2
    <3> HIDE DEF new, old
    <3> QED BY <3>1
  <2> QED BY <2>1, <2>2
<1>6. \A r \in reviews : r \in R \/ r \in old \ new
  OBVIOUS
<1>7. \A r \in R : Owner[r.id] = Owner[id] => r \in new
  BY <1>3
<1>8. \A r, q \in new : r = q
  <2>1. \A r, q \in WithId(id) : r = q
    BY <1>2, <1>3 DEF RowsDiffer
  <2> HIDE DEF fresh
  <2> QED BY <2>1
<1>9. owed \subseteq due /\ \A s \in owed, q \in reviews : q.seq = s => q \in R
  <2>1. \A s \in owed, q \in old \ new : q.seq # s
    BY DEF Seqs
  <2> HIDE DEF R, old, new
  <2> QED BY <1>6, <2>1
<1>10. R \in SUBSET Row /\ IsFiniteSet(R)
  <2>1. WithId(id) = {} => fresh \in Row
    BY <1>1, <1>2 DEF Row
  <2>2. IsFiniteSet(new)
    <3>1. IsFiniteSet(WithId(id))
      <4>1. WithId(id) \in SUBSET reviews
        BY <1>3
      <4> QED BY <1>2, <4>1, FS_Subset
    <3>2. IsFiniteSet({fresh})
      BY FS_Singleton
    <3> QED BY <3>1, <3>2
  <2>3. IsFiniteSet(reviews \ old)
    BY <1>2, FS_Difference
  <2>4. IsFiniteSet(R)
    <3> HIDE DEF old, new
    <3> QED BY <2>2, <2>3, FS_Union
  <2> HIDE DEF R, fresh
  <2> QED BY <1>2, <1>5, <2>1, <2>4
<1>11. top \in 0..MaxSeq /\ lastSeq <= top /\ top \in Nat
  BY <1>1, <1>2
<1>12. \A r \in R : r.seq <= top
  <2>1. \A r \in reviews : r.seq <= top
    <3>1. \A r \in reviews : r.seq \in Nat
      BY <1>2, RowIs
    <3> HIDE DEF R, fresh, new, old, top
    <3> QED BY <1>2, <1>11, <3>1
  <2>2. WithId(id) = {} => fresh.seq <= top
    BY <1>2, <1>4
  <2> HIDE DEF R, fresh, new, old, top
  <2> QED BY <1>5, <2>1, <2>2
<1> HIDE DEF fresh, new, old, R, owed, top
<1>13. \A r \in R : r \notin reviews => r.seq = lastSeq + 1
  BY <1>4, <1>5
<1>14. RowsDiffer(R)
  <2>1. ASSUME NEW r \in R, NEW q \in R, Owner[r.id] = Owner[q.id] \/ r.seq = q.seq
        PROVE  r = q
    <3>1. CASE r \in reviews /\ q \in reviews
      BY <1>2, <2>1, <3>1 DEF RowsDiffer
    <3>2. CASE r \notin reviews /\ q \notin reviews
      BY <1>5, <3>2
    <3>3. CASE r \in reviews /\ q \notin reviews
      <4>1. q = fresh /\ q.seq = lastSeq + 1 /\ r.seq <= lastSeq /\ r.seq \in Nat
        BY <1>2, <1>4, <1>5, <3>3, RowIs
      <4>2. Owner[r.id] = Owner[id]
        BY <1>2, <1>4, <2>1, <4>1
      <4>3. r \in new /\ q \in new
        BY <1>4, <1>7, <4>1, <4>2
      <4> QED BY <1>8, <4>3
    <3>4. CASE r \notin reviews /\ q \in reviews
      <4>1. r = fresh /\ r.seq = lastSeq + 1 /\ q.seq <= lastSeq /\ q.seq \in Nat
        BY <1>2, <1>4, <1>5, <3>4, RowIs
      <4>2. Owner[q.id] = Owner[id]
        BY <1>2, <1>4, <2>1, <4>1
      <4>3. r \in new /\ q \in new
        BY <1>4, <1>7, <4>1, <4>2
      <4> QED BY <1>8, <4>3
    <3> QED BY <3>1, <3>2, <3>3, <3>4
  <2> QED BY <2>1 DEF RowsDiffer
<1>15. RowsHold'
  BY <1>1, <1>2, <1>10, <1>11, <1>12, <1>14 DEF RowsHold
<1>16. CursorHolds'
  <2>1. /\ cursor \in CursorType /\ Points(cursor, reviews, lastSeq)
        /\ Parts(cursor, reviews, seen, due)
        /\ cursor.version \in {"start", "v2", "v4", "v5", "end"} /\ cursor.frontier \in Nat
    BY DEF ListingInv, CursorHolds, CursorType
  <2>2. cursor.version \in {"v4", "v5"} => cursor.frontier \in 1..lastSeq
    BY <2>1 DEF Points
  <2>3. \A q \in R : cursor.version \in {"v4", "v5"} /\ q.seq <= cursor.frontier => q \in reviews
    BY <1>2, <1>13, <2>2
  <2>4. Points(cursor, R, top)
    <3>1. cursor.version \in {"v4", "v5"} => cursor.frontier \in 1..top
      BY <1>2, <1>11, <2>2
    <3> QED BY <2>1, <2>3, <3>1 DEF Points
  <2>5. \A b \in seen, q \in R : q.id = b.id => ~Remains(q, cursor)
    <3>1. CASE cursor.version \in {"start", "v2"}
      BY <2>1, <3>1 DEF Parts
    <3>2. CASE cursor.version = "end"
      BY <3>2 DEF Remains
    <3>3. CASE cursor.version \in {"v4", "v5"}
      <4>1. \A q \in R : Remains(q, cursor) => q \in reviews
        BY <2>3, <3>3 DEF Remains
      <4> QED BY <2>1, <4>1 DEF Parts
    <3> QED BY <2>1, <3>1, <3>2, <3>3
  <2>6. cursor.version # "start" =>
          \A s \in owed : \E q \in R :
            Owner[q.id] \in Routed /\ q.seq = s /\ (Remains(q, cursor) \/ s \in Seqs(seen))
    <3>1. SUFFICES ASSUME cursor.version # "start", NEW s \in owed
                   PROVE  \E q \in R : /\ Owner[q.id] \in Routed /\ q.seq = s
                                       /\ Remains(q, cursor) \/ s \in Seqs(seen)
      OBVIOUS
    <3>2. PICK q \in reviews : /\ Owner[q.id] \in Routed /\ q.seq = s
                               /\ Remains(q, cursor) \/ s \in Seqs(seen)
      BY <1>9, <2>1, <3>1 DEF Parts
    <3> QED BY <1>9, <3>2
  <2>7. Parts(cursor, R, seen, owed)
    BY <2>1, <2>5, <2>6 DEF Parts
  <2> QED BY <1>1, <2>1, <2>4, <2>7 DEF CursorHolds
<1>17. PageHolds'
  <2>1. page \in PageType /\ (page.open => /\ cursor.version # "end" /\ Shaped(page, lastSeq)
                                           /\ Covers(page, reviews)
                                           /\ Divides(page, reviews, seen, due))
    BY DEF ListingInv, PageHolds
  <2>2. ASSUME Shaped(page, lastSeq) PROVE Shaped(page, top)
    <3>1. page.frontier <= lastSeq /\ page.frontier \in Nat
      BY <2>1, <2>2 DEF Shaped, PageType
    <3>2. page.frontier <= top
      BY <1>2, <1>11, <3>1
    <3> QED BY <2>2, <3>2 DEF Shaped
  <2>3. ASSUME Shaped(page, lastSeq), Covers(page, reviews) PROVE Covers(page, R)
    <3>1. page.frontier <= lastSeq /\ page.frontier \in Nat
      BY <2>1, <2>3 DEF Shaped, PageType
    <3>2. \A q \in R : q \notin reviews => q.seq > page.frontier /\ ~(q.seq <= page.frontier)
      BY <1>2, <1>13, <3>1
    <3> QED BY <2>3, <3>2 DEF Covers, InPage
  <2>4. ASSUME Divides(page, reviews, seen, due) PROVE Divides(page, R, seen, owed)
    <3>1. ASSUME NEW s \in owed
          PROVE  \E q \in R : /\ Owner[q.id] \in Routed /\ q.seq = s
                              /\ q \in page.left \/ q \in page.items \/ s \in Seqs(seen)
      <4>1. PICK q \in reviews : /\ Owner[q.id] \in Routed /\ q.seq = s
                                 /\ q \in page.left \/ q \in page.items \/ s \in Seqs(seen)
        BY <1>9, <2>4, <3>1 DEF Divides
      <4> QED BY <1>9, <4>1
    <3>2. \A b \in seen : \A r \in page.items \cup page.left : b.id # r.id
      BY <2>4 DEF Divides
    <3> QED BY <3>1, <3>2 DEF Divides
  <2> QED BY <1>1, <2>1, <2>2, <2>3, <2>4 DEF PageHolds
<1> QED BY <1>15, <1>16, <1>17 DEF ListingInv

LEMMA ListingInitHolds == ListingAssumption /\ ListingInit => ListingInv
<1> SUFFICES ASSUME ListingAssumption, ListingInit PROVE ListingInv
  OBVIOUS
<1>1. RowsHold
  BY FS_EmptySet DEF ListingInit, RowsHold, RowsDiffer, ListingAssumption
<1>2. CursorHolds
  <2>1. cursor \in CursorType /\ cursor.version = "start" /\ cursor = NoCursor
    BY CursorFits DEF ListingInit, NoCursor
  <2> QED BY <2>1 DEF CursorHolds, Points, Parts, ListingInit
<1>3. PageHolds
  BY NoPageIs DEF ListingInit, PageHolds
<1> QED BY <1>1, <1>2, <1>3 DEF ListingInv

LEMMA ListingStepHolds ==
  ASSUME ListingAssumption
  PROVE  ListingInv /\ [ListingNext]_listingVars => ListingInv'
<1> SUFFICES ASSUME ListingInv, [ListingNext]_listingVars PROVE ListingInv'
  OBVIOUS
<1>1. ASSUME NEW id \in Ids, NEW time \in Times, Ingest(id, time) PROVE ListingInv'
  BY <1>1, IngestKeeps
<1>2. ASSUME NEW t \in Tasks, Resolve(t) PROVE ListingInv'
  BY <1>2, ResolveKeeps
<1>3. ASSUME NEW r \in reviews, OldRelease(r) PROVE ListingInv'
  BY <1>3, OldReleaseKeeps
<1>4. ASSUME NEW limit \in Limits, List(limit) PROVE ListingInv'
  BY <1>4, ListKeeps
<1>5. CASE Reply
  BY <1>5, ReplyKeeps
<1>6. CASE Lose
  BY <1>6, LoseKeeps
<1>7. ASSUME NEW unavailable \in SUBSET Flaky, ScanBatch(unavailable) PROVE ListingInv'
  BY <1>7, ScanKeeps
<1>8. CASE UNCHANGED listingVars
  BY <1>8 DEF listingVars, ListingInv, RowsHold, CursorHolds, PageHolds
<1> QED BY <1>1, <1>2, <1>3, <1>4, <1>5, <1>6, <1>7, <1>8 DEF ListingNext

\* What a client that walks the pages is promised, follows.
LEMMA WalkIsWholeNow == ASSUME ListingAssumption PROVE ListingInv => WalkIsWhole
<1> SUFFICES ASSUME ListingInv PROVE WalkIsWhole
  OBVIOUS
<1>1. RowsHold /\ CursorHolds /\ PageHolds
  BY DEF ListingInv
<1>2. ListingTypeOK
  <2>1. page.open => page.left \subseteq page.records
    BY <1>1 DEF PageHolds, Shaped
  <2>2. cursor.version \in {"v4", "v5"} => cursor.frontier \in 1..lastSeq
    BY <1>1 DEF CursorHolds, Points
  <2> QED BY <1>1, <2>1, <2>2 DEF RowsHold, RowsDiffer, Row, ListingTypeOK
<1>3. ListedOnce
  BY <1>1 DEF RowsHold, ListedOnce
<1>4. ListedAll
  <2>1. SUFFICES ASSUME cursor = EndCursor PROVE due \subseteq Seqs(seen)
    BY DEF ListedAll
  <2>2. cursor.version = "end"
    BY <2>1 DEF EndCursor, NoCursor
  <2>3. \A q : ~Remains(q, cursor)
    BY <2>2 DEF Remains
  <2> QED BY <1>1, <2>2, <2>3 DEF CursorHolds, Parts
<1>5. BelowFrontier
  <2>1. SUFFICES ASSUME page.open
                 PROVE  /\ Cardinality(page.items) <= page.limit
                        /\ \A r \in page.items : \E q \in page.records :
                             q.id = r.id /\ q.seq <= page.frontier
    BY DEF BelowFrontier
  <2>2. Shaped(page, lastSeq)
    BY <1>1, <2>1 DEF PageHolds
  <2> QED BY <2>2 DEF Shaped, InPage
<1> QED BY <1>2, <1>3, <1>4, <1>5 DEF WalkIsWhole

\* For any number of reviews, tasks, page sizes and lost replies, with reviews that come,
\* are decided and asked again between and during the pages, owners that are not reached
\* and cursors of an older release: a walk shows no review twice, and when it has ended it
\* has shown every review that was pending all along (list_reviews).
THEOREM WalksAreWhole == ListingAssumption => (ListingSpec => []WalkIsWhole)
<1> SUFFICES ASSUME ListingAssumption PROVE ListingSpec => []WalkIsWhole
  OBVIOUS
<1>1. ListingInit => ListingInv
  BY ListingInitHolds
<1>2. ListingInv /\ [ListingNext]_listingVars => ListingInv'
  BY ListingStepHolds
<1>3. ListingInv => WalkIsWhole
  BY WalkIsWholeNow
<1> QED BY <1>1, <1>2, <1>3, PTL DEF ListingSpec
=============================================================================
