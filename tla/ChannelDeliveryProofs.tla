----------------------- MODULE ChannelDeliveryProofs -----------------------
(***************************************************************************)
(* Proofs about ChannelDelivery, for any number of processes, reviews,      *)
(* retries and grace checks: under every fault the terminal steps of a run  *)
(* reach the chat in order and completely; and while leases hold and a      *)
(* send that fails was not taken, each step reaches it once.                *)
(***************************************************************************)
EXTENDS ChannelDelivery, TLAPS

(* The inductive invariant, for every fault.                                *)

\* A watch v, where m are the marked steps and s says how often each was taken: the
\* step whose answer is under way was taken, a terminal step is sent when those
\* before it are marked, and late reviews are looked for when all are.
Sound(v, m, s) ==
  /\ v \in Watch
  /\ v.at = "accepted" => s[v.step] > 0
  /\ v.at \in {"send", "accepted"} =>
       \A i, j \in DOMAIN Terminal : v.step = Terminal[j] /\ i < j => Terminal[i] \in m
  /\ v.said => TerminalSteps \subseteq m

\* Leases hold, no process stops, and a send that fails was not taken.
LeasesHold == Faults \subseteq {"query", "effect"}

\* The row, beside the watches w and the marked steps m.
RowSound(row, w, m) ==
  /\ row \in Intent
  /\ row.holder = Nobody => ~row.live
  /\ row.holder \in Owner => w[row.holder].at \notin {"off", "error_hook"}
  /\ row.due # "never" => row.state = "error"
  /\ row.state \in {"terminal_grace", "delivered"} => TerminalSteps \subseteq m
  /\ LeasesHold => row.holder # Dead /\ (row.holder \in Owner => row.live)

\* What the platform took, and what is marked of it.
Taken ==
  /\ marked \subseteq Step /\ sent \in [Step -> 0..MaxSends]
  /\ \A s \in marked : sent[s] > 0
  /\ InOrder

\* The processes and the turns that wait.
Processes ==
  /\ task \in View /\ asked \subseteq Review
  /\ restart \subseteq up /\ scanned \subseteq up /\ owed \subseteq up /\ up \subseteq Owner
  /\ waiter \in [Owner -> {"none", "wait", "done", "failed"}]
  /\ \A o \in Owner \ up : watch[o].at = "off" /\ waiter[o] = "none"

IInv ==
  /\ watch \in [Owner -> Watch]
  /\ \A o \in Owner : Sound(watch[o], marked, sent)
  /\ RowSound(intent, watch, marked)
  /\ Taken /\ Processes /\ ContinueAfterResult

----------------------------------------------------------------------------
(* The steps of a run                                                       *)

\* The places of the terminal steps.
LEMMA Places ==
  /\ DOMAIN Terminal = {1, 2, 3}
  /\ Terminal[1] = "message" /\ Terminal[2] = "artifact" /\ Terminal[3] = "hook"
  /\ \A i, j \in {1, 2, 3} : Terminal[i] = Terminal[j] => i = j
  /\ \A i \in {1, 2, 3} : Terminal[i] \in TerminalSteps
  /\ TerminalSteps \subseteq Step
<1>1. /\ DOMAIN Terminal = {1, 2, 3} /\ TerminalSteps \subseteq Step
      /\ Terminal[1] = "message" /\ Terminal[2] = "artifact" /\ Terminal[3] = "hook"
  BY DEF Terminal, TerminalSteps, Step
<1> QED BY <1>1 DEF TerminalSteps

\* The next step is the first one not marked, and there is one unless all are.
LEMMA NextStepIsFirst ==
  ASSUME Unmarked # {}
  PROVE  /\ NextStep \in TerminalSteps /\ NextStep \notin marked'
         /\ \A i, j \in DOMAIN Terminal :
              NextStep = Terminal[j] /\ i < j => Terminal[i] \in marked'
<1>1. Unmarked \subseteq {1, 2, 3}
  BY Places DEF Unmarked
<1>2. \E i \in Unmarked : \A j \in Unmarked : i <= j
  <2>1. CASE 1 \in Unmarked
    BY <1>1, <2>1
  <2>2. CASE 1 \notin Unmarked /\ 2 \in Unmarked
    BY <1>1, <2>2
  <2>3. CASE Unmarked = {3}
    BY <2>3
  <2> QED BY <1>1, <2>1, <2>2, <2>3
<1> DEFINE first == CHOOSE i \in Unmarked : \A j \in Unmarked : i <= j
<1>3. first \in Unmarked /\ \A j \in Unmarked : first <= j
  BY <1>2
<1>4. NextStep = Terminal[first]
  BY DEF NextStep
<1> HIDE DEF first
<1>5. first \in {1, 2, 3} /\ Terminal[first] \notin marked'
  BY <1>1, <1>3 DEF Unmarked
<1>6. ASSUME NEW i \in {1, 2, 3}, NEW j \in {1, 2, 3}, NextStep = Terminal[j], i < j
      PROVE  Terminal[i] \in marked'
  <2>1. first = j
    BY <1>4, <1>5, <1>6, Places
  <2>2. i \notin Unmarked
    BY <1>3, <1>6, <2>1
  <2> QED BY <2>2, Places DEF Unmarked
<1> QED BY <1>4, <1>5, <1>6, Places

\* When nothing is unmarked, all is told.
LEMMA AllMarked ==
  ASSUME Unmarked = {}
  PROVE  TerminalSteps \subseteq marked'
BY Places DEF Unmarked, TerminalSteps

\* What the invariant says of a watch stays so when more is marked and taken.
LEMMA SoundGrows ==
  ASSUME NEW v, NEW m, NEW n, NEW s \in [Step -> Nat], NEW t \in [Step -> Nat], Sound(v, m, s),
         m \subseteq n, \A x \in Step : s[x] <= t[x]
  PROVE  Sound(v, n, t)
<1>1. v.step \in Step
  BY DEF Sound, Watch
<1> QED BY <1>1 DEF Sound

----------------------------------------------------------------------------
(* The marks on the row                                                     *)

LEMMA RowFields ==
  ASSUME ConstantsAssumption, NEW row \in Intent, NEW o \in Owner, NEW st \in State
  PROVE  /\ Claimed(o, row) \in Intent /\ Claimed(o, row).holder = o /\ Claimed(o, row).live
         /\ Claimed(o, row).state = row.state /\ Claimed(o, row).due = row.due
         /\ Free(row) \in Intent /\ Free(row).holder = Nobody /\ ~Free(row).live
         /\ Free(row).state = row.state /\ Free(row).due = row.due
         /\ Mark(row, st) \in Intent /\ Mark(row, st).holder = row.holder
         /\ Mark(row, st).live = row.live /\ Mark(row, st).state = st
         /\ Mark(row, st).due = "never"
<1> USE DEF Intent
<1>1. /\ Claimed(o, row) \in Intent /\ Claimed(o, row).holder = o /\ Claimed(o, row).live
      /\ Claimed(o, row).state = row.state /\ Claimed(o, row).due = row.due
  BY DEF Claimed
<1>2. /\ Free(row) \in Intent /\ Free(row).holder = Nobody /\ ~Free(row).live
      /\ Free(row).state = row.state /\ Free(row).due = row.due
  BY DEF Free
<1>3. /\ Mark(row, st) \in Intent /\ Mark(row, st).holder = row.holder
      /\ Mark(row, st).live = row.live /\ Mark(row, st).state = st
      /\ Mark(row, st).due = "never"
  BY DEF Mark
<1> QED BY <1>1, <1>2, <1>3

LEMMA MoreRowFields ==
  ASSUME ConstantsAssumption, NEW row \in Intent, NEW redrive \in BOOLEAN
  PROVE  /\ MarkWatching(row) \in Intent /\ MarkWatching(row).holder = row.holder
         /\ MarkWatching(row).live = row.live /\ MarkWatching(row).due = "never"
         /\ MarkWatching(row).state \in {"watching", "review_waiting", "terminal_grace"}
         /\ MarkWatching(row).state # "watching" => MarkWatching(row).state = row.state
         /\ MarkRetry(row) \in Intent /\ MarkRetry(row).holder = row.holder
         /\ MarkRetry(row).live = row.live /\ MarkRetry(row).due = "never"
         /\ MarkRetry(row).state \in {"retry_wait", "terminal_grace"}
         /\ MarkRetry(row).state # "retry_wait" => MarkRetry(row).state = row.state
         /\ MarkError(row, redrive) \in Intent /\ MarkError(row, redrive).holder = Nobody
         /\ ~MarkError(row, redrive).live /\ MarkError(row, redrive).state = "error"
<1> USE DEF Intent, State
<1>1. /\ MarkWatching(row) \in Intent /\ MarkWatching(row).holder = row.holder
      /\ MarkWatching(row).live = row.live /\ MarkWatching(row).due = "never"
      /\ MarkWatching(row).state \in {"watching", "review_waiting", "terminal_grace"}
      /\ MarkWatching(row).state # "watching" => MarkWatching(row).state = row.state
  BY DEF MarkWatching
<1>2. /\ MarkRetry(row) \in Intent /\ MarkRetry(row).holder = row.holder
      /\ MarkRetry(row).live = row.live /\ MarkRetry(row).due = "never"
      /\ MarkRetry(row).state \in {"retry_wait", "terminal_grace"}
      /\ MarkRetry(row).state # "retry_wait" => MarkRetry(row).state = row.state
  BY DEF MarkRetry
<1>3. /\ MarkError(row, redrive) \in Intent /\ MarkError(row, redrive).holder = Nobody
      /\ ~MarkError(row, redrive).live /\ MarkError(row, redrive).state = "error"
  BY DEF MarkError, Free
<1> QED BY <1>1, <1>2, <1>3

----------------------------------------------------------------------------
(* What a watch turns to                                                    *)

\* The watch of o moves on, and with it the row: what all parts of a watch leave.
Turned(o) ==
  \E v \in Watch :
    /\ watch' = [watch EXCEPT ![o] = v]
    /\ Sound(v, marked', sent')
    /\ RowSound(intent', watch', marked')
    /\ v.at # "accepted"
    /\ v.at = "send" => v.step \notin marked' /\ intent' = Mark(intent, "delivering")

\* The steps taken stay taken while a watch turns.
Grown == marked \subseteq marked' /\ marked' \subseteq Step /\ sent' = sent

LEMMA OffWatch ==
  ASSUME ConstantsAssumption
  PROVE  /\ Off \in Watch /\ Off.at = "off" /\ ~Off.said
         /\ [Off EXCEPT !.at = "ask"] \in Watch /\ [Off EXCEPT !.at = "ask"].at = "ask"
         /\ ~[Off EXCEPT !.at = "ask"].said
         /\ [Off EXCEPT !.at = "error_hook"] \in Watch
         /\ [Off EXCEPT !.at = "error_hook"].at = "error_hook"
         /\ ~[Off EXCEPT !.at = "error_hook"].said
<1>1. Off \in Watch
  BY DEF Off, Watch, View, Step, TerminalSteps, ConstantsAssumption
<1>2. Off.at = "off" /\ ~Off.said
  BY DEF Off
<1>3. ASSUME NEW a \in {"ask", "error_hook"}
      PROVE  /\ [Off EXCEPT !.at = a] \in Watch /\ [Off EXCEPT !.at = a].at = a
             /\ ~[Off EXCEPT !.at = a].said
  <2> DEFINE off == Off
  <2>1. off \in Watch /\ ~off.said
    BY <1>1, <1>2
  <2> HIDE DEF off
  <2>2. /\ [off EXCEPT !.at = a] \in Watch /\ [off EXCEPT !.at = a].at = a
        /\ ~[off EXCEPT !.at = a].said
    BY <2>1 DEF Watch
  <2> QED BY <2>2 DEF off
<1> QED BY <1>1, <1>2, <1>3

\* The types a step starts from.
LEMMA Types ==
  ASSUME ConstantsAssumption, IInv
  PROVE  /\ watch \in [Owner -> Watch] /\ intent \in Intent
         /\ sent \in [Step -> 0..MaxSends] /\ sent \in [Step -> Nat] /\ marked \subseteq Step
         /\ Nobody \notin Owner /\ Dead \notin Owner /\ Nobody # Dead
<1>1. MaxSends \in Nat
  BY DEF ConstantsAssumption
<1>2. sent \in [Step -> 0..MaxSends]
  BY DEF IInv, Taken
<1> QED BY <1>1, <1>2 DEF IInv, Taken, RowSound, ConstantsAssumption

\* A watch that ends or starts leaves a row that o does not hold, or holds again.
LEMMA StartTurns ==
  ASSUME ConstantsAssumption, IInv, NEW o \in Owner, NEW row,
         RowSound(row, watch, marked'), row.holder # o, Start(o, row)
  PROVE  Turned(o)
<1>1. CASE Claimable(o, row)
  <2> DEFINE v == [Off EXCEPT !.at = "ask"]
  <2>1. intent' = Claimed(o, row) /\ watch' = [watch EXCEPT ![o] = v]
    BY <1>1 DEF Start
  <2>2. v \in Watch /\ v.at = "ask" /\ ~v.said
    BY OffWatch
  <2> HIDE DEF v
  <2>3. watch'[o] = v
    BY <2>1, Types
  <2>4. /\ intent' \in Intent /\ intent'.holder = o /\ intent'.live
        /\ intent'.state = row.state /\ intent'.due = row.due
    <3>1. row \in Intent
      BY DEF RowSound
    <3> QED BY <2>1, <3>1, RowFields DEF State
  <2>5. RowSound(intent', watch', marked')
    BY <2>2, <2>3, <2>4, Types DEF RowSound
  <2> QED BY <2>1, <2>2, <2>5 DEF Turned, Sound
<1>2. CASE ~Claimable(o, row)
  <2>1. intent' = row /\ watch' = [watch EXCEPT ![o] = Off]
    BY <1>2 DEF Start
  <2>2. row.holder \in Owner => watch'[row.holder] = watch[row.holder]
    BY <2>1, Types
  <2>3. RowSound(intent', watch', marked')
    BY <2>1, <2>2 DEF RowSound
  <2> QED BY <2>1, <2>3, OffWatch DEF Turned, Sound
<1> QED BY <1>1, <1>2

LEMMA ReleasedSound ==
  ASSUME ConstantsAssumption, NEW o \in Owner, NEW row, RowSound(row, watch, marked')
  PROVE  RowSound(Released(o, row), watch, marked') /\ Released(o, row).holder # o
BY RowFields DEF Released, RowSound, ConstantsAssumption, State

LEMMA ReturnTurns ==
  ASSUME ConstantsAssumption, IInv, NEW o \in Owner, NEW row,
         RowSound(row, watch, marked'), Return(o, row)
  PROVE  Turned(o) /\ restart' \subseteq restart
<1>1. RowSound(Released(o, row), watch, marked') /\ Released(o, row).holder # o
  BY ReleasedSound
<1>2. CASE o \in restart
  BY <1>1, <1>2, StartTurns DEF Return
<1>3. CASE o \notin restart
  <2>1. intent' = Released(o, row) /\ watch' = [watch EXCEPT ![o] = Off]
    BY <1>3 DEF Return
  <2>2. intent'.holder \in Owner => watch'[intent'.holder] = watch[intent'.holder]
    BY <1>1, <2>1, Types
  <2>3. RowSound(intent', watch', marked')
    BY <1>1, <2>1, <2>2 DEF RowSound
  <2> QED BY <2>1, <2>3, OffWatch DEF Turned, Sound, Return
<1>4. restart' \subseteq restart
  BY DEF Return
<1> QED BY <1>2, <1>3, <1>4

LEMMA LostTurns ==
  ASSUME ConstantsAssumption, IInv, NEW o \in Owner, Grown, Lost(o)
  PROVE  Turned(o) /\ restart' \subseteq restart
<1>1. RowSound(intent, watch, marked')
  BY DEF IInv, RowSound, Grown
<1>2. RowSound(Released(o, intent), watch, marked') /\ Released(o, intent).holder # o
  BY <1>1, ReleasedSound
<1>3. intent' = Released(o, intent) /\ watch' = [watch EXCEPT ![o] = Off]
  BY DEF Lost
<1>4. intent'.holder \in Owner => watch'[intent'.holder] = watch[intent'.holder]
  BY <1>2, <1>3, Types
<1>5. RowSound(intent', watch', marked')
  BY <1>2, <1>3, <1>4 DEF RowSound
<1> QED BY <1>3, <1>5, OffWatch DEF Turned, Sound, Lost

LEMMA FailTurns ==
  ASSUME ConstantsAssumption, IInv, NEW o \in Owner, NEW redrive \in BOOLEAN, Fail(o, redrive)
  PROVE  Turned(o) /\ restart' \subseteq restart
<1> DEFINE v == [Off EXCEPT !.at = "error_hook"]
<1>1. intent' = MarkError(intent, redrive) /\ watch' = [watch EXCEPT ![o] = v]
  BY DEF Fail
<1>2. RowSound(intent', watch', marked')
  BY <1>1, Types, MoreRowFields DEF RowSound
<1>3. v \in Watch /\ v.at = "error_hook" /\ ~v.said
  BY OffWatch
<1> HIDE DEF v
<1> QED BY <1>1, <1>2, <1>3 DEF Turned, Sound, Fail

\* A step is begun by a watch that looks at the run, or that had its last answer.
LEMMA SendTurns ==
  ASSUME ConstantsAssumption, IInv, NEW o \in Owner, Grown, NEW step \in Step,
         step \notin marked', Send(o, intent, step),
         \A i, j \in DOMAIN Terminal : step = Terminal[j] /\ i < j => Terminal[i] \in marked'
  PROVE  Turned(o) /\ restart' = restart
<1> DEFINE old == watch[o]
           v == [old EXCEPT !.at = "send", !.step = step]
<1>1. intent' = Mark(intent, "delivering") /\ watch' = [watch EXCEPT ![o] = v]
  BY DEF Send
<1>2. old \in Watch /\ (old.said => TerminalSteps \subseteq marked')
  BY Types DEF IInv, Sound, Grown
<1> HIDE DEF old
<1>3. v \in Watch /\ v.at = "send" /\ v.step = step /\ v.said = old.said
  BY <1>2 DEF Watch
<1> HIDE DEF v
<1>4. /\ intent' \in Intent /\ intent'.holder = intent.holder /\ intent'.live = intent.live
      /\ intent'.state = "delivering" /\ intent'.due = "never"
  <2>1. intent \in Intent /\ "delivering" \in State
    BY Types DEF State
  <2> QED BY <1>1, <2>1, RowFields
<1>5. \A x \in Owner : watch'[x] = watch[x] \/ watch'[x] = v
  BY <1>1, Types
<1>6. RowSound(intent', watch', marked')
  BY <1>3, <1>4, <1>5 DEF RowSound, IInv
<1>7. Sound(v, marked', sent')
  BY <1>2, <1>3 DEF Sound
<1> QED BY <1>1, <1>3, <1>6, <1>7 DEF Turned, Send

\* The grace is entered, and the run is told, when every terminal step is marked.
LEMMA GraceTurns ==
  ASSUME ConstantsAssumption, IInv, NEW o \in Owner, Grown, TerminalSteps \subseteq marked',
         Grace(o)
  PROVE  Turned(o) /\ restart' \subseteq restart
<1>1. CASE watch[o].grace = 0
  <2>1. Mark(intent, "delivered").holder = intent.holder
    BY Types, RowFields DEF State, Final
  <2>2. RowSound(Mark(intent, "delivered"), watch, marked')
    BY Types, RowFields DEF IInv, RowSound, State, Final
  <2> QED BY <1>1, <2>2, ReturnTurns DEF Grace
<1>2. CASE watch[o].grace # 0
  <2> DEFINE old == watch[o]
             left == old.grace - 1
             first == [old EXCEPT !.at = "ask", !.said = TRUE]
             v == [first EXCEPT !.tries = 0, !.grace = left]
  <2>1. /\ intent' = Mark(intent, "terminal_grace") /\ UNCHANGED restart
        /\ watch' = [watch EXCEPT ![o].at = "ask", ![o].said = TRUE, ![o].tries = 0,
                                  ![o].grace = @ - 1]
    BY <1>2 DEF Grace
  <2>2. old \in Watch /\ MaxAttempts \in Nat /\ GraceChecks \in Nat
    BY Types DEF ConstantsAssumption
  <2>3. left \in 0..GraceChecks
    BY <1>2, <2>2 DEF Watch
  <2>4. watch' = [watch EXCEPT ![o] = v]
    <3> DEFINE half == [watch EXCEPT ![o].at = "ask", ![o].said = TRUE]
    <3>1. half = [watch EXCEPT ![o] = first]
      BY Types DEF Watch
    <3>2. watch' = [half EXCEPT ![o].tries = 0, ![o].grace = left]
      BY <2>1, Types DEF Watch
    <3>3. watch' = [half EXCEPT ![o] = [half[o] EXCEPT !.tries = 0, !.grace = left]]
      BY <3>2
    <3>4. o \in DOMAIN watch
      BY Types
    <3> HIDE DEF half, first, left
    <3>5. half[o] = first
      BY <3>1, <3>4
    <3>6. watch' = [half EXCEPT ![o] = v]
      BY <3>3, <3>5
    <3> HIDE DEF v
    <3> QED BY <3>1, <3>6, Types
  <2> HIDE DEF old, left
  <2>5. first \in Watch /\ first.at = "ask" /\ first.said
    BY <2>2 DEF Watch
  <2> HIDE DEF first
  <2>6. v \in Watch /\ v.at = "ask" /\ v.said
    <3> DEFINE second == [first EXCEPT !.tries = 0]
    <3>1. 0 \in 0..MaxAttempts
      BY <2>2
    <3>2. second \in Watch /\ second.at = "ask" /\ second.said
      BY <2>5, <3>1 DEF Watch
    <3>3. v = [second EXCEPT !.grace = left]
      BY <2>5 DEF Watch
    <3> HIDE DEF second, v
    <3> QED BY <2>3, <3>2, <3>3 DEF Watch
  <2> HIDE DEF v
  <2>7. /\ intent' \in Intent /\ intent'.holder = intent.holder /\ intent'.live = intent.live
        /\ intent'.state = "terminal_grace" /\ intent'.due = "never"
    BY <2>1, Types, RowFields DEF State
  <2>8. \A x \in Owner : watch'[x] = watch[x] \/ watch'[x] = v
    BY <2>4, Types
  <2>9. RowSound(intent', watch', marked')
    BY <2>6, <2>7, <2>8 DEF RowSound, IInv
  <2> QED BY <2>1, <2>4, <2>6, <2>9 DEF Turned, Sound
<1> QED BY <1>1, <1>2

LEMMA DeliverTerminalTurns ==
  ASSUME ConstantsAssumption, IInv, NEW o \in Owner, Grown, DeliverTerminal(o)
  PROVE  Turned(o) /\ restart' \subseteq restart
<1>1. CASE Unmarked = {}
  BY <1>1, AllMarked, GraceTurns DEF DeliverTerminal
<1>2. CASE Unmarked # {}
  <2>1. NextStep \in Step /\ NextStep \notin marked' /\ Send(o, intent, NextStep)
    BY <1>2, NextStepIsFirst, Places DEF DeliverTerminal
  <2> QED BY <1>2, <2>1, NextStepIsFirst, SendTurns
<1> QED BY <1>1, <1>2

LEMMA DeliverReviewTurns ==
  ASSUME ConstantsAssumption, IInv, NEW o \in Owner, Grown, NEW review \in Review,
         DeliverReview(o, review)
  PROVE  Turned(o) /\ restart' \subseteq restart
<1>1. CASE review \in marked'
  <2>1. RowSound(Mark(intent, "review_waiting"), watch, marked')
    BY Types, RowFields DEF IInv, RowSound, State
  <2> QED BY <1>1, <2>1, ReturnTurns DEF DeliverReview
<1>2. CASE review \notin marked'
  <2>1. review \in Step /\ \A j \in DOMAIN Terminal : review # Terminal[j]
    BY Places DEF Step, ConstantsAssumption
  <2> QED BY <1>2, <2>1, SendTurns DEF DeliverReview
<1> QED BY <1>1, <1>2

----------------------------------------------------------------------------
(* The steps                                                                *)

\* A watch that turns keeps the invariant, if nothing else than its process changes.
LEMMA TurnKeeps ==
  ASSUME ConstantsAssumption, IInv, NEW o \in Owner, o \in up', Turned(o), Grown,
         \A s \in marked' : sent[s] > 0, UNCHANGED <<task, asked>>,
         restart' \subseteq up', scanned' \subseteq up', owed' \subseteq up',
         up \subseteq up', up' \subseteq Owner,
         waiter' \in [Owner -> {"none", "wait", "done", "failed"}],
         \A x \in Owner : waiter'[x] = "done" => waiter[x] = "done",
         \A x \in Owner \ up' : waiter'[x] = "none"
  PROVE  IInv'
<1>1. PICK v \in Watch :
        /\ watch' = [watch EXCEPT ![o] = v] /\ Sound(v, marked', sent')
        /\ RowSound(intent', watch', marked')
  BY DEF Turned
<1>2. watch' \in [Owner -> Watch] /\ \A x \in Owner : watch'[x] = IF x = o THEN v ELSE watch[x]
  BY <1>1, Types
<1>3. \A x \in Owner : Sound(watch'[x], marked', sent')
  <2>1. ASSUME NEW x \in Owner PROVE Sound(watch[x], marked', sent')
    <3>1. Sound(watch[x], marked, sent) /\ marked \subseteq marked' /\ sent' = sent
      BY DEF IInv, Grown
    <3>2. \A y \in Step : sent[y] <= sent'[y]
      BY <3>1, Types
    <3> QED BY <3>1, <3>2, Types, SoundGrows
  <2> QED BY <1>1, <1>2, <2>1
<1>4. Taken'
  <2>1. InOrder'
    BY Places DEF IInv, Taken, InOrder, Grown
  <2> QED BY <2>1 DEF IInv, Taken, Grown
<1>5. Processes'
  <2>1. \A x \in Owner \ up' : watch'[x].at = "off"
    BY <1>2 DEF IInv, Processes
  <2> QED BY <2>1 DEF IInv, Processes
<1>6. ContinueAfterResult'
  BY DEF IInv, ContinueAfterResult, Grown
<1>7. RowSound(intent, watch, marked)'
  BY <1>1
<1> QED BY <1>2, <1>3, <1>4, <1>5, <1>6, <1>7 DEF IInv

\* What a step of a watch leaves alone, and who makes it.
LEMMA Alone ==
  ASSUME ConstantsAssumption, IInv, NEW o \in Owner, watch[o].at # "off",
         Turned(o), Grown, \A s \in marked' : sent[s] > 0, restart' \subseteq restart,
         UNCHANGED <<task, asked, scanned, owed, waiter, up>>
  PROVE  IInv'
<1>1. o \in up
  BY DEF IInv, Processes
<1> QED BY <1>1, TurnKeeps DEF IInv, Processes

\* Nothing is marked.
LEMMA NothingMarked ==
  ASSUME IInv, UNCHANGED <<marked, sent>>
  PROVE  Grown /\ \A s \in marked' : sent[s] > 0
BY DEF IInv, Taken, Grown

LEMMA ErrorHookEndsKeeps ==
  ASSUME ConstantsAssumption, IInv, NEW o \in Owner, ErrorHookEnds(o)
  PROVE  IInv'
<1>1. /\ watch[o].at = "error_hook" /\ Return(o, intent)
      /\ UNCHANGED <<task, asked, marked, sent, scanned, owed, waiter, up>>
  BY DEF ErrorHookEnds
<1>2. RowSound(intent, watch, marked')
  BY <1>1 DEF IInv
<1> QED BY <1>1, <1>2, NothingMarked, ReturnTurns, Alone

\* A process that starts a watch.
LEMMA StartKeeps ==
  ASSUME ConstantsAssumption, IInv, NEW o \in Owner, o \in up', NEW row,
         RowSound(row, watch, marked), watch[o].at = "off", row.holder = intent.holder,
         Start(o, row), UNCHANGED <<task, asked, marked, sent, restart>>,
         scanned' \subseteq scanned, owed' \subseteq owed, up \subseteq up', up' \subseteq Owner,
         waiter' \in [Owner -> {"none", "wait", "done", "failed"}],
         \A x \in Owner : waiter'[x] = "done" => waiter[x] = "done",
         \A x \in Owner \ up' : waiter'[x] = "none"
  PROVE  IInv'
<1>1. row.holder # o
  BY DEF RowSound
<1>2. Turned(o)
  BY <1>1, StartTurns
<1> QED BY <1>2, NothingMarked, TurnKeeps DEF IInv, Processes

LEMMA InsertedSound ==
  ASSUME ConstantsAssumption, IInv
  PROVE  RowSound(Inserted, watch, marked) /\ Inserted.holder = intent.holder
<1>1. intent \in Intent /\ RowSound(intent, watch, marked)
  BY DEF IInv, RowSound
<1>2. CASE intent.state = "none"
  <2>1. /\ Inserted \in Intent /\ Inserted.holder = intent.holder /\ Inserted.live = intent.live
        /\ Inserted.state = "watching" /\ Inserted.due = intent.due
    BY <1>1, <1>2 DEF Inserted, Intent, State
  <2> QED BY <1>1, <1>2, <2>1 DEF RowSound
<1>3. CASE intent.state # "none"
  BY <1>1, <1>3 DEF Inserted
<1> QED BY <1>2, <1>3

\* The row alone changes.
LEMMA RowKeeps ==
  ASSUME ConstantsAssumption, IInv, RowSound(intent', watch, marked),
         UNCHANGED <<task, asked, marked, sent, watch, up>>,
         restart' \subseteq up, scanned' \subseteq up, owed' \subseteq up,
         waiter' \in [Owner -> {"none", "wait", "done", "failed"}],
         \A x \in Owner \ up : waiter'[x] = "none",
         \A x \in Owner : waiter'[x] = "done" =>
           waiter[x] = "done" \/ TerminalSteps \subseteq marked
  PROVE  IInv'
<1>1. Taken' /\ Processes' /\ ContinueAfterResult'
  BY DEF IInv, Taken, InOrder, Processes, ContinueAfterResult
<1>2. \A o \in Owner : Sound(watch'[o], marked', sent')
  BY DEF IInv
<1>3. RowSound(intent', watch', marked') /\ watch' \in [Owner -> Watch]
  BY DEF IInv
<1> QED BY <1>1, <1>2, <1>3 DEF IInv

LEMMA AskKeeps ==
  ASSUME ConstantsAssumption, IInv, NEW o \in Owner, Ask(o)
  PROVE  IInv'
<1>1. /\ o \in owed /\ owed' = owed \ {o}
      /\ UNCHANGED <<task, asked, marked, sent, scanned, waiter, up>>
  BY DEF Ask
<1>2. o \in up
  BY <1>1 DEF IInv, Processes
<1>3. CASE Active(o)
  <2>1. restart' = restart \cup {o} /\ intent' = Inserted /\ UNCHANGED watch
    BY <1>3 DEF Ask
  <2> QED BY <1>1, <1>2, <2>1, InsertedSound, RowKeeps DEF IInv, Processes
<1>4. CASE ~Active(o)
  <2>1. Start(o, Inserted) /\ UNCHANGED restart
    BY <1>4 DEF Ask
  <2>2. watch[o].at = "off"
    BY <1>4 DEF Active
  <2> QED BY <1>1, <1>2, <2>1, <2>2, InsertedSound, StartKeeps DEF IInv, Processes
<1> QED BY <1>3, <1>4

LEMMA RecoverKeeps ==
  ASSUME ConstantsAssumption, IInv, NEW o \in Owner, Recover(o)
  PROVE  IInv'
<1>1. /\ o \notin up /\ up' = up \cup {o}
      /\ UNCHANGED <<task, asked, marked, sent, restart, scanned, owed, waiter>>
      /\ UNCHANGED <<intent, watch>> \/ Start(o, intent)
  BY DEF Recover
<1>2. watch[o].at = "off" /\ RowSound(intent, watch, marked)
  BY <1>1 DEF IInv, Processes
<1>3. CASE Start(o, intent)
  BY <1>1, <1>2, <1>3, StartKeeps DEF IInv, Processes
<1>4. CASE UNCHANGED <<intent, watch>>
  <2>1. Taken' /\ Processes' /\ ContinueAfterResult'
    BY <1>1, <1>4 DEF IInv, Taken, InOrder, Processes, ContinueAfterResult
  <2> QED BY <1>1, <1>4, <2>1 DEF IInv
<1> QED BY <1>1, <1>3, <1>4

LEMMA RedriveKeeps ==
  ASSUME ConstantsAssumption, IInv, NEW o \in Owner, Redrive(o)
  PROVE  IInv'
<1>1. /\ o \in scanned /\ scanned' = scanned \ {o}
      /\ UNCHANGED <<task, asked, marked, sent, restart, owed, waiter, up>>
      /\ \/ Active(o) /\ intent' = Free(intent) /\ UNCHANGED watch
         \/ ~Active(o) /\ Start(o, intent)
         \/ UNCHANGED <<intent, watch>>
  BY DEF Redrive
<1>2. o \in up /\ RowSound(intent, watch, marked)
  BY <1>1 DEF IInv, Processes
<1>3. CASE Active(o) /\ intent' = Free(intent) /\ UNCHANGED watch
  <2>1. RowSound(intent', watch, marked)
    BY <1>2, <1>3, RowFields DEF RowSound, State, Intent, ConstantsAssumption
  <2> QED BY <1>1, <1>3, <2>1, RowKeeps DEF IInv, Processes
<1>4. CASE ~Active(o) /\ Start(o, intent)
  <2>1. watch[o].at = "off"
    BY <1>4 DEF Active
  <2> QED BY <1>1, <1>2, <1>4, <2>1, StartKeeps DEF IInv, Processes
<1>5. CASE UNCHANGED <<intent, watch>>
  BY <1>1, <1>2, <1>5, RowKeeps DEF IInv, Processes
<1> QED BY <1>1, <1>3, <1>4, <1>5

LEMMA AskTerminalKeeps ==
  ASSUME ConstantsAssumption, IInv, NEW o \in Owner, AskTerminal(o)
  PROVE  IInv'
<1>1. /\ o \in up /\ waiter' = [waiter EXCEPT ![o] = "wait"]
      /\ UNCHANGED <<task, asked, marked, sent, restart, scanned, owed, up>>
      /\ \/ intent' = Inserted /\ UNCHANGED watch
         \/ ~Active(o) /\ Start(o, Inserted)
  BY DEF AskTerminal
<1>2. /\ waiter' \in [Owner -> {"none", "wait", "done", "failed"}]
      /\ \A x \in Owner : waiter'[x] = "done" => waiter[x] = "done"
      /\ \A x \in Owner \ up : waiter'[x] = "none"
  BY <1>1 DEF IInv, Processes
<1>3. CASE intent' = Inserted /\ UNCHANGED watch
  BY <1>1, <1>2, <1>3, InsertedSound, RowKeeps DEF IInv, Processes
<1>4. CASE ~Active(o) /\ Start(o, Inserted)
  <2>1. watch[o].at = "off"
    BY <1>4 DEF Active
  <2> QED BY <1>1, <1>2, <1>4, <2>1, InsertedSound, StartKeeps DEF IInv, Processes
<1> QED BY <1>1, <1>3, <1>4

\* A turn goes on when the row counts the run as told.
LEMMA WaiterKeeps ==
  ASSUME ConstantsAssumption, IInv, NEW o \in Owner, WaiterReturns(o) \/ WaiterRaises(o)
  PROVE  IInv'
<1>1. /\ waiter[o] = "wait"
      /\ UNCHANGED <<task, asked, intent, marked, sent, watch, restart, scanned, owed, up>>
      /\ \/ waiter' = [waiter EXCEPT ![o] = "failed"]
         \/ /\ waiter' = [waiter EXCEPT ![o] = "done"]
            /\ intent.state \in {"terminal_grace", "delivered"}
  BY DEF WaiterReturns, WaiterRaises
<1>2. /\ waiter' \in [Owner -> {"none", "wait", "done", "failed"}]
      /\ \A x \in Owner \ up : waiter'[x] = "none"
  BY <1>1 DEF IInv, Processes
<1>3. \A x \in Owner : waiter'[x] = "done" => waiter[x] = "done" \/ TerminalSteps \subseteq marked
  BY <1>1 DEF IInv, RowSound, Processes
<1>4. RowSound(intent', watch, marked)
  BY <1>1 DEF IInv
<1> QED BY <1>1, <1>2, <1>3, <1>4, RowKeeps DEF IInv, Processes

LEMMA WaiterRestartsKeeps ==
  ASSUME ConstantsAssumption, IInv, NEW o \in Owner, WaiterRestarts(o)
  PROVE  IInv'
<1>1. /\ waiter[o] = "wait" /\ ~Active(o) /\ Start(o, intent)
      /\ UNCHANGED <<task, asked, marked, sent, restart, scanned, owed, waiter, up>>
  BY DEF WaiterRestarts
<1>2. o \in up /\ watch[o].at = "off" /\ RowSound(intent, watch, marked)
  BY <1>1 DEF IInv, Processes, Active
<1> QED BY <1>1, <1>2, StartKeeps DEF IInv, Processes

\* A watch that keeps its lease, or what it thinks is its lease, and its memory of
\* what it said.
LEMMA BusyTurns ==
  ASSUME ConstantsAssumption, IInv, NEW o \in Owner, UNCHANGED <<marked, sent>>,
         NEW v \in Watch, watch' = [watch EXCEPT ![o] = v], v.at \in {"ask", "seen"},
         v.said = watch[o].said, RowSound(intent', watch, marked), UNCHANGED restart,
         watch[o].at # "off", UNCHANGED <<task, asked, scanned, owed, waiter, up>>
  PROVE  Turned(o) /\ IInv'
<1>1. Sound(v, marked', sent')
  BY DEF IInv, Sound
<1>2. \A x \in Owner : watch'[x] = watch[x] \/ watch'[x] = v
  BY Types
<1>3. RowSound(intent', watch', marked')
  BY <1>2 DEF RowSound
<1>4. Turned(o)
  BY <1>1, <1>3 DEF Turned
<1> QED BY <1>4, NothingMarked, Alone

LEMMA AnswerKeeps ==
  ASSUME ConstantsAssumption, IInv, NEW o \in Owner, Answer(o)
  PROVE  IInv'
<1> DEFINE old == watch[o]
           first == [old EXCEPT !.at = "seen", !.view = task]
           v == [first EXCEPT !.queries = 0]
           half == [watch EXCEPT ![o].at = "seen", ![o].view = task]
<1>1. /\ watch[o].at = "ask"
      /\ watch' = [watch EXCEPT ![o].at = "seen", ![o].view = task, ![o].queries = 0]
      /\ UNCHANGED <<task, asked, intent, marked, sent, memory>>
  BY DEF Answer
<1>2. half = [watch EXCEPT ![o] = first]
  BY Types DEF Watch
<1>3. watch' = [half EXCEPT ![o] = [half[o] EXCEPT !.queries = 0]]
  BY <1>1
<1>4. watch' = [watch EXCEPT ![o] = v]
  <2> HIDE DEF half, first
  <2>1. half[o] = first
    BY <1>2, Types
  <2>2. watch' = [half EXCEPT ![o] = v]
    BY <1>3, <2>1
  <2> HIDE DEF v
  <2> QED BY <1>2, <2>2, Types
<1>5. old \in Watch /\ task \in View /\ 0 \in 0..MaxAttempts
  BY Types DEF IInv, Processes, ConstantsAssumption
<1> HIDE DEF old
<1>6. first \in Watch /\ first.at = "seen" /\ first.said = old.said
  BY <1>5 DEF Watch
<1> HIDE DEF first
<1>7. v \in Watch /\ v.at = "seen" /\ v.said = old.said
  BY <1>5, <1>6 DEF Watch
<1>8. v.said = watch[o].said
  BY <1>7 DEF old
<1> HIDE DEF v
<1>9. RowSound(intent', watch, marked)
  BY <1>1 DEF IInv
<1> QED BY <1>1, <1>4, <1>7, <1>8, <1>9, BusyTurns DEF memory

\* The row of a watch that tries again.
LEMMA AgainSound ==
  ASSUME ConstantsAssumption, IInv
  PROVE  /\ RowSound(MarkRetry(intent), watch, marked)
         /\ RowSound(MarkWatching(intent), watch, marked)
BY Types, MoreRowFields DEF IInv, RowSound

LEMMA QueryFailsKeeps ==
  ASSUME ConstantsAssumption, IInv, NEW o \in Owner, NEW retryable \in BOOLEAN,
         QueryFails(o, retryable)
  PROVE  Turned(o) /\ IInv'
<1>1. watch[o].at = "ask" /\ UNCHANGED <<task, asked, marked, sent, scanned, owed, waiter, up>>
  BY DEF QueryFails
<1>2. CASE Fail(o, retryable)
  BY <1>1, <1>2, FailTurns, NothingMarked, Alone
<1>3. CASE Lost(o)
  BY <1>1, <1>3, LostTurns, NothingMarked, Alone
<1>4. CASE /\ watch[o].queries < MaxAttempts /\ intent' = MarkRetry(intent)
           /\ watch' = [watch EXCEPT ![o].queries = @ + 1] /\ UNCHANGED restart
  <2> DEFINE old == watch[o]
             more == old.queries + 1
             v == [old EXCEPT !.queries = more]
  <2>1. watch' = [watch EXCEPT ![o] = v]
    BY <1>4, Types
  <2>2. old \in Watch /\ more \in 0..MaxAttempts /\ old.at = "ask"
    BY <1>1, <1>4, Types DEF Watch, ConstantsAssumption
  <2> HIDE DEF old, more
  <2>3. v \in Watch /\ v.at = "ask" /\ v.said = old.said
    BY <2>2 DEF Watch
  <2>4. v.said = watch[o].said
    BY <2>3 DEF old
  <2> HIDE DEF v
  <2> QED BY <1>1, <1>4, <2>1, <2>3, <2>4, AgainSound, BusyTurns
<1> QED BY <1>2, <1>3, <1>4 DEF QueryFails

LEMMA ObserveKeeps ==
  ASSUME ConstantsAssumption, IInv, NEW o \in Owner, Observe(o)
  PROVE  Turned(o) /\ IInv'
<1>1. /\ watch[o].at = "seen"
      /\ UNCHANGED <<task, asked, marked, sent, scanned, owed, waiter, up>>
  BY DEF Observe
<1>2. Grown /\ \A s \in marked' : sent[s] > 0
  BY <1>1, NothingMarked
<1>3. CASE /\ intent' = MarkWatching(intent) /\ UNCHANGED restart
           /\ watch' = [watch EXCEPT ![o].at = "ask",
                          ![o].tries = IF watch[o].view = "running" THEN 0 ELSE @]
  <2> DEFINE old == watch[o]
             tries == IF old.view = "running" THEN 0 ELSE old.tries
             v == [old EXCEPT !.at = "ask", !.tries = tries]
  <2>1. watch' = [watch EXCEPT ![o] = v]
    BY <1>3, Types
  <2>2. old \in Watch /\ tries \in 0..MaxAttempts
    BY Types DEF Watch, ConstantsAssumption
  <2> HIDE DEF old, tries
  <2>3. v \in Watch /\ v.at = "ask" /\ v.said = old.said
    BY <2>2 DEF Watch
  <2>4. v.said = watch[o].said
    BY <2>3 DEF old
  <2> HIDE DEF v
  <2> QED BY <1>1, <1>3, <2>1, <2>3, <2>4, AgainSound, BusyTurns
<1>4. CASE /\ intent' = Free(Mark(intent, "superseded"))
           /\ watch' = [watch EXCEPT ![o] = Off] /\ restart' = restart \ {o}
  <2>1. /\ intent' \in Intent /\ intent'.holder = Nobody /\ ~intent'.live
        /\ intent'.state = "superseded" /\ intent'.due = "never"
    BY <1>4, Types, RowFields DEF State, Final
  <2>2. RowSound(intent', watch', marked')
    BY <2>1, Types DEF RowSound
  <2>3. Turned(o) /\ restart' \subseteq restart
    BY <1>4, <2>2, OffWatch DEF Turned, Sound
  <2> QED BY <1>1, <1>2, <2>3, Alone
<1>5. CASE watch[o].view \in Review /\ DeliverReview(o, watch[o].view)
  BY <1>1, <1>2, <1>5, DeliverReviewTurns, Alone
<1>6. CASE watch[o].said /\ Grace(o)
  <2>1. TerminalSteps \subseteq marked'
    BY <1>6, <1>1 DEF IInv, Sound
  <2> QED BY <1>1, <1>2, <1>6, <2>1, GraceTurns, Alone
<1>7. CASE DeliverTerminal(o)
  BY <1>1, <1>2, <1>7, DeliverTerminalTurns, Alone
<1> QED BY <1>3, <1>4, <1>5, <1>6, <1>7 DEF Observe

\* The platform takes a step: those before it are marked, and were taken.
LEMMA AcceptKeeps ==
  ASSUME ConstantsAssumption, IInv, NEW o \in Owner, Accept(o)
  PROVE  IInv'
<1> DEFINE old == watch[o]
           v == [old EXCEPT !.at = "accepted"]
           step == watch[o].step
<1>1. /\ watch[o].at = "send" /\ sent[step] < MaxSends
      /\ sent' = [sent EXCEPT ![step] = @ + 1]
      /\ watch' = [watch EXCEPT ![o] = v]
      /\ UNCHANGED <<task, asked, intent, marked, memory>>
  BY Types DEF Accept
<1>2. old \in Watch /\ Sound(old, marked, sent) /\ step \in Step /\ old.step = step
  BY Types DEF IInv, Watch
<1>3. /\ sent' \in [Step -> 0..MaxSends] /\ sent'[step] = sent[step] + 1
      /\ \A s \in Step : s # step => sent'[s] = sent[s]
  BY <1>1, <1>2, Types DEF ConstantsAssumption
<1>4. \A s \in Step : sent[s] <= sent'[s] /\ sent'[s] \in Nat
  BY <1>3, Types DEF ConstantsAssumption
<1>5. sent'[step] > 0
  BY <1>2, <1>3, Types
<1>6. v \in Watch /\ v.at = "accepted" /\ v.step = step /\ v.said = old.said
  <2> HIDE DEF old
  <2> QED BY <1>2 DEF Watch
<1>7. Sound(v, marked', sent')
  BY <1>1, <1>2, <1>5, <1>6 DEF Sound
<1> HIDE DEF v
<1>8. \A x \in Owner : watch'[x] = IF x = o THEN v ELSE watch[x]
  BY <1>1, Types
<1>9. \A x \in Owner : Sound(watch'[x], marked', sent')
  <2>1. ASSUME NEW x \in Owner PROVE Sound(watch[x], marked', sent')
    <3>1. Sound(watch[x], marked, sent) /\ marked' = marked
      BY <1>1 DEF IInv
    <3>2. sent' \in [Step -> Nat]
      BY <1>3, <1>4
    <3> QED BY <1>4, <3>1, <3>2, Types, SoundGrows
  <2> QED BY <1>7, <1>8, <2>1
<1>10. RowSound(intent', watch', marked')
  BY <1>1, <1>6, <1>8 DEF IInv, RowSound
<1>11. Taken'
  <2>1. \A s \in marked' : sent'[s] > 0
    BY <1>1, <1>4, Types DEF IInv, Taken
  <2>2. ASSUME NEW i \in DOMAIN Terminal, NEW j \in DOMAIN Terminal, i < j,
               sent'[Terminal[j]] > 0
        PROVE  sent'[Terminal[i]] > 0 /\ Terminal[i] \in marked'
    <3>1. Terminal[i] \in Step /\ Terminal[j] \in Step
      BY Places
    <3>2. CASE Terminal[j] = step
      <4>1. Terminal[i] \in marked
        BY <1>1, <1>2, <2>2, <3>2 DEF Sound
      <4> QED BY <1>1, <2>1, <4>1
    <3>3. CASE Terminal[j] # step
      <4>1. sent[Terminal[i]] > 0 /\ Terminal[i] \in marked
        BY <1>3, <2>2, <3>1, <3>3 DEF IInv, Taken, InOrder
      <4> QED BY <1>1, <2>1, <4>1
    <3> QED BY <3>2, <3>3
  <2> QED BY <1>1, <1>3, <2>1, <2>2, Types DEF Taken, InOrder
<1>12. Processes' /\ ContinueAfterResult' /\ watch' \in [Owner -> Watch]
  BY <1>1, <1>6, <1>8, Types DEF IInv, Processes, ContinueAfterResult, memory
<1> QED BY <1>9, <1>10, <1>11, <1>12 DEF IInv

LEMMA AcknowledgeKeeps ==
  ASSUME ConstantsAssumption, IInv, NEW o \in Owner, Acknowledge(o)
  PROVE  Turned(o) /\ IInv'
<1> DEFINE step == watch[o].step
<1>1. /\ watch[o].at = "accepted" /\ marked' = marked \cup {step}
      /\ UNCHANGED <<task, asked, sent, scanned, owed, waiter, up>>
      /\ \/ step \in Review /\ DeliverReview(o, step)
         \/ DeliverTerminal(o)
  BY DEF Acknowledge
<1>2. step \in Step /\ sent[step] > 0
  BY <1>1, Types DEF IInv, Sound, Watch
<1>3. Grown /\ \A s \in marked' : sent[s] > 0
  BY <1>1, <1>2 DEF Grown, IInv, Taken
<1> QED BY <1>1, <1>3, DeliverReviewTurns, DeliverTerminalTurns, Alone

LEMMA EffectFailsKeeps ==
  ASSUME ConstantsAssumption, IInv, NEW o \in Owner, EffectFails(o)
  PROVE  Turned(o) /\ IInv'
<1>1. /\ watch[o].at \in {"send", "accepted"}
      /\ UNCHANGED <<task, asked, marked, sent, scanned, owed, waiter, up>>
  BY DEF EffectFails
<1>2. CASE Fail(o, FALSE)
  BY <1>1, <1>2, FailTurns, NothingMarked, Alone
<1>3. CASE /\ watch[o].tries < MaxAttempts /\ intent' = MarkRetry(intent)
           /\ watch' = [watch EXCEPT ![o].at = "ask", ![o].tries = @ + 1]
           /\ UNCHANGED restart
  <2> DEFINE old == watch[o]
             more == old.tries + 1
             v == [old EXCEPT !.at = "ask", !.tries = more]
  <2>1. watch' = [watch EXCEPT ![o] = v]
    BY <1>3, Types
  <2>2. old \in Watch /\ more \in 0..MaxAttempts
    BY <1>3, Types DEF Watch, ConstantsAssumption
  <2> HIDE DEF old, more
  <2>3. v \in Watch /\ v.at = "ask" /\ v.said = old.said
    BY <2>2 DEF Watch
  <2>4. v.said = watch[o].said
    BY <2>3 DEF old
  <2> HIDE DEF v
  <2> QED BY <1>1, <1>3, <2>1, <2>3, <2>4, AgainSound, BusyTurns
<1> QED BY <1>2, <1>3 DEF EffectFails

LEMMA LoseLeaseKeeps ==
  ASSUME ConstantsAssumption, IInv, NEW o \in Owner, LoseLease(o)
  PROVE  IInv'
BY LostTurns, NothingMarked, Alone DEF LoseLease

\* What other actors do: the reconciler's reader, users, the run, and time.
LEMMA OthersKeep ==
  ASSUME ConstantsAssumption, IInv,
         \/ DueComes \/ Lapse \/ Progress
         \/ \E o \in Owner : Scan(o) \/ UserActs(o)
  PROVE  IInv'
<1>1. watch' = watch /\ marked' = marked /\ sent' = sent /\ waiter' = waiter /\ up' = up
  BY DEF DueComes, Lapse, Progress, Scan, UserActs, memory
<1>2. RowSound(intent', watch', marked')
  <2>1. CASE DueComes
    BY <1>1, <2>1 DEF DueComes, IInv, RowSound, Intent
  <2>2. CASE Lapse
    <3>1. ~LeasesHold \/ intent.holder = Dead
      BY <2>2 DEF Lapse, May, LeasesHold
    <3>2. ~LeasesHold
      BY <3>1 DEF IInv, RowSound
    <3> QED BY <1>1, <2>2, <3>2 DEF Lapse, IInv, RowSound, Intent
  <2>3. CASE Progress \/ \E o \in Owner : Scan(o) \/ UserActs(o)
    BY <1>1, <2>3 DEF Progress, Scan, UserActs, IInv
  <2> QED BY <2>1, <2>2, <2>3
<1>3. Processes'
  <2>1. task' \in View /\ asked' \subseteq Review
    BY DEF DueComes, Lapse, Progress, Scan, UserActs, IInv, Processes, View
  <2>2. restart' \subseteq up /\ scanned' \subseteq up /\ owed' \subseteq up
    BY DEF DueComes, Lapse, Progress, Scan, UserActs, memory, IInv, Processes
  <2> QED BY <1>1, <2>1, <2>2 DEF IInv, Processes
<1>4. Taken' /\ ContinueAfterResult'
  BY <1>1 DEF IInv, Taken, InOrder, ContinueAfterResult
<1> QED BY <1>1, <1>2, <1>3, <1>4 DEF IInv

LEMMA StopKeeps ==
  ASSUME ConstantsAssumption, IInv, NEW o \in Owner, Crash(o) \/ Close(o)
  PROVE  IInv'
<1>1. /\ o \in up
      /\ up' = up \ {o} /\ restart' = restart \ {o} /\ scanned' = scanned \ {o}
      /\ owed' = owed \ {o} /\ waiter' = [waiter EXCEPT ![o] = "none"]
      /\ watch' = [watch EXCEPT ![o] = Off] /\ UNCHANGED <<task, asked, marked, sent>>
  BY DEF Crash, Close, Forget
<1>2. \A x \in Owner : watch'[x] = IF x = o THEN Off ELSE watch[x]
  BY <1>1, Types
<1>3. /\ intent' \in Intent /\ intent'.holder # o
      /\ intent'.holder = intent.holder \/ intent'.holder \in {Nobody, Dead}
      /\ intent'.holder = Nobody => ~intent'.live
      /\ intent'.state = intent.state /\ intent'.due = intent.due
  <2>1. CASE Crash(o)
    BY <2>1, Types DEF Crash, Intent, IInv, RowSound, ConstantsAssumption
  <2>2. CASE Close(o)
    BY <2>2, Types, RowFields DEF Close, Released, IInv, RowSound, ConstantsAssumption, State
  <2> QED BY <2>1, <2>2
<1>4. RowSound(intent', watch', marked')
  <2>1. ~LeasesHold
    BY DEF Crash, Close, May, LeasesHold
  <2> QED BY <1>1, <1>2, <1>3, <2>1, Types DEF IInv, RowSound
<1>5. \A x \in Owner : Sound(watch'[x], marked', sent')
  BY <1>1, <1>2, OffWatch DEF IInv, Sound
<1>6. Processes'
  <2>1. waiter' \in [Owner -> {"none", "wait", "done", "failed"}]
    BY <1>1 DEF IInv, Processes
  <2>2. \A x \in Owner \ up' : watch'[x].at = "off" /\ waiter'[x] = "none"
    BY <1>1, <1>2, OffWatch DEF IInv, Processes
  <2> QED BY <1>1, <2>1, <2>2 DEF IInv, Processes
<1>7. Taken' /\ ContinueAfterResult' /\ watch' \in [Owner -> Watch]
  BY <1>1, Types, OffWatch DEF IInv, Taken, InOrder, ContinueAfterResult, Processes
<1> QED BY <1>4, <1>5, <1>6, <1>7 DEF IInv

LEMMA InitHolds ==
  ASSUME ConstantsAssumption, Init
  PROVE  IInv
<1>1. watch \in [Owner -> Watch] /\ \A o \in Owner : watch[o] = Off
  BY OffWatch DEF Init
<1>2. \A o \in Owner : Sound(watch[o], marked, sent)
  BY <1>1, OffWatch DEF Sound
<1>3. RowSound(intent, watch, marked)
  BY DEF Init, RowSound, Intent, State, ConstantsAssumption
<1>4. Taken
  <2>1. sent \in [Step -> 0..MaxSends] /\ \A s \in Step : sent[s] = 0
    BY DEF Init, ConstantsAssumption
  <2>2. InOrder
    BY <2>1, Places DEF InOrder
  <2> QED BY <2>1, <2>2 DEF Init, Taken
<1>5. Processes /\ ContinueAfterResult
  BY <1>1, OffWatch DEF Init, Processes, ContinueAfterResult, View
<1> QED BY <1>1, <1>2, <1>3, <1>4, <1>5 DEF IInv

LEMMA NextKeeps ==
  ASSUME ConstantsAssumption, IInv, [Next]_vars
  PROVE  IInv'
<1>1. ASSUME NEW o \in Owner,
             \/ Recover(o) \/ Ask(o) \/ AskTerminal(o)
             \/ Answer(o) \/ Observe(o) \/ Accept(o) \/ Acknowledge(o) \/ EffectFails(o)
             \/ LoseLease(o) \/ ErrorHookEnds(o)
             \/ \E retryable \in BOOLEAN : QueryFails(o, retryable)
             \/ Redrive(o)
             \/ WaiterReturns(o) \/ WaiterRaises(o) \/ WaiterRestarts(o)
             \/ Crash(o) \/ Close(o)
      PROVE  IInv'
  BY <1>1, RecoverKeeps, AskKeeps, AskTerminalKeeps, AnswerKeeps, ObserveKeeps, AcceptKeeps,
     AcknowledgeKeeps, EffectFailsKeeps, LoseLeaseKeeps, ErrorHookEndsKeeps, QueryFailsKeeps,
     RedriveKeeps, WaiterKeeps, WaiterRestartsKeeps, StopKeeps
<1>2. CASE DueComes \/ Lapse \/ Progress \/ \E o \in Owner : Scan(o) \/ UserActs(o)
  BY <1>2, OthersKeep
<1>3. CASE UNCHANGED vars
  <2>1. Taken' /\ Processes' /\ ContinueAfterResult'
    BY <1>3 DEF vars, IInv, Taken, InOrder, Processes, ContinueAfterResult
  <2> QED BY <1>3, <2>1 DEF vars, IInv
<1> QED BY <1>1, <1>2, <1>3 DEF Next

\* The invariant of a delivery, under every fault.
THEOREM Invariance ==
  ASSUME ConstantsAssumption
  PROVE  Spec => []IInv
<1>1. Init => IInv
  BY InitHolds
<1>2. IInv /\ [Next]_vars => IInv'
  BY NextKeeps
<1> QED BY <1>1, <1>2, PTL DEF Spec

\* Under every fault the terminal steps come in order, none is missing once the run
\* counts as told, and no turn continues its Task before the result of the run.
THEOREM StepsComeInOrder ==
  ASSUME ConstantsAssumption
  PROVE  Spec => []DeliveredInOrder
<1>1. IInv => DeliveredInOrder
  <2> SUFFICES ASSUME IInv PROVE DeliveredInOrder
    OBVIOUS
  <2>1. TypeOK
    BY DEF IInv, Taken, Processes, RowSound, TypeOK
  <2>2. GraceIsComplete
    BY Places DEF IInv, Taken, RowSound, GraceIsComplete
  <2> QED BY <2>1, <2>2 DEF IInv, Taken, DeliveredInOrder
<1> QED BY Invariance, <1>1, PTL

----------------------------------------------------------------------------
(* Every step once, while leases hold                                       *)

Sending(o) == watch[o].at \in {"send", "accepted"}

\* Who is at a send holds the row, which says so; what it is about to send was not
\* taken before; and what was taken is marked, or is what the holder knows is taken.
Fenced ==
  /\ \A o \in Owner : Sending(o) => Owned(o) /\ intent.state = "delivering"
  /\ \A o \in Owner : watch[o].at = "send" => sent[watch[o].step] = 0
  /\ \A s \in Step :
       /\ sent[s] <= 1
       /\ sent[s] > 0 => s \in marked \/ \E o \in Owner : watch[o].at = "accepted" /\ watch[o].step = s

\* The holder of the lease goes on: nobody else is at a send.
LEMMA HolderKeepsFence ==
  ASSUME ConstantsAssumption, IInv, Fenced, NEW o \in Owner, Owned(o), Turned(o), Grown,
         watch[o].at = "accepted" => watch[o].step \in marked'
  PROVE  Fenced'
<1>1. PICK v \in Watch :
        /\ watch' = [watch EXCEPT ![o] = v] /\ v.at # "accepted"
        /\ v.at = "send" => v.step \notin marked' /\ intent' = Mark(intent, "delivering")
  BY DEF Turned
<1>2. \A x \in Owner : watch'[x] = IF x = o THEN v ELSE watch[x]
  BY <1>1, Types
<1>3. \A x \in Owner : x # o => ~Sending(x)
  BY DEF Fenced, Owned
<1>4. \A s \in Step : sent[s] > 0 => s \in marked'
  BY <1>3 DEF Fenced, Sending, Grown
<1>5. \A s \in Step : sent'[s] = sent[s] /\ sent[s] \in Nat /\ sent[s] <= 1
  BY Types DEF Fenced, Grown
<1>6. ASSUME v.at = "send"
      PROVE  Owned(o)' /\ intent'.state = "delivering" /\ sent'[v.step] = 0
  <2>1. intent \in Intent /\ "delivering" \in State /\ v.step \in Step
    BY Types DEF State, Watch
  <2>2. intent' = Mark(intent, "delivering") /\ v.step \notin marked'
    BY <1>1, <1>6
  <2>3. intent'.holder = intent.holder /\ intent'.live = intent.live /\ intent'.state = "delivering"
    BY <2>1, <2>2, RowFields
  <2>4. sent'[v.step] = 0
    BY <1>4, <1>5, <2>1, <2>2
  <2>5. Owned(o)'
    BY <2>3 DEF Owned
  <2> QED BY <2>3, <2>4, <2>5
<1>7. ASSUME NEW x \in Owner, Sending(x)' PROVE x = o /\ v.at = "send"
  BY <1>1, <1>2, <1>3, <1>7 DEF Sending
<1> QED BY <1>2, <1>4, <1>5, <1>6, <1>7 DEF Fenced, Sending

\* Another process, or one that is not at a send, leaves the row to the holder.
LEMMA OthersKeepFence ==
  ASSUME ConstantsAssumption, IInv, Fenced, NEW o \in Owner, ~Sending(o),
         NEW v, watch' = [watch EXCEPT ![o] = v], v.at \notin {"send", "accepted"},
         UNCHANGED <<marked, sent>>,
         \A p \in Owner : p # o /\ Sending(p) => intent' = intent
  PROVE  Fenced'
<1>1. \A x \in Owner : watch'[x] = IF x = o THEN v ELSE watch[x]
  BY Types
<1>2. ASSUME NEW x \in Owner, Sending(x)'
      PROVE  x # o /\ Sending(x) /\ watch'[x] = watch[x] /\ intent' = intent
  BY <1>1, <1>2 DEF Sending
<1>3. \A x \in Owner : Sending(x)' => Owned(x)' /\ intent'.state = "delivering"
  BY <1>2 DEF Fenced, Owned
<1>4. \A x \in Owner : watch'[x].at = "send" => sent'[watch'[x].step] = 0
  BY <1>2 DEF Fenced, Sending
<1>5. ASSUME NEW s \in Step
      PROVE  /\ sent'[s] <= 1
             /\ sent'[s] > 0 =>
                  s \in marked' \/ \E x \in Owner : watch'[x].at = "accepted" /\ watch'[x].step = s
  <2>1. ASSUME NEW x \in Owner, watch[x].at = "accepted" PROVE watch'[x] = watch[x]
    BY <1>1, <2>1 DEF Sending
  <2> QED BY <2>1 DEF Fenced
<1> QED BY <1>3, <1>4, <1>5 DEF Fenced

\* The row changes only while nobody is at a send.
LEMMA RowKeepsFence ==
  ASSUME Fenced, UNCHANGED <<watch, marked, sent>>,
         \A p \in Owner : Sending(p) => intent' = intent
  PROVE  Fenced'
BY DEF Fenced, Sending, Owned

\* A live lease is not taken from its holder, nor given back by another.
LEMMA StartRespects ==
  ASSUME ConstantsAssumption, IInv, NEW o \in Owner, NEW row, Start(o, row)
  PROVE  /\ \E v : watch' = [watch EXCEPT ![o] = v] /\ v.at \in {"off", "ask"}
         /\ row.live /\ row.holder # o => intent' = row
BY OffWatch DEF Start, Claimable

LEMMA ReturnRespects ==
  ASSUME ConstantsAssumption, IInv, NEW o \in Owner, Return(o, intent)
  PROVE  /\ \E v : watch' = [watch EXCEPT ![o] = v] /\ v.at \in {"off", "ask"}
         /\ intent.live /\ intent.holder # o => intent' = intent
<1>1. intent.holder # o => Released(o, intent) = intent
  BY DEF Released
<1>2. CASE o \in restart
  <2>1. Start(o, Released(o, intent))
    BY <1>2 DEF Return
  <2> HIDE DEF Released
  <2>2. Released(o, intent).live /\ Released(o, intent).holder # o => intent' = Released(o, intent)
    BY <2>1, StartRespects
  <2>3. \E v : watch' = [watch EXCEPT ![o] = v] /\ v.at \in {"off", "ask"}
    BY <2>1, StartRespects
  <2> QED BY <1>1, <2>2, <2>3
<1>3. CASE o \notin restart
  BY <1>1, <1>3, OffWatch DEF Return
<1> QED BY <1>2, <1>3

\* What the fence says of another process that is at a send.
LEMMA FenceFacts ==
  ASSUME ConstantsAssumption, IInv, Fenced, NEW p \in Owner, Sending(p)
  PROVE  /\ intent.live /\ intent.holder = p /\ intent.state = "delivering"
         /\ intent.due = "never" /\ Inserted = intent
BY DEF Fenced, Owned, IInv, RowSound, Inserted

\* A process that starts a watch, with the row as it is or as inserted.
LEMMA StartKeepsFence ==
  ASSUME ConstantsAssumption, IInv, Fenced, NEW o \in Owner, ~Sending(o), NEW row,
         row \in {intent, Inserted}, Start(o, row), UNCHANGED <<marked, sent>>
  PROVE  Fenced'
<1>1. PICK v : watch' = [watch EXCEPT ![o] = v] /\ v.at \in {"off", "ask"}
  BY StartRespects
<1>2. ASSUME NEW p \in Owner, p # o, Sending(p) PROVE intent' = intent
  <2>1. row = intent /\ intent.live /\ intent.holder # o
    BY <1>2, FenceFacts
  <2> QED BY <2>1, StartRespects
<1> QED BY <1>1, <1>2, OthersKeepFence

LEMMA LostKeepsFence ==
  ASSUME ConstantsAssumption, IInv, Fenced, NEW o \in Owner, ~Sending(o), Lost(o),
         UNCHANGED <<marked, sent>>
  PROVE  Fenced'
<1>1. watch' = [watch EXCEPT ![o] = Off] /\ intent' = Released(o, intent)
  BY DEF Lost
<1>2. ASSUME NEW p \in Owner, p # o, Sending(p) PROVE intent' = intent
  BY <1>1, <1>2, FenceFacts DEF Released
<1>3. Off.at \notin {"send", "accepted"}
  BY OffWatch
<1> QED BY <1>1, <1>2, <1>3, OthersKeepFence

\* The platform takes what the holder sends; it was not taken before.
LEMMA AcceptKeepsFence ==
  ASSUME ConstantsAssumption, IInv, Fenced, NEW o \in Owner, Accept(o)
  PROVE  Fenced'
<1> DEFINE old == watch[o]
           v == [old EXCEPT !.at = "accepted"]
           step == watch[o].step
<1>1. /\ watch[o].at = "send" /\ sent' = [sent EXCEPT ![step] = @ + 1]
      /\ watch' = [watch EXCEPT ![o] = v] /\ UNCHANGED <<intent, marked>>
  BY Types DEF Accept
<1>2. step \in Step /\ old \in Watch
  BY Types DEF Watch
<1>3. v.at = "accepted" /\ v.step = step
  <2>1. old.step = step
    OBVIOUS
  <2> HIDE DEF old
  <2> QED BY <1>2, <2>1 DEF Watch
<1> HIDE DEF v
<1>4. \A x \in Owner : watch'[x] = IF x = o THEN v ELSE watch[x]
  BY <1>1, Types
<1>5. Owned(o) /\ intent.state = "delivering" /\ sent[step] = 0
  BY <1>1 DEF Fenced, Sending
<1>6. \A x \in Owner : x # o => ~Sending(x)
  BY <1>5 DEF Fenced, Owned
<1>7. sent'[step] = 1 /\ \A s \in Step : s # step => sent'[s] = sent[s]
  BY <1>1, <1>2, <1>5, Types
<1>8. \A x \in Owner : Sending(x)' => x = o
  BY <1>4, <1>6 DEF Sending
<1>9. \A s \in Step : sent[s] > 0 => s \in marked
  BY <1>1, <1>6 DEF Fenced, Sending
<1>10. ASSUME NEW s \in Step
       PROVE  /\ sent'[s] <= 1
              /\ sent'[s] > 0 =>
                   s \in marked' \/ \E x \in Owner : watch'[x].at = "accepted" /\ watch'[x].step = s
  <2>1. CASE s = step
    BY <1>3, <1>4, <1>7, <2>1
  <2>2. CASE s # step
    BY <1>1, <1>7, <1>9, <2>2 DEF Fenced
  <2> QED BY <2>1, <2>2
<1>11. \A x \in Owner : Sending(x)' => Owned(x)' /\ intent'.state = "delivering"
  BY <1>1, <1>5, <1>8 DEF Owned
<1>12. \A x \in Owner : watch'[x].at # "send"
  BY <1>3, <1>4, <1>6 DEF Sending
<1> QED BY <1>10, <1>11, <1>12 DEF Fenced

LEMMA WatchKeepsFence ==
  ASSUME ConstantsAssumption, LeasesHold, IInv, Fenced, NEW o \in Owner,
         \/ Answer(o) \/ Observe(o) \/ Acknowledge(o) \/ EffectFails(o) \/ LoseLease(o)
         \/ ErrorHookEnds(o) \/ \E retryable \in BOOLEAN : QueryFails(o, retryable)
  PROVE  Fenced'
<1>1. CASE Answer(o)
  <2>1. watch' = [watch EXCEPT ![o] = watch'[o]] /\ watch'[o].at = "seen"
    BY <1>1, Types DEF Answer, Watch
  <2>2. ~Sending(o) /\ UNCHANGED <<intent, marked, sent>>
    BY <1>1 DEF Answer, Sending
  <2> QED BY <2>1, <2>2, OthersKeepFence
<1>2. CASE Observe(o)
  <2>1. Owned(o) /\ watch[o].at = "seen" /\ UNCHANGED <<marked, sent>>
    BY <1>2 DEF Observe
  <2> QED BY <1>2, <2>1, ObserveKeeps, NothingMarked, HolderKeepsFence
<1>3. CASE Acknowledge(o)
  <2>1. /\ Owned(o) /\ marked' = marked \cup {watch[o].step} /\ UNCHANGED sent
        /\ watch[o].step \in Step
    BY <1>3, Types DEF Acknowledge, Watch
  <2>2. Grown
    BY <2>1, Types DEF Grown
  <2> QED BY <1>3, <2>1, <2>2, AcknowledgeKeeps, HolderKeepsFence
<1>4. CASE EffectFails(o)
  <2>1. Owned(o) /\ watch[o].at = "send" /\ UNCHANGED <<marked, sent>>
    BY <1>4 DEF EffectFails, May, LeasesHold
  <2> QED BY <1>4, <2>1, EffectFailsKeeps, NothingMarked, HolderKeepsFence
<1>5. CASE LoseLease(o)
  <2>1. ~Sending(o) /\ Lost(o) /\ UNCHANGED <<marked, sent>>
    BY <1>5 DEF LoseLease, Fenced
  <2> QED BY <2>1, LostKeepsFence
<1>6. CASE ErrorHookEnds(o)
  <2>1. ~Sending(o) /\ Return(o, intent) /\ UNCHANGED <<marked, sent>>
    BY <1>6 DEF ErrorHookEnds, Sending
  <2>2. PICK v : watch' = [watch EXCEPT ![o] = v] /\ v.at \in {"off", "ask"}
    BY <2>1, ReturnRespects
  <2>3. ASSUME NEW p \in Owner, p # o, Sending(p) PROVE intent' = intent
    BY <2>1, <2>3, FenceFacts, ReturnRespects
  <2> QED BY <2>1, <2>2, <2>3, OthersKeepFence
<1>7. ASSUME NEW retryable \in BOOLEAN, QueryFails(o, retryable) PROVE Fenced'
  <2>1. watch[o].at = "ask" /\ UNCHANGED <<marked, sent>>
    BY <1>7 DEF QueryFails
  <2>2. CASE Owned(o)
    BY <1>7, <2>1, <2>2, QueryFailsKeeps, NothingMarked, HolderKeepsFence
  <2>3. CASE ~Owned(o)
    <3>1. Lost(o) /\ ~Sending(o)
      BY <1>7, <2>1, <2>3 DEF QueryFails, Sending
    <3> QED BY <2>1, <3>1, LostKeepsFence
  <2> QED BY <2>2, <2>3
<1> QED BY <1>1, <1>2, <1>3, <1>4, <1>5, <1>6, <1>7

\* Requests, recovery, redrives and turns that wait start watches, and no more.
LEMMA RequestsKeepFence ==
  ASSUME ConstantsAssumption, LeasesHold, IInv, Fenced, NEW o \in Owner,
         \/ Ask(o) \/ Recover(o) \/ Redrive(o) \/ AskTerminal(o) \/ WaiterRestarts(o)
  PROVE  Fenced'
<1>1. UNCHANGED <<marked, sent>>
  BY DEF Ask, Recover, Redrive, AskTerminal, WaiterRestarts
<1>2. CASE Recover(o)
  <2>1. ~Sending(o)
    BY <1>2 DEF Recover, IInv, Processes, Sending
  <2>2. CASE Start(o, intent)
    BY <1>1, <2>1, <2>2, StartKeepsFence
  <2>3. CASE UNCHANGED <<intent, watch>>
    BY <1>1, <2>3, RowKeepsFence
  <2> QED BY <1>2, <2>2, <2>3 DEF Recover
<1>3. CASE Ask(o) \/ AskTerminal(o) \/ WaiterRestarts(o)
  <2>1. CASE ~Active(o) /\ \E row \in {intent, Inserted} : Start(o, row)
    <3>1. ~Sending(o)
      BY <2>1 DEF Active, Sending
    <3> QED BY <1>1, <2>1, <3>1, StartKeepsFence
  <2>2. CASE intent' = Inserted /\ UNCHANGED watch
    BY <1>1, <2>2, FenceFacts, RowKeepsFence
  <2> QED BY <1>3, <2>1, <2>2 DEF Ask, AskTerminal, WaiterRestarts
<1>4. CASE Redrive(o)
  <2>1. CASE ~Active(o) /\ Start(o, intent)
    <3>1. ~Sending(o)
      BY <2>1 DEF Active, Sending
    <3> QED BY <1>1, <2>1, <3>1, StartKeepsFence
  <2>2. CASE intent.state = "error" /\ UNCHANGED watch
    <3>1. \A p \in Owner : ~Sending(p)
      BY <2>2 DEF Fenced
    <3> QED BY <1>1, <2>2, <3>1, RowKeepsFence
  <2>3. CASE UNCHANGED <<intent, watch>>
    BY <1>1, <2>3, RowKeepsFence
  <2> QED BY <1>4, <2>1, <2>2, <2>3 DEF Redrive
<1> QED BY <1>2, <1>3, <1>4

LEMMA RestKeepsFence ==
  ASSUME ConstantsAssumption, LeasesHold, IInv, Fenced,
         \/ DueComes \/ Lapse \/ Progress \/ UNCHANGED vars
         \/ \E o \in Owner : \/ Scan(o) \/ UserActs(o) \/ WaiterReturns(o) \/ WaiterRaises(o)
                             \/ Crash(o) \/ Close(o)
  PROVE  Fenced'
<1>1. CASE Lapse
  <2>1. intent.holder = Dead
    BY <1>1 DEF Lapse, May, LeasesHold
  <2> QED BY <2>1 DEF IInv, RowSound
<1>2. CASE DueComes
  <2>1. \A p \in Owner : ~Sending(p)
    BY <1>2, FenceFacts DEF DueComes
  <2> QED BY <1>2, <2>1, RowKeepsFence DEF DueComes
<1>3. CASE \/ Progress \/ UNCHANGED vars
           \/ \E o \in Owner : Scan(o) \/ UserActs(o) \/ WaiterReturns(o) \/ WaiterRaises(o)
  <2>1. UNCHANGED <<intent, watch, marked, sent>>
    BY <1>3 DEF Progress, vars, Scan, UserActs, WaiterReturns, WaiterRaises
  <2> QED BY <2>1, RowKeepsFence
<1>4. ASSUME NEW o \in Owner PROVE ~Crash(o) /\ ~Close(o)
  BY DEF Crash, Close, May, LeasesHold
<1> QED BY <1>1, <1>2, <1>3, <1>4

\* While leases hold, processes stay up and a send that fails was not taken, every
\* step reaches the chat at most once, whatever is retried, redriven, asked again or
\* claimed by another process.
THEOREM StepsAreSentOnce ==
  ASSUME ConstantsAssumption, LeasesHold
  PROVE  Spec => []SentOnce
<1>1. Init => Fenced
  BY DEF Init, Fenced, Sending, Off
<1>2. IInv /\ Fenced /\ [Next]_vars => Fenced'
  <2> SUFFICES ASSUME IInv, Fenced, [Next]_vars PROVE Fenced'
    OBVIOUS
  <2>1. ASSUME NEW o \in Owner,
               \/ Answer(o) \/ Observe(o) \/ Acknowledge(o) \/ EffectFails(o) \/ LoseLease(o)
               \/ ErrorHookEnds(o) \/ \E retryable \in BOOLEAN : QueryFails(o, retryable)
        PROVE  Fenced'
    BY <2>1, WatchKeepsFence
  <2>2. ASSUME NEW o \in Owner,
               \/ Ask(o) \/ Recover(o) \/ Redrive(o) \/ AskTerminal(o) \/ WaiterRestarts(o)
        PROVE  Fenced'
    BY <2>2, RequestsKeepFence
  <2>3. ASSUME NEW o \in Owner, Accept(o) PROVE Fenced'
    BY <2>3, AcceptKeepsFence
  <2>4. CASE \/ DueComes \/ Lapse \/ Progress \/ UNCHANGED vars
             \/ \E o \in Owner : \/ Scan(o) \/ UserActs(o) \/ WaiterReturns(o)
                                 \/ WaiterRaises(o) \/ Crash(o) \/ Close(o)
    BY <2>4, RestKeepsFence
  <2> QED BY <2>1, <2>2, <2>3, <2>4 DEF Next
<1>3. Fenced => SentOnce
  BY DEF Fenced, SentOnce
<1> QED BY Invariance, <1>1, <1>2, <1>3, PTL DEF Spec
=============================================================================
