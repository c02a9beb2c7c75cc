------------------------- MODULE SettledOutboxProofs -------------------------
(***************************************************************************)
(* Proofs about SettledOutbox, for every number of Tasks, runs,            *)
(* dispatchers, parent runs and tokens, and whether or not the payloads of *)
(* remote Tasks arrive in order.                                           *)
(***************************************************************************)
EXTENDS SettledOutbox, TLAPS

(* The inductive invariant.  Three facts are added to the properties.       *)

\* A delivery that the TaskRecord or the Task row remembers is final in the
\* outbox: the run is announced or suppressed.  It is why a save that knows of
\* a delivery may skip the intent.
DeliveryIsFinal ==
  \A t \in Task : (t \in loaded /\ seen[t]) \/ task[t].delivered
                    => outbox[Current(t)].status \in {"delivered", "suppressed"}

\* Beginning an operation withdraws every notification of the run that the
\* parent has not acknowledged, and none is added while it is undecided.
UncertainIsAcknowledged ==
  \A t \in Task : task[t].operation # "none" /\ outbox[Current(t)].status # "absent"
                    => mail[Current(t)].status = "delivered"

\* Only proxies of remote Tasks have operations.
OnlyProxiesOperate == \A t \in Task : task[t].operation # "none" => t \in Remote

IInv == /\ TypeOK /\ QueuesAgree /\ SettlementHasIntent
        /\ DeliveryIsFinal /\ UncertainIsAcknowledged /\ OnlyProxiesOperate

-----------------------------------------------------------------------------
(* Rows and queues.                                                         *)

\* A row that is not absent may get any unclaimed status.
LEMMA UnclaimedRow ==
  ASSUME NEW Status, NEW row \in Row(Status), row.status # "absent",
         NEW s \in Status \ {"absent", "claimed"}
  PROVE  /\ Unclaimed(row, s) \in Row(Status)
         /\ Unclaimed(row, s).status = s
  BY DEF Row, RowFields, Unclaimed

\* A row that is not absent may be claimed.
LEMMA ClaimedRow ==
  ASSUME NEW Status, "claimed" \in Status, NEW row \in Row(Status), row.status # "absent",
         NEW tok \in Token
  PROVE  /\ ClaimedBy(row, tok) \in Row(Status)
         /\ ClaimedBy(row, tok).status = "claimed"
  BY ConstantsAssumption DEF Row, RowFields, ClaimedBy

\* The empty row and the rows that insert_locked and publish write.
LEMMA NewRow ==
  ASSUME NEW Status, {"absent", "pending"} \subseteq Status, NEW s \in Settled
  PROVE  /\ Absent \in Row(Status) /\ Absent.status = "absent"
         /\ Pending(s) \in Row(Status) /\ Pending(s).status = "pending"
  BY ConstantsAssumption DEF Row, RowFields, Absent, Pending, Settled

\* Releasing expired claims makes rows pending and touches no other row.
LEMMA ReleasedQueue ==
  ASSUME NEW Status, {"pending", "absent"} \subseteq Status, NEW queue \in [Key -> Row(Status)]
  PROVE  /\ Released(queue) \in [Key -> Row(Status)]
         /\ \A k \in Key : \/ Released(queue)[k] = queue[k]
                           \/ /\ queue[k].status = "claimed"
                              /\ Released(queue)[k].status = "pending"
<1>1. ASSUME NEW k \in Key
      PROVE  /\ Released(queue)[k] \in Row(Status)
             /\ \/ Released(queue)[k] = queue[k]
                \/ /\ queue[k].status = "claimed"
                   /\ Released(queue)[k].status = "pending"
  <2>1. CASE Lapsed(queue[k])
    BY <2>1, UnclaimedRow DEF Released, Lapsed
  <2>2. CASE ~Lapsed(queue[k])
    BY <2>2 DEF Released
  <2> QED BY <2>1, <2>2
<1> QED BY <1>1 DEF Released

\* Claiming a set of pending rows touches no other row.
LEMMA ClaimedQueue ==
  ASSUME NEW Status, "claimed" \in Status, NEW queue \in [Key -> Row(Status)],
         NEW tok \in Token, NEW K \in SUBSET Key, \A k \in K : queue[k].status = "pending"
  PROVE  /\ ClaimAll(queue, K, tok) \in [Key -> Row(Status)]
         /\ \A k \in Key : ClaimAll(queue, K, tok)[k].status
                           = IF k \in K THEN "claimed" ELSE queue[k].status
<1>1. ASSUME NEW k \in Key
      PROVE  /\ ClaimAll(queue, K, tok)[k] \in Row(Status)
             /\ ClaimAll(queue, K, tok)[k].status = IF k \in K THEN "claimed" ELSE queue[k].status
  <2>1. CASE k \in K
    BY <2>1, ClaimedRow DEF ClaimAll
  <2>2. CASE k \notin K
    BY <2>2 DEF ClaimAll
  <2> QED BY <2>1, <2>2
<1> QED BY <1>1 DEF ClaimAll

\* The lapse of a lease changes no status.
LEMMA LapsedQueue ==
  ASSUME NEW Status, NEW queue \in [Key -> Row(Status)], NEW tok
  PROVE  /\ Lapse(queue, tok) \in [Key -> Row(Status)]
         /\ \A k \in Key : Lapse(queue, tok)[k].status = queue[k].status
<1>1. ASSUME NEW k \in Key
      PROVE  Lapse(queue, tok)[k] \in Row(Status) /\ Lapse(queue, tok)[k].status = queue[k].status
  BY DEF Lapse, Row, RowFields
<1> QED BY <1>1 DEF Lapse

-----------------------------------------------------------------------------
(* Transactions of the Task store.                                          *)

\* Saving a record replaces one Task row and its cached delivery.
LEMMA SaveRows ==
  ASSUME TypeOK, NEW t \in Task, NEW rec \in TaskRow, NEW known \in BOOLEAN, Save(t, rec, known)
  PROVE  /\ task' \in [Task -> TaskRow] /\ seen' \in [Task -> BOOLEAN]
         /\ task'[t] = [rec EXCEPT !.delivered = known] /\ seen'[t] = known
         /\ \A u \in Task \ {t} : task'[u] = task[u] /\ seen'[u] = seen[u]
  BY DEF TypeOK, Save, TaskRow

\* A settling save adds at most the pending intent of the saved run, and leaves
\* the run without one only when it is not to be announced.
LEMMA IntentRow ==
  ASSUME TypeOK, NEW t \in Task, NEW rec \in TaskRow, NEW known \in BOOLEAN,
         outbox' = WithIntent(t, rec, known)
  PROVE  /\ outbox' \in [Key -> Row(OutboxStatus)]
         /\ \A k \in Key : \/ outbox'[k] = outbox[k]
                           \/ /\ outbox[k].status = "absent"
                              /\ outbox'[k].status = "pending"
                              /\ k = <<t, rec.run>>
         /\ Notifies(rec, known) => outbox'[<<t, rec.run>>].status # "absent"
<1> DEFINE k == <<t, rec.run>>
<1>1. k \in Key
  BY DEF Key, TaskRow
<1>2. CASE Notifies(rec, known) /\ outbox[k].status = "absent"
  <2>1. rec.state \in Settled
    BY <1>2 DEF Notifies
  <2>2. /\ Pending(rec.state) \in Row(OutboxStatus)
        /\ Pending(rec.state).status = "pending"
    BY <2>1, NewRow DEF OutboxStatus
  <2>3. outbox' = [outbox EXCEPT ![k] = Pending(rec.state)]
    BY <1>2 DEF WithIntent
  <2> QED BY <1>1, <1>2, <2>2, <2>3 DEF TypeOK
<1>3. CASE ~(Notifies(rec, known) /\ outbox[k].status = "absent")
  BY <1>3 DEF WithIntent, TypeOK
<1> QED BY <1>2, <1>3

\* A save that settles, starts or pauses a run preserves the invariant when it
\* remembers a delivery only if the outbox does.
LEMMA SaveStep ==
  ASSUME IInv, NEW t \in Task, NEW rec \in TaskRow, rec.operation = "none",
         NEW known \in BOOLEAN,
         known => outbox[<<t, rec.run>>].status \in {"delivered", "suppressed"},
         Save(t, rec, known), outbox' = WithIntent(t, rec, known), UNCHANGED mail,
         loaded' \in {loaded, loaded \cup {t}}, UNCHANGED <<Processes, taken>>
  PROVE  IInv'
<1> USE DEF IInv
<1>1. /\ task' \in [Task -> TaskRow] /\ seen' \in [Task -> BOOLEAN]
      /\ task'[t] = [rec EXCEPT !.delivered = known] /\ seen'[t] = known
      /\ \A u \in Task \ {t} : task'[u] = task[u] /\ seen'[u] = seen[u]
  BY SaveRows
<1>2. /\ task'[t].state = rec.state /\ task'[t].run = rec.run
      /\ task'[t].suppressed = rec.suppressed /\ task'[t].operation = "none"
      /\ task'[t].delivered = known
  BY <1>1 DEF TaskRow
<1>3. /\ outbox' \in [Key -> Row(OutboxStatus)]
      /\ \A k \in Key : \/ outbox'[k] = outbox[k]
                        \/ /\ outbox[k].status = "absent"
                           /\ outbox'[k].status = "pending"
                           /\ k = <<t, rec.run>>
      /\ Notifies(rec, known) => outbox'[<<t, rec.run>>].status # "absent"
  BY IntentRow
<1>4. UNCHANGED mail
  OBVIOUS
<1>5. TypeOK'
  BY <1>1, <1>3, <1>4 DEF TypeOK, Processes
<1>6. QueuesAgree'
  BY <1>3, <1>4 DEF QueuesAgree
<1>7. \A u \in Task : Current(u) \in Key /\ Current(u)' \in Key /\ Current(u)[1] = u
  BY <1>1 DEF TypeOK, TaskRow, Current, Key
<1>8. Current(t)' = <<t, rec.run>> /\ \A u \in Task \ {t} : Current(u)' = Current(u)
  BY <1>1, <1>2 DEF Current
<1>9. SettlementHasIntent'
  <2>1. ASSUME task'[t].state \in Settled, ~task'[t].suppressed
        PROVE  outbox'[Current(t)'].status # "absent"
    <3>1. CASE known
      BY <3>1, <1>3, <1>7, <1>8
    <3>2. CASE ~known
      BY <3>2, <2>1, <1>2, <1>3, <1>8 DEF Notifies
    <3> QED BY <3>1, <3>2
  <2>2. ASSUME NEW u \in Task \ {t}, task'[u].state \in Settled, task'[u].operation = "none",
               ~task'[u].suppressed
        PROVE  outbox'[Current(u)'].status # "absent"
    BY <2>2, <1>1, <1>3, <1>7, <1>8 DEF SettlementHasIntent
  <2>3. Settled' = Settled
    BY DEF Settled
  <2> QED BY <2>1, <2>2, <2>3 DEF SettlementHasIntent
<1>10. DeliveryIsFinal'
  <2>1. ASSUME known
        PROVE  outbox'[Current(t)'].status \in {"delivered", "suppressed"}
    BY <2>1, <1>3, <1>7, <1>8
  <2>2. ASSUME NEW u \in Task \ {t}, (u \in loaded' /\ seen'[u]) \/ task'[u].delivered
        PROVE  outbox'[Current(u)'].status \in {"delivered", "suppressed"}
    BY <2>2, <1>1, <1>3, <1>7, <1>8 DEF DeliveryIsFinal
  <2> QED BY <2>1, <2>2, <1>1, <1>2 DEF DeliveryIsFinal
<1>11. UncertainIsAcknowledged'
  <2>1. ASSUME NEW u \in Task \ {t}, task'[u].operation # "none",
               outbox'[Current(u)'].status # "absent"
        PROVE  mail'[Current(u)'].status = "delivered"
    <3>1. outbox'[Current(u)] = outbox[Current(u)]
      BY <1>3, <1>7
    <3> QED BY <2>1, <3>1, <1>1, <1>4, <1>8 DEF UncertainIsAcknowledged
  <2> QED BY <2>1, <1>2 DEF UncertainIsAcknowledged
<1>12. OnlyProxiesOperate'
  BY <1>1, <1>2 DEF OnlyProxiesOperate
<1> QED BY <1>5, <1>6, <1>9, <1>10, <1>11, <1>12

\* TaskManager._save_lifecycle preserves the invariant: a save of the stored run
\* that keeps an uncertain delivery acknowledged, with its intent.
LEMMA SaveLifecycleStep ==
  ASSUME IInv, NEW t \in Task, NEW rec \in TaskRow, rec.operation = "none",
         NEW known \in BOOLEAN,
         known => outbox[<<t, rec.run>>].status \in {"delivered", "suppressed"},
         SaveLifecycle(t, rec, known),
         loaded' \in {loaded, loaded \cup {t}}, UNCHANGED <<Processes, taken>>
  PROVE  IInv'
  BY SaveStep DEF SaveLifecycle

\* Withdrawing notifications: what the parent acknowledged stays delivered in
\* both queues, and everything else is gone from both.
LEMMA DiscardedQueues ==
  ASSUME TypeOK, NEW K \in SUBSET Key, \A k \in K : outbox[k].status # "absent"
  PROVE  /\ DiscardOutbox(K) \in [Key -> Row(OutboxStatus)]
         /\ DiscardMail(K) \in [Key -> Row(MailStatus)]
         /\ \A k \in Key \ K : DiscardOutbox(K)[k] = outbox[k] /\ DiscardMail(K)[k] = mail[k]
         /\ \A k \in K : /\ DiscardMail(K)[k].status = DiscardOutbox(K)[k].status
                         /\ DiscardOutbox(K)[k].status = IF Acknowledged(k) THEN "delivered"
                                                          ELSE "absent"
<1>1. Absent \in Row(OutboxStatus) /\ Absent \in Row(MailStatus) /\ Absent.status = "absent"
  BY NewRow DEF OutboxStatus, MailStatus, Settled
<1>2. ASSUME NEW k \in K
      PROVE  /\ DiscardOutbox(K)[k] \in Row(OutboxStatus) /\ DiscardMail(K)[k] \in Row(MailStatus)
             /\ DiscardMail(K)[k].status = DiscardOutbox(K)[k].status
             /\ DiscardOutbox(K)[k].status = IF Acknowledged(k) THEN "delivered" ELSE "absent"
  <2>1. /\ Unclaimed(outbox[k], "delivered") \in Row(OutboxStatus)
        /\ Unclaimed(outbox[k], "delivered").status = "delivered"
    BY <1>2, UnclaimedRow DEF TypeOK, OutboxStatus
  <2> QED BY <1>1, <2>1 DEF DiscardOutbox, DiscardMail, TypeOK, Acknowledged
<1>3. ASSUME NEW k \in Key \ K
      PROVE  DiscardOutbox(K)[k] = outbox[k] /\ DiscardMail(K)[k] = mail[k]
  BY DEF DiscardOutbox, DiscardMail
<1>4. \A k \in Key : DiscardOutbox(K)[k] \in Row(OutboxStatus) /\ DiscardMail(K)[k] \in Row(MailStatus)
  BY <1>2, <1>3 DEF TypeOK
<1> QED BY <1>2, <1>3, <1>4 DEF DiscardOutbox, DiscardMail

\* A save of an undecided remote operation preserves the invariant.
LEMMA SaveUncertainStep ==
  ASSUME IInv, NEW t \in Remote, NEW rec \in TaskRow, rec.operation # "none",
         rec.run = task[t].run, NEW known \in BOOLEAN,
         known => outbox[Current(t)].status \in {"delivered", "suppressed"},
         SaveUncertain(t, rec, known),
         loaded' \in {loaded, loaded \cup {t}}, UNCHANGED <<Processes, taken>>
  PROVE  IInv'
<1> DEFINE k == <<t, rec.run>>
           discarded == Uncertain([task EXCEPT ![t] = rec]) \cap {k}
           final == IF discarded = {} THEN known ELSE Acknowledged(k)
<1> USE DEF IInv
<1>1. t \in Task /\ k \in Key /\ Current(t) = k
  BY ConstantsAssumption DEF TypeOK, TaskRow, Current, Key
<1>2. discarded = IF outbox[k].status # "absent" THEN {k} ELSE {}
  BY <1>1 DEF Uncertain, TypeOK
<1>3. final \in BOOLEAN
  BY DEF Acknowledged
<1>4. Save(t, rec, final) /\ outbox' = DiscardOutbox(discarded) /\ mail' = DiscardMail(discarded)
  BY DEF SaveUncertain
<1> HIDE DEF k, discarded, final
<1>5. /\ task' \in [Task -> TaskRow] /\ seen' \in [Task -> BOOLEAN]
      /\ task'[t] = [rec EXCEPT !.delivered = final] /\ seen'[t] = final
      /\ \A u \in Task \ {t} : task'[u] = task[u] /\ seen'[u] = seen[u]
  BY <1>1, <1>3, <1>4, SaveRows
<1>6. task'[t].run = rec.run /\ task'[t].operation # "none" /\ task'[t].delivered = final
  BY <1>5 DEF TaskRow
<1>7. discarded \in SUBSET Key /\ \A j \in discarded : outbox[j].status # "absent"
  BY <1>1, <1>2
<1>8. /\ outbox' \in [Key -> Row(OutboxStatus)] /\ mail' \in [Key -> Row(MailStatus)]
      /\ \A j \in Key \ discarded : outbox'[j] = outbox[j] /\ mail'[j] = mail[j]
      /\ \A j \in discarded : /\ mail'[j].status = outbox'[j].status
                              /\ outbox'[j].status = IF Acknowledged(j) THEN "delivered"
                                                      ELSE "absent"
  BY <1>4, <1>7, DiscardedQueues
<1>9. TypeOK'
  BY <1>5, <1>8, <1>1 DEF TypeOK, Processes
<1>10. QueuesAgree'
  BY <1>8 DEF QueuesAgree
<1>11. /\ Current(t)' = k
       /\ \A u \in Task \ {t} : Current(u)' = Current(u) /\ Current(u) \in Key \ discarded
  BY <1>1, <1>2, <1>5, <1>6 DEF Current, k, TypeOK, TaskRow, Key
<1>12. SettlementHasIntent'
  <2>1. ASSUME NEW u \in Task \ {t}, task'[u].state \in Settled, task'[u].operation = "none",
               ~task'[u].suppressed
        PROVE  outbox'[Current(u)'].status # "absent"
    BY <2>1, <1>5, <1>8, <1>11 DEF SettlementHasIntent
  <2> QED BY <2>1, <1>6, Settled' = Settled DEF SettlementHasIntent, Settled
<1>13. DeliveryIsFinal'
  <2>1. final => outbox'[k].status \in {"delivered", "suppressed"}
    BY <1>1, <1>2, <1>8 DEF final
  <2>2. ASSUME NEW u \in Task \ {t}, (u \in loaded' /\ seen'[u]) \/ task'[u].delivered
        PROVE  outbox'[Current(u)'].status \in {"delivered", "suppressed"}
    BY <2>2, <1>5, <1>8, <1>11 DEF DeliveryIsFinal
  <2> QED BY <2>1, <2>2, <1>5, <1>6, <1>11 DEF DeliveryIsFinal
<1>14. UncertainIsAcknowledged'
  <2>1. outbox'[k].status # "absent" => mail'[k].status = "delivered"
    BY <1>1, <1>2, <1>8
  <2>2. ASSUME NEW u \in Task \ {t}, task'[u].operation # "none",
               outbox'[Current(u)'].status # "absent"
        PROVE  mail'[Current(u)'].status = "delivered"
    BY <2>2, <1>5, <1>8, <1>11 DEF UncertainIsAcknowledged
  <2> QED BY <2>1, <2>2, <1>11 DEF UncertainIsAcknowledged
<1>15. OnlyProxiesOperate'
  BY <1>5 DEF OnlyProxiesOperate
<1> QED BY <1>9, <1>10, <1>12, <1>13, <1>14, <1>15

\* Taking a run over preserves the invariant.
LEMMA SuppressStep ==
  ASSUME IInv, NEW t \in loaded, Suppress(t), UNCHANGED <<loaded, hand, claims>>,
         waiter' \in [Task -> Waiter]
  PROVE  IInv'
<1> DEFINE k == Current(t)
           rec == [task[t] EXCEPT !.suppressed = TRUE]
<1> USE DEF IInv
<1>1. t \in Task /\ k \in Key /\ rec \in TaskRow /\ seen[t] \in BOOLEAN
  BY DEF TypeOK, TaskRow, Current, Key
<1>2. /\ Save(t, rec, seen[t]) /\ taken' = taken \cup {k}
      /\ outbox' = IF outbox[k].status \in {"pending", "claimed", "delivered"}
                   THEN [outbox EXCEPT ![k] = Unclaimed(@, "suppressed")] ELSE outbox
      /\ mail' = IF mail[k].status \in {"pending", "claimed"}
                 THEN [mail EXCEPT ![k] = Unclaimed(@, "retracted")] ELSE mail
  BY DEF Suppress
<1> HIDE DEF k, rec
<1>3. /\ task' \in [Task -> TaskRow] /\ seen' \in [Task -> BOOLEAN]
      /\ task'[t] = [rec EXCEPT !.delivered = seen[t]] /\ seen'[t] = seen[t]
      /\ \A u \in Task \ {t} : task'[u] = task[u] /\ seen'[u] = seen[u]
  BY <1>1, <1>2, SaveRows
<1>4. /\ task'[t].run = task[t].run /\ task'[t].operation = task[t].operation
      /\ task'[t].suppressed /\ task'[t].delivered = seen[t]
  BY <1>1, <1>3 DEF TypeOK, TaskRow, rec
<1>5. /\ outbox' \in [Key -> Row(OutboxStatus)]
      /\ \A j \in Key \ {k} : outbox'[j] = outbox[j]
      /\ outbox'[k].status = IF outbox[k].status = "absent" THEN "absent" ELSE "suppressed"
  <2>1. outbox[k].status # "absent"
          => /\ Unclaimed(outbox[k], "suppressed") \in Row(OutboxStatus)
             /\ Unclaimed(outbox[k], "suppressed").status = "suppressed"
    BY <1>1, UnclaimedRow DEF TypeOK, OutboxStatus
  <2>2. outbox[k] \in Row(OutboxStatus)
    BY <1>1 DEF TypeOK
  <2>3. outbox[k].status \in OutboxStatus
    BY <2>2 DEF Row, RowFields
  <2> QED BY <1>1, <1>2, <2>1, <2>3 DEF TypeOK, OutboxStatus
<1>6. /\ mail' \in [Key -> Row(MailStatus)]
      /\ \A j \in Key \ {k} : mail'[j] = mail[j]
      /\ mail'[k].status = IF mail[k].status \in {"pending", "claimed"} THEN "retracted"
                           ELSE mail[k].status
  <2>1. mail[k].status # "absent"
          => /\ Unclaimed(mail[k], "retracted") \in Row(MailStatus)
             /\ Unclaimed(mail[k], "retracted").status = "retracted"
    BY <1>1, UnclaimedRow DEF TypeOK, MailStatus
  <2> QED BY <1>1, <1>2, <2>1 DEF TypeOK
<1>7. mail[k].status \in MailStatus
  BY <1>1 DEF TypeOK, Row, RowFields
<1>8. TypeOK'
  BY <1>1, <1>2, <1>3, <1>5, <1>6 DEF TypeOK
<1>9. QueuesAgree'
  BY <1>1, <1>5, <1>6, <1>7 DEF QueuesAgree, MailStatus
<1>10. Current(t)' = k /\ \A u \in Task \ {t} : Current(u)' = Current(u) /\ Current(u) \in Key \ {k}
  BY <1>1, <1>3, <1>4 DEF Current, k, TypeOK, TaskRow, Key
<1>11. SettlementHasIntent'
  <2>1. ASSUME NEW u \in Task \ {t}, task'[u].state \in Settled, task'[u].operation = "none",
               ~task'[u].suppressed
        PROVE  outbox'[Current(u)'].status # "absent"
    BY <2>1, <1>3, <1>5, <1>10 DEF SettlementHasIntent
  <2> QED BY <2>1, <1>4, Settled' = Settled DEF SettlementHasIntent, Settled
<1>12. DeliveryIsFinal'
  <2>1. seen[t] => outbox'[k].status \in {"delivered", "suppressed"}
    BY <1>1, <1>5 DEF DeliveryIsFinal, k
  <2>2. ASSUME NEW u \in Task \ {t}, (u \in loaded' /\ seen'[u]) \/ task'[u].delivered
        PROVE  outbox'[Current(u)'].status \in {"delivered", "suppressed"}
    BY <2>2, <1>3, <1>5, <1>10 DEF DeliveryIsFinal
  <2> QED BY <2>1, <2>2, <1>3, <1>4, <1>10 DEF DeliveryIsFinal
<1>13. UncertainIsAcknowledged'
  <2>1. task[t].operation # "none" /\ outbox'[k].status # "absent" => mail'[k].status = "delivered"
    BY <1>1, <1>5, <1>6 DEF UncertainIsAcknowledged, k
  <2>2. ASSUME NEW u \in Task \ {t}, task'[u].operation # "none",
               outbox'[Current(u)'].status # "absent"
        PROVE  mail'[Current(u)'].status = "delivered"
    BY <2>2, <1>3, <1>5, <1>6, <1>10 DEF UncertainIsAcknowledged
  <2> QED BY <2>1, <2>2, <1>4, <1>10 DEF UncertainIsAcknowledged
<1>14. OnlyProxiesOperate'
  BY <1>3, <1>4 DEF OnlyProxiesOperate
<1> QED BY <1>8, <1>9, <1>11, <1>12, <1>13, <1>14

-----------------------------------------------------------------------------
(* The actions.                                                             *)

\* What the invariant says of one child in memory.
LEMMA OneChild ==
  ASSUME IInv, NEW t \in loaded
  PROVE  /\ t \in Task /\ task[t] \in TaskRow /\ seen[t] \in BOOLEAN
         /\ seen[t] => outbox[Current(t)].status \in {"delivered", "suppressed"}
         /\ t \in Local => task[t].operation = "none"
  BY DEF IInv, TypeOK, DeliveryIsFinal, OnlyProxiesOperate, Local

\* A new run of a local child, and a save that keeps the run, are typed.
LEMMA LocalRecord ==
  ASSUME IInv, NEW t \in loaded, NEW s \in TaskState
  PROVE  /\ [task[t] EXCEPT !.state = s] \in TaskRow
         /\ [task[t] EXCEPT !.state = s].run = task[t].run
         /\ [task[t] EXCEPT !.state = s].operation = task[t].operation
         /\ task[t].run < MaxRun => [NewRun(t) EXCEPT !.state = s] \in TaskRow
         /\ [NewRun(t) EXCEPT !.state = s].operation = task[t].operation
<1>1. task[t] \in TaskRow
  BY OneChild
<1>2. task[t].run < MaxRun => task[t].run + 1 \in Run
  BY <1>1, ConstantsAssumption DEF TaskRow, Run
<1>3. task[t].run < MaxRun => NewRun(t) \in TaskRow
  BY <1>1, <1>2 DEF TaskRow, NewRun
<1>4. NewRun(t).operation = task[t].operation
  BY <1>1 DEF TaskRow, NewRun
<1>5. [NewRun(t) EXCEPT !.state = s].operation = task[t].operation
  BY <1>1 DEF TaskRow, NewRun
<1> HIDE DEF NewRun
<1> QED BY <1>1, <1>3, <1>5 DEF TaskRow

\* Every lifecycle operation of a local run preserves the invariant.
LEMMA LocalStep == IInv /\ LocalRun => IInv'
<1> SUFFICES ASSUME IInv, NEW t \in Task,
                    StartRun(t) \/ PauseForReview(t) \/ SettleRun(t) \/ RejectRun(t)
             PROVE  IInv'
  BY DEF LocalRun
<1>1. /\ t \in loaded /\ t \in Local /\ UNCHANGED <<loaded, Processes, taken>>
  BY DEF StartRun, PauseForReview, SettleRun, RejectRun
<1>2. {"running", "waiting_for_human", "settled"} \subseteq TaskState
  BY DEF TaskState, Active, Settled
<1>3. CASE StartRun(t)
  <2> DEFINE rec == [NewRun(t) EXCEPT !.state = "running"]
  <2>1. rec \in TaskRow /\ rec.operation = "none"
    BY <1>1, <1>2, <1>3, OneChild, LocalRecord DEF StartRun
  <2>2. SaveLifecycle(t, rec, FALSE)
    BY <1>3 DEF StartRun
  <2> HIDE DEF rec
  <2> QED BY <1>1, <2>1, <2>2, SaveLifecycleStep
<1>4. CASE RejectRun(t)
  <2> DEFINE rec == [NewRun(t) EXCEPT !.state = "settled"]
  <2>1. rec \in TaskRow /\ rec.operation = "none"
    BY <1>1, <1>2, <1>4, OneChild, LocalRecord DEF RejectRun
  <2>2. SaveLifecycle(t, rec, FALSE)
    BY <1>4 DEF RejectRun
  <2> HIDE DEF rec
  <2> QED BY <1>1, <2>1, <2>2, SaveLifecycleStep
<1>5. CASE PauseForReview(t)
  <2> DEFINE rec == [task[t] EXCEPT !.state = "waiting_for_human"]
  <2>1. /\ rec \in TaskRow /\ rec.operation = "none" /\ seen[t] \in BOOLEAN
        /\ seen[t] => outbox[<<t, rec.run>>].status \in {"delivered", "suppressed"}
    BY <1>1, <1>2, OneChild, LocalRecord DEF Current
  <2>2. SaveLifecycle(t, rec, seen[t])
    BY <1>5 DEF PauseForReview
  <2> HIDE DEF rec
  <2> QED BY <1>1, <2>1, <2>2, SaveLifecycleStep
<1>6. CASE SettleRun(t)
  <2> DEFINE rec == [task[t] EXCEPT !.state = "settled"]
  <2>1. /\ rec \in TaskRow /\ rec.operation = "none" /\ seen[t] \in BOOLEAN
        /\ seen[t] => outbox[<<t, rec.run>>].status \in {"delivered", "suppressed"}
    BY <1>1, <1>2, OneChild, LocalRecord DEF Current
  <2>2. SaveLifecycle(t, rec, seen[t])
    BY <1>6 DEF SettleRun
  <2> HIDE DEF rec
  <2> QED BY <1>1, <2>1, <2>2, SaveLifecycleStep
<1> QED BY <1>3, <1>4, <1>5, <1>6

\* Every operation on a remote Task, its answers and its payloads preserve the
\* invariant; mark_uncertain withdraws the notification from both queues.
LEMMA RemoteStep == IInv /\ RemoteRun => IInv'
<1> SUFFICES ASSUME IInv, NEW t \in Task,
                    \/ \E op \in Operation : BeginOperation(t, op)
                    \/ MarkUncertain(t) \/ RejectOperation(t) \/ RejectCreate(t)
                    \/ \E p \in Payload : SyncRemote(t, p)
             PROVE  IInv'
  BY DEF RemoteRun
<1>1. /\ t \in loaded /\ t \in Remote /\ UNCHANGED <<loaded, Processes, taken>>
  BY DEF BeginOperation, MarkUncertain, RejectOperation, RejectCreate, SyncRemote
<1>2. {"running", "waiting_for_human", "settled", "doubtful"} \subseteq TaskState
  BY DEF TaskState, Active, Settled
<1>3. /\ task[t] \in TaskRow /\ seen[t] \in BOOLEAN
      /\ seen[t] => outbox[Current(t)].status \in {"delivered", "suppressed"}
  BY <1>1, OneChild
<1>4. ASSUME NEW op \in Operation, BeginOperation(t, op)
      PROVE  IInv'
  <2> DEFINE rec == [task[t] EXCEPT !.operation = op]
  <2>1. rec \in TaskRow /\ rec.operation # "none" /\ rec.run = task[t].run
    BY <1>3 DEF TaskRow, Operation
  <2>2. SaveUncertain(t, rec, seen[t])
    BY <1>4 DEF BeginOperation
  <2> HIDE DEF rec
  <2> QED BY <1>1, <1>3, <2>1, <2>2, SaveUncertainStep
<1>5. ASSUME SaveUncertain(t, [task[t] EXCEPT !.state = "doubtful"], seen[t]),
             task[t].operation # "none"
      PROVE  IInv'
  <2> DEFINE rec == [task[t] EXCEPT !.state = "doubtful"]
  <2>1. rec \in TaskRow /\ rec.operation # "none" /\ rec.run = task[t].run
    BY <1>2, <1>3, <1>5 DEF TaskRow
  <2> HIDE DEF rec
  <2>2. SaveUncertain(t, rec, seen[t])
    BY <1>5 DEF rec
  <2> QED BY <1>1, <1>3, <2>1, <2>2, SaveUncertainStep
<1>6. CASE MarkUncertain(t)
  BY <1>5, <1>6 DEF MarkUncertain
<1>7. ASSUME NEW rec \in {Rejected(t), [Rejected(t) EXCEPT !.state = "settled"]},
             SaveLifecycle(t, rec, seen[t])
      PROVE  IInv'
  <2>1. rec \in TaskRow /\ rec.operation = "none" /\ rec.run = task[t].run
    BY <1>2, <1>3 DEF Rejected, TaskRow
  <2> QED BY <1>1, <1>3, <1>7, <2>1, SaveLifecycleStep DEF Current
<1>8. CASE RejectOperation(t)
  BY <1>7, <1>8 DEF RejectOperation
<1>9. CASE RejectCreate(t)
  BY <1>7, <1>9 DEF RejectCreate
<1>10. ASSUME NEW p \in Payload, SyncRemote(t, p)
       PROVE  IInv'
  <2> DEFINE rec == Synced(t, p)
             known == seen[t] /\ p.run = task[t].run
  <2>1. /\ rec \in TaskRow /\ rec.operation = "none" /\ known \in BOOLEAN /\ rec.run = p.run
        /\ known => outbox[<<t, rec.run>>].status \in {"delivered", "suppressed"}
    BY <1>2, <1>3 DEF Synced, Payload, TaskRow, Current
  <2>2. CASE ~Proven(t, p)
    BY <1>5, <1>10, <2>2 DEF SyncRemote, Proven
  <2>3. CASE Proven(t, p) /\ rec # task[t]
    <3>1. SaveLifecycle(t, rec, known)
      BY <1>10, <2>3 DEF SyncRemote
    <3> HIDE DEF rec, known
    <3> QED BY <1>1, <2>1, <3>1, SaveLifecycleStep
  <2>4. CASE Proven(t, p) /\ rec = task[t]
    <3>1. Save(t, rec, known) /\ UNCHANGED <<outbox, mail>>
      BY <1>10, <2>4 DEF SyncRemote
    <3>2. outbox' = WithIntent(t, rec, known)
      <4>1. Notifies(rec, known) => outbox[Current(t)].status # "absent"
        BY <2>4 DEF Notifies, IInv, SettlementHasIntent
      <4> QED BY <2>4, <3>1, <4>1 DEF WithIntent, Current
    <3> HIDE DEF rec, known
    <3> QED BY <1>1, <2>1, <3>1, <3>2, SaveStep
  <2> QED BY <2>2, <2>3, <2>4
<1> QED BY <1>4, <1>6, <1>8, <1>9, <1>10

\* wait_agent and check_agent preserve the invariant.
LEMMA ConsumeStep == IInv /\ Consume => IInv'
<1> SUFFICES ASSUME IInv, NEW t \in Task,
                    \/ BeginWait(t) \/ LookAgain(t) \/ ResumeWait(t) \/ EndWait(t)
                    \/ CheckAgent(t)
             PROVE  IInv'
  BY DEF Consume
<1>1. /\ waiter \in [Task -> Waiter]
      /\ Current(t) \in Key /\ task[t].run \in Run /\ 0 \in Run
  BY ConstantsAssumption DEF IInv, TypeOK, TaskRow, Current, Key, Run
<1>2. ASSUME \/ \E ph \in {"await", "review"} : Waits(t, ph)
             \/ Return(t)
             \/ waiter' = waiter
      PROVE  waiter' \in [Task -> Waiter]
  BY <1>1, <1>2 DEF Waits, Return, Waiter, NoWait
<1>3. Look(t) => waiter' \in [Task -> Waiter]
  BY <1>2 DEF Look
<1>4. CASE BeginWait(t)
  <2>1. waiter' \in [Task -> Waiter]
    BY <1>2, <1>3, <1>4 DEF BeginWait
  <2> QED BY <1>4, <2>1, SuppressStep DEF BeginWait
<1>5. CASE CheckAgent(t)
  <2>1. waiter' \in [Task -> Waiter]
    BY <1>1, <1>5 DEF CheckAgent, Processes
  <2> QED BY <1>5, <2>1, SuppressStep DEF CheckAgent, Processes
<1>6. CASE LookAgain(t) \/ ResumeWait(t) \/ EndWait(t)
  <2>1. waiter' \in [Task -> Waiter]
    BY <1>2, <1>3, <1>6 DEF LookAgain, ResumeWait, EndWait
  <2>2. UNCHANGED <<task, loaded, seen, outbox, mail, hand, claims, taken>>
    BY <1>6 DEF LookAgain, ResumeWait, EndWait
  <2> QED BY <2>1, <2>2 DEF IInv, TypeOK, QueuesAgree, SettlementHasIntent, DeliveryIsFinal,
                            UncertainIsAcknowledged, OnlyProxiesOperate, Current, Settled
<1> QED BY <1>4, <1>5, <1>6

\* A step that only moves queue rows between the statuses of an unfinished
\* delivery, or finishes it in the mailbox, preserves the invariant.
LEMMA QueueStep ==
  ASSUME IInv, TypeOK', task' = task,
         \A t \in Task : t \in loaded' /\ seen'[t] => t \in loaded /\ seen[t],
         \A k \in Key : \/ outbox'[k].status = outbox[k].status
                       \/ {outbox[k].status, outbox'[k].status} \subseteq {"pending", "claimed"},
         \A k \in Key : \/ mail'[k].status = mail[k].status
                       \/ /\ mail[k].status \in {"pending", "claimed"}
                          /\ mail'[k].status \in {"pending", "claimed", "delivered"}
  PROVE  IInv'
<1> USE DEF IInv
<1>1. \A k \in Key : outbox[k].status \in OutboxStatus
  BY DEF TypeOK, Row, RowFields
<1>2. QueuesAgree'
  BY <1>1 DEF QueuesAgree, OutboxStatus
<1>3. \A t \in Task : Current(t)' = Current(t) /\ Current(t) \in Key
  BY DEF TypeOK, TaskRow, Current, Key
<1>4. SettlementHasIntent'
  BY <1>3 DEF SettlementHasIntent, Settled
<1>5. DeliveryIsFinal'
  BY <1>3 DEF DeliveryIsFinal
<1>6. UncertainIsAcknowledged'
  BY <1>3 DEF UncertainIsAcknowledged
<1>7. OnlyProxiesOperate'
  BY DEF OnlyProxiesOperate
<1> QED BY <1>2, <1>4, <1>5, <1>6, <1>7

\* A parent run that claims, acknowledges or releases mailbox rows
\* preserves the invariant: only the mailbox rows change.
LEMMA ReadStep == IInv /\ Read => IInv'
<1> SUFFICES ASSUME IInv, Read PROVE IInv'
  OBVIOUS
<1>1. mail \in [Key -> Row(MailStatus)] /\ claims \in [Reader -> SUBSET Claim]
  BY DEF IInv, TypeOK
<1>2. UNCHANGED <<task, loaded, seen, outbox, hand, waiter, taken>>
  BY DEF Read, ClaimMail, AcknowledgeRun, ReleaseRun, EndRun, ForgetRun, RecoverClaims,
         QueryTriggers, Processes
<1>3. ASSUME mail' \in [Key -> Row(MailStatus)], claims' \in [Reader -> SUBSET Claim],
             \A k \in Key : \/ mail'[k].status = mail[k].status
                           \/ /\ mail[k].status \in {"pending", "claimed"}
                              /\ mail'[k].status \in {"pending", "claimed", "delivered"}
      PROVE  IInv'
  <2>1. TypeOK'
    BY <1>2, <1>3 DEF IInv, TypeOK
  <2> QED BY <1>2, <1>3, <2>1, QueueStep
<1>4. /\ Released(mail) \in [Key -> Row(MailStatus)]
      /\ \A k \in Key : \/ Released(mail)[k] = mail[k]
                        \/ /\ mail[k].status = "claimed"
                           /\ Released(mail)[k].status = "pending"
  BY <1>1, ReleasedQueue DEF MailStatus
<1>5. ASSUME NEW p \in Reader, NEW tok \in Token, ClaimMail(p, tok)
      PROVE  IInv'
  <2> DEFINE queue == Released(mail)
             due == {k \in Key : queue[k].status = "pending" /\ ~Quiet(k)}
  <2>1. /\ mail' = ClaimAll(queue, due, tok)
        /\ claims' = [claims EXCEPT ![p] = {c \in @ : c.key \notin due} \cup Batch(due, tok)]
    BY <1>5 DEF ClaimMail
  <2>2. Batch(due, tok) \subseteq Claim
    BY DEF Batch, Claim
  <2>3. /\ due \subseteq Key /\ \A k \in due : queue[k].status = "pending"
        /\ queue \in [Key -> Row(MailStatus)] /\ "claimed" \in MailStatus
    BY <1>4 DEF MailStatus
  <2> HIDE DEF due, queue
  <2>4. /\ mail' \in [Key -> Row(MailStatus)]
        /\ \A k \in Key : mail'[k].status = IF k \in due THEN "claimed" ELSE queue[k].status
    BY <2>1, <2>3, ClaimedQueue
  <2>5. claims' \in [Reader -> SUBSET Claim]
    BY <1>1, <2>1, <2>2
  <2> QED BY <1>3, <1>4, <2>3, <2>4, <2>5 DEF queue
<1>6. ASSUME NEW p \in Reader, NEW s \in {"pending", "delivered"}, EndRun(p, s)
      PROVE  IInv'
  <2>1. claims' \in [Reader -> SUBSET Claim]
    BY <1>1, <1>6 DEF EndRun
  <2>2. ASSUME NEW k \in Key
        PROVE  /\ mail'[k] \in Row(MailStatus)
               /\ \/ mail'[k].status = mail[k].status
                  \/ mail[k].status = "claimed" /\ mail'[k].status = s
    <3>1. mail'[k] = IF k \in Mine(p) THEN Unclaimed(mail[k], s) ELSE mail[k]
      BY <1>6 DEF EndRun
    <3>2. k \in Mine(p) => mail[k].status = "claimed"
      BY DEF Mine
    <3> QED BY <1>1, <3>1, <3>2, UnclaimedRow DEF MailStatus
  <2>3. mail' \in [Key -> Row(MailStatus)]
    BY <1>6, <2>2 DEF EndRun
  <2> QED BY <1>3, <2>1, <2>2, <2>3
<1>7. ASSUME NEW p \in Reader, ForgetRun(p)
      PROVE  IInv'
  BY <1>1, <1>3, <1>7 DEF ForgetRun
<1>8. CASE RecoverClaims
  BY <1>1, <1>3, <1>4, <1>8 DEF RecoverClaims
<1>9. CASE QueryTriggers
  BY <1>1, <1>3, <1>4, <1>9 DEF QueryTriggers, Processes
<1> QED BY <1>5, <1>6, <1>7, <1>8, <1>9 DEF Read, AcknowledgeRun, ReleaseRun

\* Leases that lapse and processes that crash preserve the invariant.
LEMMA FaultStep == IInv /\ Fault => IInv'
<1> SUFFICES ASSUME IInv, Fault PROVE IInv'
  OBVIOUS
<1>1. TypeOK
  BY DEF IInv
<1>2. ASSUME NEW tok \in Token, LapseOutbox(tok)
      PROVE  IInv'
  <2>1. /\ outbox' \in [Key -> Row(OutboxStatus)]
        /\ \A k \in Key : outbox'[k].status = outbox[k].status
    BY <1>1, <1>2, LapsedQueue DEF LapseOutbox, TypeOK
  <2>2. TypeOK'
    BY <1>1, <1>2, <2>1 DEF LapseOutbox, TypeOK, Processes
  <2> QED BY <1>2, <2>1, <2>2, QueueStep DEF LapseOutbox
<1>3. ASSUME NEW tok \in Token, LapseMail(tok)
      PROVE  IInv'
  <2>1. /\ mail' \in [Key -> Row(MailStatus)]
        /\ \A k \in Key : mail'[k].status = mail[k].status
    BY <1>1, <1>3, LapsedQueue DEF LapseMail, TypeOK
  <2>2. TypeOK'
    BY <1>1, <1>3, <2>1 DEF LapseMail, TypeOK, Processes
  <2> QED BY <1>3, <2>1, <2>2, QueueStep DEF LapseMail
<1>4. CASE CrashHome
  <2>1. TypeOK'
    BY <1>1, <1>4, ConstantsAssumption DEF CrashHome, TypeOK, NoWait, Waiter, Run
  <2> QED BY <1>4, <2>1, QueueStep DEF CrashHome
<1>5. ASSUME NEW d \in Dispatcher, CrashDispatcher(d)
      PROVE  IInv'
  <2>1. TypeOK'
    BY <1>1, <1>5 DEF CrashDispatcher, TypeOK
  <2> QED BY <1>5, <2>1, QueueStep DEF CrashDispatcher
<1> QED BY <1>2, <1>3, <1>4, <1>5 DEF Fault

\* claim_pending preserves the invariant: it may withdraw the notification of an
\* uncertain operation, and gives the rows it claims one fresh token.
LEMMA ClaimOutboxStep ==
  ASSUME IInv, NEW d \in Dispatcher, NEW tok \in Token, ClaimOutbox(d, tok)
  PROVE  IInv'
<1> DEFINE K == Uncertain(task)
           left == DiscardOutbox(K)
           queue == Released(left)
           due == {k \in Key : Claimable(k, queue, Discard(K))}
<1>1. /\ task' = Discard(K) /\ outbox' = ClaimAll(queue, due, tok) /\ mail' = DiscardMail(K)
      /\ hand' = [hand EXCEPT ![d] = Batch(due, tok)]
      /\ UNCHANGED <<loaded, seen, claims, waiter, taken>>
  BY DEF ClaimOutbox
<1>2. /\ K \in SUBSET Key /\ \A k \in K : outbox[k].status # "absent"
      /\ \A t \in Task : Current(t) \in K <=> /\ task[t].operation # "none"
                                              /\ outbox[Current(t)].status # "absent"
      /\ \A k \in K : k[1] \in Task /\ k = Current(k[1])
  BY DEF IInv, TypeOK, TaskRow, Uncertain, Current, Key
\* The withdrawal at the head of claim_pending finds nothing unacknowledged.
<1>3. \A k \in K : Acknowledged(k)
  BY <1>2 DEF IInv, UncertainIsAcknowledged, Acknowledged
<1> HIDE DEF K
<1>4. /\ left \in [Key -> Row(OutboxStatus)] /\ mail' \in [Key -> Row(MailStatus)]
      /\ \A k \in Key \ K : left[k] = outbox[k]
      /\ \A k \in K : left[k].status = "delivered"
      /\ \A k \in Key : mail'[k].status = mail[k].status
  BY <1>1, <1>2, <1>3, DiscardedQueues DEF IInv, Acknowledged
<1> HIDE DEF left
<1>5. /\ queue \in [Key -> Row(OutboxStatus)]
      /\ \A k \in Key : \/ queue[k] = left[k]
                        \/ left[k].status = "claimed" /\ queue[k].status = "pending"
  BY <1>4, ReleasedQueue DEF OutboxStatus
<1>6. due \subseteq Key /\ (\A k \in due : queue[k].status = "pending") /\ "claimed" \in OutboxStatus
  BY DEF Claimable, OutboxStatus
<1> HIDE DEF queue, due
<1>7. /\ outbox' \in [Key -> Row(OutboxStatus)]
      /\ \A k \in Key : outbox'[k].status = IF k \in due THEN "claimed" ELSE queue[k].status
  BY <1>1, <1>5, <1>6, ClaimedQueue
<1>8. /\ \A k \in K : outbox'[k].status = "delivered"
      /\ \A k \in Key \ K : \/ outbox'[k].status = outbox[k].status
                            \/ {outbox[k].status, outbox'[k].status} \subseteq {"pending", "claimed"}
  BY <1>2, <1>4, <1>5, <1>6, <1>7
<1>9. /\ task' \in [Task -> TaskRow]
      /\ \A t \in Task : /\ task'[t].state = task[t].state /\ task'[t].run = task[t].run
                         /\ task'[t].suppressed = task[t].suppressed
                         /\ task'[t].operation = task[t].operation
                         /\ task'[t].delivered => task[t].delivered \/ Current(t) \in K
  <2>1. ASSUME NEW t \in Task
        PROVE  /\ task'[t] \in TaskRow
               /\ task'[t].state = task[t].state /\ task'[t].run = task[t].run
               /\ task'[t].suppressed = task[t].suppressed
               /\ task'[t].operation = task[t].operation
               /\ task'[t].delivered => task[t].delivered \/ Current(t) \in K
    <3>1. task[t] \in TaskRow /\ Acknowledged(Current(t)) \in BOOLEAN
      BY DEF IInv, TypeOK, Acknowledged
    <3>2. task'[t] = IF Current(t) \in K
                     THEN [task[t] EXCEPT !.delivered = Acknowledged(Current(t))] ELSE task[t]
      BY <1>1 DEF Discard
    <3> QED BY <3>1, <3>2 DEF TaskRow
  <2> QED BY <1>1, <2>1 DEF Discard
<1>10. TypeOK'
  <2>1. hand' \in [Dispatcher -> SUBSET Claim]
    BY <1>1, <1>6 DEF IInv, TypeOK, Batch, Claim
  <2> QED BY <1>1, <1>4, <1>7, <1>9, <2>1 DEF IInv, TypeOK
<1>11. \A t \in Task : Current(t)' = Current(t) /\ Current(t) \in Key
  BY <1>9 DEF IInv, TypeOK, TaskRow, Current, Key
<1>12. \A k \in K : mail'[k].status = "delivered"
  BY <1>2, <1>3, <1>4 DEF Acknowledged
<1>13. QueuesAgree'
  BY <1>4, <1>8, <1>12 DEF IInv, QueuesAgree
<1>14. SettlementHasIntent'
  BY <1>8, <1>9, <1>11 DEF IInv, SettlementHasIntent, Settled
<1>15. DeliveryIsFinal'
  BY <1>1, <1>8, <1>9, <1>11 DEF IInv, DeliveryIsFinal
<1>16. UncertainIsAcknowledged'
  BY <1>4, <1>8, <1>9, <1>11, <1>12 DEF IInv, UncertainIsAcknowledged
<1>17. OnlyProxiesOperate'
  BY <1>9 DEF IInv, OnlyProxiesOperate
<1> QED BY <1>10, <1>13, <1>14, <1>15, <1>16, <1>17 DEF IInv

\* publish_claimed_settled_outbox preserves the invariant: the mailbox row and the
\* status of the intent change in one transaction.
LEMMA PublishStep ==
  ASSUME IInv, NEW d \in Dispatcher, NEW c \in hand[d], Publish(d, c)
  PROVE  IInv'
<1> DEFINE t == c.key[1]
           k == c.key
           current == IsCurrent(k)
<1>1. k \in Key /\ t \in Task
  BY DEF IInv, TypeOK, Claim, Key
<1>2. outbox[k].status = "claimed" /\ mail[k].status = "absent"
  BY <1>1 DEF Publish, Publishable, Held, IInv, QueuesAgree
<1>3. /\ outbox' \in [Key -> Row(OutboxStatus)] /\ outbox'[k].status = "delivered"
      /\ \A j \in Key \ {k} : outbox'[j] = outbox[j]
  <2>1. /\ Unclaimed(outbox[k], "delivered") \in Row(OutboxStatus)
        /\ Unclaimed(outbox[k], "delivered").status = "delivered"
    BY <1>1, <1>2, UnclaimedRow DEF IInv, TypeOK, OutboxStatus
  <2>2. outbox' = [outbox EXCEPT ![k] = Unclaimed(outbox[k], "delivered")]
    BY DEF Publish
  <2> HIDE DEF k
  <2> QED BY <1>1, <2>1, <2>2 DEF IInv, TypeOK
<1>4. /\ mail' \in [Key -> Row(MailStatus)] /\ mail'[k].status = "pending"
      /\ \A j \in Key \ {k} : mail'[j] = mail[j]
  <2>1. outbox[k].reports \in Settled
    BY <1>1, <1>2 DEF IInv, TypeOK, Row, RowFields
  <2>2. /\ Pending(outbox[k].reports) \in Row(MailStatus)
        /\ Pending(outbox[k].reports).status = "pending"
    BY <2>1, NewRow DEF MailStatus
  <2>3. mail' = [mail EXCEPT ![k] = Pending(outbox[k].reports)]
    BY <1>2 DEF Publish
  <2> HIDE DEF k
  <2> QED BY <1>1, <2>2, <2>3 DEF IInv, TypeOK
<1>5. /\ task' = IF current THEN [task EXCEPT ![t].delivered = TRUE] ELSE task
      /\ seen' = IF current /\ d = Home /\ t \in loaded THEN [seen EXCEPT ![t] = TRUE] ELSE seen
      /\ hand' = [hand EXCEPT ![d] = @ \ {c}]
      /\ current => task[t].operation = "none"
      /\ UNCHANGED <<loaded, claims, waiter, taken>>
  BY DEF Publish, Publishable, Drop
<1>6. current <=> k = Current(t)
  BY DEF IsCurrent
<1> HIDE DEF k, t, current
<1>7. /\ task' \in [Task -> TaskRow] /\ seen' \in [Task -> BOOLEAN]
      /\ \A u \in Task : /\ task'[u].state = task[u].state /\ task'[u].run = task[u].run
                         /\ task'[u].suppressed = task[u].suppressed
                         /\ task'[u].operation = task[u].operation
                         /\ task'[u].delivered => task[u].delivered \/ (u = t /\ current)
                         /\ seen'[u] => seen[u] \/ (u = t /\ current)
  BY <1>1, <1>5 DEF IInv, TypeOK, TaskRow
<1>8. TypeOK'
  BY <1>3, <1>4, <1>5, <1>7 DEF IInv, TypeOK
<1>9. QueuesAgree'
  BY <1>3, <1>4 DEF IInv, QueuesAgree
<1>10. \A u \in Task : Current(u)' = Current(u) /\ Current(u) \in Key
  BY <1>7 DEF IInv, TypeOK, TaskRow, Current, Key
<1>11. SettlementHasIntent'
  BY <1>3, <1>7, <1>10 DEF IInv, SettlementHasIntent, Settled
<1>12. DeliveryIsFinal'
  BY <1>3, <1>5, <1>6, <1>7, <1>10 DEF IInv, DeliveryIsFinal
<1>13. UncertainIsAcknowledged'
  <2>1. ASSUME NEW u \in Task, task[u].operation # "none" PROVE Current(u) # k
    BY <1>1, <1>5, <1>6, <2>1 DEF Current, Key, k, t
  <2> QED BY <1>3, <1>4, <1>7, <1>10, <2>1 DEF IInv, UncertainIsAcknowledged
<1>14. OnlyProxiesOperate'
  BY <1>7 DEF IInv, OnlyProxiesOperate
<1> QED BY <1>8, <1>9, <1>11, <1>12, <1>13, <1>14 DEF IInv

\* Every step of a dispatcher preserves the invariant.
LEMMA DispatchStep == IInv /\ Dispatch => IInv'
<1> SUFFICES ASSUME IInv, NEW d \in Dispatcher, NEW c \in hand[d],
                    SkipFenced(d, c) \/ FailPublish(d, c) \/ FailRelease(d, c)
             PROVE  IInv'
  BY ClaimOutboxStep, PublishStep DEF Dispatch, Attempt
<1>1. /\ hand' = [hand EXCEPT ![d] = @ \ {c}]
      /\ UNCHANGED <<task, loaded, seen, mail, claims, waiter, taken>>
  BY DEF SkipFenced, FailPublish, FailRelease, Drop
<1>2. hand' \in [Dispatcher -> SUBSET Claim]
  BY <1>1 DEF IInv, TypeOK
<1>3. c.key \in Key
  BY DEF IInv, TypeOK, Claim
<1>4. CASE UNCHANGED outbox
  <2>1. TypeOK'
    BY <1>1, <1>2, <1>4 DEF IInv, TypeOK
  <2> QED BY <1>1, <1>4, <2>1, QueueStep
<1>5. CASE Held(outbox, c) /\ outbox' = [outbox EXCEPT ![c.key] = Unclaimed(@, "pending")]
  <2>1. outbox[c.key].status = "claimed"
    BY <1>5 DEF Held
  <2>2. /\ Unclaimed(outbox[c.key], "pending") \in Row(OutboxStatus)
        /\ Unclaimed(outbox[c.key], "pending").status = "pending"
    BY <1>3, <2>1, UnclaimedRow DEF IInv, TypeOK, OutboxStatus
  <2>3. /\ outbox' \in [Key -> Row(OutboxStatus)] /\ outbox'[c.key].status = "pending"
        /\ \A k \in Key \ {c.key} : outbox'[k] = outbox[k]
    BY <1>3, <1>5, <2>2 DEF IInv, TypeOK
  <2>4. TypeOK'
    BY <1>1, <1>2, <2>3 DEF IInv, TypeOK
  <2> QED BY <1>1, <2>1, <2>3, <2>4, QueueStep
<1> QED BY <1>4, <1>5 DEF SkipFenced, FailPublish, FailRelease

\* Restoring the records of a process preserves the invariant.
LEMMA RestoreStep ==
  ASSUME IInv, NEW t \in Task, Restore(t)
  PROVE  IInv'
<1> DEFINE known == task[t].delivered
<1>1. /\ task[t] \in TaskRow /\ known \in BOOLEAN
      /\ known => outbox[Current(t)].status \in {"delivered", "suppressed"}
      /\ loaded' = loaded \cup {t} /\ UNCHANGED <<Processes, taken>>
  BY DEF IInv, TypeOK, TaskRow, DeliveryIsFinal, Restore
<1>2. {"doubtful", "settled"} \subseteq TaskState
  BY DEF TaskState, Settled
<1>3. CASE task[t].operation # "none"
  <2> DEFINE rec == [task[t] EXCEPT !.state = "doubtful"]
  <2>1. /\ rec \in TaskRow /\ rec.operation # "none" /\ rec.run = task[t].run
        /\ t \in Remote
    BY <1>1, <1>2, <1>3 DEF TaskRow, IInv, OnlyProxiesOperate
  <2>2. SaveUncertain(t, rec, known)
    BY <1>3, <2>1 DEF Restore, Local
  <2> HIDE DEF rec, known
  <2> QED BY <1>1, <2>1, <2>2, SaveUncertainStep
<1>4. CASE task[t].operation = "none" /\ t \in Local /\ task[t].state \in {"pending", "running"}
  <2> DEFINE rec == [task[t] EXCEPT !.state = "settled"]
  <2>1. rec \in TaskRow /\ rec.operation = "none" /\ rec.run = task[t].run
    BY <1>1, <1>2, <1>4 DEF TaskRow
  <2>2. SaveLifecycle(t, rec, known)
    BY <1>4 DEF Restore
  <2> HIDE DEF rec, known
  <2> QED BY <1>1, <2>1, <2>2, SaveLifecycleStep DEF Current
<1>5. CASE seen' = [seen EXCEPT ![t] = known] /\ UNCHANGED <<task, outbox, mail>>
  <2>1. TypeOK'
    BY <1>1, <1>5 DEF IInv, TypeOK, Processes
  <2>2. \A u \in Task : Current(u)' = Current(u)
    BY <1>5 DEF Current
  <2>3. QueuesAgree' /\ SettlementHasIntent' /\ UncertainIsAcknowledged' /\ OnlyProxiesOperate'
    BY <1>5, <2>2 DEF IInv, QueuesAgree, SettlementHasIntent, UncertainIsAcknowledged,
                      OnlyProxiesOperate, Settled
  <2>4. DeliveryIsFinal'
    BY <1>1, <1>5, <2>2 DEF IInv, TypeOK, DeliveryIsFinal
  <2> QED BY <2>1, <2>3, <2>4 DEF IInv
<1> QED BY <1>3, <1>4, <1>5 DEF Restore

\* In the first state no run is settled and both queues are empty.
LEMMA InitIInv == Init => IInv
<1> SUFFICES ASSUME Init PROVE IInv
  OBVIOUS
<1>1. Absent \in Row(OutboxStatus) /\ Absent \in Row(MailStatus) /\ Absent.status = "absent"
  BY NewRow DEF OutboxStatus, MailStatus, Settled
<1>2. NoWait \in Waiter /\ 0 \in Run /\ "pending" \in TaskState
  BY ConstantsAssumption DEF NoWait, Waiter, Run, TaskState, Active
<1>3. \A t \in Task : Current(t) \in Key
  BY <1>2 DEF Init, Current, Key
<1> HIDE DEF Absent, NoWait
<1>4. TypeOK
  BY <1>1, <1>2 DEF Init, TypeOK, TaskRow
<1>5. QueuesAgree
  BY <1>1 DEF Init, QueuesAgree
<1>6. SettlementHasIntent /\ DeliveryIsFinal /\ UncertainIsAcknowledged /\ OnlyProxiesOperate
  BY DEF Init, SettlementHasIntent, DeliveryIsFinal, UncertainIsAcknowledged,
         OnlyProxiesOperate, Settled
<1> QED BY <1>4, <1>5, <1>6 DEF IInv

\* Every step, and every stuttering step, preserves the inductive invariant.
LEMMA NextIInv == IInv /\ [Next]_vars => IInv'
<1> SUFFICES ASSUME IInv, [Next]_vars PROVE IInv'
  OBVIOUS
<1>1. CASE Next
  BY <1>1, LocalStep, RemoteStep, ConsumeStep, DispatchStep, ReadStep, FaultStep, RestoreStep
  DEF Next
<1>2. CASE UNCHANGED vars
  BY <1>2 DEF vars, IInv, TypeOK, QueuesAgree, SettlementHasIntent, DeliveryIsFinal,
              UncertainIsAcknowledged, OnlyProxiesOperate, Current, Settled, Acknowledged
<1> QED BY <1>1, <1>2

-----------------------------------------------------------------------------
(* The theorems.                                                            *)

\* The inductive invariant holds in every reachable state.
THEOREM Invariance == Spec => []IInv
<1>1. IInv /\ [Next]_vars => IInv'
  BY NextIInv
<1> QED BY InitIInv, <1>1, PTL DEF Spec

\* Every variable has its type; a claimed row has a token and no other row has
\* one, and only a claimed row has a live lease.
THEOREM TypeCorrect == Spec => []TypeOK
<1>1. IInv => TypeOK
  BY DEF IInv
<1> QED BY Invariance, <1>1, PTL

\* The settlement of the current run has an intent unless the parent took the
\* run over, for every interleaving of saves, dispatchers and remote payloads.
THEOREM NoSettlementIsLost == Spec => []SettlementHasIntent
<1>1. IInv => SettlementHasIntent
  BY DEF IInv
<1> QED BY Invariance, <1>1, PTL

\* Outbox and mailbox agree on every run whatever is published, suppressed,
\* withdrawn, acknowledged or recovered, and in whatever order.
THEOREM QueuesNeverDisagree == Spec => []QueuesAgree
<1>1. IInv => QueuesAgree
  BY DEF IInv
<1> QED BY Invariance, <1>1, PTL

-----------------------------------------------------------------------------
(* Runs that were taken over, while the payloads of remote Tasks arrive in  *)
(* order.                                                                   *)

\* What was taken over is not a later run than the Task's, and the current run
\* stays marked: no save can give it an intent again.
TakenIsMarked ==
  \A k \in taken : /\ k[2] <= task[k[1]].run
                   /\ k[2] = task[k[1]].run => task[k[1]].suppressed

Taken == TakenIsMarked /\ TakenRunIsQuiet

\* A row that is still to be delivered was one before, or its intent was.
NothingRevives ==
  \A k \in Key : /\ outbox'[k].status \in {"pending", "claimed"}
                      => outbox[k].status \in {"pending", "claimed"}
                 /\ mail'[k].status \in {"pending", "claimed"}
                      => \/ mail[k].status \in {"pending", "claimed"}
                         \/ outbox[k].status \in {"pending", "claimed"}

\* A step that revives nothing keeps what was taken over quiet.
LEMMA NothingRevivesKeeps ==
  ASSUME IInv, Taken, NothingRevives, taken' = taken,
         \A t \in Task : task'[t].run = task[t].run /\ task'[t].suppressed = task[t].suppressed
  PROVE  Taken'
<1>1. \A k \in taken : k \in Key /\ k[1] \in Task
  BY DEF IInv, TypeOK, Key
<1>2. TakenIsMarked'
  BY <1>1 DEF Taken, TakenIsMarked
<1>3. TakenRunIsQuiet'
  BY <1>1 DEF Taken, TakenRunIsQuiet, NothingRevives
<1> QED BY <1>2, <1>3 DEF Taken

\* A save that starts a later run, or keeps the mark of the run it saves.
LEMMA SaveKeepsTaken ==
  ASSUME IInv, Taken, NEW t \in Task, NEW rec \in TaskRow, NEW known \in BOOLEAN,
         \/ rec.run > task[t].run
         \/ rec.run = task[t].run /\ (task[t].suppressed => rec.suppressed),
         Save(t, rec, known),
         outbox' = outbox \/ outbox' = WithIntent(t, rec, known), mail' = mail, taken' = taken
  PROVE  Taken'
<1>1. /\ task'[t] = [rec EXCEPT !.delivered = known]
      /\ \A u \in Task \ {t} : task'[u] = task[u]
  BY SaveRows DEF IInv
<1>2. task'[t].run = rec.run /\ task'[t].suppressed = rec.suppressed
  BY <1>1 DEF TaskRow
<1>3. /\ task[t].run \in Nat /\ rec.run \in Nat
      /\ \A k \in taken : k \in Key /\ k[1] \in Task /\ k[2] \in Nat /\ k = <<k[1], k[2]>>
  BY ConstantsAssumption DEF IInv, TypeOK, Key, Run, TaskRow
<1>4. TakenIsMarked'
  <2> SUFFICES ASSUME NEW k \in taken
               PROVE  /\ k[2] <= task'[k[1]].run
                      /\ k[2] = task'[k[1]].run => task'[k[1]].suppressed
    BY DEF TakenIsMarked
  <2>1. k[2] <= task[k[1]].run /\ (k[2] = task[k[1]].run => task[k[1]].suppressed)
    BY DEF Taken, TakenIsMarked
  <2>2. CASE k[1] = t
    BY <1>2, <1>3, <2>1, <2>2
  <2>3. CASE k[1] # t
    BY <1>1, <1>3, <2>1, <2>3
  <2> QED BY <2>2, <2>3
<1>5. TakenRunIsQuiet'
  <2> SUFFICES ASSUME NEW k \in taken
               PROVE  outbox'[k].status \notin {"pending", "claimed"}
    BY DEF Taken, TakenRunIsQuiet
  <2>1. outbox[k].status \notin {"pending", "claimed"}
    BY DEF Taken, TakenRunIsQuiet
  <2>2. CASE outbox' = WithIntent(t, rec, known) /\ k = <<t, rec.run>>
    <3>1. rec.suppressed
      <4>1. k[1] = t /\ k[2] = rec.run
        BY <2>2
      <4> QED BY <1>3, <4>1 DEF Taken, TakenIsMarked
    <3> QED BY <2>1, <2>2, <3>1 DEF WithIntent, Notifies
  <2>3. CASE outbox' = WithIntent(t, rec, known) /\ k # <<t, rec.run>>
    BY <1>3, <2>1, <2>3, IntentRow DEF IInv
  <2> QED BY <2>1, <2>2, <2>3
<1> QED BY <1>4, <1>5 DEF Taken

LEMMA SaveUncertainKeepsTaken ==
  ASSUME IInv, Taken, NEW t \in Task, NEW rec \in TaskRow, NEW known \in BOOLEAN,
         rec.run = task[t].run, task[t].suppressed => rec.suppressed,
         SaveUncertain(t, rec, known), taken' = taken
  PROVE  Taken'
<1> DEFINE k == <<t, rec.run>>
           discarded == Uncertain([task EXCEPT ![t] = rec]) \cap {k}
           final == IF discarded = {} THEN known ELSE Acknowledged(k)
<1>1. Save(t, rec, final) /\ outbox' = DiscardOutbox(discarded) /\ mail' = DiscardMail(discarded)
  BY DEF SaveUncertain
<1>2. discarded \in SUBSET Key /\ \A j \in discarded : outbox[j].status # "absent"
  BY DEF Uncertain
<1>3. final \in BOOLEAN
  BY DEF Acknowledged
<1> HIDE DEF k, discarded, final
<1>4. /\ task'[t] = [rec EXCEPT !.delivered = final]
      /\ \A u \in Task \ {t} : task'[u] = task[u]
  BY <1>1, <1>3, SaveRows DEF IInv
<1>5. task'[t].run = rec.run /\ task'[t].suppressed = rec.suppressed
  BY <1>4 DEF TaskRow
<1>6. TakenIsMarked'
  <2>1. \A j \in taken : j[1] \in Task
    BY DEF IInv, TypeOK, Key
  <2> QED BY <1>4, <1>5, <2>1 DEF Taken, TakenIsMarked
<1>7. /\ \A j \in Key \ discarded : outbox'[j] = outbox[j] /\ mail'[j] = mail[j]
      /\ \A j \in discarded : /\ outbox'[j].status \in {"delivered", "absent"}
                              /\ mail'[j].status \in {"delivered", "absent"}
  BY <1>1, <1>2, DiscardedQueues DEF IInv
<1>8. TakenRunIsQuiet'
  <2>1. taken \subseteq Key
    BY DEF IInv, TypeOK
  <2> QED BY <1>7, <2>1 DEF Taken, TakenRunIsQuiet
<1> QED BY <1>6, <1>8 DEF Taken

LEMMA SuppressKeepsTaken ==
  ASSUME IInv, Taken, NEW t \in loaded, Suppress(t)
  PROVE  Taken'
<1> DEFINE k == Current(t)
           rec == [task[t] EXCEPT !.suppressed = TRUE]
<1>1. t \in Task /\ k \in Key /\ rec \in TaskRow /\ seen[t] \in BOOLEAN
  BY DEF IInv, TypeOK, TaskRow, Current, Key
<1>2. /\ Save(t, rec, seen[t]) /\ taken' = taken \cup {k}
      /\ outbox' = IF outbox[k].status \in {"pending", "claimed", "delivered"}
                   THEN [outbox EXCEPT ![k] = Unclaimed(@, "suppressed")] ELSE outbox
      /\ mail' = IF mail[k].status \in {"pending", "claimed"}
                 THEN [mail EXCEPT ![k] = Unclaimed(@, "retracted")] ELSE mail
  BY DEF Suppress
<1> HIDE DEF rec
<1>3. /\ task'[t] = [rec EXCEPT !.delivered = seen[t]]
      /\ \A u \in Task \ {t} : task'[u] = task[u]
  BY <1>1, <1>2, SaveRows DEF IInv
<1>4. task'[t].run = task[t].run /\ task'[t].suppressed
  BY <1>1, <1>3 DEF IInv, TypeOK, TaskRow, rec
<1>5. k[1] = t /\ k[2] = task[t].run /\ task[t].run \in Nat
  BY <1>1, ConstantsAssumption DEF Current, IInv, TypeOK, TaskRow, Run
<1> HIDE DEF k
<1>6. TakenIsMarked'
  <2> SUFFICES ASSUME NEW j \in taken'
               PROVE  /\ j[2] <= task'[j[1]].run
                      /\ j[2] = task'[j[1]].run => task'[j[1]].suppressed
    BY DEF TakenIsMarked
  <2>1. CASE j[1] = t
    <3>1. j[2] <= task[t].run
      BY <1>2, <1>5, <2>1 DEF Taken, TakenIsMarked
    <3> QED BY <1>4, <2>1, <3>1
  <2>2. CASE j[1] # t
    <3>1. j \in taken /\ j[1] \in Task
      BY <1>2, <1>5, <2>2 DEF IInv, TypeOK, Key
    <3> QED BY <1>3, <2>2, <3>1 DEF Taken, TakenIsMarked
  <2> QED BY <2>1, <2>2
<1>7. /\ outbox'[k].status \notin {"pending", "claimed"}
      /\ mail'[k].status \notin {"pending", "claimed"}
      /\ \A j \in Key \ {k} : outbox'[j] = outbox[j] /\ mail'[j] = mail[j]
  <2>1. /\ Unclaimed(outbox[k], "suppressed").status = "suppressed"
        /\ Unclaimed(mail[k], "retracted").status = "retracted"
    BY <1>1 DEF IInv, TypeOK, Row, RowFields, Unclaimed
  <2> QED BY <1>1, <1>2, <2>1 DEF IInv, TypeOK
<1>8. TakenRunIsQuiet'
  <2>1. taken \subseteq Key
    BY DEF IInv, TypeOK
  <2> QED BY <1>2, <1>7, <2>1 DEF Taken, TakenRunIsQuiet
<1> QED BY <1>6, <1>8 DEF Taken

\* The runs of a local child.
LEMMA LocalKeepsTaken == IInv /\ Taken /\ LocalRun => Taken'
<1> SUFFICES ASSUME IInv, Taken, NEW t \in Task,
                    StartRun(t) \/ PauseForReview(t) \/ SettleRun(t) \/ RejectRun(t)
             PROVE  Taken'
  BY DEF LocalRun
<1>1. t \in loaded /\ taken' = taken
  BY DEF StartRun, PauseForReview, SettleRun, RejectRun
<1>2. {"running", "waiting_for_human", "settled"} \subseteq TaskState
  BY DEF TaskState, Active, Settled
<1>3. task[t] \in TaskRow /\ task[t].run \in Nat /\ seen[t] \in BOOLEAN
  BY <1>1, OneChild, ConstantsAssumption DEF TaskRow, Run
<1>4. ASSUME NEW s \in {"running", "waiting_for_human", "settled"},
             SaveLifecycle(t, [task[t] EXCEPT !.state = s], seen[t])
      PROVE  Taken'
  <2> DEFINE rec == [task[t] EXCEPT !.state = s]
  <2>1. /\ rec \in TaskRow /\ rec.run = task[t].run
        /\ rec.suppressed = task[t].suppressed
    BY <1>2, <1>3 DEF TaskRow
  <2>2. Save(t, rec, seen[t]) /\ outbox' = WithIntent(t, rec, seen[t]) /\ mail' = mail
    BY <1>4 DEF SaveLifecycle
  <2> HIDE DEF rec
  <2> QED BY <1>1, <1>3, <2>1, <2>2, SaveKeepsTaken
<1>5. ASSUME NEW s \in {"running", "settled"}, task[t].run < MaxRun,
             SaveLifecycle(t, [NewRun(t) EXCEPT !.state = s], FALSE)
      PROVE  Taken'
  <2> DEFINE rec == [NewRun(t) EXCEPT !.state = s]
  <2>1. rec \in TaskRow
    BY <1>1, <1>2, <1>5, LocalRecord
  <2>2. rec.run = task[t].run + 1
    <3>1. NewRun(t).run = task[t].run + 1 /\ DOMAIN NewRun(t) = DOMAIN task[t]
      BY <1>3 DEF NewRun, TaskRow
    <3>2. "run" \in DOMAIN task[t]
      BY <1>3 DEF TaskRow
    <3> HIDE DEF NewRun
    <3> QED BY <3>1, <3>2
  <2>3. rec.run > task[t].run
    BY <1>3, <2>2
  <2>4. Save(t, rec, FALSE) /\ outbox' = WithIntent(t, rec, FALSE) /\ mail' = mail
    BY <1>5 DEF SaveLifecycle
  <2> HIDE DEF rec
  <2> QED BY <1>1, <2>1, <2>3, <2>4, SaveKeepsTaken
<1> QED BY <1>4, <1>5 DEF StartRun, PauseForReview, SettleRun, RejectRun

\* The operations on a remote child and its payloads, which arrive in order.
LEMMA RemoteKeepsTaken ==
  ASSUME ~Reordered, IInv, Taken, RemoteRun
  PROVE  Taken'
<1> SUFFICES ASSUME NEW t \in Task,
                    \/ \E op \in Operation : BeginOperation(t, op)
                    \/ MarkUncertain(t) \/ RejectOperation(t) \/ RejectCreate(t)
                    \/ \E p \in Payload : SyncRemote(t, p)
             PROVE  Taken'
  BY DEF RemoteRun
<1>1. t \in loaded /\ taken' = taken
  BY DEF BeginOperation, MarkUncertain, RejectOperation, RejectCreate, SyncRemote
<1>2. {"running", "waiting_for_human", "settled", "doubtful"} \subseteq TaskState
  BY DEF TaskState, Active, Settled
<1>3. task[t] \in TaskRow /\ task[t].run \in Nat /\ seen[t] \in BOOLEAN
  BY <1>1, OneChild, ConstantsAssumption DEF TaskRow, Run
<1>4. ASSUME NEW op \in Operation, BeginOperation(t, op)
      PROVE  Taken'
  <2> DEFINE rec == [task[t] EXCEPT !.operation = op]
  <2>1. rec \in TaskRow /\ rec.run = task[t].run /\ rec.suppressed = task[t].suppressed
    BY <1>3 DEF TaskRow
  <2>2. SaveUncertain(t, rec, seen[t])
    BY <1>4 DEF BeginOperation
  <2> HIDE DEF rec
  <2> QED BY <1>1, <1>3, <2>1, <2>2, SaveUncertainKeepsTaken
<1>5. ASSUME SaveUncertain(t, [task[t] EXCEPT !.state = "doubtful"], seen[t])
      PROVE  Taken'
  <2> DEFINE rec == [task[t] EXCEPT !.state = "doubtful"]
  <2>1. rec \in TaskRow /\ rec.run = task[t].run /\ rec.suppressed = task[t].suppressed
    BY <1>2, <1>3 DEF TaskRow
  <2>2. SaveUncertain(t, rec, seen[t])
    BY <1>5
  <2> HIDE DEF rec
  <2> QED BY <1>1, <1>3, <2>1, <2>2, SaveUncertainKeepsTaken
<1>6. CASE MarkUncertain(t)
  BY <1>5, <1>6 DEF MarkUncertain
<1>7. ASSUME NEW rec \in {Rejected(t), [Rejected(t) EXCEPT !.state = "settled"]},
             SaveLifecycle(t, rec, seen[t])
      PROVE  Taken'
  <2>1. rec \in TaskRow /\ rec.run = task[t].run /\ rec.suppressed = task[t].suppressed
    BY <1>2, <1>3 DEF Rejected, TaskRow
  <2> QED BY <1>1, <1>3, <1>7, <2>1, SaveKeepsTaken DEF SaveLifecycle
<1>8. CASE RejectOperation(t)
  BY <1>7, <1>8 DEF RejectOperation
<1>9. CASE RejectCreate(t)
  BY <1>7, <1>9 DEF RejectCreate
<1>10. ASSUME NEW p \in Payload, SyncRemote(t, p)
       PROVE  Taken'
  <2> DEFINE rec == Synced(t, p)
             known == seen[t] /\ p.run = task[t].run
  <2>1. /\ rec \in TaskRow /\ known \in BOOLEAN /\ rec.run = p.run
        /\ rec.suppressed <=> (task[t].suppressed /\ p.run = task[t].run)
    BY <1>2, <1>3 DEF Synced, Payload, TaskRow
  <2>2. p.run > task[t].run \/ p.run = task[t].run
    BY <1>10 DEF SyncRemote, InOrder
  <2>3. CASE ~Proven(t, p)
    BY <1>5, <1>10, <2>3 DEF SyncRemote
  <2>4. CASE Proven(t, p)
    <3>1. Save(t, rec, known) /\ (outbox' = outbox \/ outbox' = WithIntent(t, rec, known))
      BY <1>10, <2>4 DEF SyncRemote, SaveLifecycle
    <3>2. mail' = mail
      BY <1>10, <2>4 DEF SyncRemote, SaveLifecycle
    <3> HIDE DEF rec, known
    <3> QED BY <1>1, <2>1, <2>2, <3>1, <3>2, SaveKeepsTaken
  <2> QED BY <2>3, <2>4
<1> QED BY <1>4, <1>6, <1>8, <1>9, <1>10

\* wait_agent and check_agent.
LEMMA ConsumeKeepsTaken == IInv /\ Taken /\ Consume => Taken'
<1> SUFFICES ASSUME IInv, Taken, NEW t \in Task,
                    \/ BeginWait(t) \/ LookAgain(t) \/ ResumeWait(t) \/ EndWait(t)
                    \/ CheckAgent(t)
             PROVE  Taken'
  BY DEF Consume
<1>1. CASE BeginWait(t) \/ CheckAgent(t)
  BY <1>1, SuppressKeepsTaken DEF BeginWait, CheckAgent
<1>2. CASE LookAgain(t) \/ ResumeWait(t) \/ EndWait(t)
  BY <1>2, NothingRevivesKeeps DEF LookAgain, ResumeWait, EndWait, NothingRevives
<1> QED BY <1>1, <1>2

\* A dispatcher claims only pending intents and publishes only a claimed one.
LEMMA DispatchKeepsTaken == IInv /\ Taken /\ Dispatch => Taken'
<1> SUFFICES ASSUME IInv, Taken, NEW d \in Dispatcher,
                    (\E tok \in Token : ClaimOutbox(d, tok)) \/ Attempt(d)
             PROVE  Taken'
  BY DEF Dispatch
<1>1. ASSUME NEW tok \in Token, ClaimOutbox(d, tok)
      PROVE  Taken'
  <2> DEFINE K == Uncertain(task)
             left == DiscardOutbox(K)
             queue == Released(left)
             due == {k \in Key : Claimable(k, queue, Discard(K))}
  <2>1. /\ task' = Discard(K) /\ outbox' = ClaimAll(queue, due, tok) /\ mail' = DiscardMail(K)
        /\ taken' = taken
    BY <1>1 DEF ClaimOutbox
  <2>2. K \in SUBSET Key /\ \A k \in K : outbox[k].status # "absent"
    BY DEF Uncertain
  <2> HIDE DEF K
  <2>3. /\ left \in [Key -> Row(OutboxStatus)]
        /\ \A k \in Key \ K : left[k] = outbox[k] /\ mail'[k] = mail[k]
        /\ \A k \in K : left[k].status = mail'[k].status
                        /\ left[k].status \in {"delivered", "absent"}
    BY <2>1, <2>2, DiscardedQueues DEF IInv
  <2> HIDE DEF left
  <2>4. /\ queue \in [Key -> Row(OutboxStatus)]
        /\ \A k \in Key : \/ queue[k] = left[k]
                          \/ left[k].status = "claimed" /\ queue[k].status = "pending"
    BY <2>3, ReleasedQueue DEF OutboxStatus
  <2>5. due \subseteq Key /\ (\A k \in due : queue[k].status = "pending") /\ "claimed" \in OutboxStatus
    BY DEF Claimable, OutboxStatus
  <2> HIDE DEF queue, due
  <2>6. \A k \in Key : outbox'[k].status = IF k \in due THEN "claimed" ELSE queue[k].status
    BY <2>1, <2>4, <2>5, ClaimedQueue
  <2>7. ASSUME NEW k \in Key
        PROVE  /\ outbox'[k].status \in {"pending", "claimed"}
                      => outbox[k].status \in {"pending", "claimed"}
               /\ mail'[k].status \in {"pending", "claimed"}
                      => \/ mail[k].status \in {"pending", "claimed"}
                         \/ outbox[k].status \in {"pending", "claimed"}
    <3>1. outbox'[k].status \in {"pending", "claimed"} => left[k].status \in {"pending", "claimed"}
      BY <2>4, <2>5, <2>6
    <3>2. CASE k \in K
      BY <2>3, <3>1, <3>2
    <3>3. CASE k \notin K
      BY <2>3, <3>1, <3>3
    <3> QED BY <3>2, <3>3
  <2>8. ASSUME NEW t \in Task
        PROVE  task'[t].run = task[t].run /\ task'[t].suppressed = task[t].suppressed
    <3>1. task[t] \in TaskRow /\ Acknowledged(Current(t)) \in BOOLEAN
      BY DEF IInv, TypeOK, Acknowledged
    <3>2. task'[t] = IF Current(t) \in K
                     THEN [task[t] EXCEPT !.delivered = Acknowledged(Current(t))] ELSE task[t]
      BY <2>1 DEF Discard
    <3> QED BY <3>1, <3>2 DEF TaskRow
  <2> QED BY <2>1, <2>7, <2>8, NothingRevivesKeeps DEF NothingRevives
<1>2. ASSUME NEW c \in hand[d], Publish(d, c)
      PROVE  Taken'
  <2>1. c.key \in Key /\ outbox[c.key].status = "claimed" /\ taken' = taken
    BY <1>2 DEF Publish, Publishable, Held, IInv, TypeOK, Claim
  <2>2. /\ outbox' = [outbox EXCEPT ![c.key] = Unclaimed(outbox[c.key], "delivered")]
        /\ \/ mail' = mail
           \/ mail' = [mail EXCEPT ![c.key] = Pending(outbox[c.key].reports)]
    BY <1>2 DEF Publish
  <2>3. \A k \in Key \ {c.key} : outbox'[k] = outbox[k] /\ mail'[k] = mail[k]
    BY <2>2 DEF IInv, TypeOK
  <2>4. NothingRevives
    BY <2>1, <2>3 DEF NothingRevives
  <2>5. \A t \in Task : task'[t].run = task[t].run /\ task'[t].suppressed = task[t].suppressed
    BY <1>2 DEF Publish, IInv, TypeOK, TaskRow
  <2> QED BY <2>1, <2>4, <2>5, NothingRevivesKeeps
<1>3. ASSUME NEW c \in hand[d], SkipFenced(d, c) \/ FailRelease(d, c)
      PROVE  Taken'
  BY <1>3, NothingRevivesKeeps DEF SkipFenced, FailRelease, NothingRevives
<1>4. ASSUME NEW c \in hand[d], FailPublish(d, c)
      PROVE  Taken'
  <2>1. mail' = mail /\ task' = task /\ taken' = taken
    BY <1>4 DEF FailPublish
  <2>2. \A k \in Key : outbox'[k] = outbox[k] \/ outbox[k].status = "claimed"
    BY <1>4 DEF FailPublish, Held, IInv, TypeOK
  <2> QED BY <2>1, <2>2, NothingRevivesKeeps DEF NothingRevives
<1> QED BY <1>1, <1>2, <1>3, <1>4 DEF Attempt

\* The parent's runs claim and release only what is to be delivered.
LEMMA ReadKeepsTaken == IInv /\ Taken /\ Read => Taken'
<1> SUFFICES ASSUME IInv, Taken, Read PROVE Taken'
  OBVIOUS
<1>1. UNCHANGED <<task, outbox, taken>> /\ mail \in [Key -> Row(MailStatus)]
  BY DEF Read, ClaimMail, AcknowledgeRun, ReleaseRun, EndRun, ForgetRun, RecoverClaims,
         QueryTriggers, Processes, IInv, TypeOK
<1>2. /\ Released(mail) \in [Key -> Row(MailStatus)]
      /\ \A k \in Key : \/ Released(mail)[k] = mail[k]
                        \/ /\ mail[k].status = "claimed"
                           /\ Released(mail)[k].status = "pending"
  BY <1>1, ReleasedQueue DEF MailStatus
<1>3. ASSUME NEW p \in Reader, NEW tok \in Token, ClaimMail(p, tok)
      PROVE  NothingRevives
  <2> DEFINE queue == Released(mail)
             due == {k \in Key : queue[k].status = "pending" /\ ~Quiet(k)}
  <2>1. mail' = ClaimAll(queue, due, tok)
    BY <1>3 DEF ClaimMail
  <2>2. /\ due \subseteq Key /\ \A k \in due : queue[k].status = "pending"
        /\ queue \in [Key -> Row(MailStatus)] /\ "claimed" \in MailStatus
    BY <1>2 DEF MailStatus
  <2> HIDE DEF due, queue
  <2>3. \A k \in Key : mail'[k].status = IF k \in due THEN "claimed" ELSE queue[k].status
    BY <2>1, <2>2, ClaimedQueue
  <2> QED BY <1>1, <1>2, <2>2, <2>3 DEF queue, NothingRevives
<1>4. ASSUME NEW p \in Reader, NEW s, EndRun(p, s)
      PROVE  NothingRevives
  <2>1. \A k \in Key : mail'[k] = mail[k] \/ mail[k].status = "claimed"
    BY <1>4 DEF EndRun, Mine
  <2> QED BY <1>1, <2>1 DEF NothingRevives
<1>5. ASSUME mail' = mail \/ mail' = Released(mail)
      PROVE  NothingRevives
  BY <1>1, <1>2, <1>5 DEF NothingRevives
<1>6. NothingRevives
  BY <1>3, <1>4, <1>5 DEF Read, AcknowledgeRun, ReleaseRun, ForgetRun, RecoverClaims, QueryTriggers
<1> QED BY <1>1, <1>6, NothingRevivesKeeps

\* Leases that lapse and processes that crash.
LEMMA FaultKeepsTaken == IInv /\ Taken /\ Fault => Taken'
<1> SUFFICES ASSUME IInv, Taken, Fault PROVE Taken'
  OBVIOUS
<1>1. UNCHANGED <<task, taken>>
  BY DEF Fault, LapseOutbox, LapseMail, CrashHome, CrashDispatcher
<1>2. \A k \in Key : outbox'[k].status = outbox[k].status /\ mail'[k].status = mail[k].status
  <2>1. ASSUME NEW tok \in Token, LapseOutbox(tok) \/ LapseMail(tok)
        PROVE  \A k \in Key : outbox'[k].status = outbox[k].status
                              /\ mail'[k].status = mail[k].status
    <3>1. outbox' = outbox \/ outbox' = Lapse(outbox, tok)
      BY <2>1 DEF LapseOutbox, LapseMail
    <3>2. mail' = mail \/ mail' = Lapse(mail, tok)
      BY <2>1 DEF LapseOutbox, LapseMail
    <3> QED BY <3>1, <3>2, LapsedQueue DEF IInv, TypeOK
  <2>2. CASE CrashHome \/ \E d \in Dispatcher : CrashDispatcher(d)
    BY <2>2 DEF CrashHome, CrashDispatcher
  <2> QED BY <2>1, <2>2 DEF Fault
<1> QED BY <1>1, <1>2, NothingRevivesKeeps DEF NothingRevives

LEMMA RestoreKeepsTaken ==
  ASSUME IInv, Taken, NEW t \in Task, Restore(t)
  PROVE  Taken'
<1> DEFINE known == task[t].delivered
<1>1. task[t] \in TaskRow /\ known \in BOOLEAN /\ taken' = taken
  BY DEF IInv, TypeOK, TaskRow, Restore
<1>2. {"doubtful", "settled"} \subseteq TaskState
  BY DEF TaskState, Settled
<1>3. ASSUME NEW s \in {"doubtful", "settled"},
             \/ SaveUncertain(t, [task[t] EXCEPT !.state = s], known)
             \/ SaveLifecycle(t, [task[t] EXCEPT !.state = s], known)
      PROVE  Taken'
  <2> DEFINE rec == [task[t] EXCEPT !.state = s]
  <2>1. rec \in TaskRow /\ rec.run = task[t].run /\ rec.suppressed = task[t].suppressed
    BY <1>1, <1>2 DEF TaskRow
  <2>2. \/ SaveUncertain(t, rec, known)
        \/ Save(t, rec, known) /\ outbox' = WithIntent(t, rec, known) /\ mail' = mail
    BY <1>3 DEF SaveLifecycle
  <2> HIDE DEF rec, known
  <2> QED BY <1>1, <2>1, <2>2, SaveUncertainKeepsTaken, SaveKeepsTaken
<1>4. CASE UNCHANGED <<task, outbox, mail>>
  BY <1>1, <1>4, NothingRevivesKeeps DEF NothingRevives
<1> QED BY <1>3, <1>4 DEF Restore

LEMMA NextKeepsTaken ==
  ASSUME ~Reordered, IInv, Taken, [Next]_vars
  PROVE  Taken'
<1>1. CASE Next
  BY <1>1, LocalKeepsTaken, RemoteKeepsTaken, ConsumeKeepsTaken, DispatchKeepsTaken,
     ReadKeepsTaken, FaultKeepsTaken, RestoreKeepsTaken DEF Next
<1>2. CASE UNCHANGED vars
  BY <1>2, NothingRevivesKeeps DEF vars, NothingRevives
<1> QED BY <1>1, <1>2

\* A run that wait_agent or check_agent took over is never announced again, by
\* any dispatcher and after any later run, crash or restore, if the payloads of a
\* remote Task are applied in order.
THEOREM TakenStaysQuiet ==
  ASSUME ~Reordered
  PROVE  Spec => []TakenRunIsQuiet
<1>1. Init => Taken
  BY DEF Init, Taken, TakenIsMarked, TakenRunIsQuiet
<1>2. IInv /\ Taken /\ [Next]_vars => Taken'
  BY NextKeepsTaken
<1>3. Taken => TakenRunIsQuiet
  BY DEF Taken
<1> QED BY Invariance, <1>1, <1>2, <1>3, PTL DEF Spec

----------------------------------------------------------------------------
(* The claims on the two queues are fenced: while its lease is alive a claim *)
(* ends only by its own holder, or by a takeover or an uncertain operation   *)
(* on the run.                                                               *)

\* A claim whose lease has not run out.
Live(row) == row.status = "claimed" /\ row.live

\* A parent run ends by token, and the rows of a token are claimed together: a
\* run that holds one row of a batch knows of every row of it that is still
\* claimed.  Without this, ending a run could take away a row that it does not
\* know of.
BatchesAreWhole ==
  \A p \in Reader : \A c \in claims[p] : \A k \in Key :
    Live(mail[k]) /\ mail[k].token = c.token => [key |-> k, token |-> c.token] \in claims[p]

\* A step that makes no live claim, and in which a run either forgets a token or
\* keeps all it held of it.
LEMMA NoNewClaims ==
  ASSUME BatchesAreWhole,
         \A k \in Key : Live(mail'[k]) => mail'[k] = mail[k],
         \A p \in Reader : /\ claims'[p] \subseteq claims[p]
                           /\ \A c \in claims[p] : \A b \in claims'[p] :
                                c.token = b.token => c \in claims'[p]
  PROVE  BatchesAreWhole'
<1> SUFFICES ASSUME NEW p \in Reader, NEW b \in claims'[p], NEW k \in Key,
                    Live(mail'[k]), mail'[k].token = b.token
             PROVE  [key |-> k, token |-> b.token] \in claims'[p]
  BY DEF BatchesAreWhole, Live
<1>1. Live(mail[k]) /\ mail[k].token = b.token /\ b \in claims[p]
  OBVIOUS
<1>2. [key |-> k, token |-> b.token] \in claims[p]
  BY <1>1 DEF BatchesAreWhole
<1> QED BY <1>2

\* A step that changes neither the mailbox nor what the parent's runs hold.
LEMMA SameBatches ==
  ASSUME BatchesAreWhole, UNCHANGED <<mail, claims>>
  PROVE  BatchesAreWhole'
  BY NoNewClaims

-----------------------------------------------------------------------------
(* Saves and takeovers.                                                     *)

\* A lifecycle save adds an intent only where there is none.
LEMMA LifecycleFences ==
  ASSUME TypeOK, BatchesAreWhole, NEW t \in Task, NEW rec, NEW known,
         SaveLifecycle(t, rec, known), claims' = claims
  PROVE  Fenced /\ BatchesAreWhole'
<1>1. mail' = mail /\ outbox' = WithIntent(t, rec, known)
  BY DEF SaveLifecycle
<1>2. \A k \in Key : outbox'[k] = outbox[k] \/ outbox[k].status = "absent"
  BY <1>1 DEF WithIntent, TypeOK
<1> QED BY <1>1, <1>2, SameBatches DEF Fenced, ClaimKept

\* The save of an undecided operation withdraws only the run of the operation.
LEMMA UncertainFences ==
  ASSUME TypeOK, BatchesAreWhole, NEW t \in Task, NEW rec \in TaskRow, NEW known \in BOOLEAN,
         rec.operation # "none", SaveUncertain(t, rec, known), claims' = claims
  PROVE  Fenced /\ BatchesAreWhole'
<1> DEFINE k == <<t, rec.run>>
           discarded == Uncertain([task EXCEPT ![t] = rec]) \cap {k}
           final == IF discarded = {} THEN known ELSE Acknowledged(k)
<1>1. /\ Save(t, rec, final) /\ outbox' = DiscardOutbox(discarded) /\ mail' = DiscardMail(discarded)
      /\ final \in BOOLEAN
  BY DEF SaveUncertain, Acknowledged
<1>2. /\ discarded \in SUBSET Key /\ \A j \in discarded : outbox[j].status # "absent"
      /\ \A j \in discarded : j[1] = t
  BY DEF Uncertain
<1> HIDE DEF k, discarded, final
<1>3. task'[t].operation # "none"
  <2>1. task'[t] = [rec EXCEPT !.delivered = final]
    BY <1>1, SaveRows
  <2> QED BY <2>1 DEF TaskRow
<1>4. /\ \A j \in Key \ discarded : outbox'[j] = outbox[j] /\ mail'[j] = mail[j]
      /\ \A j \in discarded : mail'[j].status \in {"delivered", "absent"}
  BY <1>1, <1>2, DiscardedQueues
<1>5. Fenced
  BY <1>2, <1>3, <1>4 DEF Fenced, ClaimKept
<1>6. \A j \in Key : Live(mail'[j]) => mail'[j] = mail[j]
  BY <1>4 DEF Live
<1> QED BY <1>5, <1>6, NoNewClaims

\* wait_agent and check_agent take only the run that they mark.
LEMMA SuppressFences ==
  ASSUME TypeOK, BatchesAreWhole, NEW t \in loaded, Suppress(t), claims' = claims
  PROVE  Fenced /\ BatchesAreWhole'
<1> DEFINE k == Current(t)
           rec == [task[t] EXCEPT !.suppressed = TRUE]
<1>1. t \in Task /\ k \in Key /\ k[1] = t /\ rec \in TaskRow /\ seen[t] \in BOOLEAN
  BY DEF TypeOK, TaskRow, Current, Key
<1>2. rec.suppressed
  BY DEF TypeOK, TaskRow
<1>3. /\ Save(t, rec, seen[t])
      /\ outbox' = IF outbox[k].status \in {"pending", "claimed", "delivered"}
                   THEN [outbox EXCEPT ![k] = Unclaimed(@, "suppressed")] ELSE outbox
      /\ mail' = IF mail[k].status \in {"pending", "claimed"}
                 THEN [mail EXCEPT ![k] = Unclaimed(@, "retracted")] ELSE mail
  BY DEF Suppress
<1> HIDE DEF k, rec
<1>4. task'[t].suppressed
  <2>1. task'[t] = [rec EXCEPT !.delivered = seen[t]]
    BY <1>1, <1>3, SaveRows
  <2> QED BY <1>1, <1>2, <2>1 DEF TaskRow
<1>5. /\ \A j \in Key \ {k} : outbox'[j] = outbox[j] /\ mail'[j] = mail[j]
      /\ mail'[k] = mail[k] \/ mail'[k].status = "retracted"
  <2>1. Unclaimed(mail[k], "retracted").status = "retracted"
    BY <1>1 DEF TypeOK, Row, RowFields, Unclaimed
  <2> QED BY <1>1, <1>3, <2>1 DEF TypeOK
<1>6. Fenced
  BY <1>1, <1>4, <1>5 DEF Fenced, ClaimKept
<1>7. \A j \in Key : Live(mail'[j]) => mail'[j] = mail[j]
  BY <1>5 DEF Live
<1> QED BY <1>6, <1>7, NoNewClaims

LEMMA LocalFences == IInv /\ BatchesAreWhole /\ LocalRun => Fenced /\ BatchesAreWhole'
  BY LifecycleFences DEF IInv, LocalRun, StartRun, PauseForReview, SettleRun, RejectRun, Processes

\* The uncertain saves are those of an operation that has begun.
LEMMA RemoteFences == IInv /\ BatchesAreWhole /\ RemoteRun => Fenced /\ BatchesAreWhole'
<1> SUFFICES ASSUME IInv, BatchesAreWhole, NEW t \in Task,
                    \/ \E op \in Operation : BeginOperation(t, op)
                    \/ MarkUncertain(t) \/ RejectOperation(t) \/ RejectCreate(t)
                    \/ \E p \in Payload : SyncRemote(t, p)
             PROVE  Fenced /\ BatchesAreWhole'
  BY DEF RemoteRun
<1>1. TypeOK /\ task[t] \in TaskRow /\ seen[t] \in BOOLEAN
  BY DEF IInv, TypeOK
<1>2. UNCHANGED <<claims, hand>>
  BY DEF BeginOperation, MarkUncertain, RejectOperation, RejectCreate, SyncRemote, Processes
<1>3. ASSUME NEW op \in Operation, BeginOperation(t, op)
      PROVE  Fenced /\ BatchesAreWhole'
  <2> DEFINE rec == [task[t] EXCEPT !.operation = op]
  <2>1. rec \in TaskRow /\ rec.operation # "none"
    BY <1>1 DEF TaskRow, Operation
  <2>2. SaveUncertain(t, rec, seen[t])
    BY <1>3 DEF BeginOperation
  <2> HIDE DEF rec
  <2> QED BY <1>1, <1>2, <2>1, <2>2, UncertainFences
<1>4. ASSUME SaveUncertain(t, [task[t] EXCEPT !.state = "doubtful"], seen[t]),
             task[t].operation # "none"
      PROVE  Fenced /\ BatchesAreWhole'
  <2> DEFINE rec == [task[t] EXCEPT !.state = "doubtful"]
  <2>1. rec \in TaskRow /\ rec.operation # "none"
    BY <1>1, <1>4 DEF TaskRow, TaskState, Settled
  <2>2. SaveUncertain(t, rec, seen[t])
    BY <1>4
  <2> HIDE DEF rec
  <2> QED BY <1>1, <1>2, <2>1, <2>2, UncertainFences
<1>5. CASE MarkUncertain(t)
  BY <1>4, <1>5 DEF MarkUncertain
<1>6. CASE RejectOperation(t) \/ RejectCreate(t)
  BY <1>1, <1>2, <1>6, LifecycleFences DEF RejectOperation, RejectCreate
<1>7. ASSUME NEW p \in Payload, SyncRemote(t, p)
      PROVE  Fenced /\ BatchesAreWhole'
  <2>1. CASE ~Proven(t, p)
    BY <1>4, <1>7, <2>1 DEF SyncRemote, Proven
  <2>2. CASE SaveLifecycle(t, Synced(t, p), seen[t] /\ p.run = task[t].run)
    BY <1>1, <1>2, <2>2, LifecycleFences
  <2>3. CASE UNCHANGED <<outbox, mail>>
    BY <1>2, <2>3, SameBatches DEF Fenced, ClaimKept
  <2> QED BY <1>7, <2>1, <2>2, <2>3 DEF SyncRemote
<1> QED BY <1>3, <1>5, <1>6, <1>7

LEMMA ConsumeFences == IInv /\ BatchesAreWhole /\ Consume => Fenced /\ BatchesAreWhole'
<1> SUFFICES ASSUME IInv, BatchesAreWhole, NEW t \in Task,
                    \/ BeginWait(t) \/ LookAgain(t) \/ ResumeWait(t) \/ EndWait(t)
                    \/ CheckAgent(t)
             PROVE  Fenced /\ BatchesAreWhole'
  BY DEF Consume
<1>1. CASE BeginWait(t) \/ CheckAgent(t)
  BY <1>1, SuppressFences DEF IInv, BeginWait, CheckAgent, Processes
<1>2. CASE LookAgain(t) \/ ResumeWait(t) \/ EndWait(t)
  BY <1>2, SameBatches DEF LookAgain, ResumeWait, EndWait, Fenced, ClaimKept
<1> QED BY <1>1, <1>2

-----------------------------------------------------------------------------
(* Dispatch of the outbox.                                                  *)

\* A claim of the outbox releases only lapsed claims and withdraws only the
\* intents of undecided operations.
LEMMA ClaimOutboxFences ==
  ASSUME IInv, BatchesAreWhole, NEW d \in Dispatcher, NEW tok \in Token, ClaimOutbox(d, tok)
  PROVE  Fenced /\ BatchesAreWhole'
<1> DEFINE K == Uncertain(task)
           left == DiscardOutbox(K)
           queue == Released(left)
           due == {k \in Key : Claimable(k, queue, Discard(K))}
<1>1. /\ task' = Discard(K) /\ outbox' = ClaimAll(queue, due, tok) /\ mail' = DiscardMail(K)
      /\ claims' = claims
  BY DEF ClaimOutbox
<1>2. /\ K \in SUBSET Key /\ (\A k \in K : outbox[k].status # "absent")
      /\ \A k \in K : k[1] \in Task /\ task[k[1]].operation # "none"
  BY DEF Uncertain, Key
<1>3. \A k \in due : queue[k].status = "pending"
  BY DEF Claimable
<1>4. \A k \in Key : k \in due \/ outbox'[k] = queue[k]
  BY <1>1 DEF ClaimAll
<1> HIDE DEF K, due
<1>5. /\ \A k \in Key \ K : left[k] = outbox[k] /\ mail'[k] = mail[k]
      /\ \A k \in K : mail'[k].status \in {"delivered", "absent"}
  BY <1>1, <1>2, DiscardedQueues DEF IInv
<1> HIDE DEF left
<1>6. \A k \in Key : Live(left[k]) => queue[k] = left[k]
  BY DEF Released, Lapsed, Live
<1> HIDE DEF queue
<1>7. \A t \in Task : task'[t].operation = task[t].operation
  <2>1. ASSUME NEW t \in Task
        PROVE  task'[t].operation = task[t].operation
    <3>1. task[t] \in TaskRow
      BY DEF IInv, TypeOK
    <3>2. task'[t] = IF Current(t) \in K
                     THEN [task[t] EXCEPT !.delivered = Acknowledged(Current(t))] ELSE task[t]
      BY <1>1 DEF Discard
    <3> QED BY <3>1, <3>2 DEF TaskRow
  <2> QED BY <2>1
<1>8. ASSUME NEW k \in Key
      PROVE  /\ ClaimKept(outbox[k], outbox'[k], k, hand, hand')
             /\ ClaimKept(mail[k], mail'[k], k, claims, claims')
  <2>1. CASE k \in K
    BY <1>2, <1>7, <2>1 DEF ClaimKept
  <2>2. CASE k \notin K
    <3>1. Live(outbox[k]) => outbox'[k] = outbox[k]
      BY <1>3, <1>4, <1>5, <1>6, <2>2 DEF Live
    <3> QED BY <1>5, <2>2, <3>1 DEF ClaimKept, Live
  <2> QED BY <2>1, <2>2
<1>9. \A k \in Key : Live(mail'[k]) => mail'[k] = mail[k]
  BY <1>5 DEF Live
<1> QED BY <1>1, <1>8, <1>9, NoNewClaims DEF Fenced

\* A dispatcher ends only the claim that it holds.
LEMMA DispatchFences == IInv /\ BatchesAreWhole /\ Dispatch => Fenced /\ BatchesAreWhole'
<1> SUFFICES ASSUME IInv, BatchesAreWhole, NEW d \in Dispatcher,
                    (\E tok \in Token : ClaimOutbox(d, tok)) \/ Attempt(d)
             PROVE  Fenced /\ BatchesAreWhole'
  BY DEF Dispatch
<1>1. ASSUME NEW c \in hand[d], UNCHANGED claims, Drop(d, c),
             \A k \in Key : outbox'[k] = outbox[k] \/ (k = c.key /\ outbox[k].token = c.token),
             \A k \in Key : mail'[k] = mail[k]
                            \/ (~Live(mail[k]) /\ ~Live(mail'[k]))
      PROVE  Fenced /\ BatchesAreWhole'
  <2>1. c = [key |-> c.key, token |-> c.token]
    BY DEF IInv, TypeOK, Claim
  <2>2. d \in DOMAIN hand /\ c \in hand[d] \ hand'[d]
    BY <1>1 DEF Drop, IInv, TypeOK
  <2>3. Fenced
    BY <1>1, <2>1, <2>2 DEF Fenced, ClaimKept, Live
  <2>4. \A k \in Key : Live(mail'[k]) => mail'[k] = mail[k]
    BY <1>1
  <2> QED BY <1>1, <2>3, <2>4, NoNewClaims
<1>2. ASSUME NEW c \in hand[d], Publish(d, c)
      PROVE  Fenced /\ BatchesAreWhole'
  <2>1. /\ Drop(d, c) /\ UNCHANGED claims /\ outbox[c.key].token = c.token
        /\ outbox' = [outbox EXCEPT ![c.key] = Unclaimed(outbox[c.key], "delivered")]
        /\ mail' = IF mail[c.key].status = "absent"
                   THEN [mail EXCEPT ![c.key] = Pending(outbox[c.key].reports)] ELSE mail
    BY <1>2 DEF Publish, Publishable, Held
  <2>2. Pending(outbox[c.key].reports).status = "pending"
    BY DEF Pending, Absent
  <2>3. \A k \in Key : outbox'[k] = outbox[k] \/ (k = c.key /\ outbox[k].token = c.token)
    BY <2>1 DEF IInv, TypeOK
  <2>4. \A k \in Key : mail'[k] = mail[k] \/ (~Live(mail[k]) /\ ~Live(mail'[k]))
    BY <2>1, <2>2 DEF IInv, TypeOK, Live
  <2> QED BY <1>1, <2>1, <2>3, <2>4
<1>3. ASSUME NEW c \in hand[d], FailPublish(d, c)
      PROVE  Fenced /\ BatchesAreWhole'
  <2>1. /\ Drop(d, c) /\ UNCHANGED <<claims, mail>>
        /\ outbox' = IF Held(outbox, c) THEN [outbox EXCEPT ![c.key] = Unclaimed(@, "pending")]
                     ELSE outbox
    BY <1>3 DEF FailPublish
  <2>2. \A k \in Key : outbox'[k] = outbox[k] \/ (k = c.key /\ outbox[k].token = c.token)
    BY <2>1 DEF Held, IInv, TypeOK
  <2> QED BY <1>1, <2>1, <2>2
<1>4. ASSUME NEW c \in hand[d], SkipFenced(d, c) \/ FailRelease(d, c)
      PROVE  Fenced /\ BatchesAreWhole'
  BY <1>4, SameBatches DEF SkipFenced, FailRelease, Fenced, ClaimKept
<1> QED BY <1>2, <1>3, <1>4, ClaimOutboxFences DEF Attempt

-----------------------------------------------------------------------------
(* The parent's runs.                                                       *)

\* Releasing lapsed claims ends no live one and makes none.
LEMMA ReleaseFences ==
  ASSUME NEW Status, NEW queue \in [Key -> Row(Status)], NEW k \in Key
  PROVE  /\ Live(queue[k]) => Released(queue)[k] = queue[k]
         /\ Live(Released(queue)[k]) => Released(queue)[k] = queue[k]
<1>1. ~Live(Unclaimed(queue[k], "pending"))
  BY DEF Live, Unclaimed, Row, RowFields
<1> QED BY <1>1 DEF Released, Lapsed, Live

\* The rows that a run claims get a token that no run holds.
LEMMA ClaimMailFences ==
  ASSUME IInv, BatchesAreWhole, NEW p \in Reader, NEW tok \in Token, ClaimMail(p, tok)
  PROVE  Fenced /\ BatchesAreWhole'
<1> DEFINE queue == Released(mail)
           due == {k \in Key : queue[k].status = "pending" /\ ~Quiet(k)}
           kept == {c \in claims[p] : c.key \notin due}
<1>1. /\ Fresh(tok, queue, claims) /\ mail' = ClaimAll(queue, due, tok)
      /\ claims' = [claims EXCEPT ![p] = kept \cup Batch(due, tok)]
      /\ UNCHANGED <<outbox, hand>>
  BY DEF ClaimMail
<1>2. claims \in [Reader -> SUBSET Claim] /\ queue \in [Key -> Row(MailStatus)]
  BY ReleasedQueue DEF IInv, TypeOK, MailStatus
<1>3. \A k \in Key : /\ Live(mail[k]) => queue[k] = mail[k]
                     /\ Live(queue[k]) => queue[k] = mail[k]
  BY ReleaseFences DEF IInv, TypeOK
<1>4. \A k \in due : k \in Key /\ queue[k].status = "pending"
  OBVIOUS
<1> HIDE DEF queue, due
<1>5. \A k \in Key : mail'[k] = IF k \in due THEN ClaimedBy(queue[k], tok) ELSE queue[k]
  BY <1>1 DEF ClaimAll
<1>6. Fenced
  <2>1. \A k \in Key : Live(mail[k]) => mail'[k] = mail[k]
    BY <1>3, <1>4, <1>5 DEF Live
  <2> QED BY <1>1, <2>1 DEF Fenced, ClaimKept, Live
<1>7. BatchesAreWhole'
  <2> SUFFICES ASSUME NEW q \in Reader, NEW c \in claims'[q], NEW k \in Key,
                      Live(mail'[k]), mail'[k].token = c.token
               PROVE  [key |-> k, token |-> c.token] \in claims'[q]
    BY DEF BatchesAreWhole, Live
  <2>1. c \in claims[q] \/ (q = p /\ c \in Batch(due, tok))
    BY <1>1, <1>2
  <2>2. CASE k \in due
    <3>1. mail'[k].token = tok
      BY <1>2, <1>5, <2>2 DEF ClaimedBy, Row, RowFields
    <3>2. c \notin claims[q]
      BY <1>1, <1>2, <3>1 DEF Fresh
    <3> QED BY <1>1, <1>2, <2>1, <2>2, <3>1, <3>2 DEF Batch
  <2>3. CASE k \notin due
    <3>1. mail'[k] = mail[k]
      BY <1>3, <1>5, <2>3
    <3>2. mail[k].token # tok
      BY <1>1, <1>5, <2>3, <3>1 DEF Fresh
    <3>3. c \in claims[q]
      BY <2>1, <3>1, <3>2 DEF Batch
    <3>4. [key |-> k, token |-> c.token] \in claims[q]
      BY <3>1, <3>3 DEF BatchesAreWhole
    <3> QED BY <1>1, <1>2, <2>3, <3>4
  <2> QED BY <2>2, <2>3
<1> QED BY <1>6, <1>7

LEMMA ReadFences == IInv /\ BatchesAreWhole /\ Read => Fenced /\ BatchesAreWhole'
<1> SUFFICES ASSUME IInv, BatchesAreWhole, Read PROVE Fenced /\ BatchesAreWhole'
  OBVIOUS
<1>1. claims \in [Reader -> SUBSET Claim] /\ UNCHANGED <<outbox, hand>>
  BY DEF IInv, TypeOK, Read, ClaimMail, AcknowledgeRun, ReleaseRun, EndRun, ForgetRun,
         RecoverClaims, QueryTriggers, Processes
\* It knows of every live row of its tokens, so it ends no claim but its own.
<1>2. ASSUME NEW p \in Reader, NEW s \in {"pending", "delivered"}, EndRun(p, s)
      PROVE  Fenced /\ BatchesAreWhole'
  <2>1. /\ claims'[p] = {} /\ \A q \in Reader : claims'[q] \in {{}, claims[q]}
    BY <1>1, <1>2 DEF EndRun
  <2>2. ASSUME NEW k \in Key
        PROVE  /\ \/ mail'[k] = mail[k]
                  \/ [key |-> k, token |-> mail[k].token] \in claims[p]
               /\ Live(mail'[k]) => mail'[k] = mail[k]
    <3>1. mail'[k] = IF k \in Mine(p) THEN Unclaimed(mail[k], s) ELSE mail[k]
      BY <1>2 DEF EndRun
    <3>2. k \in Mine(p) => [key |-> k, token |-> mail[k].token] \in claims[p]
      BY DEF Mine, BatchesAreWhole, Live
    <3>3. ~Live(Unclaimed(mail[k], s))
      BY DEF Live, Unclaimed, IInv, TypeOK, Row, RowFields
    <3> QED BY <3>1, <3>2, <3>3
  <2>3. p \in DOMAIN claims
    BY <1>1
  <2>4. Fenced
    BY <1>1, <2>1, <2>2, <2>3 DEF Fenced, ClaimKept
  <2> QED BY <2>1, <2>2, <2>4, NoNewClaims
<1>3. ASSUME NEW p \in Reader, ForgetRun(p)
      PROVE  Fenced /\ BatchesAreWhole'
  <2>1. mail' = mail /\ \A q \in Reader : claims'[q] \in {{}, claims[q]}
    BY <1>1, <1>3 DEF ForgetRun
  <2> QED BY <1>1, <2>1, NoNewClaims DEF Fenced, ClaimKept
<1>4. \A k \in Key : /\ Live(mail[k]) => Released(mail)[k] = mail[k]
                     /\ Live(Released(mail)[k]) => Released(mail)[k] = mail[k]
  BY ReleaseFences DEF IInv, TypeOK
<1>5. CASE RecoverClaims
  <2>1. \A p \in Reader : claims'[p] = {c \in claims[p] : Leased(Released(mail), c.token)}
    BY <1>5 DEF RecoverClaims
  <2>2. mail' = Released(mail)
    BY <1>5 DEF RecoverClaims
  <2> QED BY <1>1, <1>4, <2>1, <2>2, NoNewClaims DEF Fenced, ClaimKept, Live
<1>6. CASE QueryTriggers
  BY <1>1, <1>4, <1>6, NoNewClaims DEF QueryTriggers, Processes, Fenced, ClaimKept, Live
<1> QED BY <1>2, <1>3, <1>5, <1>6, ClaimMailFences DEF Read, AcknowledgeRun, ReleaseRun

-----------------------------------------------------------------------------
(* Faults and restarts.                                                     *)

LEMMA FaultFences == IInv /\ BatchesAreWhole /\ Fault => Fenced /\ BatchesAreWhole'
<1> SUFFICES ASSUME IInv, BatchesAreWhole, Fault PROVE Fenced /\ BatchesAreWhole'
  OBVIOUS
<1>1. ASSUME NEW k \in Key, NEW tok, NEW queue \in {outbox, mail}
      PROVE  /\ Lapse(queue, tok)[k].status = queue[k].status
             /\ Lapse(queue, tok)[k].token = queue[k].token
             /\ Live(Lapse(queue, tok)[k]) => Lapse(queue, tok)[k] = queue[k]
  BY DEF IInv, TypeOK, Row, RowFields, Lapse, Live
<1>2. ASSUME NEW tok \in Token, LapseOutbox(tok)
      PROVE  Fenced /\ BatchesAreWhole'
  BY <1>1, <1>2, SameBatches DEF LapseOutbox, Processes, Fenced, ClaimKept
<1>3. ASSUME NEW tok \in Token, LapseMail(tok)
      PROVE  Fenced /\ BatchesAreWhole'
  BY <1>1, <1>3, NoNewClaims DEF LapseMail, Processes, Fenced, ClaimKept
<1>4. CASE CrashHome
  BY <1>4, NoNewClaims DEF CrashHome, Fenced, ClaimKept
<1>5. ASSUME NEW d \in Dispatcher, CrashDispatcher(d)
      PROVE  Fenced /\ BatchesAreWhole'
  BY <1>5, SameBatches DEF CrashDispatcher, Fenced, ClaimKept
<1> QED BY <1>2, <1>3, <1>4, <1>5 DEF Fault

\* A restored record is uncertain only if it was stored during an operation.
LEMMA RestoreFences ==
  ASSUME IInv, BatchesAreWhole, NEW t \in Task, Restore(t)
  PROVE  Fenced /\ BatchesAreWhole'
<1> DEFINE rec == [task[t] EXCEPT !.state = "doubtful"]
<1>1. TypeOK /\ task[t] \in TaskRow /\ task[t].delivered \in BOOLEAN /\ UNCHANGED <<hand, claims>>
  BY DEF IInv, TypeOK, TaskRow, Restore, Processes
<1>2. CASE task[t].operation # "none"
  <2>1. rec \in TaskRow /\ rec.operation # "none"
    BY <1>1, <1>2 DEF TaskRow, TaskState, Settled
  <2>2. t \notin Local
    BY <1>2 DEF IInv, OnlyProxiesOperate, Local
  <2>3. SaveUncertain(t, rec, task[t].delivered)
    BY <1>2, <2>2 DEF Restore
  <2> HIDE DEF rec
  <2> QED BY <1>1, <2>1, <2>3, UncertainFences
<1>3. CASE SaveLifecycle(t, [task[t] EXCEPT !.state = "settled"], task[t].delivered)
  BY <1>1, <1>3, LifecycleFences
<1>4. CASE UNCHANGED <<outbox, mail>>
  BY <1>1, <1>4, SameBatches DEF Fenced, ClaimKept
<1> QED BY <1>2, <1>3, <1>4 DEF Restore

\* The batch of a run is whole in every reachable state, and every step is fenced.
LEMMA NextFences == IInv /\ BatchesAreWhole /\ [Next]_vars => Fenced /\ BatchesAreWhole'
<1>1. ASSUME IInv, BatchesAreWhole, Next
      PROVE  Fenced /\ BatchesAreWhole'
  BY <1>1, LocalFences, RemoteFences, ConsumeFences, DispatchFences, ReadFences, FaultFences,
     RestoreFences DEF Next
<1>2. ASSUME BatchesAreWhole, UNCHANGED vars
      PROVE  Fenced /\ BatchesAreWhole'
  BY <1>2, SameBatches DEF vars, Fenced, ClaimKept
<1> QED BY <1>1, <1>2

\* While its lease is alive a claim ends only by its holder, or by a takeover or an
\* uncertain operation on the run: no other dispatcher and no other run of the
\* parent can end it, whatever was released, recovered or restored meanwhile.
THEOREM ClaimsStayFenced == Spec => ClaimsAreFenced
<1>1. Init => BatchesAreWhole
  BY DEF Init, BatchesAreWhole
<1>2. IInv /\ BatchesAreWhole /\ [Next]_vars => BatchesAreWhole' /\ [Fenced]_vars
  BY NextFences
<1> QED BY Invariance, <1>1, <1>2, PTL DEF Spec, ClaimsAreFenced
=============================================================================
