-------------------------- MODULE OperationsProofs ---------------------------
(***************************************************************************)
(* What the background machinery guarantees, for any number of rows,       *)
(* workers and losses: notifications, scheduled runs, the journal and the  *)
(* research cycle.                                                         *)
(***************************************************************************)
EXTENDS Notifications, BackgroundRuns, Journal, ResearchWorkflow, RiskSums

----------------------------------------------------------------------------
(***************************************************************************)
(* Notifications: one is in one place at a time on its way through the     *)
(* outbox, a drain, the message broker and a worker.                       *)
(***************************************************************************)

Delivering(n) == \E w \in Deliverer : delivering[w] # NoDelivery /\ delivering[w].id = n
Drained(n) == \E d \in Drain : n \in draining[d]
Waiting(n) == n \in outbox \/ Drained(n) \/ n \in posted

(* Drains work on rows of their own: what one has locked is unpublished,   *)
(* locked by no other, and it holds nothing else meanwhile.                *)
RowsApart ==
  /\ \A d \in Drain : locked[d] \subseteq outbox /\ (locked[d] # {} => draining[d] = {})
  /\ \A d, e \in Drain : d # e => locked[d] \cap locked[e] = {}

(* A notification is in one place at a time on its way through the outbox, *)
(* a drain, the message broker and a worker.                               *)
OnePlace ==
  \A n \in Notification :
    /\ notification[n] = "NONE" => ~Waiting(n) /\ ~Delivering(n)
    /\ n \in outbox => ~Drained(n) /\ n \notin posted /\ ~Delivering(n)
    /\ n \in posted => ~Drained(n) /\ ~Delivering(n)
    /\ Drained(n) => ~Delivering(n)
    /\ \A d, e \in Drain : n \in draining[d] \cap draining[e] => d = e
    /\ \A v, w \in Deliverer :
         /\ delivering[v] # NoDelivery /\ delivering[v].id = n
         /\ delivering[w] # NoDelivery /\ delivering[w].id = n
         => v = w

(* What still waits has been sent at most as often as a delivery was lost. *)
PaidFor ==
  \A n \in Notification :
    /\ sent[n] <= 1 + losses
    /\ Waiting(n) \/ notification[n] = "NONE" => sent[n] <= losses

NotificationsInv == NotificationsTypeOK /\ RowsApart /\ OnePlace /\ PaidFor

----------------------------------------------------------------------------
(* A worker that is busy has a notification and an outcome in hand.        *)
LEMMA NotificationInHand ==
  ASSUME NotificationsTypeOK, NEW w \in Deliverer, delivering[w] # NoDelivery
  PROVE  delivering[w] \in [id: Notification, ok: BOOLEAN] /\ delivering[w].id \in Notification
BY DEF NotificationsTypeOK

(* The invariant holds before anything is queued.                          *)
LEMMA NotificationsStart == NotificationsInit => NotificationsInv
<1> SUFFICES ASSUME NotificationsInit PROVE NotificationsInv
  OBVIOUS
<1>1. NotificationsTypeOK
  <2>1. channel \in ChannelRow /\ channelTest \in [open: BOOLEAN, enabled: BOOLEAN]
    BY DEF NotificationsInit, ChannelRow, NoTest
  <2>2. /\ notification \in [Notification -> NotificationState]
        /\ locked \in [Drain -> SUBSET Notification]
        /\ draining \in [Drain -> SUBSET Notification]
        /\ delivering \in [Deliverer -> {NoDelivery} \cup [id: Notification, ok: BOOLEAN]]
        /\ sent \in [Notification -> Nat]
    BY DEF NotificationsInit, NotificationState
  <2>3. /\ outbox = {} /\ posted = {} /\ secret = "NONE" /\ preferred = FALSE /\ losses = 0
    BY DEF NotificationsInit
  <2>4. 0 \in 0..MaxLosses
    BY NotificationAssumption
  <2> QED BY <2>1, <2>2, <2>3, <2>4 DEF NotificationsTypeOK
<1>2. RowsApart /\ OnePlace /\ PaidFor
  BY DEF NotificationsInit, RowsApart, OnePlace, PaidFor, Waiting, Drained, Delivering
<1> QED BY <1>1, <1>2 DEF NotificationsInv

(* Creating a notification, and queueing a confirmed event, put it in its  *)
(* first place.                                                            *)
LEMMA CreatingKeeps ==
  ASSUME NotificationsInv, NEW n \in Notification, QueueConfirmed(n) \/ CreateNotification(n)
  PROVE  NotificationsInv'
<1> USE NotificationAssumption DEF NotificationsInv, Waiting, Drained, Delivering
<1>1. CASE QueueConfirmed(n)
  <2>1. NotificationsTypeOK'
    BY <1>1 DEF QueueConfirmed, NotificationsTypeOK, channelVars, NotificationState
  <2>2. RowsApart'
    BY <1>1 DEF QueueConfirmed, RowsApart
  <2>3. OnePlace' /\ PaidFor'
    BY <1>1 DEF QueueConfirmed, OnePlace, PaidFor, NotificationsTypeOK
  <2> QED BY <2>1, <2>2, <2>3
<1>2. CASE CreateNotification(n)
  <2>1. NotificationsTypeOK'
    BY <1>2 DEF CreateNotification, NotificationsTypeOK, channelVars, NotificationState
  <2>2. RowsApart'
    BY <1>2 DEF CreateNotification, RowsApart
  <2>3. OnePlace'
    BY <1>2 DEF CreateNotification, OnePlace, NotificationsTypeOK
  <2>4. PaidFor'
    BY <1>2 DEF CreateNotification, PaidFor, NotificationsTypeOK
  <2> QED BY <2>1, <2>2, <2>3, <2>4
<1> QED BY <1>1, <1>2

(* A drain moves notifications from the outbox to the message broker, or   *)
(* forgets them.                                                           *)
LEMMA DrainingKeeps ==
  ASSUME NotificationsInv, NEW d \in Drain,
         LockOutbox(d) \/ PublishOutbox(d) \/ HandOver(d) \/ LoseDrain(d)
  PROVE  NotificationsInv'
<1> USE NotificationAssumption DEF NotificationsInv, Waiting, Drained, Delivering
<1>1. CASE LockOutbox(d)
  <2>1. NotificationsTypeOK'
    BY <1>1 DEF LockOutbox, NotificationsTypeOK, channelVars
  <2>2. RowsApart'
    BY <1>1 DEF LockOutbox, LockedRows, RowsApart, NotificationsTypeOK
  <2>3. OnePlace' /\ PaidFor'
    BY <1>1 DEF LockOutbox, OnePlace, PaidFor
  <2> QED BY <2>1, <2>2, <2>3
<1>2. CASE PublishOutbox(d)
  <2>1. NotificationsTypeOK'
    BY <1>2 DEF PublishOutbox, NotificationsTypeOK, channelVars
  <2>2. RowsApart'
    BY <1>2 DEF PublishOutbox, RowsApart, NotificationsTypeOK
  <2>3. OnePlace'
    BY <1>2 DEF PublishOutbox, OnePlace, RowsApart, NotificationsTypeOK
  <2>4. PaidFor'
    BY <1>2 DEF PublishOutbox, PaidFor, RowsApart, NotificationsTypeOK
  <2> QED BY <2>1, <2>2, <2>3, <2>4
<1>3. CASE HandOver(d)
  <2> PICK n \in draining[d] : /\ posted' = posted \cup {n}
                               /\ draining' = [draining EXCEPT ![d] = @ \ {n}]
    BY <1>3 DEF HandOver
  <2>1. UNCHANGED <<notification, outbox, locked, delivering, channelVars, sent, losses>>
    BY <1>3 DEF HandOver
  <2>2. NotificationsTypeOK'
    BY <2>1 DEF NotificationsTypeOK, channelVars
  <2>3. RowsApart'
    BY <2>1 DEF RowsApart, NotificationsTypeOK
  <2>4. OnePlace' /\ PaidFor'
    BY <2>1 DEF OnePlace, PaidFor, NotificationsTypeOK
  <2> QED BY <2>2, <2>3, <2>4
<1>4. CASE LoseDrain(d)
  <2>1. NotificationsTypeOK'
    BY <1>4 DEF LoseDrain, NotificationsTypeOK, channelVars
  <2>2. RowsApart'
    BY <1>4 DEF LoseDrain, RowsApart, NotificationsTypeOK
  <2>3. OnePlace' /\ PaidFor'
    BY <1>4 DEF LoseDrain, OnePlace, PaidFor, NotificationsTypeOK
  <2> QED BY <2>1, <2>2, <2>3
<1> QED BY <1>1, <1>2, <1>3, <1>4

(* A delivery sends at most once, and is repeated only when it was lost.   *)
LEMMA DeliveringKeeps ==
  ASSUME NotificationsInv, NEW w \in Deliverer,
         \/ \E n \in Notification : Deliver(w, n)
         \/ RecordDelivery(w) \/ LoseDelivery(w)
  PROVE  NotificationsInv'
<1> USE NotificationAssumption DEF NotificationsInv, Waiting, Drained, Delivering
<1>1. ASSUME NEW n \in Notification, Deliver(w, n) PROVE NotificationsInv'
  <2> PICK took \in BOOLEAN, answered \in BOOLEAN :
           /\ sent' = [sent EXCEPT ![n] = @ + (IF took THEN 1 ELSE 0)]
           /\ delivering' = [delivering EXCEPT ![w] = [id |-> n, ok |-> answered]]
    BY <1>1 DEF Deliver
  <2>1. /\ n \in posted /\ posted' = posted \ {n} /\ delivering[w] = NoDelivery
        /\ UNCHANGED <<notification, outbox, locked, draining, channelVars, losses>>
    BY <1>1 DEF Deliver
  <2>2. [id |-> n, ok |-> answered] # NoDelivery
    BY DEF NoDelivery
  <2>3. NotificationsTypeOK'
    BY <2>1 DEF NotificationsTypeOK, channelVars
  <2>4. RowsApart'
    BY <2>1 DEF RowsApart
  <2>5. OnePlace'
    BY <2>1, <2>2 DEF OnePlace, NotificationsTypeOK
  <2>6. PaidFor'
    BY <2>1 DEF OnePlace, PaidFor, NotificationsTypeOK
  <2> QED BY <2>3, <2>4, <2>5, <2>6
<1>2. CASE RecordDelivery(w)
  <2>1. delivering[w] # NoDelivery /\ delivering[w].id \in Notification
    BY <1>2, NotificationInHand DEF RecordDelivery
  <2>2. NotificationsTypeOK'
    BY <1>2, <2>1 DEF RecordDelivery, NotificationsTypeOK, channelVars, NotificationState
  <2>3. RowsApart'
    BY <1>2 DEF RecordDelivery, RowsApart
  <2>4. OnePlace'
    BY <1>2, <2>1 DEF RecordDelivery, OnePlace, NotificationsTypeOK
  <2>5. PaidFor'
    BY <1>2, <2>1 DEF RecordDelivery, PaidFor, NotificationsTypeOK
  <2> QED BY <2>2, <2>3, <2>4, <2>5
<1>3. CASE LoseDelivery(w)
  <2>1. delivering[w] # NoDelivery /\ delivering[w].id \in Notification
    BY <1>3, NotificationInHand DEF LoseDelivery
  <2>2. NotificationsTypeOK'
    BY <1>3, <2>1 DEF LoseDelivery, NotificationsTypeOK, channelVars
  <2>3. RowsApart'
    BY <1>3 DEF LoseDelivery, RowsApart
  <2>4. OnePlace'
    BY <1>3, <2>1 DEF LoseDelivery, OnePlace, NotificationsTypeOK
  <2>5. PaidFor'
    BY <1>3, <2>1 DEF LoseDelivery, PaidFor, NotificationsTypeOK
  <2> QED BY <2>2, <2>3, <2>4, <2>5
<1> QED BY <1>1, <1>2, <1>3

(* What is on its way does not depend on the channel's settings.           *)
LEMMA StayKeeps ==
  ASSUME NotificationsInv, UNCHANGED deliveryVars, NotificationsTypeOK'
  PROVE  NotificationsInv'
<1> UNCHANGED <<notification, outbox, locked, draining, posted, delivering, sent, losses>>
  BY DEF deliveryVars
<1>1. RowsApart'
  BY DEF NotificationsInv, RowsApart
<1>2. OnePlace'
  BY DEF NotificationsInv, OnePlace, Waiting, Drained, Delivering
<1>3. PaidFor'
  BY DEF NotificationsInv, PaidFor, Waiting, Drained
<1> QED BY <1>1, <1>2, <1>3 DEF NotificationsInv

LEMMA SettingKeeps ==
  ASSUME NotificationsInv,
         \/ CreateChannel \/ PatchChannel \/ DeleteChannel
         \/ StartChannelTest \/ FinishChannelTest \/ SavePreferences
  PROVE  NotificationsInv'
<1>1. UNCHANGED deliveryVars
  BY DEF CreateChannel, PatchChannel, DeleteChannel, StartChannelTest, FinishChannelTest,
         SavePreferences
<1>2. /\ channel \in ChannelRow /\ secret \in {"NONE", "ACTIVE", "DELETED"}
      /\ channelTest \in [open: BOOLEAN, enabled: BOOLEAN] /\ preferred \in BOOLEAN
  BY DEF NotificationsInv, NotificationsTypeOK
<1>3. \A on \in BOOLEAN : Shown(on) \in ChannelRow /\ [channel EXCEPT !.enabled = on] \in ChannelRow
  BY <1>2 DEF Shown, ChannelRow
<1>4. [state |-> "DELETED", enabled |-> FALSE] \in ChannelRow
      /\ \A on \in BOOLEAN : [open |-> TRUE, enabled |-> on] \in [open: BOOLEAN, enabled: BOOLEAN]
      /\ NoTest \in [open: BOOLEAN, enabled: BOOLEAN]
  BY DEF ChannelRow, NoTest
<1>5. channel.enabled \in BOOLEAN /\ channelTest.enabled \in BOOLEAN
  BY <1>2 DEF ChannelRow
<1>6. channel' \in ChannelRow /\ secret' \in {"NONE", "ACTIVE", "DELETED"}
  BY <1>2, <1>3, <1>4, <1>5
     DEF CreateChannel, PatchChannel, DeleteChannel, StartChannelTest, FinishChannelTest,
         SavePreferences
<1>7. channelTest' \in [open: BOOLEAN, enabled: BOOLEAN] /\ preferred' \in BOOLEAN
  BY <1>2, <1>4, <1>5
     DEF CreateChannel, PatchChannel, DeleteChannel, StartChannelTest, FinishChannelTest,
         SavePreferences
<1>8. NotificationsTypeOK'
  BY <1>1, <1>6, <1>7 DEF deliveryVars, NotificationsInv, NotificationsTypeOK
<1> QED BY <1>1, <1>8, StayKeeps

(* Every step keeps the invariant.                                         *)
LEMMA NotificationsStep == NotificationsInv /\ [NotificationsNext]_notificationVars => NotificationsInv'
<1> SUFFICES ASSUME NotificationsInv, [NotificationsNext]_notificationVars PROVE NotificationsInv'
  OBVIOUS
<1>1. ASSUME \/ CreateChannel \/ PatchChannel \/ DeleteChannel
             \/ StartChannelTest \/ FinishChannelTest \/ SavePreferences
      PROVE  NotificationsInv'
  BY <1>1, SettingKeeps
<1>2. CASE UNCHANGED notificationVars
  <2>1. UNCHANGED <<deliveryVars, channelVars>>
    BY <1>2 DEF notificationVars
  <2>2. NotificationsTypeOK'
    BY <2>1 DEF deliveryVars, channelVars, NotificationsInv, NotificationsTypeOK
  <2> QED BY <2>1, <2>2, StayKeeps
<1> QED BY <1>1, <1>2, CreatingKeeps, DrainingKeeps, DeliveringKeeps DEF NotificationsNext

----------------------------------------------------------------------------
(* The invariant holds of every behaviour of drains and deliveries.        *)
THEOREM NotificationsInvHolds == NotificationsSpec => []NotificationsInv
BY NotificationsStart, NotificationsStep, PTL DEF NotificationsSpec

(* Rows, outbox and the tasks that carry them keep their types.            *)
THEOREM NotificationsTypeCorrect == NotificationsSpec => []NotificationsTypeOK
<1>1. NotificationsInv => NotificationsTypeOK
  BY DEF NotificationsInv
<1> QED BY <1>1, NotificationsInvHolds, PTL

(* drain_notification_outbox and deliver_notification send one message for *)
(* a confirmed event, and one more for each delivery that was lost.        *)
THEOREM SentOnceEach == NotificationsSpec => []SentOnce
<1>1. NotificationsInv => SentOnce
  BY DEF NotificationsInv, PaidFor, SentOnce
<1> QED BY <1>1, NotificationsInvHolds, PTL

----------------------------------------------------------------------------
(***************************************************************************)
(* Background runs: the lock of the discovery schedule covers the read of  *)
(* today's runs and the insert.                                            *)
(***************************************************************************)

(* The lock of the discovery schedule: it has one holder, and while it has *)
(* one there is no discovery of today.                                     *)
OneHolder ==
  /\ \A s, z \in Scheduler : scheduler[s] = "DISCOVERY" /\ scheduler[z] = "DISCOVERY" => s = z
  /\ \A s \in Scheduler : scheduler[s] = "DISCOVERY" => Today("DISCOVERY") = {}

AllSame == \A q, r \in Today("DISCOVERY") : q = r

RunsInv == RunsTypeOK /\ OneHolder /\ AllSame

----------------------------------------------------------------------------
(* A row is the record of its fields, so that what a step writes to one of *)
(* them keeps the others.                                                  *)
LEMMA RowTyped ==
  ASSUME RunsTypeOK, NEW r \in Run
  PROVE  /\ run[r].state \in {"NONE", "QUEUED", "RUNNING", "DONE", "FAILED"}
         /\ run[r].scheduled \in BOOLEAN /\ run[r].old \in BOOLEAN
BY DEF RunsTypeOK, RunRow

LEMMA RowWritten ==
  ASSUME NEW row \in RunRow, NEW s \in {"NONE", "QUEUED", "RUNNING", "DONE", "FAILED"}
  PROVE  [row EXCEPT !.state = s, !.old = FALSE] \in RunRow
BY DEF RunRow

(* A busy worker executes a run.                                           *)
LEMMA RunInHand ==
  ASSUME RunsTypeOK, NEW w \in Executor, executor[w] # AtRest
  PROVE  executor[w].run \in Run /\ executor[w] = [run |-> executor[w].run]
BY DEF RunsTypeOK

(* Every step keeps the types.                                             *)
LEMMA RunsTypeStep == RunsTypeOK /\ [RunsNext]_runVars => RunsTypeOK'
<1> SUFFICES ASSUME RunsTypeOK, [RunsNext]_runVars PROVE RunsTypeOK'
  OBVIOUS
<1> USE RunAssumption DEF RunsTypeOK, Drop, Dispatch
<1>1. CASE UNCHANGED runVars
  BY <1>1 DEF runVars
<1>2. ASSUME NEW s \in Scheduler, NEW kind \in Kind, ReadSchedule(s, kind) PROVE RunsTypeOK'
  BY <1>2 DEF ReadSchedule
<1>3. ASSUME NEW s \in Scheduler, NEW r \in Run, WriteSchedule(s, r) PROVE RunsTypeOK'
  <2>1. run' \in [Run -> RunRow]
    BY <1>3 DEF WriteSchedule, RunRow
  <2> QED
    BY <2>1, <1>3 DEF WriteSchedule
<1>4. ASSUME NEW r \in Run, Request(r) PROVE RunsTypeOK'
  <2>1. run' \in [Run -> RunRow]
    BY <1>4, RowTyped DEF Request, RunRow
  <2> QED
    BY <2>1, <1>4 DEF Request
<1>5. ASSUME NEW r \in Run, ImportGrowsOld(r) \/ RecoverImport(r) PROVE RunsTypeOK'
  <2>1. CASE ImportGrowsOld(r)
    <3>1. run' \in [Run -> RunRow]
      BY <2>1, RowTyped DEF ImportGrowsOld, RunRow
    <3> QED
      BY <3>1, <2>1 DEF ImportGrowsOld
  <2>2. CASE RecoverImport(r)
    <3>1. [run[r] EXCEPT !.state = "QUEUED", !.old = FALSE] \in RunRow
      BY RowWritten
    <3>2. run' = [run EXCEPT ![r] = [run[r] EXCEPT !.state = "QUEUED", !.old = FALSE]]
      BY <2>2 DEF RecoverImport
    <3>3. run' \in [Run -> RunRow]
      BY <3>1, <3>2
    <3> QED
      BY <3>3, <2>2 DEF RecoverImport
  <2> QED
    BY <2>1, <2>2, <1>5
<1>6. ASSUME NEW r \in Run, PrepareAnnounced(r) \/ PrepareRecent(r) PROVE RunsTypeOK'
  BY <1>6 DEF PrepareAnnounced, PrepareRecent, Prepare
<1>7. ASSUME NEW w \in Executor, CompleteRun(w) PROVE RunsTypeOK'
  <2>1. run' \in [Run -> RunRow]
    BY <1>7, RowTyped, RunInHand DEF CompleteRun, RunRow
  <2> QED
    BY <2>1, <1>7, RunInHand DEF CompleteRun, SelectMarkets
<1>8. ASSUME NEW w \in Executor, FailRun(w) PROVE RunsTypeOK'
  <2>1. run' \in [Run -> RunRow]
    BY <1>8, RowTyped, RunInHand DEF FailRun, RunRow
  <2> QED
    BY <2>1, <1>8 DEF FailRun
<1>9. ASSUME NEW w \in Executor, LoseExecutor(w) PROVE RunsTypeOK'
  BY <1>9, RunInHand DEF LoseExecutor
<1>10. ASSUME NEW w \in Executor, NEW r \in Run, StartRun(w, r) PROVE RunsTypeOK'
  <2>1. [run[r] EXCEPT !.state = "RUNNING", !.old = FALSE] \in RunRow
    BY RowWritten
  <2>2. \/ run' = run
        \/ run' = [run EXCEPT ![r] = [run[r] EXCEPT !.state = "RUNNING", !.old = FALSE]]
    BY <1>10 DEF StartRun
  <2>3. run' \in [Run -> RunRow]
    BY <2>1, <2>2
  <2> QED
    BY <2>3, <1>10 DEF StartRun
<1> QED
  BY <1>1, <1>2, <1>3, <1>4, <1>5, <1>6, <1>7, <1>8, <1>9, <1>10 DEF RunsNext

(* The lock holders and the discoveries of today agree after every step:   *)
(* only the holder of the lock adds one, to a day without, and lets go.    *)
LEMMA RunsLockStep == RunsInv /\ [RunsNext]_runVars => OneHolder' /\ AllSame'
<1> SUFFICES ASSUME RunsInv, [RunsNext]_runVars PROVE OneHolder' /\ AllSame'
  OBVIOUS
<1>0. RunsTypeOK /\ OneHolder /\ AllSame
  BY DEF RunsInv
<1>a. ASSUME scheduler' = scheduler, \A r \in Run : run'[r].scheduled = run[r].scheduled
      PROVE  OneHolder' /\ AllSame'
  BY <1>0, <1>a DEF OneHolder, AllSame, Today, Of
<1>1. CASE UNCHANGED runVars
  BY <1>1, <1>a DEF runVars
<1>2. ASSUME NEW s \in Scheduler, NEW kind \in Kind, ReadSchedule(s, kind)
      PROVE  OneHolder' /\ AllSame'
  BY <1>0, <1>2 DEF ReadSchedule, RunsTypeOK, OneHolder, AllSame, Today, Of
<1>3. ASSUME NEW s \in Scheduler, NEW r \in Run, WriteSchedule(s, r)
      PROVE  OneHolder' /\ AllSame'
  <2>1. /\ scheduler[s] = KindOf[r]
        /\ scheduler' = [scheduler EXCEPT ![s] = Unused]
        /\ scheduler'[s] = Unused
    BY <1>0, <1>3 DEF WriteSchedule, RunsTypeOK
  <2>2. \A q \in Run \ {r} : run'[q] = run[q]
    BY <1>0, <1>3 DEF WriteSchedule, RunsTypeOK
  <2>3. \A z \in Scheduler : scheduler'[z] = "DISCOVERY" => z # s /\ scheduler[z] = "DISCOVERY"
    BY <1>0, <2>1 DEF RunsTypeOK, Unused
  <2>4. CASE KindOf[r] = "DISCOVERY"
    <3>1. Today("DISCOVERY") = {} /\ \A z \in Scheduler : scheduler'[z] # "DISCOVERY"
      BY <1>0, <2>1, <2>3, <2>4 DEF OneHolder
    <3>2. Today("DISCOVERY")' \subseteq {r}
      BY <2>2, <3>1 DEF Today, Of
    <3> QED
      BY <3>1, <3>2 DEF OneHolder, AllSame
  <2>5. CASE KindOf[r] # "DISCOVERY"
    <3>1. Today("DISCOVERY")' = Today("DISCOVERY")
      BY <2>2, <2>5 DEF Today, Of
    <3> QED
      BY <1>0, <2>3, <3>1 DEF OneHolder, AllSame
  <2> QED
    BY <2>4, <2>5
<1>4. ASSUME NEW r \in Run, Request(r) \/ ImportGrowsOld(r) \/ RecoverImport(r)
      PROVE  OneHolder' /\ AllSame'
  <2>1. \A q \in Run : run'[q].scheduled = run[q].scheduled
    BY <1>0, <1>4 DEF Request, ImportGrowsOld, RecoverImport, RunsTypeOK, RunRow
  <2> QED
    BY <2>1, <1>4, <1>a DEF Request, ImportGrowsOld, RecoverImport
<1>5. ASSUME NEW r \in Run, PrepareAnnounced(r) \/ PrepareRecent(r)
      PROVE  OneHolder' /\ AllSame'
  BY <1>5, <1>a DEF PrepareAnnounced, PrepareRecent, Prepare
<1>6. ASSUME NEW w \in Executor, CompleteRun(w) \/ FailRun(w) \/ LoseExecutor(w)
      PROVE  OneHolder' /\ AllSame'
  <2>1. \A q \in Run : run'[q].scheduled = run[q].scheduled
    BY <1>0, <1>6, RunInHand DEF CompleteRun, FailRun, LoseExecutor, RunsTypeOK, RunRow
  <2> QED
    BY <2>1, <1>6, <1>a DEF CompleteRun, FailRun, LoseExecutor
<1>7. ASSUME NEW w \in Executor, NEW r \in Run, StartRun(w, r)
      PROVE  OneHolder' /\ AllSame'
  <2>1. \A q \in Run : run'[q].scheduled = run[q].scheduled
    BY <1>0, <1>7 DEF StartRun, RunsTypeOK, RunRow
  <2> QED
    BY <2>1, <1>7, <1>a DEF StartRun
<1> QED
  BY <1>1, <1>2, <1>3, <1>4, <1>5, <1>6, <1>7 DEF RunsNext

(* Every reachable state satisfies the invariant.                          *)
THEOREM RunsInvHolds == RunsSpec => []RunsInv
<1>1. RunsInit => RunsInv
  <2> SUFFICES ASSUME RunsInit PROVE RunsInv
    OBVIOUS
  <2>1. RunsTypeOK
    BY RunAssumption DEF RunsInit, RunsTypeOK, RunRow
  <2>2. Today("DISCOVERY") = {} /\ \A s \in Scheduler : scheduler[s] # "DISCOVERY"
    BY DEF RunsInit, Today, Of, Unused
  <2> QED
    BY <2>1, <2>2 DEF RunsInv, OneHolder, AllSame
<1>2. RunsInv /\ [RunsNext]_runVars => RunsInv'
  BY RunsTypeStep, RunsLockStep DEF RunsInv
<1> QED
  BY <1>1, <1>2, PTL DEF RunsSpec

(* Type invariant of the rows and of the tasks that hold them, for any     *)
(* number of runs, workers and losses.                                     *)
THEOREM RunsTypeCorrect == RunsSpec => []RunsTypeOK
BY RunsInvHolds, PTL DEF RunsInv

(* However many scheduling tasks overlap, they create one discovery for    *)
(* the day: the schedule's lock covers the read and the insert.            *)
THEOREM DiscoveredOnce == RunsSpec => []OneDiscoveryADay
<1>1. RunsInv => OneDiscoveryADay
  <2> SUFFICES ASSUME RunsInv PROVE Cardinality(Today("DISCOVERY")) <= 1
    BY DEF OneDiscoveryADay
  <2>1. CASE Today("DISCOVERY") = {}
    BY <2>1, FS_EmptySet
  <2>2. CASE Today("DISCOVERY") # {}
    <3>1. PICK r : Today("DISCOVERY") = {r}
      BY <2>2 DEF RunsInv, AllSame
    <3>2. Cardinality({r}) = 1
      BY FS_Singleton
    <3> QED
      BY <3>1, <3>2
  <2> QED
    BY <2>1, <2>2
<1> QED
  BY <1>1, RunsInvHolds, PTL

----------------------------------------------------------------------------
(***************************************************************************)
(* The journal: events are journaled in the order they were recorded,      *)
(* whoever journals them.                                                  *)
(***************************************************************************)

(* Events are journaled in the order they were recorded, whoever journals  *)
(* them: what is missing before an event is missing from its own batch.    *)
InOrder ==
  /\ \A e \in journaled, d \in DOMAIN log : d < e => d \in journaled
  /\ \A p \in Projector : \A e \in projector[p], d \in DOMAIN log :
       d < e => d \in journaled \/ d \in projector[p]

(* A summary is of entries, and was made when the trade had closed.        *)
SummariesAreOfEntries ==
  /\ \A t \in Trade : summary[t] \subseteq OfTrade(t) \cap journaled
  /\ \A e \in DOMAIN log : log[e].closed => log[e].trade \in Trade

JournalInv == JournalTypeOK /\ InOrder /\ SummariesAreOfEntries /\ SummaryCoversTrade

----------------------------------------------------------------------------
LEMMA JournalStart == JournalInit => JournalInv
<1> SUFFICES ASSUME JournalInit PROVE JournalInv
  OBVIOUS
<1>1. log = <<>> /\ DOMAIN log = {} /\ Len(log) = 0
  BY DEF JournalInit
<1>2. JournalTypeOK
  BY <1>1, JournalAssumption DEF JournalInit, JournalTypeOK
<1> QED BY <1>1, <1>2 DEF JournalInit, JournalInv, InOrder, SummariesAreOfEntries, SummaryCoversTrade

(* Events are only added, behind those there are.                          *)
LEMMA LogOnlyGrows ==
  ASSUME JournalTypeOK, NEW event \in EventOf, Record(event)
  PROVE  /\ log' \in Seq(EventOf) /\ Len(log') = Len(log) + 1 /\ Len(log') <= MaxEvents
         /\ DOMAIN log = 1..Len(log) /\ DOMAIN log' = 1..Len(log) + 1
         /\ \A e \in DOMAIN log : log'[e] = log[e]
         /\ log'[Len(log) + 1] = event
BY JournalAssumption DEF JournalTypeOK, Record

LEMMA Recording ==
  ASSUME JournalInv, NEW event \in EventOf, Record(event)
  PROVE  JournalInv'
<1>1. JournalTypeOK
  BY DEF JournalInv
<1> DEFINE n == Len(log) + 1
<1>2. /\ log' \in Seq(EventOf) /\ Len(log') <= MaxEvents /\ n \in Nat
      /\ DOMAIN log \subseteq DOMAIN log' /\ DOMAIN log' = DOMAIN log \cup {n}
      /\ \A e \in DOMAIN log : log'[e] = log[e] /\ e \in Nat /\ e < n
      /\ log'[n] = event
  <2>1. /\ log' \in Seq(EventOf) /\ Len(log') <= MaxEvents
        /\ DOMAIN log = 1..Len(log) /\ DOMAIN log' = 1..n
        /\ \A e \in DOMAIN log : log'[e] = log[e]
        /\ log'[n] = event
    BY <1>1, LogOnlyGrows
  <2>2. Len(log) \in Nat
    BY <1>1 DEF JournalTypeOK
  <2>3. 1..n = 1..Len(log) \cup {n} /\ n \in Nat
    BY <2>2
  <2>4. \A e \in 1..Len(log) : e \in Nat /\ e < n
    BY <2>2
  <2> HIDE DEF n
  <2> QED BY <2>1, <2>3, <2>4
<1> HIDE DEF n
<1>3. UNCHANGED <<journaled, summary, indexRequest, source, projector, indexer, fails>>
  BY DEF Record
<1>4. JournalTypeOK'
  BY <1>1, <1>2, <1>3 DEF JournalTypeOK
<1>5. journaled \subseteq DOMAIN log /\ \A p \in Projector : projector[p] \subseteq DOMAIN log
  BY <1>1 DEF JournalTypeOK
<1>6. InOrder'
  BY <1>2, <1>3, <1>5 DEF JournalInv, InOrder
<1>7. \A t \in Trade : OfTrade(t) \subseteq OfTrade(t)' /\ OfTrade(t)' \subseteq OfTrade(t) \cup {n}
                       /\ OfTrade(t) \subseteq DOMAIN log
  BY <1>2 DEF OfTrade
<1>8. SummariesAreOfEntries'
  <2>1. event.closed => event.trade \in Trade
    BY DEF Record, EventOf
  <2>2. \A t \in Trade : summary[t] \subseteq OfTrade(t)' \cap journaled
    BY <1>7 DEF JournalInv, SummariesAreOfEntries
  <2> QED BY <1>2, <1>3, <2>1, <2>2 DEF JournalInv, SummariesAreOfEntries
<1>9. SummaryCoversTrade'
  <2> SUFFICES ASSUME NEW t \in Trade, summary[t] # {}
               PROVE  /\ \E e \in summary[t] : log'[e].closed
                      /\ \A e \in summary[t] : \A d \in OfTrade(t)' : d < e => d \in summary[t]
    BY <1>3 DEF SummaryCoversTrade
  <2>1. summary[t] \subseteq DOMAIN log
    BY <1>7 DEF JournalInv, SummariesAreOfEntries
  <2>2. /\ \E e \in summary[t] : log[e].closed
        /\ \A e \in summary[t] : \A d \in OfTrade(t) : d < e => d \in summary[t]
    BY DEF JournalInv, SummaryCoversTrade
  <2>3. \E e \in summary[t] : log'[e].closed
    BY <1>2, <2>1, <2>2
  <2>4. \A e \in summary[t] : e \in Nat /\ e < n
    BY <1>2, <2>1
  <2> QED BY <1>2, <1>7, <2>2, <2>3, <2>4
<1> QED BY <1>4, <1>6, <1>8, <1>9 DEF JournalInv

(* A batch is the oldest that is missing: an older one that is missing is  *)
(* in the same batch.                                                      *)
LEMMA BatchIsOldest ==
  ASSUME JournalTypeOK, NEW e \in Pending, NEW d \in DOMAIN log, d < e, d \notin journaled
  PROVE  d \in Pending
<1> DEFINE Before(x) == {c \in Oldest \ journaled : c < x}
<1>1. DOMAIN log = 1..Len(log) /\ Len(log) \in Nat
  BY DEF JournalTypeOK
<1>2. d \in Nat /\ e \in Nat /\ e \in Oldest /\ Factor \in Nat /\ Batch \in Nat
  BY <1>1, JournalAssumption DEF Pending, Oldest
<1>3. d \in Oldest \ journaled
  <2>1. Factor * Batch \in Nat
    BY <1>2
  <2>2. e <= Factor * Batch
    BY <1>2 DEF Oldest
  <2> HIDE DEF Oldest
  <2>3. d <= Factor * Batch
    BY <1>2, <2>1, <2>2
  <2> QED BY <2>3 DEF Oldest
<1>4. Before(d) \subseteq Before(e)
  BY <1>1, <1>2 DEF Oldest
<1>5. Before(e) \subseteq 1..Len(log)
  BY <1>1 DEF Oldest
<1>6. IsFiniteSet(1..Len(log))
  BY <1>1, FS_Interval
<1>7. IsFiniteSet(Before(e)) /\ IsFiniteSet(Before(d))
      /\ Cardinality(Before(d)) <= Cardinality(Before(e))
  <2> HIDE DEF Before
  <2>1. IsFiniteSet(Before(e))
    BY <1>5, <1>6, FS_Subset
  <2> QED BY <1>4, <2>1, FS_Subset
<1>8. Cardinality(Before(e)) < Batch
  BY DEF Pending
<1>9. Cardinality(Before(d)) \in Nat /\ Cardinality(Before(e)) \in Nat
  BY <1>7, FS_CardinalityType
<1>10. Cardinality(Before(d)) < Batch
  <2> HIDE DEF Before
  <2> QED BY <1>2, <1>7, <1>8, <1>9
<1> QED BY <1>3, <1>10 DEF Pending

LEMMA Selecting ==
  ASSUME JournalInv, NEW p \in Projector, SelectPending(p)
  PROVE  JournalInv'
<1>1. /\ projector' = [projector EXCEPT ![p] = Pending]
      /\ UNCHANGED <<log, journaled, summary, indexRequest, source, indexer, fails>>
      /\ JournalTypeOK /\ projector \in [Projector -> SUBSET DOMAIN log]
      /\ Pending \subseteq DOMAIN log
  BY DEF SelectPending, JournalInv, JournalTypeOK, Pending, Oldest
<1>2. \A q \in Projector : projector'[q] = IF q = p THEN Pending ELSE projector[q]
  BY <1>1
<1>3. projector' \in [Projector -> SUBSET DOMAIN log]
  BY <1>1
<1>4. JournalTypeOK'
  BY <1>1, <1>3 DEF JournalTypeOK
<1>5. InOrder'
  <2>1. \A e \in Pending, d \in DOMAIN log : d < e => d \in journaled \/ d \in Pending
    BY <1>1, BatchIsOldest
  <2> QED BY <1>1, <1>2, <2>1 DEF JournalInv, InOrder
<1>6. SummariesAreOfEntries' /\ SummaryCoversTrade'
  BY <1>1 DEF JournalInv, SummariesAreOfEntries, SummaryCoversTrade, OfTrade
<1> QED BY <1>4, <1>5, <1>6 DEF JournalInv

(* The oldest of a batch has everything before it journaled; the summary   *)
(* that comes with it is of all of them.                                   *)
LEMMA Projecting ==
  ASSUME JournalInv, NEW p \in Projector, Project(p)
  PROVE  JournalInv'
<1>1. PICK e \in NextOf(p) :
        /\ projector' = [projector EXCEPT ![p] = @ \ {e}]
        /\ \/ e \in journaled /\ UNCHANGED <<journaled, summary, indexRequest>>
           \/ /\ e \notin journaled /\ journaled' = journaled \cup {e}
              /\ LET t == log[e].trade
                     closes == log[e].closed /\ summary[t] = {}
                 IN /\ summary' = IF closes THEN [summary EXCEPT ![t] = OfTrade(t) \cap journaled']
                                  ELSE summary
                    /\ indexRequest' = indexRequest \cup {e} \cup (IF closes THEN {t} ELSE {})
  BY DEF Project
<1>2. UNCHANGED <<log, source, indexer, fails>>
  BY DEF Project
<1> DEFINE t == log[e].trade
<1>3. /\ JournalTypeOK /\ DOMAIN log = 1..Len(log) /\ Len(log) \in Nat /\ Len(log) <= MaxEvents
      /\ e \in projector[p] /\ \A d \in projector[p] : e <= d
      /\ projector \in [Projector -> SUBSET DOMAIN log]
      /\ summary \in [Trade -> SUBSET DOMAIN log] /\ journaled \subseteq DOMAIN log
  BY DEF JournalInv, JournalTypeOK, NextOf
<1>4. /\ e \in DOMAIN log
      /\ log[e].closed => t \in Trade
      /\ DOMAIN log \subseteq EventId
  BY <1>3, JournalAssumption DEF JournalInv, SummariesAreOfEntries, EventId
<1>5. \A d \in DOMAIN log : d < e => d \in journaled
  BY <1>3, <1>4 DEF JournalInv, InOrder
<1>6. /\ journaled' = journaled \cup {e}
      /\ \A q \in Projector : projector'[q] = IF q = p THEN projector[p] \ {e} ELSE projector[q]
      /\ projector' \in [Projector -> SUBSET DOMAIN log]
  BY <1>1, <1>3
<1> DEFINE closes == log[e].closed /\ summary[t] = {}
<1>7. \/ UNCHANGED summary /\ indexRequest' \subseteq indexRequest \cup {e}
      \/ /\ t \in Trade /\ log[e].closed
         /\ summary' = [summary EXCEPT ![t] = OfTrade(t) \cap journaled']
         /\ indexRequest' = indexRequest \cup {e} \cup {t}
  <2>1. CASE e \in journaled
    BY <1>1, <2>1
  <2>2. CASE e \notin journaled /\ closes
    <3>1. t \in Trade /\ log[e].closed
      BY <1>4, <2>2
    <3>2. /\ summary' = [summary EXCEPT ![t] = OfTrade(t) \cap journaled']
          /\ indexRequest' = indexRequest \cup {e} \cup {t}
      BY <1>1, <2>2
    <3> QED BY <3>1, <3>2
  <2>3. CASE e \notin journaled /\ ~closes
    BY <1>1, <2>3
  <2> QED BY <2>1, <2>2, <2>3
<1> HIDE DEF t
<1>8. \/ UNCHANGED summary
      \/ /\ t \in Trade /\ log[e].closed /\ t = log[e].trade
         /\ summary' \in [Trade -> SUBSET DOMAIN log]
         /\ \A s \in Trade : summary'[s] = IF s = t THEN OfTrade(t) \cap journaled' ELSE summary[s]
  <2>1. OfTrade(t) \subseteq DOMAIN log
    BY DEF OfTrade
  <2> QED BY <1>3, <1>7, <2>1 DEF t
<1> HIDE DEF closes
<1>9. JournalTypeOK'
  <2>1. indexRequest' \subseteq Document
    <3>1. indexRequest \subseteq Document
      BY <1>3 DEF JournalTypeOK
    <3>2. e \in Document /\ Trade \subseteq Document
      BY <1>4 DEF Document
    <3> QED BY <1>7, <3>1, <3>2
  <2> QED BY <1>2, <1>3, <1>4, <1>6, <1>8, <2>1 DEF JournalTypeOK
<1>10. InOrder'
  <2>1. \A x \in journaled', d \in DOMAIN log : d < x => d \in journaled'
    BY <1>5, <1>6 DEF JournalInv, InOrder
  <2>2. \A q \in Projector : \A x \in projector'[q], d \in DOMAIN log :
          d < x => d \in journaled' \/ d \in projector'[q]
    BY <1>6 DEF JournalInv, InOrder
  <2> QED BY <1>2, <2>1, <2>2 DEF InOrder
<1>11. \A s \in Trade : OfTrade(s)' = OfTrade(s)
  BY <1>2 DEF OfTrade
<1>12. SummariesAreOfEntries'
  BY <1>2, <1>6, <1>8, <1>11 DEF JournalInv, SummariesAreOfEntries
<1>13. SummaryCoversTrade'
  <2> SUFFICES ASSUME NEW s \in Trade, summary'[s] # {}
               PROVE  /\ \E x \in summary'[s] : log[x].closed
                      /\ \A x \in summary'[s] : \A d \in OfTrade(s) : d < x => d \in summary'[s]
    BY <1>2, <1>11 DEF SummaryCoversTrade
  <2>1. CASE summary'[s] = summary[s]
    BY <2>1 DEF JournalInv, SummaryCoversTrade
  <2>2. CASE summary'[s] = OfTrade(s) \cap journaled' /\ log[e].closed /\ s = log[e].trade
    <3>1. e \in OfTrade(s) /\ e \in journaled'
      BY <1>4, <1>6, <2>2 DEF OfTrade
    <3>2. \A x \in journaled', d \in OfTrade(s) : d < x => d \in journaled'
      BY <1>2, <1>10 DEF InOrder, OfTrade
    <3> QED BY <2>2, <3>1, <3>2
  <2> QED BY <1>8, <2>1, <2>2
<1> QED BY <1>9, <1>10, <1>12, <1>13 DEF JournalInv

(* Indexing, and giving up, touch neither entries nor summaries.           *)
LEMMA OthersLeaveEntries ==
  ASSUME JournalInv,
         \/ \E p \in Projector : AbandonProjection(p)
         \/ \E x \in Indexer : LockRequests(x) \/ CommitIndex(x) \/ RollBackIndex(x)
         \/ UNCHANGED journalVars
  PROVE  JournalInv'
<1>1. UNCHANGED <<log, journaled, summary>>
  BY DEF AbandonProjection, LockRequests, CommitIndex, RollBackIndex, journalVars
<1>2. SummariesAreOfEntries' /\ SummaryCoversTrade'
  BY <1>1 DEF JournalInv, SummariesAreOfEntries, SummaryCoversTrade, OfTrade
<1>3. JournalTypeOK
  BY DEF JournalInv
<1>4. ASSUME NEW p \in Projector, AbandonProjection(p) PROVE JournalInv'
  <2>1. /\ projector' = [projector EXCEPT ![p] = {}]
        /\ UNCHANGED <<indexRequest, source, indexer>>
        /\ fails' = fails \/ (fails < MaxFails /\ fails' = fails + 1)
    BY <1>4 DEF AbandonProjection
  <2>2. /\ projector' \in [Projector -> SUBSET DOMAIN log]
        /\ \A q \in Projector : projector'[q] = IF q = p THEN {} ELSE projector[q]
    BY <1>3, <2>1 DEF JournalTypeOK
  <2>3. fails' \in 0..MaxFails
    BY <1>3, <2>1, JournalAssumption DEF JournalTypeOK
  <2>4. JournalTypeOK'
    BY <1>1, <1>3, <2>1, <2>2, <2>3 DEF JournalTypeOK
  <2>5. InOrder'
    BY <1>1, <2>2 DEF JournalInv, InOrder
  <2> QED BY <1>2, <2>4, <2>5 DEF JournalInv
<1>5. ASSUME NEW x \in Indexer, LockRequests(x) \/ CommitIndex(x) \/ RollBackIndex(x)
      PROVE  JournalInv'
  <2>1. PICK batch \in SUBSET Document : indexer' = [indexer EXCEPT ![x] = batch]
    <3>1. indexRequest \subseteq Document /\ {} \in SUBSET Document
      BY <1>3 DEF JournalTypeOK
    <3>2. CASE LockRequests(x)
      <4>1. PICK batch \in SUBSET (indexRequest \ Locked) : indexer' = [indexer EXCEPT ![x] = batch]
        BY <3>2 DEF LockRequests
      <4> QED BY <3>1, <4>1
    <3>3. CASE CommitIndex(x) \/ RollBackIndex(x)
      BY <3>1, <3>3 DEF CommitIndex, RollBackIndex
    <3> QED BY <1>5, <3>2, <3>3
  <2>2. indexer' \in [Indexer -> SUBSET Document]
    BY <1>3, <2>1 DEF JournalTypeOK
  <2>3. indexRequest' \subseteq Document /\ source' \subseteq Document
    <3>1. /\ indexRequest' \subseteq indexRequest /\ source' \subseteq source \cup indexer[x]
          /\ indexer[x] \subseteq Document
      BY <1>3, <1>5 DEF LockRequests, CommitIndex, RollBackIndex, JournalTypeOK
    <3> QED BY <1>3, <3>1 DEF JournalTypeOK
  <2>4. projector' = projector /\ (fails' = fails \/ (fails < MaxFails /\ fails' = fails + 1))
    BY <1>5 DEF LockRequests, CommitIndex, RollBackIndex
  <2>5. fails' \in 0..MaxFails
    BY <1>3, <2>4, JournalAssumption DEF JournalTypeOK
  <2>6. JournalTypeOK' /\ InOrder'
    BY <1>1, <1>3, <2>2, <2>3, <2>4, <2>5 DEF JournalTypeOK, JournalInv, InOrder
  <2> QED BY <1>2, <2>6 DEF JournalInv
<1>6. CASE UNCHANGED journalVars
  BY <1>1, <1>2, <1>3, <1>6 DEF journalVars, JournalInv, JournalTypeOK, InOrder
<1> QED BY <1>4, <1>5, <1>6

LEMMA JournalStep == JournalInv /\ [JournalNext]_journalVars => JournalInv'
BY Recording, Selecting, Projecting, OthersLeaveEntries DEF JournalNext

(* Type invariant of the audit log, the entries and the summaries.         *)
THEOREM JournalTypeCorrect == JournalSpec => []JournalTypeOK
<1>1. JournalSpec => []JournalInv
  BY JournalStart, JournalStep, PTL DEF JournalSpec
<1>2. JournalInv => JournalTypeOK
  BY DEF JournalInv
<1> QED BY <1>1, <1>2, PTL

(* tasks/operations.py: the summary of a closed trade holds an event that  *)
(* closed it and every earlier event of the trade, however many            *)
(* projections overlap and wherever they are abandoned.                    *)
THEOREM SummariesAreComplete == JournalSpec => []SummaryCoversTrade
<1>1. JournalSpec => []JournalInv
  BY JournalStart, JournalStep, PTL DEF JournalSpec
<1>2. JournalInv => SummaryCoversTrade
  BY DEF JournalInv
<1> QED BY <1>1, <1>2, PTL

----------------------------------------------------------------------------
(***************************************************************************)
(* Research: a lane is passed by everybody or settled by who did not, and  *)
(* what is taken when a lane is ranked is what the winners before it take. *)
(***************************************************************************)

(* The best candidate is one, and none has a higher score.                 *)
LEMMA BestLeads ==
  ASSUME NEW S, S \subseteq Nat, S # {}, NEW score \in Scores(S)
  PROVE  Best(score) \in S /\ \A t \in S : score[t] <= score[Best(score)]
<1>1. DOMAIN score = S /\ \A s \in S : score[s] \in Nat /\ score[s] <= TopScore
  BY DEF Scores, TopScore
<1> DEFINE Behind == {TopScore - score[s] : s \in S}
<1>2. Behind \subseteq Nat /\ Behind # {}
  <2>1. ASSUME NEW s \in S PROVE TopScore - score[s] \in Nat
    BY <1>1 DEF TopScore
  <2> QED BY <2>1
<1>3. PICK x \in Behind : \A y \in Behind : x <= y
  BY <1>2, LeastMember
<1>4. PICK lead \in S : x = TopScore - score[lead]
  OBVIOUS
<1>5. \A t \in S : score[t] <= score[lead]
  <2> SUFFICES ASSUME NEW t \in S PROVE score[t] <= score[lead]
    OBVIOUS
  <2>1. TopScore - score[t] \in Behind
    OBVIOUS
  <2>2. TopScore - score[lead] <= TopScore - score[t]
    BY <1>3, <1>4, <2>1
  <2> QED BY <1>1, <2>2 DEF TopScore
<1> DEFINE Leading == {s \in S : score[s] = score[lead]}
<1>6. PICK first \in Leading : \A y \in Leading : first <= y
  BY LeastMember
<1>7. first \in S /\ \A t \in S : score[t] < score[first] \/ (score[t] = score[first] /\ first <= t)
  <2> SUFFICES ASSUME NEW t \in S
               PROVE  score[t] < score[first] \/ (score[t] = score[first] /\ first <= t)
    OBVIOUS
  <2>1. score[first] = score[lead] /\ score[t] <= score[lead]
    BY <1>5
  <2>2. CASE score[t] = score[lead]
    BY <1>6, <2>1, <2>2
  <2>3. CASE score[t] # score[lead]
    BY <1>1, <2>1, <2>3
  <2> QED BY <2>2, <2>3
<1> HIDE DEF Leading, Behind
<1> DEFINE best == Best(score)
<1>8. best \in S /\ \A t \in S : score[t] < score[best] \/ (score[t] = score[best] /\ best <= t)
  BY <1>1, <1>7 DEF Best
<1> HIDE DEF best
<1>9. \A t \in S : score[t] <= score[best]
  BY <1>1, <1>8
<1> QED BY <1>8, <1>9 DEF best

(* However large an offer, a score stays on the scale and within the drift *)
(* of what was measured.                                                   *)
LEMMA AdjustmentsAreBounded ==
  ASSUME NEW base \in 0..TopScore, NEW score \in 0..TopScore, NEW offer \in Int
  PROVE  /\ Adjust(base, score, offer) \in 0..TopScore
         /\ Adjust(base, score, offer) - base \in -MaxDrift..MaxDrift
<1>1. Bounded(offer) \in Int
  BY DEF Bounded, Most, Least, MaxStep
<1> QED BY <1>1 DEF Adjust, Most, Least, MaxDrift, TopScore

(* What a shared market costs: two steps at least, and nothing where       *)
(* nothing is shared.                                                      *)
LEMMA Penalties ==
  ASSUME NEW s \in Symbol
  PROVE  /\ Penalty(s) \in 0..MaxDrift
         /\ Underlying[s] \in taken => Penalty(s) >= 2
         /\ Takes(s) \cap taken = {} => Penalty(s) = 0
<1>1. IsFiniteSet(Exposure[s] \cap taken)
  BY WorkflowAssumption, FS_Subset
<1> DEFINE n == Cardinality(Exposure[s] \cap taken)
<1>2. n \in Nat
  BY <1>1, FS_CardinalityType
<1>3. Takes(s) \cap taken = {} => n = 0 /\ Underlying[s] \notin taken
  <2>1. Takes(s) \cap taken = {} => Exposure[s] \cap taken = {} /\ Underlying[s] \notin taken
    BY DEF Takes
  <2> QED BY <2>1, FS_EmptySet
<1> HIDE DEF n
<1> QED BY <1>2, <1>3 DEF Penalty, Least, MaxDrift, n

----------------------------------------------------------------------------
Word == {"PASS", "REASSESS", "UNAVAILABLE"}
Score == UNION {Scores(S) : S \in SUBSET Symbol}
LaneResult ==
  [lane: Nat, status: LaneStatus, reviews: Seq(Word), measured: Score, score: Score, winner: Nat]

(* No score is further from the measured one than the drift.               *)
Drifted(base, score) ==
  /\ DOMAIN score = DOMAIN base /\ DOMAIN base # {}
  /\ \A s \in DOMAIN base : score[s] - base[s] \in -MaxDrift..MaxDrift

CycleTyped ==
  /\ WorkflowTypeOK
  /\ results \in Seq(LaneResult) /\ reviews \in Seq(Word)
  /\ measured \in Score /\ adjusted \in Score

(* Results come in the order of the lanes, and a READY one was passed by   *)
(* everybody.                                                              *)
ResultsInOrder ==
  /\ Len(results) = at - 1
  /\ \A i \in DOMAIN results :
       /\ results[i].lane = Requested[i]
       /\ results[i].status = "READY" <=> Unanimous(results[i])
       /\ results[i].status = "READY" => Drifted(results[i].measured, results[i].score)

(* Everybody who has reviewed the lane at hand passed it.                  *)
LaneAtHand ==
  byLane /\ at <= Len(Requested) /\ turn > 0 =>
    /\ Len(reviews) = turn - 1 /\ \A k \in DOMAIN reviews : reviews[k] = "PASS"
    /\ Drifted(measured, adjusted)

(* What is taken is what the winners so far take; a winner was a candidate *)
(* and a lane that is still to be ranked has none.                         *)
Won(k) == results[k].winner
WinnersTake ==
  /\ \A i \in ranking : results[i].status = "READY" /\ Won(i) = 0
  /\ \A i \in DOMAIN results : Won(i) # 0 => Takes(Won(i)) \subseteq taken
  /\ \A x \in taken : \E i \in DOMAIN results : Won(i) # 0 /\ x \in Takes(Won(i))

FreeFor(s, k) == \A m \in DOMAIN results \ {k} : Won(m) # 0 => Takes(s) \cap Takes(Won(m)) = {}
Ahead(k) ==
  LET score == results[k].score IN
  \A s \in DOMAIN score : FreeFor(s, k) => score[Won(k)] >= score[s] + 2 \/ score[s] = 0

CategoriesSettled ==
  /\ byLane \/ turn < 2 => picked = {}
  /\ byLane \/ turn = 0 => missing = {}
  /\ picked \cap todo = {} /\ missing \cap todo = {}
  /\ ~byLane /\ turn > 0 => picked \cup missing \cup todo = Category
  /\ CategoriesAreDecided

CycleInv ==
  CycleTyped /\ ResultsInOrder /\ LaneAtHand /\ WinnersTake /\ SharedOnlyIfAhead /\ CategoriesSettled

LEMMA ScoresOf ==
  ASSUME NEW score
  PROVE  score \in Score <=> DOMAIN score \subseteq Symbol /\ score \in Scores(DOMAIN score)
BY DEF Score, Scores

LEMMA NoScores == Empty \in Score /\ DOMAIN Empty = {}
<1>1. DOMAIN Empty = {} /\ Empty \in Scores({})
  BY DEF Empty, Scores
<1> QED BY <1>1 DEF Score

LEMMA CycleStart == WorkflowInit => CycleInv
<1> SUFFICES ASSUME WorkflowInit PROVE CycleInv
  OBVIOUS
<1>1. results = <<>> /\ Len(results) = 0 /\ DOMAIN results = {} /\ reviews = <<>>
      /\ Len(Requested) \in Nat /\ Analysts \in Nat
  BY WorkflowAssumption DEF WorkflowInit
<1>2. WorkflowTypeOK
  <2>1. turn \in 0..Analysts + 1 /\ at \in 1..Len(Requested) + 1
    BY <1>1 DEF WorkflowInit
  <2>2. /\ DOMAIN measured \subseteq Symbol /\ measured \in Scores(DOMAIN measured)
        /\ adjusted \in Scores(DOMAIN measured)
    BY NoScores, ScoresOf DEF WorkflowInit
  <2> QED BY <1>1, <2>1, <2>2 DEF WorkflowInit, WorkflowTypeOK
<1>3. CycleTyped
  BY <1>1, <1>2, NoScores DEF WorkflowInit, CycleTyped
<1>4. ResultsInOrder /\ LaneAtHand /\ WinnersTake /\ SharedOnlyIfAhead
  BY <1>1 DEF WorkflowInit, ResultsInOrder, LaneAtHand, WinnersTake, SharedOnlyIfAhead
<1>5. CategoriesSettled
  BY DEF WorkflowInit, CategoriesSettled, CategoriesAreDecided
<1> QED BY <1>3, <1>4, <1>5 DEF CycleInv

(* A lane gets its result: as READY one that everybody passed, or as       *)
(* another that somebody did not.                                          *)
LEMMA LaneSettled ==
  ASSUME CycleInv, AtLane, NEW status \in LaneStatus, NextLane(status),
         UNCHANGED <<byLane, taken, categoryVars>>,
         reviews' \in Seq(Word), measured' \in Score, adjusted' \in Score,
         DOMAIN adjusted' = DOMAIN measured',
         status = "READY" <=> Len(reviews') = Analysts + 1
                              /\ \A k \in DOMAIN reviews' : reviews'[k] = "PASS",
         status = "READY" => Drifted(measured', adjusted')
  PROVE  CycleInv'
<1> DEFINE row == [lane |-> Requested[at], status |-> status, reviews |-> reviews',
                   measured |-> measured', score |-> adjusted', winner |-> 0]
           n == Len(results)
<1>1. /\ at <= Len(Requested) /\ at \in 1..Len(Requested) + 1 /\ Len(Requested) \in Nat
      /\ results \in Seq(LaneResult) /\ n = at - 1 /\ ranking \subseteq DOMAIN results
      /\ at \in Nat /\ Analysts \in Nat
  BY WorkflowAssumption DEF AtLane, CycleInv, CycleTyped, WorkflowTypeOK, ResultsInOrder
<1>2. row \in LaneResult
  <2>1. Requested[at] \in Nat
    BY <1>1, WorkflowAssumption
  <2> QED BY <2>1 DEF LaneResult
<1>3. /\ row.lane = Requested[at] /\ row.status = status /\ row.reviews = reviews'
      /\ row.measured = measured' /\ row.score = adjusted' /\ row.winner = 0
  OBVIOUS
<1>4. /\ results' = Append(results, row) /\ at' = at + 1 /\ turn' = 0
      /\ ranking' = IF status = "READY" THEN ranking \cup {n + 1} ELSE ranking
  BY DEF NextLane, Result
<1> HIDE DEF row
<1>5. /\ results' \in Seq(LaneResult) /\ DOMAIN results = 1..n /\ DOMAIN results' = 1..n + 1
      /\ Len(results') = n + 1 /\ results'[n + 1] = row
      /\ \A i \in 1..n : results'[i] = results[i]
  BY <1>1, <1>2, <1>4
<1>6. n \in Nat /\ 1..n + 1 = 1..n \cup {n + 1} /\ n + 1 \notin 1..n /\ n + 1 = at
  BY <1>1
<1> HIDE DEF n
<1>7. \A i \in DOMAIN results' : results'[i] = IF i = n + 1 THEN row ELSE results[i]
  BY <1>5, <1>6
<1>8. CycleTyped'
  <2>1. at' \in 1..Len(Requested) + 1 /\ turn' \in 0..Analysts + 1
    BY <1>1, <1>4
  <2>2. \A i \in DOMAIN results' : results'[i].status \in LaneStatus
    BY <1>3, <1>5, <1>6, <1>7 DEF CycleInv, CycleTyped, WorkflowTypeOK
  <2>3. ranking' \subseteq DOMAIN results'
    BY <1>1, <1>4, <1>5, <1>6
  <2>4. /\ DOMAIN measured' \subseteq Symbol /\ measured' \in Scores(DOMAIN measured')
        /\ adjusted' \in Scores(DOMAIN measured')
    BY ScoresOf
  <2>5. WorkflowTypeOK'
    BY <2>1, <2>2, <2>3, <2>4 DEF CycleInv, CycleTyped, WorkflowTypeOK, categoryVars
  <2> QED BY <1>5, <2>5 DEF CycleTyped
<1>9. ResultsInOrder'
  <2>1. Len(results') = at' - 1
    BY <1>1, <1>4, <1>5, <1>6
  <2>2. row.status = "READY" <=> Unanimous(row)
    BY <1>3 DEF Unanimous
  <2>3. row.lane = Requested[n + 1] /\ (row.status = "READY" => Drifted(row.measured, row.score))
    BY <1>3, <1>6
  <2>4. ASSUME NEW i \in DOMAIN results'
        PROVE  /\ results'[i].lane = Requested[i]
               /\ results'[i].status = "READY" <=> Unanimous(results'[i])
               /\ results'[i].status = "READY" => Drifted(results'[i].measured, results'[i].score)
    <3>1. CASE i = n + 1
      BY <1>7, <2>2, <2>3, <3>1
    <3>2. CASE i # n + 1
      <4>1. i \in DOMAIN results /\ results'[i] = results[i]
        BY <1>5, <1>6, <1>7, <3>2
      <4> QED BY <4>1 DEF CycleInv, ResultsInOrder
    <3> QED BY <3>1, <3>2
  <2> QED BY <2>1, <2>4 DEF ResultsInOrder
<1>10. LaneAtHand'
  BY <1>4 DEF LaneAtHand
<1>11. \A i \in DOMAIN results : i \in DOMAIN results' /\ results'[i] = results[i]
  BY <1>5, <1>6
<1>12. \A i \in DOMAIN results' : i \in DOMAIN results \/ (i = n + 1 /\ results'[i].winner = 0)
  BY <1>3, <1>5, <1>6, <1>7
<1>13. WinnersTake'
  <2>1. \A i \in ranking' : results'[i].status = "READY" /\ results'[i].winner = 0
    <3>1. \A i \in ranking : results'[i].status = "READY" /\ results'[i].winner = 0
      BY <1>1, <1>11 DEF CycleInv, WinnersTake, Won
    <3>2. status = "READY" => results'[n + 1].status = "READY" /\ results'[n + 1].winner = 0
      BY <1>3, <1>5
    <3> QED BY <1>4, <3>1, <3>2
  <2>2. \A i \in DOMAIN results' : results'[i].winner # 0 => Takes(results'[i].winner) \subseteq taken
    BY <1>11, <1>12 DEF CycleInv, WinnersTake, Won
  <2>3. \A x \in taken : \E i \in DOMAIN results' :
          results'[i].winner # 0 /\ x \in Takes(results'[i].winner)
    BY <1>11 DEF CycleInv, WinnersTake, Won
  <2> QED BY <2>1, <2>2, <2>3 DEF WinnersTake, Won
<1>14. SharedOnlyIfAhead'
  <2>1. SharedOnlyIfAhead <=>
          \A i, j \in DOMAIN results :
            (i # j /\ Won(i) # 0 /\ Won(j) # 0 /\ Underlying[Won(i)] = Underlying[Won(j)])
              => Ahead(i) \/ Ahead(j)
    BY DEF SharedOnlyIfAhead, Ahead, FreeFor, Won
  <2>2. (\A i, j \in DOMAIN results :
            (i # j /\ Won(i) # 0 /\ Won(j) # 0 /\ Underlying[Won(i)] = Underlying[Won(j)])
              => Ahead(i) \/ Ahead(j))' => SharedOnlyIfAhead'
    BY DEF SharedOnlyIfAhead, Ahead, FreeFor, Won
  <2>3. \A i \in DOMAIN results : Ahead(i) => Ahead(i)'
    BY <1>11 DEF Ahead, FreeFor, Won
  <2>4. SharedOnlyIfAhead
    BY DEF CycleInv
  <2>5. \A i \in DOMAIN results' : Won(i)' # 0 => i \in DOMAIN results /\ Won(i)' = Won(i)
    BY <1>11, <1>12 DEF Won
  <2> QED BY <2>1, <2>2, <2>3, <2>4, <2>5
<1>15. CategoriesSettled'
  BY <1>4 DEF CycleInv, CategoriesSettled, CategoriesAreDecided, categoryVars, AtLane
<1> QED BY <1>8, <1>9, <1>10, <1>13, <1>14, <1>15 DEF CycleInv

(* While a lane is dealt with nothing else moves.                          *)
LEMMA LaneGoes ==
  ASSUME CycleInv, byLane, UNCHANGED <<byLane, at, results, ranking, taken, categoryVars>>,
         turn' \in 1..Analysts + 1, reviews' \in Seq(Word), measured' \in Score,
         adjusted' \in Score, Drifted(measured', adjusted'),
         Len(reviews') = turn' - 1, \A k \in DOMAIN reviews' : reviews'[k] = "PASS"
  PROVE  CycleInv'
<1>1. DOMAIN adjusted' = DOMAIN measured'
  BY DEF Drifted
<1>2. CycleTyped'
  <2>1. /\ DOMAIN measured' \subseteq Symbol /\ measured' \in Scores(DOMAIN measured')
        /\ adjusted' \in Scores(DOMAIN measured')
    BY <1>1, ScoresOf
  <2>2. turn' \in 0..Analysts + 1
    BY WorkflowAssumption
  <2>3. WorkflowTypeOK'
    BY <2>1, <2>2 DEF CycleInv, CycleTyped, WorkflowTypeOK, categoryVars
  <2> QED BY <2>3 DEF CycleInv, CycleTyped
<1>3. ResultsInOrder' /\ WinnersTake' /\ SharedOnlyIfAhead'
  BY DEF CycleInv, ResultsInOrder, WinnersTake, Won, SharedOnlyIfAhead
<1>4. LaneAtHand'
  BY DEF LaneAtHand
<1>5. CategoriesSettled'
  BY DEF CycleInv, CategoriesSettled, CategoriesAreDecided, categoryVars
<1> QED BY <1>2, <1>3, <1>4, <1>5 DEF CycleInv

LEMMA LaneWithoutData ==
  ASSUME CycleInv, GatherFails
  PROVE  CycleInv'
<1>1. PICK status \in {"NOT_CONFIGURED", "UNAVAILABLE"} : NextLane(status)
  BY DEF GatherFails
<1>2. status \in LaneStatus /\ status # "READY"
  BY DEF LaneStatus
<1>3. /\ reviews' = <<>> /\ measured' \in Score /\ adjusted' \in Score
      /\ DOMAIN adjusted' = DOMAIN measured'
  BY NoScores DEF GatherFails
<1>4. Len(reviews') # Analysts + 1 /\ reviews' \in Seq(Word)
  BY <1>3, WorkflowAssumption
<1>5. AtLane /\ UNCHANGED <<byLane, taken, categoryVars>>
  BY DEF GatherFails
<1> QED BY <1>1, <1>2, <1>3, <1>4, <1>5, LaneSettled

LEMMA LaneWithData ==
  ASSUME CycleInv, Gather
  PROVE  CycleInv'
<1>1. PICK eligible \in SUBSET SymbolsOf[Requested[at]] : measured' \in [eligible -> Base]
  BY DEF Gather
<1>2. AtLane /\ UNCHANGED <<byLane, taken, categoryVars>> /\ at \in DOMAIN Requested
  BY WorkflowAssumption DEF Gather, AtLane, CycleInv, CycleTyped, WorkflowTypeOK
<1>3. eligible \subseteq Symbol
  BY <1>2 DEF Symbol, Lane
<1>4. measured' \in Score /\ adjusted' = measured' /\ reviews' = <<>>
      /\ DOMAIN measured' = eligible /\ \A s \in eligible : measured'[s] \in 0..TopScore
  <2>1. Base \subseteq 0..TopScore
    BY WorkflowAssumption
  <2>2. measured' \in [eligible -> 0..TopScore]
    BY <1>1, <2>1
  <2>3. measured' \in Score
    BY <1>3, <2>2 DEF Score, Scores
  <2>4. adjusted' = measured' /\ reviews' = <<>>
    BY DEF Gather
  <2> QED BY <2>2, <2>3, <2>4
<1>5. Len(reviews') = 0 /\ DOMAIN reviews' = {} /\ reviews' \in Seq(Word)
  BY <1>4
<1>6. CASE DOMAIN measured' = {}
  <2>1. NextLane("NO_TRADE") /\ "NO_TRADE" \in LaneStatus /\ Len(reviews') # Analysts + 1
    BY <1>5, <1>6, WorkflowAssumption DEF Gather, LaneStatus
  <2> QED BY <1>2, <1>4, <1>5, <2>1, LaneSettled
<1>7. CASE DOMAIN measured' # {}
  <2>1. turn' = 1 /\ UNCHANGED <<at, results, ranking>>
    BY <1>7 DEF Gather
  <2>2. Drifted(measured', adjusted')
    BY <1>4, <1>7 DEF Drifted, MaxDrift, TopScore
  <2>3. turn' \in 1..Analysts + 1 /\ Len(reviews') = turn' - 1
    BY <1>5, <2>1, WorkflowAssumption
  <2>4. byLane /\ UNCHANGED <<byLane, at, results, ranking, taken, categoryVars>>
    BY <1>2, <2>1 DEF AtLane
  <2> QED BY <1>4, <1>5, <2>2, <2>3, <2>4, LaneGoes
<1> QED BY <1>6, <1>7

(* A role that passes the lane adds its word and moves the scores within   *)
(* their bounds.                                                           *)
LEMMA Passed ==
  ASSUME CycleInv, AtLane, turn > 0, Passes, UNCHANGED measured
  PROVE  /\ reviews' \in Seq(Word) /\ Len(reviews') = turn
         /\ \A k \in DOMAIN reviews' : reviews'[k] = "PASS"
         /\ measured' \in Score /\ adjusted' \in Score /\ Drifted(measured', adjusted')
<1>1. /\ reviews \in Seq(Word) /\ Len(reviews) = turn - 1 /\ turn \in Nat
      /\ \A k \in DOMAIN reviews : reviews[k] = "PASS"
      /\ Drifted(measured, adjusted) /\ measured \in Score /\ adjusted \in Score
  BY WorkflowAssumption DEF CycleInv, CycleTyped, WorkflowTypeOK, LaneAtHand, AtLane
<1>2. reviews' = Append(reviews, "PASS")
  BY DEF Passes
<1>3. "PASS" \in Word
  BY DEF Word
<1>4. reviews' \in Seq(Word) /\ Len(reviews') = turn
  BY <1>1, <1>2, <1>3
<1>5. \A k \in DOMAIN reviews' : reviews'[k] = "PASS"
  BY <1>1, <1>2, <1>3
<1>6. PICK offer \in [DOMAIN measured -> Offer] :
        adjusted' = [s \in DOMAIN measured |-> Adjust(measured[s], adjusted[s], offer[s])]
  BY DEF Passes
<1>7. /\ DOMAIN adjusted = DOMAIN measured /\ DOMAIN measured # {}
      /\ DOMAIN measured \subseteq Symbol
      /\ \A s \in DOMAIN measured : measured[s] \in 0..TopScore /\ adjusted[s] \in 0..TopScore
  BY <1>1, ScoresOf DEF Drifted, Scores
<1>8. \A s \in DOMAIN measured :
        /\ Adjust(measured[s], adjusted[s], offer[s]) \in 0..TopScore
        /\ Adjust(measured[s], adjusted[s], offer[s]) - measured[s] \in -MaxDrift..MaxDrift
  <2> SUFFICES ASSUME NEW s \in DOMAIN measured
               PROVE  /\ Adjust(measured[s], adjusted[s], offer[s]) \in 0..TopScore
                      /\ Adjust(measured[s], adjusted[s], offer[s]) - measured[s] \in -MaxDrift..MaxDrift
    OBVIOUS
  <2>1. offer[s] \in Int
    BY WorkflowAssumption
  <2> QED BY <1>7, <2>1, AdjustmentsAreBounded
<1>9. /\ DOMAIN adjusted' = DOMAIN measured
      /\ \A s \in DOMAIN measured : adjusted'[s] = Adjust(measured[s], adjusted[s], offer[s])
  BY <1>6
<1>10. adjusted' \in Scores(DOMAIN measured)
  <2>1. adjusted' = [s \in DOMAIN measured |-> adjusted'[s]]
    BY <1>6, <1>9
  <2> QED BY <1>8, <1>9, <2>1 DEF Scores
<1>11. adjusted' \in Score
  BY <1>7, <1>9, <1>10, ScoresOf
<1>12. Drifted(measured', adjusted')
  BY <1>7, <1>8, <1>9 DEF Drifted
<1> QED BY <1>1, <1>4, <1>5, <1>11, <1>12

LEMMA LaneReviewed ==
  ASSUME CycleInv, Analyst
  PROVE  CycleInv'
<1>1. /\ AtLane /\ turn \in 1..Analysts /\ turn' = turn + 1 /\ Passes /\ UNCHANGED measured
      /\ byLane /\ UNCHANGED <<byLane, at, results, ranking, taken, categoryVars>>
  BY DEF Analyst, AtLane
<1>2. turn > 0 /\ turn' \in 1..Analysts + 1 /\ turn = turn' - 1
  BY <1>1, WorkflowAssumption
<1> QED BY <1>1, <1>2, Passed, LaneGoes

LEMMA LanePassed ==
  ASSUME CycleInv, Critic
  PROVE  CycleInv'
<1>1. /\ AtLane /\ turn = Analysts + 1 /\ Passes /\ UNCHANGED measured /\ NextLane("READY")
      /\ UNCHANGED <<byLane, taken, categoryVars>>
  BY DEF Critic
<1>2. turn > 0 /\ "READY" \in LaneStatus
  BY <1>1, WorkflowAssumption DEF LaneStatus
<1>3. /\ reviews' \in Seq(Word) /\ Len(reviews') = Analysts + 1
      /\ \A k \in DOMAIN reviews' : reviews'[k] = "PASS"
      /\ measured' \in Score /\ adjusted' \in Score /\ Drifted(measured', adjusted')
  BY <1>1, <1>2, Passed
<1>4. DOMAIN adjusted' = DOMAIN measured'
  BY <1>3 DEF Drifted
<1> QED BY <1>1, <1>2, <1>3, <1>4, LaneSettled

LEMMA LaneStopped ==
  ASSUME CycleInv, Stops
  PROVE  CycleInv'
<1>1. PICK word \in {"REASSESS", "UNAVAILABLE"}, status \in {"NO_TRADE", "UNAVAILABLE"} :
        reviews' = Append(reviews, word) /\ NextLane(status)
  BY DEF Stops
<1>2. /\ AtLane /\ UNCHANGED <<measured, adjusted>> /\ UNCHANGED <<byLane, taken, categoryVars>>
      /\ status \in LaneStatus /\ status # "READY" /\ word \in Word /\ word # "PASS"
  BY DEF Stops, LaneStatus, Word
<1>3. reviews \in Seq(Word) /\ measured \in Score /\ adjusted \in Score
      /\ DOMAIN adjusted = DOMAIN measured
  BY DEF CycleInv, CycleTyped, WorkflowTypeOK, Scores
<1>4. reviews' \in Seq(Word) /\ Len(reviews') \in DOMAIN reviews' /\ reviews'[Len(reviews')] = word
  BY <1>1, <1>2, <1>3
<1>5. ~ \A k \in DOMAIN reviews' : reviews'[k] = "PASS"
  BY <1>2, <1>4
<1> QED BY <1>1, <1>2, <1>3, <1>4, <1>5, LaneSettled

----------------------------------------------------------------------------
(* The winner of a lane is one of its candidates; if it shares its market  *)
(* with a winner before it, it leads all that share with none by two.      *)
LEMMA WinnerLeads ==
  ASSUME CycleInv, NEW i \in ranking
  PROVE  LET score == results[i].score
             winner == Best(Penalised(score))
         IN /\ winner \in DOMAIN score /\ winner \in Symbol /\ winner \in Nat \ {0}
            /\ Underlying[winner] \in taken =>
                 \A s \in DOMAIN score :
                   Takes(s) \cap taken = {} => score[winner] >= score[s] + 2 \/ score[s] = 0
<1> DEFINE score == results[i].score
           adj == Penalised(score)
           winner == Best(adj)
<1>1. i \in DOMAIN results /\ results[i] \in LaneResult /\ results[i].status = "READY"
  BY DEF CycleInv, CycleTyped, WorkflowTypeOK, WinnersTake
<1>2. score \in Score /\ DOMAIN score # {} /\ DOMAIN score \subseteq Symbol
      /\ \A s \in DOMAIN score : score[s] \in 0..TopScore
  <2>1. score \in Score /\ Drifted(results[i].measured, score)
    BY <1>1 DEF LaneResult, CycleInv, ResultsInOrder
  <2> QED BY <2>1, ScoresOf DEF Drifted, Scores
<1>3. DOMAIN score \subseteq Nat /\ DOMAIN score \subseteq Nat \ {0}
  BY <1>2, WorkflowAssumption
<1>4. /\ DOMAIN adj = DOMAIN score
      /\ \A s \in DOMAIN score : adj[s] = Most(0, score[s] - Penalty(s))
      /\ adj = [s \in DOMAIN score |-> adj[s]]
  BY DEF Penalised
<1> HIDE DEF adj, score
<1>5. \A s \in DOMAIN score :
        /\ adj[s] \in 0..TopScore
        /\ Underlying[s] \in taken => adj[s] = 0 \/ adj[s] + 2 <= score[s]
        /\ Takes(s) \cap taken = {} => adj[s] = score[s]
  <2> SUFFICES ASSUME NEW s \in DOMAIN score
               PROVE  /\ adj[s] \in 0..TopScore
                      /\ Underlying[s] \in taken => adj[s] = 0 \/ adj[s] + 2 <= score[s]
                      /\ Takes(s) \cap taken = {} => adj[s] = score[s]
    OBVIOUS
  <2>1. s \in Symbol /\ score[s] \in 0..TopScore /\ adj[s] = Most(0, score[s] - Penalty(s))
    BY <1>2, <1>4
  <2>2. /\ Penalty(s) \in 0..MaxDrift
        /\ Underlying[s] \in taken => Penalty(s) >= 2
        /\ Takes(s) \cap taken = {} => Penalty(s) = 0
    BY <2>1, Penalties
  <2> QED BY <2>1, <2>2 DEF Most, TopScore, MaxDrift
<1>6. adj \in Scores(DOMAIN score)
  BY <1>4, <1>5 DEF Scores
<1>7. winner \in DOMAIN score /\ \A t \in DOMAIN score : adj[t] <= adj[winner]
  BY <1>2, <1>3, <1>6, BestLeads
<1> HIDE DEF winner
<1>8. ASSUME Underlying[winner] \in taken, NEW s \in DOMAIN score, Takes(s) \cap taken = {}
      PROVE  score[winner] >= score[s] + 2 \/ score[s] = 0
  <2>1. adj[s] = score[s] /\ adj[s] <= adj[winner] /\ adj[s] \in 0..TopScore
        /\ adj[winner] \in 0..TopScore /\ score[winner] \in 0..TopScore
        /\ (adj[winner] = 0 \/ adj[winner] + 2 <= score[winner])
    BY <1>2, <1>5, <1>7, <1>8
  <2> QED BY <2>1 DEF TopScore
<1> QED BY <1>2, <1>3, <1>7, <1>8 DEF winner, adj, score

LEMMA WinnerRanked ==
  ASSUME CycleInv, RankNext
  PROVE  CycleInv'
<1>1. PICK i \in ranking :
        /\ results' = [results EXCEPT ![i].winner = Best(Penalised(results[i].score))]
        /\ ranking' = ranking \ {i}
        /\ taken' = taken \cup Takes(Best(Penalised(results[i].score)))
  BY DEF RankNext
<1> DEFINE score == results[i].score
           winner == Best(Penalised(score))
<1>2. byLane /\ at > Len(Requested)
      /\ UNCHANGED <<byLane, turn, at, measured, adjusted, reviews, categoryVars>>
  BY DEF RankNext
<1>3. i \in DOMAIN results /\ results \in Seq(LaneResult) /\ Won(i) = 0
  BY DEF CycleInv, CycleTyped, WorkflowTypeOK, WinnersTake
<1>4. /\ winner \in DOMAIN score /\ winner \in Nat \ {0}
      /\ Underlying[winner] \in taken =>
           \A s \in DOMAIN score :
             Takes(s) \cap taken = {} => score[winner] >= score[s] + 2 \/ score[s] = 0
  BY WinnerLeads
<1>5. /\ results' = [results EXCEPT ![i].winner = winner] /\ taken' = taken \cup Takes(winner)
  BY <1>1
<1> HIDE DEF winner, score
<1>6. /\ results' \in Seq(LaneResult) /\ DOMAIN results' = DOMAIN results
      /\ Len(results') = Len(results)
  <2>1. [results[i] EXCEPT !.winner = winner] \in LaneResult
    <3>1. results[i] \in LaneResult /\ winner \in Nat
      BY <1>3, <1>4
    <3> QED BY <3>1 DEF LaneResult
  <2> QED BY <1>3, <1>5, <2>1
<1>7. \A k \in DOMAIN results :
        /\ results'[k].lane = results[k].lane /\ results'[k].status = results[k].status
        /\ results'[k].reviews = results[k].reviews /\ results'[k].measured = results[k].measured
        /\ results'[k].score = results[k].score
        /\ results'[k].winner = IF k = i THEN winner ELSE results[k].winner
  <2> SUFFICES ASSUME NEW k \in DOMAIN results
               PROVE  /\ results'[k].lane = results[k].lane /\ results'[k].status = results[k].status
                      /\ results'[k].reviews = results[k].reviews
                      /\ results'[k].measured = results[k].measured
                      /\ results'[k].score = results[k].score
                      /\ results'[k].winner = IF k = i THEN winner ELSE results[k].winner
    OBVIOUS
  <2>1. results[k] \in LaneResult
    BY <1>3
  <2>2. results'[k] = IF k = i THEN [results[k] EXCEPT !.winner = winner] ELSE results[k]
    BY <1>3, <1>5
  <2> QED BY <2>1, <2>2 DEF LaneResult
<1>8. CycleTyped'
  <2>1. WorkflowTypeOK'
    BY <1>1, <1>2, <1>6, <1>7 DEF CycleInv, CycleTyped, WorkflowTypeOK, categoryVars
  <2> QED BY <1>2, <1>6, <2>1 DEF CycleInv, CycleTyped
<1>9. ResultsInOrder'
  <2>1. \A k \in DOMAIN results : Unanimous(results[k])' <=> Unanimous(results[k])
    BY <1>7 DEF Unanimous
  <2> QED BY <1>2, <1>6, <1>7, <2>1 DEF CycleInv, ResultsInOrder
<1>10. LaneAtHand'
  <2>1. at \in Int /\ Len(Requested) \in Int
    BY WorkflowAssumption DEF CycleInv, CycleTyped, WorkflowTypeOK
  <2> QED BY <1>2, <2>1 DEF LaneAtHand
<1>11. \A k \in DOMAIN results : Won(k)' = IF k = i THEN winner ELSE Won(k)
  BY <1>7 DEF Won
<1>12. WinnersTake'
  <2>1. \A k \in ranking' : results'[k].status = "READY" /\ Won(k)' = 0
    BY <1>1, <1>7, <1>11 DEF CycleInv, CycleTyped, WorkflowTypeOK, WinnersTake
  <2>2. \A k \in DOMAIN results' : Won(k)' # 0 => Takes(Won(k)') \subseteq taken'
    BY <1>5, <1>6, <1>11 DEF CycleInv, WinnersTake
  <2>3. \A x \in taken : \E k \in DOMAIN results : Won(k)' # 0 /\ x \in Takes(Won(k)')
    BY <1>3, <1>11 DEF CycleInv, WinnersTake
  <2>4. \A x \in Takes(winner) : Won(i)' # 0 /\ x \in Takes(Won(i)')
    BY <1>3, <1>4, <1>11
  <2>5. \A x \in taken' : \E k \in DOMAIN results' : Won(k)' # 0 /\ x \in Takes(Won(k)')
    BY <1>3, <1>5, <1>6, <2>3, <2>4
  <2> HIDE DEF score, winner
  <2> QED BY <2>1, <2>2, <2>5 DEF WinnersTake, Won, Takes
<1>13. \A s : \A k \in DOMAIN results : FreeFor(s, k)' => FreeFor(s, k)
  <2> SUFFICES ASSUME NEW s, NEW k \in DOMAIN results, FreeFor(s, k)' PROVE FreeFor(s, k)
    OBVIOUS
  <2>1. ASSUME NEW m \in DOMAIN results \ {k}, Won(m) # 0
        PROVE  Takes(s) \cap Takes(Won(m)) = {}
    <3>1. m # i /\ Won(m)' = Won(m) /\ m \in DOMAIN results' \ {k}
      BY <1>3, <1>6, <1>11, <2>1
    <3> QED BY <2>1, <3>1 DEF FreeFor, Takes
  <2> QED BY <2>1 DEF FreeFor
<1>14. \A k \in DOMAIN results \ {i} : Ahead(k) => Ahead(k)'
  <2> SUFFICES ASSUME NEW k \in DOMAIN results \ {i}, Ahead(k) PROVE Ahead(k)'
    OBVIOUS
  <2>1. results'[k].score = results[k].score /\ Won(k)' = Won(k)
    BY <1>7, <1>11
  <2> QED BY <1>13, <2>1 DEF Ahead
<1>15. (\E j \in DOMAIN results \ {i} : Won(j) # 0 /\ Underlying[Won(j)] = Underlying[winner])
         => Ahead(i)'
  <2> SUFFICES ASSUME NEW j \in DOMAIN results \ {i}, Won(j) # 0,
                      Underlying[Won(j)] = Underlying[winner]
               PROVE  Ahead(i)'
    OBVIOUS
  <2>1. Underlying[winner] \in taken
    BY DEF CycleInv, WinnersTake, Takes
  <2>2. results'[i].score = score /\ Won(i)' = winner
    BY <1>3, <1>7, <1>11 DEF score
  <2>3. ASSUME NEW s \in DOMAIN score, FreeFor(s, i)'
        PROVE  Takes(s) \cap taken = {}
    <3>1. FreeFor(s, i)
      BY <1>3, <1>13, <2>3
    <3>2. \A x \in taken : \E m \in DOMAIN results \ {i} : Won(m) # 0 /\ x \in Takes(Won(m))
      BY <1>3 DEF CycleInv, WinnersTake
    <3> QED BY <3>1, <3>2 DEF FreeFor
  <2>4. \A s \in DOMAIN score : FreeFor(s, i)' => score[winner] >= score[s] + 2 \/ score[s] = 0
    BY <1>4, <2>1, <2>3
  <2> QED BY <2>2, <2>4 DEF Ahead
<1>16. SharedOnlyIfAhead'
  <2>1. \A k, j \in DOMAIN results :
          (k # j /\ Won(k) # 0 /\ Won(j) # 0 /\ Underlying[Won(k)] = Underlying[Won(j)])
            => Ahead(k) \/ Ahead(j)
    BY DEF CycleInv, SharedOnlyIfAhead, Ahead, FreeFor, Won
  <2>2. ASSUME NEW k \in DOMAIN results, NEW j \in DOMAIN results, k # j, Won(k)' # 0, Won(j)' # 0,
               Underlying[Won(k)'] = Underlying[Won(j)']
        PROVE  Ahead(k)' \/ Ahead(j)'
    <3>1. CASE k # i /\ j # i
      BY <1>11, <1>14, <2>1, <2>2, <3>1
    <3>2. CASE k = i
      BY <1>11, <1>15, <2>2, <3>2
    <3>3. CASE j = i
      BY <1>11, <1>15, <2>2, <3>3
    <3> QED BY <3>1, <3>2, <3>3
  <2>3. (\A k, j \in DOMAIN results :
          (k # j /\ Won(k) # 0 /\ Won(j) # 0 /\ Underlying[Won(k)] = Underlying[Won(j)])
            => Ahead(k) \/ Ahead(j))' => SharedOnlyIfAhead'
    BY DEF SharedOnlyIfAhead, Ahead, FreeFor, Won
  <2> QED BY <1>6, <2>2, <2>3
<1>17. CategoriesSettled'
  BY <1>2 DEF CycleInv, CategoriesSettled, CategoriesAreDecided, categoryVars
<1> QED BY <1>8, <1>9, <1>10, <1>12, <1>16, <1>17 DEF CycleInv

----------------------------------------------------------------------------
(* The older run leaves the lanes alone.                                   *)
LEMMA CategoriesGo ==
  ASSUME CycleInv, ~byLane, UNCHANGED <<byLane, at, measured, adjusted, reviews, results, ranking, taken>>,
         turn' \in 0..Analysts + 1, todo' \subseteq Category, picked' \subseteq Category,
         missing' \subseteq Category, degraded' \in BOOLEAN, CategoriesSettled'
  PROVE  CycleInv'
<1>1. CycleTyped' /\ LaneAtHand'
  BY DEF CycleInv, CycleTyped, WorkflowTypeOK, LaneAtHand
<1>2. ResultsInOrder' /\ WinnersTake' /\ SharedOnlyIfAhead'
  BY DEF CycleInv, ResultsInOrder, WinnersTake, Won, SharedOnlyIfAhead
<1> QED BY <1>1, <1>2 DEF CycleInv

LEMMA CategoriesStep ==
  ASSUME CycleInv,
         GatherAll \/ AnalystsReview \/ \E c \in Category, passed \in BOOLEAN : Settle(c, passed)
  PROVE  CycleInv'
<1>1. /\ todo \subseteq Category /\ picked \subseteq Category /\ missing \subseteq Category
      /\ degraded \in BOOLEAN /\ turn \in 0..Analysts + 1 /\ Analysts \in Nat \ {0}
      /\ CategoriesSettled
  BY WorkflowAssumption DEF CycleInv, CycleTyped, WorkflowTypeOK
<1>2. CASE GatherAll
  <2>1. ~byLane /\ UNCHANGED <<byLane, at, measured, adjusted, reviews, results, ranking, taken>>
        /\ turn' = 1
    BY <1>2 DEF GatherAll
  <2>2. turn' \in 0..Analysts + 1 /\ todo' \subseteq Category /\ picked' \subseteq Category
        /\ missing' \subseteq Category /\ degraded' \in BOOLEAN
    BY <1>1, <1>2, <2>1 DEF GatherAll
  <2>3. CategoriesSettled'
    <3>1. picked = {} /\ missing = {}
      BY <1>1, <1>2 DEF GatherAll, CategoriesSettled
    <3>2. turn' < 2 /\ turn' > 0 /\ turn' # 2 /\ turn' # 0
      BY <2>1
    <3>3. missing' \cup todo' = Category /\ missing' \cap todo' = {} /\ picked' = {}
          /\ (~degraded' => missing' = {})
      BY <1>2, <3>1 DEF GatherAll
    <3> QED BY <2>1, <3>2, <3>3 DEF CategoriesSettled, CategoriesAreDecided
  <2> QED BY <2>1, <2>2, <2>3, CategoriesGo
<1>3. CASE AnalystsReview
  <2>1. ~byLane /\ UNCHANGED <<byLane, at, measured, adjusted, reviews, results, ranking, taken>>
        /\ turn' = 2 /\ UNCHANGED <<todo, picked, missing>> /\ degraded' \in {degraded, TRUE}
    BY <1>3 DEF AnalystsReview
  <2>2. turn' \in 0..Analysts + 1 /\ degraded' \in BOOLEAN
    <3>1. degraded' \in BOOLEAN
      BY <1>1, <2>1
    <3>2. turn' \in 0..Analysts + 1
      BY <1>1, <2>1
    <3> QED BY <3>1, <3>2
  <2>3. CategoriesSettled'
    <3>1. turn = 1 /\ turn > 0 /\ turn < 2 /\ ~(turn' < 2) /\ turn' # 0
      BY <1>3, <2>1 DEF AnalystsReview
    <3>2. degraded => degraded'
      BY <2>1
    <3>3. picked = {} /\ picked \cup missing \cup todo = Category /\ missing \cap todo = {}
          /\ (~degraded => missing = {})
      BY <1>1, <2>1, <3>1 DEF CategoriesSettled, CategoriesAreDecided
    <3> QED BY <2>1, <3>1, <3>2, <3>3 DEF CategoriesSettled, CategoriesAreDecided
  <2> QED BY <1>1, <2>1, <2>2, <2>3, CategoriesGo
<1>4. ASSUME NEW c \in Category, NEW passed \in BOOLEAN, Settle(c, passed)
      PROVE  CycleInv'
  <2>1. ~byLane /\ UNCHANGED <<byLane, at, measured, adjusted, reviews, results, ranking, taken>>
        /\ turn = 2 /\ UNCHANGED turn /\ c \in todo /\ todo' = todo \ {c}
    BY <1>4 DEF Settle, laneVars
  <2>2. CASE passed
    <3>1. picked' = picked \cup {c} /\ UNCHANGED <<missing, degraded>>
      BY <1>4, <2>2 DEF Settle
    <3>2. CategoriesSettled'
      BY <1>1, <2>1, <3>1 DEF CategoriesSettled, CategoriesAreDecided
    <3> QED BY <1>1, <2>1, <3>1, <3>2, CategoriesGo
  <2>3. CASE ~passed
    <3>1. missing' = missing \cup {c} /\ degraded' = TRUE /\ UNCHANGED picked
      BY <1>4, <2>3 DEF Settle
    <3>2. CategoriesSettled'
      BY <1>1, <2>1, <3>1 DEF CategoriesSettled, CategoriesAreDecided
    <3> QED BY <1>1, <2>1, <3>1, <3>2, CategoriesGo
  <2> QED BY <2>2, <2>3
<1> QED BY <1>2, <1>3, <1>4

LEMMA CycleStep == CycleInv /\ [WorkflowNext]_cycleVars => CycleInv'
<1> SUFFICES ASSUME CycleInv, [WorkflowNext]_cycleVars PROVE CycleInv'
  OBVIOUS
<1>1. CASE UNCHANGED cycleVars
  <2>1. CycleTyped' /\ LaneAtHand' /\ CategoriesSettled'
    BY <1>1 DEF cycleVars, laneVars, categoryVars, CycleInv, CycleTyped, WorkflowTypeOK,
                LaneAtHand, CategoriesSettled, CategoriesAreDecided
  <2>2. ResultsInOrder' /\ WinnersTake' /\ SharedOnlyIfAhead'
    BY <1>1 DEF cycleVars, laneVars, categoryVars, CycleInv, ResultsInOrder, WinnersTake, Won,
                SharedOnlyIfAhead
  <2> QED BY <2>1, <2>2 DEF CycleInv
<1> QED BY <1>1, LaneWithoutData, LaneWithData, LaneReviewed, LaneStopped, LanePassed,
           WinnerRanked, CategoriesStep DEF WorkflowNext

LEMMA CycleInvMeansDecided == CycleInv => CycleIsDecided
<1> SUFFICES ASSUME CycleInv PROVE CycleIsDecided
  OBVIOUS
<1>1. OneResultPerLane
  <2>1. /\ at \in 1..Len(Requested) + 1 /\ Requested \in Seq(Nat) /\ Len(results) = at - 1
        /\ results \in Seq(LaneResult) /\ \A i \in DOMAIN results : results[i].lane = Requested[i]
    BY WorkflowAssumption DEF CycleInv, CycleTyped, WorkflowTypeOK, ResultsInOrder
  <2>2. DOMAIN results = 1..at - 1 /\ at \in Nat /\ at - 1 <= Len(Requested)
    BY <2>1
  <2>3. SubSeq(Requested, 1, at - 1) = [i \in 1..at - 1 |-> Requested[i]]
    BY <2>1, <2>2
  <2> QED BY <2>1, <2>2, <2>3 DEF OneResultPerLane
<1>2. ReadyIsEarned
  BY DEF CycleInv, ResultsInOrder, ReadyIsEarned, Drifted
<1> QED BY <1>1, <1>2 DEF CycleInv, CategoriesSettled, CycleIsDecided

(* Type invariant of a research cycle, of either kind.                     *)
THEOREM WorkflowTypeCorrect == WorkflowSteps => []WorkflowTypeOK
<1>1. CycleInv => WorkflowTypeOK
  BY DEF CycleInv, CycleTyped
<1> QED BY <1>1, CycleStart, CycleStep, PTL DEF WorkflowSteps

(* modules/research/workflow.py: whatever fails, every lane gets the one   *)
(* result it was asked for; READY is what all roles passed, with scores    *)
(* within the drift; winners that share a market are ahead of the rest;    *)
(* categories are picked or missing.  For any lanes, symbols, scores,      *)
(* offers and number of analysts.                                          *)
THEOREM CyclesAreDecided == WorkflowSteps => []CycleIsDecided
<1>1. WorkflowInit => CycleInv
  BY CycleStart
<1>2. CycleInv /\ [WorkflowNext]_cycleVars => CycleInv'
  BY CycleStep
<1>3. CycleInv => CycleIsDecided
  BY CycleInvMeansDecided
<1> QED BY <1>1, <1>2, <1>3, PTL DEF WorkflowSteps

=============================================================================
