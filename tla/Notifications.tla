--------------------------- MODULE Notifications ---------------------------
(***************************************************************************)
(* Notifications on their way to an external channel.  The reconciliation  *)
(* of a confirmed broker event queues them through the outbox              *)
(* (modules/notifications/service.py), a request hands its own to Celery   *)
(* (apps/api/app/routes/operations.py); the drain and the delivery are     *)
(* tasks of apps/worker/app/tasks/operations.py.                           *)
(*                                                                         *)
(* A drain locks outbox rows, skipping the locked ones, marks them         *)
(* published, commits, and only then hands their notifications to Celery,  *)
(* one message each.  A delivery calls the provider inside its transaction *)
(* and does not look at the state of the notification.                     *)
(*                                                                         *)
(* There is one external channel, with the credential made for it.  A test *)
(* of it waits for the provider between its read and its write.            *)
(***************************************************************************)
EXTENDS Integers, FiniteSets

CONSTANTS
  Notification,
  Drain,      \* drains that may run at the same time
  Deliverer,  \* workers that deliver
  MaxLosses   \* bound: tasks or messages lost

ASSUME NotificationAssumption == MaxLosses \in Nat

VARIABLES
  notification,  \* the state of each notification
  outbox,        \* notifications whose delivery request is not published
  locked,        \* the outbox rows each open drain transaction has locked
  draining,      \* the notifications each drain has still to hand over
  posted,        \* notifications whose delivery message waits in the broker
  delivering,    \* the notification each worker delivers, and how it went
  channel,       \* the row of the channel: state, and enabled in its data
  secret,        \* the state of its credential
  channelTest,   \* what a test of the channel read before it waits
  preferred,     \* the owner's preferences name the provider
  sent,          \* messages the provider took, per notification
  losses         \* tasks or messages lost so far

channelVars == <<channel, secret, channelTest, preferred>>
deliveryVars == <<notification, outbox, locked, draining, posted, delivering, sent, losses>>
notificationVars == <<deliveryVars, channelVars>>

NoDelivery == [id |-> "NONE"]
NotificationState == {"NONE", "QUEUED", "DELIVERED", "DEGRADED"}
ChannelRow == [state: {"NONE", "ACTIVE", "DISABLED", "DELETED"}, enabled: BOOLEAN]
NoTest == [open |-> FALSE, enabled |-> FALSE]

NotificationsInit ==
  /\ notification = [n \in Notification |-> "NONE"]
  /\ outbox = {}
  /\ locked = [d \in Drain |-> {}]
  /\ draining = [d \in Drain |-> {}]
  /\ posted = {}
  /\ delivering = [w \in Deliverer |-> NoDelivery]
  /\ channel = [state |-> "NONE", enabled |-> FALSE]
  /\ secret = "NONE"
  /\ channelTest = NoTest
  /\ preferred = FALSE
  /\ sent = [n \in Notification |-> 0]
  /\ losses = 0

(***************************************************************************)
(* The channel                                                             *)
(***************************************************************************)
Shown(on) == [state |-> IF on THEN "ACTIVE" ELSE "DISABLED", enabled |-> on]

CreateChannel ==
  /\ channel.state = "NONE"
  /\ \E on \in BOOLEAN : channel' = Shown(on)
  /\ secret' = "ACTIVE"
  /\ UNCHANGED <<deliveryVars, channelTest, preferred>>

(* A deleted channel comes back to life, its credential does not, even     *)
(* when it receives a new secret.                                          *)
PatchChannel ==
  /\ channel.state # "NONE"
  /\ \E on \in BOOLEAN : channel' = Shown(on)
  /\ UNCHANGED <<deliveryVars, secret, channelTest, preferred>>

DeleteChannel ==
  /\ channel.state # "NONE"
  /\ channel' = [state |-> "DELETED", enabled |-> FALSE]
  /\ secret' = "DELETED"
  /\ UNCHANGED <<deliveryVars, channelTest, preferred>>

StartChannelTest ==
  /\ channel.state # "NONE" /\ ~channelTest.open
  /\ channelTest' = [open |-> TRUE, enabled |-> channel.enabled]
  /\ UNCHANGED <<deliveryVars, channel, secret, preferred>>

(* The data as it was read goes back, the state column stays.  A failure   *)
(* is answered 502, which takes back what was written about it.            *)
FinishChannelTest ==
  /\ channelTest.open
  /\ \/ channel' = [channel EXCEPT !.enabled = channelTest.enabled]
     \/ UNCHANGED channel
  /\ channelTest' = NoTest
  /\ UNCHANGED <<deliveryVars, secret, preferred>>

SavePreferences ==
  /\ preferred' = ~preferred
  /\ UNCHANGED <<deliveryVars, channel, secret, channelTest>>

Wanted == channel.state = "ACTIVE" /\ channel.enabled /\ preferred

(***************************************************************************)
(* What is queued                                                          *)
(***************************************************************************)
(* A confirmed broker event: notification and outbox row in one commit.    *)
(* The id is made from the event, so a repeated snapshot finds it.         *)
QueueConfirmed(n) ==
  /\ Wanted /\ notification[n] = "NONE"
  /\ notification' = [notification EXCEPT ![n] = "QUEUED"]
  /\ outbox' = outbox \cup {n}
  /\ UNCHANGED <<locked, draining, posted, delivering, channelVars, sent, losses>>

(* A request commits its notification, then hands it to Celery itself.     *)
CreateNotification(n) ==
  /\ notification[n] = "NONE"
  /\ notification' = [notification EXCEPT ![n] = "QUEUED"]
  /\ \/ posted' = posted \cup {n} /\ UNCHANGED losses
     \/ losses < MaxLosses /\ losses' = losses + 1 /\ UNCHANGED posted
  /\ UNCHANGED <<outbox, locked, draining, delivering, channelVars, sent>>

(***************************************************************************)
(* The drain                                                               *)
(***************************************************************************)
LockedRows == UNION {locked[d] : d \in Drain}

MutLockOutbox(d) ==
  /\ locked[d] = {} /\ draining[d] = {} /\ outbox # {}
  /\ locked' = [locked EXCEPT ![d] = outbox]
  /\ UNCHANGED <<notification, outbox, draining, posted, delivering, channelVars, sent, losses>>
LockOutbox(d) ==
  /\ locked[d] = {} /\ draining[d] = {} /\ outbox \ LockedRows # {}
  /\ locked' = [locked EXCEPT ![d] = outbox \ LockedRows]
  /\ UNCHANGED <<notification, outbox, draining, posted, delivering, channelVars, sent, losses>>

PublishOutbox(d) ==
  /\ locked[d] # {}
  /\ outbox' = outbox \ locked[d]
  /\ draining' = [draining EXCEPT ![d] = locked[d]]
  /\ locked' = [locked EXCEPT ![d] = {}]
  /\ UNCHANGED <<notification, posted, delivering, channelVars, sent, losses>>

MutHandOver(d) ==
  /\ draining[d] # {}
  /\ posted' = posted \cup {CHOOSE n \in draining[d] : TRUE}
  /\ draining' = [draining EXCEPT ![d] = {}]
  /\ UNCHANGED <<notification, outbox, locked, delivering, channelVars, sent, losses>>
HandOver(d) ==
  /\ \E n \in draining[d] :
       /\ posted' = posted \cup {n}
       /\ draining' = [draining EXCEPT ![d] = @ \ {n}]
  /\ UNCHANGED <<notification, outbox, locked, delivering, channelVars, sent, losses>>

(* Stopped before its commit, a drain leaves the rows to the next one;     *)
(* after it, what it had not handed over is forgotten.                     *)
LoseDrain(d) ==
  /\ locked[d] \cup draining[d] # {} /\ losses < MaxLosses
  /\ losses' = losses + 1
  /\ locked' = [locked EXCEPT ![d] = {}]
  /\ draining' = [draining EXCEPT ![d] = {}]
  /\ UNCHANGED <<notification, outbox, posted, delivering, channelVars, sent>>

(***************************************************************************)
(* The delivery                                                            *)
(***************************************************************************)
(* A wanted channel takes the message, with or without an answer, or not   *)
(* at all, as when its credential is deleted; one that is not wanted is    *)
(* passed over, which counts as done.                                      *)
Deliver(w, n) ==
  /\ n \in posted /\ delivering[w] = NoDelivery
  /\ posted' = posted \ {n}
  /\ \E took, answered \in BOOLEAN :
       /\ took => Wanted /\ secret = "ACTIVE"
       /\ answered => took \/ ~Wanted
       /\ ~Wanted => answered
       /\ sent' = [sent EXCEPT ![n] = @ + (IF took THEN 1 ELSE 0)]
       /\ delivering' = [delivering EXCEPT ![w] = [id |-> n, ok |-> answered]]
  /\ UNCHANGED <<notification, outbox, locked, draining, channelVars, losses>>

RecordDelivery(w) ==
  /\ delivering[w] # NoDelivery
  /\ notification' = [notification EXCEPT ![delivering[w].id] =
                        IF delivering[w].ok THEN "DELIVERED" ELSE "DEGRADED"]
  /\ delivering' = [delivering EXCEPT ![w] = NoDelivery]
  /\ UNCHANGED <<outbox, locked, draining, posted, channelVars, sent, losses>>

(* The message comes back, and the notification is sent again.             *)
LoseDelivery(w) ==
  /\ delivering[w] # NoDelivery /\ losses < MaxLosses
  /\ losses' = losses + 1
  /\ posted' = posted \cup {delivering[w].id}
  /\ delivering' = [delivering EXCEPT ![w] = NoDelivery]
  /\ UNCHANGED <<notification, outbox, locked, draining, channelVars, sent>>

NotificationsNext ==
  \/ \E n \in Notification : QueueConfirmed(n) \/ CreateNotification(n)
  \/ \E d \in Drain : LockOutbox(d) \/ PublishOutbox(d) \/ HandOver(d) \/ LoseDrain(d)
  \/ \E w \in Deliverer :
       \/ RecordDelivery(w) \/ LoseDelivery(w)
       \/ \E n \in Notification : Deliver(w, n)
  \/ CreateChannel \/ PatchChannel \/ DeleteChannel
  \/ StartChannelTest \/ FinishChannelTest \/ SavePreferences

(* Beat starts the drain every five seconds; Celery hands out every        *)
(* message; the provider's client has a timeout.                           *)
NotificationsFairness ==
  /\ \A d \in Drain : /\ WF_notificationVars(LockOutbox(d))
                      /\ WF_notificationVars(PublishOutbox(d))
                      /\ WF_notificationVars(HandOver(d))
  /\ \A w \in Deliverer : /\ WF_notificationVars(\E n \in Notification : Deliver(w, n))
                          /\ WF_notificationVars(RecordDelivery(w))

NotificationsSpec ==
  NotificationsInit /\ [][NotificationsNext]_notificationVars /\ NotificationsFairness

(***************************************************************************)
(* Properties                                                              *)
(***************************************************************************)
(* Type invariant of notifications, outbox and the tasks that carry them.  *)
NotificationsTypeOK ==
  /\ notification \in [Notification -> NotificationState]
  /\ outbox \subseteq Notification /\ posted \subseteq Notification
  /\ locked \in [Drain -> SUBSET Notification]
  /\ draining \in [Drain -> SUBSET Notification]
  /\ delivering \in [Deliverer -> {NoDelivery} \cup [id: Notification, ok: BOOLEAN]]
  /\ channel \in ChannelRow /\ secret \in {"NONE", "ACTIVE", "DELETED"}
  /\ channelTest \in [open: BOOLEAN, enabled: BOOLEAN]
  /\ preferred \in BOOLEAN
  /\ sent \in [Notification -> Nat]
  /\ losses \in 0..MaxLosses

(* One confirmed event, one message per channel: spec.md's "exactly one    *)
(* notification per enabled channel", exceeded only by a lost worker whose *)
(* delivery is repeated, never by drains that run at the same time.        *)
SentOnce == \A n \in Notification : sent[n] <= 1 + losses

(* A queued notification is tried, unless a task or a message was lost on  *)
(* the way: the one gap is between the commit and the hand-over.           *)
NotificationIsTried ==
  \A n \in Notification :
    notification[n] = "QUEUED" ~> notification[n] # "QUEUED" \/ losses > 0
=============================================================================
