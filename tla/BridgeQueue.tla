---------------------------- MODULE BridgeQueue ----------------------------
(***************************************************************************)
(* The MT5 bridge's durable command queue (bridges/mt5/commands.py, served *)
(* by bridges/mt5/app.py) and the expert advisor that polls it             *)
(* (bridges/mt5/MatradesMT5BridgeEA.mq5).                                  *)
(*                                                                         *)
(* Every queue operation runs without an await and persists before it      *)
(* answers, so an operation is one step and a bridge restart is no step at *)
(* all, except when the file cannot be read back (QueueLost).  The EA is a *)
(* single thread that goes through one polled batch command by command;    *)
(* sending the order, noting the command in a terminal global variable and *)
(* posting the receipt are three steps, and it can die between any two.    *)
(*                                                                         *)
(* A definition named Mut... is a wrong version of the definition after it *)
(* that the properties are tried against; no specification uses it.        *)
(***************************************************************************)
EXTENDS Naturals, FiniteSets

CONSTANTS
  Command,      \* command identities
  KeyOf,        \* the idempotency key each command carries
  PollLimit,    \* the largest batch one poll returns
  FaultKinds,   \* which of AllFaults the environment may inject
  MaxFaults     \* bound: how many faults happen in one behaviour

AllFaults == {"drop", "restart", "loss", "timeout"}

ASSUME KeyAssumption == DOMAIN KeyOf = Command
ASSUME BoundAssumption == MaxFaults \in Nat /\ PollLimit \in Nat \ {0}
ASSUME FaultAssumption == FaultKinds \subseteq AllFaults

VARIABLES
  queue,      \* BridgeCommandQueue.pending: the state of each command
  lapsed,     \* leased commands whose lease_expires_at is past
  receipts,   \* BridgeCommandQueue.receipts
  inbox,      \* the EA's batch, the part not yet handled
  hand,       \* the command the EA has just sent, with OrderSend's answer
  processed,  \* the MatradesCmd_ global variables: survive an EA restart
  effects,    \* history: how often the broker executed each command
  accepted,   \* history: commands ever enqueued
  torn,       \* history: restarts between an order and its RememberProcessed
  losses,     \* history: queue files that could not be read back
  faults      \* how many faults have happened

bridgeVars == <<queue, lapsed, receipts, accepted>>
eaVars == <<inbox, hand, processed, effects, torn>>
vars == <<queue, lapsed, receipts, inbox, hand, processed, effects,
          accepted, torn, losses, faults>>

ReceiptState == {"ACKNOWLEDGED", "REJECTED", "OUTCOME_UNKNOWN"}
QueueState == {"ABSENT", "QUEUED", "LEASED"} \cup ReceiptState
Idle == [cmd |-> "none"]
Sent == [cmd : Command, ok : BOOLEAN]

TypeOK ==
  /\ queue \in [Command -> QueueState]
  /\ lapsed \subseteq Command
  /\ receipts \in [Command -> ReceiptState \cup {"NONE"}]
  /\ inbox \subseteq Command
  /\ hand \in Sent \cup {Idle}
  /\ processed \subseteq Command
  /\ effects \in [Command -> Nat]
  /\ accepted \subseteq Command
  /\ torn \in [Command -> Nat]
  /\ losses \in Nat
  /\ faults \in Nat

Init ==
  /\ queue = [c \in Command |-> "ABSENT"]
  /\ lapsed = {}
  /\ receipts = [c \in Command |-> "NONE"]
  /\ inbox = {}
  /\ hand = Idle
  /\ processed = {}
  /\ effects = [c \in Command |-> 0]
  /\ accepted = {}
  /\ torn = [c \in Command |-> 0]
  /\ losses = 0
  /\ faults = 0

Fault(kind) ==
  /\ kind \in FaultKinds
  /\ faults < MaxFaults
  /\ faults' = faults + 1

----------------------------------------------------------------------------
(* The bridge                                                              *)

MutHolds(c) == queue[c] # "ABSENT"

(* A pending command that carries c's idempotency key, if there is one. *)
Holds(c) == \E d \in Command : queue[d] # "ABSENT" /\ KeyOf[d] = KeyOf[c]

(* enqueue answers a key it already holds with the existing command (or    *)
(* with a conflict error): either way the queue stays as it is.            *)
Enqueue(c) ==
  /\ ~ Holds(c)
  /\ queue' = [queue EXCEPT ![c] = "QUEUED"]
  /\ accepted' = accepted \cup {c}
  /\ UNCHANGED <<lapsed, receipts, eaVars, losses, faults>>

MutPollable == {c \in Command : queue[c] = "QUEUED"}

Pollable == {c \in Command : queue[c] = "QUEUED" \/ (queue[c] = "LEASED" /\ c \in lapsed)}

(* A full batch, or all there is. *)
IsBatch(B) ==
  /\ B \subseteq Pollable
  /\ B # {}
  /\ Cardinality(B) <= PollLimit
  /\ B = Pollable \/ Cardinality(B) = PollLimit

Lease(B) ==
  /\ queue' = [c \in Command |-> IF c \in B THEN "LEASED" ELSE queue[c]]
  /\ lapsed' = lapsed \ B

LeaseLapses(c) ==
  /\ queue[c] = "LEASED"
  /\ c \notin lapsed
  /\ lapsed' = lapsed \cup {c}
  /\ UNCHANGED <<queue, receipts, accepted, eaVars, losses, faults>>

MutRecord(c, verdict) ==
  IF receipts[c] # "NONE"
    THEN UNCHANGED <<queue, lapsed, receipts>>
    ELSE receipts' = [receipts EXCEPT ![c] = verdict] /\ UNCHANGED <<queue, lapsed>>

(* receipt: the first one wins, and closes the pending command. *)
Record(c, verdict) ==
  IF receipts[c] # "NONE"
    THEN UNCHANGED <<queue, lapsed, receipts>>
    ELSE /\ receipts' = [receipts EXCEPT ![c] = verdict]
         /\ queue' = [queue EXCEPT ![c] = IF @ = "ABSENT" THEN @ ELSE verdict]
         /\ lapsed' = lapsed \ {c}

(* _load finds a file it cannot parse: both tables start empty again. *)
QueueLost ==
  /\ Fault("loss")
  /\ accepted # {}
  /\ queue' = [c \in Command |-> "ABSENT"]
  /\ receipts' = [c \in Command |-> "NONE"]
  /\ lapsed' = {}
  /\ losses' = losses + 1
  /\ UNCHANGED <<accepted, eaVars>>

----------------------------------------------------------------------------
(* The expert advisor                                                      *)

Polling == inbox = {} /\ hand = Idle

Poll ==
  /\ Polling
  /\ \E B \in SUBSET Pollable :
       /\ IsBatch(B)
       /\ Lease(B)
       /\ inbox' = B
  /\ UNCHANGED <<receipts, accepted, hand, processed, effects, torn, losses, faults>>

(* The batch is leased at the bridge but the answer never arrives. *)
PollLost ==
  /\ Polling
  /\ Fault("drop")
  /\ \E B \in SUBSET Pollable : IsBatch(B) /\ Lease(B)
  /\ UNCHANGED <<receipts, accepted, eaVars, losses>>

MutWasProcessed(c) == FALSE
WasProcessed(c) == c \in processed

MutAckDuplicate == "ACKNOWLEDGED"
MutNameDuplicate == "DUPLICATE"
MutRejectDuplicate == "REJECTED"
DuplicateVerdict == "OUTCOME_UNKNOWN"

(* A command seen before is answered without touching the broker. *)
AnswerDuplicate(c, delivered) ==
  /\ hand = Idle
  /\ c \in inbox
  /\ WasProcessed(c)
  /\ inbox' = inbox \ {c}
  /\ \/ delivered /\ Record(c, DuplicateVerdict) /\ UNCHANGED faults
     \/ ~ delivered /\ Fault("drop") /\ UNCHANGED <<queue, lapsed, receipts>>
  /\ UNCHANGED <<accepted, hand, processed, effects, torn, losses>>

(* ExecutePlaceOrder and its siblings up to OrderSend's answer.  A refused *)
(* or unsendable order has no effect.  When the trade server's answer is   *)
(* lost OrderSend reports failure although the order went through.         *)
Execute(c, ok) ==
  /\ hand = Idle
  /\ c \in inbox
  /\ ~ WasProcessed(c)
  /\ hand' = [cmd |-> c, ok |-> ok]
  /\ \/ effects' = [effects EXCEPT ![c] = IF ok THEN @ + 1 ELSE @] /\ UNCHANGED faults
     \/ ~ ok /\ Fault("timeout") /\ effects' = [effects EXCEPT ![c] = @ + 1]
  /\ UNCHANGED <<bridgeVars, inbox, processed, torn, losses>>

RememberProcessed ==
  /\ hand # Idle
  /\ hand.cmd \notin processed
  /\ processed' = processed \cup {hand.cmd}
  /\ UNCHANGED <<bridgeVars, inbox, hand, effects, torn, losses, faults>>

PostReceipt(delivered) ==
  /\ hand # Idle
  /\ hand.cmd \in processed
  /\ inbox' = inbox \ {hand.cmd}
  /\ hand' = Idle
  /\ \/ /\ delivered
        /\ Record(hand.cmd, IF hand.ok THEN "ACKNOWLEDGED" ELSE "REJECTED")
        /\ UNCHANGED faults
     \/ ~ delivered /\ Fault("drop") /\ UNCHANGED <<queue, lapsed, receipts>>
  /\ UNCHANGED <<accepted, processed, effects, torn, losses>>

(* The terminal or the EA is restarted: the batch is gone, the global      *)
(* variables are not.                                                      *)
MutSurviving == {}
Surviving == processed

Unremembered(c) == hand # Idle /\ hand.cmd = c /\ c \notin processed /\ effects[c] > torn[c]

EaRestart ==
  /\ Fault("restart")
  /\ ~ Polling
  /\ inbox' = {}
  /\ hand' = Idle
  /\ torn' = [c \in Command |-> IF Unremembered(c) THEN torn[c] + 1 ELSE torn[c]]
  /\ processed' = Surviving
  /\ UNCHANGED <<bridgeVars, effects, losses>>

----------------------------------------------------------------------------
Environment ==
  \/ \E c \in Command : Enqueue(c) \/ LeaseLapses(c)
  \/ QueueLost
  \/ PollLost
  \/ EaRestart

Work ==
  \/ Poll
  \/ \E c \in Command, b \in BOOLEAN : AnswerDuplicate(c, b) \/ Execute(c, b)
  \/ RememberProcessed
  \/ \E b \in BOOLEAN : PostReceipt(b)

Next == Environment \/ Work

(* OnTimer keeps the EA going, and leases lapse with time; neither the     *)
(* faults nor new commands have to come.                                   *)
Fairness == WF_vars(Work) /\ \A c \in Command : WF_vars(LeaseLapses(c))

Spec == Init /\ [][Next]_vars /\ Fairness

----------------------------------------------------------------------------
(* A command reaches the broker once, and once more only for a restart     *)
(* that hit between OrderSend and RememberProcessed: redelivery of the     *)
(* dispatch, lapsed leases, lost answers, lost receipts and a lost queue   *)
(* file never execute it again.                                            *)
AtMostOnce == \A c \in Command : effects[c] <= 1 + torn[c]

(* Two command identities under one idempotency key never both execute,    *)
(* as long as the queue file survives.                                     *)
OneEffectPerKey ==
  losses = 0 =>
    \A c, d \in Command :
      c # d /\ KeyOf[c] = KeyOf[d] => effects[c] = 0 \/ effects[d] = 0

(* A command whose receipt says ACKNOWLEDGED was executed, also after      *)
(* redelivery and restarts.                                                *)
AcknowledgedWasExecuted ==
  \A c \in Command : receipts[c] = "ACKNOWLEDGED" => effects[c] > 0

(* A command whose receipt says REJECTED had no effect, unless the EA died *)
(* between its order and the note of it.  The adapter contract wants       *)
(* OUTCOME_UNKNOWN where the EA cannot know.                               *)
RejectedHadNoEffect ==
  \A c \in Command : receipts[c] = "REJECTED" /\ torn[c] = 0 => effects[c] = 0

(* While the queue file survives, a command that has its receipt is never  *)
(* leased again, so the EA stops seeing it.                                *)
ClosedStaysClosed ==
  losses = 0 =>
    \A c \in Command : receipts[c] # "NONE" => queue[c] = receipts[c]

(* Once the faults are over every command still queued gets its receipt:   *)
(* leases bring back whatever a lost answer or a restart made the EA drop. *)
EveryCommandIsAnswered ==
  \A c \in Command :
    queue[c] \in {"QUEUED", "LEASED"} ~> (receipts[c] # "NONE" \/ queue[c] = "ABSENT")

----------------------------------------------------------------------------
(* What the bridge and the EA do together is what BrokerPort promises the  *)
(* execution service.                                                      *)
Refused == {c \in processed : effects[c] = 0}

Port == INSTANCE BrokerPort
          WITH applied <- effects, refused <- Refused, glitches <- torn

ImplementsBrokerPort == Port!Spec
============================================================================
