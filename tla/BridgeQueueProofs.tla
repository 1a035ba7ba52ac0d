------------------------- MODULE BridgeQueueProofs -------------------------
(***************************************************************************)
(* What BridgeQueue guarantees for every set of commands and keys, every   *)
(* poll limit and any number and kind of faults.                           *)
(***************************************************************************)
EXTENDS BridgeQueue, TLAPS

(* The command the EA is working on between OrderSend and its receipt. *)
InHand(c) == hand # Idle /\ hand.cmd = c

(* Every effect but one is paid for by a torn restart, and that one by the *)
(* command being remembered or still in hand: a command neither remembered *)
(* nor in hand is fully paid for, which is what lets Execute add one.      *)
Accounted ==
  \A c \in Command :
    /\ effects[c] <= torn[c] + 1
    /\ c \notin processed /\ ~ InHand(c) => effects[c] <= torn[c]

(* Whatever the bridge or the EA holds was enqueued at some point. *)
Known ==
  /\ \A c \in Command : queue[c] # "ABSENT" => c \in accepted
  /\ inbox \subseteq accepted
  /\ hand # Idle => hand.cmd \in accepted
  /\ processed \subseteq accepted

(* A success in hand, and a success recorded, stand on an effect. *)
Truthful ==
  /\ hand # Idle /\ hand.ok => effects[hand.cmd] > 0
  /\ \A c \in Command : receipts[c] = "ACKNOWLEDGED" => effects[c] > 0

Inv == TypeOK /\ Accounted /\ Known /\ Truthful

----------------------------------------------------------------------------
(* Idle is told apart from every command in hand by its field. *)
LEMMA HandIsSent == ASSUME TypeOK, hand # Idle
                    PROVE  hand \in Sent /\ hand.cmd \in Command /\ hand.ok \in BOOLEAN
BY DEF TypeOK, Sent, Idle

(* The invariant holds of an empty queue and an idle terminal.             *)
LEMMA InitEstablishes == Init => Inv
BY DEF Init, Inv, TypeOK, Accounted, Known, Truthful, QueueState, ReceiptState, InHand, Idle, Sent

(* Recording an answer keeps the tables typed, and adds no command and no *)
(* verdict but the one given.                                             *)
LEMMA RecordKeeps ==
  ASSUME Inv, NEW c \in Command, NEW verdict \in ReceiptState, Record(c, verdict),
         c \in accepted, UNCHANGED accepted,
         verdict = "ACKNOWLEDGED" => effects[c] > 0
  PROVE  /\ queue' \in [Command -> QueueState]
         /\ lapsed' \subseteq Command
         /\ receipts' \in [Command -> ReceiptState \cup {"NONE"}]
         /\ \A d \in Command : queue'[d] # "ABSENT" => d \in accepted'
         /\ \A d \in Command : receipts'[d] = "ACKNOWLEDGED" => effects[d] > 0
BY DEF Record, Inv, TypeOK, Known, Truthful, QueueState

----------------------------------------------------------------------------
(* The bridge's own steps leave the EA alone. *)
LEMMA BridgeKeeps ==
  ASSUME Inv, NEW c \in Command, Enqueue(c) \/ LeaseLapses(c) \/ QueueLost
  PROVE  Inv'
<1> USE DEF Inv
<1>1. CASE Enqueue(c)
  <2>1. TypeOK'
    BY <1>1 DEF Enqueue, TypeOK, eaVars, QueueState
  <2>2. Known'
    BY <1>1 DEF Enqueue, TypeOK, Known, eaVars
  <2>3. Accounted' /\ Truthful'
    BY <1>1 DEF Enqueue, Accounted, Truthful, InHand, eaVars
  <2> QED BY <2>1, <2>2, <2>3
<1>2. CASE LeaseLapses(c)
  <2>1. TypeOK'
    BY <1>2 DEF LeaseLapses, TypeOK, eaVars
  <2>2. Accounted' /\ Known' /\ Truthful'
    BY <1>2 DEF LeaseLapses, Accounted, Known, Truthful, InHand, eaVars
  <2> QED BY <2>1, <2>2
<1>3. CASE QueueLost
  <2>1. TypeOK'
    BY <1>3 DEF QueueLost, Fault, TypeOK, eaVars, QueueState
  <2>2. Accounted' /\ Known' /\ Truthful'
    BY <1>3 DEF QueueLost, Accounted, Known, Truthful, InHand, eaVars
  <2> QED BY <2>1, <2>2
<1> QED BY <1>1, <1>2, <1>3

(* A poll moves nothing but leases; what it hands out was enqueued. *)
LEMMA PollKeeps ==
  ASSUME Inv, Poll \/ PollLost
  PROVE  Inv'
<1> USE DEF Inv
<1>1. PICK B \in SUBSET Pollable :
        /\ Lease(B)
        /\ inbox' = B \/ inbox' = inbox
        /\ faults' = faults \/ faults' = faults + 1
        /\ UNCHANGED <<receipts, accepted, hand, processed, effects, torn, losses>>
  BY DEF Poll, PollLost, Fault, eaVars
<1>2. B \subseteq Command /\ \A c \in B : queue[c] # "ABSENT"
  BY DEF Pollable
<1>3. TypeOK'
  BY <1>1, <1>2 DEF TypeOK, Lease, QueueState
<1>4. Known'
  BY <1>1, <1>2 DEF Known, Lease, TypeOK
<1>5. Accounted' /\ Truthful'
  BY <1>1 DEF Accounted, Truthful, InHand
<1> QED BY <1>3, <1>4, <1>5

(* A command answered as a duplicate costs no effect and claims none. *)
LEMMA AnswerDuplicateKeeps ==
  ASSUME Inv, NEW c \in Command, NEW b \in BOOLEAN, AnswerDuplicate(c, b)
  PROVE  Inv'
<1> USE DEF Inv
<1>1. c \in accepted /\ UNCHANGED <<accepted, hand, processed, effects, torn, losses>>
  BY DEF AnswerDuplicate, Known
<1>2. DuplicateVerdict \in ReceiptState /\ DuplicateVerdict # "ACKNOWLEDGED"
  BY DEF DuplicateVerdict, ReceiptState
<1>3. /\ queue' \in [Command -> QueueState]
      /\ lapsed' \subseteq Command
      /\ receipts' \in [Command -> ReceiptState \cup {"NONE"}]
      /\ \A d \in Command : queue'[d] # "ABSENT" => d \in accepted'
      /\ \A d \in Command : receipts'[d] = "ACKNOWLEDGED" => effects[d] > 0
  <2>1. CASE Record(c, DuplicateVerdict)
    BY <1>1, <1>2, <2>1, RecordKeeps
  <2>2. CASE UNCHANGED <<queue, lapsed, receipts>>
    BY <1>1, <2>2 DEF TypeOK, Known, Truthful
  <2> QED BY <2>1, <2>2 DEF AnswerDuplicate
<1>4. inbox' \subseteq inbox /\ faults' \in Nat
  BY DEF AnswerDuplicate, Fault, TypeOK
<1>5. TypeOK'
  BY <1>1, <1>3, <1>4 DEF TypeOK
<1>6. Known' /\ Truthful'
  BY <1>1, <1>3, <1>4 DEF Known, Truthful
<1>7. Accounted'
  BY <1>1 DEF Accounted, InHand
<1> QED BY <1>5, <1>6, <1>7

(* The one step with an effect takes a command that is not remembered and *)
(* puts it in hand.                                                       *)
LEMMA ExecuteKeeps ==
  ASSUME Inv, NEW c \in Command, NEW b \in BOOLEAN, Execute(c, b)
  PROVE  Inv'
<1> USE DEF Inv
<1>1. /\ hand = Idle /\ c \in inbox /\ c \notin processed
      /\ hand' = [cmd |-> c, ok |-> b]
      /\ UNCHANGED <<queue, lapsed, receipts, accepted, inbox, processed, torn, losses>>
  BY DEF Execute, WasProcessed, bridgeVars
<1>2. /\ effects' \in [Command -> Nat] /\ faults' \in Nat
      /\ \A d \in Command : d # c => effects'[d] = effects[d]
      /\ effects'[c] \in {effects[c], effects[c] + 1}
      /\ b => effects'[c] = effects[c] + 1
  BY DEF Execute, Fault, TypeOK
<1>3. hand' \in Sent /\ hand' # Idle /\ hand'.cmd = c /\ hand'.ok = b
  BY <1>1 DEF Sent, Idle
<1>4. TypeOK'
  BY <1>1, <1>2, <1>3 DEF TypeOK
<1>5. Accounted'
  <2>1. effects[c] <= torn[c]
    BY <1>1 DEF Accounted, InHand
  <2>2. torn[c] \in Nat /\ effects[c] \in Nat
    BY DEF TypeOK
  <2> QED BY <1>1, <1>2, <1>3, <2>1, <2>2 DEF Accounted, InHand
<1>6. Known'
  BY <1>1, <1>3 DEF Known
<1>7. Truthful'
  BY <1>1, <1>2, <1>3 DEF Truthful, TypeOK
<1> QED BY <1>4, <1>5, <1>6, <1>7

(* Noting the command (RememberProcessed) keeps the invariant.             *)
LEMMA RememberKeeps ==
  ASSUME Inv, RememberProcessed
  PROVE  Inv'
<1> USE DEF Inv
<1>1. hand.cmd \in Command
  BY HandIsSent DEF RememberProcessed
<1>2. TypeOK'
  BY <1>1 DEF RememberProcessed, TypeOK, bridgeVars
<1>3. Accounted' /\ Known' /\ Truthful'
  BY <1>1 DEF RememberProcessed, Accounted, Known, Truthful, InHand, bridgeVars
<1> QED BY <1>2, <1>3

(* The receipt says what the hand says, and the hand tells the truth. *)
LEMMA PostReceiptKeeps ==
  ASSUME Inv, NEW b \in BOOLEAN, PostReceipt(b)
  PROVE  Inv'
<1> USE DEF Inv
<1> DEFINE verdict == IF hand.ok THEN "ACKNOWLEDGED" ELSE "REJECTED"
<1>1. /\ hand # Idle /\ hand.cmd \in processed /\ hand' = Idle
      /\ inbox' \subseteq inbox /\ faults' \in Nat
      /\ UNCHANGED <<accepted, processed, effects, torn, losses>>
  BY DEF PostReceipt, Fault, TypeOK
<1>2. hand.cmd \in Command /\ hand.cmd \in accepted /\ hand.ok \in BOOLEAN
  BY <1>1, HandIsSent DEF Known
<1>3. verdict \in ReceiptState /\ (verdict = "ACKNOWLEDGED" => effects[hand.cmd] > 0)
  BY <1>1 DEF ReceiptState, Truthful
<1>4. /\ queue' \in [Command -> QueueState]
      /\ lapsed' \subseteq Command
      /\ receipts' \in [Command -> ReceiptState \cup {"NONE"}]
      /\ \A d \in Command : queue'[d] # "ABSENT" => d \in accepted'
      /\ \A d \in Command : receipts'[d] = "ACKNOWLEDGED" => effects[d] > 0
  <2>1. CASE Record(hand.cmd, verdict)
    <3> HIDE DEF verdict
    <3> QED BY <1>1, <1>2, <1>3, <2>1, RecordKeeps
  <2>2. CASE UNCHANGED <<queue, lapsed, receipts>>
    BY <1>1, <2>2 DEF TypeOK, Known, Truthful
  <2> QED BY <2>1, <2>2 DEF PostReceipt
<1>5. TypeOK'
  BY <1>1, <1>4 DEF TypeOK
<1>6. Known' /\ Truthful'
  BY <1>1, <1>4 DEF Known, Truthful
<1>7. Accounted'
  BY <1>1 DEF Accounted, InHand
<1> QED BY <1>5, <1>6, <1>7

(* A restart that empties the hand before it is remembered pays for the *)
(* effect that may be repeated.                                         *)
LEMMA EaRestartKeeps ==
  ASSUME Inv, EaRestart
  PROVE  Inv'
<1> USE DEF Inv
<1>1. /\ inbox' = {} /\ hand' = Idle /\ processed' = processed
      /\ UNCHANGED <<queue, lapsed, receipts, accepted, effects, losses>>
      /\ faults' \in Nat
  BY DEF EaRestart, Fault, Surviving, bridgeVars, TypeOK
<1>2. /\ torn' \in [Command -> Nat]
      /\ \A c \in Command : torn'[c] = IF Unremembered(c) THEN torn[c] + 1 ELSE torn[c]
  BY DEF EaRestart, TypeOK
<1>3. TypeOK'
  BY <1>1, <1>2 DEF TypeOK
<1>4. Accounted'
  <2> SUFFICES ASSUME NEW c \in Command
               PROVE  /\ effects[c] <= torn'[c] + 1
                      /\ c \notin processed => effects[c] <= torn'[c]
    BY <1>1 DEF Accounted
  <2>1. /\ effects[c] \in Nat /\ torn[c] \in Nat /\ effects[c] <= torn[c] + 1
        /\ c \notin processed /\ ~ InHand(c) => effects[c] <= torn[c]
    BY DEF Accounted, TypeOK
  <2> QED BY <1>2, <2>1 DEF Unremembered, InHand
<1>5. Known' /\ Truthful'
  BY <1>1 DEF Known, Truthful
<1> QED BY <1>3, <1>4, <1>5

(* Every step of the bridge and of the EA keeps the invariant.             *)
LEMMA InvInductive == Inv /\ [Next]_vars => Inv'
<1> SUFFICES ASSUME Inv, [Next]_vars PROVE Inv'
  OBVIOUS
<1>1. ASSUME NEW c \in Command, Enqueue(c) \/ LeaseLapses(c) PROVE Inv'
  BY <1>1, BridgeKeeps
<1>2. CASE QueueLost
  <2>1. accepted # {} /\ accepted \subseteq Command
    BY <1>2 DEF QueueLost, Inv, TypeOK
  <2> QED BY <1>2, <2>1, BridgeKeeps
<1>3. CASE Poll \/ PollLost
  BY <1>3, PollKeeps
<1>4. CASE EaRestart
  BY <1>4, EaRestartKeeps
<1>5. ASSUME NEW c \in Command, NEW b \in BOOLEAN, AnswerDuplicate(c, b) PROVE Inv'
  BY <1>5, AnswerDuplicateKeeps
<1>6. ASSUME NEW c \in Command, NEW b \in BOOLEAN, Execute(c, b) PROVE Inv'
  BY <1>6, ExecuteKeeps
<1>7. CASE RememberProcessed
  BY <1>7, RememberKeeps
<1>8. ASSUME NEW b \in BOOLEAN, PostReceipt(b) PROVE Inv'
  BY <1>8, PostReceiptKeeps
<1>9. CASE UNCHANGED vars
  BY <1>9 DEF vars, Inv, TypeOK, Accounted, Known, Truthful, InHand
<1> QED BY <1>1, <1>2, <1>3, <1>4, <1>5, <1>6, <1>7, <1>8, <1>9 DEF Next, Environment, Work

(* The invariant holds in every state of every behaviour.                  *)
LEMMA Invariance == Spec => []Inv
BY InitEstablishes, InvInductive, PTL DEF Spec

----------------------------------------------------------------------------
(* The tables of the bridge and of the EA keep their types. *)
THEOREM TypeCorrect == Spec => []TypeOK
<1>1. Inv => TypeOK
  BY DEF Inv
<1> QED BY <1>1, Invariance, PTL

(* Redelivered dispatches, lapsed leases, lost answers and receipts and a  *)
(* lost queue file never make the EA execute a command again; only a       *)
(* restart between OrderSend and RememberProcessed does, once each.        *)
THEOREM ExecutedAtMostOnce == Spec => []AtMostOnce
<1>1. Inv => AtMostOnce
  BY DEF Inv, TypeOK, Accounted, AtMostOnce
<1> QED BY <1>1, Invariance, PTL

(* An ACKNOWLEDGED receipt stands on an order the broker executed. *)
THEOREM AcknowledgedIsTrue == Spec => []AcknowledgedWasExecuted
<1>1. Inv => AcknowledgedWasExecuted
  BY DEF Inv, Truthful, AcknowledgedWasExecuted
<1> QED BY <1>1, Invariance, PTL

----------------------------------------------------------------------------
(* A refused order has no effect, as long as no trade server's answer is    *)
(* lost: whoever the EA turned down was fully paid for when it was turned   *)
(* down, and being remembered it never gets another effect.                 *)
Refusals ==
  /\ hand # Idle /\ ~ hand.ok => effects[hand.cmd] <= torn[hand.cmd]
  /\ \A c \in Command :
       receipts[c] = "REJECTED" => c \in processed /\ effects[c] <= torn[c]

(* Without lost trade-server answers, every step keeps what a refusal says.*)
LEMMA RefusalsInductive ==
  ASSUME "timeout" \notin FaultKinds
  PROVE  Inv /\ Refusals /\ [Next]_vars => Refusals'
<1> SUFFICES ASSUME Inv, Refusals, [Next]_vars PROVE Refusals'
  OBVIOUS
<1> USE DEF Inv
<1>1. ASSUME NEW c \in Command, Enqueue(c) \/ LeaseLapses(c) PROVE Refusals'
  BY <1>1 DEF Enqueue, LeaseLapses, Refusals, eaVars
<1>2. CASE QueueLost \/ Poll \/ PollLost
  BY <1>2 DEF QueueLost, Poll, PollLost, Refusals, eaVars
<1>3. CASE EaRestart
  BY <1>3 DEF EaRestart, Surviving, Refusals, bridgeVars, TypeOK
<1>4. ASSUME NEW c \in Command, NEW b \in BOOLEAN, AnswerDuplicate(c, b) PROVE Refusals'
  <2>1. UNCHANGED <<hand, processed, effects, torn>>
    BY <1>4 DEF AnswerDuplicate
  <2>2. \A d \in Command : receipts'[d] = "REJECTED" => receipts[d] = "REJECTED"
    BY <1>4 DEF AnswerDuplicate, Record, DuplicateVerdict, TypeOK
  <2> QED BY <2>1, <2>2 DEF Refusals
<1>5. ASSUME NEW c \in Command, NEW b \in BOOLEAN, Execute(c, b) PROVE Refusals'
  <2>1. /\ hand' = [cmd |-> c, ok |-> b] /\ c \notin processed
        /\ effects' = [effects EXCEPT ![c] = IF b THEN @ + 1 ELSE @]
        /\ UNCHANGED <<receipts, processed, torn>>
    BY <1>5 DEF Execute, Fault, WasProcessed, bridgeVars
  <2>2. effects[c] <= torn[c] /\ effects[c] \in Nat
    BY <1>5 DEF Execute, WasProcessed, Accounted, InHand, TypeOK
  <2>3. hand'.cmd = c /\ hand'.ok = b
    BY <2>1
  <2> QED BY <2>1, <2>2, <2>3 DEF Refusals, TypeOK
<1>6. CASE RememberProcessed
  BY <1>6 DEF RememberProcessed, Refusals, bridgeVars
<1>7. ASSUME NEW b \in BOOLEAN, PostReceipt(b) PROVE Refusals'
  <2>1. /\ hand # Idle /\ hand' = Idle /\ hand.cmd \in processed
        /\ UNCHANGED <<processed, effects, torn>>
    BY <1>7 DEF PostReceipt
  <2>2. \A d \in Command :
          receipts'[d] = "REJECTED" =>
            receipts[d] = "REJECTED" \/ (d = hand.cmd /\ ~ hand.ok)
    BY <1>7 DEF PostReceipt, Record, TypeOK
  <2> QED BY <2>1, <2>2 DEF Refusals
<1>8. CASE UNCHANGED vars
  BY <1>8 DEF vars, Refusals
<1> QED BY <1>1, <1>2, <1>3, <1>4, <1>5, <1>6, <1>7, <1>8 DEF Next, Environment, Work

(* Without lost answers from the trade server a REJECTED receipt stands for *)
(* an order that had no effect, unless a restart tore the sending of it.    *)
THEOREM RejectedIsTrue ==
  ASSUME "timeout" \notin FaultKinds
  PROVE  Spec => []RejectedHadNoEffect
<1>1. Init => Refusals
  BY DEF Init, Refusals
<1>2. Inv /\ Refusals => RejectedHadNoEffect
  BY DEF Inv, TypeOK, Refusals, RejectedHadNoEffect
<1> QED BY <1>1, <1>2, RefusalsInductive, Invariance, PTL DEF Spec

----------------------------------------------------------------------------
(* While the file survives nothing leaves the queue, no two commands in it  *)
(* share a key, and a command with a receipt is closed with that receipt.   *)
Kept ==
  /\ \A c \in Command : effects[c] > 0 => c \in accepted
  /\ losses = 0 =>
       /\ \A c \in accepted : queue[c] # "ABSENT"
       /\ \A c, d \in accepted : c # d => KeyOf[c] # KeyOf[d]
       /\ \A c \in Command : receipts[c] # "NONE" => queue[c] = receipts[c]

(* Recording the answer to a command that is still in the queue closes it. *)
LEMMA RecordCloses ==
  ASSUME Inv, Kept, NEW c \in accepted, NEW verdict \in ReceiptState, Record(c, verdict),
         UNCHANGED <<accepted, effects, losses>>
  PROVE  Kept'
BY DEF Record, Inv, TypeOK, Kept, ReceiptState

(* Every step keeps the link between receipts, pending entries and keys.   *)
LEMMA KeptInductive == Inv /\ Kept /\ [Next]_vars => Kept'
<1> SUFFICES ASSUME Inv, Kept, [Next]_vars PROVE Kept'
  OBVIOUS
<1> USE DEF Inv
<1>1. ASSUME NEW c \in Command, Enqueue(c) PROVE Kept'
  <2>1. /\ \A d \in Command : queue[d] # "ABSENT" => KeyOf[d] # KeyOf[c]
        /\ queue' = [queue EXCEPT ![c] = "QUEUED"] /\ accepted' = accepted \cup {c}
        /\ queue[c] = "ABSENT"
        /\ UNCHANGED <<receipts, effects, losses>>
    BY <1>1 DEF Enqueue, Holds, eaVars
  <2>2. losses = 0 => receipts[c] = "NONE"
    BY <2>1 DEF Kept, TypeOK, ReceiptState
  <2> QED BY <2>1, <2>2 DEF Kept, TypeOK
<1>2. ASSUME NEW c \in Command, LeaseLapses(c) PROVE Kept'
  BY <1>2 DEF LeaseLapses, Kept, eaVars
<1>3. CASE QueueLost
  BY <1>3 DEF QueueLost, Kept, TypeOK, eaVars
<1>4. CASE Poll \/ PollLost
  <2>1. PICK B \in SUBSET Pollable :
          Lease(B) /\ UNCHANGED <<receipts, accepted, effects, losses>>
    BY <1>4 DEF Poll, PollLost, eaVars
  <2>2. losses = 0 => \A c \in B : receipts[c] = "NONE"
    BY DEF Pollable, Kept, TypeOK, ReceiptState
  <2> QED BY <2>1, <2>2 DEF Lease, Kept, TypeOK
<1>5. CASE EaRestart
  BY <1>5 DEF EaRestart, Kept, bridgeVars
<1>6. ASSUME NEW c \in Command, NEW b \in BOOLEAN, AnswerDuplicate(c, b) PROVE Kept'
  <2>1. c \in accepted /\ DuplicateVerdict \in ReceiptState
        /\ UNCHANGED <<accepted, effects, losses>>
    BY <1>6 DEF AnswerDuplicate, Known, DuplicateVerdict, ReceiptState
  <2>2. CASE Record(c, DuplicateVerdict)
    BY <2>1, <2>2, RecordCloses
  <2>3. CASE UNCHANGED <<queue, lapsed, receipts>>
    BY <2>1, <2>3 DEF Kept
  <2> QED BY <1>6, <2>2, <2>3 DEF AnswerDuplicate
<1>7. ASSUME NEW c \in Command, NEW b \in BOOLEAN, Execute(c, b) PROVE Kept'
  <2>1. /\ c \in accepted /\ UNCHANGED <<queue, receipts, accepted, losses>>
        /\ \A d \in Command : d # c => effects'[d] = effects[d]
    BY <1>7 DEF Execute, Fault, Known, TypeOK, bridgeVars
  <2> QED BY <2>1 DEF Kept
<1>8. CASE RememberProcessed
  BY <1>8 DEF RememberProcessed, Kept, bridgeVars
<1>9. ASSUME NEW b \in BOOLEAN, PostReceipt(b) PROVE Kept'
  <2> DEFINE verdict == IF hand.ok THEN "ACKNOWLEDGED" ELSE "REJECTED"
  <2>1. hand.cmd \in accepted /\ verdict \in ReceiptState
        /\ UNCHANGED <<accepted, effects, losses>>
    BY <1>9 DEF PostReceipt, Known, ReceiptState
  <2>2. CASE Record(hand.cmd, verdict)
    <3> HIDE DEF verdict
    <3> QED BY <2>1, <2>2, RecordCloses
  <2>3. CASE UNCHANGED <<queue, lapsed, receipts>>
    BY <2>1, <2>3 DEF Kept
  <2> QED BY <1>9, <2>2, <2>3 DEF PostReceipt
<1>10. CASE UNCHANGED vars
  BY <1>10 DEF vars, Kept
<1> QED BY <1>1, <1>2, <1>3, <1>4, <1>5, <1>6, <1>7, <1>8, <1>9, <1>10 DEF Next, Environment, Work

(* That link holds in every state, up to the first lost queue file.        *)
LEMMA KeptInvariance == Spec => []Kept
<1>1. Init => Kept
  BY DEF Init, Kept
<1> QED BY <1>1, KeptInductive, Invariance, PTL DEF Spec

(* Unless the queue file is lost, a command that has its receipt is closed *)
(* with it for good, so no poll ever hands it out again.                   *)
THEOREM ClosedForGood == Spec => []ClosedStaysClosed
<1>1. Kept => ClosedStaysClosed
  BY DEF Kept, ClosedStaysClosed
<1> QED BY <1>1, KeptInvariance, PTL

(* Unless the queue file is lost, at most one of the commands that share an *)
(* idempotency key reaches the broker.                                      *)
THEOREM OneCommandPerKey == Spec => []OneEffectPerKey
<1>1. Inv /\ Kept => OneEffectPerKey
  BY DEF Inv, TypeOK, Kept, OneEffectPerKey
<1> QED BY <1>1, KeptInvariance, Invariance, PTL

----------------------------------------------------------------------------
(* Each step of the bridge and the EA is a step of the port, or none. *)
LEMMA StepRefines == Inv /\ [Next]_vars => [Port!Next]_Port!vars
<1> SUFFICES ASSUME Inv, [Next]_vars PROVE [Port!Next]_Port!vars
  OBVIOUS
<1> USE DEF Inv
<1>1. ASSUME NEW c \in Command, Enqueue(c) PROVE Port!Next
  <2>1. Port!Accept(c)
    BY <1>1 DEF Enqueue, eaVars, Port!Accept, Refused
  <2> QED BY <2>1 DEF Port!Next
<1>2. ASSUME NEW c \in Command, NEW b \in BOOLEAN, Execute(c, b)
      PROVE  Port!Next \/ UNCHANGED Port!vars
  <2>1. /\ c \in accepted /\ c \notin processed /\ effects[c] <= torn[c]
        /\ UNCHANGED <<accepted, processed, torn>>
    BY <1>2 DEF Execute, WasProcessed, bridgeVars, Known, Accounted, InHand
  <2>2. CASE effects' = [effects EXCEPT ![c] = @ + 1]
    <3>1. UNCHANGED Refused
      BY <2>1, <2>2 DEF Refused, TypeOK
    <3>2. Port!Apply(c)
      BY <2>1, <2>2, <3>1 DEF Port!Apply, Refused
    <3> QED BY <3>2 DEF Port!Next
  <2>3. CASE effects' = [effects EXCEPT ![c] = @]
    <3>1. effects' = effects
      BY <2>3 DEF TypeOK
    <3> QED BY <2>1, <3>1 DEF Port!vars, Refused
  <2> QED BY <1>2, <2>2, <2>3 DEF Execute
<1>3. CASE RememberProcessed
  <2>1. /\ hand.cmd \in Command /\ hand.cmd \in accepted
        /\ processed' = processed \cup {hand.cmd}
        /\ UNCHANGED <<accepted, effects, torn>>
    BY <1>3, HandIsSent DEF RememberProcessed, bridgeVars, Known
  <2>2. CASE effects[hand.cmd] = 0
    <3>1. Refused' = Refused \cup {hand.cmd}
      BY <2>1, <2>2 DEF Refused
    <3>2. Port!Refuse(hand.cmd)
      BY <2>1, <2>2, <3>1 DEF Port!Refuse
    <3> QED BY <2>1, <3>2 DEF Port!Next
  <2>3. CASE effects[hand.cmd] # 0
    BY <2>1, <2>3 DEF Port!vars, Refused
  <2> QED BY <2>2, <2>3
<1>4. CASE EaRestart
  <2>1. /\ torn' = [c \in Command |-> IF Unremembered(c) THEN torn[c] + 1 ELSE torn[c]]
        /\ UNCHANGED <<accepted, processed, effects>>
    BY <1>4 DEF EaRestart, Surviving, bridgeVars
  <2>2. UNCHANGED Refused
    BY <2>1 DEF Refused
  <2>3. ASSUME NEW c \in Command, Unremembered(c) PROVE Port!Next
    <3>1. torn' = [torn EXCEPT ![c] = @ + 1]
      BY <2>1, <2>3 DEF Unremembered, TypeOK
    <3>2. effects[c] > 0
      BY <2>3 DEF Unremembered, TypeOK
    <3>3. Port!Glitch(c)
      BY <2>1, <2>2, <3>1, <3>2 DEF Port!Glitch
    <3> QED BY <3>3 DEF Port!Next
  <2>4. CASE \A c \in Command : ~ Unremembered(c)
    <3>1. torn' = torn
      BY <2>1, <2>4 DEF TypeOK
    <3> QED BY <2>1, <2>2, <3>1 DEF Port!vars
  <2> QED BY <2>3, <2>4
<1>5. CASE UNCHANGED <<accepted, processed, effects, torn>>
  BY <1>5 DEF Port!vars, Refused
<1>6. ASSUME NEW c \in Command, LeaseLapses(c)
      PROVE  UNCHANGED <<accepted, processed, effects, torn>>
  BY <1>6 DEF LeaseLapses, eaVars
<1>7. CASE QueueLost \/ PollLost \/ Poll \/ UNCHANGED vars
  BY <1>5, <1>7 DEF QueueLost, PollLost, Poll, eaVars, vars
<1>8. ASSUME NEW c \in Command, NEW b \in BOOLEAN, AnswerDuplicate(c, b)
      PROVE  UNCHANGED <<accepted, processed, effects, torn>>
  BY <1>8 DEF AnswerDuplicate
<1>9. ASSUME NEW b \in BOOLEAN, PostReceipt(b)
      PROVE  UNCHANGED <<accepted, processed, effects, torn>>
  BY <1>9 DEF PostReceipt
<1> QED BY <1>1, <1>2, <1>3, <1>4, <1>5, <1>6, <1>7, <1>8, <1>9 DEF Next, Environment, Work

(* The bridge and the EA together keep the promise the execution service   *)
(* builds on: whatever is lost, redelivered or restarted, a command that   *)
(* was accepted has one effect at most, plus one for every torn restart.   *)
THEOREM RefinesBrokerPort == Spec => ImplementsBrokerPort
<1>1. Init => Port!Init
  BY DEF Init, Port!Init, Refused
<1> QED BY <1>1, StepRefines, Invariance, PTL DEF Spec, ImplementsBrokerPort, Port!Spec
============================================================================
