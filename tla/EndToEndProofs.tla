--------------------------- MODULE EndToEndProofs ---------------------------
(***************************************************************************)
(* What Execution and BridgeQueue guarantee together, for every set of     *)
(* plans and workers, every batch size and any number and kind of faults.  *)
(***************************************************************************)
EXTENDS EndToEnd, ExecutionProofs

(* The bridge was sent this command under some authorization. *)
WasSent(c) == \E id \in AuthId : <<c, id>> \in sent

(* The command the EA is working on between OrderSend and its receipt. *)
InHand(c) == hand # Bridge!Idle /\ hand.cmd = c

TablesTyped ==
  /\ queue \in [Command -> Bridge!QueueState]
  /\ receipts \in [Command -> Bridge!ReceiptState \cup {"NONE"}]
  /\ inbox \subseteq Command
  /\ hand \in Bridge!Sent \cup {Bridge!Idle}
  /\ processed \subseteq Command
  /\ effects \in [Command -> Nat] /\ torn \in [Command -> Nat]
  /\ sent \subseteq Command \X AuthId

(* Whatever the bridge or the EA holds, remembers or has ordered was sent  *)
(* by a dispatch.                                                          *)
HeldWasSent ==
  /\ \A c \in Command :
       queue[c] # "ABSENT" \/ c \in processed \/ effects[c] > 0 => WasSent(c)
  /\ \A c \in inbox : WasSent(c)
  /\ hand # Bridge!Idle => WasSent(hand.cmd)

(* Every order but one is paid for by a torn restart, and that one by the  *)
(* command being remembered or still in hand.                              *)
OrdersPaid ==
  /\ \A c \in Command : effects[c] <= torn[c] + 1
  /\ \A c \in Command : c \notin processed /\ ~ InHand(c) => effects[c] <= torn[c]
  /\ ~ Glitches => \A c \in Command : torn[c] = 0

(* What the service takes for executed is what was ordered; a position is  *)
(* closed only after its entry.                                            *)
OrdersApplied ==
  /\ \A c \in Command : c \in applied <=> effects[c] > 0
  /\ \A p \in closed : <<p, Entry>> \in applied

OrderInv == TablesTyped /\ HeldWasSent /\ OrdersPaid /\ OrdersApplied

----------------------------------------------------------------------------
LEMMA OrderInvInit == EndToEndInit => OrderInv
BY DEF EndToEndInit, Init, Bridge!Init, OrderInv, TablesTyped, HeldWasSent, OrdersPaid,
       OrdersApplied, Bridge!QueueState, Bridge!ReceiptState

LEMMA HandIsSent ==
  ASSUME TablesTyped, hand # Bridge!Idle
  PROVE  hand.cmd \in Command /\ hand.ok \in BOOLEAN
BY DEF TablesTyped, Bridge!Sent, Bridge!Idle

(* A step of the service forgets nothing that was sent, and closes only    *)
(* what is open.                                                           *)
LEMMA ServiceKeepsWire ==
  ASSUME Next, UNCHANGED <<posts, applied>>
  PROVE  sent \subseteq sent' /\ closed' \subseteq closed \cup Open
<1>1. CASE Transactions
  <2>1. PICK w \in Worker :
          \/ \E p \in Plan : BeginEntry(w, p)
          \/ EvaluateEntry(w) \/ BlockEntry(w) \/ QueueEntry(w)
          \/ \E p \in Plan, a \in Manage : BeginManage(w, p, a)
          \/ QueueManage(w)
          \/ \E c \in Command : BeginDispatch(w, c)
          \/ \E reached, answered \in BOOLEAN : Post(w, reached, answered)
          \/ CommitDispatch(w)
          \/ RollBack(w)
    BY <1>1 DEF Transactions
  <2> QED BY <2>1 DEF BeginEntry, EvaluateEntry, BlockEntry, QueueEntry, BeginManage,
                 QueueManage, BeginDispatch, Post, CommitDispatch, RollBack, wireVars, brokerVars
<1>2. CASE Operator
  BY <1>2 DEF Operator, SetPermissions, SetKillSwitch, wireVars, brokerVars
<1>3. CASE Outside
  BY <1>3 DEF Outside, Ingest, SnapshotAges, BrokerApplies, BrokerCloses, PlanLapses,
              AuthLapses, ReservationLapses, wireVars, brokerVars
<1> QED BY <1>1, <1>2, <1>3 DEF Next

(* The bridge is not asked: what it holds was sent before.                 *)
LEMMA ServiceKeeps ==
  ASSUME OrderInv, TypeOK', sent \subseteq sent', closed' \subseteq closed \cup Open,
         UNCHANGED <<applied, queueVars>>
  PROVE  OrderInv'
<1> QED BY DEF OrderInv, TablesTyped, HeldWasSent, OrdersPaid, OrdersApplied, WasSent, InHand,
               queueVars, Open, TypeOK

(* What the bridge does with its tables, and the EA with its batch, on     *)
(* their own: nothing is ordered, and nothing appears that was not held.   *)
LEMMA QuietKeepsOrders ==
  ASSUME OrderInv, UNCHANGED <<vars, effects, torn>>,
         queue' \in [Command -> Bridge!QueueState],
         receipts' \in [Command -> Bridge!ReceiptState \cup {"NONE"}],
         \A c \in Command : queue'[c] # "ABSENT" => WasSent(c),
         inbox' \subseteq inbox \cup {c \in Command : WasSent(c)},
         \/ hand' = hand /\ processed' = processed
         \/ hand' = hand /\ hand # Bridge!Idle /\ processed' = processed \cup {hand.cmd}
         \/ hand' = Bridge!Idle /\ processed' = processed
            /\ \A c \in Command : InHand(c) => c \in processed \/ effects[c] <= torn[c]
  PROVE  OrderInv'
<1>1. UNCHANGED <<sent, applied, closed>>
  BY DEF vars, wireVars, brokerVars
<1>2. \A c \in Command : WasSent(c)' = WasSent(c)
  BY <1>1 DEF WasSent
<1>3. hand # Bridge!Idle => hand.cmd \in Command
  BY HandIsSent DEF OrderInv
<1>4. TablesTyped'
  BY <1>1, <1>3 DEF OrderInv, TablesTyped
<1>5. HeldWasSent'
  BY <1>1, <1>2, <1>3 DEF OrderInv, TablesTyped, HeldWasSent, WasSent
<1>6. OrdersPaid'
  BY <1>3 DEF OrderInv, TablesTyped, OrdersPaid, InHand
<1>7. OrdersApplied'
  BY <1>1 DEF OrderInv, OrdersApplied
<1> QED BY <1>4, <1>5, <1>6, <1>7 DEF OrderInv

(* An answer recorded at the bridge adds no command to it. *)
LEMMA RecordKeeps ==
  ASSUME OrderInv, NEW c \in Command, NEW verdict \in Bridge!ReceiptState,
         Bridge!Record(c, verdict) \/ UNCHANGED <<queue, receipts>>
  PROVE  /\ queue' \in [Command -> Bridge!QueueState]
         /\ receipts' \in [Command -> Bridge!ReceiptState \cup {"NONE"}]
         /\ \A d \in Command : queue'[d] # "ABSENT" => WasSent(d)
BY DEF OrderInv, TablesTyped, HeldWasSent, Bridge!Record, Bridge!QueueState

LEMMA PollKeeps ==
  ASSUME OrderInv, UNCHANGED vars, Bridge!Poll \/ Bridge!PollLost
  PROVE  OrderInv'
<1>1. PICK B \in SUBSET Bridge!Pollable :
        /\ Bridge!Lease(B)
        /\ inbox' \subseteq inbox \cup B
        /\ UNCHANGED <<receipts, hand, processed, effects, torn>>
  BY DEF Bridge!Poll, Bridge!PollLost, Bridge!eaVars
<1>2. B \subseteq {c \in Command : WasSent(c)}
  BY <1>1 DEF Bridge!Pollable, OrderInv, HeldWasSent
<1>3. /\ queue' \in [Command -> Bridge!QueueState]
      /\ \A c \in Command : queue'[c] # "ABSENT" => WasSent(c)
  BY <1>1, <1>2 DEF Bridge!Lease, OrderInv, TablesTyped, HeldWasSent, Bridge!QueueState
<1>4. receipts' \in [Command -> Bridge!ReceiptState \cup {"NONE"}]
  BY <1>1 DEF OrderInv, TablesTyped
<1> QED BY <1>1, <1>2, <1>3, <1>4, QuietKeepsOrders

LEMMA AnswersKeep ==
  ASSUME OrderInv, UNCHANGED vars, NEW delivered \in BOOLEAN,
         \/ \E c \in Command : Bridge!AnswerDuplicate(c, delivered)
         \/ Bridge!PostReceipt(delivered)
  PROVE  OrderInv'
<1>1. ASSUME NEW c \in Command, Bridge!AnswerDuplicate(c, delivered) PROVE OrderInv'
  <2>1. /\ Bridge!Record(c, Bridge!DuplicateVerdict) \/ UNCHANGED <<queue, receipts>>
        /\ inbox' \subseteq inbox
        /\ UNCHANGED <<hand, processed, effects, torn>>
    BY <1>1 DEF Bridge!AnswerDuplicate
  <2>2. Bridge!DuplicateVerdict \in Bridge!ReceiptState
    BY DEF Bridge!DuplicateVerdict, Bridge!ReceiptState
  <2> QED BY <2>1, <2>2, RecordKeeps, QuietKeepsOrders
<1>2. CASE Bridge!PostReceipt(delivered)
  <2> DEFINE verdict == IF hand.ok THEN "ACKNOWLEDGED" ELSE "REJECTED"
  <2>1. /\ Bridge!Record(hand.cmd, verdict) \/ UNCHANGED <<queue, receipts>>
        /\ inbox' \subseteq inbox /\ hand' = Bridge!Idle
        /\ hand # Bridge!Idle /\ hand.cmd \in processed
        /\ UNCHANGED <<processed, effects, torn>>
    BY <1>2 DEF Bridge!PostReceipt
  <2>2. verdict \in Bridge!ReceiptState /\ hand.cmd \in Command
    BY <2>1, HandIsSent DEF Bridge!ReceiptState, OrderInv
  <2> HIDE DEF verdict
  <2>3. /\ queue' \in [Command -> Bridge!QueueState]
        /\ receipts' \in [Command -> Bridge!ReceiptState \cup {"NONE"}]
        /\ \A d \in Command : queue'[d] # "ABSENT" => WasSent(d)
    BY <2>1, <2>2, RecordKeeps
  <2>4. \A c \in Command : InHand(c) => c \in processed
    BY <2>1 DEF InHand
  <2> QED BY <2>1, <2>3, <2>4, QuietKeepsOrders
<1> QED BY <1>1, <1>2

(* The EA dies: what it forgets is an order for which torn counts it.      *)
LEMMA EaDiesKeeps ==
  ASSUME OrderInv, UNCHANGED vars, EaDies
  PROVE  OrderInv'
<1>1. /\ inbox' = {} /\ hand' = Bridge!Idle
      /\ processed' = processed
      /\ torn' = [c \in Command |-> IF Bridge!Unremembered(c) THEN torn[c] + 1 ELSE torn[c]]
      /\ UNCHANGED <<queue, receipts, effects>>
      /\ Glitches \/ torn' = torn
  BY DEF EaDies, Bridge!EaRestart, Bridge!Surviving, Bridge!bridgeVars
<1>2. UNCHANGED <<sent, applied, closed>>
  BY DEF vars, wireVars, brokerVars
<1>3. \A c \in Command : c \notin processed => effects[c] <= torn'[c]
  BY <1>1 DEF OrderInv, TablesTyped, OrdersPaid, Bridge!Unremembered, InHand
<1>4. \A c \in Command : torn'[c] \in Nat /\ torn[c] <= torn'[c]
  BY <1>1 DEF OrderInv, TablesTyped
<1>5. TablesTyped' /\ HeldWasSent' /\ OrdersApplied'
  BY <1>1, <1>2, <1>4 DEF OrderInv, TablesTyped, HeldWasSent, OrdersApplied, WasSent
<1>6. OrdersPaid'
  BY <1>1, <1>3, <1>4 DEF OrderInv, TablesTyped, OrdersPaid
<1> QED BY <1>5, <1>6 DEF OrderInv

LEMMA BridgeAloneKeeps ==
  ASSUME OrderInv, BridgeAlone
  PROVE  OrderInv'
<1>1. UNCHANGED vars
  BY DEF BridgeAlone
<1>2. CASE Bridge!Poll \/ Bridge!PollLost
  BY <1>1, <1>2, PollKeeps
<1>3. CASE Bridge!RememberProcessed
  <2>1. /\ hand # Bridge!Idle /\ processed' = processed \cup {hand.cmd}
        /\ UNCHANGED <<queue, receipts, inbox, hand, effects, torn>>
    BY <1>3 DEF Bridge!RememberProcessed, Bridge!bridgeVars
  <2> QED BY <1>1, <2>1, QuietKeepsOrders DEF OrderInv, TablesTyped, HeldWasSent
<1>4. CASE Bridge!QueueLost
  <2>1. /\ queue' = [c \in Command |-> "ABSENT"] /\ receipts' = [c \in Command |-> "NONE"]
        /\ UNCHANGED <<inbox, hand, processed, effects, torn>>
    BY <1>4 DEF Bridge!QueueLost, Bridge!eaVars
  <2>2. /\ queue' \in [Command -> Bridge!QueueState]
        /\ receipts' \in [Command -> Bridge!ReceiptState \cup {"NONE"}]
    BY <2>1 DEF Bridge!QueueState
  <2> QED BY <1>1, <2>1, <2>2, QuietKeepsOrders
<1>5. ASSUME NEW c \in Command, Bridge!LeaseLapses(c) PROVE OrderInv'
  <2>1. UNCHANGED <<queue, receipts, inbox, hand, processed, effects, torn>>
    BY <1>5 DEF Bridge!LeaseLapses, Bridge!eaVars
  <2> QED BY <1>1, <2>1, QuietKeepsOrders DEF OrderInv, TablesTyped, HeldWasSent
<1>6. ASSUME NEW delivered \in BOOLEAN,
             \/ \E c \in Command : Bridge!AnswerDuplicate(c, delivered)
             \/ Bridge!PostReceipt(delivered)
      PROVE  OrderInv'
  BY <1>1, <1>6, AnswersKeep
<1>7. CASE EaDies
  BY <1>1, <1>7, EaDiesKeeps
<1> QED BY <1>2, <1>3, <1>4, <1>5, <1>6, <1>7 DEF BridgeAlone

(* What reaches the bridge was sent in the same step. *)
LEMMA PostKeepsOrders ==
  ASSUME OrderInv, TypeOK, TypeOK', NEW w \in Worker, NEW answered \in BOOLEAN,
         PostToBridge(w, answered)
  PROVE  OrderInv'
<1>1. PICK c \in Command : c = job[w].cmd
  <2>1. job[w] \in DispatchJob
    BY JobKinds DEF PostToBridge, Post
  <2> QED BY <2>1 DEF DispatchJob
<1>2. /\ sent' = sent \cup {<<c, plan[c[1]].auth.id>>}
      /\ UNCHANGED <<applied, closed, receipts, inbox, hand, processed, effects, torn>>
      /\ \/ queue' = [queue EXCEPT ![c] = "QUEUED"]
         \/ queue' = queue
  BY <1>1 DEF PostToBridge, Post, Bridge!Enqueue, Bridge!eaVars, queueVars, brokerVars
<1>3. <<c, plan[c[1]].auth.id>> \in Command \X AuthId
  BY <1>2 DEF TypeOK
<1>4. WasSent(c)' /\ \A d \in Command : WasSent(d) => WasSent(d)'
  BY <1>2, <1>3 DEF WasSent
<1>5. TablesTyped'
  BY <1>1, <1>2, <1>3 DEF OrderInv, TablesTyped, Bridge!QueueState, TypeOK
<1>6. HeldWasSent'
  <2>1. hand # Bridge!Idle => hand.cmd \in Command
    BY HandIsSent DEF OrderInv
  <2>2. \A d \in Command : queue'[d] # "ABSENT" => d = c \/ queue[d] # "ABSENT"
    BY <1>2 DEF OrderInv, TablesTyped
  <2> QED BY <1>2, <1>4, <2>1, <2>2 DEF OrderInv, TablesTyped, HeldWasSent
<1>7. OrdersPaid' /\ OrdersApplied'
  BY <1>2 DEF OrderInv, OrdersPaid, OrdersApplied, InHand
<1> QED BY <1>5, <1>6, <1>7 DEF OrderInv

(* The EA orders what it does not remember: not paid for before.           *)
LEMMA EaExecutesFacts ==
  ASSUME OrderInv, NEW c \in Command, NEW ok \in BOOLEAN, EaExecutes(c, ok)
  PROVE  /\ c \in inbox /\ c \notin processed /\ effects[c] <= torn[c] /\ WasSent(c)
         /\ hand = Bridge!Idle /\ hand' = [cmd |-> c, ok |-> ok]
         /\ UNCHANGED <<queue, receipts, inbox, processed, torn, sent>>
         /\ \/ effects' = effects /\ UNCHANGED <<applied, closed>>
            \/ /\ effects' = [effects EXCEPT ![c] = @ + 1]
               /\ c[2] # Entry => c[1] \in Open
               /\ applied' = applied \cup {c}
               /\ c[2] = Entry => closed' = closed \ {c[1]}
               /\ c[2] # Entry => closed' = IF c[2] = "FULL_EXIT" THEN closed \cup {c[1]} ELSE closed
<1>1. /\ hand = Bridge!Idle /\ c \in inbox /\ c \notin processed
      /\ hand' = [cmd |-> c, ok |-> ok]
      /\ UNCHANGED <<queue, receipts, inbox, processed, torn, sent>>
      /\ \/ effects' = [effects EXCEPT ![c] = IF ok THEN @ + 1 ELSE @]
         \/ effects' = [effects EXCEPT ![c] = @ + 1]
  BY DEF EaExecutes, Bridge!Execute, Bridge!WasProcessed, Bridge!bridgeVars, wireVars
<1>2. effects[c] <= torn[c] /\ WasSent(c)
  BY <1>1 DEF OrderInv, OrdersPaid, HeldWasSent, InHand
<1>3. effects' = effects \/ effects' = [effects EXCEPT ![c] = @ + 1]
  <2>1. CASE effects' = [effects EXCEPT ![c] = IF ok THEN @ + 1 ELSE @] /\ ok
    <3>1. effects' = [effects EXCEPT ![c] = @ + 1]
      BY <2>1
    <3> QED BY <3>1
  <2>2. CASE effects' = [effects EXCEPT ![c] = IF ok THEN @ + 1 ELSE @] /\ ~ ok
    <3>1. effects' = [effects EXCEPT ![c] = effects[c]]
      BY <2>2
    <3>2. effects \in [Command -> Nat]
      BY DEF OrderInv, TablesTyped
    <3>3. effects' = effects
      BY <3>1, <3>2
    <3> QED BY <3>3
  <2>3. CASE effects' = [effects EXCEPT ![c] = @ + 1]
    BY <2>3
  <2> QED BY <1>1, <2>1, <2>2, <2>3
<1>4. effects' = effects \/ Ordered(c)
  BY DEF EaExecutes
<1> QED BY <1>1, <1>2, <1>3, <1>4 DEF EaExecutes, Ordered, Entry, brokerVars

LEMMA EaExecutesKeeps ==
  ASSUME OrderInv, TypeOK', NEW c \in Command, NEW ok \in BOOLEAN, EaExecutes(c, ok)
  PROVE  OrderInv'
<1>1. /\ c \in inbox /\ c \notin processed /\ effects[c] <= torn[c] /\ WasSent(c)
      /\ hand' = [cmd |-> c, ok |-> ok]
      /\ UNCHANGED <<queue, receipts, inbox, processed, torn, sent>>
  BY EaExecutesFacts
<1>2. hand' # Bridge!Idle /\ hand'.cmd = c /\ hand' \in Bridge!Sent
  BY <1>1 DEF Bridge!Idle, Bridge!Sent
<1>3. \A d \in Command : WasSent(d)' = WasSent(d)
  BY <1>1 DEF WasSent
<1>4. effects' \in [Command -> Nat] /\ \A d \in Command : d # c => effects'[d] = effects[d]
  BY EaExecutesFacts DEF OrderInv, TablesTyped
<1>5. effects'[c] <= effects[c] + 1
  BY EaExecutesFacts DEF OrderInv, TablesTyped
<1>6. TablesTyped' /\ HeldWasSent'
  BY <1>1, <1>2, <1>3, <1>4 DEF OrderInv, TablesTyped, HeldWasSent
<1>7. OrdersPaid'
  <2>1. \A d \in Command : d # c => InHand(d)' = FALSE /\ ~ InHand(d)
    BY <1>1, <1>2, EaExecutesFacts DEF InHand
  <2>2. InHand(c)' /\ effects'[c] <= torn'[c] + 1
    BY <1>1, <1>2, <1>4, <1>5 DEF OrderInv, TablesTyped, InHand
  <2> QED BY <1>1, <1>4, <2>1, <2>2 DEF OrderInv, OrdersPaid
<1>8. OrdersApplied'
  <2>1. CASE effects' = effects /\ UNCHANGED <<applied, closed>>
    BY <2>1 DEF OrderInv, OrdersApplied
  <2>2. CASE /\ effects' = [effects EXCEPT ![c] = @ + 1]
             /\ c[2] # Entry => c[1] \in Open
             /\ applied' = applied \cup {c}
             /\ closed' \subseteq closed \cup (IF c[2] = Entry THEN {} ELSE {c[1]})
    <3>1. \A d \in Command : d \in applied' <=> effects'[d] > 0
      BY <2>2 DEF OrderInv, TablesTyped, OrdersApplied
    <3>2. \A p \in closed' : <<p, Entry>> \in applied'
      BY <2>2 DEF OrderInv, OrdersApplied, Open
    <3> QED BY <3>1, <3>2 DEF OrdersApplied
  <2> QED BY <2>1, <2>2, EaExecutesFacts
<1> QED BY <1>6, <1>7, <1>8 DEF OrderInv

----------------------------------------------------------------------------
(* Without torn restarts each step of the two is a step of Execution, or   *)
(* none: the order the EA places is the broker's, and its first.           *)
LEMMA StepImplements ==
  ASSUME OrderInv, ~ Glitches, [EndToEndNext]_allVars
  PROVE  [Next]_vars
<1>1. ASSUME NEW c \in Command, NEW ok \in BOOLEAN, EaExecutes(c, ok), effects' # effects
      PROVE  BrokerApplies(c)
  <2>1. /\ WasSent(c) /\ effects[c] <= torn[c] /\ torn[c] = 0 /\ effects[c] \in Nat
        /\ c[2] # Entry => c[1] \in Open
        /\ applied' = applied \cup {c}
        /\ c[2] = Entry => closed' = closed \ {c[1]}
        /\ c[2] # Entry => closed' = IF c[2] = "FULL_EXIT" THEN closed \cup {c[1]} ELSE closed
    BY <1>1, EaExecutesFacts DEF OrderInv, OrdersPaid, TablesTyped
  <2>2. c \notin applied
    BY <2>1 DEF OrderInv, OrdersApplied
  <2>3. c[2] = Entry => c[1] \notin closed
    <3>1. c = <<c[1], c[2]>>
      BY DEF Command
    <3> QED BY <2>2, <3>1 DEF OrderInv, OrdersApplied
  <2>4. closed' = IF c[2] = "FULL_EXIT" THEN closed \cup {c[1]} ELSE closed
    <3>1. CASE c[2] = Entry
      <4>1. closed \ {c[1]} = closed
        BY <2>3, <3>1
      <4> QED BY <2>1, <3>1, <4>1 DEF Entry
    <3>2. CASE c[2] # Entry
      BY <2>1, <3>2
    <3> QED BY <3>1, <3>2
  <2>5. UNCHANGED <<rowVars, safetyVars, clockVars, wireVars, snapVars, job, issued>>
    BY <1>1 DEF EaExecutes
  <2> QED BY <2>1, <2>2, <2>4, <2>5 DEF BrokerApplies, WasSent
<1>2. ASSUME NEW c \in Command, NEW ok \in BOOLEAN, EaExecutes(c, ok), effects' = effects
      PROVE  UNCHANGED vars
  BY <1>2 DEF EaExecutes, vars
<1>3. ASSUME NEW w \in Worker, NEW answered \in BOOLEAN, PostToBridge(w, answered)
      PROVE  Next
  BY <1>3 DEF PostToBridge, Next, Transactions
<1>4. BridgeAlone => UNCHANGED vars
  BY DEF BridgeAlone
<1>5. ServiceAlone => Next
  BY DEF ServiceAlone
<1>6. UNCHANGED allVars => UNCHANGED vars
  BY DEF allVars
<1>7. ASSUME NEW c \in Command, BrokerApplies(c) PROVE Next
  BY <1>7 DEF Next, Outside
<1> QED BY <1>1, <1>2, <1>3, <1>4, <1>5, <1>6, <1>7 DEF EndToEndNext

----------------------------------------------------------------------------
(* The dispatch invariant of the service survives whatever the EA orders,  *)
(* torn restarts included.                                                 *)
LEMMA DispatchStep ==
  ASSUME DispatchInv, OrderInv, [EndToEndNext]_allVars
  PROVE  DispatchInv'
<1>1. ASSUME NEW c \in Command, NEW ok \in BOOLEAN, EaExecutes(c, ok) PROVE DispatchInv'
  <2>1. /\ UNCHANGED <<rowVars, safetyVars, clockVars, wireVars, snapVars, job, issued>>
        /\ TypeOK
    BY <1>1 DEF EaExecutes, DispatchInv
  <2>2. applied' \subseteq Command /\ closed' \subseteq Plan
    BY <1>1, <2>1, EaExecutesFacts DEF TypeOK, Command
  <2>3. TypeOK'
    BY <2>1, <2>2 DEF TypeOK, rowVars, safetyVars, clockVars, wireVars, snapVars
  <2>4. UNCHANGED <<command, plan, sent, posts, rolledBack, issued, job>>
    BY <2>1 DEF rowVars, wireVars
  <2> QED BY <2>3, <2>4, QuietKeeps
<1>2. ASSUME [Next]_vars PROVE DispatchInv'
  BY <1>2, DispatchInvStep
<1>3. ASSUME NEW w \in Worker, NEW answered \in BOOLEAN, PostToBridge(w, answered)
      PROVE  Next
  BY <1>3 DEF PostToBridge, Next, Transactions
<1> QED BY <1>1, <1>2, <1>3 DEF EndToEndNext, ServiceAlone, BridgeAlone, allVars

LEMMA OrderStep ==
  ASSUME DispatchInv, DispatchInv', OrderInv, [EndToEndNext]_allVars
  PROVE  OrderInv'
<1>1. TypeOK /\ TypeOK'
  BY DEF DispatchInv
<1>2. CASE ServiceAlone
  BY <1>1, <1>2, ServiceKeepsWire, ServiceKeeps DEF ServiceAlone
<1>3. CASE UNCHANGED allVars
  BY <1>1, <1>3, ServiceKeeps DEF allVars, vars, wireVars, brokerVars
<1> QED BY <1>1, <1>2, <1>3, BridgeAloneKeeps, PostKeepsOrders, EaExecutesKeeps DEF EndToEndNext

LEMMA Invariance == EndToEndSpec => [](DispatchInv /\ OrderInv)
<1>1. EndToEndInit => DispatchInv /\ OrderInv
  BY DispatchInvInit, OrderInvInit DEF EndToEndInit
<1>2. DispatchInv /\ OrderInv /\ [EndToEndNext]_allVars => (DispatchInv /\ OrderInv)'
  BY DispatchStep, OrderStep
<1> QED BY <1>1, <1>2, PTL DEF EndToEndSpec

----------------------------------------------------------------------------
(* As long as the EA does not die between an order and its note, the       *)
(* service, the bridge and the EA together do what Execution says: lost    *)
(* requests and answers, lapsed leases, restarts, unknown outcomes and an  *)
(* unreadable queue file are no more than the broker it assumes.           *)
THEOREM EndToEndImplementsExecution ==
  ASSUME ~ Glitches
  PROVE  EndToEndSpec => ImplementsExecution
<1>1. EndToEndInit => Init
  BY DEF EndToEndInit
<1>2. DispatchInv /\ OrderInv /\ [EndToEndNext]_allVars => [Next]_vars
  BY StepImplements
<1> QED BY <1>1, <1>2, Invariance, PTL DEF EndToEndSpec, ImplementsExecution, Spec

(* Among plans reconciliation can tell apart, a recorded fill stands on    *)
(* exactly one order of the EA: there is one, for the broker executed the  *)
(* entry, and not two, for nobody paid for a second.                       *)
THEOREM OneOrderForEachFill ==
  ASSUME ~ Glitches, \A p, q \in Plan : Shape[p] = Shape[q] => p = q
  PROVE  EndToEndSpec => []OneOrderPerFill
<1>1. OrderInv /\ FillsAreReal => OneOrderPerFill
  <2> SUFFICES ASSUME OrderInv, FillsAreReal, NEW p \in Plan,
                      \/ command[<<p, Entry>>].state = "APPLIED"
                      \/ plan[p].state = "ACTIVE"
                      \/ resv[p].state = "OPEN_POSITION"
               PROVE  effects[<<p, Entry>>] = 1
    BY DEF OneOrderPerFill
  <2>1. <<p, Entry>> \in Command /\ <<p, Entry>> \in applied
    BY DEF FillsAreReal, Command, Action
  <2> QED BY <2>1 DEF OrderInv, TablesTyped, OrdersPaid, OrdersApplied
<1>2. Spec => []FillsAreReal
  BY FillsAreTrue
<1>3. EndToEndSpec => Spec
  BY EndToEndImplementsExecution DEF ImplementsExecution
<1> QED BY <1>1, <1>2, <1>3, Invariance, PTL

(* Torn restarts included, the EA orders nothing but what a dispatch posted *)
(* under the one authorization of the command, and no command twice that a  *)
(* torn restart does not pay for.                                           *)
THEOREM OrdersRestOnAuthorizations == EndToEndSpec => []OrdersAreAuthorized
<1>1. DispatchInv /\ OrderInv => OrdersAreAuthorized
  <2> SUFFICES ASSUME DispatchInv, OrderInv, NEW c \in Command, effects[c] > 0
               PROVE  /\ effects[c] <= 1 + torn[c]
                      /\ \E id \in AuthId : {x \in sent : x[1] = c \/ x[2] = id} = {<<c, id>>}
    BY DEF OrdersAreAuthorized
  <2>1. effects[c] \in Nat /\ torn[c] \in Nat /\ effects[c] <= torn[c] + 1
    BY DEF OrderInv, TablesTyped, OrdersPaid
  <2>2. PICK id \in AuthId : <<c, id>> \in sent
    BY DEF OrderInv, HeldWasSent, WasSent
  <2>3. ASSUME NEW x \in sent, x[1] = c \/ x[2] = id PROVE x = <<c, id>>
    <3>1. x = <<x[1], x[2]>> /\ x[1] \in Command
      BY DEF OrderInv, TablesTyped
    <3>2. command[c].state # "ABSENT" /\ id = command[c].auth
      BY <2>2 DEF DispatchInv, AuthsDistinct
    <3>3. command[x[1]].state # "ABSENT" /\ x[2] = command[x[1]].auth
      BY DEF DispatchInv, AuthsDistinct
    <3>4. x[1] = c
      BY <2>3, <3>1, <3>2, <3>3 DEF DispatchInv, AuthsDistinct
    <3> QED BY <3>1, <3>2, <3>3, <3>4
  <2>4. {x \in sent : x[1] = c \/ x[2] = id} = {<<c, id>>}
    BY <2>2, <2>3
  <2> QED BY <2>1, <2>2, <2>4
<1> QED BY <1>1, Invariance, PTL

(* The service asks nothing of the bridge and the EA that BridgeQueue does  *)
(* not know: each step of theirs is a step of BridgeQueue.                  *)
THEOREM EndToEndUsesBridge == EndToEndSpec => BridgeBehaves
<1>1. EndToEndInit => Bridge!Init
  BY DEF EndToEndInit
<1>2. ASSUME DispatchInv, [EndToEndNext]_allVars PROVE [Bridge!Next]_(Bridge!vars)
  <2>1. ServiceAlone \/ UNCHANGED allVars => UNCHANGED Bridge!vars
    BY DEF ServiceAlone, allVars, queueVars, Bridge!vars
  <2>2. BridgeAlone => Bridge!Next
    BY DEF BridgeAlone, EaDies, Bridge!Next, Bridge!Environment, Bridge!Work
  <2>3. ASSUME NEW w \in Worker, NEW answered \in BOOLEAN, PostToBridge(w, answered)
        PROVE  [Bridge!Next]_(Bridge!vars)
    <3>1. job[w] \in DispatchJob
      BY <1>2, <2>3, JobKinds DEF PostToBridge, Post, DispatchInv
    <3>2. job[w].cmd \in Command
      BY <3>1 DEF DispatchJob
    <3>3. UNCHANGED queueVars \/ Bridge!Enqueue(job[w].cmd)
      BY <2>3 DEF PostToBridge
    <3>4. Bridge!Enqueue(job[w].cmd) => Bridge!Next
      BY <3>2 DEF Bridge!Next, Bridge!Environment
    <3> QED BY <3>3, <3>4 DEF queueVars, Bridge!vars
  <2>4. ASSUME NEW c \in Command, NEW ok \in BOOLEAN, EaExecutes(c, ok) PROVE Bridge!Next
    BY <2>4 DEF EaExecutes, Bridge!Next, Bridge!Work
  <2> QED BY <1>2, <2>1, <2>2, <2>3, <2>4 DEF EndToEndNext
<1>3. DispatchInv /\ [EndToEndNext]_allVars => [Bridge!Next]_(Bridge!vars)
  BY <1>2
<1> QED BY <1>1, <1>3, Invariance, PTL DEF EndToEndSpec, BridgeBehaves
=============================================================================
