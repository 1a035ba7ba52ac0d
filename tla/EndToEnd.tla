------------------------------ MODULE EndToEnd ------------------------------
(***************************************************************************)
(* Execution with the bridge and the EA of BridgeQueue in place of its own *)
(* broker: what a dispatch posts (Mt5BridgeClient.submit) is enqueued at   *)
(* the bridge, and orders are those of the EA.  The bridge finds a command *)
(* by its idempotency key; the coordinator makes one for each entry and    *)
(* each action, so both modules mean the same commands.                    *)
(*                                                                         *)
(* Nothing here restrains the bridge: that only what was posted is         *)
(* executed, and once, is what is to be shown.                             *)
(***************************************************************************)
EXTENDS Execution

CONSTANTS
  PollLimit, FaultKinds, MaxFaults,  \* as in BridgeQueue
  Glitches  \* whether the EA may die between an order and the note of it

VARIABLES queue, lapsed, receipts, inbox, hand, processed, effects,
          accepted, torn, losses, faults  \* as in BridgeQueue

Bridge == INSTANCE BridgeQueue WITH KeyOf <- [c \in Command |-> c]

ASSUME BridgeAssumption ==
  /\ MaxFaults \in Nat /\ PollLimit \in Nat \ {0}
  /\ FaultKinds \subseteq Bridge!AllFaults /\ Glitches \in BOOLEAN

queueVars == <<queue, lapsed, receipts, inbox, hand, processed, effects,
               accepted, torn, losses, faults>>
allVars == <<vars, queueVars>>

EndToEndInit == Init /\ Bridge!Init

(* The request arrives, and its answer may not.  A command the bridge      *)
(* holds already is answered as it is.                                     *)
PostToBridge(w, answered) ==
  /\ Post(w, TRUE, answered)
  /\ IF Bridge!Holds(job[w].cmd)
       THEN UNCHANGED queueVars
       ELSE Bridge!Enqueue(job[w].cmd)

(* What an order does at the broker: an entry opens a position whenever it *)
(* is executed, anything else needs the position it is about.              *)
Ordered(c) ==
  /\ c[2] # Entry => c[1] \in Open
  /\ applied' = applied \cup {c}
  /\ closed' = CASE c[2] = Entry -> closed \ {c[1]}
                 [] c[2] = "FULL_EXIT" -> closed \cup {c[1]}
                 [] OTHER -> closed

EaExecutes(c, ok) ==
  /\ Bridge!Execute(c, ok)
  /\ IF effects' = effects THEN UNCHANGED brokerVars ELSE Ordered(c)
  /\ UNCHANGED <<rowVars, safetyVars, clockVars, wireVars, snapVars, job, issued>>

EaDies == Bridge!EaRestart /\ (Glitches \/ torn' = torn)

(* A step of the service that reaches no bridge; one of the bridge or the  *)
(* EA that orders nothing.                                                 *)
ServiceAlone == Next /\ UNCHANGED <<posts, applied, queueVars>>

BridgeAlone ==
  /\ \/ Bridge!Poll \/ Bridge!PollLost \/ Bridge!RememberProcessed \/ Bridge!QueueLost
     \/ \E c \in Command : \/ Bridge!LeaseLapses(c)
                           \/ \E delivered \in BOOLEAN : Bridge!AnswerDuplicate(c, delivered)
     \/ \E delivered \in BOOLEAN : Bridge!PostReceipt(delivered)
     \/ EaDies
  /\ UNCHANGED vars

EndToEndNext ==
  \/ ServiceAlone
  \/ BridgeAlone
  \/ \E w \in Worker, answered \in BOOLEAN : PostToBridge(w, answered)
  \/ \E c \in Command, ok \in BOOLEAN : EaExecutes(c, ok)

EndToEndSpec == EndToEndInit /\ [][EndToEndNext]_allVars

----------------------------------------------------------------------------
(* The bridge and the EA are the broker the service was verified with: as  *)
(* long as the EA does not die between an order and its note, a command    *)
(* takes effect after it was posted, at most once, whatever is redelivered *)
(* or lost on the way.                                                     *)
ImplementsExecution == Spec

(* An entry recorded as applied, an active plan and a reservation that     *)
(* became a position stand on exactly one order of the EA for this plan.   *)
OneOrderPerFill ==
  \A p \in Plan :
    \/ command[<<p, Entry>>].state = "APPLIED"
    \/ plan[p].state = "ACTIVE"
    \/ resv[p].state = "OPEN_POSITION"
    => effects[<<p, Entry>>] = 1

(* The EA orders only what a dispatch posted, under one authorization that *)
(* no other command went out under, and again only for a torn restart.     *)
OrdersAreAuthorized ==
  \A c \in Command : effects[c] > 0 =>
    /\ effects[c] <= 1 + torn[c]
    /\ \E id \in AuthId : {x \in sent : x[1] = c \/ x[2] = id} = {<<c, id>>}

(* What the bridge and the EA do here they do in BridgeQueue. *)
BridgeBehaves == Bridge!Init /\ [][Bridge!Next]_(Bridge!vars)
============================================================================
