----------------------------- MODULE AgentCalls -----------------------------
(***************************************************************************)
(* A call of a logical agent: the caller and its Redis request and reply   *)
(* (modules/agents/rpc.py, routes/agents.py), the slot of the agent worker *)
(* that executes it (apps/agent_worker/app/main.py,                        *)
(* modules/agents/runtime.py) and the conversation with the slot's own     *)
(* Codex App Server (adapters/agent_runtime/codex_app_server/client.py).   *)
(*                                                                         *)
(* Client and server share one stream in each direction: a request has a   *)
(* number, its reply comes somewhere among the notifications of this and   *)
(* of abandoned turns.  Slots share nothing but the queue, so one slot is  *)
(* enough.  The server is external: it answers in any order, or fails.     *)
(***************************************************************************)
EXTENDS Integers, Sequences

CONSTANTS
  Call,
  MaxRequests,  \* bound: numbered requests to the server
  MaxFaults     \* bound: deadlines that pass, faults of server or worker

ASSUME AgentCallsAssumption == MaxRequests \in Nat /\ MaxFaults \in Nat

VARIABLES
  caller,     \* state of each call
  queued,     \* requests in Redis
  reply,      \* the reply under each call's key
  recorded,   \* who has stored an execution of each call
  slot,       \* what the slot is doing, for which call
  rid,        \* number of the last request to the server
  turnsOf,    \* turns requested for each call
  alive,      \* the server runs
  unanswered, \* requests the server has not answered
  running,    \* turns the server works on
  stdout,     \* the server's stream, not yet read
  pending,    \* notifications read while waiting for a reply
  faults

agentVars == <<caller, queued, reply, recorded, slot, rid, turnsOf, alive, unanswered,
               running, stdout, pending, faults>>
callerVars == <<caller, queued, reply, recorded>>
serverVars == <<alive, unanswered, running>>

NoReply == [kind |-> "NONE"]
FreeSlot == [step |-> "IDLE"]
NoTurn == 0

Fault == faults < MaxFaults /\ faults' = faults + 1

AgentCallsInit ==
  /\ caller = [c \in Call |-> "NEW"]
  /\ queued = {}
  /\ reply = [c \in Call |-> NoReply]
  /\ recorded = [c \in Call |-> {}]
  /\ slot = FreeSlot
  /\ rid = 0
  /\ turnsOf = [c \in Call |-> {}]
  /\ alive = FALSE
  /\ unanswered = {} /\ running = {}
  /\ stdout = <<>> /\ pending = <<>>
  /\ faults = 0

(***************************************************************************)
(* The caller                                                              *)
(***************************************************************************)
Invoke(c) ==
  /\ caller[c] = "NEW"
  /\ caller' = [caller EXCEPT ![c] = "WAITING"]
  /\ queued' = queued \cup {c}
  /\ UNCHANGED <<reply, recorded, slot, rid, turnsOf, serverVars, stdout, pending, faults>>

(* A reply with an execution is returned as it is, for the worker stored   *)
(* it; one without, or no reply in time, is stored by the caller.          *)
TakeReply(c) ==
  /\ caller[c] = "WAITING" /\ reply[c] # NoReply
  /\ caller' = [caller EXCEPT ![c] = IF reply[c].kind = "EXECUTION" THEN "ANSWERED" ELSE "FAILED"]
  /\ recorded' = IF reply[c].kind = "EXECUTION" THEN recorded
                 ELSE [recorded EXCEPT ![c] = @ \cup {"API"}]
  /\ UNCHANGED <<queued, reply, slot, rid, turnsOf, serverVars, stdout, pending, faults>>

GiveUp(c) ==
  /\ caller[c] = "WAITING" /\ reply[c] = NoReply
  /\ caller' = [caller EXCEPT ![c] = "FAILED"]
  /\ recorded' = [recorded EXCEPT ![c] = @ \cup {"API"}]
  /\ Fault
  /\ UNCHANGED <<queued, reply, slot, rid, turnsOf, serverVars, stdout, pending>>

(***************************************************************************)
(* The client: one call at a time holds the lock                           *)
(***************************************************************************)
Ask(kind) ==
  /\ rid < MaxRequests
  /\ rid' = rid + 1
  /\ unanswered' = unanswered \cup {[id |-> rid + 1, kind |-> kind]}

(* A server that has died is started again, with empty streams.            *)
TakeRequest(c) ==
  /\ slot = FreeSlot /\ c \in queued
  /\ queued' = queued \ {c}
  /\ slot' = [step |-> "THREAD", call |-> c, turn |-> NoTurn, answer |-> NoTurn, ok |-> FALSE]
  /\ rid < MaxRequests /\ rid' = rid + 1
  /\ unanswered' = (IF alive THEN unanswered ELSE {}) \cup {[id |-> rid + 1, kind |-> "THREAD"]}
  /\ running' = (IF alive THEN running ELSE {})
  /\ stdout' = (IF alive THEN stdout ELSE <<>>)
  /\ alive' = TRUE
  /\ UNCHANGED <<caller, reply, recorded, turnsOf, pending, faults>>

AwaitsReply == slot.step \in {"THREAD", "TURN", "DELETE"}

(* A reply to another request is dropped, a notification is kept.          *)
SkipMessage ==
  /\ AwaitsReply /\ stdout # <<>>
  /\ LET m == Head(stdout)
     IN /\ ~(m.kind = "REPLY" /\ m.id = rid)
        /\ pending' = IF m.kind = "REPLY" THEN pending ELSE Append(pending, m)
  /\ stdout' = Tail(stdout)
  /\ UNCHANGED <<callerVars, slot, rid, turnsOf, serverVars, faults>>

MutIsReply(m) == m.kind = "REPLY"
IsReply(m) == m.kind = "REPLY" /\ m.id = rid

(* The thread has started, and its turn is asked for.                      *)
ThreadStarted ==
  /\ slot.step = "THREAD" /\ stdout # <<>> /\ IsReply(Head(stdout))
  /\ Ask("TURN")
  /\ slot' = [slot EXCEPT !.step = "TURN"]
  /\ turnsOf' = [turnsOf EXCEPT ![slot.call] = @ \cup {rid + 1}]
  /\ stdout' = Tail(stdout)
  /\ UNCHANGED <<callerVars, alive, running, pending, faults>>

TurnStarted ==
  /\ slot.step = "TURN" /\ stdout # <<>> /\ IsReply(Head(stdout))
  /\ slot' = [slot EXCEPT !.step = "LISTEN", !.turn = Head(stdout).id]
  /\ stdout' = Tail(stdout)
  /\ UNCHANGED <<callerVars, rid, turnsOf, serverVars, pending, faults>>

(* Notifications kept first, then the stream.  An item of another turn is  *)
(* passed over, and so is its end; an error counts whatever its turn.      *)
Message == IF pending # <<>> THEN Head(pending) ELSE Head(stdout)
Consume ==
  IF pending # <<>> THEN pending' = Tail(pending) /\ stdout' = stdout
  ELSE stdout' = Tail(stdout) /\ pending' = pending

Listen ==
  /\ slot.step = "LISTEN" /\ pending \o stdout # <<>>
  /\ LET m == Message
         own == m.kind # "REPLY" /\ m.turn = slot.turn
     IN \/ /\ own /\ m.kind = "ITEM"
           /\ slot' = [slot EXCEPT !.answer = m.turn]
           /\ UNCHANGED <<rid, unanswered>>
        \/ /\ (own /\ m.kind = "COMPLETED") \/ m.kind = "ERROR"
           /\ slot' = [slot EXCEPT !.step = "DELETE",
                         !.ok = m.kind = "COMPLETED" /\ m.ok /\ slot.answer # NoTurn]
           /\ Ask("DELETE")
        \/ /\ m.kind = "REPLY" \/ (~own /\ m.kind # "ERROR")
           /\ UNCHANGED <<slot, rid, unanswered>>
  /\ Consume
  /\ UNCHANGED <<callerVars, turnsOf, alive, running, faults>>

(* The call's deadline passes, or the server refuses, which ends the call  *)
(* alike: before the thread is known nothing is cleaned up, after that it  *)
(* is deleted first.                                                       *)
FailStart ==
  /\ slot.step = "THREAD"
  /\ slot' = [slot EXCEPT !.step = "STORE"]
  /\ Fault
  /\ UNCHANGED <<callerVars, rid, turnsOf, serverVars, stdout, pending>>

FailTurn ==
  /\ slot.step \in {"TURN", "LISTEN"}
  /\ Ask("DELETE")
  /\ slot' = [slot EXCEPT !.step = "DELETE"]
  /\ Fault
  /\ UNCHANGED <<callerVars, turnsOf, alive, running, stdout, pending>>

(* The thread is deleted, or thirty seconds pass.                          *)
Deleted ==
  /\ slot.step = "DELETE"
  /\ \/ /\ stdout # <<>> /\ IsReply(Head(stdout))
        /\ stdout' = Tail(stdout)
        /\ UNCHANGED faults
     \/ Fault /\ UNCHANGED stdout
  /\ slot' = [slot EXCEPT !.step = "STORE"]
  /\ UNCHANGED <<callerVars, rid, turnsOf, serverVars, pending>>

(* The lock is released and what was kept forgotten; the execution is      *)
(* committed and then answered, or its transaction fails.                  *)
Store ==
  /\ slot.step = "STORE"
  /\ slot' = [slot EXCEPT !.step = "REPLY"]
  /\ pending' = <<>>
  /\ recorded' = [recorded EXCEPT ![slot.call] = @ \cup {"WORKER"}]
  /\ UNCHANGED <<caller, queued, reply, rid, turnsOf, serverVars, stdout, faults>>

StoreFails ==
  /\ slot.step = "STORE"
  /\ slot' = FreeSlot
  /\ pending' = <<>>
  /\ reply' = [reply EXCEPT ![slot.call] = [kind |-> "ERROR"]]
  /\ UNCHANGED <<caller, queued, recorded, rid, turnsOf, serverVars, stdout, faults>>

Reply ==
  /\ slot.step = "REPLY"
  /\ reply' = [reply EXCEPT ![slot.call] =
       [kind |-> "EXECUTION", answer |-> IF slot.ok THEN slot.answer ELSE NoTurn]]
  /\ slot' = FreeSlot
  /\ UNCHANGED <<caller, queued, recorded, rid, turnsOf, serverVars, stdout, pending, faults>>

(***************************************************************************)
(* The server (external)                                                   *)
(***************************************************************************)
(* What becomes of the turns of a deleted thread is not the client's to    *)
(* know: they may go on.                                                   *)
ServerReplies(r) ==
  /\ alive
  /\ stdout' = Append(stdout, [kind |-> "REPLY", id |-> r.id])
  /\ running' = IF r.kind = "TURN" THEN running \cup {r.id} ELSE running
  /\ unanswered' = unanswered \ {r}
  /\ UNCHANGED <<callerVars, slot, rid, turnsOf, alive, pending, faults>>

ServerEndsTurn(t) ==
  /\ alive
  /\ \E end \in {<<[kind |-> "ITEM", turn |-> t], [kind |-> "COMPLETED", turn |-> t, ok |-> TRUE]>>,
                 <<[kind |-> "COMPLETED", turn |-> t, ok |-> FALSE]>>,
                 <<[kind |-> "ERROR", turn |-> t]>>} : stdout' = stdout \o end
  /\ running' = running \ {t}
  /\ UNCHANGED <<callerVars, slot, rid, turnsOf, alive, unanswered, pending, faults>>

(* The server exits or its stream is malformed: the client stops it, and   *)
(* the call it was serving fails without an answer.                        *)
ServerDies ==
  /\ alive /\ Fault
  /\ alive' = FALSE
  /\ unanswered' = {} /\ running' = {}
  /\ stdout' = <<>>
  /\ slot' = IF AwaitsReply \/ slot.step = "LISTEN" THEN [slot EXCEPT !.step = "STORE"] ELSE slot
  /\ UNCHANGED <<callerVars, rid, turnsOf, pending>>

(* With the worker the request it took is gone.                            *)
WorkerDies ==
  /\ slot # FreeSlot /\ Fault
  /\ alive' = FALSE
  /\ unanswered' = {} /\ running' = {}
  /\ stdout' = <<>> /\ pending' = <<>>
  /\ slot' = FreeSlot
  /\ UNCHANGED <<callerVars, rid, turnsOf>>

AgentCallsNext ==
  \/ \E c \in Call : Invoke(c) \/ TakeReply(c) \/ GiveUp(c) \/ TakeRequest(c)
  \/ SkipMessage \/ ThreadStarted \/ TurnStarted \/ Listen
  \/ FailStart \/ FailTurn \/ Deleted \/ Store \/ StoreFails \/ Reply
  \/ \E r \in unanswered : ServerReplies(r)
  \/ \E t \in running : ServerEndsTurn(t)
  \/ ServerDies \/ WorkerDies

AgentCallsSpec == AgentCallsInit /\ [][AgentCallsNext]_agentVars

(***************************************************************************)
(* Properties                                                              *)
(***************************************************************************)
(* Type invariant of calls, slot and streams.                              *)
AgentCallsTypeOK ==
  /\ caller \in [Call -> {"NEW", "WAITING", "ANSWERED", "FAILED"}]
  /\ queued \subseteq Call
  /\ recorded \in [Call -> SUBSET {"API", "WORKER"}]
  /\ slot.step \in {"IDLE", "THREAD", "TURN", "LISTEN", "DELETE", "STORE", "REPLY"}
  /\ rid \in 0..MaxRequests
  /\ turnsOf \in [Call -> SUBSET (1..MaxRequests)]
  /\ running \subseteq 1..MaxRequests
  /\ alive \in BOOLEAN
  /\ faults \in 0..MaxFaults

(* An answered call carries what a turn of its own produced, or nothing,   *)
(* and its execution is stored once: whatever replies and notifications of *)
(* abandoned calls are still in the stream, whoever died in between.       *)
AnswerIsOwn ==
  \A c \in Call : caller[c] = "ANSWERED" =>
    /\ reply[c].answer \in turnsOf[c] \cup {NoTurn}
    /\ recorded[c] = {"WORKER"}
=============================================================================
