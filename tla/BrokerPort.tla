---------------------------- MODULE BrokerPort ----------------------------
(***************************************************************************)
(* What the execution service may assume of everything beyond              *)
(* Mt5BridgeClient: a command that was accepted reaches the broker at most *)
(* once, and a command the terminal gave up on never reaches it.  The one  *)
(* exception is named: every glitch (the terminal dying between the order  *)
(* and the note that it was sent) entitles the command to one more effect. *)
(* BridgeQueue is shown to implement this specification.                   *)
(***************************************************************************)
EXTENDS Naturals

CONSTANT Command

VARIABLES
  accepted,   \* commands the bridge has ever taken
  applied,    \* how many times the broker has executed each command
  refused,    \* commands the terminal closed without an effect
  glitches    \* crashes inside the send window, per command

vars == <<accepted, applied, refused, glitches>>

Init ==
  /\ accepted = {}
  /\ applied = [c \in Command |-> 0]
  /\ refused = {}
  /\ glitches = [c \in Command |-> 0]

Accept(c) ==
  /\ accepted' = accepted \cup {c}
  /\ UNCHANGED <<applied, refused, glitches>>

Apply(c) ==
  /\ c \in accepted
  /\ c \notin refused
  /\ applied[c] <= glitches[c]
  /\ applied' = [applied EXCEPT ![c] = @ + 1]
  /\ UNCHANGED <<accepted, refused, glitches>>

Refuse(c) ==
  /\ c \in accepted
  /\ applied[c] = 0
  /\ refused' = refused \cup {c}
  /\ UNCHANGED <<accepted, applied, glitches>>

Glitch(c) ==
  /\ applied[c] > 0
  /\ glitches' = [glitches EXCEPT ![c] = @ + 1]
  /\ UNCHANGED <<accepted, applied, refused>>

Next == \E c \in Command : Accept(c) \/ Apply(c) \/ Refuse(c) \/ Glitch(c)

Spec == Init /\ [][Next]_vars
============================================================================
