--------------------------- MODULE MCBridgeQueue ---------------------------
(***************************************************************************)
(* Instances of BridgeQueue for TLC: three commands, the first two of      *)
(* which carry the same idempotency key.                                   *)
(***************************************************************************)
EXTENDS BridgeQueue

CONSTANTS c1, c2, c3

MCCommand == {c1, c2, c3}
MCKeyOf == [c \in MCCommand |-> IF c = c3 THEN "key-b" ELSE "key-a"]
============================================================================
