-------------------------- MODULE MCDeliveryOutbox --------------------------
(***************************************************************************)
(* Instances of DeliveryOutbox.  Three payloads cover the three ways a     *)
(* creation can end: a guest promotion with evidence is delivered, an      *)
(* equipment command waits for an operator, a promotion without policy     *)
(* evidence is blocked by the agent boundary.                              *)
(***************************************************************************)
EXTENDS DeliveryOutbox, TLC

CONSTANTS t1, t2, promo, command, bare

AllPayloads == {promo, command, bare}
CommandOnly == {command}
ThreadSymmetry == Permutations(Threads)
=============================================================================
