-------------------------- MODULE MCParkDelivery ---------------------------
(***************************************************************************)
(* Instances of ParkDelivery: a medical decision whose mix moves crowd     *)
(* control only, and a gate that needs an operator next to a sign the      *)
(* boundary refuses.                                                       *)
(***************************************************************************)
EXTENDS ParkDelivery, TLC

CONSTANTS loop, w1, d1, d2

Medical == [decision |-> d1, scenario |-> "other",
            pair |-> <<"medical", "dispatch">>, mix |-> {"crowd_control"}]
Gate == [decision |-> d2, scenario |-> "other",
         pair |-> <<"signage", "update">>, mix |-> {"queue_gate_approval"}]

BothRequests == {Medical, Gate}
RefusedSign == {Equipment("signage", "script", FALSE)}
=============================================================================
