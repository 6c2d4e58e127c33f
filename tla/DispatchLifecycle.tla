-------------------------- MODULE DispatchLifecycle --------------------------
(***************************************************************************)
(* What the delivery outbox promises about one dispatch, whatever file it  *)
(* is kept in: it is created once, with the status its payload and the     *)
(* agent boundary give it; from then on receivers may acknowledge it and   *)
(* operators may decide it, in any order and any number of times; and it   *)
(* never returns to a state without an operator decision once it has one.  *)
(***************************************************************************)
CONSTANTS Dispatches, FirstStatus

VARIABLES status, decision

lifecycleVars == <<status, decision>>

Init ==
    /\ status = [d \in Dispatches |-> "none"]
    /\ decision = [d \in Dispatches |-> "none"]

Create(d) ==
    /\ status[d] = "none"
    /\ status' = [status EXCEPT ![d] = FirstStatus[d]]
    /\ UNCHANGED decision

Acknowledge(d) ==
    /\ status[d] # "none"
    /\ status' = [status EXCEPT ![d] = "acknowledged"]
    /\ UNCHANGED decision

Approve(d) ==
    /\ status[d] # "none"
    /\ status' = [status EXCEPT ![d] = "approved_for_execution"]
    /\ decision' = [decision EXCEPT ![d] = "approved"]

Hold(d) ==
    /\ status[d] # "none"
    /\ status' = [status EXCEPT ![d] = "held_for_review"]
    /\ decision' = [decision EXCEPT ![d] = "held"]

Next ==
    \E d \in Dispatches : Create(d) \/ Acknowledge(d) \/ Approve(d) \/ Hold(d)

Spec == Init /\ [][Next]_lifecycleVars
=============================================================================
