---------------------------- MODULE DeliveryPlan ----------------------------
(***************************************************************************)
(* What a decision sends: build_delivery_plan of park_delivery.py turns a  *)
(* scenario, the selected action and an optional custom action mix into an *)
(* ordered list of dispatches.                                             *)
(*                                                                         *)
(* A dispatch is its channel, what it asks for (the role of a worker task, *)
(* the kind of a promotion, the type of a command), whether the mix or the *)
(* script composed it, and whether it waits for an operator.  Texts, zones *)
(* and targets are left out; they are the same for the same decision.      *)
(***************************************************************************)
EXTENDS Sequences

Scenarios == {"ride_down", "staff_shortage", "food_spike", "storm_response", "other"}

\* (target, action) of the selected action.
Pairs == {<<"ride", "reroute">>, <<"traffic", "redirect_food">>, <<"staff", "redeploy">>,
          <<"food", "suppress_item">>, <<"energy", "protect_hvac">>, <<"medical", "dispatch">>,
          <<"accessibility", "assist">>, <<"security", "respond">>, <<"guest_services", "message">>,
          <<"signage", "update">>, <<"queue_gate", "hold_intake">>, <<"entertainment", "activate">>,
          <<"maintenance", "inspect">>, <<"other", "other">>}

\* Roles a plan must not staff twice.
CriticalRoles == {"medical", "accessibility_support", "security"}

MixRoles == CriticalRoles \cup {"crowd_control"}

\* The parts of an action mix that ask for a dispatch; the moved roles are
\* parts by their own name, and a mix without parts is no mix.
MixParts == MixRoles \cup {"guest_reroute", "hvac", "food", "messages",
                           "signage", "queue_gate", "queue_gate_approval"}

Channels == {"guest_app", "worker_device", "equipment_controller"}

Whats == MixParts \cup {"staffing_lead", "entertainment_lead", "maintenance_technician",
                        "operations_lead"}

Dispatch == [channel : Channels, what : Whats, by : {"mix", "script"}, approval : BOOLEAN]

Guest(what, by) == [channel |-> "guest_app", what |-> what, by |-> by, approval |-> FALSE]
Worker(what, by) == [channel |-> "worker_device", what |-> what, by |-> by, approval |-> FALSE]
Equipment(what, by, approval) ==
    [channel |-> "equipment_controller", what |-> what, by |-> by, approval |-> approval]

When(condition, dispatch) == IF condition THEN <<dispatch>> ELSE <<>>

\* _dispatch_from_action_mix.
MixDispatches(mix) ==
    When("guest_reroute" \in mix, Guest("guest_reroute", "mix"))
    \o When("crowd_control" \in mix, Worker("crowd_control", "mix"))
    \o When("medical" \in mix, Worker("medical", "mix"))
    \o When("accessibility_support" \in mix, Worker("accessibility_support", "mix"))
    \o When("security" \in mix, Worker("security", "mix"))
    \o When("hvac" \in mix, Equipment("hvac", "mix", FALSE))
    \o When("food" \in mix, Guest("food", "mix"))
    \o When("messages" \in mix, Guest("messages", "mix"))
    \o When("signage" \in mix, Equipment("signage", "mix", FALSE))
    \o When("queue_gate" \in mix, Equipment("queue_gate", "mix", FALSE))
    \o When("queue_gate_approval" \in mix, Equipment("queue_gate_approval", "mix", TRUE))

\* Faulty variant: any moved staff counts as the role asked for.
HasAnyWorker(mix, role) == mix \cap MixRoles # {}

\* has_worker_role: the mix already sends this role (no script sends one of
\* the critical roles before it asks).
HasWorkerRole(mix, role) == role \in mix

\* The fixed responses to the scenario and to the selected action.
ScriptDispatches(scenario, pair, mix) ==
    (IF scenario = "ride_down" \/ pair \in {<<"ride", "reroute">>, <<"traffic", "redirect_food">>}
     THEN <<Guest("guest_reroute", "script"), Worker("crowd_control", "script")>> ELSE <<>>)
    \o When(scenario = "staff_shortage" \/ pair = <<"staff", "redeploy">>,
            Worker("staffing_lead", "script"))
    \o When(scenario = "food_spike" \/ pair = <<"food", "suppress_item">>,
            Guest("food", "script"))
    \o When(scenario = "storm_response" \/ pair = <<"energy", "protect_hvac">>,
            Equipment("hvac", "script", FALSE))
    \o When(pair = <<"medical", "dispatch">> /\ ~HasWorkerRole(mix, "medical"),
            Worker("medical", "script"))
    \o When(pair = <<"accessibility", "assist">> /\ ~HasWorkerRole(mix, "accessibility_support"),
            Worker("accessibility_support", "script"))
    \o When(pair = <<"security", "respond">> /\ ~HasWorkerRole(mix, "security"),
            Worker("security", "script"))
    \o When(pair = <<"guest_services", "message">>, Guest("messages", "script"))
    \o When(pair = <<"signage", "update">>, Equipment("signage", "script", FALSE))
    \o When(pair = <<"queue_gate", "hold_intake">>, Equipment("queue_gate", "script", FALSE))
    \o When(pair = <<"entertainment", "activate">>, Worker("entertainment_lead", "script"))
    \o When(pair = <<"maintenance", "inspect">>, Worker("maintenance_technician", "script"))

\* The actions a mix replaces altogether.
MixOwned == {<<"ride", "reroute">>, <<"traffic", "redirect_food">>, <<"staff", "redeploy">>,
             <<"food", "suppress_item">>, <<"energy", "protect_hvac">>}

\* build_delivery_plan.
DeliveryPlan(scenario, pair, mix) ==
    LET custom == MixDispatches(mix)
        all    == custom \o ScriptDispatches(scenario, pair, mix)
    IN  IF custom # <<>> /\ pair \in MixOwned THEN custom
        ELSE IF all = <<>> THEN <<Worker("operations_lead", "script")>>
        ELSE all
=============================================================================
