------------------------- MODULE ParkDeliveryProofs -------------------------
(***************************************************************************)
(* Theorems about ParkDelivery, for every list length, number of workers,  *)
(* set of decisions and circuit setting.                                   *)
(***************************************************************************)
EXTENDS ParkDelivery, FiniteSetTheorems, TLAPS

-----------------------------------------------------------------------------
(* The plan.                                                               *)

LEMMA DispatchTypes ==
    /\ \A w \in Whats, b \in {"mix", "script"} :
          Guest(w, b) \in Dispatch /\ Worker(w, b) \in Dispatch
    /\ \A w \in Whats, b \in {"mix", "script"}, a \in BOOLEAN : Equipment(w, b, a) \in Dispatch
BY DEF Guest, Worker, Equipment, Dispatch, Channels

LEMMA ConcatType == \A s, t \in Seq(Dispatch) : s \o t \in Seq(Dispatch)
OBVIOUS

LEMMA WhenType ==
    ASSUME NEW d \in Dispatch
    PROVE  <<d>> \in Seq(Dispatch) /\ <<>> \in Seq(Dispatch)
OBVIOUS

Sends(plan, x) == \E i \in DOMAIN plan : plan[i] = x

LEMMA ConcatSends ==
    \A s, t \in Seq(Dispatch) : \A x : Sends(s, x) \/ Sends(t, x) => Sends(s \o t, x)
<1> SUFFICES ASSUME NEW s \in Seq(Dispatch), NEW t \in Seq(Dispatch), NEW x,
                    Sends(s, x) \/ Sends(t, x)
             PROVE  Sends(s \o t, x)
  OBVIOUS
<1>1. CASE Sends(s, x)
  BY <1>1 DEF Sends
<1>2. CASE Sends(t, x)
  <2>1. PICK i \in DOMAIN t : t[i] = x
    BY <1>2 DEF Sends
  <2>2. Len(s) + i \in DOMAIN (s \o t) /\ (s \o t)[Len(s) + i] = x
    BY <2>1
  <2> QED
    BY <2>2 DEF Sends
<1> QED
  BY <1>1, <1>2

LEMMA SingleSends == \A x : Sends(<<x>>, x)
BY DEF Sends

\* The script is a list of dispatches, and staffs the role its action calls for
\* unless the mix does.
LEMMA ScriptFacts ==
    ASSUME NEW scenario \in Scenarios, NEW pair \in Pairs, NEW mix \in SUBSET MixParts,
           NEW role \in CriticalRoles
    PROVE  /\ ScriptDispatches(scenario, pair, mix) \in Seq(Dispatch)
           /\ role \notin mix /\ pair = ActionOf[role] =>
                 Sends(ScriptDispatches(scenario, pair, mix), Worker(role, "script"))
<1> DEFINE s0 == IF scenario = "ride_down"
                    \/ pair \in {<<"ride", "reroute">>, <<"traffic", "redirect_food">>}
                 THEN <<Guest("guest_reroute", "script"), Worker("crowd_control", "script")>>
                 ELSE <<>>
           s1 == When(scenario = "staff_shortage" \/ pair = <<"staff", "redeploy">>,
                       Worker("staffing_lead", "script"))
           s2 == When(scenario = "food_spike" \/ pair = <<"food", "suppress_item">>,
                       Guest("food", "script"))
           s3 == When(scenario = "storm_response" \/ pair = <<"energy", "protect_hvac">>,
                       Equipment("hvac", "script", FALSE))
           s4 == When(pair = <<"medical", "dispatch">> /\ ~HasWorkerRole(mix, "medical"),
                       Worker("medical", "script"))
           s5 == When(pair = <<"accessibility", "assist">> /\ ~HasWorkerRole(mix, "accessibility_support"),
                       Worker("accessibility_support", "script"))
           s6 == When(pair = <<"security", "respond">> /\ ~HasWorkerRole(mix, "security"),
                       Worker("security", "script"))
           s7 == When(pair = <<"guest_services", "message">>,
                       Guest("messages", "script"))
           s8 == When(pair = <<"signage", "update">>,
                       Equipment("signage", "script", FALSE))
           s9 == When(pair = <<"queue_gate", "hold_intake">>,
                       Equipment("queue_gate", "script", FALSE))
           s10 == When(pair = <<"entertainment", "activate">>,
                       Worker("entertainment_lead", "script"))
           s11 == When(pair = <<"maintenance", "inspect">>,
                       Worker("maintenance_technician", "script"))
<1>0. s0 \in Seq(Dispatch)
  BY DispatchTypes, WhenType DEF Whats, MixParts, MixRoles, CriticalRoles
<1>1. s1 \in Seq(Dispatch)
  BY DispatchTypes, WhenType DEF When, Whats, MixParts, MixRoles, CriticalRoles
<1>2. s2 \in Seq(Dispatch)
  BY DispatchTypes, WhenType DEF When, Whats, MixParts, MixRoles, CriticalRoles
<1>3. s3 \in Seq(Dispatch)
  BY DispatchTypes, WhenType DEF When, Whats, MixParts, MixRoles, CriticalRoles
<1>4. s4 \in Seq(Dispatch)
  BY DispatchTypes, WhenType DEF When, Whats, MixParts, MixRoles, CriticalRoles
<1>5. s5 \in Seq(Dispatch)
  BY DispatchTypes, WhenType DEF When, Whats, MixParts, MixRoles, CriticalRoles
<1>6. s6 \in Seq(Dispatch)
  BY DispatchTypes, WhenType DEF When, Whats, MixParts, MixRoles, CriticalRoles
<1>7. s7 \in Seq(Dispatch)
  BY DispatchTypes, WhenType DEF When, Whats, MixParts, MixRoles, CriticalRoles
<1>8. s8 \in Seq(Dispatch)
  BY DispatchTypes, WhenType DEF When, Whats, MixParts, MixRoles, CriticalRoles
<1>9. s9 \in Seq(Dispatch)
  BY DispatchTypes, WhenType DEF When, Whats, MixParts, MixRoles, CriticalRoles
<1>10. s10 \in Seq(Dispatch)
  BY DispatchTypes, WhenType DEF When, Whats, MixParts, MixRoles, CriticalRoles
<1>11. s11 \in Seq(Dispatch)
  BY DispatchTypes, WhenType DEF When, Whats, MixParts, MixRoles, CriticalRoles
<1>12. ScriptDispatches(scenario, pair, mix) =
         s0 \o s1 \o s2 \o s3 \o s4 \o s5 \o s6 \o s7 \o s8 \o s9 \o s10 \o s11
  BY DEF ScriptDispatches
<1>13. role \notin mix /\ pair = ActionOf[role] =>
         \/ Sends(s4, Worker(role, "script"))
         \/ Sends(s5, Worker(role, "script"))
         \/ Sends(s6, Worker(role, "script"))
  BY SingleSends DEF When, HasWorkerRole, CriticalRoles, ActionOf
<1> HIDE DEF s0, s1, s2, s3, s4, s5, s6, s7, s8, s9, s10, s11
<1> DEFINE p3 == s0 \o s1 \o s2 \o s3
           p4 == p3 \o s4
           p5 == p4 \o s5
           p6 == p5 \o s6
           p7 == p6 \o s7
           p8 == p7 \o s8
           p9 == p8 \o s9
           p10 == p9 \o s10
           p11 == p10 \o s11
<1>14. p3 \in Seq(Dispatch)
  BY <1>0, <1>1, <1>2, <1>3, ConcatType
<1> HIDE DEF p3
<1>15. p4 \in Seq(Dispatch)
  BY <1>4, <1>14, ConcatType
<1>16. p5 \in Seq(Dispatch)
  BY <1>5, <1>15, ConcatType
<1>17. p6 \in Seq(Dispatch)
  BY <1>6, <1>16, ConcatType
<1>18. p7 \in Seq(Dispatch)
  BY <1>7, <1>17, ConcatType
<1>19. p8 \in Seq(Dispatch)
  BY <1>8, <1>18, ConcatType
<1>20. p9 \in Seq(Dispatch)
  BY <1>9, <1>19, ConcatType
<1>21. p10 \in Seq(Dispatch)
  BY <1>10, <1>20, ConcatType
<1>22. p11 \in Seq(Dispatch)
  BY <1>11, <1>21, ConcatType
<1>23. Sends(s4, Worker(role, "script"))
         => Sends(p4, Worker(role, "script"))
  BY <1>4, <1>14, ConcatSends
<1>24. Sends(p4, Worker(role, "script")) \/ Sends(s5, Worker(role, "script"))
         => Sends(p5, Worker(role, "script"))
  BY <1>5, <1>15, ConcatSends
<1>25. Sends(p5, Worker(role, "script")) \/ Sends(s6, Worker(role, "script"))
         => Sends(p6, Worker(role, "script"))
  BY <1>6, <1>16, ConcatSends
<1>26. Sends(p6, Worker(role, "script")) \/ Sends(s7, Worker(role, "script"))
         => Sends(p7, Worker(role, "script"))
  BY <1>7, <1>17, ConcatSends
<1>27. Sends(p7, Worker(role, "script")) \/ Sends(s8, Worker(role, "script"))
         => Sends(p8, Worker(role, "script"))
  BY <1>8, <1>18, ConcatSends
<1>28. Sends(p8, Worker(role, "script")) \/ Sends(s9, Worker(role, "script"))
         => Sends(p9, Worker(role, "script"))
  BY <1>9, <1>19, ConcatSends
<1>29. Sends(p9, Worker(role, "script")) \/ Sends(s10, Worker(role, "script"))
         => Sends(p10, Worker(role, "script"))
  BY <1>10, <1>20, ConcatSends
<1>30. Sends(p10, Worker(role, "script")) \/ Sends(s11, Worker(role, "script"))
         => Sends(p11, Worker(role, "script"))
  BY <1>11, <1>21, ConcatSends
<1>31. ScriptDispatches(scenario, pair, mix) = p11
  BY <1>12 DEF p3
<1> QED
  BY <1>13, <1>22, <1>23, <1>24, <1>25, <1>26, <1>27, <1>28, <1>29, <1>30, <1>31

\* The mix is a list of dispatches, and staffs the roles it moves.
LEMMA MixFacts ==
    ASSUME NEW mix \in SUBSET MixParts, NEW role \in CriticalRoles
    PROVE  /\ MixDispatches(mix) \in Seq(Dispatch)
           /\ role \in mix => Sends(MixDispatches(mix), Worker(role, "mix"))
<1> DEFINE m1 == When("guest_reroute" \in mix, Guest("guest_reroute", "mix"))
           m2 == When("crowd_control" \in mix, Worker("crowd_control", "mix"))
           m3 == When("medical" \in mix, Worker("medical", "mix"))
           m4 == When("accessibility_support" \in mix, Worker("accessibility_support", "mix"))
           m5 == When("security" \in mix, Worker("security", "mix"))
           m6 == When("hvac" \in mix, Equipment("hvac", "mix", FALSE))
           m7 == When("food" \in mix, Guest("food", "mix"))
           m8 == When("messages" \in mix, Guest("messages", "mix"))
           m9 == When("signage" \in mix, Equipment("signage", "mix", FALSE))
           m10 == When("queue_gate" \in mix, Equipment("queue_gate", "mix", FALSE))
           m11 == When("queue_gate_approval" \in mix, Equipment("queue_gate_approval", "mix", TRUE))
<1>1. m1 \in Seq(Dispatch)
  BY DispatchTypes, WhenType DEF When, Whats, MixParts, MixRoles, CriticalRoles
<1>2. m2 \in Seq(Dispatch)
  BY DispatchTypes, WhenType DEF When, Whats, MixParts, MixRoles, CriticalRoles
<1>3. m3 \in Seq(Dispatch)
  BY DispatchTypes, WhenType DEF When, Whats, MixParts, MixRoles, CriticalRoles
<1>4. m4 \in Seq(Dispatch)
  BY DispatchTypes, WhenType DEF When, Whats, MixParts, MixRoles, CriticalRoles
<1>5. m5 \in Seq(Dispatch)
  BY DispatchTypes, WhenType DEF When, Whats, MixParts, MixRoles, CriticalRoles
<1>6. m6 \in Seq(Dispatch)
  BY DispatchTypes, WhenType DEF When, Whats, MixParts, MixRoles, CriticalRoles
<1>7. m7 \in Seq(Dispatch)
  BY DispatchTypes, WhenType DEF When, Whats, MixParts, MixRoles, CriticalRoles
<1>8. m8 \in Seq(Dispatch)
  BY DispatchTypes, WhenType DEF When, Whats, MixParts, MixRoles, CriticalRoles
<1>9. m9 \in Seq(Dispatch)
  BY DispatchTypes, WhenType DEF When, Whats, MixParts, MixRoles, CriticalRoles
<1>10. m10 \in Seq(Dispatch)
  BY DispatchTypes, WhenType DEF When, Whats, MixParts, MixRoles, CriticalRoles
<1>11. m11 \in Seq(Dispatch)
  BY DispatchTypes, WhenType DEF When, Whats, MixParts, MixRoles, CriticalRoles
<1>12. MixDispatches(mix) =
         m1 \o m2 \o m3 \o m4 \o m5 \o m6 \o m7 \o m8 \o m9 \o m10 \o m11
  BY DEF MixDispatches
<1>13. role \in mix => \/ Sends(m3, Worker(role, "mix"))
                      \/ Sends(m4, Worker(role, "mix"))
                      \/ Sends(m5, Worker(role, "mix"))
  BY SingleSends DEF When, CriticalRoles
<1> HIDE DEF m1, m2, m3, m4, m5, m6, m7, m8, m9, m10, m11
<1> DEFINE p2 == m1 \o m2
           p3 == p2 \o m3
           p4 == p3 \o m4
           p5 == p4 \o m5
           p6 == p5 \o m6
           p7 == p6 \o m7
           p8 == p7 \o m8
           p9 == p8 \o m9
           p10 == p9 \o m10
           p11 == p10 \o m11
<1>14. p2 \in Seq(Dispatch)
  BY <1>1, <1>2, ConcatType
<1> HIDE DEF p2
<1>15. p3 \in Seq(Dispatch)
  BY <1>3, <1>14, ConcatType
<1>16. p4 \in Seq(Dispatch)
  BY <1>4, <1>15, ConcatType
<1>17. p5 \in Seq(Dispatch)
  BY <1>5, <1>16, ConcatType
<1>18. p6 \in Seq(Dispatch)
  BY <1>6, <1>17, ConcatType
<1>19. p7 \in Seq(Dispatch)
  BY <1>7, <1>18, ConcatType
<1>20. p8 \in Seq(Dispatch)
  BY <1>8, <1>19, ConcatType
<1>21. p9 \in Seq(Dispatch)
  BY <1>9, <1>20, ConcatType
<1>22. p10 \in Seq(Dispatch)
  BY <1>10, <1>21, ConcatType
<1>23. p11 \in Seq(Dispatch)
  BY <1>11, <1>22, ConcatType
<1>24. Sends(m3, Worker(role, "mix"))
         => Sends(p3, Worker(role, "mix"))
  BY <1>3, <1>14, ConcatSends
<1>25. Sends(p3, Worker(role, "mix")) \/ Sends(m4, Worker(role, "mix"))
         => Sends(p4, Worker(role, "mix"))
  BY <1>4, <1>15, ConcatSends
<1>26. Sends(p4, Worker(role, "mix")) \/ Sends(m5, Worker(role, "mix"))
         => Sends(p5, Worker(role, "mix"))
  BY <1>5, <1>16, ConcatSends
<1>27. Sends(p5, Worker(role, "mix")) \/ Sends(m6, Worker(role, "mix"))
         => Sends(p6, Worker(role, "mix"))
  BY <1>6, <1>17, ConcatSends
<1>28. Sends(p6, Worker(role, "mix")) \/ Sends(m7, Worker(role, "mix"))
         => Sends(p7, Worker(role, "mix"))
  BY <1>7, <1>18, ConcatSends
<1>29. Sends(p7, Worker(role, "mix")) \/ Sends(m8, Worker(role, "mix"))
         => Sends(p8, Worker(role, "mix"))
  BY <1>8, <1>19, ConcatSends
<1>30. Sends(p8, Worker(role, "mix")) \/ Sends(m9, Worker(role, "mix"))
         => Sends(p9, Worker(role, "mix"))
  BY <1>9, <1>20, ConcatSends
<1>31. Sends(p9, Worker(role, "mix")) \/ Sends(m10, Worker(role, "mix"))
         => Sends(p10, Worker(role, "mix"))
  BY <1>10, <1>21, ConcatSends
<1>32. Sends(p10, Worker(role, "mix")) \/ Sends(m11, Worker(role, "mix"))
         => Sends(p11, Worker(role, "mix"))
  BY <1>11, <1>22, ConcatSends
<1>33. MixDispatches(mix) = p11
  BY <1>12 DEF p2
<1> QED
  BY <1>13, <1>23, <1>24, <1>25, <1>26, <1>27, <1>28, <1>29, <1>30, <1>31, <1>32, <1>33

\* Every decision sends something, and what it sends is a list of dispatches.
LEMMA PlanType ==
    ASSUME NEW scenario \in Scenarios, NEW pair \in Pairs, NEW mix \in SUBSET MixParts
    PROVE  /\ DeliveryPlan(scenario, pair, mix) \in Seq(Dispatch)
           /\ DeliveryPlan(scenario, pair, mix) # <<>>
<1>1. Worker("operations_lead", "script") \in Dispatch
  BY DispatchTypes DEF Whats
<1>2. <<Worker("operations_lead", "script")>> \in Seq(Dispatch)
  BY <1>1, WhenType
<1>3. /\ MixDispatches(mix) \in Seq(Dispatch)
      /\ MixDispatches(mix) \o ScriptDispatches(scenario, pair, mix) \in Seq(Dispatch)
  BY MixFacts, ScriptFacts, ConcatType DEF CriticalRoles
<1> DEFINE custom == MixDispatches(mix)
           all == custom \o ScriptDispatches(scenario, pair, mix)
<1>4. DeliveryPlan(scenario, pair, mix) =
        IF custom # <<>> /\ pair \in MixOwned THEN custom
        ELSE IF all = <<>> THEN <<Worker("operations_lead", "script")>> ELSE all
  BY DEF DeliveryPlan
<1>5. <<Worker("operations_lead", "script")>> # <<>>
  OBVIOUS
<1> HIDE DEF custom, all
<1> QED
  BY <1>2, <1>3, <1>4, <1>5 DEF custom, all

\* A plan for an action that calls for a critical role has a task for it.
LEMMA PlanSends ==
    ASSUME NEW scenario \in Scenarios, NEW pair \in Pairs, NEW mix \in SUBSET MixParts,
           NEW role \in CriticalRoles, pair = ActionOf[role]
    PROVE  \E by \in {"mix", "script"} :
              Sends(DeliveryPlan(scenario, pair, mix), Worker(role, by))
<1> DEFINE custom == MixDispatches(mix)
           script == ScriptDispatches(scenario, pair, mix)
<1>1. /\ custom \in Seq(Dispatch)
      /\ script \in Seq(Dispatch)
  BY MixFacts, ScriptFacts
<1>2. \/ Sends(custom, Worker(role, "mix"))
      \/ Sends(script, Worker(role, "script"))
  BY MixFacts, ScriptFacts
<1>3. pair \notin MixOwned
  BY DEF MixOwned, ActionOf, CriticalRoles
<1>4. DeliveryPlan(scenario, pair, mix) =
        IF custom \o script = <<>> THEN <<Worker("operations_lead", "script")>>
        ELSE custom \o script
  BY <1>3 DEF DeliveryPlan
<1> HIDE DEF custom, script
<1>5. \E by \in {"mix", "script"} : Sends(custom \o script, Worker(role, by))
  BY <1>1, <1>2, ConcatSends
<1>6. custom \o script # <<>>
  BY <1>5 DEF Sends
<1> QED
  BY <1>4, <1>5, <1>6

\* No dispatch is asked for twice under the same name, all come from by, and
\* what is asked for is among names and allowed.
Varied(plan, names, allowed, by) ==
    /\ plan \in Seq(Dispatch)
    /\ \A i \in DOMAIN plan :
          plan[i].what \in names /\ plan[i].what \in allowed /\ plan[i].by = by
    /\ \A i, j \in DOMAIN plan : plan[i].what = plan[j].what => i = j

\* A list that may get one more dispatch under a new name.
LEMMA OneMore ==
    ASSUME NEW plan, NEW names, NEW allowed, NEW by, NEW name, NEW more, NEW condition,
           NEW d \in Dispatch, Varied(plan, names, allowed, by),
           d.what = name, d.by = by, condition => name \in allowed,
           name \notin names, more = names \cup {name}
    PROVE  Varied(plan \o When(condition, d), more, allowed, by)
<1>1. CASE ~condition
  <2>1. plan \o When(condition, d) = plan
    BY <1>1 DEF When, Varied
  <2> QED
    BY <2>1 DEF Varied
<1>2. CASE condition
  <2>1. plan \in Seq(Dispatch)
    BY DEF Varied
  <2>2. PICK longer : longer = Append(plan, d)
    OBVIOUS
  <2>3. plan \o When(condition, d) = longer
    BY <1>2, <2>1, <2>2 DEF When
  <2>4. /\ longer \in Seq(Dispatch)
        /\ DOMAIN longer = DOMAIN plan \cup {Len(plan) + 1}
        /\ longer[Len(plan) + 1] = d
        /\ \A i \in DOMAIN plan : longer[i] = plan[i]
    BY <2>1, <2>2
  <2>5. \A i \in DOMAIN longer :
          longer[i].what \in more /\ longer[i].what \in allowed /\ longer[i].by = by
    BY <1>2, <2>4 DEF Varied
  <2>6. ASSUME NEW i \in DOMAIN longer, NEW j \in DOMAIN longer, longer[i].what = longer[j].what
        PROVE  i = j
    BY <2>4, <2>6 DEF Varied
  <2> QED
    BY <2>3, <2>4, <2>5, <2>6 DEF Varied
<1> QED
  BY <1>1, <1>2

\* The mix asks for its own parts, each at most once.
LEMMA MixIsVaried ==
    ASSUME NEW mix \in SUBSET MixParts
    PROVE  Varied(MixDispatches(mix), MixParts, mix, "mix")
<1> DEFINE n0 == {}
           n1 == n0 \cup {"guest_reroute"}
           n2 == n1 \cup {"crowd_control"}
           n3 == n2 \cup {"medical"}
           n4 == n3 \cup {"accessibility_support"}
           n5 == n4 \cup {"security"}
           n6 == n5 \cup {"hvac"}
           n7 == n6 \cup {"food"}
           n8 == n7 \cup {"messages"}
           n9 == n8 \cup {"signage"}
           n10 == n9 \cup {"queue_gate"}
           n11 == n10 \cup {"queue_gate_approval"}
<1> DEFINE p0 == <<>>
           p1 == p0 \o When("guest_reroute" \in mix, Guest("guest_reroute", "mix"))
           p2 == p1 \o When("crowd_control" \in mix, Worker("crowd_control", "mix"))
           p3 == p2 \o When("medical" \in mix, Worker("medical", "mix"))
           p4 == p3 \o When("accessibility_support" \in mix, Worker("accessibility_support", "mix"))
           p5 == p4 \o When("security" \in mix, Worker("security", "mix"))
           p6 == p5 \o When("hvac" \in mix, Equipment("hvac", "mix", FALSE))
           p7 == p6 \o When("food" \in mix, Guest("food", "mix"))
           p8 == p7 \o When("messages" \in mix, Guest("messages", "mix"))
           p9 == p8 \o When("signage" \in mix, Equipment("signage", "mix", FALSE))
           p10 == p9 \o When("queue_gate" \in mix, Equipment("queue_gate", "mix", FALSE))
           p11 == p10 \o When("queue_gate_approval" \in mix, Equipment("queue_gate_approval", "mix", TRUE))
<1>0. Varied(p0, n0, mix, "mix")
  BY DEF Varied
<1>1. Varied(p1, n1, mix, "mix")
  <2> HIDE DEF p0
  <2>1. Guest("guest_reroute", "mix") \in Dispatch
    BY DispatchTypes DEF Whats, MixParts, MixRoles, CriticalRoles
  <2>2. Guest("guest_reroute", "mix").what = "guest_reroute" /\ Guest("guest_reroute", "mix").by = "mix"
    BY DEF Guest
  <2>3. "guest_reroute" \notin n0
    OBVIOUS
  <2> HIDE DEF n0
  <2> QED
    BY <1>0, <2>1, <2>2, <2>3, OneMore
<1>2. Varied(p2, n2, mix, "mix")
  <2> HIDE DEF p1
  <2>1. Worker("crowd_control", "mix") \in Dispatch
    BY DispatchTypes DEF Whats, MixParts, MixRoles, CriticalRoles
  <2>2. Worker("crowd_control", "mix").what = "crowd_control" /\ Worker("crowd_control", "mix").by = "mix"
    BY DEF Worker
  <2>3. "crowd_control" \notin n1
    OBVIOUS
  <2> HIDE DEF n1
  <2> QED
    BY <1>1, <2>1, <2>2, <2>3, OneMore
<1>3. Varied(p3, n3, mix, "mix")
  <2> HIDE DEF p2
  <2>1. Worker("medical", "mix") \in Dispatch
    BY DispatchTypes DEF Whats, MixParts, MixRoles, CriticalRoles
  <2>2. Worker("medical", "mix").what = "medical" /\ Worker("medical", "mix").by = "mix"
    BY DEF Worker
  <2>3. "medical" \notin n2
    OBVIOUS
  <2> HIDE DEF n2
  <2> QED
    BY <1>2, <2>1, <2>2, <2>3, OneMore
<1>4. Varied(p4, n4, mix, "mix")
  <2> HIDE DEF p3
  <2>1. Worker("accessibility_support", "mix") \in Dispatch
    BY DispatchTypes DEF Whats, MixParts, MixRoles, CriticalRoles
  <2>2. Worker("accessibility_support", "mix").what = "accessibility_support" /\ Worker("accessibility_support", "mix").by = "mix"
    BY DEF Worker
  <2>3. "accessibility_support" \notin n3
    OBVIOUS
  <2> HIDE DEF n3
  <2> QED
    BY <1>3, <2>1, <2>2, <2>3, OneMore
<1>5. Varied(p5, n5, mix, "mix")
  <2> HIDE DEF p4
  <2>1. Worker("security", "mix") \in Dispatch
    BY DispatchTypes DEF Whats, MixParts, MixRoles, CriticalRoles
  <2>2. Worker("security", "mix").what = "security" /\ Worker("security", "mix").by = "mix"
    BY DEF Worker
  <2>3. "security" \notin n4
    OBVIOUS
  <2> HIDE DEF n4
  <2> QED
    BY <1>4, <2>1, <2>2, <2>3, OneMore
<1>6. Varied(p6, n6, mix, "mix")
  <2> HIDE DEF p5
  <2>1. Equipment("hvac", "mix", FALSE) \in Dispatch
    BY DispatchTypes DEF Whats, MixParts, MixRoles, CriticalRoles
  <2>2. Equipment("hvac", "mix", FALSE).what = "hvac" /\ Equipment("hvac", "mix", FALSE).by = "mix"
    BY DEF Equipment
  <2>3. "hvac" \notin n5
    OBVIOUS
  <2> HIDE DEF n5
  <2> QED
    BY <1>5, <2>1, <2>2, <2>3, OneMore
<1>7. Varied(p7, n7, mix, "mix")
  <2> HIDE DEF p6
  <2>1. Guest("food", "mix") \in Dispatch
    BY DispatchTypes DEF Whats, MixParts, MixRoles, CriticalRoles
  <2>2. Guest("food", "mix").what = "food" /\ Guest("food", "mix").by = "mix"
    BY DEF Guest
  <2>3. "food" \notin n6
    OBVIOUS
  <2> HIDE DEF n6
  <2> QED
    BY <1>6, <2>1, <2>2, <2>3, OneMore
<1>8. Varied(p8, n8, mix, "mix")
  <2> HIDE DEF p7
  <2>1. Guest("messages", "mix") \in Dispatch
    BY DispatchTypes DEF Whats, MixParts, MixRoles, CriticalRoles
  <2>2. Guest("messages", "mix").what = "messages" /\ Guest("messages", "mix").by = "mix"
    BY DEF Guest
  <2>3. "messages" \notin n7
    OBVIOUS
  <2> HIDE DEF n7
  <2> QED
    BY <1>7, <2>1, <2>2, <2>3, OneMore
<1>9. Varied(p9, n9, mix, "mix")
  <2> HIDE DEF p8
  <2>1. Equipment("signage", "mix", FALSE) \in Dispatch
    BY DispatchTypes DEF Whats, MixParts, MixRoles, CriticalRoles
  <2>2. Equipment("signage", "mix", FALSE).what = "signage" /\ Equipment("signage", "mix", FALSE).by = "mix"
    BY DEF Equipment
  <2>3. "signage" \notin n8
    OBVIOUS
  <2> HIDE DEF n8
  <2> QED
    BY <1>8, <2>1, <2>2, <2>3, OneMore
<1>10. Varied(p10, n10, mix, "mix")
  <2> HIDE DEF p9
  <2>1. Equipment("queue_gate", "mix", FALSE) \in Dispatch
    BY DispatchTypes DEF Whats, MixParts, MixRoles, CriticalRoles
  <2>2. Equipment("queue_gate", "mix", FALSE).what = "queue_gate" /\ Equipment("queue_gate", "mix", FALSE).by = "mix"
    BY DEF Equipment
  <2>3. "queue_gate" \notin n9
    OBVIOUS
  <2> HIDE DEF n9
  <2> QED
    BY <1>9, <2>1, <2>2, <2>3, OneMore
<1>11. Varied(p11, n11, mix, "mix")
  <2> HIDE DEF p10
  <2>1. Equipment("queue_gate_approval", "mix", TRUE) \in Dispatch
    BY DispatchTypes DEF Whats, MixParts, MixRoles, CriticalRoles
  <2>2. Equipment("queue_gate_approval", "mix", TRUE).what = "queue_gate_approval" /\ Equipment("queue_gate_approval", "mix", TRUE).by = "mix"
    BY DEF Equipment
  <2>3. "queue_gate_approval" \notin n10
    OBVIOUS
  <2> HIDE DEF n10
  <2> QED
    BY <1>10, <2>1, <2>2, <2>3, OneMore
<1>12. n11 = MixParts
  BY DEF MixParts, MixRoles, CriticalRoles
<1>13. p1 = When("guest_reroute" \in mix, Guest("guest_reroute", "mix"))
  BY DispatchTypes DEF When, Whats, MixParts, MixRoles, CriticalRoles
<1>14. MixDispatches(mix) = p11
  BY <1>13 DEF MixDispatches
<1> HIDE DEF p11, n11
<1> QED
  BY <1>11, <1>12, <1>14

\* The script asks for nothing twice, and for no critical role the mix sends.
LEMMA ScriptIsVaried ==
    ASSUME NEW scenario \in Scenarios, NEW pair \in Pairs, NEW mix \in SUBSET MixParts
    PROVE  Varied(ScriptDispatches(scenario, pair, mix), Whats, Whats \ (CriticalRoles \cap mix),
                  "script")
<1> DEFINE allowed == Whats \ (CriticalRoles \cap mix)
           n0 == {"guest_reroute", "crowd_control"}
           n1 == n0 \cup {"staffing_lead"}
           n2 == n1 \cup {"food"}
           n3 == n2 \cup {"hvac"}
           n4 == n3 \cup {"medical"}
           n5 == n4 \cup {"accessibility_support"}
           n6 == n5 \cup {"security"}
           n7 == n6 \cup {"messages"}
           n8 == n7 \cup {"signage"}
           n9 == n8 \cup {"queue_gate"}
           n10 == n9 \cup {"entertainment_lead"}
           n11 == n10 \cup {"maintenance_technician"}
           p0 == IF scenario = "ride_down"
                    \/ pair \in {<<"ride", "reroute">>, <<"traffic", "redirect_food">>}
                 THEN <<Guest("guest_reroute", "script"), Worker("crowd_control", "script")>>
                 ELSE <<>>
           c1 == scenario = "staff_shortage" \/ pair = <<"staff", "redeploy">>
           p1 == p0 \o When(c1, Worker("staffing_lead", "script"))
           c2 == scenario = "food_spike" \/ pair = <<"food", "suppress_item">>
           p2 == p1 \o When(c2, Guest("food", "script"))
           c3 == scenario = "storm_response" \/ pair = <<"energy", "protect_hvac">>
           p3 == p2 \o When(c3, Equipment("hvac", "script", FALSE))
           c4 == pair = <<"medical", "dispatch">> /\ ~HasWorkerRole(mix, "medical")
           p4 == p3 \o When(c4, Worker("medical", "script"))
           c5 == pair = <<"accessibility", "assist">> /\ ~HasWorkerRole(mix, "accessibility_support")
           p5 == p4 \o When(c5, Worker("accessibility_support", "script"))
           c6 == pair = <<"security", "respond">> /\ ~HasWorkerRole(mix, "security")
           p6 == p5 \o When(c6, Worker("security", "script"))
           c7 == pair = <<"guest_services", "message">>
           p7 == p6 \o When(c7, Guest("messages", "script"))
           c8 == pair = <<"signage", "update">>
           p8 == p7 \o When(c8, Equipment("signage", "script", FALSE))
           c9 == pair = <<"queue_gate", "hold_intake">>
           p9 == p8 \o When(c9, Equipment("queue_gate", "script", FALSE))
           c10 == pair = <<"entertainment", "activate">>
           p10 == p9 \o When(c10, Worker("entertainment_lead", "script"))
           c11 == pair = <<"maintenance", "inspect">>
           p11 == p10 \o When(c11, Worker("maintenance_technician", "script"))
<1>0. Varied(p0, n0, allowed, "script")
  <2>1. CASE p0 = <<>>
    BY <2>1 DEF Varied
  <2>2. CASE p0 = <<Guest("guest_reroute", "script"), Worker("crowd_control", "script")>>
    <3>1. Guest("guest_reroute", "script") \in Dispatch /\ Worker("crowd_control", "script") \in Dispatch
      BY DispatchTypes DEF Whats, MixParts, MixRoles
    <3>2. p0 \in Seq(Dispatch) /\ DOMAIN p0 = {1, 2}
      BY <2>2, <3>1
    <3>3. /\ p0[1].what = "guest_reroute" /\ p0[1].by = "script"
          /\ p0[2].what = "crowd_control" /\ p0[2].by = "script"
      BY <2>2 DEF Guest, Worker
    <3>4. "guest_reroute" \in allowed /\ "crowd_control" \in allowed
      BY DEF Whats, MixParts, MixRoles, CriticalRoles
    <3> HIDE DEF p0, allowed
    <3> QED
      BY <3>2, <3>3, <3>4 DEF Varied
  <2> QED
    BY <2>1, <2>2
<1>1. Varied(p1, n1, allowed, "script")
  <2> HIDE DEF p0
  <2>1. Worker("staffing_lead", "script") \in Dispatch
    BY DispatchTypes DEF Whats, MixParts, MixRoles, CriticalRoles
  <2>2. Worker("staffing_lead", "script").what = "staffing_lead" /\ Worker("staffing_lead", "script").by = "script"
    BY DEF Worker
  <2>3. "staffing_lead" \notin n0
    OBVIOUS
  <2>4. c1 => "staffing_lead" \in allowed
    BY DEF Whats, MixParts, MixRoles, CriticalRoles
  <2> HIDE DEF n0, c1, allowed
  <2> QED
    BY <1>0, <2>1, <2>2, <2>3, <2>4, OneMore
<1>2. Varied(p2, n2, allowed, "script")
  <2> HIDE DEF p1
  <2>1. Guest("food", "script") \in Dispatch
    BY DispatchTypes DEF Whats, MixParts, MixRoles, CriticalRoles
  <2>2. Guest("food", "script").what = "food" /\ Guest("food", "script").by = "script"
    BY DEF Guest
  <2>3. "food" \notin n1
    OBVIOUS
  <2>4. c2 => "food" \in allowed
    BY DEF Whats, MixParts, MixRoles, CriticalRoles
  <2> HIDE DEF n1, c2, allowed
  <2> QED
    BY <1>1, <2>1, <2>2, <2>3, <2>4, OneMore
<1>3. Varied(p3, n3, allowed, "script")
  <2> HIDE DEF p2
  <2>1. Equipment("hvac", "script", FALSE) \in Dispatch
    BY DispatchTypes DEF Whats, MixParts, MixRoles, CriticalRoles
  <2>2. Equipment("hvac", "script", FALSE).what = "hvac" /\ Equipment("hvac", "script", FALSE).by = "script"
    BY DEF Equipment
  <2>3. "hvac" \notin n2
    OBVIOUS
  <2>4. c3 => "hvac" \in allowed
    BY DEF Whats, MixParts, MixRoles, CriticalRoles
  <2> HIDE DEF n2, c3, allowed
  <2> QED
    BY <1>2, <2>1, <2>2, <2>3, <2>4, OneMore
<1>4. Varied(p4, n4, allowed, "script")
  <2> HIDE DEF p3
  <2>1. Worker("medical", "script") \in Dispatch
    BY DispatchTypes DEF Whats, MixParts, MixRoles, CriticalRoles
  <2>2. Worker("medical", "script").what = "medical" /\ Worker("medical", "script").by = "script"
    BY DEF Worker
  <2>3. "medical" \notin n3
    OBVIOUS
  <2>4. c4 => "medical" \in allowed
    BY DEF Whats, MixParts, MixRoles, CriticalRoles, HasWorkerRole
  <2> HIDE DEF n3, c4, allowed
  <2> QED
    BY <1>3, <2>1, <2>2, <2>3, <2>4, OneMore
<1>5. Varied(p5, n5, allowed, "script")
  <2> HIDE DEF p4
  <2>1. Worker("accessibility_support", "script") \in Dispatch
    BY DispatchTypes DEF Whats, MixParts, MixRoles, CriticalRoles
  <2>2. Worker("accessibility_support", "script").what = "accessibility_support" /\ Worker("accessibility_support", "script").by = "script"
    BY DEF Worker
  <2>3. "accessibility_support" \notin n4
    OBVIOUS
  <2>4. c5 => "accessibility_support" \in allowed
    BY DEF Whats, MixParts, MixRoles, CriticalRoles, HasWorkerRole
  <2> HIDE DEF n4, c5, allowed
  <2> QED
    BY <1>4, <2>1, <2>2, <2>3, <2>4, OneMore
<1>6. Varied(p6, n6, allowed, "script")
  <2> HIDE DEF p5
  <2>1. Worker("security", "script") \in Dispatch
    BY DispatchTypes DEF Whats, MixParts, MixRoles, CriticalRoles
  <2>2. Worker("security", "script").what = "security" /\ Worker("security", "script").by = "script"
    BY DEF Worker
  <2>3. "security" \notin n5
    OBVIOUS
  <2>4. c6 => "security" \in allowed
    BY DEF Whats, MixParts, MixRoles, CriticalRoles, HasWorkerRole
  <2> HIDE DEF n5, c6, allowed
  <2> QED
    BY <1>5, <2>1, <2>2, <2>3, <2>4, OneMore
<1>7. Varied(p7, n7, allowed, "script")
  <2> HIDE DEF p6
  <2>1. Guest("messages", "script") \in Dispatch
    BY DispatchTypes DEF Whats, MixParts, MixRoles, CriticalRoles
  <2>2. Guest("messages", "script").what = "messages" /\ Guest("messages", "script").by = "script"
    BY DEF Guest
  <2>3. "messages" \notin n6
    OBVIOUS
  <2>4. c7 => "messages" \in allowed
    BY DEF Whats, MixParts, MixRoles, CriticalRoles
  <2> HIDE DEF n6, c7, allowed
  <2> QED
    BY <1>6, <2>1, <2>2, <2>3, <2>4, OneMore
<1>8. Varied(p8, n8, allowed, "script")
  <2> HIDE DEF p7
  <2>1. Equipment("signage", "script", FALSE) \in Dispatch
    BY DispatchTypes DEF Whats, MixParts, MixRoles, CriticalRoles
  <2>2. Equipment("signage", "script", FALSE).what = "signage" /\ Equipment("signage", "script", FALSE).by = "script"
    BY DEF Equipment
  <2>3. "signage" \notin n7
    OBVIOUS
  <2>4. c8 => "signage" \in allowed
    BY DEF Whats, MixParts, MixRoles, CriticalRoles
  <2> HIDE DEF n7, c8, allowed
  <2> QED
    BY <1>7, <2>1, <2>2, <2>3, <2>4, OneMore
<1>9. Varied(p9, n9, allowed, "script")
  <2> HIDE DEF p8
  <2>1. Equipment("queue_gate", "script", FALSE) \in Dispatch
    BY DispatchTypes DEF Whats, MixParts, MixRoles, CriticalRoles
  <2>2. Equipment("queue_gate", "script", FALSE).what = "queue_gate" /\ Equipment("queue_gate", "script", FALSE).by = "script"
    BY DEF Equipment
  <2>3. "queue_gate" \notin n8
    OBVIOUS
  <2>4. c9 => "queue_gate" \in allowed
    BY DEF Whats, MixParts, MixRoles, CriticalRoles
  <2> HIDE DEF n8, c9, allowed
  <2> QED
    BY <1>8, <2>1, <2>2, <2>3, <2>4, OneMore
<1>10. Varied(p10, n10, allowed, "script")
  <2> HIDE DEF p9
  <2>1. Worker("entertainment_lead", "script") \in Dispatch
    BY DispatchTypes DEF Whats, MixParts, MixRoles, CriticalRoles
  <2>2. Worker("entertainment_lead", "script").what = "entertainment_lead" /\ Worker("entertainment_lead", "script").by = "script"
    BY DEF Worker
  <2>3. "entertainment_lead" \notin n9
    OBVIOUS
  <2>4. c10 => "entertainment_lead" \in allowed
    BY DEF Whats, MixParts, MixRoles, CriticalRoles
  <2> HIDE DEF n9, c10, allowed
  <2> QED
    BY <1>9, <2>1, <2>2, <2>3, <2>4, OneMore
<1>11. Varied(p11, n11, allowed, "script")
  <2> HIDE DEF p10
  <2>1. Worker("maintenance_technician", "script") \in Dispatch
    BY DispatchTypes DEF Whats, MixParts, MixRoles, CriticalRoles
  <2>2. Worker("maintenance_technician", "script").what = "maintenance_technician" /\ Worker("maintenance_technician", "script").by = "script"
    BY DEF Worker
  <2>3. "maintenance_technician" \notin n10
    OBVIOUS
  <2>4. c11 => "maintenance_technician" \in allowed
    BY DEF Whats, MixParts, MixRoles, CriticalRoles
  <2> HIDE DEF n10, c11, allowed
  <2> QED
    BY <1>10, <2>1, <2>2, <2>3, <2>4, OneMore
<1>12. ScriptDispatches(scenario, pair, mix) = p11
  BY DEF ScriptDispatches
<1>13. n11 \subseteq Whats
  BY DEF Whats, MixParts, MixRoles, CriticalRoles
<1> HIDE DEF p11, n11, allowed
<1>14. Varied(p11, Whats, allowed, "script")
  BY <1>11, <1>13 DEF Varied
<1> QED
  BY <1>12, <1>14 DEF allowed

NeverRepeats(plan) == \A i, j \in DOMAIN plan : plan[i] = plan[j] => i = j

StaffsOnce(plan) ==
    \A i, j \in DOMAIN plan : plan[i].what = plan[j].what /\ plan[i].what \in CriticalRoles => i = j

\* What the mix and the script ask for, one after the other.
LEMMA VariedTogether ==
    ASSUME NEW mix \in SUBSET MixParts, NEW custom, NEW script,
           Varied(custom, MixParts, mix, "mix"),
           Varied(script, Whats, Whats \ (CriticalRoles \cap mix), "script")
    PROVE  NeverRepeats(custom \o script) /\ StaffsOnce(custom \o script)
<1>1. custom \in Seq(Dispatch) /\ script \in Seq(Dispatch)
  BY DEF Varied
<1>2. PICK all : all = custom \o script
  OBVIOUS
<1>3. ASSUME NEW i \in DOMAIN all
      PROVE  \/ i \in DOMAIN custom /\ all[i] = custom[i]
             \/ i - Len(custom) \in DOMAIN script /\ all[i] = script[i - Len(custom)] /\ i \in Nat
  BY <1>1, <1>2
<1>4. ASSUME NEW i \in DOMAIN all, NEW j \in DOMAIN all, all[i].what = all[j].what,
             all[i].by = all[j].by \/ all[i].what \in CriticalRoles
      PROVE  i = j
  <2>1. CASE i \in DOMAIN custom /\ all[i] = custom[i] /\ j \in DOMAIN custom /\ all[j] = custom[j]
    BY <1>4, <2>1 DEF Varied
  <2>2. ASSUME NEW k \in DOMAIN custom, NEW l \in DOMAIN script
        PROVE  /\ custom[k].by # script[l].by
               /\ ~(custom[k].what = script[l].what /\ custom[k].what \in CriticalRoles)
    BY DEF Varied
  <2>3. CASE i - Len(custom) \in DOMAIN script /\ all[i] = script[i - Len(custom)] /\ i \in Nat
             /\ j - Len(custom) \in DOMAIN script /\ all[j] = script[j - Len(custom)] /\ j \in Nat
    <3>1. i - Len(custom) = j - Len(custom)
      BY <1>4, <2>3 DEF Varied
    <3>2. Len(custom) \in Nat
      BY <1>1
    <3> QED
      BY <2>3, <3>1, <3>2
  <2> QED
    BY <1>3, <1>4, <2>1, <2>2, <2>3
<1> QED
  BY <1>2, <1>4 DEF NeverRepeats, StaffsOnce

\* A plan never sends the same dispatch twice, so none of its dispatches is
\* answered as the duplicate of another of the same plan, and it staffs no
\* critical role twice, whatever the mix and the script both ask for
\* (has_worker_role, park_delivery.py).
THEOREM PlansNeverRepeat ==
    ASSUME NEW scenario \in Scenarios, NEW pair \in Pairs, NEW mix \in SUBSET MixParts
    PROVE  /\ NeverRepeats(DeliveryPlan(scenario, pair, mix))
           /\ StaffsOnce(DeliveryPlan(scenario, pair, mix))
<1>1. PICK custom : custom = MixDispatches(mix)
  OBVIOUS
<1>2. PICK script : script = ScriptDispatches(scenario, pair, mix)
  OBVIOUS
<1>3. /\ Varied(custom, MixParts, mix, "mix")
      /\ Varied(script, Whats, Whats \ (CriticalRoles \cap mix), "script")
  BY <1>1, <1>2, MixIsVaried, ScriptIsVaried
<1>4. NeverRepeats(custom \o script) /\ StaffsOnce(custom \o script)
  BY <1>3, VariedTogether
<1>5. NeverRepeats(custom) /\ StaffsOnce(custom)
  BY <1>3 DEF Varied, NeverRepeats, StaffsOnce
<1>6. /\ NeverRepeats(<<Worker("operations_lead", "script")>>)
      /\ StaffsOnce(<<Worker("operations_lead", "script")>>)
  BY DEF NeverRepeats, StaffsOnce
<1>7. DeliveryPlan(scenario, pair, mix) \in
        {custom, custom \o script, <<Worker("operations_lead", "script")>>}
  BY <1>1, <1>2 DEF DeliveryPlan
<1> QED
  BY <1>4, <1>5, <1>6, <1>7


-----------------------------------------------------------------------------
(* Types.                                                                  *)

LEMMA OrdersType ==
    ASSUME NEW q \in Requests
    PROVE  /\ Orders(q) \in Seq(Keys)
           /\ Orders(q) # <<>>
           /\ DOMAIN Orders(q) = DOMAIN DeliveryPlan(q.scenario, q.pair, q.mix)
           /\ \A i \in DOMAIN Orders(q) :
                 Orders(q)[i] = [decision |-> q.decision,
                                 dispatch |-> DeliveryPlan(q.scenario, q.pair, q.mix)[i]]
<1> DEFINE plan == DeliveryPlan(q.scenario, q.pair, q.mix)
<1>1. plan \in Seq(Dispatch) /\ plan # <<>>
  BY PlanType, DeliveryAssumption DEF Request
<1>2. Orders(q) = [i \in DOMAIN plan |-> [decision |-> q.decision, dispatch |-> plan[i]]]
  BY DEF Orders
<1>3. \A i \in DOMAIN Orders(q) : Orders(q)[i] \in Keys
  BY DEF Keys
<1> HIDE DEF plan
<1>4. DOMAIN Orders(q) = 1..Len(plan) /\ Len(plan) \in Nat /\ Len(plan) # 0
  BY <1>1, <1>2
<1>5. Orders(q) \in Seq(Keys)
  <2>1. Orders(q) = [i \in 1..Len(plan) |-> Orders(q)[i]]
    BY <1>2, <1>4
  <2> QED
    BY <2>1, <1>3, <1>4
<1> QED
  BY <1>1, <1>2, <1>4, <1>5 DEF plan

LEMMA InitialStatusType == \A k : InitialStatus(k) \in Status
BY DEF InitialStatus, Status, Initials

CallRecord == [stage : {"idle", "lookup", "write", "written", "list"}, request : Requests \cup {NoRequest},
               todo : Seq(Keys), status : Status, circuit : Circuits,
               tries : 0..Attempts, direct : BOOLEAN]

CallOK(c) ==
    /\ c \in CallRecord
    /\ c.stage # "idle" => c.todo # <<>>
    /\ c.stage \in {"lookup", "list"} => c.circuit = "persist"
    /\ c.stage # "idle" /\ c.circuit = "persist" => c.request \in Requests

LEMMA TypeByCall ==
    DeliveryTypeOK <=>
        /\ outbox \in Seq([key : Keys, status : Status])
        /\ file \in [Keys \X Status -> Nat]
        /\ lost \subseteq Keys \X Status
        /\ answered \subseteq Requests
        /\ circuit \in [Circuits -> Circuit]
        /\ call \in [Processes -> CallRecord]
        /\ \A p \in Processes : CallOK(call[p])
        /\ calls \in Nat
        /\ lives \in [Keys -> Nat]
BY DEF DeliveryTypeOK, CallOK, CallRecord

LEMMA IdleOK == CallOK(Idle) /\ Idle.stage = "idle"
<1>1. <<>> \in Seq(Keys) /\ 0 \in 0..Attempts
  BY DeliveryAssumption
<1> QED
  BY <1>1 DEF CallOK, CallRecord, Idle, Status, Initials, Circuits

\* What one call becomes decides the type of all of them.
LEMMA OneCall ==
    ASSUME DeliveryTypeOK, NEW p \in Processes, NEW c, CallOK(c),
           call' = [call EXCEPT ![p] = c]
    PROVE  /\ call' \in [Processes -> CallRecord]
           /\ \A r \in Processes : CallOK(call'[r])
BY TypeByCall DEF CallOK

LEMMA ProceedType ==
    ASSUME DeliveryTypeOK, NEW p \in Processes, call[p].request \in Requests, Proceed(p),
           call[p].todo # <<>>
    PROVE  /\ call' \in [Processes -> CallRecord]
           /\ \A r \in Processes : CallOK(call'[r])
           /\ answered' \subseteq Requests
<1> DEFINE rest == Tail(call[p].todo)
           next == [Idle EXCEPT !.stage = "lookup", !.request = call[p].request, !.todo = rest]
<1>1. rest \in Seq(Keys)
  BY TypeByCall DEF CallOK, CallRecord
<1>2. CASE rest = <<>>
  BY <1>2, IdleOK, OneCall, TypeByCall DEF Proceed
<1>3. CASE rest # <<>>
  <2>1. CallOK(next)
    BY <1>1, <1>3, IdleOK DEF CallOK, CallRecord, Idle
  <2>2. call' = [call EXCEPT ![p] = next] /\ answered' = answered
    BY <1>3 DEF Proceed
  <2> QED
    BY <2>1, <2>2, OneCall, TypeByCall
<1> QED
  BY <1>2, <1>3

LEMMA StartWriteType ==
    ASSUME DeliveryTypeOK, NEW p \in Processes, NEW todo \in Seq(Keys), todo # <<>>,
           NEW s \in Status, NEW c \in Circuits,
           c = "persist" => call[p].request \in Requests,
           StartWrite(p, todo, s, c)
    PROVE  /\ call' \in [Processes -> CallRecord]
           /\ \A r \in Processes : CallOK(call'[r])
<1> DEFINE next == [stage |-> "write", request |-> call[p].request, todo |-> todo,
                    status |-> s, circuit |-> c, tries |-> 0, direct |-> ~AllowRequest(c)]
<1>1. CallOK(next)
  BY TypeByCall, DeliveryAssumption DEF CallOK, CallRecord, AllowRequest
<1>2. call' = [call EXCEPT ![p] = next]
  BY DEF StartWrite
<1> QED
  BY <1>1, <1>2, OneCall

LEMMA SettleType ==
    ASSUME DeliveryTypeOK, NEW p \in Processes, call[p].stage \in {"write", "written"}, Settle(p)
    PROVE  /\ call' \in [Processes -> CallRecord]
           /\ \A r \in Processes : CallOK(call'[r])
<1> DEFINE next == IF call[p].circuit = "persist"
                   THEN [call[p] EXCEPT !.stage = "list"] ELSE Idle
<1>1. CallOK(next)
  BY TypeByCall, IdleOK DEF CallOK, CallRecord
<1>2. call' = [call EXCEPT ![p] = next]
  BY TypeByCall DEF Settle
<1> QED
  BY <1>1, <1>2, OneCall

LEMMA CircuitTypes ==
    ASSUME DeliveryTypeOK, NEW c \in Circuits
    PROVE  /\ RecordSuccess(c) => circuit' \in [Circuits -> Circuit]
           /\ RecordFailure(c) => circuit' \in [Circuits -> Circuit]
<1>1. Fresh \in Circuit
  BY DeliveryAssumption DEF Fresh, Circuit
<1>2. [failures |-> Threshold, state |-> "open"] \in Circuit
  BY DeliveryAssumption DEF Circuit
<1>3. circuit \in [Circuits -> Circuit] /\ circuit[c] \in Circuit
  BY DEF DeliveryTypeOK
<1>4. circuit[c].failures + 1 < Threshold =>
        [circuit[c] EXCEPT !.failures = circuit[c].failures + 1] \in Circuit
  BY <1>3, DeliveryAssumption DEF Circuit
<1> QED
  BY <1>1, <1>2, <1>3, <1>4, DeliveryAssumption DEF RecordSuccess, RecordFailure, Circuit

\* Cutting the list keeps its members, and one in front.
LEMMA ListType ==
    ASSUME NEW S, NEW s \in Seq(S), NEW x \in S, NEW n \in Nat \ {0}
    PROVE  LET grown == <<x>> \o s
               kept  == SubSeq(grown, 1, IF Len(grown) > n THEN n ELSE Len(grown))
           IN  /\ kept \in Seq(S)
               /\ \A i \in DOMAIN kept :
                     \/ kept[i] = x
                     \/ \E j \in DOMAIN s : kept[i] = s[j]
<1> DEFINE grown == <<x>> \o s
           m     == IF Len(grown) > n THEN n ELSE Len(grown)
<1>1. /\ grown \in Seq(S)
      /\ Len(grown) = Len(s) + 1
      /\ grown[1] = x
      /\ \A i \in 2..Len(grown) : i - 1 \in DOMAIN s /\ grown[i] = s[i - 1]
  OBVIOUS
<1>2. m \in 1..Len(grown)
  BY <1>1
<1> HIDE DEF grown, m
<1>3. /\ SubSeq(grown, 1, m) \in Seq(S)
      /\ DOMAIN SubSeq(grown, 1, m) = 1..m
      /\ \A i \in 1..m : SubSeq(grown, 1, m)[i] = grown[i]
  BY <1>1, <1>2
<1>4. \A i \in 1..m : i = 1 \/ i \in 2..Len(grown)
  BY <1>1, <1>2
<1>5. \A i \in 1..m : grown[i] = x \/ \E j \in DOMAIN s : grown[i] = s[j]
  BY <1>1, <1>4
<1> QED
  BY <1>3, <1>5 DEF grown, m

\* A call that is about to write works on a key of its own.
LEMMA WorksOnKey ==
    ASSUME DeliveryTypeOK, NEW p \in Processes, call[p].stage # "idle"
    PROVE  Head(call[p].todo) \in Keys /\ call[p].status \in Status /\ call[p].circuit \in Circuits
BY TypeByCall DEF CallOK, CallRecord

LEMMA DeliverType ==
    ASSUME DeliveryTypeOK, NEW p \in Processes, NEW q \in Requests, Deliver(p, q)
    PROVE  DeliveryTypeOK'
<1> DEFINE next == [Idle EXCEPT !.stage = "lookup", !.request = q, !.todo = Orders(q)]
<1>1. CallOK(next)
  BY OrdersType, IdleOK DEF CallOK, CallRecord, Idle
<1>2. call' = [call EXCEPT ![p] = next]
  BY DEF Deliver
<1>3. /\ call' \in [Processes -> CallRecord]
      /\ \A r \in Processes : CallOK(call'[r])
  BY <1>1, <1>2, OneCall
<1> QED
  BY <1>3 DEF Deliver, DeliveryTypeOK, CallOK, CallRecord

LEMMA RecordType ==
    ASSUME DeliveryTypeOK, NEW p \in Processes, Record(p)
    PROVE  DeliveryTypeOK'
<1>1. call[p].todo \in Seq(Keys) /\ call[p].todo # <<>> /\ call[p].request \in Requests
  BY TypeByCall DEF Record, CallOK, CallRecord
<1>2. CASE Remembered(Head(call[p].todo))
  BY <1>1, <1>2, ProceedType DEF Record, DeliveryTypeOK, CallOK, CallRecord
<1>3. CASE ~Remembered(Head(call[p].todo))
  <2>1. StartWrite(p, call[p].todo, InitialStatus(Head(call[p].todo)), "persist")
        /\ UNCHANGED answered
    BY <1>3 DEF Record
  <2>2. /\ call' \in [Processes -> CallRecord]
        /\ \A r \in Processes : CallOK(call'[r])
    BY <1>1, <2>1, StartWriteType, InitialStatusType DEF Circuits
  <2> QED
    BY <2>1, <2>2 DEF Record, DeliveryTypeOK, CallOK, CallRecord
<1> QED
  BY <1>2, <1>3

LEMMA MemberType ==
    ASSUME NEW S, NEW s \in Seq(S), NEW i \in DOMAIN s
    PROVE  s[i] \in S
OBVIOUS

\* Changing the status of one document leaves the list a list of documents.
LEMMA UpdatedType ==
    ASSUME NEW K, NEW S, NEW docs \in Seq([key : K, status : S]), NEW i \in DOMAIN docs, NEW s \in S
    PROVE  /\ [docs EXCEPT ![i].status = s] \in Seq([key : K, status : S])
           /\ DOMAIN [docs EXCEPT ![i].status = s] = DOMAIN docs
           /\ [docs EXCEPT ![i].status = s][i] = [key |-> docs[i].key, status |-> s]
           /\ \A j \in DOMAIN docs \ {i} : [docs EXCEPT ![i].status = s][j] = docs[j]
<1> DEFINE D == [key : K, status : S]
           doc == [key |-> docs[i].key, status |-> s]
<1>0. docs[i] \in [key : K, status : S]
  BY MemberType
<1>1. docs[i] \in D /\ doc \in D
  BY <1>0
<1>2. [docs EXCEPT ![i].status = s] = [docs EXCEPT ![i] = doc]
  <2>1. [docs[i] EXCEPT !.status = s] = doc
    BY <1>1
  <2> QED
    BY <2>1
<1>3. docs \in Seq(D)
  OBVIOUS
<1> HIDE DEF D, doc
<1>4. /\ [docs EXCEPT ![i] = doc] \in Seq(D)
      /\ DOMAIN [docs EXCEPT ![i] = doc] = DOMAIN docs
      /\ [docs EXCEPT ![i] = doc][i] = doc
      /\ \A j \in DOMAIN docs \ {i} : [docs EXCEPT ![i] = doc][j] = docs[j]
  BY <1>1, <1>3
<1> QED
  BY <1>2, <1>4 DEF D, doc

LEMMA UpdateType ==
    ASSUME DeliveryTypeOK, NEW k \in Keys, NEW s \in Status,
           NEW c \in Circuits \ {"persist"}, Update(k, s, c)
    PROVE  DeliveryTypeOK'
<1>1. <<k>> \in Seq(Keys) /\ <<k>> # <<>>
  OBVIOUS
<1>2. Loop \in Processes
  BY DEF Processes
<1>3. /\ call' \in [Processes -> CallRecord]
      /\ \A r \in Processes : CallOK(call'[r])
  BY <1>1, <1>2, StartWriteType DEF Update
<1>4. PICK i \in DOMAIN outbox : outbox' = [outbox EXCEPT ![i].status = s]
  BY DEF Update
<1>5. outbox' \in Seq([key : Keys, status : Status])
  BY <1>4, UpdatedType DEF DeliveryTypeOK
<1>6. UNCHANGED <<file, lost, answered, circuit, lives>> /\ calls' = calls + 1
  BY DEF Update
<1> QED
  BY <1>3, <1>5, <1>6 DEF DeliveryTypeOK, CallOK, CallRecord

LEMMA PersistType ==
    ASSUME DeliveryTypeOK, NEW p \in Processes, Persist(p)
    PROVE  DeliveryTypeOK'
<1> DEFINE next == [call[p] EXCEPT !.stage = "written"]
<1>1. Head(call[p].todo) \in Keys /\ call[p].status \in Status
  BY WorksOnKey DEF Persist
<1>2. CallOK(next)
  BY TypeByCall DEF Persist, CallOK, CallRecord
<1>3. call' = [call EXCEPT ![p] = next]
  BY DEF Persist
<1>4. /\ call' \in [Processes -> CallRecord]
      /\ \A r \in Processes : CallOK(call'[r])
  BY <1>2, <1>3, OneCall
<1>5. file' \in [Keys \X Status -> Nat]
  BY <1>1 DEF Persist, DeliveryTypeOK
<1> QED
  BY <1>4, <1>5 DEF Persist, DeliveryTypeOK, CallOK, CallRecord

LEMMA HearSuccessType ==
    ASSUME DeliveryTypeOK, NEW p \in Processes, HearSuccess(p)
    PROVE  DeliveryTypeOK'
<1>1. call[p].circuit \in Circuits
  BY WorksOnKey DEF HearSuccess
<1>2. /\ call' \in [Processes -> CallRecord]
      /\ \A r \in Processes : CallOK(call'[r])
  BY SettleType DEF HearSuccess
<1>3. circuit' \in [Circuits -> Circuit]
  BY <1>1, CircuitTypes DEF HearSuccess
<1> QED
  BY <1>2, <1>3 DEF HearSuccess, DeliveryTypeOK, CallOK, CallRecord

LEMMA FailWriteType ==
    ASSUME DeliveryTypeOK, NEW p \in Processes, FailWrite(p)
    PROVE  DeliveryTypeOK'
<1>1. Head(call[p].todo) \in Keys /\ call[p].status \in Status /\ call[p].circuit \in Circuits
  BY WorksOnKey DEF FailWrite
<1>2. circuit' \in [Circuits -> Circuit]
  BY <1>1, CircuitTypes DEF FailWrite, HearFailure, DeliveryTypeOK
<1>3. CASE call[p].direct \/ call[p].tries + 1 >= Attempts
  <2>1. /\ call' \in [Processes -> CallRecord]
        /\ \A r \in Processes : CallOK(call'[r])
    BY <1>3, SettleType DEF FailWrite
  <2>2. lost' \subseteq Keys \X Status
    BY <1>1, <1>3 DEF FailWrite, DeliveryTypeOK
  <2> QED
    BY <1>2, <2>1, <2>2 DEF FailWrite, DeliveryTypeOK, CallOK, CallRecord
<1>4. CASE ~(call[p].direct \/ call[p].tries + 1 >= Attempts)
  <2> DEFINE next == [call[p] EXCEPT !.tries = call[p].tries + 1]
  <2>0. CallOK(call[p]) /\ call[p].tries + 1 \in 0..Attempts
    BY <1>4, TypeByCall, DeliveryAssumption DEF CallOK, CallRecord
  <2>1. CallOK(next)
    BY <2>0 DEF CallOK, CallRecord
  <2>2. call' = [call EXCEPT ![p] = next]
    BY <1>4, TypeByCall DEF FailWrite, CallRecord
  <2>3. /\ call' \in [Processes -> CallRecord]
        /\ \A r \in Processes : CallOK(call'[r])
    BY <2>1, <2>2, OneCall
  <2> QED
    BY <1>2, <1>4, <2>3 DEF FailWrite, DeliveryTypeOK, CallOK, CallRecord
<1> QED
  BY <1>3, <1>4

LEMMA ListStepType ==
    ASSUME DeliveryTypeOK, NEW p \in Processes, List(p)
    PROVE  /\ DeliveryTypeOK'
           /\ \A i \in DOMAIN outbox' :
                 \/ outbox'[i] = [key |-> Head(call[p].todo), status |-> call[p].status]
                 \/ \E j \in DOMAIN outbox : outbox'[i] = outbox[j]
<1> DEFINE doc   == [key |-> Head(call[p].todo), status |-> call[p].status]
           grown == <<doc>> \o outbox
           kept  == SubSeq(grown, 1, IF Len(grown) > OutboxCap THEN OutboxCap ELSE Len(grown))
           D     == [key : Keys, status : Status]
<1>1. doc \in D
  BY WorksOnKey DEF List
<1>2. outbox \in Seq(D) /\ OutboxCap \in Nat \ {0}
  BY DeliveryAssumption DEF DeliveryTypeOK
<1>3. outbox' = kept
      /\ lives' = [k \in Keys |-> lives[k] + IF k \in Forgotten(grown, kept) THEN 1 ELSE 0]
  BY DEF List
<1> HIDE DEF doc, D
<1>4. /\ kept \in Seq(D)
      /\ \A i \in DOMAIN kept : kept[i] = doc \/ \E j \in DOMAIN outbox : kept[i] = outbox[j]
  BY <1>1, <1>2, ListType
<1>5. /\ call' \in [Processes -> CallRecord]
      /\ \A r \in Processes : CallOK(call'[r])
      /\ answered' \subseteq Requests
  BY ProceedType, TypeByCall DEF List, CallOK
<1> HIDE DEF grown, kept
<1>6. lives' \in [Keys -> Nat]
  BY <1>3 DEF DeliveryTypeOK
<1>7. DeliveryTypeOK'
  BY <1>3, <1>4, <1>5, <1>6 DEF D, List, DeliveryTypeOK, CallOK, CallRecord
<1> QED
  BY <1>3, <1>4, <1>7 DEF doc

LEMMA RestartType ==
    ASSUME DeliveryTypeOK, Restart
    PROVE  DeliveryTypeOK'
<1>1. /\ call' \in [Processes -> CallRecord]
      /\ \A r \in Processes : CallOK(call'[r])
  BY IdleOK DEF Restart, CallOK
<1>2. circuit' \in [Circuits -> Circuit]
  BY DeliveryAssumption DEF Restart, Fresh, Circuit
<1>3. lives' \in [Keys -> Nat]
  BY DEF Restart, DeliveryTypeOK
<1>4. outbox' \in Seq([key : Keys, status : Status])
  BY DEF Restart
<1> QED
  BY <1>1, <1>2, <1>3, <1>4 DEF Restart, DeliveryTypeOK, CallOK, CallRecord

LEMMA RecoverType ==
    ASSUME DeliveryTypeOK, NEW c \in Circuits, Recover(c)
    PROVE  DeliveryTypeOK'
<1>1. circuit' \in [Circuits -> Circuit]
  BY DEF Recover, Circuit, DeliveryTypeOK
<1> QED
  BY <1>1 DEF Recover, DeliveryTypeOK

\* An update is one of the event loop, to a status that is not initial.
UpdateStep ==
    \E k \in Keys, s \in Status \ Initials, c \in Circuits \ {"persist"} : Update(k, s, c)

LEMMA UpdateSteps ==
    ASSUME NEW k \in Keys,
           \/ AcknowledgeDispatch(k)
           \/ \E s \in {"approved_for_execution", "held_for_review"} : RecordApprovalDecision(k, s)
    PROVE  UpdateStep
BY DEF UpdateStep, AcknowledgeDispatch, RecordApprovalDecision, Status, Initials, Circuits

\* The kinds of steps every invariant is preserved by.
LEMMA NextSteps ==
    Next => \/ \E p \in Processes :
                  \/ \E q \in Requests : Deliver(p, q)
                  \/ Record(p) \/ Persist(p) \/ HearSuccess(p) \/ FailWrite(p) \/ List(p)
            \/ UpdateStep
            \/ \E c \in Circuits : Recover(c)
            \/ Restart
BY UpdateSteps DEF Next

LEMMA TypeStep == DeliveryTypeOK /\ [Next]_vars => DeliveryTypeOK'
<1> SUFFICES ASSUME DeliveryTypeOK, [Next]_vars PROVE DeliveryTypeOK'
  OBVIOUS
<1>1. CASE \E p \in Processes :
              \/ \E q \in Requests : Deliver(p, q)
              \/ Record(p) \/ Persist(p) \/ HearSuccess(p) \/ FailWrite(p) \/ List(p)
  BY <1>1, DeliverType, RecordType, PersistType, HearSuccessType, FailWriteType, ListStepType
<1>2. CASE UpdateStep
  BY <1>2, UpdateType DEF UpdateStep
<1>3. CASE \E c \in Circuits : Recover(c)
  BY <1>3, RecoverType
<1>4. CASE Restart
  BY <1>4, RestartType
<1>5. CASE UNCHANGED vars
  BY <1>5 DEF vars, DeliveryTypeOK
<1> QED
  BY <1>1, <1>2, <1>3, <1>4, <1>5, NextSteps

LEMMA InitType == Init => DeliveryTypeOK
<1> SUFFICES ASSUME Init PROVE DeliveryTypeOK
  OBVIOUS
<1>1. Fresh \in Circuit
  BY DeliveryAssumption DEF Fresh, Circuit
<1>2. /\ call \in [Processes -> CallRecord]
      /\ \A r \in Processes : CallOK(call[r])
  BY IdleOK DEF Init, CallOK
<1> QED
  BY <1>1, <1>2 DEF Init, DeliveryTypeOK, CallOK, CallRecord

\* The shape of the state of the Python outbox, for every instance: a call that
\* works on a dispatch has one to work on.
THEOREM TypeCorrect == Spec => []DeliveryTypeOK
BY InitType, TypeStep, PTL DEF Spec

-----------------------------------------------------------------------------
(* What is on file.                                                        *)

\* The row of k with status s was appended, or reported lost.
OnFile(k, s) == file[<<k, s>>] > 0 \/ <<k, s>> \in lost

\* A call has what it already did on file and the rest of its plan before it.
CallSound(p) ==
    /\ call[p].stage = "written" => file[<<Head(call[p].todo), call[p].status>>] > 0
    /\ call[p].stage = "list" => OnFile(Head(call[p].todo), call[p].status)
    /\ call[p].stage \in {"write", "written", "list"} /\ call[p].circuit = "persist"
          => call[p].status = InitialStatus(Head(call[p].todo))
    /\ call[p].stage # "idle" /\ call[p].circuit = "persist" =>
          \A i \in DOMAIN Orders(call[p].request) :
             \/ Answered(Orders(call[p].request)[i])
             \/ \E j \in DOMAIN call[p].todo : call[p].todo[j] = Orders(call[p].request)[i]

\* What the list remembers, and a duplicate is answered with, was created.
ListSound == \A i \in DOMAIN outbox : Answered(outbox[i].key)

PlansSound == \A q \in answered : \A i \in DOMAIN Orders(q) : Answered(Orders(q)[i])

DeliveryInv ==
    /\ DeliveryTypeOK
    /\ StatusIsOnFile
    /\ ListSound
    /\ PlansSound
    /\ \A p \in Processes : CallSound(p)

\* The file and the reports only grow.
LEMMA FileGrows ==
    ASSUME DeliveryTypeOK, [Next]_vars
    PROVE  /\ \A k \in Keys, s \in Status : file[<<k, s>>] > 0 => file'[<<k, s>>] > 0
           /\ \A k \in Keys, s \in Status : OnFile(k, s) => OnFile(k, s)'
           /\ \A k \in Keys : Answered(k) => Answered(k)'
<1>1. /\ \A x \in Keys \X Status : file'[x] >= file[x]
      /\ lost \subseteq lost'
  <2>0. \A x \in Keys \X Status : file[x] \in Nat
    BY DEF DeliveryTypeOK
  <2>1. CASE \E p \in Processes : Persist(p)
    <3>1. PICK p \in Processes : Persist(p)
      BY <2>1
    <3>2. \A x \in Keys \X Status : file'[x] \in {file[x], file[x] + 1}
      BY <3>1 DEF Persist, DeliveryTypeOK
    <3> QED
      BY <2>0, <3>1, <3>2 DEF Persist
  <2>2. CASE \E p \in Processes : FailWrite(p)
    BY <2>0, <2>2 DEF FailWrite
  <2>3. CASE UNCHANGED <<file, lost>>
    BY <2>0, <2>3
  <2> QED
    BY <2>1, <2>2, <2>3, NextSteps
    DEF Deliver, Record, HearSuccess, List, UpdateStep, Update, Recover, Restart, vars
<1>2. \A k \in Keys, s \in Status : file[<<k, s>>] \in Nat /\ file'[<<k, s>>] >= file[<<k, s>>]
  BY <1>1 DEF DeliveryTypeOK
<1>3. \A k \in Keys, s \in Status : file[<<k, s>>] > 0 => file'[<<k, s>>] > 0
  <2> SUFFICES ASSUME NEW k \in Keys, NEW s \in Status, file[<<k, s>>] > 0
               PROVE  file'[<<k, s>>] > 0
    OBVIOUS
  <2>1. file'[<<k, s>>] >= file[<<k, s>>] /\ file[<<k, s>>] \in Nat
    BY <1>2
  <2>2. file'[<<k, s>>] \in Nat
    BY TypeStep DEF DeliveryTypeOK
  <2> QED
    BY <2>1, <2>2
<1> QED
  BY <1>1, <1>3, InitialStatusType DEF OnFile, Answered, InitialStatus

\* A call that does not move stays sound.
LEMMA CallKept ==
    ASSUME DeliveryTypeOK, [Next]_vars, NEW r \in Processes, CallSound(r), call'[r] = call[r]
    PROVE  CallSound(r)'
<1>1. call[r].stage # "idle" => Head(call[r].todo) \in Keys /\ call[r].status \in Status
  BY WorksOnKey
<1>2. call[r].stage # "idle" /\ call[r].circuit = "persist" =>
        /\ call[r].request \in Requests
        /\ \A i \in DOMAIN Orders(call[r].request) : Orders(call[r].request)[i] \in Keys
  <2>1. call[r].stage # "idle" /\ call[r].circuit = "persist" => call[r].request \in Requests
    BY DEF DeliveryTypeOK
  <2> QED
    BY <2>1 DEF Keys
<1> QED
  BY <1>1, <1>2, FileGrows DEF CallSound

LEMMA DocumentType ==
    ASSUME DeliveryTypeOK, NEW i \in DOMAIN outbox
    PROVE  outbox[i].key \in Keys /\ outbox[i].status \in Status
<1>1. outbox[i] \in [key : Keys, status : Status]
  BY MemberType DEF DeliveryTypeOK
<1> QED
  BY <1>1

\* Nor do the list and the carried out plans lose what they rest on.
LEMMA RestKept ==
    ASSUME DeliveryInv, [Next]_vars
    PROVE  /\ outbox' = outbox => ListSound'
           /\ answered' = answered => PlansSound'
<1>1. \A i \in DOMAIN outbox : outbox[i].key \in Keys
  BY DocumentType DEF DeliveryInv
<1>2. \A q \in answered : \A i \in DOMAIN Orders(q) : Orders(q)[i] \in Keys
  BY DEF DeliveryInv, DeliveryTypeOK, Keys
<1> QED
  BY <1>1, <1>2, FileGrows DEF DeliveryInv, ListSound, PlansSound

LEMMA TailIs ==
    ASSUME NEW S, NEW s \in Seq(S), NEW j \in DOMAIN s
    PROVE  s[j] = Head(s) \/ (j - 1 \in DOMAIN Tail(s) /\ Tail(s)[j - 1] = s[j])
<1>1. CASE j = 1
  BY <1>1
<1>2. CASE j # 1
  <2>1. Len(s) \in Nat /\ j \in 2..Len(s) /\ s # <<>>
    BY <1>2
  <2>2. Len(Tail(s)) = Len(s) - 1 /\ Tail(s) \in Seq(S)
    BY <2>1
  <2>3. j - 1 \in 1..Len(Tail(s))
    BY <2>1, <2>2
  <2> QED
    BY <2>1, <2>2, <2>3
<1> QED
  BY <1>1, <1>2

\* A call whose dispatch is created goes on or answers soundly.
LEMMA ProceedSound ==
    ASSUME DeliveryInv, [Next]_vars, NEW p \in Processes,
           call[p].stage # "idle", call[p].circuit = "persist",
           NEW k, k = Head(call[p].todo), Answered(k)', Proceed(p)
    PROVE  CallSound(p)' /\ PlansSound'
<1> PICK q, todo : q = call[p].request /\ todo = call[p].todo
  OBVIOUS
<1> DEFINE rest == Tail(todo)
<1>0. DeliveryTypeOK
  BY DEF DeliveryInv
<1>1. todo \in Seq(Keys) /\ todo # <<>> /\ q \in Requests
  BY DEF DeliveryInv, DeliveryTypeOK
<1>2. \A i \in DOMAIN Orders(q) : Orders(q)[i] \in Keys
  BY <1>1 DEF Keys
<1>3. \A j \in DOMAIN todo : todo[j] = k \/ (j - 1 \in DOMAIN rest /\ rest[j - 1] = todo[j])
  BY <1>1, TailIs
<1>4. \A i \in DOMAIN Orders(q) :
         \/ Answered(Orders(q)[i])'
         \/ \E j \in DOMAIN rest : rest[j] = Orders(q)[i]
  <2> SUFFICES ASSUME NEW i \in DOMAIN Orders(q)
               PROVE  \/ Answered(Orders(q)[i])'
                      \/ \E j \in DOMAIN rest : rest[j] = Orders(q)[i]
    OBVIOUS
  <2>1. Answered(Orders(q)[i]) \/ \E j \in DOMAIN todo : todo[j] = Orders(q)[i]
    BY DEF DeliveryInv, CallSound
  <2> QED
    BY <1>0, <1>2, <1>3, <2>1, FileGrows
<1>5. CASE rest = <<>>
  <2>1. call'[p] = Idle /\ answered' = answered \cup {q}
    BY <1>5 DEF Proceed, DeliveryInv, DeliveryTypeOK
  <2>2. \A i \in DOMAIN Orders(q) : Answered(Orders(q)[i])'
    BY <1>4, <1>5
  <2>3. \A x \in answered : \A i \in DOMAIN Orders(x) : Answered(Orders(x)[i])'
    <3>1. \A x \in answered : \A i \in DOMAIN Orders(x) : Orders(x)[i] \in Keys
      BY DEF DeliveryInv, DeliveryTypeOK, Keys
    <3> QED
      BY <1>0, <3>1, FileGrows DEF DeliveryInv, PlansSound
  <2>4. CallSound(p)'
    BY <2>1 DEF CallSound, Idle
  <2> QED
    BY <2>1, <2>2, <2>3, <2>4 DEF PlansSound
<1>6. CASE rest # <<>>
  <2>1. /\ call'[p] = [Idle EXCEPT !.stage = "lookup", !.request = q, !.todo = rest]
        /\ answered' = answered
    BY <1>6 DEF Proceed, DeliveryInv, DeliveryTypeOK
  <2>2. call'[p].stage = "lookup" /\ call'[p].request = q /\ call'[p].todo = rest
    BY <2>1 DEF Idle
  <2>3. CallSound(p)'
    BY <1>4, <2>2 DEF CallSound
  <2> QED
    BY <2>1, <2>3, RestKept
<1> QED
  BY <1>5, <1>6

LEMMA DeliverSound ==
    ASSUME DeliveryInv, [Next]_vars, NEW p \in Processes, NEW q \in Requests, Deliver(p, q)
    PROVE  DeliveryInv'
<1>0. DeliveryTypeOK /\ DeliveryTypeOK'
  BY TypeStep DEF DeliveryInv
<1>1. call' = [call EXCEPT ![p] = [Idle EXCEPT !.stage = "lookup", !.request = q, !.todo = Orders(q)]]
  BY DEF Deliver
<1>2. call'[p].stage = "lookup" /\ call'[p].request = q /\ call'[p].todo = Orders(q)
  BY <1>0, <1>1 DEF DeliveryTypeOK, Idle
<1>3. CallSound(p)'
  BY <1>2 DEF CallSound
<1>4. \A r \in Processes \ {p} : call'[r] = call[r]
  BY <1>0, <1>1 DEF DeliveryTypeOK
<1>5. \A r \in Processes : CallSound(r)'
  BY <1>0, <1>3, <1>4, CallKept DEF DeliveryInv
<1>6. StatusIsOnFile'
  <2>1. call[p].stage # "write" /\ outbox' = outbox /\ file' = file /\ lost' = lost
    BY DEF Deliver
  <2> QED
    BY <2>1, <1>4 DEF DeliveryInv, StatusIsOnFile
<1> QED
  BY <1>0, <1>5, <1>6, RestKept DEF DeliveryInv, Deliver

LEMMA RecordSound ==
    ASSUME DeliveryInv, [Next]_vars, NEW p \in Processes, Record(p)
    PROVE  DeliveryInv'
<1>0. DeliveryTypeOK /\ DeliveryTypeOK'
  BY TypeStep DEF DeliveryInv
<1> PICK k : k = Head(call[p].todo)
  OBVIOUS
<1>1. /\ call[p].stage = "lookup" /\ call[p].circuit = "persist" /\ call[p].todo # <<>>
      /\ call[p].todo \in Seq(Keys) /\ k \in Keys
  BY <1>0, WorksOnKey DEF Record, DeliveryTypeOK
<1>2. UNCHANGED <<outbox, file, lost>>
  BY DEF Record
<1>3. \A r \in Processes \ {p} : call'[r] = call[r]
  BY <1>0 DEF Record, Proceed, StartWrite, DeliveryTypeOK
<1>4. StatusIsOnFile'
  BY <1>1, <1>2, <1>3 DEF DeliveryInv, StatusIsOnFile
<1>5. CallSound(p)' /\ PlansSound'
  <2>1. CASE Remembered(k)
    <3>1. Answered(k)
      BY <2>1 DEF Remembered, DeliveryInv, ListSound
    <3>2. Answered(k)'
      BY <1>0, <1>1, <3>1, FileGrows
    <3>3. Proceed(p)
      BY <2>1 DEF Record
    <3> QED
      BY <1>1, <3>2, <3>3, ProceedSound
  <2>2. CASE ~Remembered(k)
    <3>1. StartWrite(p, call[p].todo, InitialStatus(k), "persist") /\ answered' = answered
      BY <2>2 DEF Record
    <3>2. /\ call'[p].stage = "write" /\ call'[p].circuit = "persist"
          /\ call'[p].todo = call[p].todo /\ call'[p].request = call[p].request
          /\ call'[p].status = InitialStatus(k)
      BY <1>0, <3>1 DEF StartWrite, DeliveryTypeOK
    <3>3. PICK q : q = call[p].request
      OBVIOUS
    <3>4. \A i \in DOMAIN Orders(q) :
             \/ Answered(Orders(q)[i])'
             \/ \E j \in DOMAIN call[p].todo : call[p].todo[j] = Orders(q)[i]
      <4>1. q \in Requests /\ \A i \in DOMAIN Orders(q) : Orders(q)[i] \in Keys
        BY <1>0, <1>1, <3>3 DEF DeliveryTypeOK, Keys
      <4> QED
        BY <1>0, <1>1, <3>3, <4>1, FileGrows DEF DeliveryInv, CallSound
    <3>5. CallSound(p)'
      BY <3>2, <3>3, <3>4 DEF CallSound, InitialStatus
    <3> QED
      BY <3>1, <3>5, RestKept
  <2> QED
    BY <2>1, <2>2
<1>6. \A r \in Processes : CallSound(r)'
  BY <1>0, <1>3, <1>5, CallKept DEF DeliveryInv
<1> QED
  BY <1>0, <1>2, <1>4, <1>5, <1>6, RestKept DEF DeliveryInv

LEMMA UpdateSound ==
    ASSUME DeliveryInv, [Next]_vars, NEW k \in Keys, NEW s \in Status \ Initials,
           NEW c \in Circuits \ {"persist"}, Update(k, s, c)
    PROVE  DeliveryInv'
<1>0. DeliveryTypeOK /\ DeliveryTypeOK' /\ Loop \in Processes
  BY TypeStep DEF DeliveryInv, Processes
<1>1. PICK n \in DOMAIN outbox : IsNewest(n, k) /\ outbox' = [outbox EXCEPT ![n].status = s]
  BY DEF Update
<1>2. /\ DOMAIN outbox' = DOMAIN outbox
      /\ outbox'[n] = [key |-> k, status |-> s]
      /\ \A j \in DOMAIN outbox \ {n} : outbox'[j] = outbox[j]
  <2>1. outbox \in Seq([key : Keys, status : Status]) /\ outbox[n].key = k
    BY <1>0, <1>1 DEF DeliveryTypeOK, IsNewest
  <2> DEFINE changed == [outbox EXCEPT ![n].status = s]
  <2>2. /\ DOMAIN changed = DOMAIN outbox
        /\ changed[n] = [key |-> outbox[n].key, status |-> s]
        /\ \A j \in DOMAIN outbox \ {n} : changed[j] = outbox[j]
    BY <2>1, UpdatedType
  <2> QED
    BY <1>1, <2>1, <2>2
<1>3. UNCHANGED <<file, lost, answered>> /\ call[Loop].stage = "idle"
  BY DEF Update
<1>4. /\ call'[Loop].stage = "write" /\ call'[Loop].circuit = c
      /\ call'[Loop].todo = <<k>> /\ call'[Loop].status = s
      /\ \A r \in Processes \ {Loop} : call'[r] = call[r]
  BY <1>0 DEF Update, StartWrite, DeliveryTypeOK
<1>5. \A r \in Processes : CallSound(r)'
  <2>1. CallSound(Loop)'
    BY <1>4 DEF CallSound
  <2> QED
    BY <1>0, <1>4, <2>1, CallKept DEF DeliveryInv
<1>6. StatusIsOnFile'
  <2>1. \A i \in DOMAIN outbox : outbox'[i].key = outbox'[i].key /\ (i # n => outbox'[i] = outbox[i])
    BY <1>2
  <2>2. Head(call'[Loop].todo) = k
    BY <1>4
  <2> QED
    BY <1>0, <1>2, <1>3, <1>4, <2>2 DEF DeliveryInv, StatusIsOnFile
<1>7. ListSound'
  <2>1. \A i \in DOMAIN outbox : outbox'[i].key = outbox[i].key
    BY <1>1, <1>2 DEF IsNewest
  <2>2. \A x \in Keys : Answered(x) => Answered(x)'
    BY <1>0, FileGrows
  <2>3. \A i \in DOMAIN outbox : outbox[i].key \in Keys /\ Answered(outbox[i].key)
    BY <1>0, DocumentType DEF DeliveryInv, ListSound
  <2> QED
    BY <1>2, <2>1, <2>2, <2>3 DEF ListSound
<1> QED
  BY <1>0, <1>3, <1>5, <1>6, <1>7, RestKept DEF DeliveryInv

\* After a write, one way or the other, what was written is on file.
LEMMA SettleSound ==
    ASSUME DeliveryInv, [Next]_vars, NEW p \in Processes, call[p].stage \in {"write", "written"}, Settle(p),
           NEW k \in Keys, NEW s \in Status, k = Head(call[p].todo), s = call[p].status,
           OnFile(k, s)', outbox' = outbox, answered' = answered
    PROVE  DeliveryInv'
<1>0. DeliveryTypeOK /\ DeliveryTypeOK'
  BY TypeStep DEF DeliveryInv
<1>1. \A r \in Processes \ {p} : call'[r] = call[r]
  BY <1>0 DEF Settle, DeliveryTypeOK
<1>2. CallSound(p)'
  <2>1. CASE call[p].circuit = "persist"
    <3>1. /\ call'[p].stage = "list" /\ call'[p].circuit = "persist"
          /\ call'[p].todo = call[p].todo /\ call'[p].request = call[p].request
          /\ call'[p].status = call[p].status
      BY <1>0, <2>1 DEF Settle, DeliveryTypeOK
    <3>2. PICK q : q = call[p].request
      OBVIOUS
    <3>3. q \in Requests /\ \A i \in DOMAIN Orders(q) : Orders(q)[i] \in Keys
      BY <1>0, <2>1, <3>2 DEF DeliveryTypeOK, Keys
    <3>4. \A i \in DOMAIN Orders(q) :
             \/ Answered(Orders(q)[i])'
             \/ \E j \in DOMAIN call[p].todo : call[p].todo[j] = Orders(q)[i]
      BY <1>0, <2>1, <3>2, <3>3, FileGrows DEF DeliveryInv, CallSound
    <3>5. s = InitialStatus(k)
      BY <2>1 DEF DeliveryInv, CallSound
    <3>6. Head(call'[p].todo) = k /\ call'[p].status = s
      BY <3>1
    <3>7. OnFile(Head(call[p].todo), call[p].status)'
      BY <3>6 DEF OnFile
    <3> QED
      BY <3>1, <3>2, <3>4, <3>5, <3>6, <3>7 DEF CallSound, InitialStatus
  <2>2. CASE call[p].circuit # "persist"
    <3>1. call'[p] = Idle
      BY <1>0, <2>2 DEF Settle, DeliveryTypeOK
    <3> QED
      BY <3>1 DEF CallSound, Idle
  <2> QED
    BY <2>1, <2>2
<1>3. \A r \in Processes : CallSound(r)'
  BY <1>0, <1>1, <1>2, CallKept DEF DeliveryInv
<1>4. StatusIsOnFile'
  <2> SUFFICES ASSUME NEW i \in DOMAIN outbox, NEW x \in Keys, NEW y \in Status,
                      x = outbox[i].key, y = outbox[i].status
               PROVE  \/ OnFile(x, y)'
                      \/ \E r \in Processes :
                            call'[r].stage = "write" /\ Head(call'[r].todo) = x /\ call'[r].status = y
    BY <1>0, DocumentType DEF StatusIsOnFile, OnFile
  <2>1. \/ OnFile(x, y)
        \/ \E r \in Processes :
              call[r].stage = "write" /\ Head(call[r].todo) = x /\ call[r].status = y
    BY DEF DeliveryInv, StatusIsOnFile, OnFile
  <2>2. CASE OnFile(x, y)
    BY <1>0, <2>2, FileGrows
  <2>3. CASE x = k /\ y = s
    BY <2>3
  <2>4. CASE \E r \in Processes \ {p} :
               call[r].stage = "write" /\ Head(call[r].todo) = x /\ call[r].status = y
    BY <1>1, <2>4
  <2> QED
    BY <2>1, <2>2, <2>3, <2>4
<1> QED
  BY <1>0, <1>3, <1>4, RestKept DEF DeliveryInv

LEMMA PersistSound ==
    ASSUME DeliveryInv, [Next]_vars, NEW p \in Processes, Persist(p)
    PROVE  DeliveryInv'
<1>0. DeliveryTypeOK /\ DeliveryTypeOK' /\ call[p].stage = "write"
  BY TypeStep DEF DeliveryInv, Persist
<1>1. PICK k \in Keys, s \in Status : k = Head(call[p].todo) /\ s = call[p].status
  BY <1>0, WorksOnKey
<1>2. /\ file' = [file EXCEPT ![<<k, s>>] = file[<<k, s>>] + 1]
      /\ call' = [call EXCEPT ![p].stage = "written"]
      /\ UNCHANGED <<outbox, lost, answered>>
  BY <1>1 DEF Persist
<1>3. file'[<<k, s>>] > 0
  BY <1>0, <1>2 DEF DeliveryTypeOK
<1>4. \A r \in Processes \ {p} : call'[r] = call[r]
  BY <1>0, <1>2 DEF DeliveryTypeOK
<1>5. /\ call'[p].stage = "written" /\ call'[p].circuit = call[p].circuit
      /\ call'[p].todo = call[p].todo /\ call'[p].request = call[p].request
      /\ call'[p].status = call[p].status
  BY <1>0, <1>2 DEF DeliveryTypeOK
<1>6. CallSound(p)'
  <2>1. call[p].circuit = "persist" => s = InitialStatus(k)
    BY <1>0, <1>1 DEF DeliveryInv, CallSound
  <2>2. CASE call[p].circuit = "persist"
    <3>1. PICK q : q = call[p].request
      OBVIOUS
    <3>2. q \in Requests /\ \A i \in DOMAIN Orders(q) : Orders(q)[i] \in Keys
      BY <1>0, <2>2, <3>1 DEF DeliveryTypeOK, Keys
    <3>3. \A i \in DOMAIN Orders(q) :
             \/ Answered(Orders(q)[i])'
             \/ \E j \in DOMAIN call[p].todo : call[p].todo[j] = Orders(q)[i]
      BY <1>0, <2>2, <3>1, <3>2, FileGrows DEF DeliveryInv, CallSound
    <3> QED
      BY <1>1, <1>3, <1>5, <2>1, <2>2, <3>1, <3>3 DEF CallSound, InitialStatus
  <2>3. CASE call[p].circuit # "persist"
    BY <1>1, <1>3, <1>5, <2>3 DEF CallSound
  <2> QED
    BY <2>2, <2>3
<1>7. \A r \in Processes : CallSound(r)'
  BY <1>0, <1>4, <1>6, CallKept DEF DeliveryInv
<1>8. StatusIsOnFile'
  <2> SUFFICES ASSUME NEW i \in DOMAIN outbox, NEW x \in Keys, NEW y \in Status,
                      x = outbox[i].key, y = outbox[i].status
               PROVE  \/ OnFile(x, y)'
                      \/ \E r \in Processes :
                            call'[r].stage = "write" /\ Head(call'[r].todo) = x /\ call'[r].status = y
    BY <1>0, <1>2, DocumentType DEF StatusIsOnFile, OnFile
  <2>1. \/ OnFile(x, y)
        \/ \E r \in Processes :
              call[r].stage = "write" /\ Head(call[r].todo) = x /\ call[r].status = y
    BY DEF DeliveryInv, StatusIsOnFile, OnFile
  <2>2. CASE OnFile(x, y)
    BY <1>0, <2>2, FileGrows
  <2>3. CASE x = k /\ y = s
    BY <1>3, <2>3 DEF OnFile
  <2>4. CASE \E r \in Processes \ {p} :
               call[r].stage = "write" /\ Head(call[r].todo) = x /\ call[r].status = y
    BY <1>4, <2>4
  <2> QED
    BY <1>1, <2>1, <2>2, <2>3, <2>4
<1> QED
  BY <1>0, <1>2, <1>7, <1>8, RestKept DEF DeliveryInv

LEMMA HearSuccessSound ==
    ASSUME DeliveryInv, [Next]_vars, NEW p \in Processes, HearSuccess(p)
    PROVE  DeliveryInv'
<1>0. DeliveryTypeOK /\ call[p].stage = "written"
  BY DEF DeliveryInv, HearSuccess
<1>1. PICK k \in Keys, s \in Status : k = Head(call[p].todo) /\ s = call[p].status
  BY <1>0, WorksOnKey
<1>2. file[<<k, s>>] > 0 /\ UNCHANGED <<outbox, file, lost, answered>>
  BY <1>0, <1>1 DEF DeliveryInv, CallSound, HearSuccess
<1> QED
  BY <1>0, <1>1, <1>2, SettleSound DEF HearSuccess, OnFile

LEMMA FailWriteSound ==
    ASSUME DeliveryInv, [Next]_vars, NEW p \in Processes, FailWrite(p)
    PROVE  DeliveryInv'
<1>0. DeliveryTypeOK /\ DeliveryTypeOK' /\ call[p].stage = "write"
  BY TypeStep DEF DeliveryInv, FailWrite
<1>1. PICK k \in Keys, s \in Status : k = Head(call[p].todo) /\ s = call[p].status
  BY <1>0, WorksOnKey
<1>2. CASE call[p].direct \/ call[p].tries + 1 >= Attempts
  BY <1>0, <1>1, <1>2, SettleSound DEF FailWrite, OnFile
<1>3. CASE ~(call[p].direct \/ call[p].tries + 1 >= Attempts)
  <2>1. /\ UNCHANGED <<outbox, file, lost, answered>>
        /\ call' = [call EXCEPT ![p].tries = call[p].tries + 1]
    BY <1>3 DEF FailWrite
  <2>2. \A r \in Processes \ {p} : call'[r] = call[r]
    BY <1>0, <2>1 DEF DeliveryTypeOK
  <2>3. /\ call'[p].stage = call[p].stage /\ call'[p].circuit = call[p].circuit
        /\ call'[p].todo = call[p].todo /\ call'[p].request = call[p].request
        /\ call'[p].status = call[p].status
    BY <1>0, <2>1 DEF DeliveryTypeOK
  <2>4. StatusIsOnFile'
    BY <2>1, <2>2, <2>3 DEF DeliveryInv, StatusIsOnFile
  <2>5. CallSound(p)'
    BY <2>1, <2>3 DEF DeliveryInv, CallSound, InitialStatus, Answered, OnFile
  <2>6. \A r \in Processes : CallSound(r)'
    BY <1>0, <2>2, <2>5, CallKept DEF DeliveryInv
  <2> QED
    BY <1>0, <2>1, <2>4, <2>6, RestKept DEF DeliveryInv
<1> QED
  BY <1>2, <1>3

LEMMA ListStepSound ==
    ASSUME DeliveryInv, [Next]_vars, NEW p \in Processes, List(p)
    PROVE  DeliveryInv'
<1>0. DeliveryTypeOK /\ DeliveryTypeOK'
  BY TypeStep DEF DeliveryInv
<1>1. /\ call[p].stage = "list" /\ call[p].circuit = "persist" /\ Proceed(p)
      /\ UNCHANGED <<file, lost>>
  BY <1>0 DEF List, DeliveryTypeOK
<1>2. PICK k \in Keys, s \in Status : k = Head(call[p].todo) /\ s = call[p].status
  BY <1>0, <1>1, WorksOnKey
<1>3. \A i \in DOMAIN outbox' :
         \/ outbox'[i] = [key |-> k, status |-> s]
         \/ \E j \in DOMAIN outbox : outbox'[i] = outbox[j]
  BY <1>0, <1>2, ListStepType
<1>4. OnFile(k, s) /\ s = InitialStatus(k)
  BY <1>1, <1>2 DEF DeliveryInv, CallSound
<1>5. Answered(k)
  BY <1>4 DEF Answered, OnFile
<1>6. \A r \in Processes \ {p} : call'[r] = call[r]
  BY <1>0, <1>1 DEF Proceed, DeliveryTypeOK
<1>7. Answered(k)'
  BY <1>0, <1>5, FileGrows
<1>8. CallSound(p)' /\ PlansSound'
  BY <1>1, <1>2, <1>7, ProceedSound
<1>9. \A r \in Processes : CallSound(r)'
  BY <1>0, <1>6, <1>8, CallKept DEF DeliveryInv
<1>10. StatusIsOnFile'
  <2> SUFFICES ASSUME NEW i \in DOMAIN outbox', NEW x, NEW y,
                      x = outbox'[i].key, y = outbox'[i].status
               PROVE  \/ OnFile(x, y)
                      \/ \E r \in Processes :
                            call'[r].stage = "write" /\ Head(call'[r].todo) = x /\ call'[r].status = y
    BY <1>1 DEF StatusIsOnFile, OnFile
  <2>1. CASE outbox'[i] = [key |-> k, status |-> s]
    BY <1>4, <2>1
  <2>2. CASE \E j \in DOMAIN outbox : outbox'[i] = outbox[j]
    BY <1>1, <1>6, <2>2 DEF DeliveryInv, StatusIsOnFile, OnFile
  <2> QED
    BY <1>3, <2>1, <2>2
<1>11. ListSound'
  <2> SUFFICES ASSUME NEW i \in DOMAIN outbox', NEW x, x = outbox'[i].key
               PROVE  Answered(x)
    BY <1>1 DEF ListSound, Answered, InitialStatus
  <2> QED
    BY <1>3, <1>5 DEF DeliveryInv, ListSound
<1> QED
  BY <1>0, <1>8, <1>9, <1>10, <1>11 DEF DeliveryInv

LEMMA RecoverSound ==
    ASSUME DeliveryInv, [Next]_vars, NEW c \in Circuits, Recover(c)
    PROVE  DeliveryInv'
<1>1. DeliveryTypeOK /\ DeliveryTypeOK' /\ UNCHANGED <<outbox, file, lost, answered, call>>
  BY TypeStep DEF DeliveryInv, Recover
<1>2. \A r \in Processes : CallSound(r)'
  BY <1>1, CallKept DEF DeliveryInv
<1>3. StatusIsOnFile'
  BY <1>1 DEF DeliveryInv, StatusIsOnFile
<1> QED
  BY <1>1, <1>2, <1>3, RestKept DEF DeliveryInv

LEMMA RestartSound ==
    ASSUME DeliveryInv, [Next]_vars, Restart
    PROVE  DeliveryInv'
<1>1. DeliveryTypeOK /\ DeliveryTypeOK' /\ UNCHANGED <<file, lost, answered>> /\ outbox' = <<>>
  BY TypeStep DEF DeliveryInv, Restart
<1>2. \A r \in Processes : CallSound(r)'
  BY DEF Restart, CallSound, Idle
<1>3. StatusIsOnFile' /\ ListSound'
  BY <1>1 DEF StatusIsOnFile, ListSound
<1> QED
  BY <1>1, <1>2, <1>3, RestKept DEF DeliveryInv

LEMMA StutterSound ==
    ASSUME DeliveryInv, UNCHANGED vars
    PROVE  DeliveryInv'
<1>1. [Next]_vars /\ UNCHANGED <<outbox, file, lost, answered, call>>
  BY DEF vars
<1>2. DeliveryTypeOK /\ DeliveryTypeOK'
  BY <1>1, TypeStep DEF DeliveryInv
<1>3. \A r \in Processes : CallSound(r)'
  BY <1>1, <1>2, CallKept DEF DeliveryInv
<1>4. StatusIsOnFile'
  BY <1>1 DEF DeliveryInv, StatusIsOnFile
<1> QED
  BY <1>1, <1>2, <1>3, <1>4, RestKept DEF DeliveryInv

\* The inductive invariant: list, file, reports and calls fit together.
THEOREM DeliveryInvariant == Spec => []DeliveryInv
<1>1. Init => DeliveryInv
  <2> SUFFICES ASSUME Init PROVE DeliveryInv
    OBVIOUS
  <2>1. DeliveryTypeOK
    BY InitType
  <2>2. \A p \in Processes : CallSound(p)
    BY DEF Init, CallSound, Idle
  <2> QED
    BY <2>1, <2>2 DEF Init, DeliveryInv, StatusIsOnFile, ListSound, PlansSound
<1>2. DeliveryInv /\ [Next]_vars => DeliveryInv'
  <2> SUFFICES ASSUME DeliveryInv, [Next]_vars PROVE DeliveryInv'
    OBVIOUS
  <2>1. CASE \E p \in Processes :
                \/ \E q \in Requests : Deliver(p, q)
                \/ Record(p) \/ Persist(p) \/ HearSuccess(p) \/ FailWrite(p) \/ List(p)
    BY <2>1, DeliverSound, RecordSound, PersistSound, HearSuccessSound, FailWriteSound, ListStepSound
  <2>2. CASE UpdateStep
    BY <2>2, UpdateSound DEF UpdateStep
  <2>3. CASE \E c \in Circuits : Recover(c)
    BY <2>3, RecoverSound
  <2>4. CASE Restart
    BY <2>4, RestartSound
  <2>5. CASE UNCHANGED vars
    BY <2>5, StutterSound
  <2> QED
    BY <2>1, <2>2, <2>3, <2>4, <2>5, NextSteps
<1> QED
  BY <1>1, <1>2, PTL DEF Spec

\* Nothing the list shows is missing from the file unless the answer said so,
\* for any number of threads, list length and circuit setting.
THEOREM ListedStatusesAreOnFile == Spec => []StatusIsOnFile
BY DeliveryInvariant, PTL DEF DeliveryInv

\* An answered decision has put every dispatch of its plan on file or reported it
\* lost: neither a duplicate answered from the list, nor an open circuit, nor a
\* list that overflows meanwhile makes a call skip one silently.
THEOREM AnsweredPlansAreCarriedOut == Spec => []PlansSound
BY DeliveryInvariant, PTL DEF DeliveryInv

\* An answered decision for medical help, accessibility support or security has
\* put a task for that role on file or reported it lost: every plan for such an
\* action contains the task, and what the list lets a call skip was created.
THEOREM CriticalActionsAreStaffed == Spec => []CriticalActionIsStaffed
<1>1. DeliveryInv => CriticalActionIsStaffed
  <2> SUFFICES ASSUME DeliveryInv, NEW q \in answered, NEW role \in CriticalRoles,
                      q.pair = ActionOf[role]
               PROVE  \E k \in Keys :
                         /\ k.decision = q.decision
                         /\ k.dispatch.channel = "worker_device"
                         /\ k.dispatch.what = role
                         /\ Answered(k)
    BY DEF CriticalActionIsStaffed
  <2> DEFINE plan == DeliveryPlan(q.scenario, q.pair, q.mix)
  <2>1. q \in Requests /\ q \in Request
    BY DeliveryAssumption DEF DeliveryInv, DeliveryTypeOK
  <2>2. PICK by \in {"mix", "script"} : Sends(plan, Worker(role, by))
    BY <2>1, PlanSends DEF Request
  <2>3. PICK i \in DOMAIN plan : plan[i] = Worker(role, by)
    BY <2>2 DEF Sends
  <2>4. /\ i \in DOMAIN Orders(q)
        /\ Orders(q)[i] = [decision |-> q.decision, dispatch |-> Worker(role, by)]
    BY <2>1, <2>3, OrdersType
  <2>5. Answered(Orders(q)[i])
    BY <2>4 DEF DeliveryInv, PlansSound
  <2>6. Orders(q)[i] \in Keys
    BY <2>1, <2>4 DEF Keys
  <2> QED
    BY <2>4, <2>5, <2>6 DEF Worker
<1> QED
  BY <1>1, DeliveryInvariant, PTL

\* A circuit that is open or half open closes only at the hand of a call on it
\* that has its row on file, or by a restart; a write that goes past an open
\* circuit and fails does not close it, whatever the other threads count on it.
THEOREM CircuitsCloseOnSuccess == Spec => ClosesOnlyOnSuccess
<1>1. DeliveryInv /\ [Next]_vars =>
        [\A c \in Circuits :
            circuit[c].state # "closed" /\ circuit'[c].state = "closed" =>
               \/ \E p \in Processes :
                     /\ call[p].circuit = c /\ call'[p] # call[p]
                     /\ file[<<Head(call[p].todo), call[p].status>>] > 0
               \/ \A k \in Keys : lives'[k] = lives[k] + 1]_vars
  <2> SUFFICES ASSUME DeliveryInv, Next, NEW c \in Circuits,
                      circuit[c].state # "closed", circuit'[c].state = "closed"
               PROVE  \/ \E p \in Processes :
                            /\ call[p].circuit = c /\ call'[p] # call[p]
                            /\ file[<<Head(call[p].todo), call[p].status>>] > 0
                      \/ \A k \in Keys : lives'[k] = lives[k] + 1
    OBVIOUS
  <2>0. DeliveryTypeOK
    BY DEF DeliveryInv
  <2>1. CASE \E p \in Processes : HearSuccess(p)
    <3>1. PICK p \in Processes : HearSuccess(p)
      BY <2>1
    <3>2. PICK d \in Circuits : d = call[p].circuit
      BY <2>0, <3>1, WorksOnKey DEF HearSuccess
    <3>3. c = d
      BY <2>0, <3>1, <3>2 DEF HearSuccess, RecordSuccess, DeliveryTypeOK
    <3>4. file[<<Head(call[p].todo), call[p].status>>] > 0
      BY <3>1 DEF HearSuccess, DeliveryInv, CallSound
    <3>5. call'[p].stage \in {"idle", "list"} /\ call[p].stage = "written"
      BY <2>0, <3>1 DEF HearSuccess, Settle, Idle, DeliveryTypeOK
    <3> QED
      BY <3>2, <3>3, <3>4, <3>5
  <2>2. CASE \E p \in Processes : FailWrite(p)
    <3>1. PICK p \in Processes : FailWrite(p)
      BY <2>2
    <3>2. PICK d \in Circuits : d = call[p].circuit
      BY <2>0, <3>1, WorksOnKey DEF FailWrite
    <3>3. circuit' = circuit \/ RecordFailure(d)
      BY <3>1, <3>2 DEF FailWrite, HearFailure
    <3>4. circuit \in [Circuits -> Circuit] /\ circuit[c] \in Circuit /\ circuit[d] \in Circuit
      BY <2>0 DEF DeliveryTypeOK
    <3>5. RecordFailure(d) => circuit'[c].state \in {"open", circuit[c].state}
      BY <3>4 DEF RecordFailure, Circuit
    <3> QED
      BY <3>3, <3>5
  <2>3. CASE \E d \in Circuits : Recover(d)
    BY <2>0, <2>3 DEF Recover, DeliveryTypeOK
  <2>4. CASE Restart
    BY <2>4 DEF Restart
  <2>5. CASE UNCHANGED circuit
    BY <2>5
  <2> QED
    BY <2>1, <2>2, <2>3, <2>4, <2>5, NextSteps
    DEF Deliver, Record, Persist, List, UpdateStep, Update
<1> QED
  BY <1>1, DeliveryInvariant, PTL DEF Spec, ClosesOnlyOnSuccess
-----------------------------------------------------------------------------
(* How often a dispatch is created.  Between two losses of a key the list  *)
(* lets every process begin one creation of it: whoever begins one still   *)
(* finds the key missing, so no process has listed it yet.                 *)

Creating(k) == {p \in Processes : /\ call[p].stage = "write" /\ call[p].circuit = "persist"
                                  /\ Head(call[p].todo) = k}

Listing(k) == {p \in Processes : /\ \/ call[p].stage = "list"
                                    \/ call[p].stage = "written" /\ call[p].circuit = "persist"
                                 /\ Head(call[p].todo) = k}

Created(k) == file[<<k, InitialStatus(k)>>]

Share(n) == Cardinality(Processes) * n

CountOK(k) ==
    /\ Created(k) + Cardinality(Creating(k)) <= Share(1 + lives[k])
    /\ ~Remembered(k) => Created(k) <= Share(lives[k]) + Cardinality(Listing(k))

CreationInv ==
    /\ \A k \in Keys : CountOK(k)
    /\ \A p \in Processes :
          call[p].stage = "write" /\ call[p].circuit # "persist" => call[p].status \notin Initials

LEMMA ProcessesFinite ==
    ASSUME IsFiniteSet(Workers)
    PROVE  IsFiniteSet(Processes) /\ Cardinality(Processes) \in Nat
<1>1. IsFiniteSet(Processes)
  BY FS_AddElement DEF Processes
<1> QED
  BY <1>1, FS_CardinalityType

LEMMA ShareType ==
    ASSUME IsFiniteSet(Workers), NEW n \in Nat
    PROVE  /\ Share(n) \in Nat
           /\ Share(1 + n) = Share(n) + Cardinality(Processes)
           /\ Share(n + 1) = Share(n) + Cardinality(Processes)
<1>1. PICK c \in Nat : c = Cardinality(Processes)
  BY ProcessesFinite
<1>2. c * n \in Nat /\ c * (1 + n) = c * n + c /\ c * (n + 1) = c * n + c
  OBVIOUS
<1> QED
  BY <1>1, <1>2 DEF Share

LEMMA CountTypes ==
    ASSUME DeliveryTypeOK, IsFiniteSet(Workers), NEW k \in Keys
    PROVE  /\ IsFiniteSet(Creating(k)) /\ Cardinality(Creating(k)) \in Nat
           /\ IsFiniteSet(Listing(k)) /\ Cardinality(Listing(k)) \in Nat
           /\ Created(k) \in Nat /\ lives[k] \in Nat
<1>1. Creating(k) \subseteq Processes /\ Listing(k) \subseteq Processes
  BY DEF Creating, Listing
<1>2. <<k, InitialStatus(k)>> \in Keys \X Status
  BY InitialStatusType
<1> QED
  BY <1>1, <1>2, ProcessesFinite, FS_Subset, FS_CardinalityType DEF DeliveryTypeOK, Created

\* A step that creates nothing, forgets nothing and begins no creation of k.
LEMMA CountKept ==
    ASSUME DeliveryTypeOK, DeliveryTypeOK', IsFiniteSet(Workers), NEW k \in Keys, CountOK(k),
           Created(k)' = Created(k), lives'[k] = lives[k], Creating(k)' \subseteq Creating(k),
           Remembered(k)' \/ (~Remembered(k) /\ Listing(k) \subseteq Listing(k)')
    PROVE  CountOK(k)'
<1> PICK w, l, n : w = Creating(k)' /\ l = Listing(k)' /\ n = Cardinality(Processes)
  OBVIOUS
<1>1. l \subseteq Processes /\ w \subseteq Creating(k)
  BY DEF Listing
<1>2. IsFiniteSet(l) /\ Cardinality(l) \in Nat
  BY <1>1, ProcessesFinite, FS_Subset, FS_CardinalityType
<1>3. Cardinality(w) \in Nat /\ Cardinality(w) <= Cardinality(Creating(k))
  BY <1>1, CountTypes, FS_Subset, FS_CardinalityType
<1>4. Listing(k) \subseteq l => Cardinality(Listing(k)) <= Cardinality(l)
  BY <1>2, FS_Subset
<1>5. Share(1 + lives[k]) \in Nat /\ Share(lives[k]) \in Nat
  BY CountTypes, ShareType
<1>6. Created(k)' + Cardinality(Creating(k)') <= Share(1 + lives'[k])
  BY <1>3, <1>5, CountTypes DEF CountOK
<1>7. ~Remembered(k)' => Created(k)' <= Share(lives'[k]) + Cardinality(Listing(k)')
  BY <1>2, <1>4, <1>5, CountTypes DEF CountOK
<1> QED
  BY <1>6, <1>7 DEF CountOK, Share

\* A key that is lost while nobody begins a creation of it.
LEMMA CountForgotten ==
    ASSUME DeliveryTypeOK, DeliveryTypeOK', IsFiniteSet(Workers), NEW k \in Keys, CountOK(k),
           Created(k)' = Created(k), lives'[k] = lives[k] + 1, Creating(k)' \subseteq Creating(k)
    PROVE  CountOK(k)'
<1> PICK w, l : w = Creating(k)' /\ l = Listing(k)'
  OBVIOUS
<1>1. l \subseteq Processes /\ w \subseteq Creating(k)
  BY DEF Listing
<1>2. Cardinality(l) \in Nat
  BY <1>1, ProcessesFinite, FS_Subset, FS_CardinalityType
<1>3. Cardinality(w) \in Nat /\ Cardinality(w) <= Cardinality(Creating(k))
  BY <1>1, CountTypes, FS_Subset, FS_CardinalityType
<1>4. lives[k] \in Nat /\ lives'[k] = 1 + lives[k]
  BY CountTypes
<1>5. /\ Share(1 + lives[k]) \in Nat
      /\ Share(1 + (1 + lives[k])) = Share(1 + lives[k]) + Cardinality(Processes)
      /\ Cardinality(Processes) \in Nat
  BY <1>4, ShareType, ProcessesFinite
<1>6. Created(k)' + Cardinality(Creating(k)') <= Share(1 + lives'[k])
  BY <1>3, <1>4, <1>5, CountTypes DEF CountOK
<1>7. Created(k)' <= Share(lives'[k]) + Cardinality(Listing(k)')
  BY <1>2, <1>4, <1>5, CountTypes DEF CountOK
<1> QED
  BY <1>6, <1>7 DEF CountOK, Share

\* Whoever begins a creation is neither creating nor listing the key, and those
\* who list it account for what was created since it was lost.
LEMMA CountBegins ==
    ASSUME DeliveryTypeOK, IsFiniteSet(Workers), NEW k \in Keys, CountOK(k), ~Remembered(k),
           NEW p \in Processes, call[p].stage = "lookup",
           UNCHANGED <<outbox, file, lives>>,
           Creating(k)' = Creating(k) \cup {p}, Listing(k)' = Listing(k)
    PROVE  CountOK(k)'
<1>1. IsFiniteSet(Processes) /\ Cardinality(Processes) \in Nat
  BY ProcessesFinite
<1>2. p \notin Creating(k) /\ p \notin Listing(k) /\ Creating(k) \cap Listing(k) = {}
  BY DEF Creating, Listing
<1>3. Cardinality(Creating(k) \cup {p}) = Cardinality(Creating(k)) + 1
  BY <1>2, CountTypes, FS_AddElement
<1>4. Cardinality(Creating(k)) + 1 + Cardinality(Listing(k)) <= Cardinality(Processes)
  <2> DEFINE all == (Creating(k) \cup {p}) \cup Listing(k)
  <2>1. IsFiniteSet(Creating(k) \cup {p}) /\ (Creating(k) \cup {p}) \cap Listing(k) = {}
    BY <1>2, CountTypes, FS_AddElement
  <2>2. Cardinality(all) = Cardinality(Creating(k) \cup {p}) + Cardinality(Listing(k))
    <3>1. PICK a, b : a = Creating(k) \cup {p} /\ b = Listing(k)
      OBVIOUS
    <3>2. IsFiniteSet(a) /\ IsFiniteSet(b) /\ a \cap b = {}
      BY <2>1, <3>1, CountTypes
    <3>3. Cardinality(a) \in Nat /\ Cardinality(b) \in Nat /\ Cardinality(a \cap b) = 0
      BY <3>2, FS_CardinalityType, FS_EmptySet
    <3>4. Cardinality(a \cup b) = Cardinality(a) + Cardinality(b) - Cardinality(a \cap b)
      BY <3>2, FS_Union
    <3> QED
      BY <3>1, <3>3, <3>4
  <2>3. all \subseteq Processes
    BY DEF Creating, Listing
  <2>4. Cardinality(all) <= Cardinality(Processes)
    BY <1>1, <2>3, FS_Subset
  <2> QED
    BY <1>3, <2>2, <2>4
<1>5. /\ Created(k) <= Share(lives[k]) + Cardinality(Listing(k))
      /\ Share(lives[k]) \in Nat
      /\ Share(1 + lives[k]) = Share(lives[k]) + Cardinality(Processes)
  BY CountTypes, ShareType DEF CountOK
<1>6. Created(k) + Cardinality(Creating(k) \cup {p}) <= Share(1 + lives[k])
  BY <1>1, <1>3, <1>4, <1>5, CountTypes
<1>7. Created(k)' = Created(k) /\ lives'[k] = lives[k]
  BY DEF Created, InitialStatus
<1>8. Created(k)' + Cardinality(Creating(k)') <= Share(1 + lives'[k])
  BY <1>6, <1>7
<1>9. ~Remembered(k)' => Created(k)' <= Share(lives'[k]) + Cardinality(Listing(k)')
  BY <1>5, <1>7
<1> QED
  BY <1>8, <1>9 DEF CountOK, Share

\* An appended creation is still to be listed.
LEMMA CountAppended ==
    ASSUME DeliveryTypeOK, IsFiniteSet(Workers), NEW k \in Keys, CountOK(k),
           NEW p \in Processes, p \in Creating(k), p \notin Listing(k),
           UNCHANGED <<outbox, lives>>, Created(k)' = Created(k) + 1,
           Creating(k)' = Creating(k) \ {p}, Listing(k)' = Listing(k) \cup {p}
    PROVE  CountOK(k)'
<1>1. Cardinality(Creating(k) \ {p}) = Cardinality(Creating(k)) - 1
  BY CountTypes, FS_RemoveElement
<1>2. Cardinality(Listing(k) \cup {p}) = Cardinality(Listing(k)) + 1
  BY CountTypes, FS_AddElement
<1>3. Share(1 + lives[k]) \in Nat /\ Share(lives[k]) \in Nat
  BY CountTypes, ShareType
<1>4. Created(k)' + Cardinality(Creating(k)') <= Share(1 + lives'[k])
  BY <1>1, <1>3, CountTypes DEF CountOK
<1>5. ~Remembered(k)' => Created(k)' <= Share(lives'[k]) + Cardinality(Listing(k)')
  <2>1. Remembered(k)' <=> Remembered(k)
    BY DEF Remembered
  <2> QED
    BY <1>2, <1>3, <2>1, CountTypes DEF CountOK
<1> QED
  BY <1>4, <1>5 DEF CountOK, Share

LEMMA ProceedMoves ==
    ASSUME DeliveryTypeOK, NEW p \in Processes, Proceed(p)
    PROVE  /\ call'[p].stage \in {"idle", "lookup"}
           /\ \A r \in Processes \ {p} : call'[r] = call[r]
<1>1. CASE Tail(call[p].todo) = <<>>
  <2>1. call' = [call EXCEPT ![p] = Idle]
    BY <1>1 DEF Proceed
  <2> QED
    BY <2>1 DEF Idle, DeliveryTypeOK
<1>2. CASE Tail(call[p].todo) # <<>>
  <2> DEFINE next == [Idle EXCEPT !.stage = "lookup", !.request = call[p].request,
                                  !.todo = Tail(call[p].todo)]
  <2>1. call' = [call EXCEPT ![p] = next]
    BY <1>2 DEF Proceed
  <2>2. next.stage = "lookup"
    BY DEF Idle
  <2> HIDE DEF next
  <2> QED
    BY <2>1, <2>2 DEF DeliveryTypeOK
<1> QED
  BY <1>1, <1>2

LEMMA CountDeliver ==
    ASSUME DeliveryTypeOK, DeliveryTypeOK', CreationInv, IsFiniteSet(Workers),
           NEW p \in Processes, NEW q \in Requests, Deliver(p, q)
    PROVE  CreationInv'
<1>1. /\ call[p].stage = "idle" /\ call'[p].stage = "lookup"
      /\ \A r \in Processes \ {p} : call'[r] = call[r]
      /\ UNCHANGED <<outbox, file, lives>>
  BY DEF Deliver, DeliveryTypeOK, Idle
<1>2. ASSUME NEW k \in Keys
      PROVE  CountOK(k)'
  <2>1. Creating(k)' \subseteq Creating(k) /\ Listing(k) \subseteq Listing(k)'
    BY <1>1 DEF Creating, Listing
  <2>2. Created(k)' = Created(k) /\ (Remembered(k)' <=> Remembered(k))
    BY <1>1 DEF Created, InitialStatus, Remembered
  <2> QED
    BY <1>1, <2>1, <2>2, CountKept DEF CreationInv
<1>3. \A r \in Processes :
         call'[r].stage = "write" /\ call'[r].circuit # "persist" => call'[r].status \notin Initials
  BY <1>1 DEF CreationInv
<1> QED
  BY <1>2, <1>3 DEF CreationInv

LEMMA CountRecord ==
    ASSUME DeliveryTypeOK, DeliveryTypeOK', CreationInv, IsFiniteSet(Workers),
           NEW p \in Processes, Record(p)
    PROVE  CreationInv'
<1> PICK key : key = Head(call[p].todo)
  OBVIOUS
<1>1. /\ call[p].stage = "lookup" /\ UNCHANGED <<outbox, file, lives>>
      /\ \A r \in Processes \ {p} : call'[r] = call[r]
  BY DEF Record, Proceed, StartWrite, DeliveryTypeOK
<1>2. ASSUME NEW k \in Keys
      PROVE  Created(k)' = Created(k) /\ (Remembered(k)' <=> Remembered(k))
  BY <1>1 DEF Created, InitialStatus, Remembered
<1>3. CASE Remembered(key)
  <2>1. call'[p].stage \in {"idle", "lookup"}
    BY <1>3, ProceedMoves DEF Record
  <2>2. ASSUME NEW k \in Keys
        PROVE  CountOK(k)'
    <3>1. Creating(k)' \subseteq Creating(k) /\ Listing(k) \subseteq Listing(k)'
      BY <1>1, <2>1 DEF Creating, Listing
    <3> QED
      BY <1>1, <1>2, <3>1, CountKept DEF CreationInv
  <2>3. \A r \in Processes :
           call'[r].stage = "write" /\ call'[r].circuit # "persist" => call'[r].status \notin Initials
    BY <1>1, <2>1 DEF CreationInv
  <2> QED
    BY <2>2, <2>3 DEF CreationInv
<1>4. CASE ~Remembered(key)
  <2>1. /\ call'[p].stage = "write" /\ call'[p].circuit = "persist"
        /\ call'[p].todo = call[p].todo
    BY <1>4 DEF Record, StartWrite, DeliveryTypeOK
  <2>2. ASSUME NEW k \in Keys
        PROVE  CountOK(k)'
    <3>1. CASE k = key
      <4>1. Creating(k)' = Creating(k) \cup {p} /\ Listing(k)' = Listing(k)
        BY <1>1, <2>1, <3>1 DEF Creating, Listing
      <4> QED
        BY <1>1, <1>4, <3>1, <4>1, CountBegins DEF CreationInv
    <3>2. CASE k # key
      <4>1. Creating(k)' \subseteq Creating(k) /\ Listing(k) \subseteq Listing(k)'
        BY <1>1, <2>1, <3>2 DEF Creating, Listing
      <4> QED
        BY <1>1, <1>2, <4>1, CountKept DEF CreationInv
    <3> QED
      BY <3>1, <3>2
  <2>3. \A r \in Processes :
           call'[r].stage = "write" /\ call'[r].circuit # "persist" => call'[r].status \notin Initials
    BY <1>1, <2>1 DEF CreationInv
  <2> QED
    BY <2>2, <2>3 DEF CreationInv
<1> QED
  BY <1>3, <1>4

LEMMA KeysKept ==
    ASSUME NEW docs \in Seq([key : Keys, status : Status]), NEW i \in DOMAIN docs,
           NEW s \in Status
    PROVE  /\ DOMAIN [docs EXCEPT ![i].status = s] = DOMAIN docs
           /\ \A j \in DOMAIN docs : [docs EXCEPT ![i].status = s][j].key = docs[j].key
<1>1. /\ DOMAIN [docs EXCEPT ![i].status = s] = DOMAIN docs
      /\ [docs EXCEPT ![i].status = s][i] = [key |-> docs[i].key, status |-> s]
      /\ \A j \in DOMAIN docs \ {i} : [docs EXCEPT ![i].status = s][j] = docs[j]
  BY UpdatedType
<1>2. [docs EXCEPT ![i].status = s][i].key = docs[i].key
  BY <1>1
<1> QED
  BY <1>1, <1>2

LEMMA CountUpdate ==
    ASSUME DeliveryTypeOK, DeliveryTypeOK', CreationInv, IsFiniteSet(Workers),
           NEW d \in Keys, NEW s \in Status \ Initials, NEW c \in Circuits \ {"persist"},
           Update(d, s, c)
    PROVE  CreationInv'
<1>1. PICK n \in DOMAIN outbox : IsNewest(n, d) /\ outbox' = [outbox EXCEPT ![n].status = s]
  BY DEF Update
<1>2. DOMAIN outbox' = DOMAIN outbox /\ \A i \in DOMAIN outbox : outbox'[i].key = outbox[i].key
  <2>1. outbox \in Seq([key : Keys, status : Status]) /\ s \in Status
    BY DEF DeliveryTypeOK
  <2> QED
    BY <1>1, <2>1, KeysKept
<1>3. /\ Loop \in Processes /\ call[Loop].stage = "idle" /\ UNCHANGED <<file, lives>>
      /\ call'[Loop].stage = "write" /\ call'[Loop].circuit = c /\ call'[Loop].status = s
      /\ \A r \in Processes \ {Loop} : call'[r] = call[r]
  BY DEF Update, StartWrite, DeliveryTypeOK, Processes
<1>4. ASSUME NEW k \in Keys
      PROVE  CountOK(k)'
  <2>1. Creating(k)' \subseteq Creating(k) /\ Listing(k) \subseteq Listing(k)'
    BY <1>3 DEF Creating, Listing
  <2>2. Created(k)' = Created(k) /\ (Remembered(k)' <=> Remembered(k))
    BY <1>2, <1>3 DEF Created, InitialStatus, Remembered
  <2> QED
    BY <1>3, <2>1, <2>2, CountKept DEF CreationInv
<1>5. \A r \in Processes :
         call'[r].stage = "write" /\ call'[r].circuit # "persist" => call'[r].status \notin Initials
  BY <1>3 DEF CreationInv
<1> QED
  BY <1>4, <1>5 DEF CreationInv

LEMMA CountPersist ==
    ASSUME DeliveryInv, DeliveryTypeOK', CreationInv, IsFiniteSet(Workers),
           NEW p \in Processes, Persist(p)
    PROVE  CreationInv'
<1>0. DeliveryTypeOK /\ call[p].stage = "write"
  BY DEF DeliveryInv, Persist
<1>1. PICK key \in Keys, s \in Status : key = Head(call[p].todo) /\ s = call[p].status
  BY <1>0, WorksOnKey
<1>2. file' = [file EXCEPT ![<<key, s>>] = file[<<key, s>>] + 1] /\ UNCHANGED <<outbox, lives>>
  BY <1>1 DEF Persist
<1>3. /\ \A r \in Processes \ {p} : call'[r] = call[r]
      /\ call'[p].stage = "written" /\ call'[p].todo = call[p].todo
      /\ call'[p].circuit = call[p].circuit
  BY <1>0 DEF Persist, DeliveryTypeOK
<1>4. IF call[p].circuit = "persist" THEN s = InitialStatus(key) ELSE s \notin Initials
  BY <1>0, <1>1 DEF DeliveryInv, CallSound, CreationInv
<1>5. ASSUME NEW k \in Keys
      PROVE  CountOK(k)'
  <2>1. /\ InitialStatus(k) \in Initials /\ <<k, InitialStatus(k)>> \in Keys \X Status
        /\ file \in [Keys \X Status -> Nat]
    BY <1>0, InitialStatusType DEF InitialStatus, Initials, DeliveryTypeOK
  <2>2. CASE call[p].circuit = "persist" /\ k = key
    <3>1. Created(k)' = Created(k) + 1
      BY <1>2, <1>4, <2>1, <2>2 DEF Created, InitialStatus
    <3>2. /\ Creating(k)' = Creating(k) \ {p} /\ Listing(k)' = Listing(k) \cup {p}
          /\ p \in Creating(k) /\ p \notin Listing(k)
      BY <1>0, <1>1, <1>3, <2>2 DEF Creating, Listing
    <3> QED
      BY <1>0, <1>2, <3>1, <3>2, CountAppended DEF CreationInv
  <2>3. CASE ~(call[p].circuit = "persist" /\ k = key)
    <3>1. <<k, InitialStatus(k)>> # <<key, s>>
      BY <1>4, <2>1, <2>3
    <3>2. Created(k)' = Created(k)
      BY <1>2, <2>1, <3>1 DEF Created, InitialStatus
    <3>3. Creating(k)' \subseteq Creating(k) /\ Listing(k) \subseteq Listing(k)'
      BY <1>0, <1>3 DEF Creating, Listing
    <3>4. Remembered(k)' <=> Remembered(k)
      BY <1>2 DEF Remembered
    <3> QED
      BY <1>0, <1>2, <3>2, <3>3, <3>4, CountKept DEF CreationInv
  <2> QED
    BY <2>2, <2>3
<1>6. \A r \in Processes :
         call'[r].stage = "write" /\ call'[r].circuit # "persist" => call'[r].status \notin Initials
  BY <1>3 DEF CreationInv
<1> QED
  BY <1>5, <1>6 DEF CreationInv

LEMMA CountHearSuccess ==
    ASSUME DeliveryTypeOK, DeliveryTypeOK', CreationInv, IsFiniteSet(Workers),
           NEW p \in Processes, HearSuccess(p)
    PROVE  CreationInv'
<1>1. /\ call[p].stage = "written" /\ UNCHANGED <<outbox, file, lives>>
      /\ \A r \in Processes \ {p} : call'[r] = call[r]
  BY DEF HearSuccess, Settle, DeliveryTypeOK
<1>2. /\ call[p].circuit = "persist" => call'[p].stage = "list" /\ call'[p].todo = call[p].todo
      /\ call[p].circuit # "persist" => call'[p].stage = "idle"
  BY DEF HearSuccess, Settle, Idle, DeliveryTypeOK
<1>3. ASSUME NEW k \in Keys
      PROVE  CountOK(k)'
  <2>1. Creating(k)' \subseteq Creating(k) /\ Listing(k) \subseteq Listing(k)'
    BY <1>1, <1>2 DEF Creating, Listing
  <2>2. Created(k)' = Created(k) /\ (Remembered(k)' <=> Remembered(k))
    BY <1>1 DEF Created, InitialStatus, Remembered
  <2> QED
    BY <1>1, <2>1, <2>2, CountKept DEF CreationInv
<1>4. \A r \in Processes :
         call'[r].stage = "write" /\ call'[r].circuit # "persist" => call'[r].status \notin Initials
  BY <1>1, <1>2 DEF CreationInv
<1> QED
  BY <1>3, <1>4 DEF CreationInv

LEMMA CountFailWrite ==
    ASSUME DeliveryTypeOK, DeliveryTypeOK', CreationInv, IsFiniteSet(Workers),
           NEW p \in Processes, FailWrite(p)
    PROVE  CreationInv'
<1>1. /\ call[p].stage = "write" /\ UNCHANGED <<outbox, file, lives>>
      /\ \A r \in Processes \ {p} : call'[r] = call[r]
  BY DEF FailWrite, Settle, DeliveryTypeOK
<1>2. \/ call'[p].stage \in {"idle", "list"}
      \/ /\ call'[p].stage = "write" /\ call'[p].circuit = call[p].circuit
         /\ call'[p].todo = call[p].todo /\ call'[p].status = call[p].status
  BY DEF FailWrite, Settle, Idle, DeliveryTypeOK
<1>3. ASSUME NEW k \in Keys
      PROVE  CountOK(k)'
  <2>1. Creating(k)' \subseteq Creating(k) /\ Listing(k) \subseteq Listing(k)'
    BY <1>1, <1>2 DEF Creating, Listing
  <2>2. Created(k)' = Created(k) /\ (Remembered(k)' <=> Remembered(k))
    BY <1>1 DEF Created, InitialStatus, Remembered
  <2> QED
    BY <1>1, <2>1, <2>2, CountKept DEF CreationInv
<1>4. \A r \in Processes :
         call'[r].stage = "write" /\ call'[r].circuit # "persist" => call'[r].status \notin Initials
  BY <1>1, <1>2 DEF CreationInv
<1> QED
  BY <1>3, <1>4 DEF CreationInv

\* A cut list begins with its newest document, and keeps the others it does not
\* report forgotten.
LEMMA ListRemembers ==
    ASSUME DeliveryTypeOK, NEW p \in Processes, List(p), NEW k \in Keys
    PROVE  /\ k = Head(call[p].todo) => Remembered(k)' /\ lives'[k] = lives[k]
           /\ \/ lives'[k] = lives[k] /\ (Remembered(k) => Remembered(k)')
              \/ lives'[k] = lives[k] + 1
<1> DEFINE doc   == [key |-> Head(call[p].todo), status |-> call[p].status]
           grown == <<doc>> \o outbox
           kept  == SubSeq(grown, 1, IF Len(grown) > OutboxCap THEN OutboxCap ELSE Len(grown))
<1>1. outbox' = kept
      /\ lives' = [x \in Keys |-> lives[x] + IF x \in Forgotten(grown, kept) THEN 1 ELSE 0]
  BY DEF List
<1>2. /\ doc \in [key : Keys, status : Status] /\ outbox \in Seq([key : Keys, status : Status])
      /\ OutboxCap \in Nat \ {0} /\ doc.key = Head(call[p].todo)
  BY WorksOnKey, DeliveryAssumption DEF List, DeliveryTypeOK
<1> HIDE DEF doc
<1>3. /\ grown \in Seq([key : Keys, status : Status]) /\ Len(grown) = Len(outbox) + 1
      /\ grown[1] = doc /\ \A i \in DOMAIN outbox : i + 1 \in DOMAIN grown /\ grown[i + 1] = outbox[i]
  BY <1>2
<1>4. Len(grown) \in Nat /\ Len(grown) >= 1
  BY <1>2, <1>3
<1> HIDE DEF grown
<1>5. 1 \in DOMAIN kept /\ kept[1] = grown[1]
  BY <1>2, <1>3, <1>4
<1> HIDE DEF kept
<1>6. lives'[k] = lives[k] + IF k \in Forgotten(grown, kept) THEN 1 ELSE 0
  BY <1>1
<1>7. lives[k] \in Nat
  BY DEF DeliveryTypeOK
<1>8. k = Head(call[p].todo) => Remembered(k)' /\ k \notin Forgotten(grown, kept)
  BY <1>1, <1>2, <1>3, <1>5 DEF Remembered, Forgotten
<1>9. Remembered(k) => k \in {grown[i].key : i \in DOMAIN grown}
  BY <1>3 DEF Remembered
<1>10. Remembered(k) /\ k \notin Forgotten(grown, kept) => Remembered(k)'
  BY <1>1, <1>9 DEF Remembered, Forgotten
<1> QED
  BY <1>6, <1>7, <1>8, <1>10

LEMMA CountList ==
    ASSUME DeliveryTypeOK, DeliveryTypeOK', CreationInv, IsFiniteSet(Workers),
           NEW p \in Processes, List(p)
    PROVE  CreationInv'
<1>1. /\ call[p].stage = "list" /\ UNCHANGED file
      /\ \A r \in Processes \ {p} : call'[r] = call[r]
      /\ call'[p].stage \in {"idle", "lookup"}
  BY ProceedMoves DEF List
<1>2. ASSUME NEW k \in Keys
      PROVE  CountOK(k)'
  <2>1. Creating(k)' \subseteq Creating(k)
    BY <1>1 DEF Creating
  <2>2. k # Head(call[p].todo) => Listing(k) \subseteq Listing(k)'
    BY <1>1 DEF Listing
  <2>3. Created(k)' = Created(k)
    BY <1>1 DEF Created, InitialStatus
  <2>4. CASE lives'[k] = lives[k] /\ (Remembered(k)' \/ (~Remembered(k) /\ k # Head(call[p].todo)))
    BY <2>1, <2>2, <2>3, <2>4, CountKept DEF CreationInv
  <2>5. CASE lives'[k] = lives[k] + 1
    BY <2>1, <2>3, <2>5, CountForgotten DEF CreationInv
  <2> QED
    BY <2>4, <2>5, ListRemembers
<1>3. \A r \in Processes :
         call'[r].stage = "write" /\ call'[r].circuit # "persist" => call'[r].status \notin Initials
  BY <1>1 DEF CreationInv
<1> QED
  BY <1>2, <1>3 DEF CreationInv

\* A dispatch is appended at most once per thread and life of its key, for any
\* finite number of workers, however their calls interleave, whatever writes
\* fail and however often the process restarts.
THEOREM CreationsAreBounded ==
    ASSUME IsFiniteSet(Workers)
    PROVE  Spec => []CreationsBounded
<1>1. Init => CreationInv
  <2> SUFFICES ASSUME Init PROVE CreationInv
    OBVIOUS
  <2>1. ASSUME NEW k \in Keys
        PROVE  CountOK(k)
    <3>1. Created(k) = 0 /\ Creating(k) = {} /\ Listing(k) = {} /\ lives[k] = 0
      BY InitialStatusType DEF Init, Created, Creating, Listing, Idle
    <3>2. /\ Share(0) \in Nat /\ Share(1 + 0) \in Nat
          /\ Share(1 + 0) = Share(0) + Cardinality(Processes)
      BY ShareType, ProcessesFinite
    <3> QED
      BY <3>1, <3>2, FS_EmptySet DEF CountOK
  <2>2. \A p \in Processes : call[p].stage = "idle"
    BY DEF Init, Idle
  <2> QED
    BY <2>1, <2>2 DEF CreationInv
<1>2. DeliveryInv /\ DeliveryTypeOK' /\ CreationInv /\ [Next]_vars => CreationInv'
  <2> SUFFICES ASSUME DeliveryInv, DeliveryTypeOK', CreationInv, [Next]_vars
               PROVE  CreationInv'
    OBVIOUS
  <2>0. DeliveryTypeOK
    BY DEF DeliveryInv
  <2>1. CASE \E p \in Processes :
                \/ \E q \in Requests : Deliver(p, q)
                \/ Record(p) \/ Persist(p) \/ HearSuccess(p) \/ FailWrite(p) \/ List(p)
    BY <2>0, <2>1, CountDeliver, CountRecord, CountPersist, CountHearSuccess, CountFailWrite, CountList
  <2>2. CASE UpdateStep
    BY <2>0, <2>2, CountUpdate DEF UpdateStep
  <2>3. CASE (\E c \in Circuits : Recover(c)) \/ UNCHANGED vars
    <3>1. UNCHANGED <<outbox, file, call, lives>>
      BY <2>3 DEF Recover, vars
    <3>2. ASSUME NEW k \in Keys
          PROVE  CountOK(k)'
      <4>1. Creating(k)' = Creating(k) /\ Listing(k)' = Listing(k)
        BY <3>1 DEF Creating, Listing
      <4>2. Created(k)' = Created(k) /\ (Remembered(k)' <=> Remembered(k))
        BY <3>1 DEF Created, InitialStatus, Remembered
      <4> QED
        BY <2>0, <3>1, <4>1, <4>2, CountKept DEF CreationInv
    <3> QED
      BY <3>1, <3>2 DEF CreationInv
  <2>4. CASE Restart
    <3>1. /\ \A p \in Processes : call'[p].stage = "idle"
          /\ UNCHANGED file
      BY <2>4 DEF Restart, Idle
    <3>2. ASSUME NEW k \in Keys
          PROVE  CountOK(k)'
      <4>1. Creating(k)' \subseteq Creating(k)
        BY <3>1 DEF Creating
      <4>2. Created(k)' = Created(k) /\ lives'[k] = lives[k] + 1
        BY <2>4, <3>1 DEF Created, InitialStatus, Restart
      <4> QED
        BY <2>0, <4>1, <4>2, CountForgotten DEF CreationInv
    <3> QED
      BY <3>1, <3>2 DEF CreationInv
  <2> QED
    BY <2>1, <2>2, <2>3, <2>4, NextSteps
<1>3. DeliveryTypeOK /\ CreationInv => CreationsBounded
  <2> SUFFICES ASSUME DeliveryTypeOK, CreationInv, NEW k \in Keys
               PROVE  file[<<k, InitialStatus(k)>>] <= Cardinality(Processes) * (1 + lives[k])
    BY DEF CreationsBounded
  <2>1. Created(k) + Cardinality(Creating(k)) <= Share(1 + lives[k])
    BY DEF CreationInv, CountOK
  <2>2. Share(1 + lives[k]) \in Nat
    BY CountTypes, ShareType
  <2>3. Created(k) <= Share(1 + lives[k])
    BY <2>1, <2>2, CountTypes
  <2> QED
    BY <2>3 DEF Created, Share
<1>4. Spec => []DeliveryTypeOK
  BY TypeCorrect
<1>5. Spec => []DeliveryInv
  BY DeliveryInvariant
<1> QED
  BY <1>1, <1>2, <1>3, <1>4, <1>5, PTL DEF Spec
=============================================================================
