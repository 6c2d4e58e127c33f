---------------------------- MODULE ParkDelivery ----------------------------
(***************************************************************************)
(* The delivery outbox of the Python process: park_delivery.py with the    *)
(* circuit breakers of reliability.py.                                     *)
(*                                                                         *)
(* The event loop and the refinement workers carry out delivery plans, one *)
(* dispatch after the other, on one list without a lock.  Every dispatch,  *)
(* acknowledgement and decision is appended to a file nobody reads back, so*)
(* what was sent is forgotten when the list overflows or the process       *)
(* restarts.  Acknowledgements and decisions are made on the event loop.   *)
(***************************************************************************)
EXTENDS DeliveryPlan, Integers, FiniteSets

CONSTANTS
    Loop,          \* the event loop's thread
    Workers,       \* the threads of _refinement_executor
    Decisions,     \* decision ids
    Requests,      \* the decisions made: decision id, scenario, action, mix
    Blocked,       \* dispatches whose payload the agent boundary refuses
    OutboxCap,     \* length of _outbox, 50 in the code
    Attempts,      \* attempts of _persist_with_recovery, 2 in the code
    Threshold,     \* PARKPULSE_CIRCUIT_FAILURE_THRESHOLD
    MaxCalls,      \* bound on the calls and restarts
    NoRequest      \* an update is not the delivery of a plan

Processes == Workers \cup {Loop}

Request == [decision : Decisions, scenario : Scenarios, pair : Pairs, mix : SUBSET MixParts]

ASSUME DeliveryAssumption ==
    /\ Loop \notin Workers
    /\ Requests \subseteq Request
    /\ Blocked \subseteq Dispatch
    /\ OutboxCap \in Nat \ {0}
    /\ Attempts \in Nat \ {0}
    /\ Threshold \in Nat \ {0}
    /\ MaxCalls \in Nat
    /\ NoRequest \notin Requests

\* The payload, its id and its idempotency key: the decision and the dispatch.
Key == [decision : Decisions, dispatch : Dispatch]

\* The keys a plan sends under its decision, in order.
Orders(q) ==
    LET plan == DeliveryPlan(q.scenario, q.pair, q.mix)
    IN  [i \in DOMAIN plan |-> [decision |-> q.decision, dispatch |-> plan[i]]]

Keys == UNION {{Orders(q)[i] : i \in DOMAIN Orders(q)} : q \in Requests}

Initials == {"delivered", "pending_operator_approval", "blocked_by_agent_boundary"}

Status == Initials \cup {"acknowledged", "approved_for_execution", "held_for_review"}

\* The circuits of the three kinds of rows.
Circuits == {"persist", "persist_ack", "persist_approval"}

Circuit == [failures : 0..Threshold, state : {"closed", "open", "half_open"}]

VARIABLES
    outbox,    \* _outbox, newest first
    file,      \* how many rows of a key and status the file has
    lost,      \* what a response reported with a durability error
    answered,  \* history: the requests whose plan was carried out
    circuit,   \* registry.breakers
    call,      \* where each process is in its call
    calls,     \* number of calls so far
    lives      \* history: how often the process forgot a key

vars == <<outbox, file, lost, answered, circuit, call, calls, lives>>

Idle == [stage |-> "idle", request |-> NoRequest, todo |-> <<>>, status |-> "delivered",
         circuit |-> "persist", tries |-> 0, direct |-> FALSE]

Fresh == [failures |-> 0, state |-> "closed"]

Init ==
    /\ outbox = <<>>
    /\ file = [row \in Keys \X Status |-> 0]
    /\ lost = {}
    /\ answered = {}
    /\ circuit = [c \in Circuits |-> Fresh]
    /\ call = [p \in Processes |-> Idle]
    /\ calls = 0
    /\ lives = [k \in Keys |-> 0]

-----------------------------------------------------------------------------
(* Circuit breaker.                                                        *)

\* allow_request: a circuit opened less than recovery_seconds ago refuses.
AllowRequest(c) == circuit[c].state # "open"

RecordSuccess(c) == circuit' = [circuit EXCEPT ![c] = Fresh]

\* record_failure; the counter goes on, but nothing looks beyond the threshold.
RecordFailure(c) ==
    IF circuit[c].failures + 1 >= Threshold
    THEN circuit' = [circuit EXCEPT ![c] = [failures |-> Threshold, state |-> "open"]]
    ELSE circuit' = [circuit EXCEPT ![c].failures = @ + 1]

\* recovery_seconds have passed.
Recover(c) ==
    /\ circuit[c].state = "open"
    /\ circuit' = [circuit EXCEPT ![c].state = "half_open"]
    /\ UNCHANGED <<outbox, file, lost, answered, call, calls, lives>>

-----------------------------------------------------------------------------
(* Calls.                                                                  *)

InitialStatus(k) ==
    IF k.dispatch \in Blocked THEN "blocked_by_agent_boundary"
    ELSE IF k.dispatch.approval THEN "pending_operator_approval"
    ELSE "delivered"

\* Faulty variant: only the newest document is compared.
RememberedNewest(k) == outbox # <<>> /\ outbox[1].key = k

\* _existing_dispatch, and the loops over _outbox of an update.
Remembered(k) == \E i \in DOMAIN outbox : outbox[i].key = k

IsNewest(i, k) == outbox[i].key = k /\ \A j \in 1..(i - 1) : outbox[j].key # k

\* A decision is carried out: its plan is sent one by one.
Deliver(p, q) ==
    /\ call[p].stage = "idle"
    /\ calls < MaxCalls
    /\ calls' = calls + 1
    /\ call' = [call EXCEPT ![p] =
          [Idle EXCEPT !.stage = "lookup", !.request = q, !.todo = Orders(q)]]
    /\ UNCHANGED <<outbox, file, lost, answered, circuit, lives>>

\* Faulty variant: the loop does not notice the end of the plan.
ProceedPastTheEnd(p) ==
    /\ call' = [call EXCEPT ![p] = [Idle EXCEPT
          !.stage = "lookup", !.request = call[p].request, !.todo = Tail(call[p].todo)]]
    /\ answered' = answered \cup {call[p].request}

\* The call goes on with the rest of its plan, or answers.
Proceed(p) ==
    LET rest == Tail(call[p].todo) IN
    IF rest = <<>>
    THEN /\ call' = [call EXCEPT ![p] = Idle]
         /\ answered' = answered \cup {call[p].request}
    ELSE /\ call' = [call EXCEPT ![p] =
                [Idle EXCEPT !.stage = "lookup", !.request = call[p].request, !.todo = rest]]
         /\ UNCHANGED answered

\* Faulty variant: what an open circuit refuses counts as written.
StartWriteIfAllowed(p, todo, status, c) ==
    call' = [call EXCEPT ![p] =
        [stage |-> IF AllowRequest(c) THEN "write" ELSE IF c = "persist" THEN "list" ELSE "idle",
         request |-> call[p].request, todo |-> todo, status |-> status,
         circuit |-> c, tries |-> 0, direct |-> FALSE]]

\* _persist_with_recovery begins; an open circuit means one direct write.
StartWrite(p, todo, status, c) ==
    call' = [call EXCEPT ![p] =
        [stage |-> "write", request |-> call[p].request, todo |-> todo, status |-> status,
         circuit |-> c, tries |-> 0, direct |-> ~AllowRequest(c)]]

\* _record up to its first write: a duplicate is answered from the list.
Record(p) ==
    /\ call[p].stage = "lookup"
    /\ LET k == Head(call[p].todo) IN
       IF Remembered(k)
       THEN Proceed(p)
       ELSE /\ StartWrite(p, call[p].todo, InitialStatus(k), "persist")
            /\ UNCHANGED answered
    /\ UNCHANGED <<outbox, file, lost, circuit, calls, lives>>

\* acknowledge_dispatch and record_approval_decision change the newest document
\* of the id in place, whatever its status, and then append a copy.
Update(k, status, c) ==
    /\ call[Loop].stage = "idle"
    /\ calls < MaxCalls
    /\ calls' = calls + 1
    /\ \E i \in DOMAIN outbox :
          IsNewest(i, k) /\ outbox' = [outbox EXCEPT ![i].status = status]
    /\ StartWrite(Loop, <<k>>, status, c)
    /\ UNCHANGED <<file, lost, answered, circuit, lives>>

AcknowledgeDispatch(k) == Update(k, "acknowledged", "persist_ack")

RecordApprovalDecision(k, status) == Update(k, status, "persist_approval")

\* After its last write a new dispatch is still to be listed; an update is done.
Settle(p) ==
    call' = [call EXCEPT ![p] =
        IF @.circuit = "persist" THEN [@ EXCEPT !.stage = "list"] ELSE Idle]

\* A write succeeds.
Persist(p) ==
    /\ call[p].stage = "write"
    /\ file' = [file EXCEPT ![<<Head(call[p].todo), call[p].status>>] = @ + 1]
    /\ call' = [call EXCEPT ![p].stage = "written"]
    /\ UNCHANGED <<outbox, lost, answered, circuit, calls, lives>>

\* Then it closes the circuit, even if it went past it and whatever other
\* threads have counted on it meanwhile.
HearSuccess(p) ==
    /\ call[p].stage = "written"
    /\ RecordSuccess(call[p].circuit)
    /\ Settle(p)
    /\ UNCHANGED <<outbox, file, lost, answered, calls, lives>>

\* Faulty variant: any write that went past the circuit closes it.
HearFailureClosing(p) ==
    IF call[p].direct THEN RecordSuccess(call[p].circuit) ELSE RecordFailure(call[p].circuit)

\* What a failing write does to the circuit: one that went past it, nothing.
HearFailure(p) ==
    IF call[p].direct THEN UNCHANGED circuit ELSE RecordFailure(call[p].circuit)

\* A write fails and is retried, unless it was the last or a direct one.
FailWrite(p) ==
    /\ call[p].stage = "write"
    /\ HearFailure(p)
    /\ IF call[p].direct \/ call[p].tries + 1 >= Attempts
       THEN /\ lost' = lost \cup {<<Head(call[p].todo), call[p].status>>}
            /\ Settle(p)
       ELSE /\ call' = [call EXCEPT ![p].tries = @ + 1]
            /\ UNCHANGED lost
    /\ UNCHANGED <<outbox, file, answered, calls, lives>>

\* The keys of docs that kept does not have.
Forgotten(docs, kept) ==
    {k \in {docs[i].key : i \in DOMAIN docs} : \A i \in DOMAIN kept : kept[i].key # k}

\* The document enters the list, which is cut to its length.
List(p) ==
    /\ call[p].stage = "list"
    /\ LET grown == <<[key |-> Head(call[p].todo), status |-> call[p].status]>> \o outbox
           kept  == SubSeq(grown, 1, IF Len(grown) > OutboxCap THEN OutboxCap ELSE Len(grown))
       IN  /\ outbox' = kept
           /\ lives' = [k \in Keys |-> lives[k] + IF k \in Forgotten(grown, kept) THEN 1 ELSE 0]
    /\ Proceed(p)
    /\ UNCHANGED <<file, lost, circuit, calls>>

\* The process dies and comes back with an empty list and fresh circuits.
Restart ==
    /\ calls < MaxCalls
    /\ calls' = calls + 1
    /\ outbox' = <<>>
    /\ circuit' = [c \in Circuits |-> Fresh]
    /\ call' = [p \in Processes |-> Idle]
    /\ lives' = [k \in Keys |-> lives[k] + 1]
    /\ UNCHANGED <<file, lost, answered>>

Next ==
    \/ \E p \in Processes :
          \/ \E q \in Requests : Deliver(p, q)
          \/ Record(p) \/ Persist(p) \/ HearSuccess(p) \/ FailWrite(p) \/ List(p)
    \/ \E k \in Keys : AcknowledgeDispatch(k)
    \/ \E k \in Keys, s \in {"approved_for_execution", "held_for_review"} :
          RecordApprovalDecision(k, s)
    \/ \E c \in Circuits : Recover(c)
    \/ Restart

Spec == Init /\ [][Next]_vars

-----------------------------------------------------------------------------
(* What holds.                                                             *)

\* The shape of the state: a call that works on a dispatch has one to work on.
DeliveryTypeOK ==
    /\ outbox \in Seq([key : Keys, status : Status])
    /\ file \in [Keys \X Status -> Nat]
    /\ lost \subseteq Keys \X Status
    /\ answered \subseteq Requests
    /\ circuit \in [Circuits -> Circuit]
    /\ call \in [Processes ->
          [stage : {"idle", "lookup", "write", "written", "list"}, request : Requests \cup {NoRequest},
           todo : Seq(Keys), status : Status, circuit : Circuits,
           tries : 0..Attempts, direct : BOOLEAN]]
    /\ calls \in Nat
    /\ lives \in [Keys -> Nat]
    /\ \A p \in Processes :
          /\ call[p].stage # "idle" => call[p].todo # <<>>
          /\ call[p].stage \in {"lookup", "list"} => call[p].circuit = "persist"
          /\ call[p].stage # "idle" /\ call[p].circuit = "persist" => call[p].request \in Requests

\* Every status the list shows has been appended to the file, is being appended,
\* or was answered with a durability error: neither an open circuit nor another
\* thread makes a status appear that the file silently lacks.
StatusIsOnFile ==
    \A i \in DOMAIN outbox :
        LET k == outbox[i].key s == outbox[i].status IN
        \/ file[<<k, s>>] > 0
        \/ <<k, s>> \in lost
        \/ \E p \in Processes :
              call[p].stage = "write" /\ Head(call[p].todo) = k /\ call[p].status = s

\* What deduplication by an unlocked list in memory is worth: a dispatch is
\* created at most once per thread and life of its key; it is forgotten only by
\* a restart or by OutboxCap newer ones.
CreationsBounded ==
    \A k \in Keys : file[<<k, InitialStatus(k)>>] <= Cardinality(Processes) * (1 + lives[k])

\* A circuit that is open or half open, by which the outbox reports itself not
\* ready, closes only at the hand of a call on that circuit whose own row is on
\* file, or because the process restarts and every key begins a new life: many
\* failures of other calls may lie between that row and the closing.
ClosesOnlyOnSuccess ==
    [][\A c \in Circuits :
         circuit[c].state # "closed" /\ circuit'[c].state = "closed" =>
            \/ \E p \in Processes :
                  /\ call[p].circuit = c /\ call'[p] # call[p]
                  /\ file[<<Head(call[p].todo), call[p].status>>] > 0
            \/ \A k \in Keys : lives'[k] = lives[k] + 1]_vars

\* The creation of k was appended, or reported lost.
Answered(k) == file[<<k, InitialStatus(k)>>] > 0 \/ <<k, InitialStatus(k)>> \in lost

\* The action that calls for each of the critical roles.
ActionOf == [medical |-> <<"medical", "dispatch">>,
             accessibility_support |-> <<"accessibility", "assist">>,
             security |-> <<"security", "respond">>]

\* A decision to send medical help, accessibility support or security that was
\* answered has put a task for that role on file or reported it lost, whatever
\* staffing its action mix asked for and whoever delivered it before.
CriticalActionIsStaffed ==
    \A q \in answered, role \in CriticalRoles :
        q.pair = ActionOf[role] =>
            \E k \in Keys :
                /\ k.decision = q.decision
                /\ k.dispatch.channel = "worker_device"
                /\ k.dispatch.what = role
                /\ Answered(k)
=============================================================================
