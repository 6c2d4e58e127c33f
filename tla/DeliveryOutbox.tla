--------------------------- MODULE DeliveryOutbox ---------------------------
(***************************************************************************)
(* The Spring delivery outbox (DeliveryOutboxService.java).                *)
(*                                                                         *)
(* Tomcat request threads create dispatches, acknowledge them and record   *)
(* operator decisions.  Every operation reads the tail of one append-only  *)
(* file, works on a private copy of the row it found, publishes to the GCP *)
(* adapters and appends a new row; nothing locks the file in between.      *)
(* Afterwards the operation appends an envelope to the event ledger.       *)
(*                                                                         *)
(* A member of Dispatches stands for one (channel, target, payload): its   *)
(* idempotency key and its dispatch id are both hashes of that triple, so  *)
(* they identify the same thing.                                           *)
(***************************************************************************)
EXTENDS Naturals, Sequences, FiniteSets

CONSTANTS
    Threads,        \* request threads of the Spring process
    Dispatches,     \* the distinct payloads callers submit
    NeedsApproval,  \* equipment payloads for which requiresApproval() is true
    ToolExecutor,   \* payloads submitted by tool_executor_agent
    GateChecked,    \* payloads that carry policy-gate evidence
    GateBlocked,    \* payloads whose policy gate says block/reject/fail/denied
    RowCap,         \* the clamp inside latestDispatches (100 in the code)
    FindLookback,   \* the limit findDispatch asks for (200)
    DedupeLookback, \* the limit findDispatchByIdempotencyKey asks for (500)
    MaxRows,        \* bound of the model: rows the outbox file may reach
    NoRow           \* placeholder for a thread that works on no row

ASSUME OutboxAssumption ==
    /\ NeedsApproval \subseteq Dispatches
    /\ RowCap \in Nat \ {0}
    /\ FindLookback \in Nat
    /\ DedupeLookback \in Nat
    /\ MaxRows \in Nat

VARIABLES
    log,        \* rows of delivery_outbox.jsonl, oldest first
    published,  \* <<dispatch, kind>> handed to Pub/Sub, FCM and Firestore
    events,     \* <<dispatch, kind>> recorded in the canonical event ledger
    stage,      \* stage[t]: how far the request on thread t has got
    work        \* work[t]: the row the request on thread t is about to append

outboxVars == <<log, published, events, stage, work>>

Kinds == {"dispatch", "acknowledgement", "approvalDecision"}
EventKinds == Kinds \cup {"partner_retry"}
Statuses == {"delivered", "pending_operator_approval", "blocked_by_agent_boundary",
             "acknowledged", "approved_for_execution", "held_for_review"}
Stages == {"idle", "publish", "append", "event"}
Decisions == {"approved", "held"}

(***************************************************************************)
(* A row is the whole dispatch record.  Three fields are bookkeeping of    *)
(* the model: base is the index of the row the copy was taken from (0 for  *)
(* a creation), looked is the length of the file when it was read, and     *)
(* kind is the wrapper the durable record is stored under.                 *)
(***************************************************************************)
Row == [dispatch : Dispatches, kind : Kinds, status : Statuses,
        approval : Decisions \cup {"none"}, base : Nat, looked : Nat]

-----------------------------------------------------------------------------
(* Pure parts: approval policy, agent boundary, lookups. *)

InitialStatus(d) ==
    IF d \in NeedsApproval THEN "pending_operator_approval" ELSE "delivered"

PolicyGateChecked(d) ==
    d \in GateChecked \/ InitialStatus(d) = "pending_operator_approval"

BoundaryAllowed(d) ==
    d \in ToolExecutor /\ PolicyGateChecked(d) /\ d \notin GateBlocked

DispatchStatus(d) ==
    IF BoundaryAllowed(d) THEN InitialStatus(d) ELSE "blocked_by_agent_boundary"

CreationRow(d) ==
    [dispatch |-> d, kind |-> "dispatch", status |-> DispatchStatus(d),
     approval |-> "none", base |-> 0, looked |-> Len(log)]

\* Faulty variant: an acknowledgement is rebuilt from the creation fields, so
\* the operator decision of the row is dropped.
CopyDropsDecision(i, kind, status, approval) ==
    [log[i] EXCEPT !.kind = kind, !.status = status,
                   !.approval = IF kind = "acknowledgement" THEN "none" ELSE approval,
                   !.base = i, !.looked = Len(log)]

\* The private copy of row i an update works on, with what the update sets.
CopyOf(i, kind, status, approval) ==
    [log[i] EXCEPT !.kind = kind, !.status = status, !.approval = approval,
                   !.base = i, !.looked = Len(log)]

\* max(1, min(limit, 100)): the clamp every reader of the outbox goes through.
RowLimit(limit) ==
    IF limit = 0 THEN 1 ELSE IF limit < RowCap THEN limit ELSE RowCap

LatestDispatches(limit) ==
    {i \in DOMAIN log : i + RowLimit(limit) > Len(log)}

Matching(d, limit) == {i \in LatestDispatches(limit) : log[i].dispatch = d}

\* Faulty variant: findFirst() over the file as it is, oldest row first.
FindOldestDispatch(d) ==
    {i \in Matching(d, FindLookback) : \A j \in Matching(d, FindLookback) : i <= j}

\* findFirst() over newest-first rows, as the set of the indices it can return:
\* empty, or the one newest matching row.
FindDispatch(d) ==
    {i \in Matching(d, FindLookback) : \A j \in Matching(d, FindLookback) : j <= i}

\* Faulty variant: no lookup at all.
HasDuplicateNever(d) == FALSE

\* findDispatchByIdempotencyKey(key) != null: only whether there is one matters.
HasDuplicate(d) == Matching(d, DedupeLookback) # {}

-----------------------------------------------------------------------------
Init ==
    /\ log = <<>>
    /\ published = {}
    /\ events = {}
    /\ stage = [t \in Threads |-> "idle"]
    /\ work = [t \in Threads |-> NoRow]

\* Bound of the model: a request starts only while every request in flight
\* still fits below MaxRows.
HasRoom == Len(log) + Cardinality({t \in Threads : stage[t] # "idle"}) < MaxRows

Begin(t, row, next) ==
    /\ stage[t] = "idle"
    /\ HasRoom
    /\ work' = [work EXCEPT ![t] = row]
    /\ stage' = [stage EXCEPT ![t] = next]
    /\ UNCHANGED <<log, published, events>>

\* Faulty variant: the request is forgotten but its thread stays busy.
FinishWithoutIdle(t) ==
    /\ work' = [work EXCEPT ![t] = NoRow]
    /\ UNCHANGED stage

Finish(t) ==
    /\ stage' = [stage EXCEPT ![t] = "idle"]
    /\ work' = [work EXCEPT ![t] = NoRow]

Advance(t, next) ==
    /\ stage' = [stage EXCEPT ![t] = next]
    /\ UNCHANGED work

\* recordDispatch up to the adapters.  A duplicate is answered from the row
\* found and changes nothing, so only the miss is a step.
CreateDispatch(t, d) ==
    /\ ~HasDuplicate(d)
    /\ Begin(t, CreationRow(d), IF BoundaryAllowed(d) THEN "publish" ELSE "append")

\* acknowledge: no check of the status the row already has; the operator's
\* decision travels along in the copy.
Acknowledge(t, d) ==
    \E i \in FindDispatch(d) :
        Begin(t, CopyOf(i, "acknowledgement", "acknowledged", log[i].approval), "append")

DecisionStatus(decision) ==
    IF decision = "approved" THEN "approved_for_execution" ELSE "held_for_review"

\* approvalDecision with a recognised decision; again the status is not checked.
DecideApproval(t, d, decision) ==
    \E i \in FindDispatch(d) :
        Begin(t, CopyOf(i, "approvalDecision", DecisionStatus(decision), decision), "publish")

\* enrichDeliveryDispatch / publishApprovalDecision: every adapter answers
\* with a receipt map, whether it published, is disabled or failed.
Publish(t) ==
    /\ stage[t] = "publish"
    /\ \/ published' = published \cup {<<work[t].dispatch, work[t].kind>>}
       \/ UNCHANGED published
    /\ Advance(t, "append")
    /\ UNCHANGED <<log, events>>

\* appendRecord.
AppendRow(t) == log' = Append(log, work[t])

\* persistDispatch swallows a failed append (durable = false) and the request
\* goes on; only allowed dispatches reach the event ledger.
PersistDispatch(t) ==
    /\ stage[t] = "append"
    /\ work[t].kind = "dispatch"
    /\ AppendRow(t) \/ UNCHANGED log
    /\ IF BoundaryAllowed(work[t].dispatch) THEN Advance(t, "event") ELSE Finish(t)
    /\ UNCHANGED <<published, events>>

\* Faulty variant: the failed append is swallowed here too.
AppendUpdateSwallowed(t) ==
    /\ stage[t] = "append"
    /\ work[t].kind # "dispatch"
    /\ AppendRow(t) \/ UNCHANGED log
    /\ Advance(t, "event")
    /\ UNCHANGED <<published, events>>

\* acknowledge and approvalDecision let the failure of appendRecord escape.
AppendUpdate(t) ==
    /\ stage[t] = "append"
    /\ work[t].kind # "dispatch"
    /\ \/ AppendRow(t) /\ Advance(t, "event")
       \/ UNCHANGED log /\ Finish(t)
    /\ UNCHANGED <<published, events>>

\* EventPipelineService.record: appendEnvelope may throw.
RecordEvent(t) ==
    /\ stage[t] = "event"
    /\ \/ events' = events \cup {<<work[t].dispatch, work[t].kind>>}
       \/ UNCHANGED events
    /\ Finish(t)
    /\ UNCHANGED <<log, published>>

\* The process dies and comes back: the files stay, the requests are gone.
Restart ==
    /\ stage' = [t \in Threads |-> "idle"]
    /\ work' = [t \in Threads |-> NoRow]
    /\ UNCHANGED <<log, published, events>>

Request(t) ==
    \E d \in Dispatches :
        \/ CreateDispatch(t, d)
        \/ Acknowledge(t, d)
        \/ \E decision \in Decisions : DecideApproval(t, d, decision)

ThreadStep(t) ==
    Publish(t) \/ PersistDispatch(t) \/ AppendUpdate(t) \/ RecordEvent(t)

Next == Restart \/ \E t \in Threads : Request(t) \/ ThreadStep(t)

Spec == Init /\ [][Next]_outboxVars

-----------------------------------------------------------------------------
(* Properties. *)

\* The shape of the state: idle threads hold no row, busy ones a real one.
TypeOK ==
    /\ log \in Seq(Row)
    /\ published \subseteq Dispatches \X Kinds
    /\ events \subseteq Dispatches \X EventKinds
    /\ stage \in [Threads -> Stages]
    /\ work \in [Threads -> Row \cup {NoRow}]
    /\ \A t \in Threads : stage[t] # "idle" => work[t] \in Row

\* Indices of the rows about d that a lookup with this limit saw when the file
\* had only its first n rows.
SeenAt(rows, d, n, limit) ==
    {i \in DOMAIN rows : i <= n /\ i + RowLimit(limit) > n /\ rows[i].dispatch = d}

\* Deduplication, as far as the code carries it: among the rows a lookup can see,
\* a row about a payload is followed by at most one creation of it per other
\* request thread, however the requests interleave, whatever fails, however often
\* the process restarts and however many rows the window has left behind.
CreationsAfter(i) ==
    {j \in DOMAIN log : /\ i < j /\ j < i + RowLimit(DedupeLookback)
                        /\ log[j].kind = "dispatch" /\ log[j].dispatch = log[i].dispatch}

DuplicatesBoundedByThreads ==
    \A i \in DOMAIN log : Cardinality(CreationsAfter(i)) < Cardinality(Threads)

\* Updates are copies of an earlier row, so one appended meanwhile is overlooked:
\* an acknowledgement or a decision is lost to at most one later update per
\* other request thread, and never to a request that began after it.
UpdatesOverlooking(i) ==
    {j \in DOMAIN log : /\ log[j].base < i /\ i < j
                        /\ log[j].kind # "dispatch" /\ log[j].dispatch = log[i].dispatch}

LostUpdatesBounded ==
    \A i \in DOMAIN log : Cardinality(UpdatesOverlooking(i)) < Cardinality(Threads)

\* The event ledger never reports an acknowledgement or a decision the outbox
\* does not hold, whichever appends fail and wherever the process dies.
UpdateEventsAreDurable ==
    \A e \in events :
        e[2] \in {"acknowledgement", "approvalDecision"} =>
            \E i \in DOMAIN log : log[i].dispatch = e[1] /\ log[i].kind = e[2]

\* What the two bounds rest on.  A creation was appended only because no row
\* about the same payload was among the rows its lookup read.
CreationSawNoDuplicate ==
    \A j \in DOMAIN log :
        log[j].kind = "dispatch" =>
            /\ log[j].looked < j
            /\ SeenAt(log, log[j].dispatch, log[j].looked, DedupeLookback) = {}

\* An acknowledgement or a decision continues the newest row its lookup could
\* see, and an acknowledgement keeps the operator decision of that row.
UpdateExtendsNewestSeenRow ==
    \A j \in DOMAIN log :
        LET row == log[j] IN
        row.kind # "dispatch" =>
            /\ row.base \in SeenAt(log, row.dispatch, row.looked, FindLookback)
            /\ \A i \in SeenAt(log, row.dispatch, row.looked, FindLookback) : i <= row.base
            /\ row.looked < j
            /\ row.kind = "acknowledgement" => row.approval = log[row.base].approval

\* What a request in flight may rely on although the file has grown since it
\* read it: the strengthening the invariants above rest on.
InFlight(t) ==
    LET row == work[t] IN
        /\ row.looked <= Len(log)
        /\ row.kind = "dispatch" => SeenAt(log, row.dispatch, row.looked, DedupeLookback) = {}
        /\ row.kind # "dispatch" =>
            /\ row.base \in SeenAt(log, row.dispatch, row.looked, FindLookback)
            /\ \A i \in SeenAt(log, row.dispatch, row.looked, FindLookback) : i <= row.base
            /\ row.kind = "acknowledgement" => row.approval = log[row.base].approval
            /\ stage[t] = "event" =>
                 \E i \in DOMAIN log : log[i].dispatch = row.dispatch /\ log[i].kind = row.kind

InFlightAgreesWithItsRead == \A t \in Threads : stage[t] # "idle" => InFlight(t)

RowsAbout(d) == {i \in DOMAIN log : log[i].dispatch = d}

(***************************************************************************)
(* What a reader of the newest row per dispatch sees.  With one request at *)
(* a time, and a file shorter than the lookup windows, that register is a  *)
(* DispatchLifecycle: created once, then acknowledged and decided.         *)
(***************************************************************************)
CurrentRow(d) == CHOOSE i \in RowsAbout(d) : \A j \in RowsAbout(d) : j <= i

CurrentStatus ==
    [d \in Dispatches |-> IF RowsAbout(d) = {} THEN "none" ELSE log[CurrentRow(d)].status]

CurrentDecision ==
    [d \in Dispatches |-> IF RowsAbout(d) = {} THEN "none" ELSE log[CurrentRow(d)].approval]

Lifecycle == INSTANCE DispatchLifecycle WITH
                 status <- CurrentStatus, decision <- CurrentDecision,
                 FirstStatus <- [d \in Dispatches |-> DispatchStatus(d)]

RefinesLifecycle == Lifecycle!Spec

(***************************************************************************)
(* Statements the repository makes about the outbox that its code does not *)
(* keep; each is refuted by a run of its own.                              *)
(***************************************************************************)

\* "idempotency-keyed dispatch records": one creation per key.
OneCreationPerKey ==
    \A i, j \in DOMAIN log :
        (log[i].kind = "dispatch" /\ log[j].kind = "dispatch"
            /\ log[i].dispatch = log[j].dispatch) => i = j

\* "Tool executor may deliver approved receiver payloads only after policy-gate
\* evidence is present": a payload the boundary refused never becomes executable.
BlockedIsNeverExecutable ==
    \A i \in DOMAIN log :
        log[i].status \in {"delivered", "approved_for_execution"} =>
            BoundaryAllowed(log[i].dispatch)
=============================================================================
