----------------------------- MODULE RunReceipts -----------------------------
(***************************************************************************)
(* Run receipts and background refinement (backend/main.py).               *)
(*                                                                         *)
(* When the full runtime cannot answer in time, the event loop answers     *)
(* with a bounded fallback, stores a receipt with upgrade_status "pending" *)
(* and schedules a refinement: it claims a slot, marks the receipt and     *)
(* submits a job.  A worker thread loads the runtime, runs the command in  *)
(* full and replaces the receipt, or marks it failed.  Receipts are kept   *)
(* newest first in a bounded list under _receipt_lock, slots in a set      *)
(* under _refinement_lock; each critical section is one step here.         *)
(***************************************************************************)
EXTENDS RuntimeLoader, Sequences, FiniteSets

CONSTANTS
    Receipts,       \* receipt ids, one per request
    Cap,            \* receipts kept (80 in the code)
    MaxRefinements, \* PARKPULSE_MAX_BACKGROUND_REFINEMENTS
    NoReceipt       \* the event loop or a worker has nothing in hand

ASSUME ReceiptAssumption ==
    /\ Cap \in Nat \ {0}
    /\ MaxRefinements \in Nat
    /\ NoReceipt \notin Receipts

VARIABLES
    order,   \* _run_receipt_order, newest first
    upgrade, \* upgrade_status of the stored receipts, "none" if not stored
    used,    \* ids handed out so far
    slots,   \* _refinement_receipts
    queue,   \* jobs submitted to _refinement_executor and not yet taken
    loop,    \* what the event loop is scheduling
    worker   \* worker[w]: the job of worker w

receiptVars == <<order, upgrade, used, slots, queue, loop, worker>>
vars == <<loaderVars, receiptVars>>

UpgradeStatuses == {"none", "final", "pending", "deferred", "running", "upgraded", "failed"}
LoopStages == {"idle", "claim", "defer", "pend", "submit"}
WorkerStages == {"idle", "started", "load", "loading", "refine", "upgrade", "fail", "release"}

Idle == [stage |-> "idle", receipt |-> NoReceipt]

-----------------------------------------------------------------------------
Stored == {order[i] : i \in DOMAIN order}

\* list.remove(r): the list without the place of r.
Without(r) ==
    IF r \notin Stored THEN order
    ELSE LET i == CHOOSE i \in DOMAIN order : order[i] = r
         IN  SubSeq(order, 1, i - 1) \o SubSeq(order, i + 1, Len(order))

\* _store_run_receipt: the id moves to the front and the oldest ones fall out.
Reordered(r) ==
    LET moved == <<r>> \o Without(r)
    IN  SubSeq(moved, 1, IF Len(moved) < Cap THEN Len(moved) ELSE Cap)

Store(r, status) ==
    /\ order' = Reordered(r)
    /\ upgrade' = [x \in Receipts |->
                     IF x = r THEN status
                     ELSE IF \E i \in DOMAIN order' : order'[i] = x THEN upgrade[x]
                     ELSE "none"]

\* Faulty variant: marks a receipt although it has fallen out of the list.
MarkAlways(r, status) ==
    /\ upgrade' = [upgrade EXCEPT ![r] = status]
    /\ UNCHANGED order

\* _mark_receipt_upgrade_status: nothing happens to a receipt that fell out.
Mark(r, status) ==
    /\ upgrade' = [upgrade EXCEPT ![r] = IF @ = "none" THEN "none" ELSE status]
    /\ UNCHANGED order

Init ==
    /\ LoaderInit
    /\ order = <<>>
    /\ upgrade = [r \in Receipts |-> "none"]
    /\ used = {}
    /\ slots = {}
    /\ queue = <<>>
    /\ loop = Idle
    /\ worker = [w \in Workers |-> Idle]

-----------------------------------------------------------------------------
(* The event loop: nothing below awaits, so one request is scheduled at a  *)
(* time, but the workers run in between.                                   *)

\* A request, a warm-up or a stream asks for the full runtime.
RequestRuntime ==
    /\ loop = Idle
    /\ EnsureLoadTask
    /\ UNCHANGED receiptVars

\* The full runtime answered within its budget, or a role that needs no
\* refinement did.
AnswerInFull(r) ==
    /\ loop = Idle
    /\ r \notin used
    /\ used' = used \cup {r}
    /\ Store(r, "final")
    /\ UNCHANGED <<loaderVars, slots, queue, loop, worker>>

\* It was not loaded, too slow, failed, or is not asked on the first response.
AnswerWithFallback(r) ==
    /\ loop = Idle
    /\ r \notin used
    /\ used' = used \cup {r}
    /\ Store(r, "pending")
    /\ loop' = [stage |-> "claim", receipt |-> r]
    /\ UNCHANGED <<loaderVars, slots, queue, worker>>

SlotFree == Cardinality(slots) < MaxRefinements

\* _try_claim_refinement_slot.
ClaimSlot ==
    /\ loop.stage = "claim"
    /\ IF ~LoadIsStale /\ SlotFree
       THEN /\ slots' = slots \cup {loop.receipt}
            /\ loop' = [loop EXCEPT !.stage = "pend"]
       ELSE /\ loop' = [loop EXCEPT !.stage = "defer"]
            /\ UNCHANGED slots
    /\ UNCHANGED <<loaderVars, order, upgrade, used, queue, worker>>

MarkDeferred ==
    /\ loop.stage = "defer"
    /\ Mark(loop.receipt, "deferred")
    /\ loop' = Idle
    /\ UNCHANGED <<loaderVars, used, slots, queue, worker>>

MarkPending ==
    /\ loop.stage = "pend"
    /\ Mark(loop.receipt, "pending")
    /\ loop' = [loop EXCEPT !.stage = "submit"]
    /\ UNCHANGED <<loaderVars, used, slots, queue, worker>>

SubmitJob ==
    /\ loop.stage = "submit"
    /\ queue' = Append(queue, loop.receipt)
    /\ loop' = Idle
    /\ UNCHANGED <<loaderVars, order, upgrade, used, slots, worker>>

\* Faulty variant: the job is submitted before the receipt is marked.
ScheduleSubmitFirst ==
    \/ ClaimSlot \/ MarkDeferred
    \/ /\ loop.stage = "pend"
       /\ queue' = Append(queue, loop.receipt)
       /\ loop' = [loop EXCEPT !.stage = "submit"]
       /\ UNCHANGED <<loaderVars, order, upgrade, used, slots, worker>>
    \/ /\ loop.stage = "submit"
       /\ Mark(loop.receipt, "pending")
       /\ loop' = Idle
       /\ UNCHANGED <<loaderVars, used, slots, queue, worker>>

\* _schedule_operator_command_refinement, _schedule_agent_run_refinement.
Schedule == ClaimSlot \/ MarkDeferred \/ MarkPending \/ SubmitJob

-----------------------------------------------------------------------------
(* A refinement worker. *)

WorkerMoves(w, stage) == worker' = [worker EXCEPT ![w].stage = stage]

TakeJob(w) ==
    /\ worker[w].stage = "idle"
    /\ queue # <<>>
    /\ worker' = [worker EXCEPT ![w] = [stage |-> "started", receipt |-> Head(queue)]]
    /\ queue' = Tail(queue)
    /\ UNCHANGED <<loaderVars, order, upgrade, used, slots, loop>>

MarkRunning(w) ==
    /\ worker[w].stage = "started"
    /\ Mark(worker[w].receipt, "running")
    /\ WorkerMoves(w, "load")
    /\ UNCHANGED <<loaderVars, used, slots, queue, loop>>

CallLoader(w) ==
    /\ worker[w].stage = "load"
    /\ FirstCheck(w)
    /\ WorkerMoves(w, "loading")
    /\ UNCHANGED <<app, loadError, started, lock, task, failures,
                   order, upgrade, used, slots, queue, loop>>

LoaderReturned(w) ==
    /\ worker[w].stage = "loading"
    /\ call[w] \in {"ok", "raised"}
    /\ WorkerMoves(w, IF call[w] = "ok" THEN "refine" ELSE "fail")
    /\ CallMoves(w, "out")
    /\ UNCHANGED <<app, loadError, started, lock, task, failures,
                   order, upgrade, used, slots, queue, loop>>

\* The full command, under wait_for: a payload, a timeout or an error.
Refine(w) ==
    /\ worker[w].stage = "refine"
    /\ WorkerMoves(w, "upgrade") \/ WorkerMoves(w, "fail")
    /\ UNCHANGED <<loaderVars, order, upgrade, used, slots, queue, loop>>

\* _upgrade_run_receipt stores the receipt again, even one that fell out.
Upgrade(w) ==
    /\ worker[w].stage = "upgrade"
    /\ Store(worker[w].receipt, "upgraded")
    /\ WorkerMoves(w, "release")
    /\ UNCHANGED <<loaderVars, used, slots, queue, loop>>

\* Faulty variant: the failure is not written to the receipt.
FailWithoutMark(w) ==
    /\ worker[w].stage = "fail"
    /\ WorkerMoves(w, "release")
    /\ UNCHANGED <<loaderVars, order, upgrade, used, slots, queue, loop>>

MarkFailed(w) ==
    /\ worker[w].stage = "fail"
    /\ Mark(worker[w].receipt, "failed")
    /\ WorkerMoves(w, "release")
    /\ UNCHANGED <<loaderVars, used, slots, queue, loop>>

\* Faulty variant: the slot is only given back by a worker that upgraded.
ReleaseUpgradedOnly(w) ==
    /\ worker[w].stage = "release"
    /\ slots' = IF upgrade[worker[w].receipt] = "upgraded"
                THEN slots \ {worker[w].receipt} ELSE slots
    /\ worker' = [worker EXCEPT ![w] = Idle]
    /\ UNCHANGED <<loaderVars, order, upgrade, used, queue, loop>>

\* Faulty variant: the worker goes idle with the receipt still in hand.
ReleaseKeepsReceipt(w) ==
    /\ worker[w].stage = "release"
    /\ slots' = slots \ {worker[w].receipt}
    /\ WorkerMoves(w, "idle")
    /\ UNCHANGED <<loaderVars, order, upgrade, used, queue, loop>>

\* The finally block.
ReleaseSlot(w) ==
    /\ worker[w].stage = "release"
    /\ slots' = slots \ {worker[w].receipt}
    /\ worker' = [worker EXCEPT ![w] = Idle]
    /\ UNCHANGED <<loaderVars, order, upgrade, used, queue, loop>>

WorkerLoad(w) == LockedLoad(w) /\ UNCHANGED receiptVars

WorkerStep(w) ==
    \/ TakeJob(w) \/ MarkRunning(w) \/ CallLoader(w) \/ WorkerLoad(w)
    \/ LoaderReturned(w) \/ Refine(w) \/ Upgrade(w) \/ MarkFailed(w) \/ ReleaseSlot(w)

Next ==
    \/ RequestRuntime
    \/ \E r \in Receipts : AnswerInFull(r) \/ AnswerWithFallback(r)
    \/ Schedule
    \/ (LoaderStep \/ Age) /\ UNCHANGED receiptVars
    \/ \E w \in Workers : WorkerStep(w)

Spec == Init /\ [][Next]_vars

\* Threads run: the event loop finishes what it is scheduling, the loader and
\* the workers keep going while they can.  Nobody has to send requests.
Fairness ==
    /\ WF_vars(Schedule)
    /\ WF_vars(LoaderStep /\ UNCHANGED receiptVars)
    /\ \A w \in Workers : WF_vars(WorkerStep(w))

FairSpec == Spec /\ Fairness

-----------------------------------------------------------------------------
(* Properties. *)

\* The shape of the state; the stored receipts are exactly the listed ones.
ReceiptTypeOK ==
    /\ LoaderTypeOK
    /\ order \in Seq(Receipts)
    /\ upgrade \in [Receipts -> UpgradeStatuses]
    /\ used \subseteq Receipts
    /\ slots \subseteq Receipts
    /\ queue \in Seq(Receipts)
    /\ loop \in [stage : LoopStages, receipt : Receipts \cup {NoReceipt}]
    /\ loop.receipt = NoReceipt <=> loop.stage = "idle"
    /\ worker \in [Workers -> [stage : WorkerStages, receipt : Receipts \cup {NoReceipt}]]
    /\ \A w \in Workers : worker[w].receipt = NoReceipt <=> worker[w].stage = "idle"

ListMatchesStore ==
    /\ Len(order) <= Cap
    /\ Cardinality(Stored) = Len(order)
    /\ \A r \in Receipts : upgrade[r] # "none" <=> r \in Stored

\* Where a refinement that holds a slot can be: being scheduled, queued, or in
\* the hands of a worker; and it is in one of these places only.
Scheduling == IF loop.stage \in {"pend", "submit"} THEN {loop.receipt} ELSE {}
Queued == {queue[i] : i \in DOMAIN queue}
Busy == {w \in Workers : worker[w].stage # "idle"}
Working == {worker[w].receipt : w \in Busy}

JobsAreApart ==
    /\ \A i, j \in DOMAIN queue : queue[i] = queue[j] => i = j
    /\ \A v, w \in Busy : worker[v].receipt = worker[w].receipt => v = w
    /\ Queued \cap Working = {}
    /\ Scheduling \cap (Queued \cup Working) = {}

\* The slot set never leaks and never lets more refinements in than configured,
\* whichever loads fail and however the workers interleave.
SlotsAreJobs ==
    /\ slots = Scheduling \cup Queued \cup Working
    /\ Cardinality(slots) <= MaxRefinements
    /\ JobsAreApart

\* A stored receipt never promises an upgrade nobody is working on.
Promised == {r \in Receipts : upgrade[r] \in {"pending", "running"}}

NoOrphanedPromise ==
    Promised \subseteq slots
        \cup (IF loop.stage \in {"claim", "defer"} THEN {loop.receipt} ELSE {})

\* What a receipt says about its refinement only ever moves forward, and a
\* receipt that fell out of the list comes back only with its full answer.
AnswersAreFinal ==
    [][\A r \in Receipts :
         LET was == upgrade[r] is == upgrade'[r] IN
         /\ was \in {"final", "deferred", "upgraded", "failed"} => is \in {was, "none"}
         /\ was = "running" => is \in {"running", "upgraded", "failed", "none"}
         /\ (was = "none" /\ r \in used) => is \in {"none", "upgraded"}]_vars

\* Every promise is kept or withdrawn, and every slot is given back: imports
\* end and refinements run under a timeout.
PromisesAreSettled == \A r \in Receipts : (r \in Promised) ~> (r \notin Promised)

SlotsAreReleased == \A r \in Receipts : (r \in slots) ~> (r \notin slots)

\* A load that was asked for is decided.
LoadsAreDecided == (task = "queued") ~> (task = "done")
=============================================================================
