---------------------------- MODULE PartnerRetry ----------------------------
(***************************************************************************)
(* Partner receiver retries (DeliveryPartnerRetryService.java) on top of   *)
(* the delivery outbox.  A run is an HTTP request: it takes one snapshot   *)
(* of the newest outbox rows - rows, not dispatches - and for each of them *)
(* reads the retry ledger, perhaps posts to the partner, appends a receipt *)
(* and records an event.  Runs are not serialised against each other or    *)
(* against the outbox.                                                     *)
(***************************************************************************)
EXTENDS DeliveryOutbox

CONSTANTS
    Workers,      \* threads that may execute a retry run
    Unconfigured, \* dispatches whose channel has no receiver URL
    MaxAttempts,  \* PARKPULSE_PARTNER_RECEIVER_MAX_ATTEMPTS (3 by default)
    RunLimit,     \* the limit of a run (1..100)
    MaxRuns       \* bound of the model: runs started

ASSUME RetryAssumption ==
    /\ Unconfigured \subseteq Dispatches
    /\ MaxAttempts \in Nat \ {0}
    /\ RunLimit \in Nat \ {0}
    /\ MaxRuns \in Nat
    /\ IsFiniteSet(Workers)

VARIABLES
    receipts,   \* rows of partner_retry_receipts.jsonl
    run,        \* run[w]: where worker w is in its run
    posts,      \* posts[d]: requests the partner was sent for d
    unrecorded, \* unrecorded[d]: those of them whose receipt was lost
    runs        \* runs started so far

retryVars == <<receipts, run, posts, unrecorded, runs>>
vars == <<outboxVars, retryVars>>

AttemptStatuses == {"skipped", "receiver_not_configured", "max_attempts_exceeded",
                    "dry_run", "delivered_to_partner", "retry_failed"}
Receipt == [dispatch : Dispatches, status : AttemptStatuses, dryRun : BOOLEAN]

RunStages == {"idle", "next", "send", "receipt", "event"}
Run == [stage : RunStages, todo : SUBSET Nat, dryRun : BOOLEAN,
        dispatch : Dispatches \cup {NoRow}, status : AttemptStatuses, posted : BOOLEAN]

\* Faulty variant: the posted flag of the last attempt survives the run.
IdleRunStillPosted == [stage |-> "idle", todo |-> {}, dryRun |-> FALSE,
                       dispatch |-> NoRow, status |-> "skipped", posted |-> TRUE]

IdleRun == [stage |-> "idle", todo |-> {}, dryRun |-> FALSE,
            dispatch |-> NoRow, status |-> "skipped", posted |-> FALSE]

-----------------------------------------------------------------------------
\* Faulty variant: whatever is not blocked, held or acknowledged may be sent.
EligibleUnlessStopped == {"delivered", "approved_for_execution", "pending_operator_approval"}

EligibleStatus == {"delivered", "approved_for_execution"}

\* liveAttempt: what counts against the attempt budget.
LiveAttempt(r) ==
    ~r.dryRun /\ r.status \notin {"receiver_not_configured", "skipped"}

\* Faulty variant: counts the kinds of live receipt, not the receipts.
PriorAttemptKinds(d) ==
    Cardinality({receipts[i].status : i \in {j \in DOMAIN receipts :
                    receipts[j].dispatch = d /\ LiveAttempt(receipts[j])}})

PriorAttempts(d) ==
    Cardinality({i \in DOMAIN receipts : receipts[i].dispatch = d /\ LiveAttempt(receipts[i])})

\* Faulty variant: looks at the newest receipt only.
NewestReceiptSuccessful(d) ==
    /\ receipts # <<>>
    /\ receipts[Len(receipts)].dispatch = d
    /\ receipts[Len(receipts)].status = "delivered_to_partner"

HasSuccessfulPartnerDelivery(d) ==
    \E i \in DOMAIN receipts :
        receipts[i].dispatch = d /\ receipts[i].status = "delivered_to_partner"

\* attemptDispatch up to the decision to send, in the order of its checks.
\* One read of the ledger serves both checks on receipts.
Verdict(row, dryRun) ==
    IF row.status \notin EligibleStatus THEN "skipped"
    ELSE IF row.dispatch \in Unconfigured THEN "receiver_not_configured"
    ELSE IF HasSuccessfulPartnerDelivery(row.dispatch) THEN "skipped"
    ELSE IF PriorAttempts(row.dispatch) >= MaxAttempts THEN "max_attempts_exceeded"
    ELSE IF dryRun THEN "dry_run"
    ELSE "send"

-----------------------------------------------------------------------------
RetryInit ==
    /\ Init
    /\ receipts = <<>>
    /\ run = [w \in Workers |-> IdleRun]
    /\ posts = [d \in Dispatches |-> 0]
    /\ unrecorded = [d \in Dispatches |-> 0]
    /\ runs = 0

\* run(body): the snapshot, with or without a dispatch_id filter.
StartRun(w, wanted, dryRun) ==
    /\ run[w].stage = "idle"
    /\ runs < MaxRuns
    /\ runs' = runs + 1
    /\ run' = [run EXCEPT ![w] =
                 [IdleRun EXCEPT !.stage = "next", !.dryRun = dryRun,
                                 !.todo = {i \in LatestDispatches(RunLimit) :
                                              log[i].dispatch \in wanted}]]
    /\ UNCHANGED <<outboxVars, receipts, posts, unrecorded>>

\* The loop takes the newest row left and decides what to do with it.
NextRow(w) ==
    /\ run[w].stage = "next"
    /\ \E i \in run[w].todo :
        /\ \A j \in run[w].todo : j <= i
        /\ LET verdict == Verdict(log[i], run[w].dryRun) IN
           run' = [run EXCEPT ![w] =
                     [run[w] EXCEPT !.todo = run[w].todo \ {i},
                        !.dispatch = log[i].dispatch,
                        !.posted = FALSE,
                        !.stage = IF verdict = "send" THEN "send" ELSE "receipt",
                        !.status = IF verdict = "send" THEN "retry_failed" ELSE verdict]]
    /\ UNCHANGED <<outboxVars, receipts, posts, unrecorded, runs>>

\* httpClient.send: a 2xx answer, or anything else.  A timed-out request may
\* have been accepted by the partner all the same.
Send(w) ==
    /\ run[w].stage = "send"
    /\ posts' = [posts EXCEPT ![run[w].dispatch] = @ + 1]
    /\ \E outcome \in {"delivered_to_partner", "retry_failed"} :
        run' = [run EXCEPT ![w] =
                  [run[w] EXCEPT !.stage = "receipt", !.status = outcome, !.posted = TRUE]]
    /\ UNCHANGED <<outboxVars, receipts, unrecorded, runs>>

\* appendReceipt: a failed write is ignored.
AppendReceipt(w) ==
    /\ run[w].stage = "receipt"
    /\ \/ /\ receipts' = Append(receipts, [dispatch |-> run[w].dispatch,
                                           status |-> run[w].status,
                                           dryRun |-> run[w].dryRun])
          /\ UNCHANGED unrecorded
       \/ /\ UNCHANGED receipts
          /\ unrecorded' = [unrecorded EXCEPT ![run[w].dispatch] =
                              IF run[w].posted THEN @ + 1 ELSE @]
    /\ run' = [run EXCEPT ![w] = [run[w] EXCEPT !.stage = "event", !.posted = FALSE]]
    /\ UNCHANGED <<outboxVars, posts, runs>>

\* Faulty variant: a retry is reported as the partner's acknowledgement.
RecordRetryAsAcknowledgement(w) ==
    /\ run[w].stage = "event"
    /\ \/ /\ events' = events \cup {<<run[w].dispatch, "acknowledgement">>}
          /\ run' = [run EXCEPT ![w] = [run[w] EXCEPT !.stage = "next"]]
       \/ /\ UNCHANGED events
          /\ run' = [run EXCEPT ![w] = IdleRun]
    /\ UNCHANGED <<log, published, stage, work, receipts, posts, unrecorded, runs>>

\* recordPartnerRetry: when the event ledger refuses, the whole run fails.
RecordRetry(w) ==
    /\ run[w].stage = "event"
    /\ \/ /\ events' = events \cup {<<run[w].dispatch, "partner_retry">>}
          /\ run' = [run EXCEPT ![w] = [run[w] EXCEPT !.stage = "next"]]
       \/ /\ UNCHANGED events
          /\ run' = [run EXCEPT ![w] = IdleRun]
    /\ UNCHANGED <<log, published, stage, work, receipts, posts, unrecorded, runs>>

FinishRun(w) ==
    /\ run[w].stage = "next"
    /\ run[w].todo = {}
    /\ run' = [run EXCEPT ![w] = IdleRun]
    /\ UNCHANGED <<outboxVars, receipts, posts, unrecorded, runs>>

\* The process dies: posts whose receipt was not written yet are forgotten.
RestartAll ==
    /\ Restart
    /\ run' = [w \in Workers |-> IdleRun]
    /\ unrecorded' = [d \in Dispatches |-> unrecorded[d] +
                        Cardinality({w \in Workers : run[w].posted /\ run[w].dispatch = d})]
    /\ UNCHANGED <<receipts, posts, runs>>

WorkerStep(w) ==
    \/ \E wanted \in {Dispatches} \cup {{d} : d \in Dispatches}, dryRun \in BOOLEAN :
          StartRun(w, wanted, dryRun)
    \/ NextRow(w)
    \/ Send(w)
    \/ AppendReceipt(w)
    \/ RecordRetry(w)
    \/ FinishRun(w)

OutboxStep == (\E t \in Threads : Request(t) \/ ThreadStep(t)) /\ UNCHANGED retryVars

RetryNext == RestartAll \/ OutboxStep \/ \E w \in Workers : WorkerStep(w)

RetrySpec == RetryInit /\ [][RetryNext]_vars

-----------------------------------------------------------------------------
(* Properties. *)

\* The shape of the retry state.
RetryTypeOK ==
    /\ receipts \in Seq(Receipt)
    /\ run \in [Workers -> Run]
    /\ posts \in [Dispatches -> Nat]
    /\ unrecorded \in [Dispatches -> Nat]
    /\ runs \in Nat
    /\ \A w \in Workers :
        /\ run[w].todo \subseteq DOMAIN log
        /\ run[w].stage \in {"send", "receipt", "event"} => run[w].dispatch \in Dispatches
        /\ run[w].posted => run[w].stage = "receipt"

\* A partner only ever receives what the boundary let through without an
\* operator, or what an operator approved: no post without a release on file.
Released(d) ==
    \/ BoundaryAllowed(d) /\ d \notin NeedsApproval
    \/ \E i \in DOMAIN log : log[i].dispatch = d /\ log[i].kind = "approvalDecision"
                                                 /\ log[i].approval = "approved"

PostsAreReleased == \A d \in Dispatches : posts[d] > 0 => Released(d)

\* The attempt budget, in full: a partner sees at most MaxAttempts posts of a
\* dispatch, one more per additional concurrent run, and one more per post
\* whose receipt was lost to a failed write or a crash.
AttemptBudget ==
    \A d \in Dispatches :
        posts[d] <= MaxAttempts + unrecorded[d] + Cardinality(Workers) - 1

\* The ledger never holds more acceptances of a dispatch than runs can overlap:
\* once one is on file, whatever follows it - a skip, a dry run, a failure of
\* the overlapping run - only the runs already past the check can add another.
Acceptances(d) ==
    {i \in DOMAIN receipts :
        receipts[i].dispatch = d /\ receipts[i].status = "delivered_to_partner"}

AcceptancesBounded ==
    \A d \in Dispatches : Cardinality(Acceptances(d)) <= Cardinality(Workers)

(***************************************************************************)
(* The outbox as everything but the retries sees it: its own events and    *)
(* everything else.  Whatever retry runs do, that view only makes steps of *)
(* the outbox, so a retry never gets in the way of a request.              *)
(***************************************************************************)
OutboxEvents == {e \in events : e[2] # "partner_retry"}

Outbox == INSTANCE DeliveryOutbox WITH events <- OutboxEvents

RefinesOutbox == Outbox!Spec

(* A statement of the repository that its code does not keep. *)

\* "partner retries can replay durable rows safely": a run never offers for
\* sending a dispatch whose newest row is an operator's hold.
HeldIsNotReplayed ==
    [][\A w \in Workers :
         run[w].stage = "idle" /\ run'[w].stage = "next" =>
            \A i \in run'[w].todo :
               CurrentStatus[log[i].dispatch] = "held_for_review"
                  => log[i].status \notin EligibleStatus]_vars
=============================================================================
