------------------------ MODULE PartnerRetryProofs -------------------------
(***************************************************************************)
(* Proofs about PartnerRetry, for any number of request threads and        *)
(* workers, any payloads and any attempt budget: only released dispatches  *)
(* are posted, and posts and acceptances are bounded.                      *)
(*                                                                         *)
(* The types and the outbox come first, then what a worker knows of the    *)
(* dispatch it handles, then the counting.                                 *)
(***************************************************************************)
EXTENDS PartnerRetry, OutboxLifecycleProofs

\* The status of a receipt tells of a post.
Sent == {"delivered_to_partner", "retry_failed"}

\* A status under which a row may be sent was given by the boundary or an operator.
RowSound(r) ==
    /\ r.status = "delivered" => BoundaryAllowed(r.dispatch) /\ r.dispatch \notin NeedsApproval
    /\ r.status = "approved_for_execution" =>
         r.kind = "approvalDecision" /\ r.approval = "approved"

RowsSound ==
    /\ \A i \in DOMAIN log : RowSound(log[i])
    /\ \A t \in Threads : stage[t] # "idle" => RowSound(work[t])

\* What a worker is about to send is released, and no dry run; what it is about
\* to write a receipt of tells of a post exactly if there was one.
RunSound(c) ==
    /\ c.stage = "send" => ~c.dryRun /\ ~c.posted /\ Released(c.dispatch)
    /\ c.stage = "receipt" => (c.posted <=> c.status \in Sent)
    /\ c.posted => ~c.dryRun /\ c.stage = "receipt"

RunsSound == \A w \in Workers : RunSound(run[w])

ReceiptsSound == \A i \in DOMAIN receipts : receipts[i].status \in Sent => ~receipts[i].dryRun

-----------------------------------------------------------------------------
(* The outbox under the retries. *)

\* A row that starts a request is sound.
LEMMA RequestRows ==
    ASSUME TypeOK, RowsSound, NEW t \in Threads, Request(t)
    PROVE  RowsSound' /\ log' = log
<1>1. PICK row \in Row, next \in Stages : Begin(t, row, next) /\ RowSound(row)
  <2>1. PICK d \in Dispatches :
          \/ CreateDispatch(t, d)
          \/ Acknowledge(t, d)
          \/ \E decision \in Decisions : DecideApproval(t, d, decision)
    BY DEF Request
  <2>2. \A i \in FindDispatch(d) : i \in DOMAIN log /\ log[i] \in Row
    BY DEF TypeOK, FindDispatch, Matching, LatestDispatches
  <2>3. CASE CreateDispatch(t, d)
    <3>1. CreationRow(d) \in Row
      BY CreationRowIsRow
    <3>2. RowSound(CreationRow(d))
      BY DEF RowSound, CreationRow, DispatchStatus, InitialStatus
    <3>3. PICK next \in {"publish", "append"} : Begin(t, CreationRow(d), next)
      BY <2>3 DEF CreateDispatch
    <3>4. QED
      BY <3>1, <3>2, <3>3 DEF Stages
  <2>4. CASE Acknowledge(t, d)
    <3>1. PICK i \in FindDispatch(d) :
            Begin(t, CopyOf(i, "acknowledgement", "acknowledged", log[i].approval), "append")
      BY <2>4 DEF Acknowledge
    <3>2. CopyOf(i, "acknowledgement", "acknowledged", log[i].approval) \in Row
      BY <2>2, CopyIsRow DEF Row, Kinds, Statuses
    <3>3. RowSound(CopyOf(i, "acknowledgement", "acknowledged", log[i].approval))
      BY <2>2 DEF RowSound, CopyOf, Row
    <3>4. QED
      BY <3>1, <3>2, <3>3 DEF Stages
  <2>5. CASE \E decision \in Decisions : DecideApproval(t, d, decision)
    <3>1. PICK decision \in Decisions, i \in FindDispatch(d) :
            Begin(t, CopyOf(i, "approvalDecision", DecisionStatus(decision), decision), "publish")
      BY <2>5 DEF DecideApproval
    <3>2. CopyOf(i, "approvalDecision", DecisionStatus(decision), decision) \in Row
      BY <2>2, CopyIsRow DEF Kinds, Statuses, DecisionStatus
    <3>3. RowSound(CopyOf(i, "approvalDecision", DecisionStatus(decision), decision))
      BY <2>2 DEF RowSound, CopyOf, Row, DecisionStatus
    <3>4. QED
      BY <3>1, <3>2, <3>3 DEF Stages
  <2>6. QED
    BY <2>1, <2>3, <2>4, <2>5
<1>2. log' = log
  BY <1>1 DEF Begin
<1>3. ASSUME NEW u \in Threads, stage'[u] # "idle" PROVE RowSound(work'[u])
  <2>1. CASE u = t
    <3>1. work'[u] = row
      BY <1>1, <2>1 DEF Begin, TypeOK
    <3>2. QED
      BY <1>1, <3>1
  <2>2. CASE u # t
    <3>1. work'[u] = work[u] /\ stage'[u] = stage[u]
      BY <1>1, <2>2 DEF Begin, TypeOK
    <3>2. QED
      BY <1>3, <3>1 DEF RowsSound
  <2>3. QED
    BY <2>1, <2>2
<1>4. QED
  BY <1>2, <1>3 DEF RowsSound, RowSound

\* The file only grows, and by rows of requests in flight.
LEMMA ThreadStepRows ==
    ASSUME TypeOK, RowsSound, NEW t \in Threads, ThreadStep(t)
    PROVE  /\ RowsSound'
           /\ DOMAIN log \subseteq DOMAIN log'
           /\ \A i \in DOMAIN log : log'[i] = log[i]
<1>1. /\ \/ log' = log
         \/ AppendRow(t) /\ stage[t] # "idle"
      /\ \A u \in Threads : stage'[u] # "idle" => stage[u] # "idle" /\ work'[u] = work[u]
  <2>0. stage \in [Threads -> Stages] /\ work \in [Threads -> Row \cup {NoRow}]
    BY DEF TypeOK
  <2>1. CASE Publish(t)
    BY <2>0, <2>1 DEF Publish, Advance
  <2>2. CASE PersistDispatch(t)
    BY <2>0, <2>2 DEF PersistDispatch, Advance, Finish
  <2>3. CASE AppendUpdate(t)
    BY <2>0, <2>3 DEF AppendUpdate, Advance, Finish
  <2>4. CASE RecordEvent(t)
    BY <2>0, <2>4 DEF RecordEvent, Finish
  <2>5. QED
    BY <2>1, <2>2, <2>3, <2>4 DEF ThreadStep
<1>2. \A u \in Threads : stage'[u] # "idle" => RowSound(work'[u])
  BY <1>1 DEF RowsSound
<1>3. CASE log' = log
  BY <1>2, <1>3 DEF RowsSound, RowSound
<1>4. CASE AppendRow(t) /\ stage[t] # "idle"
  <2>1. work[t] \in Row /\ RowSound(work[t])
    BY <1>4 DEF TypeOK, RowsSound
  <2>2. /\ DOMAIN log' = DOMAIN log \cup {Len(log) + 1}
        /\ \A i \in DOMAIN log : log'[i] = log[i]
        /\ log'[Len(log) + 1] = work[t]
    BY <1>4, <2>1, AppendKeepsReads DEF AppendRow
  <2>3. \A i \in DOMAIN log' : RowSound(log'[i])
    BY <2>1, <2>2 DEF RowsSound
  <2>4. QED
    BY <1>2, <2>2, <2>3 DEF RowsSound, RowSound
<1>5. QED
  BY <1>1, <1>3, <1>4

-----------------------------------------------------------------------------
(* Where each step of a worker takes it. *)

\* c is a place in a run that fits the file and what the code has checked.
Place(c) ==
    /\ c \in Run
    /\ c.todo \subseteq DOMAIN log
    /\ c.stage \in {"send", "receipt", "event"} => c.dispatch \in Dispatches
    /\ RunSound(c)

\* c counts neither as a post under way nor as one without a receipt.
Quiet(c) == c.stage \notin {"send", "receipt"} /\ ~c.posted

SafeInv ==
    /\ TypeOK
    /\ RetryTypeOK
    /\ RowsSound
    /\ RunsSound
    /\ ReceiptsSound
    /\ PostsAreReleased

LEMMA PlaceOfRun ==
    ASSUME SafeInv, NEW w \in Workers
    PROVE  Place(run[w])
BY DEF SafeInv, RetryTypeOK, RunsSound, Place

LEMMA IdlePlace == Place(IdleRun) /\ Quiet(IdleRun)
BY DEF Place, Quiet, IdleRun, Run, RunStages, AttemptStatuses, RunSound

LEMMA StartRunMoves ==
    ASSUME SafeInv, NEW w \in Workers, NEW wanted, NEW dryRun \in BOOLEAN,
           StartRun(w, wanted, dryRun)
    PROVE  \E c : run' = [run EXCEPT ![w] = c] /\ Place(c) /\ Quiet(c)
<1> DEFINE todo == {i \in LatestDispatches(RunLimit) : log[i].dispatch \in wanted}
           c == [IdleRun EXCEPT !.stage = "next", !.dryRun = dryRun, !.todo = todo]
<1>1. run' = [run EXCEPT ![w] = c]
  BY DEF StartRun
<1>2. todo \subseteq DOMAIN log /\ todo \subseteq Nat
  <2>1. DOMAIN log \subseteq Nat
    BY DEF SafeInv, TypeOK
  <2>2. QED
    BY <2>1 DEF LatestDispatches
<1> HIDE DEF todo
<1>3. /\ c \in Run /\ c.stage = "next" /\ c.posted = FALSE /\ c.todo = todo
  BY <1>2 DEF Run, IdleRun, RunStages, AttemptStatuses
<1> HIDE DEF c
<1>4. QED
  BY <1>1, <1>2, <1>3 DEF Place, Quiet, RunSound

\* A row is skipped over, refused, or taken for a post it is released for.
LEMMA NextRowMoves ==
    ASSUME SafeInv, NEW w \in Workers, NextRow(w)
    PROVE  \E c : /\ run' = [run EXCEPT ![w] = c] /\ Place(c) /\ ~c.posted
                  /\ \/ /\ c.stage = "send"
                        /\ ~HasSuccessfulPartnerDelivery(c.dispatch)
                        /\ PriorAttempts(c.dispatch) < MaxAttempts
                     \/ c.stage = "receipt" /\ c.status \notin Sent
<1>r. Place(run[w]) /\ run[w] \in Run
  BY PlaceOfRun DEF Place
<1>1. PICK i \in run[w].todo :
        run' = [run EXCEPT ![w] =
          [run[w] EXCEPT !.todo = run[w].todo \ {i}, !.dispatch = log[i].dispatch,
                         !.posted = FALSE,
                         !.stage = IF Verdict(log[i], run[w].dryRun) = "send" THEN "send" ELSE "receipt",
                         !.status = IF Verdict(log[i], run[w].dryRun) = "send" THEN "retry_failed"
                                    ELSE Verdict(log[i], run[w].dryRun)]]
  BY DEF NextRow
<1>2. PICK verdict : verdict = Verdict(log[i], run[w].dryRun)
  OBVIOUS
<1>3. i \in DOMAIN log /\ log[i] \in Row /\ log[i].dispatch \in Dispatches
  <2>1. i \in DOMAIN log /\ log[i] \in Row
    BY <1>r DEF Place, SafeInv, TypeOK
  <2>2. QED
    BY <2>1 DEF Row
<1>4. verdict \in {"skipped", "receiver_not_configured", "max_attempts_exceeded", "dry_run", "send"}
  BY <1>2 DEF Verdict
<1>5. verdict = "send" =>
        /\ log[i].status \in EligibleStatus /\ ~run[w].dryRun
        /\ ~HasSuccessfulPartnerDelivery(log[i].dispatch)
        /\ ~(PriorAttempts(log[i].dispatch) >= MaxAttempts)
  BY <1>2, Zenon DEF Verdict
<1> DEFINE c == [run[w] EXCEPT !.todo = run[w].todo \ {i}, !.dispatch = log[i].dispatch,
                               !.posted = FALSE,
                               !.stage = IF verdict = "send" THEN "send" ELSE "receipt",
                               !.status = IF verdict = "send" THEN "retry_failed" ELSE verdict]
<1>6. run' = [run EXCEPT ![w] = c]
  BY <1>1, <1>2
<1>7. /\ c.todo = run[w].todo \ {i} /\ c.dispatch = log[i].dispatch
      /\ c.posted = FALSE
      /\ c.stage = IF verdict = "send" THEN "send" ELSE "receipt"
      /\ c.status = IF verdict = "send" THEN "retry_failed" ELSE verdict
      /\ c.dryRun = run[w].dryRun
  BY <1>r DEF Run
<1>8. c \in Run
  BY <1>r, <1>3, <1>4 DEF Run, RunStages, AttemptStatuses
<1> HIDE DEF c
<1>9. verdict = "send" => Released(log[i].dispatch)
  <2> SUFFICES ASSUME verdict = "send" PROVE Released(log[i].dispatch)
    OBVIOUS
  <2>1. RowSound(log[i]) /\ log[i].status \in EligibleStatus
    BY <1>3, <1>5 DEF SafeInv, RowsSound
  <2>2. QED
    BY <1>3, <2>1 DEF RowSound, EligibleStatus, Released
<1>10. RunSound(c)
  BY <1>4, <1>5, <1>7, <1>9 DEF RunSound, Sent
<1>11. Place(c)
  BY <1>r, <1>3, <1>7, <1>8, <1>10 DEF Place
<1>12. PriorAttempts(log[i].dispatch) >= MaxAttempts \/ PriorAttempts(log[i].dispatch) < MaxAttempts
  <2>1. DOMAIN receipts = 1 .. Len(receipts) /\ Len(receipts) \in Nat
    BY DEF SafeInv, RetryTypeOK
  <2>2. IsFiniteSet(DOMAIN receipts)
    BY <2>1, FS_Interval
  <2>3. PriorAttempts(log[i].dispatch) \in Nat
    BY <2>2, FS_Subset, FS_CardinalityType DEF PriorAttempts
  <2>4. QED
    BY <2>3, RetryAssumption DEF RetryAssumption
<1>13. CASE verdict = "send"
  BY <1>5, <1>6, <1>7, <1>11, <1>12, <1>13
<1>14. CASE verdict # "send"
  BY <1>4, <1>6, <1>7, <1>11, <1>14 DEF Sent
<1>15. QED
  BY <1>13, <1>14

LEMMA SendMoves ==
    ASSUME SafeInv, NEW w \in Workers, Send(w)
    PROVE  \E c : /\ run' = [run EXCEPT ![w] = c] /\ Place(c)
                  /\ c.posted /\ c.stage = "receipt" /\ c.dispatch = run[w].dispatch
<1>r. Place(run[w]) /\ run[w] \in Run
  BY PlaceOfRun DEF Place
<1>1. PICK outcome \in Sent :
        run' = [run EXCEPT ![w] =
          [run[w] EXCEPT !.stage = "receipt", !.status = outcome, !.posted = TRUE]]
  BY DEF Send, Sent
<1> DEFINE c == [run[w] EXCEPT !.stage = "receipt", !.status = outcome, !.posted = TRUE]
<1>2. /\ c.todo = run[w].todo /\ c.dispatch = run[w].dispatch /\ c.dryRun = run[w].dryRun
      /\ c.stage = "receipt" /\ c.status = outcome /\ c.posted = TRUE
      /\ c \in Run
  BY <1>r DEF Run, RunStages, AttemptStatuses, Sent
<1>3. run' = [run EXCEPT ![w] = c]
  BY <1>1
<1> HIDE DEF c
<1>4. run[w].stage = "send" /\ ~run[w].dryRun /\ run[w].dispatch \in Dispatches
  BY <1>r DEF Send, Place, RunSound
<1>5. Place(c)
  BY <1>r, <1>2, <1>4 DEF Place, RunSound, Sent
<1>6. QED
  BY <1>2, <1>3, <1>5

LEMMA AppendReceiptMoves ==
    ASSUME SafeInv, NEW w \in Workers, AppendReceipt(w)
    PROVE  \E c : run' = [run EXCEPT ![w] = c] /\ Place(c) /\ Quiet(c)
<1>r. Place(run[w]) /\ run[w] \in Run
  BY PlaceOfRun DEF Place
<1> DEFINE c == [run[w] EXCEPT !.stage = "event", !.posted = FALSE]
<1>1. run' = [run EXCEPT ![w] = c]
  BY DEF AppendReceipt
<1>2. /\ c.todo = run[w].todo /\ c.dispatch = run[w].dispatch
      /\ c.stage = "event" /\ c.posted = FALSE /\ c \in Run
  BY <1>r DEF Run, RunStages
<1> HIDE DEF c
<1>3. run[w].dispatch \in Dispatches
  BY <1>r DEF AppendReceipt, Place
<1>4. QED
  BY <1>r, <1>1, <1>2, <1>3 DEF Place, Quiet, RunSound

LEMMA RecordRetryMoves ==
    ASSUME SafeInv, NEW w \in Workers, RecordRetry(w) \/ FinishRun(w)
    PROVE  \E c : run' = [run EXCEPT ![w] = c] /\ Place(c) /\ Quiet(c)
<1>r. Place(run[w]) /\ run[w] \in Run
  BY PlaceOfRun DEF Place
<1>1. CASE run' = [run EXCEPT ![w] = IdleRun]
  BY <1>1, IdlePlace
<1>2. CASE RecordRetry(w) /\ run' = [run EXCEPT ![w] = [run[w] EXCEPT !.stage = "next"]]
  <2> DEFINE c == [run[w] EXCEPT !.stage = "next"]
  <2>1. /\ c.todo = run[w].todo /\ c.stage = "next" /\ c.posted = run[w].posted /\ c \in Run
    BY <1>r DEF Run, RunStages
  <2>2. run' = [run EXCEPT ![w] = c]
    BY <1>2
  <2> HIDE DEF c
  <2>3. ~run[w].posted
    BY <1>2, <1>r DEF RecordRetry, Place, RunSound
  <2>4. QED
    BY <1>r, <2>1, <2>2, <2>3 DEF Place, Quiet, RunSound
<1>3. QED
  BY <1>1, <1>2 DEF RecordRetry, FinishRun

-----------------------------------------------------------------------------
(* SafeInv is inductive. *)

\* A file that grows leaves released what is released, and places where they are.
LEMMA GrowingKeeps ==
    ASSUME SafeInv, TypeOK', RowsSound', UNCHANGED retryVars,
           DOMAIN log \subseteq DOMAIN log', \A i \in DOMAIN log : log'[i] = log[i]
    PROVE  SafeInv'
<1>1. ASSUME NEW d, Released(d) PROVE Released(d)'
  BY <1>1 DEF Released, BoundaryAllowed, PolicyGateChecked, InitialStatus
<1>2. RunsSound'
  <2> SUFFICES ASSUME NEW w \in Workers PROVE RunSound(run[w])'
    BY DEF RunsSound
  <2> PICK c : c = run[w]
    OBVIOUS
  <2>1. run'[w] = c /\ RunSound(c)
    BY DEF retryVars, SafeInv, RunsSound
  <2>2. Released(c.dispatch) => Released(c.dispatch)'
    BY <1>1
  <2>3. RunSound(c)'
    BY <2>1, <2>2 DEF RunSound
  <2>4. QED
    BY <2>1, <2>3 DEF RunSound, Released
<1>3. RetryTypeOK' /\ ReceiptsSound'
  BY DEF retryVars, SafeInv, RetryTypeOK, ReceiptsSound
<1>4. PostsAreReleased'
  BY <1>1 DEF retryVars, SafeInv, PostsAreReleased
<1>5. QED
  BY <1>2, <1>3, <1>4 DEF SafeInv

LEMMA OutboxSafe ==
    ASSUME SafeInv, OutboxStep
    PROVE  SafeInv'
<1>1. PICK t \in Threads : Request(t) \/ ThreadStep(t)
  BY DEF OutboxStep
<1>2. UNCHANGED retryVars
  BY DEF OutboxStep
<1>3. CASE Request(t)
  <2>1. TypeOK' /\ RowsSound' /\ log' = log
    BY <1>3, RequestType, RequestRows DEF SafeInv
  <2>2. QED
    BY <1>2, <2>1, GrowingKeeps
<1>4. CASE ThreadStep(t)
  <2>1. /\ TypeOK' /\ RowsSound'
        /\ DOMAIN log \subseteq DOMAIN log' /\ \A i \in DOMAIN log : log'[i] = log[i]
    BY <1>4, ThreadStepType, ThreadStepRows DEF SafeInv
  <2>2. QED
    BY <1>2, <2>1, GrowingKeeps
<1>5. QED
  BY <1>1, <1>3, <1>4

\* One worker moves to a place, the outbox stays.
LEMMA PlaceKeeps ==
    ASSUME SafeInv, NEW w \in Workers, NEW c, Place(c), run' = [run EXCEPT ![w] = c],
           UNCHANGED <<log, published, stage, work>>,
           events' \subseteq Dispatches \X EventKinds, receipts' \in Seq(Receipt),
           posts' \in [Dispatches -> Nat], unrecorded' \in [Dispatches -> Nat], runs' \in Nat,
           ReceiptsSound', PostsAreReleased'
    PROVE  SafeInv'
<1>1. run \in [Workers -> Run] /\ TypeOK /\ RowsSound /\ RunsSound
  BY DEF SafeInv, RetryTypeOK
<1>2. /\ run' \in [Workers -> Run] /\ run'[w] = c
      /\ \A u \in Workers : u # w => run'[u] = run[u]
  BY <1>1 DEF Place
<1>3. TypeOK'
  BY <1>1 DEF TypeOK
<1>4. RowsSound'
  BY <1>1 DEF RowsSound
<1>5. \A u \in Workers : Place(run'[u])
  BY <1>2, PlaceOfRun
<1>6. RetryTypeOK'
  BY <1>2, <1>5 DEF RetryTypeOK, Place, RunSound
<1>7. RunsSound'
  <2> SUFFICES ASSUME NEW u \in Workers PROVE RunSound(run[u])'
    BY DEF RunsSound
  <2> PICK k : k = run'[u]
    OBVIOUS
  <2>1. RunSound(k)
    BY <1>5 DEF Place
  <2>2. RunSound(k)'
    BY <2>1 DEF RunSound, Released
  <2>3. QED
    BY <2>2 DEF RunSound, Released
<1>8. QED
  BY <1>3, <1>4, <1>6, <1>7 DEF SafeInv

\* A post is made for a released dispatch, a receipt of a post for no dry run.
LEMMA WorkerSafe ==
    ASSUME SafeInv, NEW w \in Workers, WorkerStep(w)
    PROVE  SafeInv'
<1>t. /\ events \subseteq Dispatches \X EventKinds /\ receipts \in Seq(Receipt)
      /\ posts \in [Dispatches -> Nat] /\ unrecorded \in [Dispatches -> Nat] /\ runs \in Nat
      /\ ReceiptsSound /\ PostsAreReleased /\ Place(run[w])
  BY PlaceOfRun DEF SafeInv, TypeOK, RetryTypeOK
<1>p. UNCHANGED <<log, posts>> => PostsAreReleased'
  BY <1>t DEF PostsAreReleased, Released
<1>q. UNCHANGED receipts => ReceiptsSound'
  BY <1>t DEF ReceiptsSound
<1>1. ASSUME NEW wanted, NEW dryRun \in BOOLEAN, StartRun(w, wanted, dryRun) PROVE SafeInv'
  <2>1. PICK c : run' = [run EXCEPT ![w] = c] /\ Place(c)
    BY <1>1, StartRunMoves
  <2>2. UNCHANGED <<outboxVars, receipts, posts, unrecorded>> /\ runs' \in Nat
    BY <1>1, <1>t DEF StartRun
  <2>3. QED
    BY <1>t, <1>p, <1>q, <2>1, <2>2, PlaceKeeps DEF outboxVars
<1>2. CASE NextRow(w)
  <2>1. PICK c : run' = [run EXCEPT ![w] = c] /\ Place(c)
    BY <1>2, NextRowMoves
  <2>2. UNCHANGED <<outboxVars, receipts, posts, unrecorded, runs>>
    BY <1>2 DEF NextRow
  <2>3. QED
    BY <1>t, <1>p, <1>q, <2>1, <2>2, PlaceKeeps DEF outboxVars
<1>3. CASE Send(w)
  <2>1. PICK c : run' = [run EXCEPT ![w] = c] /\ Place(c)
    BY <1>3, SendMoves
  <2>2. UNCHANGED <<outboxVars, receipts, unrecorded, runs>>
    BY <1>3 DEF Send
  <2>3. run[w].dispatch \in Dispatches /\ Released(run[w].dispatch)
    BY <1>3, <1>t DEF Send, Place, RunSound
  <2>4. posts' = [posts EXCEPT ![run[w].dispatch] = posts[run[w].dispatch] + 1]
    BY <1>3 DEF Send
  <2>5. posts' \in [Dispatches -> Nat]
    BY <1>t, <2>3, <2>4
  <2>6. PostsAreReleased'
    BY <1>t, <2>2, <2>3, <2>4 DEF outboxVars, PostsAreReleased, Released
  <2>7. QED
    BY <1>t, <1>q, <2>1, <2>2, <2>5, <2>6, PlaceKeeps DEF outboxVars
<1>4. CASE AppendReceipt(w)
  <2>1. PICK c : run' = [run EXCEPT ![w] = c] /\ Place(c)
    BY <1>4, AppendReceiptMoves
  <2>2. UNCHANGED <<outboxVars, posts, runs>>
    BY <1>4 DEF AppendReceipt
  <2> DEFINE r == [dispatch |-> run[w].dispatch, status |-> run[w].status, dryRun |-> run[w].dryRun]
  <2>3. /\ r \in Receipt
        /\ r.status \in Sent => ~r.dryRun
        /\ run[w].dispatch \in Dispatches
    <3>1. run[w].stage = "receipt" /\ run[w].dispatch \in Dispatches /\ run[w] \in Run
      BY <1>4, <1>t DEF AppendReceipt, Place
    <3>2. QED
      BY <3>1, <1>t DEF Receipt, Run, Place, RunSound
  <2>4. CASE receipts' = Append(receipts, r) /\ UNCHANGED unrecorded
    <3> HIDE DEF r
    <3>1. receipts' \in Seq(Receipt)
      BY <1>t, <2>3, <2>4
    <3>2. ReceiptsSound'
      BY <1>t, <2>3, <2>4 DEF ReceiptsSound
    <3>3. QED
      BY <1>t, <1>p, <2>1, <2>2, <2>4, <3>1, <3>2, PlaceKeeps DEF outboxVars
  <2>5. CASE /\ UNCHANGED receipts
             /\ unrecorded' = [unrecorded EXCEPT ![run[w].dispatch] =
                                 IF run[w].posted THEN unrecorded[run[w].dispatch] + 1
                                 ELSE unrecorded[run[w].dispatch]]
    <3>1. unrecorded' \in [Dispatches -> Nat]
      BY <1>t, <2>3, <2>5
    <3>2. QED
      BY <1>t, <1>p, <1>q, <2>1, <2>2, <2>5, <3>1, PlaceKeeps DEF outboxVars
  <2>6. QED
    BY <1>4, <2>4, <2>5 DEF AppendReceipt
<1>5. CASE RecordRetry(w) \/ FinishRun(w)
  <2>1. PICK c : run' = [run EXCEPT ![w] = c] /\ Place(c)
    BY <1>5, RecordRetryMoves
  <2>2. UNCHANGED <<log, published, stage, work, receipts, posts, unrecorded, runs>>
    BY <1>5 DEF RecordRetry, FinishRun, outboxVars
  <2>3. events' \subseteq Dispatches \X EventKinds
    <3>1. CASE RecordRetry(w)
      <4>1. run[w].dispatch \in Dispatches
        BY <3>1, <1>t DEF RecordRetry, Place
      <4>2. <<run[w].dispatch, "partner_retry">> \in Dispatches \X EventKinds
        BY <4>1 DEF EventKinds
      <4>3. QED
        BY <3>1, <4>2, <1>t DEF RecordRetry
    <3>2. CASE FinishRun(w)
      BY <3>2, <1>t DEF FinishRun, outboxVars
    <3>3. QED
      BY <1>5, <3>1, <3>2
  <2>4. QED
    BY <1>t, <1>p, <1>q, <2>1, <2>2, <2>3, PlaceKeeps
<1>6. QED
  BY <1>1, <1>2, <1>3, <1>4, <1>5 DEF WorkerStep

LEMMA RestartSafe ==
    ASSUME SafeInv, RestartAll
    PROVE  SafeInv'
<1>1. TypeOK' /\ log' = log /\ receipts' = receipts /\ posts' = posts /\ runs' = runs
  BY DEF RestartAll, Restart, SafeInv, TypeOK, Stages
<1>2. RowsSound'
  BY DEF RestartAll, Restart, SafeInv, RowsSound, RowSound
<1>3. unrecorded' \in [Dispatches -> Nat]
  <2>1. \A d \in Dispatches :
          Cardinality({w \in Workers : run[w].posted /\ run[w].dispatch = d}) \in Nat
    BY RetryAssumption, FS_Subset, FS_CardinalityType DEF RetryAssumption
  <2>2. QED
    BY <2>1 DEF RestartAll, SafeInv, RetryTypeOK
<1>4. /\ run' = [w \in Workers |-> IdleRun]
      /\ Place(IdleRun) /\ IdleRun.stage = "idle" /\ ~IdleRun.posted
      /\ IdleRun.todo = {}
  BY IdlePlace DEF RestartAll, IdleRun
<1>5. RetryTypeOK'
  BY <1>1, <1>3, <1>4 DEF SafeInv, RetryTypeOK, Place
<1>6. RunsSound'
  <2> SUFFICES ASSUME NEW w \in Workers PROVE RunSound(run[w])'
    BY DEF RunsSound
  <2>1. run'[w].stage = "idle" /\ ~run'[w].posted
    BY <1>4
  <2>2. QED
    BY <2>1 DEF RunSound
<1>7. ReceiptsSound' /\ PostsAreReleased'
  BY <1>1 DEF SafeInv, ReceiptsSound, PostsAreReleased, Released
<1>8. QED
  BY <1>1, <1>2, <1>5, <1>6, <1>7 DEF SafeInv

LEMMA InitSafe == RetryInit => SafeInv
<1> SUFFICES ASSUME RetryInit PROVE SafeInv
  OBVIOUS
<1>1. TypeOK /\ DOMAIN log = {} /\ DOMAIN receipts = {} /\ receipts \in Seq(Receipt)
  BY DEF RetryInit, Init, TypeOK, Stages
<1>2. /\ run = [w \in Workers |-> IdleRun]
      /\ Place(IdleRun) /\ IdleRun.stage = "idle" /\ ~IdleRun.posted
      /\ IdleRun.todo = {}
  BY IdlePlace DEF RetryInit, IdleRun
<1>3. posts \in [Dispatches -> Nat] /\ unrecorded \in [Dispatches -> Nat] /\ runs \in Nat
  BY DEF RetryInit
<1>4. RetryTypeOK
  BY <1>1, <1>2, <1>3 DEF RetryTypeOK, Place
<1>5. RowsSound
  BY <1>1 DEF RetryInit, Init, RowsSound
<1>6. RunsSound
  BY <1>2 DEF RunsSound, Place
<1>7. ReceiptsSound /\ PostsAreReleased
  BY <1>1 DEF RetryInit, ReceiptsSound, PostsAreReleased
<1>8. QED
  BY <1>1, <1>4, <1>5, <1>6, <1>7 DEF SafeInv

LEMMA NextSafe == SafeInv /\ [RetryNext]_vars => SafeInv'
<1> SUFFICES ASSUME SafeInv, [RetryNext]_vars PROVE SafeInv'
  OBVIOUS
<1>1. CASE UNCHANGED vars
  <2>1. TypeOK' /\ RowsSound' /\ log' = log /\ UNCHANGED retryVars
    BY <1>1 DEF vars, outboxVars, SafeInv, TypeOK, RowsSound, RowSound
  <2>2. QED
    BY <2>1, GrowingKeeps
<1>2. QED
  BY <1>1, RestartSafe, OutboxSafe, WorkerSafe DEF RetryNext

-----------------------------------------------------------------------------
(* Counting posts, receipts and acceptances of one dispatch. *)

Posted(d) == {w \in Workers : run[w].posted /\ run[w].dispatch = d}

Posting(d) ==
    {w \in Workers : (run[w].stage = "send" \/ run[w].posted) /\ run[w].dispatch = d}

\* Workers that may still add an acceptance to the ledger.
Accepting(d) ==
    {w \in Workers :
        /\ \/ run[w].stage = "send"
           \/ run[w].posted /\ run[w].status = "delivered_to_partner"
        /\ run[w].dispatch = d}

PostReceipts(d) ==
    {i \in DOMAIN receipts : receipts[i].dispatch = d /\ receipts[i].status \in Sent}

\* Every post has a receipt, lost it, or is with its worker; a worker that goes
\* to post has seen fewer receipts than the budget, and no acceptance.
Counted(d) ==
    /\ posts[d] <= Cardinality(PostReceipts(d)) + unrecorded[d] + Cardinality(Posted(d))
    /\ Cardinality(PostReceipts(d)) + Cardinality(Posting(d)) < MaxAttempts + Cardinality(Workers)
    /\ Cardinality(Acceptances(d)) + Cardinality(Accepting(d)) <= Cardinality(Workers)

BudgetInv == SafeInv /\ \A d \in Dispatches : Counted(d)

LEMMA CountsAreNat ==
    ASSUME SafeInv, NEW d
    PROVE  /\ IsFiniteSet(Posted(d)) /\ Cardinality(Posted(d)) \in Nat
           /\ IsFiniteSet(Posting(d)) /\ Cardinality(Posting(d)) \in Nat
           /\ IsFiniteSet(Accepting(d)) /\ Cardinality(Accepting(d)) \in Nat
           /\ IsFiniteSet(PostReceipts(d)) /\ Cardinality(PostReceipts(d)) \in Nat
           /\ IsFiniteSet(Acceptances(d)) /\ Cardinality(Acceptances(d)) \in Nat
           /\ IsFiniteSet(Workers) /\ Cardinality(Workers) \in Nat
           /\ IsFiniteSet(DOMAIN receipts)
<1>1. IsFiniteSet(Workers) /\ Cardinality(Workers) \in Nat
  BY RetryAssumption, FS_CardinalityType DEF RetryAssumption
<1>2. IsFiniteSet(DOMAIN receipts)
  <2>1. DOMAIN receipts = 1 .. Len(receipts) /\ Len(receipts) \in Nat
    BY DEF SafeInv, RetryTypeOK
  <2>2. QED
    BY <2>1, FS_Interval
<1>3. /\ Posted(d) \in SUBSET Workers /\ Posting(d) \in SUBSET Workers
      /\ Accepting(d) \in SUBSET Workers
      /\ PostReceipts(d) \in SUBSET DOMAIN receipts
      /\ Acceptances(d) \in SUBSET DOMAIN receipts
  BY DEF Posted, Posting, Accepting, PostReceipts, Acceptances
<1>4. /\ IsFiniteSet(Posted(d)) /\ IsFiniteSet(Posting(d)) /\ IsFiniteSet(Accepting(d))
      /\ IsFiniteSet(PostReceipts(d)) /\ IsFiniteSet(Acceptances(d))
  BY <1>1, <1>2, <1>3, FS_Subset
<1>5. QED
  BY <1>1, <1>2, <1>4, FS_CardinalityType

\* What one worker's move does to the sets of workers that are counted.
LEMMA SetsMove ==
    ASSUME SafeInv, NEW w \in Workers, NEW c, run' = [run EXCEPT ![w] = c], NEW d
    PROVE  /\ Posted(d)' = IF c.posted /\ c.dispatch = d
                           THEN Posted(d) \cup {w} ELSE Posted(d) \ {w}
           /\ Posting(d)' = IF (c.stage = "send" \/ c.posted) /\ c.dispatch = d
                            THEN Posting(d) \cup {w} ELSE Posting(d) \ {w}
           /\ Accepting(d)' = IF /\ \/ c.stage = "send"
                                    \/ c.posted /\ c.status = "delivered_to_partner"
                                 /\ c.dispatch = d
                              THEN Accepting(d) \cup {w} ELSE Accepting(d) \ {w}
<1>1. run'[w] = c /\ \A u \in Workers : u # w => run'[u] = run[u]
  BY DEF SafeInv, RetryTypeOK
<1>2. QED
  BY <1>1 DEF Posted, Posting, Accepting

\* A step between two places that are no post under way changes no count.
LEMMA OutsideCounted ==
    ASSUME BudgetInv, NEW w \in Workers, NEW c, run' = [run EXCEPT ![w] = c],
           run[w].stage # "send", ~run[w].posted, c.stage # "send", ~c.posted,
           UNCHANGED <<receipts, posts, unrecorded>>, NEW d \in Dispatches
    PROVE  Counted(d)'
<1>1. /\ Posted(d)' = Posted(d) \ {w} /\ Posting(d)' = Posting(d) \ {w}
      /\ Accepting(d)' = Accepting(d) \ {w}
  BY SetsMove DEF BudgetInv
<1>2. w \notin Posted(d) /\ w \notin Posting(d) /\ w \notin Accepting(d)
  BY DEF Posted, Posting, Accepting
<1>3. Posted(d)' = Posted(d) /\ Posting(d)' = Posting(d) /\ Accepting(d)' = Accepting(d)
  BY <1>1, <1>2
<1>4. PostReceipts(d)' = PostReceipts(d) /\ Acceptances(d)' = Acceptances(d)
  BY DEF PostReceipts, Acceptances
<1>5. QED
  BY <1>3, <1>4 DEF BudgetInv, Counted

\* A worker that decides to post has read fewer receipts than the budget, and
\* no acceptance; at worst all other workers have decided the same.
LEMMA NextRowCounted ==
    ASSUME BudgetInv, NEW w \in Workers, NextRow(w), NEW d \in Dispatches
    PROVE  Counted(d)'
<1>s. SafeInv /\ Counted(d)
  BY DEF BudgetInv
<1>1. PICK c : /\ run' = [run EXCEPT ![w] = c] /\ Place(c) /\ ~c.posted
               /\ \/ /\ c.stage = "send"
                     /\ ~HasSuccessfulPartnerDelivery(c.dispatch)
                     /\ PriorAttempts(c.dispatch) < MaxAttempts
                  \/ c.stage = "receipt" /\ c.status \notin Sent
  BY <1>s, NextRowMoves
<1>2. run[w].stage = "next" /\ ~run[w].posted /\ UNCHANGED <<receipts, posts, unrecorded>>
  BY <1>s, PlaceOfRun DEF NextRow, Place, RunSound
<1>3. CASE c.stage # "send"
  BY <1>1, <1>2, <1>3, OutsideCounted
<1>4. CASE c.stage = "send"
  <2>1. /\ Posted(d)' = Posted(d) \ {w}
        /\ Posting(d)' = IF c.dispatch = d THEN Posting(d) \cup {w} ELSE Posting(d) \ {w}
        /\ Accepting(d)' = IF c.dispatch = d THEN Accepting(d) \cup {w} ELSE Accepting(d) \ {w}
    <3>1. Posted(d)' = Posted(d) \ {w}
      BY <1>s, <1>1, SetsMove
    <3>2. Posting(d)' = IF (c.stage = "send" \/ c.posted) /\ c.dispatch = d
                        THEN Posting(d) \cup {w} ELSE Posting(d) \ {w}
      BY <1>s, <1>1, SetsMove
    <3>3. Accepting(d)' = IF /\ \/ c.stage = "send"
                                \/ c.posted /\ c.status = "delivered_to_partner"
                             /\ c.dispatch = d
                          THEN Accepting(d) \cup {w} ELSE Accepting(d) \ {w}
      BY <1>s, <1>1, SetsMove
    <3>4. QED
      BY <1>4, <3>1, <3>2, <3>3
  <2>2. w \notin Posted(d) /\ w \notin Posting(d) /\ w \notin Accepting(d)
    BY <1>2 DEF Posted, Posting, Accepting
  <2>3. /\ PostReceipts(d)' = PostReceipts(d) /\ Acceptances(d)' = Acceptances(d)
        /\ Posted(d)' = Posted(d)
    BY <1>2, <2>1, <2>2 DEF PostReceipts, Acceptances
  <2>4. CASE c.dispatch # d
    <3>1. Posting(d)' = Posting(d) /\ Accepting(d)' = Accepting(d)
      BY <2>1, <2>2, <2>4
    <3>2. QED
      BY <1>s, <1>2, <2>3, <3>1 DEF Counted
  <2>5. CASE c.dispatch = d
    <3>1. Cardinality(Posting(d)') <= Cardinality(Workers)
      <4>1. Posting(d)' \in SUBSET Workers
        BY <2>1, <2>5 DEF Posting
      <4>2. QED
        BY <1>s, <4>1, CountsAreNat, FS_Subset
    <3>2. Cardinality(Accepting(d)') <= Cardinality(Workers)
      <4>1. Accepting(d)' \in SUBSET Workers
        BY <2>1, <2>5 DEF Accepting
      <4>2. QED
        BY <1>s, <4>1, CountsAreNat, FS_Subset
    <3>3. Acceptances(d) = {}
      BY <1>1, <1>4, <2>5 DEF Acceptances, HasSuccessfulPartnerDelivery
    <3>4. Cardinality(PostReceipts(d)) <= PriorAttempts(d) /\ PriorAttempts(d) \in Nat
      <4> DEFINE live == {i \in DOMAIN receipts : receipts[i].dispatch = d /\ LiveAttempt(receipts[i])}
      <4>1. PostReceipts(d) \in SUBSET live
        BY <1>s DEF PostReceipts, LiveAttempt, Sent, SafeInv, ReceiptsSound
      <4>2. live \in SUBSET DOMAIN receipts
        OBVIOUS
      <4>3. IsFiniteSet(live)
        BY <1>s, <4>2, CountsAreNat, FS_Subset
      <4>4. PriorAttempts(d) = Cardinality(live)
        BY DEF PriorAttempts
      <4> HIDE DEF live
      <4>5. QED
        BY <4>1, <4>3, <4>4, FS_Subset, FS_CardinalityType
    <3>5. Cardinality(Acceptances(d)) = 0
      BY <3>3, FS_EmptySet
    <3>6. Cardinality(Posting(d)') \in Nat /\ Cardinality(Accepting(d)') \in Nat
      BY <1>s, <2>1, <2>5, CountsAreNat, FS_AddElement, FS_CardinalityType
    <3>7. Cardinality(PostReceipts(d)) + Cardinality(Posting(d)') < MaxAttempts + Cardinality(Workers)
      BY <1>s, <1>1, <1>4, <2>5, <3>1, <3>4, <3>6, CountsAreNat, RetryAssumption DEF RetryAssumption
    <3>8. posts'[d] <= Cardinality(PostReceipts(d)') + unrecorded'[d] + Cardinality(Posted(d)')
      BY <1>s, <1>2, <2>3 DEF Counted
    <3>9. QED
      BY <1>s, <2>3, <3>2, <3>5, <3>6, <3>7, <3>8, CountsAreNat DEF Counted
  <2>6. QED
    BY <2>4, <2>5
<1>5. QED
  BY <1>3, <1>4

LEMMA SendCounted ==
    ASSUME BudgetInv, NEW w \in Workers, Send(w), NEW d \in Dispatches
    PROVE  Counted(d)'
<1>s. SafeInv /\ Counted(d)
  BY DEF BudgetInv
<1>1. PICK c : /\ run' = [run EXCEPT ![w] = c] /\ Place(c)
               /\ c.posted /\ c.stage = "receipt" /\ c.dispatch = run[w].dispatch
  BY <1>s, SendMoves
<1>2. /\ run[w].stage = "send" /\ ~run[w].posted /\ run[w].dispatch \in Dispatches
      /\ UNCHANGED <<receipts, unrecorded>>
      /\ posts' = [posts EXCEPT ![run[w].dispatch] = posts[run[w].dispatch] + 1]
  BY <1>s, PlaceOfRun DEF Send, Place, RunSound
<1>3. PostReceipts(d)' = PostReceipts(d) /\ Acceptances(d)' = Acceptances(d)
  BY <1>2 DEF PostReceipts, Acceptances
<1>4. posts \in [Dispatches -> Nat] /\ unrecorded \in [Dispatches -> Nat]
  BY <1>s DEF SafeInv, RetryTypeOK
<1>m. /\ Posted(d)' = IF c.dispatch = d THEN Posted(d) \cup {w} ELSE Posted(d) \ {w}
      /\ Posting(d)' = IF c.dispatch = d THEN Posting(d) \cup {w} ELSE Posting(d) \ {w}
      /\ \/ Accepting(d)' = Accepting(d) \cup {w} /\ c.dispatch = d
         \/ Accepting(d)' = Accepting(d) \ {w}
  <2>1. Posted(d)' = IF c.posted /\ c.dispatch = d
                     THEN Posted(d) \cup {w} ELSE Posted(d) \ {w}
    BY <1>s, <1>1, SetsMove
  <2>2. Posting(d)' = IF (c.stage = "send" \/ c.posted) /\ c.dispatch = d
                      THEN Posting(d) \cup {w} ELSE Posting(d) \ {w}
    BY <1>s, <1>1, SetsMove
  <2>3. Accepting(d)' = IF /\ \/ c.stage = "send"
                              \/ c.posted /\ c.status = "delivered_to_partner"
                           /\ c.dispatch = d
                        THEN Accepting(d) \cup {w} ELSE Accepting(d) \ {w}
    BY <1>s, <1>1, SetsMove
  <2>4. QED
    BY <1>1, <2>1, <2>2, <2>3
<1>5. CASE c.dispatch # d
  <2>1. w \notin Posted(d) /\ w \notin Posting(d) /\ w \notin Accepting(d)
    BY <1>1, <1>5 DEF Posted, Posting, Accepting
  <2>2. Posted(d)' = Posted(d) /\ Posting(d)' = Posting(d) /\ Accepting(d)' = Accepting(d)
    BY <1>m, <1>5, <2>1
  <2>3. posts'[d] = posts[d]
    BY <1>1, <1>2, <1>4, <1>5
  <2>4. QED
    BY <1>s, <1>2, <1>3, <2>2, <2>3 DEF Counted
<1>6. CASE c.dispatch = d
  <2>1. w \notin Posted(d) /\ w \in Posting(d) /\ w \in Accepting(d)
    BY <1>1, <1>2, <1>6 DEF Posted, Posting, Accepting
  <2>2. Posting(d)' = Posting(d)
    BY <1>m, <1>6, <2>1
  <2>3. Cardinality(Posted(d)') = Cardinality(Posted(d)) + 1
    BY <1>s, <1>m, <1>6, <2>1, CountsAreNat, FS_AddElement
  <2>4. /\ Cardinality(Accepting(d)') <= Cardinality(Accepting(d))
        /\ Cardinality(Accepting(d)') \in Nat
    <3>1. Accepting(d)' \in SUBSET Accepting(d)
      BY <1>m, <2>1
    <3>2. QED
      BY <1>s, <3>1, CountsAreNat, FS_Subset, FS_CardinalityType
  <2>5. posts'[d] = posts[d] + 1 /\ posts[d] \in Nat /\ unrecorded[d] \in Nat
    BY <1>1, <1>2, <1>4, <1>6
  <2>6. posts'[d] <= Cardinality(PostReceipts(d)') + unrecorded'[d] + Cardinality(Posted(d)')
    BY <1>s, <1>2, <1>3, <2>3, <2>5, CountsAreNat DEF Counted
  <2>7. Cardinality(Acceptances(d)') + Cardinality(Accepting(d)') <= Cardinality(Workers)
    BY <1>s, <1>3, <2>4, CountsAreNat DEF Counted
  <2>8. QED
    BY <1>s, <1>3, <2>2, <2>6, <2>7 DEF Counted
<1>7. QED
  BY <1>5, <1>6

Among(rows, d, K) == {i \in DOMAIN rows : rows[i].dispatch = d /\ rows[i].status \in K}

\* One more receipt about d with a status among those counted counts one more.
LEMMA AppendCounts ==
    ASSUME NEW rows \in Seq(Receipt), NEW r \in Receipt, NEW d, NEW K
    PROVE  Cardinality(Among(Append(rows, r), d, K)) =
             IF r.dispatch = d /\ r.status \in K THEN Cardinality(Among(rows, d, K)) + 1
                                                ELSE Cardinality(Among(rows, d, K))
<1>0. PICK longer : longer = Append(rows, r)
  OBVIOUS
<1> DEFINE old == Among(rows, d, K)
           new == Among(longer, d, K)
           n == Len(rows) + 1
<1>1. /\ DOMAIN rows = 1 .. Len(rows) /\ Len(rows) \in Nat
      /\ DOMAIN longer = DOMAIN rows \cup {n} /\ n \notin DOMAIN rows
      /\ longer[n] = r /\ \A i \in DOMAIN rows : longer[i] = rows[i]
  BY <1>0
<1>2. new = IF r.dispatch = d /\ r.status \in K THEN old \cup {n} ELSE old
  BY <1>1 DEF Among
<1>3. n \notin old
  BY <1>1 DEF Among
<1>4. IsFiniteSet(old)
  <2>1. IsFiniteSet(DOMAIN rows) /\ old \in SUBSET DOMAIN rows
    BY <1>1, FS_Interval DEF Among
  <2>2. QED
    BY <2>1, FS_Subset
<1> HIDE DEF old, new, n
<1>5. Cardinality(new) = IF r.dispatch = d /\ r.status \in K
                         THEN Cardinality(old) + 1 ELSE Cardinality(old)
  BY <1>2, <1>3, <1>4, FS_AddElement
<1>6. QED
  BY <1>0, <1>5 DEF old, new

\* A receipt moves a post from its worker to the ledger, or among the lost.
LEMMA AppendReceiptCounted ==
    ASSUME BudgetInv, NEW w \in Workers, AppendReceipt(w), NEW d \in Dispatches
    PROVE  Counted(d)'
<1>s. SafeInv /\ Counted(d)
  BY DEF BudgetInv
<1>1. PICK c : run' = [run EXCEPT ![w] = c] /\ Place(c) /\ Quiet(c)
  BY <1>s, AppendReceiptMoves
<1>2. /\ run[w].stage = "receipt" /\ run[w].dispatch \in Dispatches /\ run[w] \in Run
      /\ run[w].posted <=> run[w].status \in Sent
      /\ posts' = posts
  BY <1>s, PlaceOfRun DEF AppendReceipt, Place, RunSound
<1>3. posts \in [Dispatches -> Nat] /\ unrecorded \in [Dispatches -> Nat] /\ receipts \in Seq(Receipt)
  BY <1>s DEF SafeInv, RetryTypeOK
<1>m. /\ Posted(d)' = Posted(d) \ {w} /\ Posting(d)' = Posting(d) \ {w}
      /\ Accepting(d)' = Accepting(d) \ {w}
  <2>1. Posted(d)' = Posted(d) \ {w}
    BY <1>s, <1>1, SetsMove DEF Quiet
  <2>2. Posting(d)' = Posting(d) \ {w}
    BY <1>s, <1>1, SetsMove DEF Quiet
  <2>3. Accepting(d)' = Accepting(d) \ {w}
    BY <1>s, <1>1, SetsMove DEF Quiet
  <2>4. QED
    BY <2>1, <2>2, <2>3
<1>4. /\ w \in Posted(d) <=> run[w].posted /\ run[w].dispatch = d
      /\ w \in Posting(d) <=> run[w].posted /\ run[w].dispatch = d
      /\ w \in Accepting(d) <=> run[w].status = "delivered_to_partner" /\ run[w].dispatch = d
  BY <1>2 DEF Posted, Posting, Accepting, Sent
<1>5. /\ Cardinality(Posted(d)') = IF run[w].posted /\ run[w].dispatch = d
                                   THEN Cardinality(Posted(d)) - 1 ELSE Cardinality(Posted(d))
      /\ Cardinality(Posting(d)') = IF run[w].posted /\ run[w].dispatch = d
                                    THEN Cardinality(Posting(d)) - 1 ELSE Cardinality(Posting(d))
      /\ Cardinality(Accepting(d)') =
           IF run[w].status = "delivered_to_partner" /\ run[w].dispatch = d
           THEN Cardinality(Accepting(d)) - 1 ELSE Cardinality(Accepting(d))
  <2>1. \A S : IsFiniteSet(S) => Cardinality(S \ {w}) = IF w \in S THEN Cardinality(S) - 1
                                                                 ELSE Cardinality(S)
    BY FS_RemoveElement
  <2>2. IsFiniteSet(Posted(d)) /\ IsFiniteSet(Posting(d)) /\ IsFiniteSet(Accepting(d))
    BY <1>s, CountsAreNat
  <2>3. /\ Cardinality(Posted(d) \ {w}) = IF run[w].posted /\ run[w].dispatch = d
                                          THEN Cardinality(Posted(d)) - 1 ELSE Cardinality(Posted(d))
        /\ Cardinality(Posting(d) \ {w}) = IF run[w].posted /\ run[w].dispatch = d
                                           THEN Cardinality(Posting(d)) - 1 ELSE Cardinality(Posting(d))
        /\ Cardinality(Accepting(d) \ {w}) =
             IF run[w].status = "delivered_to_partner" /\ run[w].dispatch = d
             THEN Cardinality(Accepting(d)) - 1 ELSE Cardinality(Accepting(d))
    BY <1>4, <2>1, <2>2
  <2>4. QED
    BY <1>m, <2>3
<1>6. posts'[d] = posts[d] /\ posts[d] \in Nat /\ unrecorded[d] \in Nat
  BY <1>2, <1>3
<1> DEFINE r == [dispatch |-> run[w].dispatch, status |-> run[w].status, dryRun |-> run[w].dryRun]
<1>7. CASE receipts' = Append(receipts, r) /\ UNCHANGED unrecorded
  <2>1. r \in Receipt
    BY <1>2 DEF Receipt, Run
  <2>2. r.dispatch = run[w].dispatch /\ r.status = run[w].status
    OBVIOUS
  <2>0. receipts' = Append(receipts, r)
    BY <1>7
  <2> HIDE DEF r
  <2>3. Cardinality(PostReceipts(d)') =
          IF run[w].posted /\ run[w].dispatch = d
          THEN Cardinality(PostReceipts(d)) + 1 ELSE Cardinality(PostReceipts(d))
    <3> PICK longer : longer = receipts'
      OBVIOUS
    <3>0. receipts \in Seq(Receipt) /\ r \in Receipt /\ longer = Append(receipts, r)
      BY <1>3, <2>0, <2>1
    <3>1. Cardinality(Among(longer, d, Sent)) = IF r.dispatch = d /\ r.status \in Sent
                                                THEN Cardinality(Among(receipts, d, Sent)) + 1
                                                ELSE Cardinality(Among(receipts, d, Sent))
      BY <3>0, AppendCounts
    <3>2. PostReceipts(d) = Among(receipts, d, Sent) /\ PostReceipts(d)' = Among(longer, d, Sent)
      BY DEF PostReceipts, Among
    <3>3. (r.dispatch = d /\ r.status \in Sent) <=> (run[w].posted /\ run[w].dispatch = d)
      BY <1>2, <2>2
    <3>4. QED
      BY <3>1, <3>2, <3>3
  <2>4. Cardinality(Acceptances(d)') =
          IF run[w].status = "delivered_to_partner" /\ run[w].dispatch = d
          THEN Cardinality(Acceptances(d)) + 1 ELSE Cardinality(Acceptances(d))
    <3> PICK longer : longer = receipts'
      OBVIOUS
    <3> DEFINE K == {"delivered_to_partner"}
    <3>0. receipts \in Seq(Receipt) /\ r \in Receipt /\ longer = Append(receipts, r)
      BY <1>3, <2>0, <2>1
    <3>1. Cardinality(Among(longer, d, K)) = IF r.dispatch = d /\ r.status \in K
                                             THEN Cardinality(Among(receipts, d, K)) + 1
                                             ELSE Cardinality(Among(receipts, d, K))
      <4> HIDE DEF K
      <4>1. QED
        BY <3>0, AppendCounts
    <3>2. Acceptances(d) = Among(receipts, d, K) /\ Acceptances(d)' = Among(longer, d, K)
      BY DEF Acceptances, Among
    <3>3. (r.dispatch = d /\ r.status \in K)
            <=> (run[w].status = "delivered_to_partner" /\ run[w].dispatch = d)
      BY <2>2
    <3> HIDE DEF K
    <3>4. QED
      BY <3>1, <3>2, <3>3
  <2>5. unrecorded'[d] = unrecorded[d]
    BY <1>7
  <2>6. QED
    BY <1>s, <1>5, <1>6, <2>3, <2>4, <2>5, CountsAreNat DEF Counted
<1>8. CASE /\ UNCHANGED receipts
           /\ unrecorded' = [unrecorded EXCEPT ![run[w].dispatch] =
                               IF run[w].posted THEN unrecorded[run[w].dispatch] + 1
                               ELSE unrecorded[run[w].dispatch]]
  <2>1. PostReceipts(d)' = PostReceipts(d) /\ Acceptances(d)' = Acceptances(d)
    BY <1>8 DEF PostReceipts, Acceptances
  <2>2. unrecorded'[d] = IF run[w].posted /\ run[w].dispatch = d
                         THEN unrecorded[d] + 1 ELSE unrecorded[d]
    BY <1>3, <1>8
  <2>3. QED
    BY <1>s, <1>5, <1>6, <2>1, <2>2, CountsAreNat, RetryAssumption DEF Counted, RetryAssumption
<1>9. QED
  BY <1>7, <1>8 DEF AppendReceipt

\* A restart turns every post under way into a lost one.
LEMMA RestartCounted ==
    ASSUME BudgetInv, RestartAll, NEW d \in Dispatches
    PROVE  Counted(d)'
<1>s. SafeInv /\ Counted(d)
  BY DEF BudgetInv
<1>1. \A w \in Workers : run'[w].stage = "idle" /\ ~run'[w].posted
  BY DEF RestartAll, IdleRun
<1>2. Posted(d)' = {} /\ Posting(d)' = {} /\ Accepting(d)' = {}
  BY <1>1 DEF Posted, Posting, Accepting
<1>3. unrecorded'[d] = unrecorded[d] + Cardinality(Posted(d))
  BY DEF RestartAll, Posted
<1>4. posts' = posts /\ PostReceipts(d)' = PostReceipts(d) /\ Acceptances(d)' = Acceptances(d)
  BY DEF RestartAll, PostReceipts, Acceptances
<1>5. posts[d] \in Nat /\ unrecorded[d] \in Nat
  BY <1>s DEF SafeInv, RetryTypeOK
<1>6. /\ Cardinality(Posted(d)') = 0 /\ Cardinality(Posting(d)') = 0
      /\ Cardinality(Accepting(d)') = 0
  BY <1>2, FS_EmptySet
<1>7. QED
  BY <1>s, <1>3, <1>4, <1>5, <1>6, CountsAreNat, RetryAssumption DEF Counted, RetryAssumption

LEMMA InitCounted ==
    ASSUME RetryInit, NEW d \in Dispatches
    PROVE  Counted(d)
<1>1. SafeInv
  BY InitSafe
<1>2. \A w \in Workers : run[w].stage = "idle" /\ ~run[w].posted
  BY DEF RetryInit, IdleRun
<1>3. Posted(d) = {} /\ Posting(d) = {} /\ Accepting(d) = {}
  BY <1>2 DEF Posted, Posting, Accepting
<1>4. DOMAIN receipts = {} /\ posts[d] = 0 /\ unrecorded[d] = 0
  BY DEF RetryInit
<1>5. PostReceipts(d) = {} /\ Acceptances(d) = {}
  BY <1>4 DEF PostReceipts, Acceptances
<1>6. QED
  BY <1>1, <1>3, <1>4, <1>5, FS_EmptySet, CountsAreNat, RetryAssumption DEF Counted, RetryAssumption

\* Every step keeps the counts.
LEMMA NextCounted ==
    ASSUME BudgetInv, [RetryNext]_vars, NEW d \in Dispatches
    PROVE  Counted(d)'
<1>1. CASE UNCHANGED retryVars
  BY <1>1 DEF retryVars, BudgetInv, Counted, Posted, Posting, Accepting, PostReceipts, Acceptances
<1>2. ASSUME NEW w \in Workers, WorkerStep(w) PROVE Counted(d)'
  <2>s. SafeInv /\ Place(run[w])
    BY PlaceOfRun DEF BudgetInv
  <2>1. ASSUME NEW wanted, NEW dryRun \in BOOLEAN, StartRun(w, wanted, dryRun) PROVE Counted(d)'
    <3>1. PICK c : run' = [run EXCEPT ![w] = c] /\ Quiet(c)
      BY <2>s, <2>1, StartRunMoves
    <3>2. run[w].stage = "idle" /\ UNCHANGED <<receipts, posts, unrecorded>>
      BY <2>1 DEF StartRun
    <3>3. QED
      BY <2>s, <3>1, <3>2, OutsideCounted DEF Quiet, Place, RunSound
  <2>2. CASE RecordRetry(w) \/ FinishRun(w)
    <3>1. PICK c : run' = [run EXCEPT ![w] = c] /\ Quiet(c)
      BY <2>s, <2>2, RecordRetryMoves
    <3>2. run[w].stage \in {"event", "next"} /\ UNCHANGED <<receipts, posts, unrecorded>>
      BY <2>2 DEF RecordRetry, FinishRun
    <3>3. QED
      BY <2>s, <3>1, <3>2, OutsideCounted DEF Quiet, Place, RunSound
  <2>3. QED
    BY <1>2, <2>1, <2>2, NextRowCounted, SendCounted, AppendReceiptCounted DEF WorkerStep
<1>3. QED
  BY <1>1, <1>2, RestartCounted DEF RetryNext, OutboxStep, vars

-----------------------------------------------------------------------------
(* The theorems. *)

\* Types, released posts and counts together are inductive.
THEOREM RetryInvariant == RetrySpec => []BudgetInv
<1>1. RetryInit => BudgetInv
  BY InitSafe, InitCounted DEF BudgetInv
<1>2. BudgetInv /\ [RetryNext]_vars => BudgetInv'
  <2> SUFFICES ASSUME BudgetInv, [RetryNext]_vars PROVE BudgetInv'
    OBVIOUS
  <2>1. SafeInv'
    BY NextSafe DEF BudgetInv
  <2>2. \A d \in Dispatches : Counted(d)'
    BY NextCounted
  <2>3. QED
    BY <2>1, <2>2 DEF BudgetInv
<1>3. QED
  BY <1>1, <1>2, PTL DEF RetrySpec

\* Every reachable state of the retries is well-typed.
THEOREM RetryTypes == RetrySpec => []RetryTypeOK
<1>1. BudgetInv => RetryTypeOK
  BY DEF BudgetInv, SafeInv
<1>2. QED
  BY <1>1, RetryInvariant, PTL

\* No partner is ever sent a dispatch that neither the boundary let through
\* nor an operator approved.
THEOREM PostsHaveReleases == RetrySpec => []PostsAreReleased
<1>1. BudgetInv => PostsAreReleased
  BY DEF BudgetInv, SafeInv
<1>2. QED
  BY <1>1, RetryInvariant, PTL

\* However many runs overlap, writes fail and restarts happen: the budget holds
\* up to one post per additional worker and one per lost receipt.
THEOREM BudgetHolds == RetrySpec => []AttemptBudget
<1>1. BudgetInv => AttemptBudget
  <2> SUFFICES ASSUME BudgetInv, NEW d \in Dispatches
               PROVE  posts[d] <= MaxAttempts + unrecorded[d] + Cardinality(Workers) - 1
    BY DEF AttemptBudget
  <2>1. SafeInv /\ Counted(d) /\ posts[d] \in Nat /\ unrecorded[d] \in Nat
    BY DEF BudgetInv, SafeInv, RetryTypeOK
  <2>2. Cardinality(Posted(d)) <= Cardinality(Posting(d))
    <3>1. Posted(d) \in SUBSET Posting(d)
      BY DEF Posted, Posting
    <3>2. QED
      BY <2>1, <3>1, CountsAreNat, FS_Subset
  <2>3. QED
    BY <2>1, <2>2, CountsAreNat, RetryAssumption DEF Counted, RetryAssumption
<1>2. QED
  BY <1>1, RetryInvariant, PTL

\* The ledger never holds more acceptances of a dispatch than there are workers.
THEOREM AcceptancesAreFew == RetrySpec => []AcceptancesBounded
<1>1. BudgetInv => AcceptancesBounded
  <2> SUFFICES ASSUME BudgetInv, NEW d \in Dispatches
               PROVE  Cardinality(Acceptances(d)) <= Cardinality(Workers)
    BY DEF AcceptancesBounded
  <2>1. SafeInv /\ Counted(d)
    BY DEF BudgetInv
  <2>2. QED
    BY <2>1, CountsAreNat DEF Counted
<1>2. QED
  BY <1>1, RetryInvariant, PTL

-----------------------------------------------------------------------------
(* A dispatch the ledger closes stays closed. *)

\* The ledger holds an acceptance, or as many live attempts as are allowed, and
\* no run is past its check of them.
Closed(d) ==
    /\ HasSuccessfulPartnerDelivery(d) \/ ~(PriorAttempts(d) < MaxAttempts)
    /\ \A w \in Workers : ~(run[w].stage = "send" /\ run[w].dispatch = d)

\* No step posts a closed dispatch, or opens it again.
ClosedForGood == [][\A d \in Dispatches : Closed(d) => posts'[d] = posts[d] /\ Closed(d)']_vars

\* Receipts are only added, so what the checks read of them only grows.
LEMMA GrowingLedger ==
    ASSUME SafeInv, NEW d,
           receipts' = receipts \/ \E r : receipts' = Append(receipts, r)
    PROVE  HasSuccessfulPartnerDelivery(d) \/ ~(PriorAttempts(d) < MaxAttempts)
             => (HasSuccessfulPartnerDelivery(d) \/ ~(PriorAttempts(d) < MaxAttempts))'
<1> PICK longer : longer = receipts'
  OBVIOUS
<1> DEFINE live(rows) == {i \in DOMAIN rows : rows[i].dispatch = d /\ LiveAttempt(rows[i])}
<1>1. /\ receipts \in Seq(Receipt)
      /\ longer = receipts \/ \E r : longer = Append(receipts, r)
  BY DEF SafeInv, RetryTypeOK
<1>2. /\ DOMAIN receipts \subseteq DOMAIN longer
      /\ \A i \in DOMAIN receipts : longer[i] = receipts[i]
      /\ IsFiniteSet(DOMAIN longer)
  <2>1. /\ DOMAIN receipts = 1 .. Len(receipts) /\ Len(receipts) \in Nat
        /\ DOMAIN longer = 1 .. Len(receipts) \/ DOMAIN longer = 1 .. Len(receipts) + 1
        /\ \A i \in DOMAIN receipts : longer[i] = receipts[i]
    BY <1>1
  <2>2. QED
    BY <2>1, FS_Interval
<1>3. CASE HasSuccessfulPartnerDelivery(d)
  BY <1>2, <1>3 DEF HasSuccessfulPartnerDelivery
<1>4. CASE ~(PriorAttempts(d) < MaxAttempts)
  <2>1. live(receipts) \in SUBSET live(longer) /\ live(longer) \in SUBSET DOMAIN longer
    BY <1>2
  <2>2. PriorAttempts(d) = Cardinality(live(receipts)) /\ PriorAttempts(d)' = Cardinality(live(longer))
    BY DEF PriorAttempts, LiveAttempt
  <2> HIDE DEF live
  <2>3. IsFiniteSet(live(longer)) /\ Cardinality(live(receipts)) <= Cardinality(live(longer))
        /\ IsFiniteSet(live(receipts))
    BY <1>2, <2>1, FS_Subset
  <2>4. Cardinality(live(receipts)) \in Nat /\ Cardinality(live(longer)) \in Nat
    BY <2>3, FS_CardinalityType
  <2>5. ~(Cardinality(live(longer)) < MaxAttempts)
    BY <1>4, <2>2, <2>3, <2>4, RetryAssumption DEF RetryAssumption
  <2>6. QED
    BY <2>2, <2>5
<1>5. QED
  BY <1>3, <1>4

\* One worker moves to a place where it does not send d, and posts nothing.
LEMMA ClosedStays ==
    ASSUME SafeInv, NEW d, NEW w \in Workers, NEW c, Closed(d),
           run' = [run EXCEPT ![w] = c], ~(c.stage = "send" /\ c.dispatch = d),
           receipts' = receipts \/ \E r : receipts' = Append(receipts, r)
    PROVE  Closed(d)'
<1>1. run \in [Workers -> Run]
  BY DEF SafeInv, RetryTypeOK
<1>2. \A v \in Workers : ~(run'[v].stage = "send" /\ run'[v].dispatch = d)
  BY <1>1 DEF Closed
<1>3. QED
  BY <1>2, GrowingLedger DEF Closed

LEMMA WorkerKeepsClosed ==
    ASSUME SafeInv, NEW w \in Workers, WorkerStep(w), NEW d \in Dispatches, Closed(d)
    PROVE  posts'[d] = posts[d] /\ Closed(d)'
<1>1. ASSUME NEW wanted, NEW dryRun \in BOOLEAN, StartRun(w, wanted, dryRun)
      PROVE  posts'[d] = posts[d] /\ Closed(d)'
  <2>1. PICK c : run' = [run EXCEPT ![w] = c] /\ Quiet(c)
    BY <1>1, StartRunMoves
  <2>2. UNCHANGED <<receipts, posts>>
    BY <1>1 DEF StartRun
  <2>3. QED
    BY <2>1, <2>2, ClosedStays DEF Quiet
<1>2. CASE NextRow(w)
  <2>1. PICK c : /\ run' = [run EXCEPT ![w] = c]
                 /\ \/ /\ c.stage = "send"
                       /\ ~HasSuccessfulPartnerDelivery(c.dispatch)
                       /\ PriorAttempts(c.dispatch) < MaxAttempts
                    \/ c.stage = "receipt"
    BY <1>2, NextRowMoves
  <2>2. ~(c.stage = "send" /\ c.dispatch = d)
    BY <2>1 DEF Closed
  <2>3. UNCHANGED <<receipts, posts>>
    BY <1>2 DEF NextRow
  <2>4. QED
    BY <2>1, <2>2, <2>3, ClosedStays
<1>3. CASE Send(w)
  <2>1. PICK c : run' = [run EXCEPT ![w] = c] /\ c.stage = "receipt"
    BY <1>3, SendMoves
  <2>2. run[w].dispatch # d /\ receipts' = receipts
    BY <1>3 DEF Send, Closed
  <2>3. posts'[d] = posts[d]
    BY <1>3, <2>2 DEF Send, SafeInv, RetryTypeOK
  <2>4. QED
    BY <2>1, <2>2, <2>3, ClosedStays
<1>4. CASE AppendReceipt(w)
  <2>1. PICK c : run' = [run EXCEPT ![w] = c] /\ Quiet(c)
    BY <1>4, AppendReceiptMoves
  <2>2. posts' = posts /\ (receipts' = receipts \/ \E r : receipts' = Append(receipts, r))
    BY <1>4 DEF AppendReceipt
  <2>3. QED
    BY <2>1, <2>2, ClosedStays DEF Quiet
<1>5. CASE RecordRetry(w) \/ FinishRun(w)
  <2>1. PICK c : run' = [run EXCEPT ![w] = c] /\ Quiet(c)
    BY <1>5, RecordRetryMoves
  <2>2. UNCHANGED <<receipts, posts>>
    BY <1>5 DEF RecordRetry, FinishRun
  <2>3. QED
    BY <2>1, <2>2, ClosedStays DEF Quiet
<1>6. QED
  BY <1>1, <1>2, <1>3, <1>4, <1>5 DEF WorkerStep

\* Once the partner has accepted a dispatch, or its budget is used up, and the
\* runs that had already checked are past their post, nothing sends it again:
\* no later run, no decision or new row of the outbox, no failure, no restart.
THEOREM ClosedDispatchesStayClosed == RetrySpec => ClosedForGood
<1>1. BudgetInv /\ [RetryNext]_vars
        => [\A d \in Dispatches : Closed(d) => posts'[d] = posts[d] /\ Closed(d)']_vars
  <2> SUFFICES ASSUME SafeInv, RetryNext, NEW d \in Dispatches, Closed(d)
               PROVE  posts'[d] = posts[d] /\ Closed(d)'
    BY DEF BudgetInv
  <2>1. CASE OutboxStep
    BY <2>1 DEF OutboxStep, retryVars, Closed, HasSuccessfulPartnerDelivery, PriorAttempts, LiveAttempt
  <2>2. CASE RestartAll
    <3>1. posts' = posts /\ receipts' = receipts /\ \A w \in Workers : run'[w].stage = "idle"
      BY <2>2 DEF RestartAll, IdleRun
    <3>2. QED
      BY <3>1 DEF Closed, HasSuccessfulPartnerDelivery, PriorAttempts, LiveAttempt
  <2>3. ASSUME NEW w \in Workers, WorkerStep(w) PROVE posts'[d] = posts[d] /\ Closed(d)'
    BY <2>3, WorkerKeepsClosed
  <2>4. QED
    BY <2>1, <2>2, <2>3 DEF RetryNext
<1>2. QED
  BY <1>1, RetryInvariant, PTL DEF RetrySpec, ClosedForGood

-----------------------------------------------------------------------------
(* The outbox under the retries. *)

\* A worker leaves the file and the requests alone, and records no event of
\* theirs.
LEMMA WorkersLeaveTheOutbox ==
    ASSUME NEW w \in Workers, WorkerStep(w)
    PROVE  /\ UNCHANGED <<log, published, stage, work>>
           /\ \A e \in events' : e \in events \/ e[2] = "partner_retry"
           /\ events \subseteq events'
<1>1. CASE RecordRetry(w)
  BY <1>1 DEF RecordRetry
<1>2. CASE ~RecordRetry(w)
  BY <1>2 DEF WorkerStep, StartRun, NextRow, Send, AppendReceipt, FinishRun, outboxVars
<1>3. QED
  BY <1>1, <1>2

\* What the lookups of requests rest on survives the retries.
LEMMA NextKeepsLookups ==
    ASSUME LookupInv, SafeInv, [RetryNext]_vars
    PROVE  LookupInv'
<1>t. TypeOK'
  BY NextSafe DEF SafeInv
<1>1. ASSUME UNCHANGED <<log, stage, work>>,
             \A e \in events' : e \in events \/ e[2] = "partner_retry"
      PROVE  LookupInv'
  <2>1. UpdateEventsAreDurable'
    BY <1>1 DEF LookupInv, UpdateEventsAreDurable
  <2>2. QED
    BY <1>1, <1>t, <2>1, QuietLookup
<1>2. CASE UNCHANGED vars
  BY <1>1, <1>2 DEF vars, outboxVars
<1>3. ASSUME NEW w \in Workers, WorkerStep(w) PROVE LookupInv'
  BY <1>1, <1>3, WorkersLeaveTheOutbox
<1>4. CASE OutboxStep
  BY <1>4, RequestLookup, ThreadStepLookup DEF OutboxStep
<1>5. CASE RestartAll
  <2>1. UpdateEventsAreDurable'
    BY <1>5 DEF RestartAll, Restart, LookupInv, UpdateEventsAreDurable
  <2>2. QED
    BY <1>5, <1>t, <2>1, QuietLookup DEF RestartAll, Restart
<1>6. QED
  BY <1>2, <1>3, <1>4, <1>5 DEF RetryNext

\* Deduplication, updates that continue the row they read, durable update
\* events: all the outbox promises of its lookups holds next to retry runs too,
\* which read the same file unlocked and write to the same event ledger.
THEOREM LookupsSurviveRetries == RetrySpec => []LookupInv
<1>1. RetryInit => LookupInv
  <2> SUFFICES ASSUME RetryInit PROVE LookupInv
    OBVIOUS
  <2>1. Init /\ TypeOK /\ DOMAIN log = {}
    BY InitSafe DEF RetryInit, Init, SafeInv
  <2>2. QED
    BY <2>1 DEF Init, LookupInv, CreationSawNoDuplicate, UpdateExtendsNewestSeenRow,
                UpdateEventsAreDurable, InFlightAgreesWithItsRead
<1>2. BudgetInv /\ LookupInv /\ [RetryNext]_vars => LookupInv'
  BY NextKeepsLookups DEF BudgetInv
<1>3. QED
  BY <1>1, <1>2, RetryInvariant, PTL DEF RetrySpec

\* A row is executable only as the boundary delivered it, which it does not for
\* commands that need an operator, or by an operator's approval: the way around
\* the boundary that approvalDecision opens is the only one there is.
ExecutableIsReleased ==
    \A i \in DOMAIN log :
        log[i].status \in EligibleStatus =>
            \/ BoundaryAllowed(log[i].dispatch) /\ log[i].dispatch \notin NeedsApproval
            \/ log[i].kind = "approvalDecision" /\ log[i].approval = "approved"

\* Every row a retry would send is released in one of those two ways, however
\* retries and requests interleave.
THEOREM OnlyDecisionsLiftTheBoundary == RetrySpec => []ExecutableIsReleased
<1>1. BudgetInv => ExecutableIsReleased
  BY DEF BudgetInv, SafeInv, RowsSound, RowSound, EligibleStatus, ExecutableIsReleased
<1>2. QED
  BY <1>1, RetryInvariant, PTL

\* To the file and the requests, a step of the retries is a step of the outbox
\* or nothing at all.
LEMMA StepsSeenByTheFile ==
    ASSUME [RetryNext]_vars
    PROVE  [Next]_outboxVars \/ UNCHANGED <<log, stage, work>>
BY WorkersLeaveTheOutbox DEF RetryNext, RestartAll, OutboxStep, Next, vars, outboxVars

\* Retry runs, however many overlap, do not add to the duplicates nor to the
\* lost updates: after a row a payload is still created, and the row overlooked,
\* at most once per other request thread.
THEOREM RetriesAddNoDuplicates ==
    ASSUME IsFiniteSet(Threads)
    PROVE  RetrySpec => []DuplicatesBoundedByThreads /\ []LostUpdatesBounded
<1>1. RetryInit => OverlapCounts
  BY DEF RetryInit, Init, OverlapCounts
<1>2. LookupInv /\ OverlapCounts /\ [RetryNext]_vars => OverlapCounts'
  <2> SUFFICES ASSUME LookupInv, OverlapCounts, [RetryNext]_vars
               PROVE  OverlapCounts'
    OBVIOUS
  <2>1. CASE [Next]_outboxVars
    BY <2>1, OverlapsStep DEF LookupInv
  <2>2. CASE UNCHANGED <<log, stage, work>>
    BY <2>2 DEF OverlapCounts, OverlappingRows, Behind
  <2>3. QED
    BY <2>1, <2>2, StepsSeenByTheFile
<1>3. LookupInv /\ OverlapCounts => DuplicatesBoundedByThreads /\ LostUpdatesBounded
  BY OverlapsBound
<1>4. QED
  BY <1>1, <1>2, <1>3, LookupsSurviveRetries, PTL DEF RetrySpec

\* With one request at a time the newest row per dispatch is a DispatchLifecycle
\* although any number of retry runs read and report in between.
THEOREM RetriedOutboxIsALifecycle ==
    ASSUME NEW t, Threads = {t}, WindowsFit
    PROVE  RetrySpec => RefinesLifecycle
<1>1. RetryInit => SequentialInv /\ Lifecycle!Init
  BY InitSequential DEF RetryInit
<1>2. LookupInv /\ SequentialInv /\ [RetryNext]_vars
        => SequentialInv' /\ [Lifecycle!Next]_(Lifecycle!lifecycleVars)
  <2> SUFFICES ASSUME LookupInv, SequentialInv, [RetryNext]_vars
               PROVE  SequentialInv' /\ [Lifecycle!Next]_(Lifecycle!lifecycleVars)
    OBVIOUS
  <2>1. CASE [Next]_outboxVars
    BY <2>1, StepImplements DEF Lifecycle!lifecycleVars
  <2>2. CASE UNCHANGED <<log, stage, work>>
    BY <2>2, LogStays DEF SequentialInv, Shape, Lifecycle!lifecycleVars
  <2>3. QED
    BY <2>1, <2>2, StepsSeenByTheFile
<1>3. QED
  BY <1>1, <1>2, LookupsSurviveRetries, PTL DEF RetrySpec, RefinesLifecycle, Lifecycle!Spec

\* Retry runs, however many overlap, do not make it forget a decision either.
THEOREM RetriesForgetNoDecision ==
    ASSUME NEW t, Threads = {t}, WindowsFit
    PROVE  RetrySpec => []StatusShowsDecision /\ [][DecisionsAreKept]_vars
<1>1. RetrySpec => RefinesLifecycle
  BY RetriedOutboxIsALifecycle
<1>2. /\ Lifecycle!Init => StatusShowsDecision
      /\ StatusShowsDecision /\ [Lifecycle!Next]_(Lifecycle!lifecycleVars)
           => StatusShowsDecision' /\ [DecisionsAreKept]_vars
  BY LifecyclePromises
<1> QED
  BY <1>1, <1>2, PTL DEF RefinesLifecycle, Lifecycle!Spec

\* Where a request starts, and with which row, does not depend on the events.
LEMMA RequestsSeenByOutbox ==
    ASSUME NEW t \in Threads, Request(t)
    PROVE  Outbox!Request(t)
<1>1. ASSUME NEW row, NEW next, Begin(t, row, next)
      PROVE  Outbox!Begin(t, row, next)
  <2>1. HasRoom => Outbox!HasRoom
    <3>1. \A S : Outbox!Cardinality(S) = Cardinality(S)
      BY Zenon DEF Cardinality, Outbox!Cardinality
    <3>2. QED
      BY <3>1 DEF HasRoom, Outbox!HasRoom
  <2>2. OutboxEvents' = OutboxEvents
    BY <1>1 DEF Begin, OutboxEvents
  <2>3. QED
    BY <1>1, <2>1, <2>2 DEF Begin, Outbox!Begin
<1>2. PICK d \in Dispatches :
        \/ CreateDispatch(t, d)
        \/ Acknowledge(t, d)
        \/ \E decision \in Decisions : DecideApproval(t, d, decision)
  BY DEF Request
<1>3. Outbox!BoundaryAllowed(d) = BoundaryAllowed(d) /\ Outbox!CreationRow(d) = CreationRow(d)
  <2>1. Outbox!InitialStatus(d) = InitialStatus(d)
    BY DEF InitialStatus, Outbox!InitialStatus
  <2>2. Outbox!BoundaryAllowed(d) = BoundaryAllowed(d)
    BY <2>1 DEF BoundaryAllowed, Outbox!BoundaryAllowed, PolicyGateChecked, Outbox!PolicyGateChecked
  <2>3. Outbox!DispatchStatus(d) = DispatchStatus(d)
    BY <2>1, <2>2 DEF DispatchStatus, Outbox!DispatchStatus
  <2>4. QED
    BY <2>2, <2>3 DEF CreationRow, Outbox!CreationRow
<1>4. \A limit : Outbox!Matching(d, limit) = Matching(d, limit)
  BY DEF Matching, Outbox!Matching, LatestDispatches, Outbox!LatestDispatches,
         RowLimit, Outbox!RowLimit
<1>5. Outbox!FindDispatch(d) = FindDispatch(d) /\ Outbox!HasDuplicate(d) = HasDuplicate(d)
  BY <1>4 DEF FindDispatch, Outbox!FindDispatch, HasDuplicate, Outbox!HasDuplicate
<1>6. \A i, kind, status, approval :
        Outbox!CopyOf(i, kind, status, approval) = CopyOf(i, kind, status, approval)
  BY DEF CopyOf, Outbox!CopyOf
<1>7. CASE CreateDispatch(t, d)
  <2>1. Outbox!CreateDispatch(t, d)
    BY <1>1, <1>3, <1>5, <1>7 DEF CreateDispatch, Outbox!CreateDispatch
  <2>2. QED
    BY <2>1 DEF Outbox!Request
<1>8. CASE Acknowledge(t, d)
  <2>1. Outbox!Acknowledge(t, d)
    BY <1>1, <1>5, <1>6, <1>8 DEF Acknowledge, Outbox!Acknowledge
  <2>2. QED
    BY <2>1 DEF Outbox!Request
<1>9. CASE \E decision \in Decisions : DecideApproval(t, d, decision)
  <2>1. PICK decision \in Decisions : DecideApproval(t, d, decision)
    BY <1>9
  <2>2. Outbox!DecideApproval(t, d, decision)
    BY <1>1, <1>5, <1>6, <2>1 DEF DecideApproval, Outbox!DecideApproval,
                                  DecisionStatus, Outbox!DecisionStatus
  <2>3. QED
    BY <2>1, <2>2 DEF Decisions, Outbox!Decisions, Outbox!Request
<1>10. QED
  BY <1>2, <1>7, <1>8, <1>9

\* What a request records is an event of its own, never one of a retry.
LEMMA ThreadStepsSeenByOutbox ==
    ASSUME TypeOK, NEW t \in Threads, ThreadStep(t)
    PROVE  Outbox!ThreadStep(t)
<1>1. /\ \A next : Advance(t, next) => Outbox!Advance(t, next)
      /\ Finish(t) => Outbox!Finish(t)
      /\ AppendRow(t) => Outbox!AppendRow(t)
      /\ events' = events => OutboxEvents' = OutboxEvents
  BY DEF Advance, Outbox!Advance, Finish, Outbox!Finish, AppendRow, Outbox!AppendRow, OutboxEvents
<1>2. CASE Publish(t)
  BY <1>1, <1>2 DEF Publish, Outbox!Publish, Outbox!ThreadStep
<1>3. CASE PersistDispatch(t)
  <2>1. Outbox!BoundaryAllowed(work[t].dispatch) = BoundaryAllowed(work[t].dispatch)
    BY DEF BoundaryAllowed, Outbox!BoundaryAllowed, PolicyGateChecked,
           Outbox!PolicyGateChecked, InitialStatus, Outbox!InitialStatus
  <2>2. QED
    BY <1>1, <1>3, <2>1 DEF PersistDispatch, Outbox!PersistDispatch, Outbox!ThreadStep
<1>4. CASE AppendUpdate(t)
  BY <1>1, <1>4 DEF AppendUpdate, Outbox!AppendUpdate, Outbox!ThreadStep
<1>5. CASE RecordEvent(t)
  <2>1. work[t].kind # "partner_retry"
    BY <1>5 DEF RecordEvent, TypeOK, Row, Kinds
  <2>2. \/ OutboxEvents' = OutboxEvents \cup {<<work[t].dispatch, work[t].kind>>}
        \/ OutboxEvents' = OutboxEvents
    BY <1>5, <2>1 DEF RecordEvent, OutboxEvents
  <2>3. QED
    BY <1>1, <1>5, <2>2 DEF RecordEvent, Outbox!RecordEvent, Outbox!ThreadStep
<1>6. QED
  BY <1>2, <1>3, <1>4, <1>5 DEF ThreadStep

\* To the outbox's own view, a step of the retries is a step of the outbox or
\* nothing at all.
LEMMA RetriesAreOutboxSteps ==
    ASSUME TypeOK, [RetryNext]_vars
    PROVE  [Outbox!Next]_(Outbox!outboxVars)
<1>1. CASE UNCHANGED vars
  BY <1>1 DEF vars, outboxVars, Outbox!outboxVars, OutboxEvents
<1>2. ASSUME NEW w \in Workers, WorkerStep(w) PROVE UNCHANGED Outbox!outboxVars
  <2>1. OutboxEvents' = OutboxEvents
    BY <1>2, WorkersLeaveTheOutbox DEF OutboxEvents
  <2>2. QED
    BY <1>2, <2>1, WorkersLeaveTheOutbox DEF Outbox!outboxVars
<1>3. CASE RestartAll
  BY <1>3 DEF RestartAll, Restart, Outbox!Next, Outbox!Restart, OutboxEvents
<1>4. CASE OutboxStep
  BY <1>4, RequestsSeenByOutbox, ThreadStepsSeenByOutbox DEF OutboxStep, Outbox!Next
<1>5. QED
  BY <1>1, <1>2, <1>3, <1>4 DEF RetryNext

\* The outbox next to the retries is the outbox: whatever the runs do, everything
\* but their own events only makes the steps the outbox makes alone.
THEOREM RetriesRefineOutbox == RetrySpec => RefinesOutbox
<1>1. RetryInit => Outbox!Init
  BY DEF RetryInit, Init, Outbox!Init, OutboxEvents
<1>2. BudgetInv /\ [RetryNext]_vars => [Outbox!Next]_(Outbox!outboxVars)
  BY RetriesAreOutboxSteps DEF BudgetInv, SafeInv
<1>3. QED
  BY <1>1, <1>2, RetryInvariant, PTL DEF RetrySpec, RefinesOutbox, Outbox!Spec
=============================================================================
