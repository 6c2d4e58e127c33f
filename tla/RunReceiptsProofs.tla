-------------------------- MODULE RunReceiptsProofs --------------------------
(***************************************************************************)
(* Proofs about RunReceipts and the RuntimeLoader under it, for any number *)
(* of requests, workers, slots and failures.                               *)
(***************************************************************************)
EXTENDS RunReceipts, FiniteSetTheorems, SequenceTheorems, TLAPS

(***************************************************************************)
(* Types.                                                                  *)
(***************************************************************************)

\* The receipt list stays a list of receipts when an id moves to its front.
LEMMA ReorderedType ==
    ASSUME order \in Seq(Receipts), NEW r \in Receipts
    PROVE  Reordered(r) \in Seq(Receipts)
<1>1. Without(r) \in Seq(Receipts)
  <2>1. CASE r \notin Stored
    BY <2>1 DEF Without
  <2>2. CASE r \in Stored
    <3>1. PICK i \in DOMAIN order : order[i] = r
      BY <2>2 DEF Stored
    <3> DEFINE c == CHOOSE j \in DOMAIN order : order[j] = r
    <3>2. c \in DOMAIN order
      BY <3>1
    <3>3. c \in 1 .. Len(order) /\ Len(order) \in Nat
      BY <3>2
    <3>6. Without(r) = SubSeq(order, 1, c - 1) \o SubSeq(order, c + 1, Len(order))
      BY <2>2 DEF Without
    <3> HIDE DEF c
    <3>4. SubSeq(order, 1, c - 1) \in Seq(Receipts)
      <4>1. \A k \in 1 .. c - 1 : order[k] \in Receipts
        BY <3>3
      <4> QED
        BY <3>3, <4>1, SubSeqProperties
    <3>5. SubSeq(order, c + 1, Len(order)) \in Seq(Receipts)
      <4>1. \A k \in c + 1 .. Len(order) : order[k] \in Receipts
        BY <3>3
      <4> QED
        BY <3>3, <4>1, SubSeqProperties
    <3> QED
      BY <3>4, <3>5, <3>6, ConcatProperties
  <2> QED
    BY <2>1, <2>2
<1> DEFINE moved == <<r>> \o Without(r)
<1>2. moved \in Seq(Receipts)
  <2>1. <<r>> \in Seq(Receipts)
    OBVIOUS
  <2> QED
    BY <1>1, <2>1, ConcatProperties
<1>3. Reordered(r) = SubSeq(moved, 1, IF Len(moved) < Cap THEN Len(moved) ELSE Cap)
  BY DEF Reordered
<1> HIDE DEF moved
<1>4. (IF Len(moved) < Cap THEN Len(moved) ELSE Cap) \in 0 .. Len(moved)
  BY <1>2, ReceiptAssumption
<1> QED
  BY <1>2, <1>3, <1>4, SubSeqProperties

\* Storing and marking keep the list and the statuses well-typed.
LEMMA StoreType ==
    ASSUME ReceiptTypeOK, NEW r \in Receipts, NEW s \in UpgradeStatuses,
           Store(r, s) \/ Mark(r, s)
    PROVE  order' \in Seq(Receipts) /\ upgrade' \in [Receipts -> UpgradeStatuses]
<1>1. CASE Store(r, s)
  BY <1>1, ReorderedType DEF Store, ReceiptTypeOK, UpgradeStatuses
<1>2. CASE Mark(r, s)
  BY <1>2 DEF Mark, ReceiptTypeOK, UpgradeStatuses
<1> QED
  BY <1>1, <1>2

\* Every step of the loader, in whichever thread, keeps its types.
LEMMA LoaderTypes ==
    ASSUME LoaderTypeOK,
           \/ UNCHANGED loaderVars
           \/ EnsureLoadTask \/ LoaderStep \/ Age
           \/ \E t \in LoadThreads :
                 \/ LockedLoad(t)
                 \/ /\ FirstCheck(t) \/ CallMoves(t, "out")
                    /\ UNCHANGED <<app, loadError, started, lock, task, failures>>
    PROVE  LoaderTypeOK'
<1> USE DEF LoaderTypeOK, LoadThreads, CallStages, CallMoves
<1>1. CASE UNCHANGED loaderVars
  BY <1>1 DEF loaderVars
<1>2. CASE EnsureLoadTask \/ Age \/ StartTask \/ FinishTask \/ TaskCallback
  BY <1>2 DEF EnsureLoadTask, Age, StartTask, FinishTask, TaskCallback, FirstCheck
<1>3. ASSUME NEW t \in LoadThreads, LockedLoad(t)
      PROVE  LoaderTypeOK'
  <2>1. CASE Acquire(t)
    BY <1>3, <2>1 DEF Acquire
  <2>2. CASE ImportSucceeds(t)
    BY <1>3, <2>2 DEF ImportSucceeds
  <2>3. CASE ImportReturns(t)
    BY <1>3, <2>3 DEF ImportReturns
  <2>4. CASE ImportFails(t)
    BY <1>3, <2>4 DEF ImportFails
  <2> QED
    BY <1>3, <2>1, <2>2, <2>3, <2>4 DEF LockedLoad
<1>4. ASSUME NEW t \in LoadThreads, FirstCheck(t) \/ CallMoves(t, "out"),
             UNCHANGED <<app, loadError, started, lock, task, failures>>
      PROVE  LoaderTypeOK'
  BY <1>4 DEF FirstCheck
<1> QED
  BY <1>1, <1>2, <1>3, <1>4 DEF LoaderStep

\* What is being scheduled and worked on is well-typed after a worker's step.
LEMMA WorkerTypes ==
    ASSUME ReceiptTypeOK, NEW w \in Workers, WorkerStep(w)
    PROVE  ReceiptTypeOK'
<1> USE DEF ReceiptTypeOK, WorkerMoves, WorkerStages
<1>1. w \in LoadThreads
  BY DEF LoadThreads
<1>2. worker[w].stage # "idle" => worker[w].receipt \in Receipts
  OBVIOUS
<1>3. CASE WorkerLoad(w)
  BY <1>1, <1>3, LoaderTypes DEF WorkerLoad, receiptVars
<1>4. CASE CallLoader(w) \/ LoaderReturned(w)
  <2>1. LoaderTypeOK'
    BY <1>1, <1>4, LoaderTypes DEF CallLoader, LoaderReturned
  <2>2. UNCHANGED <<order, upgrade, used, slots, queue, loop>>
    BY <1>4 DEF CallLoader, LoaderReturned
  <2>3. PICK s \in WorkerStages : s # "idle" /\ worker[w].stage # "idle"
                                  /\ worker' = [worker EXCEPT ![w].stage = s]
    BY <1>4 DEF CallLoader, LoaderReturned
  <2> QED
    BY <2>1, <2>2, <2>3
<1>5. CASE TakeJob(w)
  <2>1. Head(queue) \in Receipts /\ Tail(queue) \in Seq(Receipts)
    BY <1>5, HeadTailProperties DEF TakeJob
  <2>2. LoaderTypeOK'
    BY <1>5, LoaderTypes DEF TakeJob
  <2> QED
    BY <1>5, <2>1, <2>2, ReceiptAssumption DEF TakeJob
<1>6. CASE MarkRunning(w) \/ Upgrade(w) \/ MarkFailed(w)
  <2>1. LoaderTypeOK'
    BY <1>6, LoaderTypes DEF MarkRunning, Upgrade, MarkFailed
  <2>2. order' \in Seq(Receipts) /\ upgrade' \in [Receipts -> UpgradeStatuses]
    BY <1>2, <1>6, StoreType DEF MarkRunning, Upgrade, MarkFailed, UpgradeStatuses
  <2>3. UNCHANGED <<used, slots, queue, loop>>
    BY <1>6 DEF MarkRunning, Upgrade, MarkFailed
  <2>4. PICK s \in WorkerStages : s # "idle" /\ worker[w].stage # "idle"
                                  /\ worker' = [worker EXCEPT ![w].stage = s]
    BY <1>6 DEF MarkRunning, Upgrade, MarkFailed
  <2> QED
    BY <2>1, <2>2, <2>3, <2>4
<1>7. CASE Refine(w)
  <2>1. LoaderTypeOK'
    BY <1>7, LoaderTypes DEF Refine
  <2> QED
    BY <1>7, <2>1 DEF Refine
<1>8. CASE ReleaseSlot(w)
  <2>1. LoaderTypeOK'
    BY <1>8, LoaderTypes DEF ReleaseSlot
  <2> QED
    BY <1>8, <2>1 DEF ReleaseSlot, Idle
<1> QED
  BY <1>3, <1>4, <1>5, <1>6, <1>7, <1>8 DEF WorkerStep

\* The same for a step of the event loop.
LEMMA LoopTypes ==
    ASSUME ReceiptTypeOK,
           \/ RequestRuntime \/ Schedule
           \/ \E r \in Receipts : AnswerInFull(r) \/ AnswerWithFallback(r)
    PROVE  ReceiptTypeOK'
<1> USE DEF ReceiptTypeOK, LoopStages, Idle
<1>1. CASE RequestRuntime
  BY <1>1, LoaderTypes DEF RequestRuntime, receiptVars
<1>2. ASSUME NEW r \in Receipts, AnswerInFull(r) \/ AnswerWithFallback(r)
      PROVE  ReceiptTypeOK'
  <2>1. LoaderTypeOK'
    BY <1>2, LoaderTypes DEF AnswerInFull, AnswerWithFallback
  <2>2. order' \in Seq(Receipts) /\ upgrade' \in [Receipts -> UpgradeStatuses]
    BY <1>2, StoreType DEF AnswerInFull, AnswerWithFallback, UpgradeStatuses
  <2> QED
    BY <1>2, <2>1, <2>2, ReceiptAssumption DEF AnswerInFull, AnswerWithFallback
<1>3. ASSUME Schedule
      PROVE  ReceiptTypeOK'
  <2>1. LoaderTypeOK'
    BY <1>3, LoaderTypes DEF Schedule, ClaimSlot, MarkDeferred, MarkPending, SubmitJob
  <2>2. loop.receipt \in Receipts
    BY <1>3 DEF Schedule, ClaimSlot, MarkDeferred, MarkPending, SubmitJob
  <2>3. CASE ClaimSlot
    BY <2>1, <2>2, <2>3 DEF ClaimSlot
  <2>4. CASE MarkDeferred \/ MarkPending
    <3>1. order' \in Seq(Receipts) /\ upgrade' \in [Receipts -> UpgradeStatuses]
      BY <2>2, <2>4, StoreType DEF MarkDeferred, MarkPending, UpgradeStatuses
    <3> QED
      BY <2>1, <2>2, <2>4, <3>1 DEF MarkDeferred, MarkPending
  <2>5. CASE SubmitJob
    <3>1. Append(queue, loop.receipt) \in Seq(Receipts)
      BY <2>2, AppendProperties
    <3> QED
      BY <2>1, <2>5, <3>1 DEF SubmitJob
  <2> QED
    BY <1>3, <2>3, <2>4, <2>5 DEF Schedule
<1> QED
  BY <1>1, <1>2, <1>3

\* Every reachable state is well-typed, and an idle worker or event loop holds
\* no receipt.
THEOREM ReceiptTypes == Spec => []ReceiptTypeOK
<1>1. Init => ReceiptTypeOK
  <2> SUFFICES ASSUME Init
               PROVE  ReceiptTypeOK
    OBVIOUS
  <2>1. LoaderTypeOK
    BY DEF Init, LoaderInit, LoaderTypeOK, CallStages, LoadThreads
  <2>2. order \in Seq(Receipts) /\ queue \in Seq(Receipts)
    BY EmptySeq DEF Init
  <2>3. worker \in [Workers -> [stage : WorkerStages, receipt : Receipts \cup {NoReceipt}]]
    BY DEF Init, Idle, WorkerStages
  <2> QED
    BY <2>1, <2>2, <2>3 DEF Init, ReceiptTypeOK, Idle, LoopStages, UpgradeStatuses
<1>2. ReceiptTypeOK /\ [Next]_vars => ReceiptTypeOK'
  <2> SUFFICES ASSUME ReceiptTypeOK, [Next]_vars
               PROVE  ReceiptTypeOK'
    OBVIOUS
  <2>1. CASE \E w \in Workers : WorkerStep(w)
    BY <2>1, WorkerTypes
  <2>2. CASE (LoaderStep \/ Age) /\ UNCHANGED receiptVars
    BY <2>2, LoaderTypes DEF ReceiptTypeOK, receiptVars
  <2>3. CASE \/ RequestRuntime \/ Schedule
             \/ \E r \in Receipts : AnswerInFull(r) \/ AnswerWithFallback(r)
    BY <2>3, LoopTypes
  <2>4. CASE UNCHANGED vars
    BY <2>4 DEF vars, receiptVars, loaderVars, ReceiptTypeOK, LoaderTypeOK
  <2> QED
    BY <2>1, <2>2, <2>3, <2>4 DEF Next
<1> QED
  BY <1>1, <1>2, PTL DEF Spec

(***************************************************************************)
(* The import.  ImportIsExclusive is inductive once a worker is known to   *)
(* be inside the loader only while its job says so.                        *)
(***************************************************************************)

CallsMatchJobs == \A w \in Workers : worker[w].stage # "loading" => call[w] = "out"

LoadInv ==
    /\ CallsMatchJobs
    /\ ImportIsExclusive
    /\ ReturnsOnlyLoaded

\* A step of _load_full_module_locked in any thread keeps the import single.
LEMMA LockedLoadSafe ==
    ASSUME LoaderTypeOK, ImportIsExclusive, ReturnsOnlyLoaded,
           NEW t \in LoadThreads, LockedLoad(t)
    PROVE  LoaderTypeOK' /\ ImportIsExclusive' /\ ReturnsOnlyLoaded'
<1> USE LoaderAssumption DEF LoaderTypeOK, ImportIsExclusive, ReturnsOnlyLoaded,
                             LoadThreads, CallStages, CallMoves
<1>1. CASE Acquire(t)
  BY <1>1 DEF Acquire
<1>2. CASE ImportSucceeds(t)
  BY <1>2 DEF ImportSucceeds
<1>3. CASE ImportReturns(t)
  BY <1>3 DEF ImportReturns
<1>4. CASE ImportFails(t)
  BY <1>4 DEF ImportFails
<1> QED
  BY <1>1, <1>2, <1>3, <1>4 DEF LockedLoad

\* A call stays outside, or has not left yet, as its thread moves.
LEMMA LockedLoadStaysIn ==
    ASSUME LoaderTypeOK, NEW t \in LoadThreads, LockedLoad(t)
    PROVE  /\ call[t] # "out"
           /\ \A u \in LoadThreads : u # t => call'[u] = call[u]
BY DEF LockedLoad, Acquire, ImportSucceeds, ImportReturns, ImportFails, CallMoves, LoaderTypeOK

\* So does everything the thread of the load task does around it.
LEMMA LoaderStepSafe ==
    ASSUME LoaderTypeOK, ImportIsExclusive, ReturnsOnlyLoaded, LoaderStep \/ Age
    PROVE  /\ LoaderTypeOK' /\ ImportIsExclusive' /\ ReturnsOnlyLoaded'
           /\ \A w \in Workers : call'[w] = call[w]
<1>1. CASE StartTask \/ FinishTask \/ TaskCallback
  <2> USE LoaderAssumption
      DEF FirstCheck, CallMoves, LoaderTypeOK, ImportIsExclusive, ReturnsOnlyLoaded,
          LoadThreads, CallStages
  <2>1. CASE StartTask
    BY <2>1 DEF StartTask
  <2>2. CASE FinishTask
    BY <2>2 DEF FinishTask
  <2>3. CASE TaskCallback
    BY <2>3 DEF TaskCallback
  <2> QED
    BY <1>1, <2>1, <2>2, <2>3
<1>2. CASE LockedLoad(Loader)
  BY <1>2, LockedLoadSafe, LockedLoadStaysIn, LoaderAssumption DEF LoadThreads
<1>3. CASE Age
  BY <1>3 DEF Age, LoaderTypeOK, ImportIsExclusive, ReturnsOnlyLoaded
<1> QED
  BY <1>1, <1>2, <1>3 DEF LoaderStep

\* A worker enters and leaves the loader as its job does.
LEMMA WorkerStepLoad ==
    ASSUME ReceiptTypeOK, LoadInv, NEW w \in Workers, WorkerStep(w)
    PROVE  LoadInv'
<1> USE DEF LoadInv, ReceiptTypeOK
<1>1. w \in LoadThreads
  BY DEF LoadThreads
<1>2. CASE WorkerLoad(w)
  <2>1. ImportIsExclusive' /\ ReturnsOnlyLoaded'
    BY <1>1, <1>2, LockedLoadSafe DEF WorkerLoad
  <2>2. worker[w].stage = "loading"
    BY <1>1, <1>2, LockedLoadStaysIn DEF WorkerLoad, CallsMatchJobs
  <2>3. CallsMatchJobs'
    BY <1>1, <1>2, <2>2, LockedLoadStaysIn
       DEF WorkerLoad, CallsMatchJobs, receiptVars, LoadThreads
  <2> QED
    BY <2>1, <2>3
<1>3. CASE CallLoader(w)
  <2>1. call[w] = "out"
    BY <1>3 DEF CallLoader, CallsMatchJobs
  <2> QED
    BY <1>1, <1>3, <2>1, LoaderAssumption
       DEF CallLoader, FirstCheck, CallMoves, WorkerMoves, LoaderTypeOK, CallsMatchJobs,
           ImportIsExclusive, ReturnsOnlyLoaded, LoadThreads, CallStages
<1>4. CASE LoaderReturned(w)
  BY <1>1, <1>4, LoaderAssumption
     DEF LoaderReturned, CallMoves, WorkerMoves, LoaderTypeOK, CallsMatchJobs,
         ImportIsExclusive, ReturnsOnlyLoaded, LoadThreads, CallStages
<1>5. ASSUME UNCHANGED loaderVars, worker[w].stage # "loading",
             \A v \in Workers : v # w => worker'[v] = worker[v]
      PROVE  LoadInv'
  BY <1>5 DEF loaderVars, CallsMatchJobs, ImportIsExclusive, ReturnsOnlyLoaded
<1>6. CASE TakeJob(w) \/ ReleaseSlot(w)
  BY <1>5, <1>6 DEF TakeJob, ReleaseSlot
<1>7. CASE MarkRunning(w) \/ Refine(w) \/ Upgrade(w) \/ MarkFailed(w)
  BY <1>5, <1>7 DEF MarkRunning, Refine, Upgrade, MarkFailed, WorkerMoves
<1> QED
  BY <1>2, <1>3, <1>4, <1>6, <1>7 DEF WorkerStep

\* The import is exclusive, and no call returns before the runtime is there.
THEOREM LoadInvariant == Spec => []LoadInv
<1>1. Init => LoadInv
  BY LoaderAssumption
     DEF Init, LoaderInit, LoadInv, CallsMatchJobs, ImportIsExclusive, ReturnsOnlyLoaded, LoadThreads
<1>2. ReceiptTypeOK /\ LoadInv /\ [Next]_vars => LoadInv'
  <2> SUFFICES ASSUME ReceiptTypeOK, LoadInv, [Next]_vars
               PROVE  LoadInv'
    OBVIOUS
  <2>1. CASE \E w \in Workers : WorkerStep(w)
    BY <2>1, WorkerStepLoad
  <2>2. CASE (LoaderStep \/ Age) /\ UNCHANGED receiptVars
    BY <2>2, LoaderStepSafe DEF LoadInv, CallsMatchJobs, receiptVars, ReceiptTypeOK
  <2>3. CASE RequestRuntime
    BY <2>3 DEF RequestRuntime, EnsureLoadTask, receiptVars, LoadInv, CallsMatchJobs,
                ImportIsExclusive, ReturnsOnlyLoaded
  <2>4. CASE UNCHANGED <<loaderVars, worker>>
    BY <2>4 DEF loaderVars, LoadInv, CallsMatchJobs, ImportIsExclusive, ReturnsOnlyLoaded
  <2>5. CASE Schedule \/ \E r \in Receipts : AnswerInFull(r) \/ AnswerWithFallback(r)
    BY <2>4, <2>5 DEF Schedule, ClaimSlot, MarkDeferred, MarkPending, SubmitJob, AnswerInFull, AnswerWithFallback
  <2>6. CASE UNCHANGED vars
    BY <2>4, <2>6 DEF vars, receiptVars
  <2> QED
    BY <2>1, <2>2, <2>3, <2>5, <2>6 DEF Next
<1> QED
  BY <1>1, <1>2, ReceiptTypes, PTL DEF Spec

\* However often loading is asked for, retried or raced, one import at a time.
THEOREM ImportsAreExclusive == Spec => []ImportIsExclusive
BY LoadInvariant, PTL DEF LoadInv

\* No caller goes on with a runtime that is not there.
THEOREM CallersGetTheRuntime == Spec => []ReturnsOnlyLoaded
BY LoadInvariant, PTL DEF LoadInv

(***************************************************************************)
(* The slots.  SlotsAreJobs needs to know besides that a receipt the event *)
(* loop has yet to claim a slot for is new: it holds none already.         *)
(***************************************************************************)

JobInv ==
    /\ IsFiniteSet(slots)
    /\ slots \subseteq used
    /\ loop.stage # "idle" => loop.receipt \in used
    /\ loop.stage \in {"claim", "defer"} => loop.receipt \notin slots
    /\ SlotsAreJobs

\* A step that leaves the jobs where they are.
LEMMA JobsStay ==
    ASSUME ReceiptTypeOK, JobInv,
           UNCHANGED <<slots, queue, loop>>, used \subseteq used',
           \A w \in Workers : /\ worker'[w].receipt = worker[w].receipt
                              /\ worker'[w].stage = "idle" <=> worker[w].stage = "idle"
    PROVE  JobInv'
<1>1. Busy' = Busy /\ Working' = Working
  BY DEF Busy, Working
<1>2. Queued' = Queued /\ Scheduling' = Scheduling
  BY DEF Queued, Scheduling
<1>3. JobsAreApart'
  BY <1>1, <1>2 DEF JobInv, SlotsAreJobs, JobsAreApart, Busy
<1> QED
  BY <1>1, <1>2, <1>3 DEF JobInv, SlotsAreJobs

\* A step of the event loop that touches neither slots nor queue.
LEMMA LoopMoves ==
    ASSUME ReceiptTypeOK, JobInv,
           UNCHANGED <<slots, queue, worker>>, used \subseteq used',
           Scheduling' = Scheduling,
           loop'.stage # "idle" => loop'.receipt \in used',
           loop'.stage \in {"claim", "defer"} => loop'.receipt \notin slots
    PROVE  JobInv'
<1>1. Busy' = Busy /\ Working' = Working /\ Queued' = Queued
  BY DEF Busy, Working, Queued
<1>2. JobsAreApart'
  BY <1>1 DEF JobInv, SlotsAreJobs, JobsAreApart, Busy
<1> QED
  BY <1>1, <1>2 DEF JobInv, SlotsAreJobs

\* A claimed slot goes to a receipt that is no job yet.
LEMMA ClaimKeepsJobs ==
    ASSUME ReceiptTypeOK, JobInv, ClaimSlot
    PROVE  JobInv'
<1>1. CASE loop'.stage = "defer"
  <2>1. UNCHANGED <<slots, queue, worker, used>> /\ loop'.receipt = loop.receipt
    BY <1>1 DEF ClaimSlot, ReceiptTypeOK
  <2>2. Scheduling' = Scheduling
    BY <1>1 DEF ClaimSlot, Scheduling
  <2> QED
    BY <1>1, <2>1, <2>2, LoopMoves DEF ClaimSlot, JobInv
<1>2. CASE loop'.stage # "defer"
  <2> DEFINE r == loop.receipt
  <2>1. /\ slots' = slots \cup {r} /\ r \notin slots /\ r \in used
        /\ loop'.stage = "pend" /\ loop'.receipt = r
        /\ UNCHANGED <<used, queue, worker>>
        /\ SlotFree /\ loop.stage = "claim"
    BY <1>2 DEF ClaimSlot, ReceiptTypeOK, JobInv
  <2>2. Scheduling = {} /\ Scheduling' = {r}
    BY <2>1 DEF Scheduling
  <2>3. Busy' = Busy /\ Working' = Working /\ Queued' = Queued
    BY <2>1 DEF Busy, Working, Queued
  <2>4. slots = Queued \cup Working
    BY <2>2 DEF JobInv, SlotsAreJobs
  <2>5. JobsAreApart'
    BY <2>1, <2>2, <2>3, <2>4 DEF JobInv, SlotsAreJobs, JobsAreApart, Busy
  <2>6. IsFiniteSet(slots') /\ Cardinality(slots') <= MaxRefinements
    <3>1. IsFiniteSet(slots) /\ Cardinality(slots) < MaxRefinements
      BY <2>1 DEF JobInv, SlotFree
    <3>2. IsFiniteSet(slots \cup {r}) /\ Cardinality(slots \cup {r}) = Cardinality(slots) + 1
      BY <2>1, <3>1, FS_AddElement
    <3>3. Cardinality(slots) \in Nat
      BY <3>1, FS_CardinalityType
    <3> QED
      BY <2>1, <3>1, <3>2, <3>3, ReceiptAssumption
  <2> QED
    BY <2>1, <2>2, <2>3, <2>4, <2>5, <2>6 DEF JobInv, SlotsAreJobs
<1> QED
  BY <1>1, <1>2

\* Submitting moves the job from the event loop's hands to the end of the queue.
LEMMA SubmitKeepsJobs ==
    ASSUME ReceiptTypeOK, JobInv, SubmitJob
    PROVE  JobInv'
<1> DEFINE r == loop.receipt
<1>1. r \in Receipts /\ queue \in Seq(Receipts)
  BY DEF SubmitJob, ReceiptTypeOK
<1>2. /\ queue' = Append(queue, r) /\ loop'.stage = "idle"
      /\ UNCHANGED <<slots, used, worker>> /\ loop.stage = "submit"
  BY DEF SubmitJob, Idle
<1>3. Scheduling = {r} /\ Scheduling' = {}
  BY <1>2 DEF Scheduling
<1>4. Busy' = Busy /\ Working' = Working
  BY <1>2 DEF Busy, Working
<1>5. /\ DOMAIN queue = 1 .. Len(queue) /\ DOMAIN queue' = 1 .. Len(queue) + 1
      /\ Len(queue) \in Nat
      /\ \A i \in 1 .. Len(queue) : queue'[i] = queue[i]
      /\ queue'[Len(queue) + 1] = r
  BY <1>1, <1>2
<1> HIDE DEF r
<1>6. Queued' = Queued \cup {r}
  BY <1>5 DEF Queued
<1>7. r \notin Queued
  BY <1>3 DEF JobInv, SlotsAreJobs, JobsAreApart
<1>8. \A i, j \in DOMAIN queue' : queue'[i] = queue'[j] => i = j
  <2> SUFFICES ASSUME NEW i \in DOMAIN queue', NEW j \in DOMAIN queue', queue'[i] = queue'[j]
               PROVE  i = j
    OBVIOUS
  <2>1. CASE i \in DOMAIN queue /\ j \in DOMAIN queue
    BY <1>5, <2>1 DEF JobInv, SlotsAreJobs, JobsAreApart
  <2>2. CASE i = Len(queue) + 1 /\ j \in DOMAIN queue
    BY <1>5, <1>7, <2>2 DEF Queued
  <2>3. CASE j = Len(queue) + 1 /\ i \in DOMAIN queue
    BY <1>5, <1>7, <2>3 DEF Queued
  <2> QED
    BY <1>5, <2>1, <2>2, <2>3
<1>9. JobsAreApart'
  BY <1>2, <1>3, <1>4, <1>6, <1>8 DEF JobInv, SlotsAreJobs, JobsAreApart, Busy
<1> QED
  BY <1>2, <1>3, <1>4, <1>6, <1>9 DEF JobInv, SlotsAreJobs

\* Taking a job moves it from the head of the queue to an idle worker.
LEMMA TakeKeepsJobs ==
    ASSUME ReceiptTypeOK, JobInv, NEW w \in Workers, TakeJob(w)
    PROVE  JobInv'
<1> DEFINE r == Head(queue)
<1>1. /\ queue \in Seq(Receipts) /\ queue # <<>>
      /\ worker[w].stage = "idle" /\ worker \in [Workers -> [stage : WorkerStages, receipt : Receipts \cup {NoReceipt}]]
  BY DEF TakeJob, ReceiptTypeOK
<1>2. /\ queue' = Tail(queue) /\ UNCHANGED <<slots, used, loop>>
      /\ worker' = [worker EXCEPT ![w] = [stage |-> "started", receipt |-> r]]
  BY DEF TakeJob
<1>3. /\ DOMAIN queue = 1 .. Len(queue) /\ Len(queue) \in Nat \ {0}
      /\ DOMAIN queue' = 1 .. Len(queue) - 1
      /\ \A i \in DOMAIN queue' : i + 1 \in DOMAIN queue /\ queue'[i] = queue[i + 1]
      /\ r = queue[1]
  BY <1>1, <1>2, HeadTailProperties, EmptySeq
<1> HIDE DEF r
<1>4. \A i, j \in DOMAIN queue : queue[i] = queue[j] => i = j
  BY DEF JobInv, SlotsAreJobs, JobsAreApart
<1>5. Queued = {r} \cup Queued' /\ r \notin Queued'
  <2>1. \A i \in DOMAIN queue : i = 1 \/ (i - 1 \in DOMAIN queue' /\ queue'[i - 1] = queue[i])
    BY <1>3
  <2> QED
    BY <1>3, <1>4, <2>1 DEF Queued
<1>6. Busy' = Busy \cup {w} /\ w \notin Busy
  BY <1>1, <1>2 DEF Busy
<1>7. \A v \in Busy : worker'[v] = worker[v]
  BY <1>1, <1>2 DEF Busy
<1>8. worker'[w].receipt = r
  BY <1>1, <1>2
<1>9. Working' = Working \cup {r}
  BY <1>6, <1>7, <1>8 DEF Working
<1>10. r \notin Working /\ r \notin Scheduling /\ Scheduling' = Scheduling
  BY <1>2, <1>5 DEF JobInv, SlotsAreJobs, JobsAreApart, Scheduling
<1>11. \A u, v \in Busy' : worker'[u].receipt = worker'[v].receipt => u = v
  BY <1>6, <1>7, <1>8, <1>10 DEF JobInv, SlotsAreJobs, JobsAreApart, Working
<1>12. \A i, j \in DOMAIN queue' : queue'[i] = queue'[j] => i = j
  <2> SUFFICES ASSUME NEW i \in DOMAIN queue', NEW j \in DOMAIN queue', queue'[i] = queue'[j]
               PROVE  i = j
    OBVIOUS
  <2>1. i + 1 = j + 1
    BY <1>3, <1>4
  <2> QED
    BY <1>3, <2>1
<1>13. JobsAreApart'
  BY <1>5, <1>9, <1>10, <1>11, <1>12 DEF JobInv, SlotsAreJobs, JobsAreApart
<1> QED
  BY <1>2, <1>5, <1>9, <1>10, <1>13 DEF JobInv, SlotsAreJobs

\* A slot is given back together with the job that held it.
LEMMA ReleaseKeepsJobs ==
    ASSUME ReceiptTypeOK, JobInv, NEW w \in Workers, ReleaseSlot(w)
    PROVE  JobInv'
<1> DEFINE r == worker[w].receipt
<1>1. /\ slots' = slots \ {r} /\ UNCHANGED <<used, queue, loop>>
      /\ worker' = [worker EXCEPT ![w] = Idle]
      /\ w \in Busy
      /\ worker \in [Workers -> [stage : WorkerStages, receipt : Receipts \cup {NoReceipt}]]
  BY DEF ReleaseSlot, Busy, ReceiptTypeOK
<1>2. r \in Working /\ \A v \in Busy : worker[v].receipt = r => v = w
  BY <1>1 DEF Working, JobInv, SlotsAreJobs, JobsAreApart
<1> HIDE DEF r
<1>3. Busy' = Busy \ {w}
  BY <1>1 DEF Busy, Idle
<1>4. \A v \in Busy' : worker'[v] = worker[v]
  BY <1>1, <1>3 DEF Busy
<1>5. Working' = Working \ {r}
  BY <1>2, <1>3, <1>4 DEF Working, r
<1>6. Queued' = Queued /\ Scheduling' = Scheduling /\ r \notin Queued /\ r \notin Scheduling
  BY <1>1, <1>2 DEF Queued, Scheduling, JobInv, SlotsAreJobs, JobsAreApart
<1>7. \A u, v \in Busy' : worker'[u].receipt = worker'[v].receipt => u = v
  BY <1>3, <1>4 DEF JobInv, SlotsAreJobs, JobsAreApart
<1>8. JobsAreApart'
  BY <1>1, <1>5, <1>6, <1>7 DEF JobInv, SlotsAreJobs, JobsAreApart
<1>9. IsFiniteSet(slots') /\ Cardinality(slots') <= MaxRefinements
  <2>1. IsFiniteSet(slots) /\ Cardinality(slots) <= MaxRefinements
    BY DEF JobInv, SlotsAreJobs
  <2>2. /\ IsFiniteSet(slots \ {r})
        /\ Cardinality(slots \ {r}) = IF r \in slots THEN Cardinality(slots) - 1 ELSE Cardinality(slots)
    BY <2>1, FS_RemoveElement
  <2>3. Cardinality(slots) \in Nat
    BY <2>1, FS_CardinalityType
  <2> QED
    BY <1>1, <2>1, <2>2, <2>3, ReceiptAssumption
<1> QED
  BY <1>1, <1>5, <1>6, <1>8, <1>9 DEF JobInv, SlotsAreJobs

\* Every other step of a worker stays within its job.
LEMMA WorkerKeepsJobs ==
    ASSUME ReceiptTypeOK, JobInv, NEW w \in Workers, WorkerStep(w)
    PROVE  JobInv'
<1>1. CASE TakeJob(w)
  BY <1>1, TakeKeepsJobs
<1>2. CASE ReleaseSlot(w)
  BY <1>2, ReleaseKeepsJobs
<1>3. CASE WorkerLoad(w)
  BY <1>3, JobsStay DEF WorkerLoad, receiptVars
<1>4. ASSUME UNCHANGED <<slots, queue, loop, used>>,
             \E s \in WorkerStages \ {"idle"} :
                worker[w].stage # "idle" /\ worker' = [worker EXCEPT ![w].stage = s]
      PROVE  JobInv'
  <2>1. \A v \in Workers : /\ worker'[v].receipt = worker[v].receipt
                           /\ worker'[v].stage = "idle" <=> worker[v].stage = "idle"
    BY <1>4 DEF ReceiptTypeOK
  <2> QED
    BY <1>4, <2>1, JobsStay
<1>5. CASE MarkRunning(w) \/ CallLoader(w) \/ Refine(w) \/ Upgrade(w) \/ MarkFailed(w)
  BY <1>4, <1>5 DEF MarkRunning, CallLoader, Refine, Upgrade, MarkFailed, WorkerMoves, WorkerStages
<1>6. CASE LoaderReturned(w)
  BY <1>4, <1>6 DEF LoaderReturned, WorkerMoves, WorkerStages
<1> QED
  BY <1>1, <1>2, <1>3, <1>5, <1>6 DEF WorkerStep

\* A new answer, and the two marks that follow a claim, move no job.
LEMMA LoopKeepsJobs ==
    ASSUME ReceiptTypeOK, JobInv,
           \/ Schedule
           \/ \E r \in Receipts : AnswerInFull(r) \/ AnswerWithFallback(r)
    PROVE  JobInv'
<1>1. ASSUME NEW r \in Receipts, AnswerInFull(r)
      PROVE  JobInv'
  BY <1>1, LoopMoves DEF AnswerInFull, Idle, Scheduling
<1>2. ASSUME NEW r \in Receipts, AnswerWithFallback(r)
      PROVE  JobInv'
  <2>1. r \notin slots
    BY <1>2 DEF AnswerWithFallback, JobInv
  <2>2. Scheduling' = Scheduling
    BY <1>2 DEF AnswerWithFallback, Scheduling, Idle
  <2> QED
    BY <1>2, <2>1, <2>2, LoopMoves DEF AnswerWithFallback
<1>3. CASE MarkDeferred
  BY <1>3, LoopMoves DEF MarkDeferred, Scheduling, Idle
<1>4. CASE MarkPending
  <2>1. loop' = [loop EXCEPT !.stage = "submit"] /\ UNCHANGED <<used, slots, queue, worker>>
        /\ loop.stage = "pend"
    BY <1>4 DEF MarkPending
  <2>2. loop'.stage = "submit" /\ loop'.receipt = loop.receipt
    BY <2>1 DEF ReceiptTypeOK
  <2>3. Scheduling' = Scheduling
    BY <2>1, <2>2 DEF Scheduling
  <2> QED
    BY <2>1, <2>2, <2>3, LoopMoves DEF JobInv
<1> QED
  BY <1>1, <1>2, <1>3, <1>4, ClaimKeepsJobs, SubmitKeepsJobs DEF Schedule

\* Slots and jobs agree in every reachable state.
THEOREM JobInvariant == Spec => []JobInv
<1>1. Init => JobInv
  <2> SUFFICES ASSUME Init
               PROVE  JobInv
    OBVIOUS
  <2>1. Scheduling = {} /\ Queued = {} /\ Busy = {} /\ Working = {}
    BY DEF Init, Idle, Scheduling, Queued, Busy, Working
  <2>2. IsFiniteSet({}) /\ Cardinality({}) = 0
    BY FS_EmptySet
  <2> QED
    BY <2>1, <2>2, ReceiptAssumption DEF Init, Idle, JobInv, SlotsAreJobs, JobsAreApart
<1>2. ReceiptTypeOK /\ JobInv /\ [Next]_vars => JobInv'
  <2> SUFFICES ASSUME ReceiptTypeOK, JobInv, [Next]_vars
               PROVE  JobInv'
    OBVIOUS
  <2>1. CASE \E w \in Workers : WorkerStep(w)
    BY <2>1, WorkerKeepsJobs
  <2>2. CASE UNCHANGED receiptVars
    BY <2>2, JobsStay DEF receiptVars
  <2>3. CASE Schedule \/ \E r \in Receipts : AnswerInFull(r) \/ AnswerWithFallback(r)
    BY <2>3, LoopKeepsJobs
  <2> QED
    BY <2>1, <2>2, <2>3 DEF Next, RequestRuntime, vars
<1> QED
  BY <1>1, <1>2, ReceiptTypes, PTL DEF Spec

\* No slot leaks and no more refinements run than configured, whichever loads
\* fail and however workers and event loop interleave.
THEOREM SlotsBelongToJobs == Spec => []SlotsAreJobs
BY JobInvariant, PTL DEF JobInv

(***************************************************************************)
(* The promises.  NoOrphanedPromise is inductive once a worker is known to *)
(* have withdrawn the promise by the time it gives the slot back.          *)
(***************************************************************************)

PromiseInv ==
    /\ NoOrphanedPromise
    /\ \A w \in Workers : worker[w].stage = "release" => worker[w].receipt \notin Promised

\* What the writes to a receipt do to the set of promises.
LEMMA PromisesWritten ==
    ASSUME ReceiptTypeOK, NEW r \in Receipts, NEW s \in UpgradeStatuses,
           Store(r, s) \/ Mark(r, s)
    PROVE  /\ Promised' \subseteq Promised \cup {r}
           /\ s \notin {"pending", "running"} => r \notin Promised'
<1>1. CASE Store(r, s)
  BY <1>1 DEF Store, Promised
<1>2. CASE Mark(r, s)
  BY <1>2 DEF Mark, Promised, ReceiptTypeOK
<1> QED
  BY <1>1, <1>2

\* A step that promises nothing and neither frees nor reassigns a slot.
LEMMA PromisesStay ==
    ASSUME PromiseInv, UNCHANGED <<slots, loop>>, Promised' \subseteq Promised,
           \A w \in Workers : worker'[w].stage = "release" =>
              \/ worker'[w].receipt \notin Promised'
              \/ worker'[w] = worker[w]
    PROVE  PromiseInv'
<1>1. NoOrphanedPromise'
  BY DEF PromiseInv, NoOrphanedPromise
<1> QED
  BY <1>1 DEF PromiseInv

LEMMA WorkerKeepsPromises ==
    ASSUME ReceiptTypeOK, JobInv, PromiseInv, NEW w \in Workers, WorkerStep(w)
    PROVE  PromiseInv'
<1> DEFINE r == worker[w].receipt
<1>1. worker \in [Workers -> [stage : WorkerStages, receipt : Receipts \cup {NoReceipt}]]
  BY DEF ReceiptTypeOK
<1>2. worker[w].stage # "idle" => r \in Receipts
  BY DEF ReceiptTypeOK
<1>3. ASSUME worker[w].stage # "idle"
      PROVE  /\ r \in slots
             /\ \A v \in Workers : v # w /\ worker[v].stage # "idle" => worker[v].receipt # r
  BY <1>3 DEF JobInv, SlotsAreJobs, JobsAreApart, Working, Busy
<1>4. CASE WorkerLoad(w)
  BY <1>4, PromisesStay DEF WorkerLoad, receiptVars, Promised
<1>5. CASE TakeJob(w) \/ CallLoader(w) \/ LoaderReturned(w) \/ Refine(w)
  <2>1. UNCHANGED <<slots, loop, upgrade>>
    BY <1>5 DEF TakeJob, CallLoader, LoaderReturned, Refine
  <2>2. worker'[w].stage # "release" /\ \A v \in Workers : v # w => worker'[v] = worker[v]
    BY <1>1, <1>5 DEF TakeJob, CallLoader, LoaderReturned, Refine, WorkerMoves
  <2>3. Promised' = Promised
    BY <2>1 DEF Promised
  <2> QED
    BY <2>1, <2>2, <2>3, PromisesStay
<1>6. CASE MarkRunning(w)
  <2>1. /\ worker[w].stage = "started" /\ UNCHANGED <<slots, loop>>
        /\ worker'[w].stage # "release" /\ \A v \in Workers : v # w => worker'[v] = worker[v]
    BY <1>1, <1>6 DEF MarkRunning, WorkerMoves
  <2>2. Promised' \subseteq Promised \cup {r}
    BY <1>2, <1>6, <2>1, PromisesWritten DEF MarkRunning, UpgradeStatuses
  <2>3. NoOrphanedPromise'
    BY <1>3, <2>1, <2>2 DEF PromiseInv, NoOrphanedPromise
  <2>4. \A v \in Workers : worker'[v].stage = "release" => worker'[v].receipt \notin Promised'
    BY <1>3, <2>1, <2>2 DEF PromiseInv
  <2> QED
    BY <2>3, <2>4 DEF PromiseInv
<1>7. CASE Upgrade(w) \/ MarkFailed(w)
  <2>1. /\ worker[w].stage # "idle" /\ UNCHANGED <<slots, loop>>
        /\ worker'[w].receipt = r /\ \A v \in Workers : v # w => worker'[v] = worker[v]
    BY <1>1, <1>7 DEF Upgrade, MarkFailed, WorkerMoves
  <2>2. Promised' \subseteq Promised \cup {r} /\ r \notin Promised'
    BY <1>2, <1>7, <2>1, PromisesWritten DEF Upgrade, MarkFailed, UpgradeStatuses
  <2> QED
    BY <2>1, <2>2, PromisesStay
<1>8. CASE ReleaseSlot(w)
  <2>1. /\ slots' = slots \ {r} /\ UNCHANGED <<loop, upgrade>>
        /\ worker'[w].stage = "idle" /\ \A v \in Workers : v # w => worker'[v] = worker[v]
        /\ worker[w].stage = "release"
    BY <1>1, <1>8 DEF ReleaseSlot, Idle
  <2>2. Promised' = Promised
    BY <2>1 DEF Promised
  <2>3. r \notin Promised
    BY <2>1 DEF PromiseInv
  <2>4. NoOrphanedPromise'
    BY <2>1, <2>2, <2>3 DEF PromiseInv, NoOrphanedPromise
  <2> QED
    BY <2>1, <2>2, <2>4 DEF PromiseInv
<1> QED
  BY <1>4, <1>5, <1>6, <1>7, <1>8 DEF WorkerStep

LEMMA LoopKeepsPromises ==
    ASSUME ReceiptTypeOK, JobInv, PromiseInv,
           \/ Schedule
           \/ \E r \in Receipts : AnswerInFull(r) \/ AnswerWithFallback(r)
    PROVE  PromiseInv'
<1>1. ASSUME NEW r \in Receipts, AnswerInFull(r)
      PROVE  PromiseInv'
  <2>1. Promised' \subseteq Promised
    <3>1. Promised' \subseteq Promised \cup {r} /\ r \notin Promised'
      BY <1>1, PromisesWritten DEF AnswerInFull, UpgradeStatuses
    <3> QED
      BY <3>1
  <2>2. loop' = loop /\ UNCHANGED <<slots, worker>>
    BY <1>1 DEF AnswerInFull
  <2> QED
    BY <2>1, <2>2, PromisesStay
<1>2. ASSUME NEW r \in Receipts, AnswerWithFallback(r)
      PROVE  PromiseInv'
  <2>1. /\ loop.stage = "idle" /\ loop'.stage = "claim" /\ loop'.receipt = r
        /\ UNCHANGED <<slots, worker>> /\ r \notin used
    BY <1>2 DEF AnswerWithFallback, Idle
  <2>2. Promised' \subseteq Promised \cup {r}
    BY <1>2, PromisesWritten DEF AnswerWithFallback, UpgradeStatuses
  <2>3. NoOrphanedPromise'
    BY <2>1, <2>2 DEF PromiseInv, NoOrphanedPromise
  <2>4. ASSUME NEW w \in Workers, worker'[w].stage = "release"
        PROVE  worker'[w].receipt \notin Promised'
    <3>1. worker[w].receipt \in slots
      BY <2>1, <2>4 DEF JobInv, SlotsAreJobs, Working, Busy
    <3>2. worker[w].receipt # r
      BY <2>1, <3>1 DEF JobInv
    <3> QED
      BY <2>1, <2>2, <2>4, <3>2 DEF PromiseInv
  <2> QED
    BY <2>3, <2>4 DEF PromiseInv
<1>3. CASE ClaimSlot
  <2>1. UNCHANGED <<upgrade, worker>> /\ loop.stage = "claim"
    BY <1>3 DEF ClaimSlot
  <2>2. Promised' = Promised
    BY <2>1 DEF Promised
  <2>3. \/ slots' = slots \cup {loop.receipt}
        \/ slots' = slots /\ loop'.stage = "defer" /\ loop'.receipt = loop.receipt
    BY <1>3 DEF ClaimSlot, ReceiptTypeOK
  <2>4. NoOrphanedPromise'
    BY <2>1, <2>2, <2>3 DEF PromiseInv, NoOrphanedPromise
  <2> QED
    BY <2>1, <2>2, <2>4 DEF PromiseInv
<1>4. CASE MarkDeferred
  <2> DEFINE r == loop.receipt
  <2>1. /\ UNCHANGED <<slots, worker>> /\ loop.stage = "defer" /\ loop'.stage = "idle"
    BY <1>4 DEF MarkDeferred, Idle
  <2>2. r \in Receipts
    BY <2>1 DEF ReceiptTypeOK
  <2>3. Promised' \subseteq Promised \cup {r} /\ r \notin Promised'
    BY <1>4, <2>2, PromisesWritten DEF MarkDeferred, UpgradeStatuses
  <2>4. NoOrphanedPromise'
    BY <2>1, <2>3 DEF PromiseInv, NoOrphanedPromise
  <2> QED
    BY <2>1, <2>3, <2>4 DEF PromiseInv
<1>5. CASE MarkPending
  <2> DEFINE r == loop.receipt
  <2>1. /\ UNCHANGED <<slots, worker>> /\ loop.stage = "pend"
        /\ loop'.stage = "submit"
    BY <1>5 DEF MarkPending, ReceiptTypeOK
  <2>2. r \in Receipts
    BY <2>1 DEF ReceiptTypeOK
  <2>3. Promised' \subseteq Promised \cup {r}
    BY <1>5, <2>2, PromisesWritten DEF MarkPending, UpgradeStatuses
  <2>4. r \in slots /\ r \notin Working
    BY <2>1 DEF JobInv, SlotsAreJobs, JobsAreApart, Scheduling
  <2>5. NoOrphanedPromise'
    BY <2>1, <2>3, <2>4 DEF PromiseInv, NoOrphanedPromise
  <2>6. \A w \in Workers : worker[w].stage = "release" => worker[w].receipt # r
    BY <2>4 DEF Working, Busy
  <2> QED
    BY <2>1, <2>3, <2>5, <2>6 DEF PromiseInv
<1>6. CASE SubmitJob
  <2>1. UNCHANGED <<upgrade, worker, slots>> /\ loop.stage = "submit" /\ loop'.stage = "idle"
    BY <1>6 DEF SubmitJob, Idle
  <2>2. Promised' = Promised
    BY <2>1 DEF Promised
  <2>3. NoOrphanedPromise'
    BY <2>1, <2>2 DEF PromiseInv, NoOrphanedPromise
  <2> QED
    BY <2>1, <2>2, <2>3 DEF PromiseInv
<1> QED
  BY <1>1, <1>2, <1>3, <1>4, <1>5, <1>6 DEF Schedule

\* A promise always has a job, or the event loop is about to claim a slot for
\* it or withdraw it.
THEOREM PromiseInvariant == Spec => []PromiseInv
<1>1. Init => PromiseInv
  BY DEF Init, Idle, PromiseInv, NoOrphanedPromise, Promised
<1>2. ReceiptTypeOK /\ JobInv /\ PromiseInv /\ [Next]_vars => PromiseInv'
  <2> SUFFICES ASSUME ReceiptTypeOK, JobInv, PromiseInv, [Next]_vars
               PROVE  PromiseInv'
    OBVIOUS
  <2>1. CASE \E w \in Workers : WorkerStep(w)
    BY <2>1, WorkerKeepsPromises
  <2>2. CASE UNCHANGED receiptVars
    BY <2>2, PromisesStay DEF receiptVars, Promised
  <2>3. CASE Schedule \/ \E r \in Receipts : AnswerInFull(r) \/ AnswerWithFallback(r)
    BY <2>3, LoopKeepsPromises
  <2> QED
    BY <2>1, <2>2, <2>3 DEF Next, RequestRuntime, vars
<1> QED
  BY <1>1, <1>2, ReceiptTypes, JobInvariant, PTL DEF Spec

\* No stored receipt promises an upgrade nobody is working on.
THEOREM PromisesHaveJobs == Spec => []NoOrphanedPromise
BY PromiseInvariant, PTL DEF PromiseInv

(***************************************************************************)
(* The list.  Reordering keeps the listed ids distinct and within the cap, *)
(* and the store keeps exactly the listed ones.                            *)
(***************************************************************************)

Distinct(s) == \A i, j \in DOMAIN s : s[i] = s[j] => i = j

ListInv ==
    /\ Len(order) <= Cap
    /\ Distinct(order)
    /\ \A r \in Receipts : upgrade[r] # "none" <=> r \in Stored

\* A list without duplicates has as many members as places.
LEMMA DistinctCounts ==
    ASSUME NEW s \in Seq(Receipts), Distinct(s)
    PROVE  Cardinality({s[i] : i \in DOMAIN s}) = Len(s)
<1> DEFINE S == {s[i] : i \in DOMAIN s}
<1>1. Len(s) \in Nat /\ DOMAIN s = 1 .. Len(s)
  OBVIOUS
<1>2. s \in [1 .. Len(s) -> S]
  BY <1>1
<1>3. s \in Injection(1 .. Len(s), S)
  BY <1>1, <1>2 DEF Injection, IsInjective, Distinct
<1>4. s \in Surjection(1 .. Len(s), S)
  BY <1>1, <1>2 DEF Surjection
<1>5. ExistsBijection(1 .. Len(s), S)
  BY <1>3, <1>4 DEF ExistsBijection, Bijection
<1> QED
  BY <1>1, <1>5, FS_CountingElements

\* The list without r: the others keep their order, and r is gone.
LEMMA WithoutProperties ==
    ASSUME order \in Seq(Receipts), Distinct(order), NEW r \in Receipts
    PROVE  /\ Without(r) \in Seq(Receipts)
           /\ Distinct(Without(r))
           /\ \A k \in DOMAIN Without(r) : Without(r)[k] # r /\ Without(r)[k] \in Stored
<1>1. CASE r \notin Stored
  BY <1>1 DEF Without, Stored
<1>2. CASE r \in Stored
  <2>1. PICK c \in DOMAIN order : c = CHOOSE i \in DOMAIN order : order[i] = r
    BY <1>2 DEF Stored
  <2>2. order[c] = r
    BY <1>2, <2>1 DEF Stored
  <2>3. c \in 1 .. Len(order) /\ Len(order) \in Nat /\ DOMAIN order = 1 .. Len(order)
    OBVIOUS
  <2> DEFINE front == SubSeq(order, 1, c - 1)
             back == SubSeq(order, c + 1, Len(order))
  <2>4. Without(r) = front \o back
    BY <1>2, <2>1 DEF Without
  <2>5. /\ front \in Seq(Receipts) /\ Len(front) = c - 1
        /\ \A k \in 1 .. c - 1 : front[k] = order[k]
    <3>1. \A k \in 1 .. c - 1 : order[k] \in Receipts
      BY <2>3
    <3> QED
      BY <2>3, <3>1, SubSeqProperties
  <2>6. /\ back \in Seq(Receipts) /\ Len(back) = Len(order) - c
        /\ \A k \in 1 .. Len(order) - c : back[k] = order[c + k]
    <3>1. \A k \in c + 1 .. Len(order) : order[k] \in Receipts
      BY <2>3
    <3> QED
      BY <2>3, <3>1, SubSeqProperties
  <2> HIDE DEF front, back
  <2>7. PICK rest : rest = front \o back
    OBVIOUS
  <2>8. /\ rest \in Seq(Receipts) /\ Len(rest) = Len(order) - 1
        /\ \A k \in 1 .. Len(order) - 1 : rest[k] = IF k < c THEN order[k] ELSE order[k + 1]
    <3>1. /\ rest \in Seq(Receipts) /\ Len(rest) = c - 1 + (Len(order) - c)
          /\ \A k \in 1 .. c - 1 + (Len(order) - c) :
                rest[k] = IF k <= c - 1 THEN front[k] ELSE back[k - (c - 1)]
      <4>1. /\ rest \in Seq(Receipts) /\ Len(rest) = Len(front) + Len(back)
            /\ \A k \in 1 .. Len(front) + Len(back) :
                  rest[k] = IF k <= Len(front) THEN front[k] ELSE back[k - Len(front)]
        <5>1. front \in Seq(Receipts) /\ back \in Seq(Receipts)
          BY <2>5, <2>6
        <5> QED
          BY <2>7, <5>1, ConcatProperties
      <4> QED
        BY <2>5, <2>6, <4>1
    <3>2. c - 1 + (Len(order) - c) = Len(order) - 1
      BY <2>3
    <3>3. ASSUME NEW k \in 1 .. Len(order) - 1
          PROVE  rest[k] = IF k < c THEN order[k] ELSE order[k + 1]
      <4>1. CASE k < c
        BY <2>3, <2>5, <3>1, <3>2, <4>1
      <4>2. CASE ~(k < c)
        <5>1. k - (c - 1) \in 1 .. Len(order) - c /\ c + (k - (c - 1)) = k + 1 /\ ~(k <= c - 1)
          BY <2>3, <4>2
        <5> QED
          BY <2>6, <3>1, <3>2, <4>2, <5>1
      <4> QED
        BY <4>1, <4>2
    <3> QED
      BY <3>1, <3>2, <3>3
  <2>9. DOMAIN rest = 1 .. Len(order) - 1
    BY <2>8
  <2>10. Distinct(rest)
    <3>1. ASSUME NEW i \in DOMAIN rest, NEW j \in DOMAIN rest, rest[i] = rest[j]
          PROVE  i = j
      <4> DEFINE at(k) == IF k < c THEN k ELSE k + 1
      <4>1. at(i) \in DOMAIN order /\ at(j) \in DOMAIN order
        BY <2>3, <2>9
      <4>2. order[at(i)] = order[at(j)]
        BY <2>8, <2>9, <3>1
      <4>3. at(i) = at(j)
        BY <4>1, <4>2 DEF Distinct
      <4> QED
        BY <2>3, <2>9, <4>3
    <3> QED
      BY <3>1 DEF Distinct
  <2>11. \A k \in DOMAIN rest : rest[k] # r /\ rest[k] \in Stored
    BY <2>2, <2>3, <2>8, <2>9 DEF Distinct, Stored
  <2> QED
    BY <2>4, <2>7, <2>8, <2>10, <2>11
<1> QED
  BY <1>1, <1>2

\* Moving r to the front keeps the list short and without duplicates.
LEMMA ReorderedProperties ==
    ASSUME order \in Seq(Receipts), Distinct(order), NEW r \in Receipts
    PROVE  /\ Len(Reordered(r)) <= Cap
           /\ Distinct(Reordered(r))
           /\ \E i \in DOMAIN Reordered(r) : Reordered(r)[i] = r
           /\ \A i \in DOMAIN Reordered(r) : Reordered(r)[i] # r => Reordered(r)[i] \in Stored
<1>1. PICK rest : rest = Without(r)
  OBVIOUS
<1>2. /\ rest \in Seq(Receipts) /\ Distinct(rest)
      /\ \A k \in DOMAIN rest : rest[k] # r /\ rest[k] \in Stored
  BY <1>1, WithoutProperties
<1>3. PICK moved : moved = <<r>> \o rest
  OBVIOUS
<1>4. /\ moved \in Seq(Receipts) /\ Len(moved) = Len(rest) + 1 /\ Len(rest) \in Nat
      /\ \A k \in 1 .. Len(rest) + 1 : moved[k] = IF k = 1 THEN r ELSE rest[k - 1]
  BY <1>2, <1>3
<1>5. PICK n : n = IF Len(moved) < Cap THEN Len(moved) ELSE Cap
  OBVIOUS
<1>6. n \in 1 .. Len(moved) /\ n <= Cap /\ Cap \in Nat
  BY <1>4, <1>5, ReceiptAssumption
<1>7. PICK new : new = SubSeq(moved, 1, n)
  OBVIOUS
<1>8. new = Reordered(r)
  BY <1>1, <1>3, <1>5, <1>7 DEF Reordered
<1>9. /\ Len(new) = n /\ DOMAIN new = 1 .. n
      /\ \A k \in 1 .. n : new[k] = moved[k]
  <2>1. \A k \in 1 .. n : moved[k] \in Receipts
    BY <1>4, <1>6
  <2> QED
    BY <1>4, <1>6, <1>7, <2>1, SubSeqProperties
<1>10. \A k \in 1 .. n : k # 1 => k - 1 \in DOMAIN rest
  BY <1>2, <1>4, <1>6
<1>11. Distinct(new)
  BY <1>2, <1>4, <1>6, <1>9, <1>10 DEF Distinct
<1>12. new[1] = r /\ 1 \in DOMAIN new
  BY <1>4, <1>6, <1>9
<1>13. \A i \in DOMAIN new : new[i] # r => new[i] \in Stored
  BY <1>2, <1>4, <1>6, <1>9, <1>10
<1> QED
  BY <1>6, <1>8, <1>9, <1>11, <1>12, <1>13

\* Storing a receipt and marking one keep list and store in agreement.
LEMMA ListKept ==
    ASSUME ReceiptTypeOK, ListInv, NEW r \in Receipts, NEW s \in UpgradeStatuses \ {"none"},
           Store(r, s) \/ Mark(r, s)
    PROVE  ListInv'
<1>1. order \in Seq(Receipts) /\ upgrade \in [Receipts -> UpgradeStatuses]
  BY DEF ReceiptTypeOK
<1>2. CASE Store(r, s)
  <2>1. PICK new : new = order'
    OBVIOUS
  <2>2. /\ Len(new) <= Cap /\ Distinct(new)
        /\ \E i \in DOMAIN new : new[i] = r
        /\ \A i \in DOMAIN new : new[i] # r => new[i] \in Stored
    BY <1>1, <1>2, <2>1, ReorderedProperties DEF ListInv, Store
  <2>3. \A x \in Receipts : upgrade'[x] = IF x = r THEN s
                                          ELSE IF \E i \in DOMAIN new : new[i] = x
                                               THEN upgrade[x] ELSE "none"
    BY <1>2, <2>1 DEF Store
  <2>4. ASSUME NEW x \in Receipts
        PROVE  upgrade'[x] # "none" <=> \E i \in DOMAIN new : new[i] = x
    BY <2>2, <2>3 DEF ListInv
  <2>5. \A x \in Receipts : x \in Stored' <=> \E i \in DOMAIN new : new[i] = x
    BY <2>1 DEF Stored
  <2>6. Len(order') <= Cap /\ Distinct(order')
    BY <2>1, <2>2
  <2> QED
    BY <2>4, <2>5, <2>6 DEF ListInv
<1>3. CASE Mark(r, s)
  <2>1. order' = order /\ \A x \in Receipts : upgrade'[x] # "none" <=> upgrade[x] # "none"
    BY <1>1, <1>3 DEF Mark
  <2>2. Stored' = Stored
    BY <2>1 DEF Stored
  <2> QED
    BY <2>1, <2>2 DEF ListInv
<1> QED
  BY <1>2, <1>3

LEMMA ListStays ==
    ASSUME ListInv, UNCHANGED <<order, upgrade>>
    PROVE  ListInv'
<1>1. Stored' = Stored
  BY DEF Stored
<1> QED
  BY <1>1 DEF ListInv

\* The inductive invariant: the list names the store's receipts, each once.
THEOREM ListInvariant == Spec => []ListInv
<1>1. Init => ListInv
  BY ReceiptAssumption DEF Init, ListInv, Distinct, Stored
<1>2. ReceiptTypeOK /\ ListInv /\ [Next]_vars => ListInv'
  <2> SUFFICES ASSUME ReceiptTypeOK, ListInv, [Next]_vars
               PROVE  ListInv'
    OBVIOUS
  <2>1. ASSUME NEW w \in Workers, WorkerStep(w)
        PROVE  ListInv'
    <3>1. worker[w].stage # "idle" => worker[w].receipt \in Receipts
      BY DEF ReceiptTypeOK
    <3>2. CASE MarkRunning(w) \/ Upgrade(w) \/ MarkFailed(w)
      BY <3>1, <3>2, ListKept DEF MarkRunning, Upgrade, MarkFailed, UpgradeStatuses
    <3>3. CASE \/ TakeJob(w) \/ CallLoader(w) \/ WorkerLoad(w)
               \/ LoaderReturned(w) \/ Refine(w) \/ ReleaseSlot(w)
      BY <3>3, ListStays DEF TakeJob, CallLoader, WorkerLoad, LoaderReturned, Refine,
                             ReleaseSlot, receiptVars
    <3> QED
      BY <2>1, <3>2, <3>3 DEF WorkerStep
  <2>2. CASE Schedule
    <3>1. loop.stage # "idle" => loop.receipt \in Receipts
      BY DEF ReceiptTypeOK
    <3>2. CASE MarkDeferred \/ MarkPending
      BY <3>1, <3>2, ListKept DEF MarkDeferred, MarkPending, UpgradeStatuses
    <3>3. CASE ClaimSlot \/ SubmitJob
      BY <3>3, ListStays DEF ClaimSlot, SubmitJob
    <3> QED
      BY <2>2, <3>2, <3>3 DEF Schedule
  <2>3. ASSUME NEW r \in Receipts, AnswerInFull(r) \/ AnswerWithFallback(r)
        PROVE  ListInv'
    BY <2>3, ListKept DEF AnswerInFull, AnswerWithFallback, UpgradeStatuses
  <2>4. CASE UNCHANGED receiptVars
    BY <2>4, ListStays DEF receiptVars
  <2> QED
    BY <2>1, <2>2, <2>3, <2>4 DEF Next, RequestRuntime, vars
<1> QED
  BY <1>1, <1>2, ReceiptTypes, PTL DEF Spec

\* The bounded list and the store hold the same receipts in every reachable
\* state, each listed once, whoever stores and evicts.
THEOREM ListAndStoreAgree == Spec => []ListMatchesStore
<1>1. ReceiptTypeOK /\ ListInv => ListMatchesStore
  <2> SUFFICES ASSUME ReceiptTypeOK, ListInv
               PROVE  ListMatchesStore
    OBVIOUS
  <2>1. order \in Seq(Receipts)
    BY DEF ReceiptTypeOK
  <2>2. Cardinality(Stored) = Len(order)
    BY <2>1, DistinctCounts DEF ListInv, Stored
  <2> QED
    BY <2>2 DEF ListInv, ListMatchesStore
<1> QED
  BY <1>1, ReceiptTypes, ListInvariant, PTL

(***************************************************************************)
(* The answers.  That a receipt only moves forward is a matter of who may  *)
(* still write to it: AnswerInv says what its only writer will find there. *)
(***************************************************************************)

Waiting == {"pending", "none"}
Refining == {"load", "loading", "refine", "upgrade", "fail"}

AnswerInv ==
    /\ \A r \in Receipts : r \notin used => upgrade[r] = "none"
    /\ loop.stage # "idle" => upgrade[loop.receipt] \in Waiting
    /\ \A i \in DOMAIN queue : upgrade[queue[i]] \in Waiting
    /\ \A w \in Workers :
         /\ worker[w].stage = "started" => upgrade[worker[w].receipt] \in Waiting
         /\ worker[w].stage \in Refining => upgrade[worker[w].receipt] \in {"running", "none"}

\* What AnswersAreFinal says of one receipt.
Forward(r) ==
    /\ upgrade[r] \in {"final", "deferred", "upgraded", "failed"} => upgrade'[r] \in {upgrade[r], "none"}
    /\ upgrade[r] = "running" => upgrade'[r] \in {"running", "upgraded", "failed", "none"}
    /\ (upgrade[r] = "none" /\ r \in used) => upgrade'[r] \in {"none", "upgraded"}

\* A write to one receipt leaves the others alone or lets them fall out.
LEMMA ReceiptWritten ==
    ASSUME ReceiptTypeOK, NEW r \in Receipts, NEW s \in UpgradeStatuses,
           Store(r, s) \/ Mark(r, s)
    PROVE  /\ \A x \in Receipts : x # r => upgrade'[x] \in {upgrade[x], "none"} /\ Forward(x)
           /\ upgrade'[r] \in {s, "none"}
           /\ Mark(r, s) /\ upgrade[r] = "none" => upgrade'[r] = "none"
<1>1. upgrade \in [Receipts -> UpgradeStatuses]
  BY DEF ReceiptTypeOK
<1>2. \A x \in Receipts : x # r => upgrade'[x] \in {upgrade[x], "none"}
  BY <1>1 DEF Store, Mark
<1>3. upgrade'[r] \in {s, "none"} /\ (Mark(r, s) /\ upgrade[r] = "none" => upgrade'[r] = "none")
  BY <1>1 DEF Store, Mark
<1> QED
  BY <1>2, <1>3 DEF Forward

\* A receipt in the hands of a worker is in nobody else's.
LEMMA WorkersOwn ==
    ASSUME ReceiptTypeOK, JobInv, NEW w \in Workers, worker[w].stage # "idle"
    PROVE  /\ worker[w].receipt \in Receipts /\ worker[w].receipt \in used
           /\ loop.stage # "idle" => loop.receipt # worker[w].receipt
           /\ \A i \in DOMAIN queue : queue[i] # worker[w].receipt
           /\ \A v \in Workers : v # w /\ worker[v].stage # "idle"
                                   => worker[v].receipt # worker[w].receipt
<1>1. worker[w].receipt \in Working /\ worker[w].receipt \in slots
  BY DEF Working, Busy, JobInv, SlotsAreJobs
<1>2. worker[w].receipt \in Receipts
  BY DEF ReceiptTypeOK
<1>3. loop.stage # "idle" => loop.receipt # worker[w].receipt
  BY <1>1 DEF ReceiptTypeOK, LoopStages, JobInv, SlotsAreJobs, JobsAreApart, Scheduling
<1>4. \A i \in DOMAIN queue : queue[i] # worker[w].receipt
  BY <1>1 DEF JobInv, SlotsAreJobs, JobsAreApart, Queued
<1>5. \A v \in Workers : v # w /\ worker[v].stage # "idle" => worker[v].receipt # worker[w].receipt
  BY DEF JobInv, SlotsAreJobs, JobsAreApart, Busy
<1> QED
  BY <1>1, <1>2, <1>3, <1>4, <1>5 DEF JobInv

\* So is one the event loop is scheduling.
LEMMA LoopsOwn ==
    ASSUME ReceiptTypeOK, JobInv, loop.stage # "idle"
    PROVE  /\ loop.receipt \in Receipts /\ loop.receipt \in used
           /\ \A i \in DOMAIN queue : queue[i] # loop.receipt
           /\ \A w \in Workers : worker[w].stage # "idle" => worker[w].receipt # loop.receipt
<1>1. loop.receipt \in Receipts /\ loop.receipt \in used
  BY DEF ReceiptTypeOK, JobInv
<1>2. \A w \in Workers : worker[w].stage # "idle" => worker[w].receipt # loop.receipt
  BY WorkersOwn
<1>3. loop.receipt \notin Queued
  BY DEF ReceiptTypeOK, LoopStages, JobInv, SlotsAreJobs, JobsAreApart, Scheduling
<1> QED
  BY <1>1, <1>2, <1>3 DEF Queued

\* A step that writes no receipt moves none backwards.
LEMMA NothingWritten ==
    ASSUME UNCHANGED upgrade, NEW r \in Receipts
    PROVE  Forward(r)
BY DEF Forward

LEMMA WorkerAnswers ==
    ASSUME ReceiptTypeOK, JobInv, AnswerInv, NEW w \in Workers, WorkerStep(w)
    PROVE  AnswerInv' /\ \A x \in Receipts : Forward(x)
<1> DEFINE r == worker[w].receipt
<1>1. /\ worker \in [Workers -> [stage : WorkerStages, receipt : Receipts \cup {NoReceipt}]]
      /\ upgrade \in [Receipts -> UpgradeStatuses]
  BY DEF ReceiptTypeOK
<1>2. ASSUME UNCHANGED <<upgrade, used, loop>>,
             \A i \in DOMAIN queue' : \E j \in DOMAIN queue : queue'[i] = queue[j],
             \A v \in Workers : v # w => worker'[v] = worker[v],
             worker'[w].stage = "started" => upgrade[worker'[w].receipt] \in Waiting,
             worker'[w].stage \in Refining => upgrade[worker'[w].receipt] \in {"running", "none"}
      PROVE  AnswerInv' /\ \A x \in Receipts : Forward(x)
  <2>1. AnswerInv'
    BY <1>2 DEF AnswerInv
  <2> QED
    BY <1>2, <2>1, NothingWritten
<1>3. CASE WorkerLoad(w)
  BY <1>2, <1>3 DEF WorkerLoad, receiptVars, AnswerInv
<1>4. CASE TakeJob(w)
  <2>1. queue \in Seq(Receipts) /\ queue # <<>>
    BY <1>4 DEF ReceiptTypeOK, TakeJob
  <2>2. \A i \in DOMAIN queue' : \E j \in DOMAIN queue : queue'[i] = queue[j]
    <3>1. \A i \in DOMAIN Tail(queue) : i + 1 \in DOMAIN queue /\ Tail(queue)[i] = queue[i + 1]
      BY <2>1
    <3> QED
      BY <1>4, <3>1 DEF TakeJob
  <2>3. 1 \in DOMAIN queue /\ Head(queue) = queue[1]
    BY <2>1
  <2>4. worker'[w].stage = "started" /\ worker'[w].receipt = queue[1]
        /\ \A v \in Workers : v # w => worker'[v] = worker[v]
    BY <1>1, <1>4, <2>3 DEF TakeJob
  <2>5. upgrade[queue[1]] \in Waiting
    BY <2>3 DEF AnswerInv
  <2>6. UNCHANGED <<upgrade, used, loop>>
    BY <1>4 DEF TakeJob
  <2> QED
    BY <1>2, <2>2, <2>4, <2>5, <2>6 DEF Refining
<1>5. CASE CallLoader(w) \/ LoaderReturned(w) \/ Refine(w) \/ ReleaseSlot(w)
  <2>1. UNCHANGED <<upgrade, used, loop, queue>> /\ \A v \in Workers : v # w => worker'[v] = worker[v]
    BY <1>1, <1>5 DEF CallLoader, LoaderReturned, Refine, ReleaseSlot, WorkerMoves
  <2>2. CASE ReleaseSlot(w)
    <3>1. worker'[w].stage = "idle"
      BY <1>1, <2>2 DEF ReleaseSlot, Idle
    <3> QED
      BY <1>2, <2>1, <3>1 DEF Refining
  <2>3. CASE CallLoader(w) \/ LoaderReturned(w) \/ Refine(w)
    <3>1. worker[w].stage \in Refining /\ worker'[w].stage \in Refining /\ worker'[w].receipt = r
      BY <1>1, <2>3 DEF CallLoader, LoaderReturned, Refine, WorkerMoves, Refining
    <3>2. upgrade[r] \in {"running", "none"}
      BY <3>1 DEF AnswerInv
    <3>3. worker'[w].stage # "started"
      BY <3>1 DEF Refining
    <3> QED
      BY <1>2, <2>1, <3>1, <3>2, <3>3
  <2> QED
    BY <1>5, <2>2, <2>3
<1>6. CASE MarkRunning(w) \/ Upgrade(w) \/ MarkFailed(w)
  <2>1. /\ worker[w].stage \in {"started", "upgrade", "fail"} /\ UNCHANGED <<used, loop, queue>>
        /\ \A v \in Workers : v # w => worker'[v] = worker[v]
        /\ worker'[w].receipt = r /\ worker'[w].stage \in {"load", "release"}
        /\ worker'[w].stage = "load" => MarkRunning(w)
    BY <1>1, <1>6 DEF MarkRunning, Upgrade, MarkFailed, WorkerMoves
  <2>2. /\ r \in Receipts /\ r \in used
        /\ loop.stage # "idle" => loop.receipt \in Receipts /\ loop.receipt # r
        /\ \A i \in DOMAIN queue : queue[i] \in Receipts /\ queue[i] # r
        /\ \A v \in Workers : v # w /\ worker[v].stage # "idle"
                                => worker[v].receipt \in Receipts /\ worker[v].receipt # r
    <3>1. queue \in Seq(Receipts) /\ (loop.stage # "idle" => loop.receipt \in Receipts)
          /\ \A v \in Workers : worker[v].stage # "idle" => worker[v].receipt \in Receipts
      BY DEF ReceiptTypeOK
    <3>2. \A i \in DOMAIN queue : queue[i] \in Receipts
      BY <3>1
    <3> QED
      BY <2>1, <3>1, <3>2, WorkersOwn
  <2>3. PICK s \in {"running", "upgraded", "failed"} :
           /\ Store(r, s) \/ Mark(r, s)
           /\ MarkRunning(w) => s = "running" /\ Mark(r, s)
           /\ s = "running" => MarkRunning(w)
           /\ s = "failed" => Mark(r, s)
    <3>1. CASE MarkRunning(w)
      BY <3>1 DEF MarkRunning
    <3>2. CASE Upgrade(w)
      <4>1. ~MarkRunning(w)
        BY <3>2 DEF Upgrade, MarkRunning
      <4> QED
        BY <3>2, <4>1 DEF Upgrade
    <3>3. CASE MarkFailed(w)
      <4>1. ~MarkRunning(w)
        BY <3>3 DEF MarkFailed, MarkRunning
      <4> QED
        BY <3>3, <4>1 DEF MarkFailed
    <3> QED
      BY <1>6, <3>1, <3>2, <3>3
  <2>4. /\ \A x \in Receipts : x # r => upgrade'[x] \in {upgrade[x], "none"} /\ Forward(x)
        /\ upgrade'[r] \in {s, "none"}
        /\ Mark(r, s) /\ upgrade[r] = "none" => upgrade'[r] = "none"
    BY <2>2, <2>3, ReceiptWritten DEF UpgradeStatuses
  <2>5. /\ worker[w].stage = "started" => upgrade[r] \in Waiting
        /\ worker[w].stage # "started" => upgrade[r] \in {"running", "none"}
    BY <2>1 DEF AnswerInv, Refining
  <2>6. Forward(r)
    <3>1. CASE MarkRunning(w)
      <4>1. upgrade[r] \in Waiting
        BY <2>5, <3>1 DEF MarkRunning
      <4> QED
        BY <2>3, <2>4, <3>1, <4>1 DEF Forward, Waiting
    <3>2. CASE ~MarkRunning(w)
      <4>1. upgrade[r] \in {"running", "none"}
        BY <1>6, <2>5, <3>2 DEF Upgrade, MarkFailed
      <4> QED
        BY <2>3, <2>4, <3>2, <4>1 DEF Forward
    <3> QED
      BY <3>1, <3>2
  <2>7. \A x \in Receipts : Forward(x)
    BY <2>4, <2>6
  <2>8. \A x \in Receipts : x # r => /\ upgrade[x] \in Waiting => upgrade'[x] \in Waiting
                                     /\ upgrade[x] \in {"running", "none"}
                                          => upgrade'[x] \in {"running", "none"}
    BY <2>4 DEF Waiting
  <2>9. \A x \in Receipts : x \notin used' => upgrade'[x] = "none"
    BY <2>1, <2>2, <2>4 DEF AnswerInv
  <2>10. loop'.stage # "idle" => upgrade'[loop'.receipt] \in Waiting
    BY <2>1, <2>2, <2>8 DEF AnswerInv
  <2>11. \A i \in DOMAIN queue' : upgrade'[queue'[i]] \in Waiting
    BY <2>1, <2>2, <2>8 DEF AnswerInv
  <2>12. ASSUME NEW v \in Workers
         PROVE  /\ worker'[v].stage = "started" => upgrade'[worker'[v].receipt] \in Waiting
                /\ worker'[v].stage \in Refining
                     => upgrade'[worker'[v].receipt] \in {"running", "none"}
    <3>1. CASE v = w
      <4>1. worker'[w].stage = "load" => upgrade'[r] \in {"running", "none"}
        BY <2>1, <2>3, <2>4
      <4> QED
        BY <2>1, <3>1, <4>1 DEF Refining
    <3>2. CASE v # w
      <4>1. worker'[v] = worker[v]
        BY <2>1, <3>2
      <4>2. worker[v].stage # "idle" => worker[v].receipt \in Receipts /\ worker[v].receipt # r
        BY <2>2, <3>2
      <4> QED
        BY <2>8, <4>1, <4>2 DEF AnswerInv, Refining
    <3> QED
      BY <3>1, <3>2
  <2> QED
    BY <2>7, <2>9, <2>10, <2>11, <2>12 DEF AnswerInv
<1> QED
  BY <1>3, <1>4, <1>5, <1>6 DEF WorkerStep

\* A write by the event loop to a receipt that is in no job, its own or a new one.
LEMMA LoopWrites ==
    ASSUME ReceiptTypeOK, AnswerInv, UNCHANGED <<queue, worker>>, used \subseteq used',
           NEW r \in Receipts, r \in used', NEW s \in UpgradeStatuses, Store(r, s) \/ Mark(r, s),
           \A i \in DOMAIN queue : queue[i] # r,
           \A w \in Workers : worker[w].stage # "idle" => worker[w].receipt # r,
           Forward(r),
           loop'.stage # "idle" => loop'.receipt = r /\ s = "pending"
    PROVE  AnswerInv' /\ \A x \in Receipts : Forward(x)
<1>1. /\ \A x \in Receipts : x # r => upgrade'[x] \in {upgrade[x], "none"} /\ Forward(x)
      /\ upgrade'[r] \in {s, "none"}
  BY ReceiptWritten
<1>2. \A x \in Receipts : x # r => /\ upgrade[x] \in Waiting => upgrade'[x] \in Waiting
                                   /\ upgrade[x] \in {"running", "none"}
                                        => upgrade'[x] \in {"running", "none"}
  BY <1>1 DEF Waiting
<1>3. \A x \in Receipts : x \notin used' => upgrade'[x] = "none"
  BY <1>1 DEF AnswerInv
<1>4. loop'.stage # "idle" => upgrade'[loop'.receipt] \in Waiting
  BY <1>1 DEF Waiting
<1>5. \A i \in DOMAIN queue : queue[i] \in Receipts
  <2>1. queue \in Seq(Receipts)
    BY DEF ReceiptTypeOK
  <2> QED
    BY <2>1
<1>6. \A i \in DOMAIN queue' : upgrade'[queue'[i]] \in Waiting
  BY <1>2, <1>5 DEF AnswerInv
<1>7. ASSUME NEW w \in Workers
      PROVE  /\ worker'[w].stage = "started" => upgrade'[worker'[w].receipt] \in Waiting
             /\ worker'[w].stage \in Refining => upgrade'[worker'[w].receipt] \in {"running", "none"}
  <2>1. worker[w].stage # "idle" => worker[w].receipt \in Receipts /\ worker[w].receipt # r
    BY DEF ReceiptTypeOK
  <2> QED
    BY <1>2, <2>1 DEF AnswerInv, Refining
<1> QED
  BY <1>1, <1>3, <1>4, <1>6, <1>7 DEF AnswerInv

LEMMA LoopAnswers ==
    ASSUME ReceiptTypeOK, JobInv, AnswerInv,
           \/ Schedule
           \/ \E r \in Receipts : AnswerInFull(r) \/ AnswerWithFallback(r)
    PROVE  AnswerInv' /\ \A x \in Receipts : Forward(x)
<1>1. ASSUME NEW r \in Receipts, AnswerInFull(r) \/ AnswerWithFallback(r)
      PROVE  AnswerInv' /\ \A x \in Receipts : Forward(x)
  <2>1. /\ r \notin used /\ r \in used' /\ used \subseteq used' /\ UNCHANGED <<queue, worker>>
        /\ loop.stage = "idle"
    BY <1>1 DEF AnswerInFull, AnswerWithFallback, Idle
  <2>2. PICK s \in {"final", "pending"} :
           Store(r, s) /\ (loop'.stage # "idle" => loop'.receipt = r /\ s = "pending")
    BY <1>1, <2>1 DEF AnswerInFull, AnswerWithFallback
  <2>3. \A i \in DOMAIN queue : queue[i] # r
    <3>1. \A i \in DOMAIN queue : queue[i] \in slots
      BY DEF JobInv, SlotsAreJobs, Queued
    <3> QED
      BY <2>1, <3>1 DEF JobInv
  <2>4. \A w \in Workers : worker[w].stage # "idle" => worker[w].receipt # r
    BY <2>1, WorkersOwn
  <2>5. Forward(r)
    BY <2>1 DEF AnswerInv, Forward
  <2> QED
    BY <2>1, <2>2, <2>3, <2>4, <2>5, LoopWrites DEF UpgradeStatuses
<1>2. CASE ClaimSlot \/ SubmitJob
  <2>1. UNCHANGED <<upgrade, used, worker>> /\ loop.stage # "idle"
    BY <1>2 DEF ClaimSlot, SubmitJob
  <2>2. upgrade[loop.receipt] \in Waiting /\ loop.receipt \in Receipts
    BY <2>1, LoopsOwn DEF AnswerInv
  <2>3. \A i \in DOMAIN queue' : upgrade[queue'[i]] \in Waiting
    <3>1. CASE ClaimSlot
      BY <3>1 DEF ClaimSlot, AnswerInv
    <3>2. CASE SubmitJob
      <4>1. queue \in Seq(Receipts) /\ queue' = Append(queue, loop.receipt)
        BY <3>2 DEF SubmitJob, ReceiptTypeOK
      <4>2. PICK longer : longer = Append(queue, loop.receipt)
        OBVIOUS
      <4>3. /\ DOMAIN longer = 1 .. Len(queue) + 1 /\ DOMAIN queue = 1 .. Len(queue)
            /\ Len(queue) \in Nat /\ longer[Len(queue) + 1] = loop.receipt
            /\ \A i \in DOMAIN queue : longer[i] = queue[i]
        BY <2>2, <4>1, <4>2
      <4>4. \A i \in DOMAIN longer : i \in DOMAIN queue \/ longer[i] = loop.receipt
        BY <4>3
      <4>5. \A i \in DOMAIN longer : upgrade[longer[i]] \in Waiting
        BY <2>2, <4>3, <4>4 DEF AnswerInv
      <4> QED
        BY <4>1, <4>2, <4>5
    <3> QED
      BY <1>2, <3>1, <3>2
  <2>4. loop'.stage # "idle" => upgrade[loop'.receipt] \in Waiting
    <3>1. loop'.stage # "idle" => loop'.receipt = loop.receipt
      BY <1>2 DEF ClaimSlot, SubmitJob, Idle, ReceiptTypeOK
    <3> QED
      BY <2>2, <3>1
  <2>5. AnswerInv'
    BY <2>1, <2>3, <2>4 DEF AnswerInv
  <2> QED
    BY <2>1, <2>5, NothingWritten
<1>3. CASE MarkDeferred \/ MarkPending
  <2> DEFINE r == loop.receipt
  <2>1. loop.stage # "idle" /\ UNCHANGED <<used, queue, worker>>
    BY <1>3 DEF MarkDeferred, MarkPending
  <2>2. PICK s \in {"deferred", "pending"} :
           Mark(r, s) /\ (loop'.stage # "idle" => loop'.receipt = r /\ s = "pending")
    BY <1>3 DEF MarkDeferred, MarkPending, Idle, ReceiptTypeOK
  <2>3. /\ r \in Receipts /\ r \in used
        /\ \A i \in DOMAIN queue : queue[i] # r
        /\ \A w \in Workers : worker[w].stage # "idle" => worker[w].receipt # r
    BY <2>1, LoopsOwn
  <2>4. Forward(r)
    <3>1. upgrade[r] \in Waiting
      BY <2>1 DEF AnswerInv
    <3>2. upgrade[r] = "none" => upgrade'[r] = "none"
      BY <2>2, <2>3, ReceiptWritten DEF UpgradeStatuses
    <3> QED
      BY <3>1, <3>2 DEF Forward, Waiting
  <2> QED
    BY <2>1, <2>2, <2>3, <2>4, LoopWrites DEF UpgradeStatuses
<1> QED
  BY <1>1, <1>2, <1>3 DEF Schedule

\* One step, of whoever it is.
LEMMA StepAnswers ==
    ASSUME ReceiptTypeOK, JobInv, AnswerInv, [Next]_vars
    PROVE  AnswerInv' /\ \A x \in Receipts : Forward(x)
<1>1. CASE \E w \in Workers : WorkerStep(w)
  BY <1>1, WorkerAnswers
<1>2. CASE Schedule \/ \E r \in Receipts : AnswerInFull(r) \/ AnswerWithFallback(r)
  BY <1>2, LoopAnswers
<1>3. CASE UNCHANGED receiptVars
  <2>1. UNCHANGED <<upgrade, used, queue, loop, worker>>
    BY <1>3 DEF receiptVars
  <2> QED
    BY <2>1, NothingWritten DEF AnswerInv
<1> QED
  BY <1>1, <1>2, <1>3 DEF Next, RequestRuntime, vars

\* The inductive invariant: what the one writer a receipt still has will find.
THEOREM AnswerInvariant == Spec => []AnswerInv
<1>1. Init => AnswerInv
  BY DEF Init, Idle, AnswerInv, Refining
<1>2. ReceiptTypeOK /\ JobInv /\ AnswerInv /\ [Next]_vars => AnswerInv'
  BY StepAnswers
<1> QED
  BY <1>1, <1>2, ReceiptTypes, JobInvariant, PTL DEF Spec

\* What a receipt says of its refinement never goes back, and one that fell
\* out of the list comes back only with its full answer.
THEOREM AnswersStayFinal == Spec => AnswersAreFinal
<1>1. ReceiptTypeOK /\ JobInv /\ AnswerInv /\ [Next]_vars =>
        [\A r \in Receipts :
           LET was == upgrade[r] is == upgrade'[r] IN
           /\ was \in {"final", "deferred", "upgraded", "failed"} => is \in {was, "none"}
           /\ was = "running" => is \in {"running", "upgraded", "failed", "none"}
           /\ (was = "none" /\ r \in used) => is \in {"none", "upgraded"}]_vars
  BY StepAnswers DEF Forward
<1> QED
  BY <1>1, ReceiptTypes, JobInvariant, AnswerInvariant, PTL DEF Spec, AnswersAreFinal

=============================================================================
