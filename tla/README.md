# ParkPulse: a TLA+ verification project

ParkPulse is an operations platform for an amusement park. A Python process
(`src/backend/`) simulates the park, answers operators and runs language-model
agents; a Spring process (`src/spring-backend/`) takes over its services one by
one and shares files and a SQLite registry with it. This project models the
parts of both processes where several threads or processes, failures and
restarts meet durable state, checks the models with TLC on small instances and
proves their safety properties with TLAPS for all instances.

Everything is written from the source. `PROJECT.json` says, definition by
definition, which lines each one stands for (`map`), lists the runs, a mutant
for every property (a plausible bug in the code that the property must catch),
the theorems, the hazards the code is exposed to, and the findings.

## 1. The system

| Component | State it keeps | Operations | Talks to |
|---|---|---|---|
| Delivery outbox (`DeliveryOutboxService.java`) | `delivery_outbox.jsonl`, append-only, one whole dispatch record per row | `recordDispatch`, `recordAcknowledgement`, `recordApprovalDecision`, lookups of the newest rows | GCP adapters, event pipeline, retry worker; the Python outbox uses the same file by default |
| GCP adapters (`DeliveryGcpAdapterService.java`) | none | publish to Pub/Sub, FCM, Firestore | called by the outbox before it appends |
| Event pipeline (`EventPipelineService.java`) | canonical event ledger file | append one envelope | called by the outbox and the retry worker after they append |
| Partner retry (`DeliveryPartnerRetryService.java`) | `partner_retry_receipts.jsonl` | `run(limit)` | reads the outbox, posts to partners |
| Runtime loader (`main.py`) | `_parkpulse_app`, `_load_task`, `_load_error`, `_load_lock` | import the full runtime once | called by the event loop and the refinement workers |
| Run receipts and refinement (`main.py`) | receipt list of 80, slot set, executor queue | store, mark, upgrade, evict receipts; claim and release slots | loader, operator API |
| Agent trust registry (`AgentTrustService.java`, `agent_trust_store.py`) | SQLite tables of partners, onboarding records, signing keys, revocations | register, rotate, revoke, issuer metadata, partner update | certification; shared by both processes |
| Certification (`AgentCertificationService.java`) | none of its own | `certify` | registry, handshake session |
| Handshake sessions (`AgentHandshakeService.java`, `AgentHandshakeLedgerService.java`) | one SQLite row per session | identity, capability, intent, propose, counter, queue reroute, commerce evaluation, commit, monitor, receipt | delegation tokens of the registry |
| Python outbox (`park_delivery.py`, `reliability.py`) | list of the newest 50 documents, append-only file, one circuit breaker per kind of row | build and carry out a delivery plan, acknowledge, decide an approval | receivers, GCP, callers in `main.py` and `parkpulse_api.py` |
| Monitor evidence cache (`main.py`) | cache entry and snapshot file per key, set of keys being refreshed | answer, adopt the snapshot, refresh in the background, build | ledgers and policy files other threads write; Mongo |
| Hot and evidence caches, evidence jobs (`main.py`) | dictionaries with expiry, job table | fill on a miss, run a job | Mongo |
| Fast-state sync and heartbeat (`main.py`) | one flag each | a background write at a time | Mongo |
| Live-feed ledger (`LiveFeedLedgerService.java`) | feed files, caches of row counts and newest rows | append, read newest | |
| Incidents (`customer_emergency_incidents.py`) | list of 80, idempotency index | create, transition, audit | |
| Python handshake (`agent_handshake.py`) | sessions in memory, mirrored to Mongo | as the Spring sessions | trust store |
| Everything else | see `components` in PROJECT.json | simulation, optimiser, language-model agents, analytics, training, studio, frontend | |

What is hard, and what makes each modelled component correct:

* **Outbox.** No lock spans the read of the file and the append. Every update
  copies the newest row it can see, and every reader sees at most 100 rows.
  Appends, publishes and event appends fail separately, and the process may die
  between any two of them. Correct means: deduplication works as far as the
  lookup sees, an update continues the newest row it saw, an operator decision
  is not lost, nothing refused becomes executable, and the event ledger does
  not run ahead of the outbox.
* **Retry.** A run works on a snapshot, counts attempts from a file it appends
  to later, and posts in between. Correct means: only released dispatches are
  posted, the attempt budget holds, and the ledger gets no more acceptances of
  a dispatch than runs overlap.
* **Loader and receipts.** Two kinds of threads import one module, and
  receipts are evicted while refinements of them run. Correct means: one import
  at a time and never after success, no slot leaks, no receipt promises an
  upgrade nobody works on, and every promise is settled in the end.
* **Trust.** A request consists of several transactions, and two processes
  work on the tables. Correct means: there is a signing key once there was one,
  rotation breaks no credential, an approved record is backed by a credential,
  and no credential exceeds the allowlist.
* **Handshake.** Whole-row overwriting, no check of the state. Correct means: a
  commitment and a receipt agree with the session that shows them, and the
  session never exceeds what the guest delegated.
* **Python outbox.** Several threads scan and prepend to one list without a
  lock; the list is the only memory of what was sent and is cut to 50 and
  emptied by a restart; a write is retried, then goes past its circuit or is
  given up. Correct means: the list shows no status the file silently lacks, a
  dispatch is created a bounded number of times, a circuit closes only on a
  success, and a decision that calls for medical help, accessibility support or
  security gets a worker task for it.
* **Monitor evidence.** Requests interleave at their awaits while one thread
  refreshes; a graph is stamped with the state of its sources after it was read
  from them; entries and snapshots expire, older builds can end last. Correct
  means: one refresh at a time, and what clients get ends up current.

## 2. Modules

| Module | Models | Extends / instantiates |
|---|---|---|
| `DeliveryOutbox` | the Spring outbox with its request threads | instantiates `DispatchLifecycle` |
| `DispatchLifecycle` | abstract: what the outbox promises about one dispatch | |
| `PartnerRetry` | retry runs composed with the outbox | extends `DeliveryOutbox`, and instantiates it for what the outbox sees |
| `RuntimeLoader` | the lazy import | |
| `RunReceipts` | receipts and refinement composed with the loader | extends `RuntimeLoader` |
| `AgentTrust` | registry, certification and the start-up of the Python process | |
| `HandshakeSession` | one handshake session | |
| `DeliveryPlan` | which dispatches a decision sends: a pure function | |
| `ParkDelivery` | the Python outbox carrying out plans | extends `DeliveryPlan` |
| `MonitorEvidence` | the stale-while-revalidate cache of the monitor evidence | |
| `MC*` | instances for TLC: payloads, scopes, symmetry | one per specification |
| `DeliveryOutboxProofs`, `PartnerRetryProofs`, `RunReceiptsProofs`, `AgentTrustProofs`, `HandshakeSessionProofs`, `ParkDeliveryProofs`, `MonitorEvidenceProofs` | theorems and proofs | extend the specification and TLAPS |
| `OutboxLifecycleProofs` | the refinement of `DispatchLifecycle` and the bounds on duplicates and lost updates | extends `DeliveryOutboxProofs`; `PartnerRetryProofs` extends it |

Each specification lists its constants and variables with the names of the code
they stand for, and has one action per step of the code that others can
observe: a file read together with the decision taken from it, an append, an
HTTP call, a critical section, an SQL transaction. Definitions introduced by
"Faulty variant" are used by no action; they are the bugs the mutants put in.

### 2.1 DeliveryOutbox

A member of `Dispatches` is one (channel, target, payload); the idempotency key
and the dispatch id are hashes of that triple, so they identify the same thing.
`log` is the file, `stage` and `work` hold what a thread is about to append.

| Action | Code |
|---|---|
| `CreateDispatch` | `recordDispatch` up to the adapters: duplicate lookup, approval policy, agent boundary |
| `Acknowledge`, `DecideApproval` | `findDispatch` and the changes to the copy |
| `Publish` | `enrichDeliveryDispatch`, `publishApprovalDecision` |
| `PersistDispatch` | `persistDispatch`, which swallows a failed append |
| `AppendUpdate` | `appendRecord` of an update, whose failure escapes |
| `RecordEvent` | `EventPipelineService.record…` |
| `Restart` | the process dies and comes back |

A row remembers two things the code does not store: the row it was copied from
(`base`) and the length of the file when it was read (`looked`). They let the
invariants speak about what a lookup saw long after the file has grown. No guard
reads them.

Assumptions: rows parse, the file exists and an append is atomic, so the
existence check that chooses between CREATE and APPEND, torn lines, and a
reader that stops at the first malformed line are not modelled. A request that
finds a duplicate changes nothing. A publish happens or does not, and the code
goes on in both cases. `published` and `events` are sets.

### 2.2 PartnerRetry

`receipts` is the retry ledger and `run` the snapshot and position of each
worker. `posts` counts what the partner was sent and `unrecorded` what of it has
no receipt, which no file of the code records. `Verdict` is `attemptDispatch` up
to the decision to send, in the order of its checks. A post that times out may
have been accepted. The retries share the event ledger with the outbox;
`OutboxEvents` leaves their own events out, and `RefinesOutbox` states that
outbox and retries together, seen so, are `DeliveryOutbox` alone.

### 2.3 RuntimeLoader and RunReceipts

`call[t]` is where thread t is inside `_load_full_module_locked`: the check
without the lock, the wait, the check under the lock, the import, the release.
The load task of the event loop is submitted, runs in the loader thread, and its
future is resolved before its callback runs. In `RunReceipts` each critical
section under `_receipt_lock` or `_refinement_lock` is one step. The event loop
schedules one request at a time, as nothing there awaits, while workers run in
between. Receipt ids are unique. An exception that cancels a worker thread from
outside is not modelled. With the default
`PARKPULSE_MAX_BACKGROUND_REFINEMENTS=0` every refinement is deferred; the runs
take a value of 2, the theorems hold for any.

### 2.4 AgentTrust

A transaction is one step, and an exception may end a request between any two
(`Abort`). One partner is modelled, one of those the Python process writes back
at its start. A missing partner row and an empty list mean the same to the code
(both fall back to the default scopes). Certification ids are unique.
Audit rows are left out, as nothing reads them but a listing.
`ActiveKeys` may have two members; which one comes out newest is open, as time
stamps of two processes do not order them. Whether the handshake session of a
certification passes is a nondeterministic choice. Revocations are by the id of
an issued credential. `listed` is a history of the allowlists the partner's row has
had; no guard reads it. Registration and certification inside the Python process
work on memory and are not modelled, nor is the one-time import of the old JSON
registry at its start, which adds partners and records but issues nothing.

### 2.5 HandshakeSession

One session, so one row. An operation reads the row, checks the token and
computes its copy in one step (`Operate`) and writes it in another
(`PersistSession`), since nothing it reads besides the row can change in
between except the clock. A proposal is what its id says of it: first proposal,
counter revision (`_r1`), rerouted by the queue agent. Priorities, timings and
texts of plans are left out. `done` abstracts the session's growing lists to the
operations they tell of. A rejected operation leaves no trace: the record of the
refused delegation is made in a copy the exception discards. `stale` is a history
flag: somebody wrote the row since this thread read it.
Identity requests of one millisecond share a session id and so a row. The expiry
of somebody else's token is left out: such a token never passes.

### 2.6 DeliveryPlan and ParkDelivery

`DeliveryPlan` is `build_delivery_plan`: scenario, selected action and action mix
to an ordered list of dispatches. A dispatch is its channel, what it asks for,
whether mix or script composed it, and whether it waits for an operator; texts,
zones and targets are left out, being the same for the same decision. A mix is
the set of its parts that ask for something.

| Action | Code |
|---|---|
| `Deliver` | a plan is begun by a thread |
| `Record` | `_record` up to its write: the duplicate scan, the initial status |
| `Persist`, `FailWrite` | one attempt of `_persist_with_recovery` through `call_with_retries`, or the direct write past an open circuit |
| `HearSuccess` | `record_success` after the append: other threads may count failures on the circuit, or open it, in between |
| `List` | the document enters `_outbox`, which is cut |
| `AcknowledgeDispatch`, `RecordApprovalDecision` | the update in place, then its write as above |
| `Recover` | a circuit's recovery time has passed |
| `Restart` | the process dies; list and circuits start empty, the file stays |

The payload's id and idempotency key are hashes of decision and dispatch, so a
`Key` is that pair. The file is a count per key and status, since nobody reads
it back. `lost` is what was answered with a durability error, `answered` the
plans carried out, and `lives` counts how often a key was lost from memory, by a
restart or by newer documents; no guard reads the three. Acknowledgements and
decisions are made on the event loop, one at a time. What a circuit counts
beyond its threshold is not kept, as nothing looks at it. Spring uses
the same file by default; what it appends makes no difference here, as this code
never reads it, and what Spring makes of the rows of this process is not
modelled.

### 2.7 MonitorEvidence

One key (the limit a request is clamped to) and the local snapshot; the copy in
Mongo, read when there is no local file, is left out. `source` counts the
changes of the ledgers and policy files, and stands for their fingerprint;
`_monitor_evidence_graph` also reads a case index that is not part of the
fingerprint, and what changes only there shows after the TTL. A graph is the
version it was read from and the version it was stamped with. Expiry is a flag
that time raises. `builder[b]` is where a coroutine or the refresher's thread is;
coroutines give up the loop only while they await the sources (`MayRun`), the
refresher runs a loop of its own. `write_text` first truncates and then fills:
a reader in between, a failing write or a second writer sees a torn file.
A build reads its sources one after the other; `Gather` takes the version of the
first for all, the oldest content such a graph can have.
Setting the flag and submitting the refresh are one step, as nobody else looks
at either in between. The age of a snapshot is taken on a monotonic clock, so
after a reboot of the host an expired one may count as fresh (`Restart`).

## 3. Runs

| Run | Instance | Shows | Distinct states |
|---|---|---|---|
| `outbox_concurrent` | two threads, one command that needs approval, a file of 5 rows over a window of 3 | what a lookup can see after a row holds fewer further creations than threads, fewer updates than threads overlook a row, and no event runs ahead of its row | 308,256 |
| `outbox_sequential` | one thread, three payloads (delivered, pending, blocked), windows larger than the file | with one request at a time the newest row per dispatch implements `DispatchLifecycle`, by which no decision is forgotten, although appends fail and the process restarts | 318,592 |
| `outbox_lookback` | one thread, window 2 | **fails**: a key is created again once the window has moved on | 11,340 until the violation |
| `outbox_boundary` | one thread, three payloads | **fails**: an operator decision makes a dispatch executable the boundary blocked | 107 until the violation |
| `retry` | one request thread, two workers, four runs of one row each, one command that needs approval | only released dispatches are posted; overlapping runs exceed the budget by at most one post each, lost receipts by one each; acceptances are bounded by the workers; the outbox sees steps of its own or nothing (`RefinesOutbox`) | 1,386,832 |
| `retry_held` | one worker, one run | **fails**: a row superseded by a hold is replayed | 6,813 until the violation |
| `receipts` | two requests, two workers, a list of one, two slots, two import failures | exclusive import, list and store agree, slots are jobs, no orphaned promise, answers are final; promises are settled, slots released, loads decided | 54,279 |
| `trust_concurrent` | two threads and the Python process, one agent, two keys, two certifications | the registry invariants, by which allowlists credentials go, and who may become a second active key | 763,405 |
| `trust_allowlist` | one thread | **fails**: a narrowed allowlist does not block a certification | 8,723 until the violation |
| `handshake_concurrent` | two threads, own and foreign token, five writes | commitment, receipt, record and delegation agree, and only overtaken writers forget | 833,775 |
| `park_delivery` | the event loop and one worker, a medical and a gate decision of two dispatches each, a list of three, two attempts, threshold 3, three calls or restarts | list and file agree, creations are bounded, circuits close on success only, critical actions are staffed | 272,487 |
| `monitor_evidence` | two requests and the refresher, one change, one restart, one failing build | the refreshing flag is exact, and the evidence served converges to the sources | 193,795 |

**Why these bounds.** The window of the outbox (`RowCap`, 100 in the code) is
what makes rows fall out of sight: three rows under a file of five let a lookup
miss a row both because it is too old and because it comes too late. Two
threads suffice for every race of the models, as each is between one reader
and one writer; `DuplicatesBoundedByThreads`, `LostUpdatesBounded`, `AttemptBudget`,
`AcceptancesBounded` and `CreationsBounded` state their bound in the number of
actors. `MaxAttempts = 2` with four runs (`MaxRuns`) reaches the budget and goes
past it, two rows (`MaxRows`) are the creation of a command and the decision
that releases it. Two requests for a list of one make an eviction possible while
the evicted receipt's refinement runs; two failing imports let both kinds of
threads fail. Two certification ids make two overlapping certifications of one
agent possible, two keys a rotation and a return to the default key. Five writes
of a session are its creation and four operations: a counter, a commit, a
receipt and one that was overtaken. In `park_delivery` the two plans send four
dispatches over a list of three, so keys are forgotten without a restart; three
calls are two deliveries of one decision and an update, a second decision or a
restart; a threshold of 3 with two attempts opens a circuit in the middle of a
write. In `monitor_evidence` one change is enough for a graph that is older than
its stamp, and the restart for a snapshot that outlives it. `MaxRows`,
`MaxRuns`, `MaxFailures`, `MaxWrites`, `MaxCalls`, `MaxChanges`, `MaxRestarts`
and the sets of ids are the only bounds; each is named where it is used in a
guard. What is proved (section 4) holds for any value of them.

**Symmetry** is used between threads, between retry workers and between
certification ids, in runs of safety properties only, never in `receipts` and
`monitor_evidence`, which check liveness. **Deadlock** is checked except in
`receipts` and `park_delivery`: each request is made once, and calls are
bounded, so the system comes to rest when all are answered.

**Fairness** is assumed in two runs. In `receipts`: weak fairness of what the
event loop is scheduling (nothing there awaits, so it runs to its end), of the
load task (the executor's thread runs what is submitted) and of each worker.
Every import returns or raises, and every refinement runs under `wait_for`, so
neither step can stay enabled for ever without being taken. The import lock
needs no strong fairness in this instance: a worker waits for it at most until
the import has succeeded once, after which nobody takes it again, and failures
are finite. In `monitor_evidence`: weak fairness of each coroutine's steps, of
each builder's steps (a file is read, a graph is built or raises), of the
refresher's thread, which its executor runs as long as something is queued, and
of the passing of time for the cache entry. Nobody has to send a request, and
nothing has to change: `EvidenceConverges` is conditional on clients that keep
asking, and says what they get once the sources rest. The expiry of the snapshot is not fair,
as a reboot may undo it. No liveness is stated of the outboxes, the retry
worker, the registry or the handshake: their requests come from clients, and the
repository starts none of them on a schedule.

### Findings

1. `outbox_lookback`: `findDispatchByIdempotencyKey` asks for 500 rows and
   `latestDispatches` gives it 100. "Append-first, idempotency-keyed dispatch
   records" holds for 100 rows, acknowledgements and decisions included.
2. `outbox_boundary`: `approvalDecision` looks neither at the status nor at the
   boundary of the row it copies, and the retry worker sends the result.
3. `retry_held`: `dispatchesForRetry` returns rows, so the approved row of a
   dispatch that was held afterwards is still eligible.
4. `trust_allowlist`: `certify` compares with the allowlist copied into the
   record by the registration, not with the partner's.

Further traits of the code are visible in the models, or were met while writing
them, without contradicting what the repository says of them:

* A message is published before its row is appended, and an append that fails
  takes nothing back. Two overlapping creations of one payload both succeed; two
  overlapping retry runs both post. A receipt may be evicted while its
  refinement runs, and comes back with it.
* Monitor evidence is stamped with the fingerprint of its sources after they
  were read (`main.py:8763`). A change in between makes an old graph pass for
  current until its TTL is over, in the cache and after a restart in the
  snapshot. `EvidenceConverges` holds because of the TTL alone.
* No caller of `_cached_hot_endpoint` turns background refresh on
  (`main.py:2085`), so an expired entry is answered until something pops it.
* In the Python outbox a document whose append failed is listed all the same,
  and `ackDurabilityError` is never cleared by a later success. When Mongo is
  unavailable the API uses a hash for a decision id, so that equal decisions
  share their dispatches' keys and the later one is answered from the list.

### Mutants

Each property of a passing run has one mutant: a mapped definition replaced by
a faulty variant beside it, under which TLC finds the property violated. They
are plausible slips: a duplicate lookup left out, an update of the oldest row,
a copy that drops the decision, a failed append swallowed in the wrong method,
a receipt marked after submission instead of before, a lock not given back by a
failing import, a partner known already not written back, a second check under
the lock left out, a slot released only on success, a rotation that retires its
own key, a credential issued for the record instead of for what was checked, a
reroute that keeps the state, a duplicate scan of the newest document only, a
direct write that closes its circuit whether it succeeds or not, a role counted
as staffed because some other worker was sent, a stale hit served without a
refresh, a retry reported as an acknowledgement.

## 4. Proofs

The theorems are of the form `Spec => []P` or `Spec => [][A]_vars`, three are
refinements (`Spec => RefinesLifecycle`, for the outbox alone and with retries,
and `RetrySpec => RefinesOutbox`), and `PlansNeverRepeat` is about the function
`DeliveryPlan`. They hold for every value of the constants that satisfies the
module's named assumptions (`OutboxAssumption`, `RetryAssumption`,
`LoaderAssumption`, `ReceiptAssumption`, `TrustAssumption`,
`HandshakeAssumption`, `DeliveryAssumption`, `EvidenceAssumption`,
`PlaceholderAssumption`). They say no more than that sets are included in each
other, numbers are natural and placeholders differ from what they stand in for;
`RetryAssumption` also that there are finitely many workers. Threads, payloads,
tokens, scopes and keys may be infinite sets. The theorems that count need a
finite set of actors (`DuplicatesAreBounded`, `LostUpdatesAreBounded` and
`RetriesAddNoDuplicates`: of threads, `CreationsAreBounded`: of workers). What holds only without overlapping
requests says so in a hypothesis `Threads = {t}` (`OneThreadCreatesOnce`,
`ASingleThreadForgetsNothing`), with windows no shorter than the file
(`WindowsFit`) for the refinements of `DispatchLifecycle` and what follows from
them. Each of these has a run or a finding that shows the hypothesis is needed.

| Module | Theorems | Inductive invariant |
|---|---|---|
| `DeliveryOutboxProofs` | `TypeCorrect`, `CreationsAreDeduplicated`, `UpdatesExtendTheirRead`, `UpdateEventsHaveRows`, `RequestsAgreeWithTheirRead` | `LookupInv` |
| `OutboxLifecycleProofs` | `OutboxIsALifecycle`, `DecisionsAreNotForgotten`, `OverlapsAreBounded`, `DuplicatesAreBounded`, `LostUpdatesAreBounded`, `OneThreadCreatesOnce` | `SequentialInv`, `OverlapCounts` |
| `PartnerRetryProofs` | `RetryTypes`, `PostsHaveReleases`, `BudgetHolds`, `AcceptancesAreFew`, `ClosedDispatchesStayClosed`, `LookupsSurviveRetries`, `OnlyDecisionsLiftTheBoundary`, `RetriesAddNoDuplicates`, `RetriedOutboxIsALifecycle`, `RetriesForgetNoDecision`, `RetriesRefineOutbox` | `BudgetInv`, `SafeInv` |
| `RunReceiptsProofs` | `ReceiptTypes`, `ImportsAreExclusive`, `CallersGetTheRuntime`, `SlotsBelongToJobs`, `PromisesHaveJobs`, `ListAndStoreAgree`, `AnswersStayFinal` | `LoadInv`, `JobInv`, `PromiseInv`, `ListInv`, `AnswerInv` |
| `AgentTrustProofs` | `TrustTypes`, `AKeyIsActive`, `OnlyTheDefaultKeyJoins`, `AtMostTwoKeysAreActive`, `RotationKeepsCredentials`, `ApprovalsHaveCredentials`, `CredentialsGoByRealAllowlists`, `RequestsInFlightAreSound` | `CredentialInv`, `CopiesAreListed` |
| `HandshakeSessionProofs` | `HandshakeTypes`, `CommitmentsAreCurrent`, `ReceiptsAreBacked`, `OffersHaveRecords`, `SessionsStayDelegated`, `OnlyTheOvertakenForget`, `ASingleThreadForgetsNothing` | `SessionsSound`, `FreshCopiesExtend` |
| `ParkDeliveryProofs` | `TypeCorrect`, `ListedStatusesAreOnFile`, `PlansNeverRepeat`, `AnsweredPlansAreCarriedOut`, `CriticalActionsAreStaffed`, `CircuitsCloseOnSuccess`, `CreationsAreBounded` | `DeliveryInv`, `CreationInv` |
| `MonitorEvidenceProofs` | `MonitorTypes`, `RefreshesAreSingle`, `StampsNeverRunAhead`, `NothingOldReturns` | `MonitorInv` |

* **LookupInv.** What a request appends was decided when it read the file, so
  an invariant about rows is not inductive alone. The strengthening says what
  each request in flight still knows (`InFlightAgreesWithItsRead`); a lemma
  shows that an append changes neither earlier rows nor what a reader of an
  earlier length saw. Then the append turns knowledge in flight into a fact
  about a row.
* **SequentialInv.** With one request at a time and windows that cover the file,
  what a request copied when it began is still the newest row when it appends;
  the row it appends is then a step of `DispatchLifecycle`, an append that fails
  a stutter. What `DispatchLifecycle` promises by itself (`LifecyclePromises`: a
  decision is never forgotten, and an executable or held status is that of the
  last decision) is thereby a theorem about the newest rows of the file.
* **OverlapCounts.** A row can be missed, by a creation that repeats it or an
  update that overlooks it, only by a request that read the file before the row
  was appended. Such a request was under way on another thread at that moment,
  and its thread reads the file anew for the next one: so the rows on file that
  were written behind a row, plus the requests still behind it, are fewer than
  the threads (`OverlapsAreBounded`). `LookupInv` shows that whatever repeats or
  overlooks a row is among them (`OverlapsBound`): a creation within the window
  of the lookup saw no duplicate (`CreationSawNoDuplicate`), an update continues
  the newest row it could see (`UpdateExtendsNewestSeenRow`). No lookup sees
  further than its window, hence the window in `DuplicatesBoundedByThreads`;
  `outbox_lookback` shows a creation beyond it.
* **CreationInv.** The number of creations on file plus the number under way
  never exceeds the number of workers: whoever begins one saw none, so at that
  moment everything created since the key was last lost from the list belongs
  to a thread that has yet to list it.
* **BudgetInv, SafeInv.** Every post of a dispatch has a receipt, lost it, or is
  with a worker that has yet to record it. A worker that goes to post has just
  seen fewer receipts than the budget, and no acceptance, so receipts plus
  workers about to add one stay below the budget plus the number of workers, and
  acceptances plus workers about to add one within the number of workers.
  `SafeInv` carries the released rows from the snapshot to the post. Receipts
  are only added, so a dispatch whose budget or acceptance is on file is sent
  again only by a run that was already past the check
  (`ClosedDispatchesStayClosed`).
* **Retries and the outbox.** No worker writes the outbox file or a request in
  flight, and the one event it records is hidden from the outbox's view; so each
  step of `RetryNext` is a step of the outbox or a stutter under
  `OutboxEvents` (`RetriesAreOutboxSteps`), which is the refinement. The lemmas
  about outbox steps then carry the invariants of the outbox, its bounds on
  duplicates and lost updates and its lifecycle over to the composition.
* **LoadInv.** `ImportIsExclusive` needs to know that a worker is inside the
  loader only while its job says so. One lemma covers the steps of the loader
  for any thread, worker or load task.
* **JobInv, PromiseInv.** The slot set equals the jobs if a receipt waiting for
  its claim holds no slot yet, and a promise has a job if a worker that is about
  to release its slot has already withdrawn the promise.
* **ListInv, AnswerInv.** The list names each stored receipt once, which is
  inductive once a list without repetitions is cut like its store. An answer is
  final because a receipt has at most one writer left at any time, and
  `AnswerInv` says what that writer will find.
* **CredentialInv.** Credentials are only as sound as the requests that will
  issue them: the key a request read stays on file, since rotation retires keys
  and never deletes them, and what it asks for passed the check against the list
  it carries, whoever rewrites the partner meanwhile. `CopiesAreListed` follows
  the list itself: record, certification and credential hold copies of one that
  was in the partner's row when it was registered, so an outdated list is the
  worst a certification goes by (`trust_allowlist` shows that it happens).
* **SessionsSound.** Since operations write copies of earlier rows, the
  invariant is one predicate of a session, claimed of the row and of every copy
  in flight; that an operation makes a sound session of a sound one is proved
  field by field. `FreshCopiesExtend` adds that a copy nobody overtook forgets
  nothing. With one thread no copy is ever overtaken, so nothing is forgotten.
* **DeliveryInv.** What the list shows is on file, reported lost or being
  written; what a call has passed of its plan was created, by itself or by
  whoever the list remembers. The theorem on critical actions joins this with
  lemmas about `DeliveryPlan`: every plan for such an action contains the task,
  from the mix or from the script. Mix and script each ask for a name at most
  once and the script leaves out the critical roles of the mix, so a plan
  repeats neither a dispatch nor a critical role. A call that has appended and
  not yet reported to its circuit is sure of its row in the file, whatever others
  do in between; hence `CircuitsCloseOnSuccess`.
* **MonitorInv.** The flag equals the one refresh that is queued or running, and
  a builder has a graph in hand in the stages that need one. `StepOrigins` adds
  where graphs come from: every copy after a step was a copy before it, or was
  gathered before and is stamped now. From it follow that no copy was read
  later than its watermark says and that no watermark is of the future
  (`StampsNeverRunAhead`: content <= mark <= source), and the safety half
  of `EvidenceConverges`: once nothing old is cached, on file or in hand, nothing
  old comes back (`NothingOldReturns`). That the old is one day gone is liveness
  and model-checked.

**Only model-checked.** The liveness properties `PromisesAreSettled`,
`SlotsAreReleased`, `LoadsAreDecided` and `EvidenceConverges`: liveness under
fairness and ENABLED are beyond the prover, as are induction over data and
recursive operators; the specifications use none of the latter. Every safety
property of a passing run is proved.

## 5. Not modelled

`components` in PROJECT.json gives the reason for each part. In short: numeric
simulation and optimisation (floating-point state), language-model agents (the
content of answers decides), services that only store and list documents,
stateless proxies, analytics exports, the frontend. These are by far the larger
part of the repository's lines: the six largest Python files are the simulation,
an API of endpoints over the components above, the content studio and the
Mongo store, and what the models cover is small next to them.

Of the parts that keep state between requests:

* The hot and evidence caches are dictionaries filled by whoever misses; the one
  cache with a background refresh is modelled. The fast-state sync and the
  heartbeat have the flag protocol of that cache and a single thread each.
* The evidence jobs, the live-feed ledger, the incidents and the Python
  handshake are within reach; their hazards are listed in PROJECT.json with a
  note, and the plan says in which order they would follow.
* Of modelled components: the Mongo copy of the monitor evidence, the bytes of
  the files (torn lines of the outboxes, the choice between CREATE and APPEND),
  the in-memory registration path of the Python trust store.

## 6. Plan

Done, in this order, the most important behaviour first:

1. `DeliveryOutbox` with `DispatchLifecycle`; proofs of its lookup invariants.
2. `PartnerRetry` on top of it.
3. `RuntimeLoader` and `RunReceipts`; proofs.
4. `AgentTrust`; proofs.
5. `HandshakeSession`; proofs.
6. `DeliveryPlan` and `ParkDelivery`, the Python outbox with its circuit
   breakers; proofs.
7. `MonitorEvidence`, the background refresh and its convergence; proofs.
8. `PartnerRetryProofs`, the refinement of `DispatchLifecycle`, the counts of
   duplicates, `ListMatchesStore` and `AnswersAreFinal`. The runs of the retry
   worker and of the receipts share one instance each.
9. `RefinesOutbox` and what it carries over to the composition, the lifecycle's
   promises, the origin of evidence graphs, plans without repetitions, and the
   theorems about one request thread.

Next:

10. `LiveFeedLedger`: append, row count and newest rows under concurrent writers
    with caches keyed by size and time, against an abstract ledger that counts
    what was appended.
11. `HandshakeSession` as the session step of `AgentTrust`, which now leaves its
    outcome open, and the Python handshake as a second implementation of it.
12. The incidents with their idempotency index, and the evidence jobs with their
    persisted state across restarts.
13. The rows of both processes in one file, as the lookups of the Spring outbox
    see them.

## 7. Running it

    tlasany DeliveryOutbox.tla
    tlc -workers 2 -config OutboxConcurrent.cfg MCDeliveryOutbox.tla
    tlapm DeliveryOutboxProofs.tla

Each `.cfg` says in its first line what the instance is for; `runs` in
PROJECT.json pairs it with its module. All runs and proofs together take about
half an hour on two cores.
