---------------------------- MODULE RuntimeLoader ----------------------------
(***************************************************************************)
(* Lazy loading of the full runtime (backend/main.py).                     *)
(*                                                                         *)
(* main.py answers requests without importing parkpulse_api; the import is *)
(* done once, off the request path.  Two kinds of threads may do it: the   *)
(* single thread of _load_executor, for the one load task the event loop   *)
(* submits, and the refinement workers, which call the same function       *)
(* directly.  _load_lock and a second check under it keep the import       *)
(* single; a failed import may be tried again.                             *)
(***************************************************************************)
EXTENDS Naturals

CONSTANTS
    Workers,     \* threads of _refinement_executor
    Loader,      \* the thread of _load_executor
    Free,        \* _load_lock is not held
    MaxFailures  \* bound of the model: imports that fail

ASSUME LoaderAssumption ==
    /\ Loader \notin Workers
    /\ Free \notin Workers \cup {Loader}
    /\ MaxFailures \in Nat

VARIABLES
    app,       \* _parkpulse_app is not None
    loadError, \* _load_error is not None
    started,   \* age of _load_started_at against full_runtime_stale_load_seconds
    lock,      \* holder of _load_lock
    task,      \* state of _load_task
    call,      \* call[t]: where t is in _load_full_module_locked
    failures   \* failed imports so far

loaderVars == <<app, loadError, started, lock, task, call, failures>>

LoadThreads == Workers \cup {Loader}
CallStages == {"out", "wait", "import", "publish", "ok", "raised", "callback"}

LoaderTypeOK ==
    /\ app \in BOOLEAN
    /\ loadError \in BOOLEAN
    /\ started \in {"never", "recent", "old"}
    /\ lock \in LoadThreads \cup {Free}
    /\ task \in {"none", "queued", "running", "done"}
    /\ call \in [LoadThreads -> CallStages]
    /\ failures \in Nat

LoaderInit ==
    /\ app = FALSE
    /\ loadError = FALSE
    /\ started = "never"
    /\ lock = Free
    /\ task = "none"
    /\ call = [t \in LoadThreads |-> "out"]
    /\ failures = 0

-----------------------------------------------------------------------------
(* _load_full_module_locked, called by thread t. *)

CallMoves(t, stage) == call' = [call EXCEPT ![t] = stage]

\* The first check, without the lock.
FirstCheck(t) == CallMoves(t, IF app THEN "ok" ELSE "wait")

\* Faulty variant: the second check under the lock is missing.
AcquireWithoutRecheck(t) ==
    /\ call[t] = "wait"
    /\ lock = Free
    /\ lock' = t
    /\ started' = "recent"
    /\ CallMoves(t, "import")
    /\ UNCHANGED <<app, loadError, task, failures>>

\* The second check, under the lock: somebody else may have imported it by now.
Acquire(t) ==
    /\ call[t] = "wait"
    /\ lock = Free
    /\ IF app
       THEN CallMoves(t, "ok") /\ UNCHANGED <<lock, started>>
       ELSE lock' = t /\ started' = "recent" /\ CallMoves(t, "import")
    /\ UNCHANGED <<app, loadError, task, failures>>

\* importlib.import_module returned: _parkpulse_module, then _parkpulse_app.
ImportSucceeds(t) ==
    /\ call[t] = "import"
    /\ app' = TRUE
    /\ CallMoves(t, "publish")
    /\ UNCHANGED <<loadError, started, lock, task, failures>>

\* The rest of the success path, up to the release of the lock.
ImportReturns(t) ==
    /\ call[t] = "publish"
    /\ loadError' = FALSE
    /\ lock' = Free
    /\ CallMoves(t, "ok")
    /\ UNCHANGED <<app, started, task, failures>>

\* Faulty variant: a failed import leaves the lock taken.
ImportFailsLocked(t) ==
    /\ call[t] = "import"
    /\ failures < MaxFailures
    /\ failures' = failures + 1
    /\ loadError' = TRUE
    /\ CallMoves(t, "raised")
    /\ UNCHANGED <<app, started, lock, task>>

\* The import raised: the error is kept for _full_runtime_status.
ImportFails(t) ==
    /\ call[t] = "import"
    /\ failures < MaxFailures
    /\ failures' = failures + 1
    /\ loadError' = TRUE
    /\ lock' = Free
    /\ CallMoves(t, "raised")
    /\ UNCHANGED <<app, started, task>>

LockedLoad(t) ==
    Acquire(t) \/ ImportSucceeds(t) \/ ImportReturns(t) \/ ImportFails(t)

-----------------------------------------------------------------------------
(* The load task, submitted by the event loop and run by Loader. *)

\* _ensure_full_module_load_task: a new task replaces none, or one that is over.
EnsureLoadTask ==
    /\ ~app
    /\ task \in {"none", "done"}
    /\ task' = "queued"
    /\ UNCHANGED <<app, loadError, started, lock, call, failures>>

StartTask ==
    /\ task = "queued"
    /\ call[Loader] = "out"
    /\ task' = "running"
    /\ FirstCheck(Loader)
    /\ UNCHANGED <<app, loadError, started, lock, failures>>

\* The future is resolved first and its callback runs afterwards, in the same
\* thread: a new task may be submitted in between.
FinishTask ==
    /\ task = "running"
    /\ call[Loader] \in {"ok", "raised"}
    /\ task' = "done"
    /\ CallMoves(Loader, IF call[Loader] = "ok" THEN "out" ELSE "callback")
    /\ UNCHANGED <<app, loadError, started, lock, failures>>

\* _store_load_task_result writes _load_error without looking at anything else.
TaskCallback ==
    /\ call[Loader] = "callback"
    /\ loadError' = TRUE
    /\ CallMoves(Loader, "out")
    /\ UNCHANGED <<app, started, lock, task, failures>>

\* Time passes: the last load started longer ago than the threshold.
Age ==
    /\ started = "recent"
    /\ started' = "old"
    /\ UNCHANGED <<app, loadError, lock, task, call, failures>>

\* _full_runtime_load_is_stale.
LoadIsStale == ~app /\ task \in {"queued", "running"} /\ started = "old"

LoaderStep == StartTask \/ LockedLoad(Loader) \/ FinishTask \/ TaskCallback

-----------------------------------------------------------------------------
\* However often loading is asked for, retried or raced by the workers: the
\* import runs in one thread at a time, under the lock, and never again once
\* the runtime is there.
ImportIsExclusive ==
    \A t \in LoadThreads :
        /\ call[t] \in {"import", "publish"} <=> lock = t
        /\ call[t] = "import" => ~app

\* A call that returned normally really has the runtime, so what it does next
\* never runs against a half-loaded module.
ReturnsOnlyLoaded ==
    \A t \in LoadThreads : call[t] \in {"publish", "ok"} => app
=============================================================================
