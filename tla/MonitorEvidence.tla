-------------------------- MODULE MonitorEvidence --------------------------
(***************************************************************************)
(* The monitor evidence graph of main.py and its stale-while-revalidate    *)
(* cache, for one key (one bounded limit) and the local snapshot file.     *)
(*                                                                         *)
(* Requests run as coroutines on the event loop, one background thread     *)
(* refreshes, and other threads and processes append to the ledgers and    *)
(* rewrite the policy files the graph is built from.  A graph is read from *)
(* those sources first and stamped with their fingerprint last.            *)
(***************************************************************************)
EXTENDS Naturals, FiniteSets

CONSTANTS
    Requests,     \* concurrent GET /api/park/monitor-evidence
    Refresher,    \* the thread of _monitor_evidence_executor
    NoGraph,      \* no cache entry, no snapshot file, no graph in hand
    Torn,         \* a snapshot file that does not parse
    MaxChanges,   \* bound on the changes of the sources
    MaxRestarts,  \* bound on the restarts of the process
    MaxFailures   \* bound on the builds that raise

ASSUME EvidenceAssumption ==
    /\ Refresher \notin Requests
    /\ MaxChanges \in Nat
    /\ MaxRestarts \in Nat
    /\ MaxFailures \in Nat

Builders == Requests \cup {Refresher}

\* The sources by how often they changed; a fingerprint stands for that count.
Versions == 0..MaxChanges

\* content: the version a graph was read from; mark: its source_watermark.
Graph == [content : Versions, mark : Versions]

\* A graph as cached or on file; expired: its TTL is over.
Entry == [graph : Graph, expired : BOOLEAN]

ASSUME PlaceholderAssumption ==
    /\ NoGraph \notin Graph \cup Entry \cup {Torn}
    /\ Torn \notin Entry

Stages == {"idle", "lookup", "drop", "snapshot", "adopt", "trigger",
           "gather", "stamp", "store", "write", "fill", "release"}

VARIABLES
    source,      \* version of the ledgers and policy files
    cache,       \* _monitor_evidence_cache[key]
    file,        \* the snapshot file
    refreshing,  \* key \in _monitor_evidence_refreshing
    queued,      \* refreshes submitted to the executor and not taken up
    builder,     \* where each coroutine and the refresher are, what they hold
    restarts, failures

vars == <<source, cache, file, refreshing, queued, builder, restarts, failures>>

Builder == [at : Stages, seen : Versions, held : Graph \cup Entry \cup {NoGraph}]

Resting == [at |-> "idle", seen |-> 0, held |-> NoGraph]

Init ==
    /\ source = 0
    /\ cache = NoGraph
    /\ file = NoGraph
    /\ refreshing = FALSE
    /\ queued = 0
    /\ builder = [b \in Builders |-> Resting]
    /\ restarts = 0
    /\ failures = 0

At(b, stage) == builder[b].at = stage

\* b goes on to a stage with all it had, with a graph, or with nothing.
Go(b, stage) == builder' = [builder EXCEPT ![b].at = stage]

Carry(b, stage, graph) ==
    builder' = [builder EXCEPT ![b] = [at |-> stage, seen |-> 0, held |-> graph]]

Enter(b, stage) == Carry(b, stage, NoGraph)

\* A coroutine gives the loop up only while it awaits the sources; the
\* refresher runs a loop of its own.
MayRun(b) ==
    b \in Requests =>
        \A r \in Requests \ {b} : builder[r].at \in {"idle", "gather", "stamp"}

-----------------------------------------------------------------------------
(* A request: _monitor_evidence_graph_cached up to its first await. *)

\* The watermark of the sources is taken; ?refresh=1 skips cache and snapshot.
Ask(q, forced) ==
    /\ At(q, "idle")
    /\ MayRun(q)
    /\ builder' = [builder EXCEPT ![q] =
           [at |-> IF forced THEN "gather" ELSE "lookup",
            seen |-> IF forced THEN 0 ELSE source, held |-> NoGraph]]
    /\ UNCHANGED <<source, cache, file, refreshing, queued, restarts, failures>>

\* Faulty variant: a stale hit is served without a refresh.
LookupServingStale(q) ==
    /\ At(q, "lookup")
    /\ \/ cache = NoGraph /\ Go(q, "snapshot")
       \/ cache # NoGraph /\ cache.graph.mark # builder[q].seen /\ Go(q, "drop")
       \/ cache # NoGraph /\ cache.graph.mark = builder[q].seen /\ Enter(q, "idle")
    /\ UNCHANGED <<source, cache, file, refreshing, queued, restarts, failures>>

\* A hit carries the watermark seen; a stale one is served and refreshed.
Lookup(q) ==
    /\ At(q, "lookup")
    /\ \/ cache = NoGraph /\ Go(q, "snapshot")
       \/ cache # NoGraph /\ cache.graph.mark # builder[q].seen /\ Go(q, "drop")
       \/ /\ cache # NoGraph /\ cache.graph.mark = builder[q].seen
          /\ Enter(q, IF cache.expired THEN "trigger" ELSE "idle")
    /\ UNCHANGED <<source, cache, file, refreshing, queued, restarts, failures>>

\* The entry is popped, whoever stored it since the lookup.
Drop(q) ==
    /\ At(q, "drop")
    /\ cache' = NoGraph
    /\ Go(q, "snapshot")
    /\ UNCHANGED <<source, file, refreshing, queued, restarts, failures>>

\* _read_monitor_evidence_snapshot: only a graph of the watermark seen counts.
ReadSnapshot(q) ==
    /\ At(q, "snapshot")
    /\ IF file \in Entry /\ file.graph.mark = builder[q].seen
       THEN Carry(q, "adopt", file)
       ELSE Enter(q, "gather")
    /\ UNCHANGED <<source, cache, file, refreshing, queued, restarts, failures>>

Adopt(q) ==
    /\ At(q, "adopt")
    /\ cache' = builder[q].held
    /\ Enter(q, IF builder[q].held.expired THEN "trigger" ELSE "idle")
    /\ UNCHANGED <<source, file, refreshing, queued, restarts, failures>>

\* Faulty variant: the flag is set but not looked at.
TriggerAlways(q) ==
    /\ At(q, "trigger")
    /\ refreshing' = TRUE
    /\ queued' = queued + 1
    /\ Enter(q, "idle")
    /\ UNCHANGED <<source, cache, file, restarts, failures>>

\* _trigger_monitor_evidence_refresh.  Between the flag and the submission
\* nobody else looks at either.
Trigger(q) ==
    /\ At(q, "trigger")
    /\ refreshing' = TRUE
    /\ queued' = IF refreshing THEN queued ELSE queued + 1
    /\ Enter(q, "idle")
    /\ UNCHANGED <<source, cache, file, restarts, failures>>

-----------------------------------------------------------------------------
(* Building and storing, by a request or by the refresher. *)

\* _monitor_evidence_graph has a pool thread read the ledgers and awaits it.
Gather(b) ==
    /\ At(b, "gather")
    /\ Carry(b, "stamp", [content |-> source, mark |-> 0])
    /\ UNCHANGED <<source, cache, file, refreshing, queued, restarts, failures>>

\* The watermark is computed when the graph is complete.
Stamp(b) ==
    /\ At(b, "stamp")
    /\ MayRun(b)
    /\ Carry(b, "store", [content |-> builder[b].held.content, mark |-> source])
    /\ UNCHANGED <<source, cache, file, refreshing, queued, restarts, failures>>

\* A request answers or raises; the refresher has its finally block to do.
Finish(b) == Enter(b, IF b = Refresher THEN "release" ELSE "idle")

BuildFails(b) ==
    /\ At(b, "stamp")
    /\ MayRun(b)
    /\ failures < MaxFailures
    /\ failures' = failures + 1
    /\ Finish(b)
    /\ UNCHANGED <<source, cache, file, refreshing, queued, restarts>>

\* _store_monitor_evidence_cache under the lock.
Store(b) ==
    /\ At(b, "store")
    /\ cache' = [graph |-> builder[b].held, expired |-> FALSE]
    /\ Go(b, "write")
    /\ UNCHANGED <<source, file, refreshing, queued, restarts, failures>>

\* write_text truncates the file first; failing to open it is suppressed.
OpenSnapshot(b) ==
    /\ At(b, "write")
    /\ \/ file' = Torn /\ Go(b, "fill")
       \/ UNCHANGED file /\ Finish(b)
    /\ UNCHANGED <<source, cache, refreshing, queued, restarts, failures>>

\* The text is written.  It stays torn when the write fails, or when it covers
\* only part of what another writer left.
FillSnapshot(b) ==
    /\ At(b, "fill")
    /\ file' \in {Torn, [graph |-> builder[b].held, expired |-> FALSE]}
    /\ Finish(b)
    /\ UNCHANGED <<source, cache, refreshing, queued, restarts, failures>>

-----------------------------------------------------------------------------
(* The refresher: _refresh_monitor_evidence_cache. *)

\* Faulty variant: the flag is discarded when the refresh starts.
StartRefreshReleasing ==
    /\ At(Refresher, "idle")
    /\ queued > 0
    /\ queued' = queued - 1
    /\ refreshing' = FALSE
    /\ Enter(Refresher, "gather")
    /\ UNCHANGED <<source, cache, file, restarts, failures>>

StartRefresh ==
    /\ At(Refresher, "idle")
    /\ queued > 0
    /\ queued' = queued - 1
    /\ Enter(Refresher, "gather")
    /\ UNCHANGED <<source, cache, file, refreshing, restarts, failures>>

\* The finally block.
EndRefresh ==
    /\ At(Refresher, "release")
    /\ refreshing' = FALSE
    /\ Enter(Refresher, "idle")
    /\ UNCHANGED <<source, cache, file, queued, restarts, failures>>

-----------------------------------------------------------------------------
(* The environment. *)

\* Another thread or process writes one of the sources.
ChangeSource ==
    /\ source < MaxChanges
    /\ source' = source + 1
    /\ UNCHANGED <<cache, file, refreshing, queued, builder, restarts, failures>>

ExpireCache ==
    /\ cache # NoGraph
    /\ ~cache.expired
    /\ cache' = [cache EXCEPT !.expired = TRUE]
    /\ UNCHANGED <<source, file, refreshing, queued, builder, restarts, failures>>

ExpireSnapshot ==
    /\ file \in Entry
    /\ ~file.expired
    /\ file' = [file EXCEPT !.expired = TRUE]
    /\ UNCHANGED <<source, cache, refreshing, queued, builder, restarts, failures>>

\* Memory is lost, the file stays.  Its age is a difference of monotonic clocks,
\* which start over with the host: then an expired snapshot is fresh again.
Restart ==
    /\ restarts < MaxRestarts
    /\ restarts' = restarts + 1
    /\ cache' = NoGraph
    /\ refreshing' = FALSE
    /\ queued' = 0
    /\ builder' = [b \in Builders |-> Resting]
    /\ \/ UNCHANGED file
       \/ file \in Entry /\ file' = [file EXCEPT !.expired = FALSE]
    /\ UNCHANGED <<source, failures>>

RequestStep(q) ==
    \/ Lookup(q) \/ Drop(q) \/ ReadSnapshot(q) \/ Adopt(q) \/ Trigger(q)

BuildStep(b) ==
    \/ Gather(b) \/ Stamp(b) \/ BuildFails(b) \/ Store(b)
    \/ OpenSnapshot(b) \/ FillSnapshot(b)

Next ==
    \/ \E q \in Requests : (\E forced \in BOOLEAN : Ask(q, forced)) \/ RequestStep(q)
    \/ \E b \in Builders : BuildStep(b)
    \/ StartRefresh \/ EndRefresh
    \/ ChangeSource \/ ExpireCache \/ ExpireSnapshot \/ Restart

\* The loop runs its coroutines, the executor its thread, and time passes.
\* Nobody has to ask, and nothing has to change, fail or restart.
Fairness ==
    /\ \A q \in Requests : WF_vars(RequestStep(q))
    /\ \A b \in Builders : WF_vars(BuildStep(b))
    /\ WF_vars(StartRefresh)
    /\ WF_vars(EndRefresh)
    /\ WF_vars(ExpireCache)

Spec == Init /\ [][Next]_vars

FairSpec == Spec /\ Fairness

-----------------------------------------------------------------------------
(* Properties. *)

\* Entries, files, flags and what builders hold are of their kinds, and the
\* executor is never given a second refresh of the key while one waits.
MonitorTypeOK ==
    /\ source \in Versions
    /\ cache \in Entry \cup {NoGraph}
    /\ file \in Entry \cup {NoGraph, Torn}
    /\ refreshing \in BOOLEAN
    /\ queued \in 0..1
    /\ builder \in [Builders -> Builder]
    /\ restarts \in 0..MaxRestarts
    /\ failures \in 0..MaxFailures

\* The refreshing flag shown with every answer tells the truth: it is up exactly
\* while one refresh is queued or running, and never two are, whatever requests
\* find stale at once and however builds fail (main.py:9524, 9513).
RefreshIsSingle ==
    queued + (IF At(Refresher, "idle") THEN 0 ELSE 1) = (IF refreshing THEN 1 ELSE 0)

Asking == \E q \in Requests, forced \in BOOLEAN : Ask(q, forced)

\* Although a graph read before a change can be stamped with the fingerprint
\* after it, older builds overwrite newer ones and snapshots outlive the process:
\* if clients keep asking, the evidence served ends up as the sources are, and
\* stays so (main.py:9532, 8763).
EvidenceConverges ==
    []<><<Asking>>_vars => <>[](cache # NoGraph /\ cache.graph.content = source)

=============================================================================
