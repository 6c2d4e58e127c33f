----------------------- MODULE MonitorEvidenceProofs -----------------------
(***************************************************************************)
(* Proofs about MonitorEvidence: state and holdings are well-typed, and    *)
(* the key has one background refresh at a time, for any number of         *)
(* concurrent requests, changes of the sources, failures and restarts.     *)
(***************************************************************************)
EXTENDS MonitorEvidence, TLAPS

USE EvidenceAssumption, PlaceholderAssumption

\* What a builder holds fits the stage it is in.
Fits(c) ==
    /\ c \in Builder
    /\ c.at = "adopt" => c.held \in Entry
    /\ c.at \in {"stamp", "store", "write", "fill"} => c.held \in Graph

HoldingsFit(f) ==
    /\ f = [b \in Builders |-> f[b]]
    /\ \A b \in Builders : Fits(f[b])

\* The inductive invariant.
MonitorInv ==
    /\ MonitorTypeOK
    /\ RefreshIsSingle
    /\ HoldingsFit(builder)

-----------------------------------------------------------------------------
(* A builder that moves keeps the holdings fitting. *)

LEMMA RestingFits == Fits(Resting)
BY DEF Fits, Resting, Builder, Stages, Versions

\* An entry is a graph and a flag.
LEMMA EntryFields ==
    ASSUME NEW e \in Entry
    PROVE  /\ e.graph \in Graph
           /\ e.expired \in BOOLEAN
           /\ e.graph.mark \in Versions
           /\ e.graph.content \in Versions
           /\ \A x \in BOOLEAN : [e EXCEPT !.expired = x] \in Entry
BY DEF Entry, Graph

\* Only b moves, to a place that fits.
LEMMA MovingFits ==
    ASSUME NEW f, NEW g, NEW b \in Builders, NEW c,
           HoldingsFit(f), Fits(c), g = [f EXCEPT ![b] = c]
    PROVE  /\ HoldingsFit(g)
           /\ g \in [Builders -> Builder]
           /\ g[b] = c
           /\ \A r \in Builders \ {b} : g[r] = f[r]
BY DEF HoldingsFit, Fits

\* A place with the stage, the watermark and the graph given.
LEMMA PlacesFit ==
    ASSUME NEW stage \in Stages, NEW seen \in Versions,
           NEW held \in Graph \cup Entry \cup {NoGraph},
           stage = "adopt" => held \in Entry,
           stage \in {"stamp", "store", "write", "fill"} => held \in Graph
    PROVE  Fits([at |-> stage, seen |-> seen, held |-> held])
BY DEF Fits, Builder

\* A builder goes on with what it has.
LEMMA GoingFits ==
    ASSUME NEW c, NEW stage \in Stages, Fits(c),
           stage = "adopt" => c.held \in Entry,
           stage \in {"stamp", "store", "write", "fill"} => c.held \in Graph
    PROVE  Fits([c EXCEPT !.at = stage])
BY DEF Fits, Builder

-----------------------------------------------------------------------------
(* Steps. *)

\* Everything but the builders and the refresh flag is of its kind afterwards.
OthersTyped ==
    /\ source \in Versions
    /\ cache \in Entry \cup {NoGraph}
    /\ file \in Entry \cup {NoGraph, Torn}
    /\ restarts \in 0..MaxRestarts
    /\ failures \in 0..MaxFailures

\* A builder that moves between the ends of a refresh keeps the invariant.
LEMMA MoveKeeps ==
    ASSUME MonitorInv, NEW b \in Builders, NEW c, Fits(c), OthersTyped',
           builder' = [builder EXCEPT ![b] = c],
           UNCHANGED <<refreshing, queued>>,
           b = Refresher => builder[b].at # "idle" /\ c.at # "idle"
    PROVE  MonitorInv'
<1>1. /\ HoldingsFit(builder')
      /\ builder' \in [Builders -> Builder]
      /\ builder'[b] = c
      /\ \A r \in Builders \ {b} : builder'[r] = builder[r]
  BY MovingFits DEF MonitorInv
<1>2. MonitorTypeOK'
  BY <1>1 DEF MonitorInv, MonitorTypeOK, OthersTyped
<1>3. At(Refresher, "idle")' = At(Refresher, "idle")
  BY <1>1 DEF At, Builders
<1>4. RefreshIsSingle'
  BY <1>3 DEF MonitorInv, RefreshIsSingle
<1>5. QED
  BY <1>1, <1>2, <1>4 DEF MonitorInv

LEMMA InitMonitor == Init => MonitorInv
<1> SUFFICES ASSUME Init PROVE MonitorInv
  OBVIOUS
<1>1. builder \in [Builders -> Builder]
  BY RestingFits DEF Init, Fits
<1>2. MonitorTypeOK
  <2>1. refreshing \in BOOLEAN
    BY Zenon DEF Init
  <2>2. source \in Versions /\ queued \in 0..1 /\ restarts \in 0..MaxRestarts /\ failures \in 0..MaxFailures
    BY DEF Init, Versions, EvidenceAssumption
  <2>3. cache \in Entry \cup {NoGraph} /\ file \in Entry \cup {NoGraph, Torn}
    BY DEF Init
  <2>4. QED
    BY <1>1, <2>1, <2>2, <2>3 DEF MonitorTypeOK
<1>3. HoldingsFit(builder)
  BY RestingFits DEF Init, HoldingsFit
<1>4. RefreshIsSingle
  BY DEF Init, RefreshIsSingle, At, Resting, Builders
<1>5. QED
  BY <1>2, <1>3, <1>4 DEF MonitorInv

\* A request asks, looks up, reads the snapshot, adopts it or asks for a refresh.
LEMMA RequestKeeps ==
    ASSUME MonitorInv, NEW q \in Requests,
           (\E forced \in BOOLEAN : Ask(q, forced)) \/ RequestStep(q)
    PROVE  MonitorInv'
<1>q. q \in Builders /\ q # Refresher
  BY DEF Builders
<1>t. MonitorTypeOK /\ RefreshIsSingle /\ HoldingsFit(builder) /\ Fits(builder[q])
  BY <1>q DEF MonitorInv, HoldingsFit
<1>z. 0 \in Versions /\ NoGraph \in Graph \cup Entry \cup {NoGraph} /\ builder[q].seen \in Versions
  BY <1>t DEF Versions, Fits, Builder
<1>1. ASSUME NEW forced \in BOOLEAN, Ask(q, forced) PROVE MonitorInv'
  <2> PICK c : c = [at |-> IF forced THEN "gather" ELSE "lookup",
                    seen |-> IF forced THEN 0 ELSE source, held |-> NoGraph]
    OBVIOUS
  <2>1. Fits(c)
    BY <1>t, <1>z, PlacesFit DEF Stages, MonitorTypeOK
  <2>2. OthersTyped' /\ builder' = [builder EXCEPT ![q] = c] /\ UNCHANGED <<refreshing, queued>>
    BY <1>1, <1>t DEF Ask, OthersTyped, MonitorTypeOK
  <2>3. QED
    BY <1>q, <2>1, <2>2, MoveKeeps
<1>2. CASE Lookup(q)
  <2>1. PICK c : Fits(c) /\ builder' = [builder EXCEPT ![q] = c]
    <3>1. CASE Go(q, "snapshot")
      <4> DEFINE d == [builder[q] EXCEPT !.at = "snapshot"]
      <4>1. Fits(d)
        BY <1>t, GoingFits DEF Stages
      <4>2. builder' = [builder EXCEPT ![q] = d]
        BY <3>1 DEF Go
      <4>3. QED
        BY <4>1, <4>2
    <3>2. CASE Go(q, "drop")
      <4> DEFINE d == [builder[q] EXCEPT !.at = "drop"]
      <4>1. Fits(d)
        BY <1>t, GoingFits DEF Stages
      <4>2. builder' = [builder EXCEPT ![q] = d]
        BY <3>2 DEF Go
      <4>3. QED
        BY <4>1, <4>2
    <3>3. CASE Enter(q, IF cache.expired THEN "trigger" ELSE "idle")
      <4> PICK stage \in {"trigger", "idle"} : Enter(q, stage)
        BY <3>3
      <4>1. Fits([at |-> stage, seen |-> 0, held |-> NoGraph])
        BY <1>z, PlacesFit DEF Stages
      <4>2. QED
        BY <4>1 DEF Enter, Carry
    <3>4. QED
      BY <1>2, <3>1, <3>2, <3>3 DEF Lookup
  <2>2. OthersTyped' /\ UNCHANGED <<refreshing, queued>>
    BY <1>2, <1>t DEF Lookup, OthersTyped, MonitorTypeOK
  <2>3. QED
    BY <1>q, <2>1, <2>2, MoveKeeps
<1>3. CASE Drop(q)
  <2> PICK c : c = [builder[q] EXCEPT !.at = "snapshot"]
    OBVIOUS
  <2>1. Fits(c)
    BY <1>t, GoingFits DEF Stages
  <2>2. OthersTyped' /\ builder' = [builder EXCEPT ![q] = c] /\ UNCHANGED <<refreshing, queued>>
    BY <1>3, <1>t DEF Drop, Go, OthersTyped, MonitorTypeOK
  <2>3. QED
    BY <1>q, <2>1, <2>2, MoveKeeps
<1>4. CASE ReadSnapshot(q)
  <2>1. PICK c : Fits(c) /\ builder' = [builder EXCEPT ![q] = c]
    <3>1. CASE file \in Entry /\ Carry(q, "adopt", file)
      <4>1. Fits([at |-> "adopt", seen |-> 0, held |-> file])
        BY <1>z, <3>1, PlacesFit DEF Stages
      <4>2. QED
        BY <4>1, <3>1 DEF Carry
    <3>2. CASE Enter(q, "gather")
      <4>1. Fits([at |-> "gather", seen |-> 0, held |-> NoGraph])
        BY <1>z, PlacesFit DEF Stages
      <4>2. QED
        BY <4>1, <3>2 DEF Enter, Carry
    <3>3. QED
      BY <1>4, <3>1, <3>2 DEF ReadSnapshot
  <2>2. OthersTyped' /\ UNCHANGED <<refreshing, queued>>
    BY <1>4, <1>t DEF ReadSnapshot, OthersTyped, MonitorTypeOK
  <2>3. QED
    BY <1>q, <2>1, <2>2, MoveKeeps
<1>5. CASE Adopt(q)
  <2>1. PICK stage \in {"trigger", "idle"} : Enter(q, stage)
    BY <1>5 DEF Adopt
  <2>2. Fits([at |-> stage, seen |-> 0, held |-> NoGraph])
    BY <1>z, PlacesFit DEF Stages
  <2>3. PICK c : Fits(c) /\ builder' = [builder EXCEPT ![q] = c]
    BY <2>1, <2>2 DEF Enter, Carry
  <2>4. builder[q].held \in Entry
    BY <1>5, <1>t DEF Adopt, At, Fits
  <2>5. OthersTyped' /\ UNCHANGED <<refreshing, queued>>
    BY <1>5, <1>t, <2>4 DEF Adopt, OthersTyped, MonitorTypeOK
  <2>6. QED
    BY <1>q, <2>3, <2>5, MoveKeeps
<1>6. CASE Trigger(q)
  <2>1. Fits([at |-> "idle", seen |-> 0, held |-> NoGraph])
    BY <1>z, PlacesFit DEF Stages
  <2>2. PICK c : Fits(c) /\ builder' = [builder EXCEPT ![q] = c]
    BY <1>6, <2>1 DEF Trigger, Enter, Carry
  <2>3. /\ HoldingsFit(builder') /\ builder' \in [Builders -> Builder]
        /\ builder'[Refresher] = builder[Refresher]
    BY <1>q, <1>t, <2>2, MovingFits DEF Builders
  <2>4. RefreshIsSingle' /\ queued' \in 0..1 /\ refreshing' = TRUE
    BY <1>6, <1>t, <2>3 DEF Trigger, RefreshIsSingle, At, MonitorTypeOK
  <2>5. MonitorTypeOK'
    BY <1>6, <1>t, <2>3, <2>4 DEF Trigger, MonitorTypeOK
  <2>6. QED
    BY <2>3, <2>4, <2>5 DEF MonitorInv
<1>7. QED
  BY <1>1, <1>2, <1>3, <1>4, <1>5, <1>6 DEF RequestStep

\* Between reading the sources and answering, or releasing the flag.
LEMMA BuildKeeps ==
    ASSUME MonitorInv, NEW b \in Builders, BuildStep(b)
    PROVE  MonitorInv'
<1>t. MonitorTypeOK /\ RefreshIsSingle /\ HoldingsFit(builder) /\ Fits(builder[b])
  BY DEF MonitorInv, HoldingsFit
<1>z. /\ 0 \in Versions /\ source \in Versions
      /\ NoGraph \in Graph \cup Entry \cup {NoGraph}
      /\ builder[b].seen \in Versions
  BY <1>t DEF Versions, Fits, Builder, MonitorTypeOK, EvidenceAssumption
<1>f. ASSUME Finish(b)
      PROVE  \E c : /\ Fits(c) /\ builder' = [builder EXCEPT ![b] = c]
                    /\ b = Refresher => c.at # "idle"
  <2> PICK stage \in {"release", "idle"} :
           /\ stage = IF b = Refresher THEN "release" ELSE "idle"
           /\ Enter(b, stage)
    BY <1>f DEF Finish
  <2>1. Fits([at |-> stage, seen |-> 0, held |-> NoGraph])
    BY <1>z, PlacesFit DEF Stages
  <2> PICK c : c = [at |-> stage, seen |-> 0, held |-> NoGraph]
    OBVIOUS
  <2>2. b = Refresher => c.at # "idle"
    OBVIOUS
  <2>3. builder' = [builder EXCEPT ![b] = c]
    BY DEF Enter, Carry
  <2>4. QED
    BY <2>1, <2>2, <2>3
<1>1. CASE Gather(b)
  <2> PICK graph : graph = [content |-> source, mark |-> 0]
    OBVIOUS
  <2>1. Fits([at |-> "stamp", seen |-> 0, held |-> graph])
    <3>1. graph \in Graph
      BY <1>z DEF Graph
    <3>2. QED
      BY <3>1, <1>z, PlacesFit DEF Stages
  <2> PICK c : c = [at |-> "stamp", seen |-> 0, held |-> graph]
    OBVIOUS
  <2>2. Fits(c) /\ builder' = [builder EXCEPT ![b] = c] /\ c.at # "idle"
    BY <1>1, <2>1 DEF Gather, Carry
  <2>3. OthersTyped' /\ UNCHANGED <<refreshing, queued>> /\ builder[b].at # "idle"
    BY <1>1, <1>t DEF Gather, At, OthersTyped, MonitorTypeOK
  <2>4. QED
    BY <2>2, <2>3, MoveKeeps
<1>2. CASE Stamp(b)
  <2> PICK graph : graph = [content |-> builder[b].held.content, mark |-> source]
    OBVIOUS
  <2>1. Fits([at |-> "store", seen |-> 0, held |-> graph])
    <3>1. builder[b].held \in Graph
      BY <1>2, <1>t DEF Stamp, At, Fits
    <3>2. graph \in Graph
      BY <1>z, <3>1 DEF Graph
    <3>3. QED
      BY <3>2, <1>z, PlacesFit DEF Stages
  <2> PICK c : c = [at |-> "store", seen |-> 0, held |-> graph]
    OBVIOUS
  <2>2. Fits(c) /\ builder' = [builder EXCEPT ![b] = c] /\ c.at # "idle"
    BY <1>2, <2>1 DEF Stamp, Carry
  <2>3. OthersTyped' /\ UNCHANGED <<refreshing, queued>> /\ builder[b].at # "idle"
    BY <1>2, <1>t DEF Stamp, At, OthersTyped, MonitorTypeOK
  <2>4. QED
    BY <2>2, <2>3, MoveKeeps
<1>3. CASE BuildFails(b)
  <2>1. PICK c : /\ Fits(c) /\ builder' = [builder EXCEPT ![b] = c]
                 /\ b = Refresher => c.at # "idle"
    BY <1>3, <1>f DEF BuildFails
  <2>2. failures' \in 0..MaxFailures
    BY <1>3, <1>t DEF BuildFails, MonitorTypeOK, EvidenceAssumption
  <2>3. OthersTyped' /\ UNCHANGED <<refreshing, queued>> /\ builder[b].at # "idle"
    BY <1>3, <1>t, <2>2 DEF BuildFails, At, OthersTyped, MonitorTypeOK
  <2>4. QED
    BY <2>1, <2>3, MoveKeeps
<1>4. CASE Store(b)
  <2>1. builder[b].held \in Graph /\ builder[b].at # "idle"
    BY <1>4, <1>t DEF Store, At, Fits
  <2> PICK c : c = [builder[b] EXCEPT !.at = "write"]
    OBVIOUS
  <2>2. Fits(c) /\ c.at # "idle"
    <3>1. Fits([builder[b] EXCEPT !.at = "write"])
      BY <2>1, <1>t, GoingFits DEF Stages
    <3>2. [builder[b] EXCEPT !.at = "write"].at = "write"
      BY <1>t DEF Fits, Builder
    <3>3. QED
      BY <3>1, <3>2
  <2>3. cache' \in Entry
    BY <1>4, <2>1 DEF Store, Entry
  <2>4. /\ OthersTyped' /\ UNCHANGED <<refreshing, queued>>
        /\ builder' = [builder EXCEPT ![b] = c]
    BY <1>4, <1>t, <2>3 DEF Store, Go, OthersTyped, MonitorTypeOK
  <2>5. QED
    BY <2>1, <2>2, <2>4, MoveKeeps
<1>5. CASE OpenSnapshot(b)
  <2>1. builder[b].held \in Graph /\ builder[b].at # "idle"
    BY <1>5, <1>t DEF OpenSnapshot, At, Fits
  <2>2. OthersTyped' /\ UNCHANGED <<refreshing, queued>>
    BY <1>5, <1>t DEF OpenSnapshot, OthersTyped, MonitorTypeOK
  <2>3. CASE Finish(b)
    <3>1. PICK c : /\ Fits(c) /\ builder' = [builder EXCEPT ![b] = c]
                   /\ b = Refresher => c.at # "idle"
      BY <1>f, <2>3
    <3>2. QED
      BY <3>1, <2>1, <2>2, MoveKeeps
  <2>4. CASE Go(b, "fill")
    <3> PICK c : c = [builder[b] EXCEPT !.at = "fill"]
      OBVIOUS
    <3>1. Fits([builder[b] EXCEPT !.at = "fill"])
      BY <2>1, <1>t, GoingFits DEF Stages
    <3>2. [builder[b] EXCEPT !.at = "fill"].at = "fill"
      BY <1>t DEF Fits, Builder
    <3>3. builder' = [builder EXCEPT ![b] = c]
      BY <2>4 DEF Go
    <3>4. QED
      BY <3>1, <3>2, <3>3, <2>1, <2>2, MoveKeeps
  <2>5. QED
    BY <1>5, <2>3, <2>4 DEF OpenSnapshot
<1>6. CASE FillSnapshot(b)
  <2>1. builder[b].held \in Graph /\ builder[b].at # "idle"
    BY <1>6, <1>t DEF FillSnapshot, At, Fits
  <2>2. file' \in Entry \cup {Torn}
    <3>1. [graph |-> builder[b].held, expired |-> FALSE] \in Entry
      BY <2>1 DEF Entry
    <3>2. QED
      BY <1>6, <3>1 DEF FillSnapshot
  <2>3. OthersTyped' /\ UNCHANGED <<refreshing, queued>>
    BY <1>6, <1>t, <2>2 DEF FillSnapshot, OthersTyped, MonitorTypeOK
  <2>4. PICK c : /\ Fits(c) /\ builder' = [builder EXCEPT ![b] = c]
                 /\ b = Refresher => c.at # "idle"
    BY <1>6, <1>f DEF FillSnapshot
  <2>5. QED
    BY <2>1, <2>3, <2>4, MoveKeeps
<1>7. QED
  BY <1>1, <1>2, <1>3, <1>4, <1>5, <1>6 DEF BuildStep

\* The two ends of a background refresh.
LEMMA RefreshKeeps ==
    ASSUME MonitorInv, StartRefresh \/ EndRefresh
    PROVE  MonitorInv'
<1>t. MonitorTypeOK /\ RefreshIsSingle /\ HoldingsFit(builder) /\ Refresher \in Builders
  BY DEF MonitorInv, Builders
<1>z. 0 \in Versions /\ NoGraph \in Graph \cup Entry \cup {NoGraph}
  BY DEF Versions, EvidenceAssumption
<1>1. PICK stage \in {"gather", "idle"} :
        Enter(Refresher, stage) /\ (StartRefresh <=> stage = "gather")
  <2>1. CASE StartRefresh
    BY <2>1 DEF StartRefresh
  <2>2. CASE ~StartRefresh
    BY <2>2 DEF EndRefresh
  <2>3. QED
    BY <2>1, <2>2
<1>2. Fits([at |-> stage, seen |-> 0, held |-> NoGraph])
  BY <1>z, PlacesFit DEF Stages
<1>3. PICK c : Fits(c) /\ c.at = stage /\ builder' = [builder EXCEPT ![Refresher] = c]
  BY <1>1, <1>2 DEF Enter, Carry
<1>4. /\ HoldingsFit(builder') /\ builder' \in [Builders -> Builder]
      /\ builder'[Refresher].at = stage
  <2>1. HoldingsFit(builder') /\ builder' \in [Builders -> Builder] /\ builder'[Refresher] = c
    BY <1>t, <1>3, MovingFits
  <2>2. QED
    BY <2>1, <1>3
<1>5. RefreshIsSingle' /\ queued' \in 0..1 /\ refreshing' \in BOOLEAN
  <2>1. CASE StartRefresh
    BY <2>1, <1>1, <1>4, <1>t DEF StartRefresh, RefreshIsSingle, At, MonitorTypeOK
  <2>2. CASE EndRefresh /\ ~StartRefresh
    <3>1. stage = "idle"
      BY <2>2, <1>1
    <3>2. queued = 0
      BY <2>2, <1>t DEF EndRefresh, RefreshIsSingle, At, MonitorTypeOK
    <3>3. refreshing' \in BOOLEAN
      BY <2>2, Zenon DEF EndRefresh
    <3>4. RefreshIsSingle' /\ queued' \in 0..1
      BY <2>2, <3>1, <3>2, <1>4 DEF EndRefresh, RefreshIsSingle, At
    <3>5. QED
      BY <3>3, <3>4
  <2>3. QED
    BY <2>1, <2>2
<1>6. MonitorTypeOK'
  BY <1>t, <1>4, <1>5 DEF StartRefresh, EndRefresh, MonitorTypeOK
<1>7. QED
  BY <1>4, <1>5, <1>6 DEF MonitorInv

\* Sources change, entries expire and the process restarts.
LEMMA EnvironmentKeeps ==
    ASSUME MonitorInv, ChangeSource \/ ExpireCache \/ ExpireSnapshot \/ Restart
    PROVE  MonitorInv'
<1>t. MonitorTypeOK /\ RefreshIsSingle /\ HoldingsFit(builder)
  BY DEF MonitorInv
<1>1. CASE ChangeSource \/ ExpireCache \/ ExpireSnapshot
  <2>1. UNCHANGED <<refreshing, queued, builder, restarts, failures>>
    BY <1>1 DEF ChangeSource, ExpireCache, ExpireSnapshot
  <2>2. source' \in Versions
    BY <1>1, <1>t DEF ChangeSource, ExpireCache, ExpireSnapshot, MonitorTypeOK, Versions,
                      EvidenceAssumption
  <2>3. cache' \in Entry \cup {NoGraph}
    BY <1>1, <1>t, EntryFields DEF ChangeSource, ExpireCache, ExpireSnapshot, MonitorTypeOK
  <2>4. file' \in Entry \cup {NoGraph, Torn}
    BY <1>1, <1>t, EntryFields DEF ChangeSource, ExpireCache, ExpireSnapshot, MonitorTypeOK
  <2>5. MonitorTypeOK'
    BY <1>t, <2>1, <2>2, <2>3, <2>4 DEF MonitorTypeOK
  <2>6. RefreshIsSingle' /\ HoldingsFit(builder')
    BY <1>t, <2>1 DEF RefreshIsSingle, At
  <2>7. QED
    BY <2>5, <2>6 DEF MonitorInv
<1>2. CASE Restart
  <2>1. builder' \in [Builders -> Builder]
    BY <1>2, RestingFits DEF Restart, Fits
  <2>2. file' \in Entry \cup {NoGraph, Torn}
    BY <1>2, <1>t, EntryFields DEF Restart, MonitorTypeOK
  <2>3. restarts' \in 0..MaxRestarts
    BY <1>2, <1>t DEF Restart, MonitorTypeOK, EvidenceAssumption
  <2>4. MonitorTypeOK'
    <3>1. refreshing' \in BOOLEAN
      BY <1>2, Zenon DEF Restart
    <3>2. source' \in Versions /\ queued' \in 0..1 /\ failures' \in 0..MaxFailures
      BY <1>2, <1>t DEF Restart, MonitorTypeOK
    <3>3. cache' \in Entry \cup {NoGraph}
      BY <1>2 DEF Restart
    <3>4. QED
      BY <2>1, <2>2, <2>3, <3>1, <3>2, <3>3 DEF MonitorTypeOK
  <2>5. HoldingsFit(builder')
    BY <1>2, RestingFits DEF Restart, HoldingsFit
  <2>6. RefreshIsSingle'
    BY <1>2 DEF Restart, RefreshIsSingle, At, Resting, Builders
  <2>7. QED
    BY <2>4, <2>5, <2>6 DEF MonitorInv
<1>3. QED
  BY <1>1, <1>2

-----------------------------------------------------------------------------
(* Where graphs come from: every copy of a graph, in the cache, on file or *)
(* in hand, was taken from another copy or is just being stamped.          *)

\* c holds the stamped graph g, or an entry with it.
HeldBy(c, g) ==
    \/ c.at = "adopt" /\ c.held.graph = g
    \/ c.at \in {"store", "write", "fill"} /\ c.held = g

Copies ==
    {g \in Graph :
        \/ cache # NoGraph /\ cache.graph = g
        \/ file \in Entry /\ file.graph = g
        \/ \E b \in Builders : HeldBy(builder[b], g)}

\* The versions that builders have read and not stamped yet.
Gathered == {v \in Versions : \E b \in Builders : At(b, "stamp") /\ builder[b].held.content = v}

\* g is a graph that can be stamped now.
Stampable(g) == g.mark = source /\ g.content \in Gathered

NothingFromNowhere ==
    /\ \A g \in Copies' : g \in Copies \/ Stampable(g)
    /\ \A v \in Gathered' : v \in Gathered \/ v = source

\* Only b moves; what it holds then, and what cache and file hold, has an origin.
LEMMA MoveOrigins ==
    ASSUME MonitorInv, NEW b \in Builders, NEW c, builder' = [builder EXCEPT ![b] = c],
           \A g \in Graph : HeldBy(c, g) => g \in Copies \/ Stampable(g),
           \A g \in Graph : cache' # NoGraph /\ cache'.graph = g => g \in Copies \/ Stampable(g),
           \A g \in Graph : file' \in Entry /\ file'.graph = g => g \in Copies \/ Stampable(g),
           c.at = "stamp" => c.held.content = source
    PROVE  NothingFromNowhere
<1>1. /\ builder'[b] = c
      /\ \A r \in Builders \ {b} : builder'[r] = builder[r]
  BY DEF MonitorInv, MonitorTypeOK
<1>2. ASSUME NEW g \in Copies' PROVE g \in Copies \/ Stampable(g)
  <2>1. g \in Graph
    BY DEF Copies
  <2>2. CASE \E r \in Builders : HeldBy(builder'[r], g)
    <3>1. PICK r \in Builders : HeldBy(builder'[r], g)
      BY <2>2
    <3>2. CASE r = b
      BY <1>1, <2>1, <3>1, <3>2
    <3>3. CASE r # b
      BY <1>1, <2>1, <3>1, <3>3 DEF Copies
    <3>4. QED
      BY <3>2, <3>3
  <2>3. CASE cache' # NoGraph /\ cache'.graph = g
    BY <2>1, <2>3
  <2>4. CASE file' \in Entry /\ file'.graph = g
    BY <2>1, <2>4
  <2>5. (\E r \in Builders : HeldBy(builder'[r], g)) \/ (cache' # NoGraph /\ cache'.graph = g)
        \/ (file' \in Entry /\ file'.graph = g)
    BY DEF Copies, HeldBy
  <2>6. QED
    BY <2>2, <2>3, <2>4, <2>5
<1>3. ASSUME NEW v \in Gathered' PROVE v \in Gathered \/ v = source
  <2>1. PICK r \in Builders : builder'[r].at = "stamp" /\ builder'[r].held.content = v
    BY DEF Gathered, At
  <2>2. v \in Versions
    BY DEF Gathered
  <2>3. CASE r = b
    BY <1>1, <2>1, <2>3
  <2>4. CASE r # b
    BY <1>1, <2>1, <2>2, <2>4 DEF Gathered, At
  <2>5. QED
    BY <2>3, <2>4
<1>4. QED
  BY <1>2, <1>3 DEF NothingFromNowhere

\* Cache and file as they were: b holds nothing new.
LEMMA EmptyHanded ==
    ASSUME MonitorInv, NEW b \in Builders, NEW stage \in {"idle", "lookup", "gather", "trigger", "release"},
           NEW seen, NEW held,
           builder' = [builder EXCEPT ![b] = [at |-> stage, seen |-> seen, held |-> held]],
           UNCHANGED <<cache, file>>
    PROVE  NothingFromNowhere
<1>1. \A g \in Graph : ~HeldBy([at |-> stage, seen |-> seen, held |-> held], g)
  BY DEF HeldBy
<1>2. \A g \in Graph :
        /\ cache' # NoGraph /\ cache'.graph = g => g \in Copies
        /\ file' \in Entry /\ file'.graph = g => g \in Copies
  BY DEF Copies
<1>3. QED
  BY <1>1, <1>2, MoveOrigins

\* b only changes its stage, to one that holds no copy.
LEMMA GoingOn ==
    ASSUME MonitorInv, NEW b \in Builders, NEW stage \in {"snapshot", "drop"}, Go(b, stage),
           cache' \in {cache, NoGraph}, UNCHANGED file
    PROVE  NothingFromNowhere
<1>1. PICK c : builder' = [builder EXCEPT ![b] = c] /\ c.at = stage
  <2>1. [builder[b] EXCEPT !.at = stage].at = stage
    BY DEF MonitorInv, MonitorTypeOK, Builder
  <2>2. builder' = [builder EXCEPT ![b] = [builder[b] EXCEPT !.at = stage]]
    BY DEF Go
  <2>3. QED
    BY <2>1, <2>2
<1>2. \A g \in Graph : ~HeldBy(c, g)
  BY <1>1 DEF HeldBy
<1>3. \A g \in Graph :
        /\ cache' # NoGraph /\ cache'.graph = g => g \in Copies
        /\ file' \in Entry /\ file'.graph = g => g \in Copies
  BY DEF Copies
<1>4. QED
  BY <1>1, <1>2, <1>3, MoveOrigins

LEMMA RequestOrigins ==
    ASSUME MonitorInv, NEW q \in Requests,
           (\E forced \in BOOLEAN : Ask(q, forced)) \/ RequestStep(q)
    PROVE  NothingFromNowhere
<1>q. q \in Builders
  BY DEF Builders
<1>1. ASSUME NEW forced \in BOOLEAN, Ask(q, forced) PROVE NothingFromNowhere
  <2>1. PICK stage \in {"gather", "lookup"}, seen \in {0, source} :
          builder' = [builder EXCEPT ![q] = [at |-> stage, seen |-> seen, held |-> NoGraph]]
    BY <1>1 DEF Ask
  <2>2. UNCHANGED <<cache, file>>
    BY <1>1 DEF Ask
  <2>3. QED
    BY <1>q, <2>1, <2>2, EmptyHanded
<1>2. CASE Lookup(q)
  <2>1. UNCHANGED <<cache, file>>
    BY <1>2 DEF Lookup
  <2>2. CASE Go(q, "snapshot") \/ Go(q, "drop")
    BY <1>q, <2>1, <2>2, GoingOn
  <2>3. CASE Enter(q, IF cache.expired THEN "trigger" ELSE "idle")
    <3>1. PICK stage \in {"trigger", "idle"} : Enter(q, stage)
      BY <2>3
    <3>2. QED
      BY <1>q, <2>1, <3>1, EmptyHanded DEF Enter, Carry
  <2>4. QED
    BY <1>2, <2>2, <2>3 DEF Lookup
<1>3. CASE Drop(q)
  <2>1. Go(q, "snapshot") /\ cache' = NoGraph /\ file' = file
    BY <1>3 DEF Drop
  <2>2. QED
    BY <1>q, <2>1, GoingOn
<1>4. CASE ReadSnapshot(q)
  <2>1. UNCHANGED <<cache, file>>
    BY <1>4 DEF ReadSnapshot
  <2>2. CASE file \in Entry /\ Carry(q, "adopt", file)
    <3>1. PICK c : c = [at |-> "adopt", seen |-> 0, held |-> file]
      OBVIOUS
    <3>2. builder' = [builder EXCEPT ![q] = c]
      BY <2>2, <3>1 DEF Carry
    <3>3. \A g \in Graph : HeldBy(c, g) => g \in Copies
      BY <2>2, <3>1 DEF HeldBy, Copies
    <3>4. \A g \in Graph :
            /\ cache' # NoGraph /\ cache'.graph = g => g \in Copies
            /\ file' \in Entry /\ file'.graph = g => g \in Copies
      BY <2>1 DEF Copies
    <3>5. c.at # "stamp"
      BY <3>1
    <3>6. QED
      BY <1>q, <3>2, <3>3, <3>4, <3>5, MoveOrigins
  <2>3. CASE Enter(q, "gather")
    BY <1>q, <2>1, <2>3, EmptyHanded DEF Enter, Carry
  <2>4. QED
    BY <1>4, <2>2, <2>3 DEF ReadSnapshot
<1>5. CASE Adopt(q)
  <2>1. PICK stage \in {"trigger", "idle"} : Enter(q, stage)
    BY <1>5 DEF Adopt
  <2>2. PICK c : c = [at |-> stage, seen |-> 0, held |-> NoGraph]
    OBVIOUS
  <2>3. builder' = [builder EXCEPT ![q] = c]
    BY <2>1, <2>2 DEF Enter, Carry
  <2>4. \A g \in Graph : ~HeldBy(c, g)
    BY <2>2 DEF HeldBy
  <2>5. builder[q].at = "adopt" /\ cache' = builder[q].held /\ file' = file
    BY <1>5 DEF Adopt, At
  <2>6. \A g \in Graph :
          /\ cache' # NoGraph /\ cache'.graph = g => g \in Copies
          /\ file' \in Entry /\ file'.graph = g => g \in Copies
    BY <1>q, <2>5 DEF HeldBy, Copies
  <2>7. c.at # "stamp"
    BY <2>2
  <2>8. QED
    BY <1>q, <2>3, <2>4, <2>6, <2>7, MoveOrigins
<1>6. CASE Trigger(q)
  <2>1. Enter(q, "idle") /\ UNCHANGED <<cache, file>>
    BY <1>6 DEF Trigger
  <2>2. QED
    BY <1>q, <2>1, EmptyHanded DEF Enter, Carry
<1>7. QED
  BY <1>1, <1>2, <1>3, <1>4, <1>5, <1>6 DEF RequestStep

\* A build that ends lets go of its graph.
LEMMA FinishOrigins ==
    ASSUME MonitorInv, NEW b \in Builders, Finish(b), UNCHANGED cache,
           \A g \in Graph : file' \in Entry /\ file'.graph = g => g \in Copies
    PROVE  NothingFromNowhere
<1>1. PICK stage \in {"release", "idle"} : Enter(b, stage)
  BY DEF Finish
<1>2. PICK c : c = [at |-> stage, seen |-> 0, held |-> NoGraph]
  OBVIOUS
<1>3. builder' = [builder EXCEPT ![b] = c]
  BY <1>1, <1>2 DEF Enter, Carry
<1>4. \A g \in Graph : ~HeldBy(c, g)
  BY <1>2 DEF HeldBy
<1>5. \A g \in Graph : cache' # NoGraph /\ cache'.graph = g => g \in Copies
  BY DEF Copies
<1>6. c.at # "stamp"
  BY <1>2
<1>7. QED
  BY <1>3, <1>4, <1>5, <1>6, MoveOrigins

LEMMA BuildOrigins ==
    ASSUME MonitorInv, NEW b \in Builders, BuildStep(b)
    PROVE  NothingFromNowhere
<1>t. Fits(builder[b]) /\ source \in Versions
  BY DEF MonitorInv, HoldingsFit, MonitorTypeOK
<1>s. \A g \in Graph :
        /\ cache # NoGraph /\ cache.graph = g => g \in Copies
        /\ file \in Entry /\ file.graph = g => g \in Copies
        /\ HeldBy(builder[b], g) => g \in Copies
  BY DEF Copies
<1>1. CASE Gather(b)
  <2>1. PICK graph : graph = [content |-> source, mark |-> 0]
    OBVIOUS
  <2>2. PICK c : c = [at |-> "stamp", seen |-> 0, held |-> graph]
    OBVIOUS
  <2>3. builder' = [builder EXCEPT ![b] = c] /\ UNCHANGED <<cache, file>>
    BY <1>1, <2>1, <2>2 DEF Gather, Carry
  <2>4. c.held.content = source /\ \A g \in Graph : ~HeldBy(c, g)
    BY <2>1, <2>2 DEF HeldBy
  <2>5. QED
    BY <1>s, <2>3, <2>4, MoveOrigins
<1>2. CASE Stamp(b)
  <2>1. PICK graph : graph = [content |-> builder[b].held.content, mark |-> source]
    OBVIOUS
  <2>2. PICK c : c = [at |-> "store", seen |-> 0, held |-> graph]
    OBVIOUS
  <2>3. builder' = [builder EXCEPT ![b] = c] /\ UNCHANGED <<cache, file>>
    BY <1>2, <2>1, <2>2 DEF Stamp, Carry
  <2>4. At(b, "stamp") /\ builder[b].held \in Graph
    BY <1>2, <1>t DEF Stamp, At, Fits
  <2>5. Stampable(graph)
    BY <2>1, <2>4 DEF Stampable, Gathered, Graph
  <2>6. \A g \in Graph : HeldBy(c, g) => Stampable(g)
    BY <2>2, <2>5 DEF HeldBy
  <2>7. c.at # "stamp"
    BY <2>2
  <2>8. QED
    BY <1>s, <2>3, <2>6, <2>7, MoveOrigins
<1>3. CASE BuildFails(b)
  BY <1>3, <1>s, FinishOrigins DEF BuildFails
<1>4. CASE Store(b)
  <2>1. PICK c : c = [builder[b] EXCEPT !.at = "write"]
    OBVIOUS
  <2>2. c.at = "write" /\ c.held = builder[b].held
    BY <2>1, <1>t DEF Fits, Builder
  <2>3. builder[b].at = "store" /\ builder' = [builder EXCEPT ![b] = c] /\ file' = file
    BY <1>4, <2>1 DEF Store, At, Go
  <2>4. \A g \in Graph : HeldBy(c, g) => g \in Copies
    BY <1>s, <2>2, <2>3 DEF HeldBy
  <2>5. cache'.graph = builder[b].held
    BY <1>4 DEF Store
  <2>6. \A g \in Graph : cache' # NoGraph /\ cache'.graph = g => g \in Copies
    BY <1>s, <2>3, <2>5 DEF HeldBy
  <2>7. QED
    BY <1>s, <2>2, <2>3, <2>4, <2>6, MoveOrigins
<1>5. CASE OpenSnapshot(b)
  <2>1. CASE UNCHANGED file /\ Finish(b)
    BY <1>5, <1>s, <2>1, FinishOrigins DEF OpenSnapshot
  <2>2. CASE file' = Torn /\ Go(b, "fill")
    <3>1. PICK c : c = [builder[b] EXCEPT !.at = "fill"]
      OBVIOUS
    <3>2. c.at = "fill" /\ c.held = builder[b].held
      BY <3>1, <1>t DEF Fits, Builder
    <3>3. builder[b].at = "write" /\ builder' = [builder EXCEPT ![b] = c] /\ cache' = cache
      BY <1>5, <2>2, <3>1 DEF OpenSnapshot, At, Go
    <3>4. \A g \in Graph : HeldBy(c, g) => g \in Copies
      BY <1>s, <3>2, <3>3 DEF HeldBy
    <3>5. file' \notin Entry
      BY <2>2
    <3>6. QED
      BY <1>s, <3>2, <3>3, <3>4, <3>5, MoveOrigins
  <2>3. QED
    BY <1>5, <2>1, <2>2 DEF OpenSnapshot
<1>6. CASE FillSnapshot(b)
  <2>1. builder[b].at = "fill" /\ Finish(b) /\ cache' = cache
    BY <1>6 DEF FillSnapshot, At
  <2>2. file' = Torn \/ file'.graph = builder[b].held
    BY <1>6 DEF FillSnapshot
  <2>3. \A g \in Graph : file' \in Entry /\ file'.graph = g => g \in Copies
    BY <1>s, <2>1, <2>2 DEF HeldBy
  <2>4. QED
    BY <2>1, <2>3, FinishOrigins
<1>7. QED
  BY <1>1, <1>2, <1>3, <1>4, <1>5, <1>6 DEF BuildStep

LEMMA EnvironmentOrigins ==
    ASSUME MonitorInv, ChangeSource \/ ExpireCache \/ ExpireSnapshot \/ Restart
    PROVE  NothingFromNowhere
<1>1. \A e \in Entry, x \in BOOLEAN : [e EXCEPT !.expired = x].graph = e.graph
  BY DEF Entry
<1>2. cache' # NoGraph => cache # NoGraph /\ cache'.graph = cache.graph
  <2>1. CASE ExpireCache
    <3>1. cache \in Entry /\ cache' = [cache EXCEPT !.expired = TRUE]
      BY <2>1 DEF ExpireCache, MonitorInv, MonitorTypeOK
    <3>2. cache # NoGraph
      BY <2>1 DEF ExpireCache
    <3>3. QED
      BY <1>1, <3>1, <3>2
  <2>2. CASE ~ExpireCache
    BY <2>2 DEF ChangeSource, ExpireSnapshot, Restart
  <2>3. QED
    BY <2>1, <2>2
<1>3. file' \in Entry => file \in Entry /\ file'.graph = file.graph
  BY <1>1 DEF ChangeSource, ExpireCache, ExpireSnapshot, Restart, MonitorInv, MonitorTypeOK
<1>4. \A b \in Builders : builder'[b] = builder[b] \/ builder'[b].at = "idle"
  BY DEF ChangeSource, ExpireCache, ExpireSnapshot, Restart, Resting
<1>5. ASSUME NEW g \in Copies' PROVE g \in Copies
  <2>1. \A b \in Builders : HeldBy(builder'[b], g) => HeldBy(builder[b], g)
    BY <1>4 DEF HeldBy
  <2>2. g \in Graph
    BY DEF Copies
  <2>3. \/ cache' # NoGraph /\ cache'.graph = g
        \/ file' \in Entry /\ file'.graph = g
        \/ \E b \in Builders : HeldBy(builder'[b], g)
    BY DEF Copies, HeldBy
  <2>4. QED
    BY <1>2, <1>3, <2>1, <2>2, <2>3 DEF Copies
<1>6. ASSUME NEW v \in Gathered' PROVE v \in Gathered
  BY <1>4 DEF Gathered, At
<1>7. QED
  BY <1>5, <1>6 DEF NothingFromNowhere

\* Every step takes its graphs from somewhere, and versions only grow.
LEMMA StepOrigins ==
    ASSUME MonitorInv, [Next]_vars
    PROVE  NothingFromNowhere /\ source' >= source
<1>1. NothingFromNowhere
  <2>1. CASE \E q \in Requests : (\E forced \in BOOLEAN : Ask(q, forced)) \/ RequestStep(q)
    BY <2>1, RequestOrigins
  <2>2. CASE \E b \in Builders : BuildStep(b)
    BY <2>2, BuildOrigins
  <2>3. CASE StartRefresh \/ EndRefresh
    <3>1. PICK stage \in {"gather", "idle"} : Enter(Refresher, stage)
      BY <2>3 DEF StartRefresh, EndRefresh
    <3>2. UNCHANGED <<cache, file>> /\ Refresher \in Builders
      BY <2>3 DEF StartRefresh, EndRefresh, Builders
    <3>3. QED
      BY <3>1, <3>2, EmptyHanded DEF Enter, Carry
  <2>4. CASE ChangeSource \/ ExpireCache \/ ExpireSnapshot \/ Restart
    BY <2>4, EnvironmentOrigins
  <2>5. CASE UNCHANGED vars
    BY <2>5 DEF vars, NothingFromNowhere, Copies, Gathered, At
  <2>6. QED
    BY <2>1, <2>2, <2>3, <2>4, <2>5 DEF Next
<1>2. source' = source \/ source' = source + 1
  BY DEF Next, vars, RequestStep, BuildStep, Ask, Lookup, Drop, ReadSnapshot, Adopt, Trigger,
         Gather, Stamp, BuildFails, Store, OpenSnapshot, FillSnapshot, StartRefresh, EndRefresh,
         ChangeSource, ExpireCache, ExpireSnapshot, Restart
<1>3. QED
  BY <1>1, <1>2 DEF MonitorInv, MonitorTypeOK, Versions, EvidenceAssumption

-----------------------------------------------------------------------------
(* The theorems. *)

\* Every step keeps the invariant.
LEMMA MonitorStep ==
    ASSUME MonitorInv, [Next]_vars
    PROVE  MonitorInv'
<1>1. CASE \E q \in Requests : (\E forced \in BOOLEAN : Ask(q, forced)) \/ RequestStep(q)
  BY <1>1, RequestKeeps
<1>2. CASE \E b \in Builders : BuildStep(b)
  BY <1>2, BuildKeeps
<1>3. CASE StartRefresh \/ EndRefresh
  BY <1>3, RefreshKeeps
<1>4. CASE ChangeSource \/ ExpireCache \/ ExpireSnapshot \/ Restart
  BY <1>4, EnvironmentKeeps
<1>5. CASE UNCHANGED vars
  BY <1>5 DEF vars, MonitorInv, MonitorTypeOK, RefreshIsSingle, At
<1>6. QED
  BY <1>1, <1>2, <1>3, <1>4, <1>5 DEF Next

\* The invariant is inductive.
THEOREM MonitorInvariant == Spec => []MonitorInv
<1>1. Init => MonitorInv
  BY InitMonitor
<1>2. MonitorInv /\ [Next]_vars => MonitorInv'
  BY MonitorStep
<1>3. QED
  BY <1>1, <1>2, PTL DEF Spec

\* Cache, snapshot file, flag and builders are always of their kinds, and the
\* executor never has a second refresh of the key waiting.
THEOREM MonitorTypes == Spec => []MonitorTypeOK
<1>1. MonitorInv => MonitorTypeOK
  BY DEF MonitorInv
<1>2. QED
  BY <1>1, MonitorInvariant, PTL

\* The refreshing flag is up exactly while one background refresh of the key is
\* queued or running, and there is never a second.
THEOREM RefreshesAreSingle == Spec => []RefreshIsSingle
<1>1. MonitorInv => RefreshIsSingle
  BY DEF MonitorInv
<1>2. QED
  BY <1>1, MonitorInvariant, PTL

\* A graph is never older than it says it was read, and no stamp is of the
\* future: whatever is cached, on file or in hand was read no later than its
\* watermark, so a hit may serve old evidence under a new watermark and never
\* the reverse.
StampsLag ==
    /\ \A g \in Copies : g.content <= g.mark /\ g.mark <= source
    /\ \A v \in Gathered : v <= source

\* The watermark of a copy can only overstate how recent the evidence is
\* (the sources are read first and stamped last, main.py:8763).
THEOREM StampsNeverRunAhead == Spec => []StampsLag
<1>1. Init => StampsLag
  BY DEF Init, StampsLag, Copies, Gathered, HeldBy, At, Resting
<1>2. MonitorInv /\ StampsLag /\ [Next]_vars => StampsLag'
  <2> SUFFICES ASSUME MonitorInv, StampsLag, [Next]_vars PROVE StampsLag'
    OBVIOUS
  <2>1. NothingFromNowhere /\ source' >= source
    BY StepOrigins
  <2>t. source \in Nat /\ source' \in Nat
    <3>1. MonitorTypeOK'
      BY MonitorStep DEF MonitorInv
    <3>2. QED
      BY <3>1 DEF MonitorInv, MonitorTypeOK, Versions
  <2>2. ASSUME NEW g \in Copies' PROVE g.content <= g.mark /\ g.mark <= source'
    <3>1. g.content \in Nat /\ g.mark \in Nat
      BY DEF Copies, Graph, Versions
    <3>2. g.content <= g.mark /\ g.mark <= source
      BY <2>1, <2>t DEF NothingFromNowhere, Stampable, StampsLag
    <3>3. QED
      BY <2>1, <2>t, <3>1, <3>2
  <2>3. ASSUME NEW v \in Gathered' PROVE v <= source'
    <3>1. v \in Nat /\ v <= source
      BY <2>1, <2>t DEF NothingFromNowhere, StampsLag, Gathered, Versions
    <3>2. QED
      BY <2>1, <2>t, <3>1
  <2>4. QED
    BY <2>2, <2>3 DEF StampsLag
<1>3. QED
  BY <1>1, <1>2, MonitorInvariant, PTL DEF Spec

\* Nothing read before the last change is left anywhere.
Settled ==
    /\ \A g \in Copies : g.content = source /\ g.mark = source
    /\ \A v \in Gathered : v = source

\* Once nothing old is cached, on file or in hand, nothing old comes back while
\* the sources stay as they are, whatever is asked, built, dropped or restarted:
\* the second half of EvidenceConverges, its "and stays so".
THEOREM NothingOldReturns == Spec => [][Settled /\ source' = source => Settled']_vars
<1>1. MonitorInv /\ [Next]_vars => [Settled /\ source' = source => Settled']_vars
  <2> SUFFICES ASSUME MonitorInv, [Next]_vars, Settled, source' = source PROVE Settled'
    OBVIOUS
  <2>1. NothingFromNowhere
    BY StepOrigins
  <2>2. ASSUME NEW g \in Copies' PROVE g.content = source' /\ g.mark = source'
    BY <2>1 DEF NothingFromNowhere, Stampable, Settled
  <2>3. ASSUME NEW v \in Gathered' PROVE v = source'
    BY <2>1 DEF NothingFromNowhere, Settled
  <2>4. QED
    BY <2>2, <2>3 DEF Settled
<1>2. QED
  BY <1>1, MonitorInvariant, PTL DEF Spec

=============================================================================
