------------------------ MODULE OutboxLifecycleProofs ------------------------
(***************************************************************************)
(* What DeliveryOutbox gives to its readers: with one request at a time    *)
(* and a file that fits the windows of its lookups the newest row per      *)
(* dispatch is a DispatchLifecycle, and with any finite number of threads  *)
(* a row is repeated or overlooked at most once per other thread.          *)
(***************************************************************************)
EXTENDS DeliveryOutboxProofs, FiniteSetTheorems

(***************************************************************************)
(* The newest row about a dispatch.                                        *)
(***************************************************************************)

IsNewest(i, S) == i \in S /\ \A j \in S : j <= i

\* The newest row is the one CHOOSE finds.
LEMMA NewestIsChosen ==
    ASSUME NEW S, S \subseteq Nat, NEW n, IsNewest(n, S)
    PROVE  (CHOOSE i \in S : \A j \in S : j <= i) = n
<1>1. n \in S /\ \A j \in S : j <= n
  BY DEF IsNewest
<1>2. ASSUME NEW m \in S, \A j \in S : j <= m
      PROVE  m = n
  <2>1. m <= n /\ n <= m /\ m \in Nat /\ n \in Nat
    BY <1>1, <1>2
  <2> QED
    BY <2>1
<1> QED
  BY <1>1, <1>2

\* A dispatch that has a row has a newest one, which is what CHOOSE finds.
HaveNewest == \A d \in Dispatches : RowsAbout(d) # {} => \E i : IsNewest(i, RowsAbout(d))

LEMMA CurrentRowIs ==
    ASSUME TypeOK, NEW d \in Dispatches, NEW i, IsNewest(i, RowsAbout(d))
    PROVE  /\ CurrentRow(d) = i
           /\ CurrentStatus[d] = log[i].status
           /\ CurrentDecision[d] = log[i].approval
<1>1. RowsAbout(d) \subseteq Nat
  BY DEF RowsAbout, TypeOK
<1>2. CurrentRow(d) = i
  BY <1>1, NewestIsChosen DEF CurrentRow
<1>3. RowsAbout(d) # {}
  BY DEF IsNewest
<1> QED
  BY <1>2, <1>3 DEF CurrentStatus, CurrentDecision

LEMMA NoRowIs ==
    ASSUME NEW d \in Dispatches, RowsAbout(d) = {}
    PROVE  CurrentStatus[d] = "none" /\ CurrentDecision[d] = "none"
BY DEF CurrentStatus, CurrentDecision

\* An append changes what is current for its own dispatch only.
LEMMA AppendMovesOne ==
    ASSUME TypeOK, HaveNewest, NEW r \in Row, log' = Append(log, r)
    PROVE  /\ HaveNewest'
           /\ CurrentStatus' = [CurrentStatus EXCEPT ![r.dispatch] = r.status]
           /\ CurrentDecision' = [CurrentDecision EXCEPT ![r.dispatch] = r.approval]
<1> DEFINE n == Len(log) + 1
<1>1. /\ log \in Seq(Row) /\ Len(log) \in Nat /\ DOMAIN log = 1 .. Len(log)
  BY DEF TypeOK
<1>2. PICK longer : longer = log'
  OBVIOUS
<1>3. /\ longer \in Seq(Row) /\ DOMAIN longer = DOMAIN log \cup {n} /\ longer[n] = r
      /\ \A i \in DOMAIN log : longer[i] = log[i]
  BY <1>1, <1>2
<1> DEFINE about(d) == {i \in DOMAIN longer : longer[i].dispatch = d}
<1>4. \A d \in Dispatches : RowsAbout(d)' = about(d)
  BY <1>2 DEF RowsAbout
<1>5. about(r.dispatch) = RowsAbout(r.dispatch) \cup {n}
  BY <1>1, <1>3 DEF RowsAbout
<1>6. \A d \in Dispatches : d # r.dispatch => about(d) = RowsAbout(d)
  BY <1>1, <1>3 DEF RowsAbout
<1>7. \A d \in Dispatches : RowsAbout(d) \subseteq DOMAIN log
  BY DEF RowsAbout
<1>8. r.dispatch \in Dispatches
  BY DEF Row
<1> HIDE DEF about
<1>9. IsNewest(n, about(r.dispatch))
  BY <1>1, <1>5, <1>7, <1>8 DEF IsNewest
<1>10. \A d \in Dispatches : about(d) # {} => \E i : IsNewest(i, about(d))
  BY <1>6, <1>9 DEF HaveNewest
<1>11. HaveNewest'
  BY <1>4, <1>10 DEF HaveNewest
<1> DEFINE chosen(d) == CHOOSE i \in about(d) : \A j \in about(d) : j <= i
<1>12. \A d \in Dispatches : about(d) \subseteq Nat
  BY <1>1, <1>5, <1>6, <1>7
<1>13. chosen(r.dispatch) = n
  BY <1>8, <1>9, <1>12, NewestIsChosen
<1>14. ASSUME NEW d \in Dispatches, d # r.dispatch
       PROVE  chosen(d) = CurrentRow(d)
  BY <1>6, <1>14 DEF CurrentRow
<1>15. /\ CurrentStatus' = [d \in Dispatches |-> IF about(d) = {} THEN "none" ELSE longer[chosen(d)].status]
       /\ CurrentDecision' = [d \in Dispatches |-> IF about(d) = {} THEN "none"
                                                   ELSE longer[chosen(d)].approval]
  BY <1>2 DEF CurrentStatus, CurrentDecision, CurrentRow, RowsAbout, about, chosen
<1> HIDE DEF chosen
<1>16. ASSUME NEW d \in Dispatches, d # r.dispatch, about(d) # {}
       PROVE  chosen(d) \in DOMAIN log
  <2>1. RowsAbout(d) # {} /\ RowsAbout(d) \subseteq Nat
    BY <1>6, <1>7, <1>16, <1>1
  <2>2. PICK i : IsNewest(i, RowsAbout(d))
    BY <2>1 DEF HaveNewest
  <2>3. CurrentRow(d) = i
    BY <2>2, CurrentRowIs
  <2> QED
    BY <1>7, <1>14, <1>16, <2>2, <2>3 DEF IsNewest
<1>17. ASSUME NEW d \in Dispatches
       PROVE  /\ CurrentStatus'[d] = IF d = r.dispatch THEN r.status ELSE CurrentStatus[d]
              /\ CurrentDecision'[d] = IF d = r.dispatch THEN r.approval ELSE CurrentDecision[d]
  <2>1. CASE d = r.dispatch
    <3>1. about(d) # {} /\ chosen(d) = n
      BY <1>9, <1>13, <2>1 DEF IsNewest
    <3> QED
      BY <1>3, <1>15, <2>1, <3>1
  <2>2. CASE d # r.dispatch /\ about(d) # {}
    <3>1. longer[chosen(d)] = log[CurrentRow(d)]
      BY <1>3, <1>14, <1>16, <2>2
    <3>2. RowsAbout(d) # {}
      BY <1>6, <2>2
    <3>3. CurrentStatus[d] = log[CurrentRow(d)].status /\ CurrentDecision[d] = log[CurrentRow(d)].approval
      BY <3>2 DEF CurrentStatus, CurrentDecision
    <3>4. /\ CurrentStatus'[d] = longer[chosen(d)].status
          /\ CurrentDecision'[d] = longer[chosen(d)].approval
      BY <1>15, <2>2
    <3> QED
      BY <2>2, <3>1, <3>3, <3>4
  <2>3. CASE d # r.dispatch /\ about(d) = {}
    <3>1. RowsAbout(d) = {}
      BY <1>6, <2>3
    <3> QED
      BY <1>15, <2>3, <3>1 DEF CurrentStatus, CurrentDecision
  <2> QED
    BY <2>1, <2>2, <2>3
<1>18. /\ CurrentStatus' = [d \in Dispatches |-> CurrentStatus'[d]]
       /\ CurrentDecision' = [d \in Dispatches |-> CurrentDecision'[d]]
       /\ CurrentStatus = [d \in Dispatches |-> CurrentStatus[d]]
       /\ CurrentDecision = [d \in Dispatches |-> CurrentDecision[d]]
  BY DEF CurrentStatus, CurrentDecision
<1> QED
  BY <1>11, <1>17, <1>18

(***************************************************************************)
(* One request at a time.  What it read is still the whole file when it    *)
(* appends, so the newest row it saw is the newest there is.               *)
(***************************************************************************)

\* Every lookup sees the whole file.
WindowsFit == MaxRows <= RowLimit(FindLookback) /\ MaxRows <= RowLimit(DedupeLookback)

\* What each kind of row says of status and decision.
Shape(row) ==
    /\ row.kind = "dispatch" => row.status = DispatchStatus(row.dispatch) /\ row.approval = "none"
    /\ row.kind = "acknowledgement" => row.status = "acknowledged"
    /\ row.kind = "approvalDecision" =>
          row.approval \in Decisions /\ row.status = DecisionStatus(row.approval)

SequentialInv ==
    /\ HaveNewest
    /\ Len(log) <= MaxRows
    /\ \A t \in Threads : stage[t] \in {"publish", "append"} =>
          Len(log) < MaxRows /\ work[t].looked = Len(log) /\ Shape(work[t])

\* Steps that append nothing change nothing that is current.
LEMMA LogStays ==
    ASSUME log' = log
    PROVE  /\ HaveNewest => HaveNewest'
           /\ CurrentStatus' = CurrentStatus /\ CurrentDecision' = CurrentDecision
<1>1. HaveNewest => HaveNewest'
  BY DEF HaveNewest, RowsAbout, IsNewest
<1> QED
  BY <1>1 DEF CurrentStatus, CurrentDecision, CurrentRow, RowsAbout

\* The only thread starts with a file that has room for its row.
LEMMA RoomForOne ==
    ASSUME TypeOK, NEW t, Threads = {t}, stage[t] = "idle", HasRoom
    PROVE  Len(log) < MaxRows
<1>1. {u \in Threads : stage[u] # "idle"} = {}
  OBVIOUS
<1>2. Cardinality({u \in Threads : stage[u] # "idle"}) = 0
  BY <1>1, FS_EmptySet
<1> QED
  BY <1>2 DEF HasRoom, TypeOK

\* A request starts with a row of the shape of its kind.
LEMMA RequestShapes ==
    ASSUME LookupInv, SequentialInv, NEW t, Threads = {t}, Request(t)
    PROVE  SequentialInv'
<1>1. /\ stage \in [Threads -> Stages] /\ work \in [Threads -> Row \cup {NoRow}]
      /\ log \in Seq(Row)
  BY DEF LookupInv, TypeOK
<1>2. ASSUME NEW row, NEW next, Begin(t, row, next), row.looked = Len(log), Shape(row)
      PROVE  SequentialInv'
  <2>1. Len(log) < MaxRows
    BY <1>2, RoomForOne DEF Begin, LookupInv
  <2>2. log' = log /\ work'[t] = row
    BY <1>1, <1>2 DEF Begin
  <2>3. HaveNewest'
    BY <2>2, LogStays DEF SequentialInv
  <2>4. \A u \in Threads : Len(log') < MaxRows /\ work'[u].looked = Len(log') /\ Shape(work'[u])
    BY <1>2, <2>1, <2>2
  <2>5. Len(log') <= MaxRows
    BY <2>2 DEF SequentialInv
  <2> QED
    BY <2>3, <2>4, <2>5 DEF SequentialInv, Shape
<1>3. ASSUME NEW d \in Dispatches, CreateDispatch(t, d)
      PROVE  SequentialInv'
  <2>1. CreationRow(d).looked = Len(log) /\ Shape(CreationRow(d))
    BY DEF CreationRow, Shape
  <2>2. PICK next : Begin(t, CreationRow(d), next)
    BY <1>3 DEF CreateDispatch
  <2> QED
    BY <1>2, <2>1, <2>2
<1>4. ASSUME NEW d \in Dispatches, NEW i \in FindDispatch(d), NEW kind, NEW status, NEW approval
      PROVE  LET row == CopyOf(i, kind, status, approval) IN
             /\ row.looked = Len(log) /\ row.kind = kind
             /\ row.status = status /\ row.approval = approval
  <2>1. log[i] \in Row
    BY <1>1 DEF FindDispatch, Matching, LatestDispatches
  <2> QED
    BY <2>1 DEF CopyOf, Row
<1>5. ASSUME NEW d \in Dispatches, Acknowledge(t, d)
      PROVE  SequentialInv'
  <2>1. PICK i \in FindDispatch(d) :
          Begin(t, CopyOf(i, "acknowledgement", "acknowledged", log[i].approval), "append")
    BY <1>5 DEF Acknowledge
  <2>2. PICK row : row = CopyOf(i, "acknowledgement", "acknowledged", log[i].approval)
    OBVIOUS
  <2>3. row.looked = Len(log) /\ Shape(row)
    BY <1>4, <2>2 DEF Shape
  <2> QED
    BY <1>2, <2>1, <2>2, <2>3
<1>6. ASSUME NEW d \in Dispatches, NEW decision \in Decisions, DecideApproval(t, d, decision)
      PROVE  SequentialInv'
  <2>1. PICK i \in FindDispatch(d) :
          Begin(t, CopyOf(i, "approvalDecision", DecisionStatus(decision), decision), "publish")
    BY <1>6 DEF DecideApproval
  <2>2. PICK row : row = CopyOf(i, "approvalDecision", DecisionStatus(decision), decision)
    OBVIOUS
  <2>3. row.looked = Len(log) /\ Shape(row)
    BY <1>4, <2>2 DEF Shape
  <2> QED
    BY <1>2, <2>1, <2>2, <2>3
<1> QED
  BY <1>3, <1>5, <1>6 DEF Request

\* An append implements the lifecycle step of its kind, and nothing else is
\* one.
LEMMA AppendImplements ==
    ASSUME LookupInv, SequentialInv, WindowsFit, NEW t, Threads = {t},
           stage[t] = "append", log' = Append(log, work[t])
    PROVE  /\ HaveNewest' /\ Len(log') <= MaxRows
           /\ Lifecycle!Next
<1>1. PICK r : r = work[t]
  OBVIOUS
<1>2. /\ r \in Row /\ Shape(r) /\ r.looked = Len(log) /\ Len(log) < MaxRows
      /\ log \in Seq(Row) /\ Len(log) \in Nat /\ DOMAIN log = 1 .. Len(log) /\ InFlight(t)
  BY <1>1 DEF LookupInv, TypeOK, SequentialInv, InFlightAgreesWithItsRead
<1>3. PICK d \in Dispatches : d = r.dispatch
  BY <1>2 DEF Row
<1>4. /\ HaveNewest'
      /\ CurrentStatus' = [CurrentStatus EXCEPT ![d] = r.status]
      /\ CurrentDecision' = [CurrentDecision EXCEPT ![d] = r.approval]
  BY <1>1, <1>2, <1>3, AppendMovesOne DEF LookupInv, SequentialInv
<1>5. /\ SeenAt(log, d, Len(log), FindLookback) = RowsAbout(d)
      /\ SeenAt(log, d, Len(log), DedupeLookback) = RowsAbout(d)
  <2>1. RowLimit(FindLookback) \in Nat /\ RowLimit(DedupeLookback) \in Nat /\ MaxRows \in Nat
    BY RowLimitPositive, OutboxAssumption
  <2>2. \A i \in DOMAIN log : i <= Len(log) /\ i + RowLimit(FindLookback) > Len(log)
                              /\ i + RowLimit(DedupeLookback) > Len(log)
    BY <1>2, <2>1 DEF WindowsFit
  <2> QED
    BY <2>2 DEF SeenAt, RowsAbout
<1>6. Len(log') <= MaxRows
  <2>1. Len(log') = Len(log) + 1
    BY <1>1, <1>2, AppendKeepsReads DEF LookupInv
  <2> QED
    BY <1>2, <2>1, OutboxAssumption
<1>7. CASE r.kind = "dispatch"
  <2>1. RowsAbout(d) = {}
    BY <1>1, <1>2, <1>3, <1>5, <1>7 DEF InFlight
  <2>2. CurrentStatus[d] = "none" /\ CurrentDecision[d] = "none"
    BY <2>1, NoRowIs
  <2>3. r.status = DispatchStatus(d) /\ r.approval = "none"
    BY <1>2, <1>3, <1>7 DEF Shape
  <2>4. CurrentDecision' = CurrentDecision
    <3>1. CurrentDecision = [e \in Dispatches |-> CurrentDecision[e]]
      BY DEF CurrentDecision
    <3> QED
      BY <1>4, <2>2, <2>3, <3>1
  <2>5. Lifecycle!Create(d)
    BY <1>4, <2>2, <2>3, <2>4 DEF Lifecycle!Create
  <2> QED
    BY <1>4, <1>6, <2>5 DEF Lifecycle!Next
<1>8. CASE r.kind # "dispatch"
  <2>1. /\ r.base \in RowsAbout(d) /\ \A i \in RowsAbout(d) : i <= r.base
        /\ r.kind = "acknowledgement" => r.approval = log[r.base].approval
    BY <1>1, <1>2, <1>3, <1>5, <1>8 DEF InFlight
  <2>2. CurrentStatus[d] = log[r.base].status /\ CurrentDecision[d] = log[r.base].approval
    BY <2>1, CurrentRowIs DEF IsNewest, LookupInv
  <2>3. log[r.base] \in Row
    BY <1>2, <2>1 DEF RowsAbout
  <2>4. CurrentStatus[d] # "none"
    BY <2>2, <2>3 DEF Row, Statuses
  <2>5. CASE r.kind = "acknowledgement"
    <3>1. r.status = "acknowledged" /\ r.approval = CurrentDecision[d]
      BY <1>2, <2>1, <2>2, <2>5 DEF Shape
    <3>2. CurrentDecision' = CurrentDecision
      <4>1. CurrentDecision = [e \in Dispatches |-> CurrentDecision[e]]
        BY DEF CurrentDecision
      <4> QED
        BY <1>4, <3>1, <4>1
    <3>3. Lifecycle!Acknowledge(d)
      BY <1>4, <2>4, <3>1, <3>2 DEF Lifecycle!Acknowledge
    <3> QED
      BY <1>4, <1>6, <3>3 DEF Lifecycle!Next
  <2>6. CASE r.kind = "approvalDecision"
    <3>1. r.approval \in Decisions /\ r.status = DecisionStatus(r.approval)
      BY <1>2, <2>6 DEF Shape
    <3>2. CASE r.approval = "approved"
      <4>1. Lifecycle!Approve(d)
        BY <1>4, <2>4, <3>1, <3>2 DEF Lifecycle!Approve, DecisionStatus
      <4> QED
        BY <1>4, <1>6, <4>1 DEF Lifecycle!Next
    <3>3. CASE r.approval = "held"
      <4>1. Lifecycle!Hold(d)
        BY <1>4, <2>4, <3>1, <3>3 DEF Lifecycle!Hold, DecisionStatus
      <4> QED
        BY <1>4, <1>6, <4>1 DEF Lifecycle!Next
    <3> QED
      BY <3>1, <3>2, <3>3 DEF Decisions
  <2> QED
    BY <1>2, <1>8, <2>5, <2>6 DEF Row, Kinds
<1> QED
  BY <1>7, <1>8

\* One step of the outbox keeps the invariant and is a lifecycle step or none.
LEMMA StepImplements ==
    ASSUME LookupInv, SequentialInv, WindowsFit, NEW t, Threads = {t}, [Next]_outboxVars
    PROVE  /\ SequentialInv'
           /\ Lifecycle!Next \/ UNCHANGED <<CurrentStatus, CurrentDecision>>
<1>1. stage \in [Threads -> Stages] /\ work \in [Threads -> Row \cup {NoRow}]
  BY DEF LookupInv, TypeOK
\* Nothing is appended and nobody starts.
<1>2. ASSUME log' = log,
             stage'[t] \in {"publish", "append"} =>
                stage[t] \in {"publish", "append"} /\ work'[t] = work[t]
      PROVE  SequentialInv' /\ UNCHANGED <<CurrentStatus, CurrentDecision>>
  <2>1. HaveNewest' /\ UNCHANGED <<CurrentStatus, CurrentDecision>>
    BY <1>2, LogStays DEF SequentialInv
  <2>2. ASSUME NEW u \in Threads, stage'[u] \in {"publish", "append"}
        PROVE  Len(log') < MaxRows /\ work'[u].looked = Len(log') /\ Shape(work'[u])
    BY <1>2, <2>2 DEF SequentialInv
  <2>3. Len(log') <= MaxRows
    BY <1>2 DEF SequentialInv
  <2> QED
    BY <2>1, <2>2, <2>3 DEF SequentialInv, Shape
\* The row in hand is appended and the request goes on behind it.
<1>3. ASSUME stage[t] = "append", log' = Append(log, work[t]), stage'[t] \notin {"publish", "append"}
      PROVE  SequentialInv' /\ Lifecycle!Next
  <2>1. HaveNewest' /\ Len(log') <= MaxRows /\ Lifecycle!Next
    BY <1>3, AppendImplements
  <2>2. \A u \in Threads : stage'[u] \notin {"publish", "append"}
    BY <1>3
  <2> QED
    BY <2>1, <2>2 DEF SequentialInv
<1>4. CASE Request(t)
  <2>1. log' = log
    BY <1>4 DEF Request, CreateDispatch, Acknowledge, DecideApproval, Begin
  <2> QED
    BY <1>4, <2>1, RequestShapes, LogStays
<1>5. CASE Publish(t)
  <2>1. log' = log /\ work' = work /\ stage[t] = "publish"
    BY <1>5 DEF Publish, Advance
  <2> QED
    BY <1>2, <2>1
<1>6. CASE PersistDispatch(t)
  <2>1. stage[t] = "append" /\ stage'[t] \in {"event", "idle"}
    BY <1>1, <1>6 DEF PersistDispatch, Advance, Finish
  <2>2. log' = log \/ log' = Append(log, work[t])
    BY <1>6 DEF PersistDispatch, AppendRow
  <2> QED
    BY <1>2, <1>3, <2>1, <2>2
<1>7. CASE AppendUpdate(t)
  <2>1. stage[t] = "append" /\ stage'[t] \in {"event", "idle"}
    BY <1>1, <1>7 DEF AppendUpdate, Advance, Finish
  <2>2. log' = log \/ log' = Append(log, work[t])
    BY <1>7 DEF AppendUpdate, AppendRow
  <2> QED
    BY <1>2, <1>3, <2>1, <2>2
<1>8. CASE RecordEvent(t)
  <2>1. log' = log /\ stage'[t] = "idle"
    BY <1>1, <1>8 DEF RecordEvent, Finish
  <2> QED
    BY <1>2, <2>1
<1>9. CASE Restart
  <2>1. log' = log /\ stage'[t] = "idle"
    BY <1>9 DEF Restart
  <2> QED
    BY <1>2, <2>1
<1>10. CASE UNCHANGED outboxVars
  <2>1. log' = log /\ stage' = stage /\ work' = work
    BY <1>10 DEF outboxVars
  <2> QED
    BY <1>2, <2>1
<1> QED
  BY <1>4, <1>5, <1>6, <1>7, <1>8, <1>9, <1>10 DEF Next, ThreadStep

\* Nothing has been created when the outbox starts.
LEMMA InitSequential ==
    ASSUME Init
    PROVE  SequentialInv /\ Lifecycle!Init
<1>1. \A d \in Dispatches : RowsAbout(d) = {}
  BY DEF Init, RowsAbout
<1>2. SequentialInv
  BY <1>1, OutboxAssumption DEF Init, SequentialInv, HaveNewest
<1>3. Lifecycle!Init
  BY <1>1 DEF Lifecycle!Init, CurrentStatus, CurrentDecision
<1> QED
  BY <1>2, <1>3

\* With one request at a time and windows that cover the file, the newest row
\* per dispatch is a DispatchLifecycle, whichever appends fail and wherever the
\* process dies.
THEOREM OutboxIsALifecycle ==
    ASSUME NEW t, Threads = {t}, WindowsFit
    PROVE  Spec => RefinesLifecycle
<1>1. Init => SequentialInv /\ Lifecycle!Init
  BY InitSequential
<1>2. LookupInv /\ SequentialInv /\ [Next]_outboxVars
        => SequentialInv' /\ [Lifecycle!Next]_(Lifecycle!lifecycleVars)
  BY StepImplements DEF Lifecycle!lifecycleVars
<1> QED
  BY <1>1, <1>2, LookupInvariant, PTL DEF Spec, RefinesLifecycle, Lifecycle!Spec

\* The status of a dispatch shows its last decision until it is acknowledged.
StatusShowsDecision ==
    \A d \in Dispatches :
        /\ CurrentStatus[d] = "approved_for_execution" => CurrentDecision[d] = "approved"
        /\ CurrentStatus[d] = "held_for_review" => CurrentDecision[d] = "held"

\* A decided dispatch stays decided, and an existing one stays existing.
DecisionsAreKept ==
    \A d \in Dispatches :
        /\ CurrentDecision[d] # "none" => CurrentDecision'[d] # "none"
        /\ CurrentStatus[d] # "none" => CurrentStatus'[d] # "none"

\* What DispatchLifecycle promises, in the words of the outbox.
LEMMA LifecyclePromises ==
    /\ Lifecycle!Init => StatusShowsDecision
    /\ StatusShowsDecision /\ [Lifecycle!Next]_(Lifecycle!lifecycleVars)
         => StatusShowsDecision' /\ DecisionsAreKept
<1>0. /\ CurrentStatus = [d \in Dispatches |-> CurrentStatus[d]]
      /\ CurrentDecision = [d \in Dispatches |-> CurrentDecision[d]]
  BY DEF CurrentStatus, CurrentDecision
<1>1. Lifecycle!Init => StatusShowsDecision
  BY DEF Lifecycle!Init, StatusShowsDecision
<1>2. ASSUME StatusShowsDecision, [Lifecycle!Next]_(Lifecycle!lifecycleVars)
      PROVE  StatusShowsDecision' /\ DecisionsAreKept
  <2>1. CASE UNCHANGED <<CurrentStatus, CurrentDecision>>
    BY <1>2, <2>1 DEF StatusShowsDecision, DecisionsAreKept
  <2>2. ASSUME NEW d \in Dispatches, Lifecycle!Create(d)
        PROVE  StatusShowsDecision' /\ DecisionsAreKept
    <3>1. DispatchStatus(d) \notin {"none", "approved_for_execution", "held_for_review"}
      BY DEF DispatchStatus, InitialStatus
    <3>2. QED
      BY <1>0, <1>2, <2>2, <3>1 DEF Lifecycle!Create, StatusShowsDecision, DecisionsAreKept
  <2>3. ASSUME NEW d \in Dispatches,
               Lifecycle!Acknowledge(d) \/ Lifecycle!Approve(d) \/ Lifecycle!Hold(d)
        PROVE  StatusShowsDecision' /\ DecisionsAreKept
    BY <1>0, <1>2, <2>3
       DEF Lifecycle!Acknowledge, Lifecycle!Approve, Lifecycle!Hold, StatusShowsDecision,
           DecisionsAreKept
  <2>4. QED
    BY <1>2, <2>1, <2>2, <2>3 DEF Lifecycle!Next, Lifecycle!lifecycleVars
<1> QED
  BY <1>1, <1>2

\* With one request at a time and windows that cover the file, an operator's
\* decision is never forgotten and a dispatch never disappears from the newest
\* rows, and an executable or held status is always that of the last decision.
THEOREM DecisionsAreNotForgotten ==
    ASSUME NEW t, Threads = {t}, WindowsFit
    PROVE  Spec => []StatusShowsDecision /\ [][DecisionsAreKept]_outboxVars
<1>1. Spec => RefinesLifecycle
  BY OutboxIsALifecycle
<1>2. /\ Lifecycle!Init => StatusShowsDecision
      /\ StatusShowsDecision /\ [Lifecycle!Next]_(Lifecycle!lifecycleVars)
           => StatusShowsDecision' /\ [DecisionsAreKept]_outboxVars
  BY LifecyclePromises
<1> QED
  BY <1>1, <1>2, PTL DEF RefinesLifecycle, Lifecycle!Spec

(***************************************************************************)
(* Any number of requests.  Whatever a row is missed by, a creation that   *)
(* repeats it or an update that overlooks it, read the file before the row *)
(* was appended and was under way on another thread at that time.          *)
(***************************************************************************)

OverlappingRows(i) == {j \in DOMAIN log : i < j /\ log[j].looked < i}

Behind(i) == {t \in Threads : stage[t] \in {"publish", "append"} /\ work[t].looked < i}

OverlapCounts ==
    \A i \in DOMAIN log :
        Cardinality(OverlappingRows(i)) + Cardinality(Behind(i)) < Cardinality(Threads)

LEMMA OverlapsAreFinite ==
    ASSUME TypeOK, IsFiniteSet(Threads), NEW i
    PROVE  /\ IsFiniteSet(OverlappingRows(i)) /\ Cardinality(OverlappingRows(i)) \in Nat
           /\ IsFiniteSet(Behind(i)) /\ Cardinality(Behind(i)) \in Nat
           /\ Cardinality(Threads) \in Nat
<1>1. DOMAIN log = 1 .. Len(log) /\ Len(log) \in Nat
  BY DEF TypeOK
<1>2. IsFiniteSet(1 .. Len(log)) /\ OverlappingRows(i) \subseteq 1 .. Len(log)
  BY <1>1, FS_Interval DEF OverlappingRows
<1>3. Behind(i) \subseteq Threads
  BY DEF Behind
<1> QED
  BY <1>2, <1>3, FS_Subset, FS_CardinalityType

\* A step that appends nothing and after which nobody else is behind a row.
LEMMA OverlapsStay ==
    ASSUME TypeOK, OverlapCounts, IsFiniteSet(Threads), log' = log,
           \A i \in DOMAIN log : Behind(i)' \subseteq Behind(i)
    PROVE  OverlapCounts'
<1> SUFFICES ASSUME NEW i \in DOMAIN log
             PROVE  Cardinality(OverlappingRows(i)') + Cardinality(Behind(i)')
                      < Cardinality(Threads)
  BY DEF OverlapCounts
<1>1. OverlappingRows(i)' = OverlappingRows(i)
  BY DEF OverlappingRows
<1>2. PICK fewer : fewer = Behind(i)'
  OBVIOUS
<1>3. Cardinality(fewer) \in Nat /\ Cardinality(fewer) <= Cardinality(Behind(i))
  BY <1>2, OverlapsAreFinite, FS_Subset, FS_CardinalityType
<1>4. Cardinality(OverlappingRows(i)) + Cardinality(Behind(i)) < Cardinality(Threads)
  BY DEF OverlapCounts
<1> QED
  BY <1>1, <1>2, <1>3, <1>4, OverlapsAreFinite

\* An appended row is overlapped by requests of other threads only, and counts
\* once for each row its own request was behind.
LEMMA OverlapsAppend ==
    ASSUME TypeOK, OverlapCounts, IsFiniteSet(Threads), NEW t \in Threads,
           stage[t] = "append", log' = Append(log, work[t]),
           stage'[t] \notin {"publish", "append"},
           \A u \in Threads : u # t => stage'[u] = stage[u] /\ work'[u] = work[u]
    PROVE  OverlapCounts'
<1> PICK r, longer, n : r = work[t] /\ longer = log' /\ n = Len(log) + 1
  OBVIOUS
<1>1. /\ r \in Row /\ r.looked \in Nat
      /\ log \in Seq(Row) /\ Len(log) \in Nat /\ DOMAIN log = 1 .. Len(log)
  BY DEF TypeOK, Row
<1>2. /\ DOMAIN longer = DOMAIN log \cup {n} /\ n \notin DOMAIN log
      /\ longer[n] = r /\ \A i \in DOMAIN log : longer[i] = log[i] /\ i < n
  BY <1>1
<1>3. ASSUME NEW i \in DOMAIN longer
      PROVE  Cardinality(OverlappingRows(i)') + Cardinality(Behind(i)') < Cardinality(Threads)
  <2>1. PICK rows, now : rows = OverlappingRows(i)' /\ now = Behind(i)'
    OBVIOUS
  <2>2. rows = {j \in DOMAIN longer : i < j /\ longer[j].looked < i}
    BY <2>1 DEF OverlappingRows
  <2>3. now \subseteq Threads \ {t}
    BY <2>1 DEF Behind
  <2>4. CASE i = n
    <3>1. rows = {}
      BY <1>1, <1>2, <2>2, <2>4
    <3>2. /\ IsFiniteSet(Threads \ {t})
          /\ Cardinality(Threads \ {t}) = Cardinality(Threads) - 1
      BY FS_RemoveElement
    <3>3. Cardinality(now) \in Nat /\ Cardinality(now) <= Cardinality(Threads) - 1
      BY <2>3, <3>2, FS_Subset, FS_CardinalityType
    <3>4. Cardinality(rows) = 0
      BY <3>1, FS_EmptySet
    <3> QED
      BY <2>1, <3>3, <3>4, FS_CardinalityType
  <2>5. CASE i \in DOMAIN log
    <3>1. Cardinality(OverlappingRows(i)) + Cardinality(Behind(i)) < Cardinality(Threads)
      BY <2>5 DEF OverlapCounts
    <3>2. now \subseteq Behind(i) \ {t}
      BY <2>1, <2>3 DEF Behind
    <3>3. CASE r.looked < i
      <4>1. rows = OverlappingRows(i) \cup {n} /\ n \notin OverlappingRows(i)
        BY <1>2, <2>2, <2>5, <3>3 DEF OverlappingRows
      <4>2. t \in Behind(i)
        BY <3>3 DEF Behind
      <4>3. Cardinality(rows) = Cardinality(OverlappingRows(i)) + 1
        BY <4>1, OverlapsAreFinite, FS_AddElement
      <4>4. /\ IsFiniteSet(Behind(i) \ {t})
            /\ Cardinality(Behind(i) \ {t}) = Cardinality(Behind(i)) - 1
        BY <4>2, OverlapsAreFinite, FS_RemoveElement
      <4>5. Cardinality(now) \in Nat /\ Cardinality(now) <= Cardinality(Behind(i)) - 1
        BY <3>2, <4>4, FS_Subset, FS_CardinalityType
      <4> QED
        BY <2>1, <3>1, <4>3, <4>5, OverlapsAreFinite
    <3>4. CASE ~(r.looked < i)
      <4>1. rows = OverlappingRows(i)
        BY <1>2, <2>2, <2>5, <3>4 DEF OverlappingRows
      <4>2. now \subseteq Behind(i)
        BY <3>2
      <4>3. Cardinality(now) \in Nat /\ Cardinality(now) <= Cardinality(Behind(i))
        BY <4>2, OverlapsAreFinite, FS_Subset, FS_CardinalityType
      <4> QED
        BY <2>1, <3>1, <4>1, <4>3, OverlapsAreFinite
    <3> QED
      BY <3>3, <3>4
  <2> QED
    BY <1>2, <2>4, <2>5
<1> QED
  BY <1>3 DEF OverlapCounts

\* A request begins with the whole file read; from then on only appends of
\* other threads put it behind.
LEMMA OverlapsStep ==
    ASSUME TypeOK, OverlapCounts, IsFiniteSet(Threads), [Next]_outboxVars
    PROVE  OverlapCounts'
<1>1. /\ stage \in [Threads -> Stages] /\ work \in [Threads -> Row \cup {NoRow}]
      /\ log \in Seq(Row) /\ Len(log) \in Nat /\ DOMAIN log = 1 .. Len(log)
  BY DEF TypeOK
<1>2. ASSUME log' = log,
             \A u \in Threads : stage'[u] \in {"publish", "append"} =>
                \/ stage[u] \in {"publish", "append"} /\ work'[u] = work[u]
                \/ work'[u].looked = Len(log)
      PROVE  OverlapCounts'
  <2>1. \A i \in DOMAIN log : Behind(i)' \subseteq Behind(i)
    BY <1>1, <1>2 DEF Behind
  <2> QED
    BY <1>2, <2>1, OverlapsStay
<1>3. ASSUME NEW t \in Threads, NEW row, NEW next, row.looked = Len(log), Begin(t, row, next)
      PROVE  OverlapCounts'
  <2>1. log' = log /\ work'[t] = row
        /\ \A u \in Threads : u # t => stage'[u] = stage[u] /\ work'[u] = work[u]
    BY <1>1, <1>3 DEF Begin
  <2> QED
    BY <1>2, <1>3, <2>1
<1>4. ASSUME NEW d \in Dispatches, NEW i \in FindDispatch(d), NEW kind, NEW status, NEW approval
      PROVE  CopyOf(i, kind, status, approval).looked = Len(log)
  <2>1. log[i] \in Row
    BY <1>1 DEF FindDispatch, Matching, LatestDispatches
  <2> QED
    BY <2>1 DEF CopyOf, Row
<1>5. ASSUME NEW t \in Threads, Request(t)
      PROVE  OverlapCounts'
  <2>1. ASSUME NEW d \in Dispatches, CreateDispatch(t, d)
        PROVE  OverlapCounts'
    <3>1. CreationRow(d).looked = Len(log)
      BY DEF CreationRow
    <3> QED
      BY <1>3, <2>1, <3>1 DEF CreateDispatch
  <2>2. ASSUME NEW d \in Dispatches, Acknowledge(t, d)
        PROVE  OverlapCounts'
    BY <1>3, <1>4, <2>2 DEF Acknowledge
  <2>3. ASSUME NEW d \in Dispatches, NEW decision \in Decisions, DecideApproval(t, d, decision)
        PROVE  OverlapCounts'
    BY <1>3, <1>4, <2>3 DEF DecideApproval
  <2> QED
    BY <1>5, <2>1, <2>2, <2>3 DEF Request
<1>6. ASSUME NEW t \in Threads, Publish(t)
      PROVE  OverlapCounts'
  <2>1. log' = log /\ work' = work /\ stage[t] = "publish"
        /\ \A u \in Threads : u # t => stage'[u] = stage[u]
    BY <1>1, <1>6 DEF Publish, Advance
  <2> QED
    BY <1>2, <2>1
\* The end of the part of a request that appends: with its row, or without.
<1>7. ASSUME NEW t \in Threads, stage[t] = "append", stage'[t] \in {"event", "idle"},
             \A u \in Threads : u # t => stage'[u] = stage[u] /\ work'[u] = work[u],
             log' = log \/ log' = Append(log, work[t])
      PROVE  OverlapCounts'
  <2>1. CASE log' = log
    BY <1>2, <1>7, <2>1
  <2>2. CASE log' = Append(log, work[t])
    BY <1>7, <2>2, OverlapsAppend
  <2> QED
    BY <1>7, <2>1, <2>2
<1>8. ASSUME NEW t \in Threads, PersistDispatch(t) \/ AppendUpdate(t)
      PROVE  OverlapCounts'
  <2>1. /\ stage[t] = "append" /\ stage'[t] \in {"event", "idle"}
        /\ \A u \in Threads : u # t => stage'[u] = stage[u] /\ work'[u] = work[u]
    BY <1>1, <1>8 DEF PersistDispatch, AppendUpdate, Advance, Finish
  <2>2. log' = log \/ log' = Append(log, work[t])
    BY <1>8 DEF PersistDispatch, AppendUpdate, AppendRow
  <2> QED
    BY <1>7, <2>1, <2>2
<1>9. ASSUME NEW t \in Threads, RecordEvent(t)
      PROVE  OverlapCounts'
  <2>1. log' = log /\ stage'[t] = "idle"
        /\ \A u \in Threads : u # t => stage'[u] = stage[u] /\ work'[u] = work[u]
    BY <1>1, <1>9 DEF RecordEvent, Finish
  <2> QED
    BY <1>2, <2>1
<1>10. CASE Restart
  <2>1. log' = log /\ \A u \in Threads : stage'[u] = "idle"
    BY <1>10 DEF Restart
  <2> QED
    BY <1>2, <2>1
<1>11. CASE UNCHANGED outboxVars
  BY <1>2, <1>11 DEF outboxVars
<1> QED
  BY <1>5, <1>6, <1>8, <1>9, <1>10, <1>11 DEF Next, ThreadStep

\* What repeats or overlooks a row overlapped it.
LEMMA OverlapsBound ==
    ASSUME IsFiniteSet(Threads), LookupInv, OverlapCounts
    PROVE  DuplicatesBoundedByThreads /\ LostUpdatesBounded
<1>1. TypeOK /\ DOMAIN log = 1 .. Len(log) /\ Len(log) \in Nat
  BY DEF LookupInv, TypeOK
<1>2. \A j \in DOMAIN log : log[j].looked \in Nat /\ log[j].base \in Nat
                              /\ log[j].dispatch \in Dispatches
  <2> TAKE j \in DOMAIN log
  <2>1. log \in Seq(Row)
    BY <1>1 DEF TypeOK
  <2>2. log[j] \in Row
    BY <1>1, <2>1
  <2> QED
    BY <2>2 DEF Row
<1>3. RowLimit(DedupeLookback) \in Nat /\ RowLimit(FindLookback) \in Nat
  BY RowLimitPositive, OutboxAssumption
<1>4. ASSUME NEW i \in DOMAIN log
      PROVE  CreationsAfter(i) \subseteq OverlappingRows(i)
  <2> SUFFICES ASSUME NEW j \in CreationsAfter(i), i <= log[j].looked
               PROVE  FALSE
    BY <1>1, <1>2 DEF CreationsAfter, OverlappingRows
  <2>1. /\ j \in DOMAIN log /\ j < i + RowLimit(DedupeLookback)
        /\ log[j].kind = "dispatch" /\ log[j].dispatch = log[i].dispatch
    BY DEF CreationsAfter
  <2>2. /\ log[j].looked < j
        /\ SeenAt(log, log[j].dispatch, log[j].looked, DedupeLookback) = {}
    BY <2>1 DEF LookupInv, CreationSawNoDuplicate
  <2>3. i + RowLimit(DedupeLookback) > log[j].looked
    BY <1>1, <1>2, <1>3, <2>1, <2>2
  <2> QED
    BY <2>1, <2>2, <2>3 DEF SeenAt
<1>5. ASSUME NEW i \in DOMAIN log
      PROVE  UpdatesOverlooking(i) \subseteq OverlappingRows(i)
  <2> SUFFICES ASSUME NEW j \in UpdatesOverlooking(i), i <= log[j].looked
               PROVE  FALSE
    BY <1>1, <1>2 DEF UpdatesOverlooking, OverlappingRows
  <2>1. /\ j \in DOMAIN log /\ log[j].base < i
        /\ log[j].kind # "dispatch" /\ log[j].dispatch = log[i].dispatch
    BY DEF UpdatesOverlooking
  <2> DEFINE seen == SeenAt(log, log[j].dispatch, log[j].looked, FindLookback)
  <2>2. log[j].base \in seen /\ \A k \in seen : k <= log[j].base
    BY <2>1 DEF LookupInv, UpdateExtendsNewestSeenRow
  <2>3. log[j].base + RowLimit(FindLookback) > log[j].looked
    BY <2>2 DEF SeenAt
  <2>4. i + RowLimit(FindLookback) > log[j].looked
    BY <1>1, <1>2, <1>3, <2>1, <2>3
  <2>5. i \in seen
    BY <2>1, <2>4 DEF SeenAt
  <2> QED
    BY <1>1, <1>2, <2>1, <2>2, <2>5
<1>6. ASSUME NEW i \in DOMAIN log, NEW S, S \subseteq OverlappingRows(i)
      PROVE  Cardinality(S) < Cardinality(Threads)
  <2>1. Cardinality(OverlappingRows(i)) + Cardinality(Behind(i)) < Cardinality(Threads)
    BY DEF OverlapCounts
  <2>2. Cardinality(S) \in Nat /\ Cardinality(S) <= Cardinality(OverlappingRows(i))
    BY <1>1, <1>6, OverlapsAreFinite, FS_Subset, FS_CardinalityType
  <2> QED
    BY <1>1, <2>1, <2>2, OverlapsAreFinite
<1> QED
  BY <1>4, <1>5, <1>6 DEF DuplicatesBoundedByThreads, LostUpdatesBounded

\* A row is overlapped by at most one other row or request per other thread,
\* however the requests interleave, whatever fails and however often the process
\* restarts: each thread works on one request, and reads the file anew for the next.
THEOREM OverlapsAreBounded ==
    ASSUME IsFiniteSet(Threads)
    PROVE  Spec => []OverlapCounts
<1>1. Init => OverlapCounts
  BY DEF Init, OverlapCounts
<1>2. TypeOK /\ OverlapCounts /\ [Next]_outboxVars => OverlapCounts'
  BY OverlapsStep
<1> QED
  BY <1>1, <1>2, TypeCorrect, PTL DEF Spec

\* After any row about a payload, the rows a lookup can see hold at most one more
\* creation of it per other thread, also in a file longer than the window.
THEOREM DuplicatesAreBounded ==
    ASSUME IsFiniteSet(Threads)
    PROVE  Spec => []DuplicatesBoundedByThreads
<1>1. LookupInv /\ OverlapCounts => DuplicatesBoundedByThreads
  BY OverlapsBound
<1>2. Spec => []OverlapCounts
  BY OverlapsAreBounded
<1> QED
  BY <1>1, <1>2, LookupInvariant, PTL

\* An acknowledgement or a decision is overlooked by at most one later update per
\* other thread; with one thread, by none.
THEOREM LostUpdatesAreBounded ==
    ASSUME IsFiniteSet(Threads)
    PROVE  Spec => []LostUpdatesBounded
<1>1. LookupInv /\ OverlapCounts => LostUpdatesBounded
  BY OverlapsBound
<1>2. Spec => []OverlapCounts
  BY OverlapsAreBounded
<1> QED
  BY <1>1, <1>2, LookupInvariant, PTL

\* The duplicates of the lookback finding need either two requests at once or a
\* file longer than the window: without both, every key is created once.
THEOREM OneThreadCreatesOnce ==
    ASSUME NEW t, Threads = {t}
    PROVE  Spec => [](Len(log) <= RowLimit(DedupeLookback) => OneCreationPerKey)
<1>1. IsFiniteSet(Threads) /\ Cardinality(Threads) = 1
  BY FS_Singleton
<1>2. TypeOK /\ DuplicatesBoundedByThreads
        => (Len(log) <= RowLimit(DedupeLookback) => OneCreationPerKey)
  <2> SUFFICES ASSUME TypeOK, DuplicatesBoundedByThreads, Len(log) <= RowLimit(DedupeLookback),
                      NEW i \in DOMAIN log, NEW j \in DOMAIN log, i < j,
                      log[i].kind = "dispatch", log[j].kind = "dispatch",
                      log[i].dispatch = log[j].dispatch
               PROVE  FALSE
    <3>1. TypeOK => DOMAIN log \subseteq Nat
      BY DEF TypeOK
    <3> QED
      BY <3>1 DEF OneCreationPerKey
  <2>1. DOMAIN log = 1 .. Len(log) /\ Len(log) \in Nat
    BY DEF TypeOK
  <2>2. RowLimit(DedupeLookback) \in Nat
    BY RowLimitPositive, OutboxAssumption
  <2> PICK S : S = CreationsAfter(i)
    OBVIOUS
  <2>3. j \in S
    BY <2>1, <2>2 DEF CreationsAfter
  <2>4. S \subseteq 1 .. Len(log)
    BY <2>1 DEF CreationsAfter
  <2>5. IsFiniteSet(S) /\ Cardinality(S) \in Nat
    <3>1. IsFiniteSet(1 .. Len(log))
      BY <2>1, FS_Interval
    <3> QED
      BY <2>4, <3>1, FS_Subset, FS_CardinalityType
  <2>6. Cardinality(S) = 0
    BY <1>1, <2>5 DEF DuplicatesBoundedByThreads
  <2> QED
    BY <2>3, <2>5, <2>6, FS_EmptySet
<1>3. Spec => []DuplicatesBoundedByThreads
  BY <1>1, DuplicatesAreBounded
<1> QED
  BY <1>2, <1>3, TypeCorrect, PTL
=============================================================================
