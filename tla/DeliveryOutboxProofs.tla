------------------------ MODULE DeliveryOutboxProofs ------------------------
(***************************************************************************)
(* Theorems about DeliveryOutbox for every set of threads and payloads,    *)
(* every approval policy and every window size.                            *)
(***************************************************************************)
EXTENDS DeliveryOutbox, TLAPS

(***************************************************************************)
(* TypeOK is inductive.                                                    *)
(***************************************************************************)

\* The copy an update works on is a row.
LEMMA CopyIsRow ==
    ASSUME TypeOK, NEW i \in DOMAIN log, NEW kind \in Kinds, NEW status \in Statuses,
           NEW approval \in Decisions \cup {"none"}
    PROVE  CopyOf(i, kind, status, approval) \in Row
<1>1. log[i] \in Row /\ i \in Nat /\ Len(log) \in Nat
  BY DEF TypeOK
<1> QED
  BY <1>1 DEF CopyOf, Row

\* The row a creation starts from is a row.
LEMMA CreationRowIsRow ==
    ASSUME TypeOK, NEW d \in Dispatches
    PROVE  CreationRow(d) \in Row
<1>1. Len(log) \in Nat
  BY DEF TypeOK
<1>2. DispatchStatus(d) \in Statuses
  BY DEF DispatchStatus, InitialStatus, Statuses
<1> QED
  BY <1>1, <1>2 DEF CreationRow, Row, Kinds

\* Starting a request with a row keeps the types.
LEMMA BeginType ==
    ASSUME TypeOK, NEW t \in Threads, NEW row \in Row,
           NEW next \in Stages \ {"idle"}, Begin(t, row, next)
    PROVE  TypeOK'
BY DEF TypeOK, Begin

\* So does every step of a request in flight.
LEMMA ThreadStepType ==
    ASSUME TypeOK, NEW t \in Threads, ThreadStep(t)
    PROVE  TypeOK'
<1>1. CASE Publish(t)
  <2>1. <<work[t].dispatch, work[t].kind>> \in Dispatches \X Kinds
    BY <1>1 DEF Publish, TypeOK, Row
  <2> QED
    BY <1>1, <2>1 DEF Publish, Advance, TypeOK, Stages
<1>2. CASE PersistDispatch(t)
  <2>1. work[t] \in Row
    BY <1>2 DEF PersistDispatch, TypeOK
  <2>2. log' \in Seq(Row)
    BY <1>2, <2>1 DEF PersistDispatch, AppendRow, TypeOK
  <2> QED
    BY <1>2, <2>1, <2>2 DEF PersistDispatch, Advance, Finish, TypeOK, Stages
<1>3. CASE AppendUpdate(t)
  <2>1. work[t] \in Row
    BY <1>3 DEF AppendUpdate, TypeOK
  <2>2. log' \in Seq(Row)
    BY <1>3, <2>1 DEF AppendUpdate, AppendRow, TypeOK
  <2> QED
    BY <1>3, <2>1, <2>2 DEF AppendUpdate, Advance, Finish, TypeOK, Stages
<1>4. CASE RecordEvent(t)
  <2>1. <<work[t].dispatch, work[t].kind>> \in Dispatches \X EventKinds
    BY <1>4 DEF RecordEvent, TypeOK, Row, EventKinds
  <2> QED
    BY <1>4, <2>1 DEF RecordEvent, Finish, TypeOK, Stages
<1> QED
  BY <1>1, <1>2, <1>3, <1>4 DEF ThreadStep

\* And every way a request may start.
LEMMA RequestType ==
    ASSUME TypeOK, NEW t \in Threads, Request(t)
    PROVE  TypeOK'
<1>1. PICK d \in Dispatches :
        \/ CreateDispatch(t, d)
        \/ Acknowledge(t, d)
        \/ \E decision \in Decisions : DecideApproval(t, d, decision)
  BY DEF Request
<1>2. \A i \in FindDispatch(d) : i \in DOMAIN log /\ log[i] \in Row
  BY DEF TypeOK, FindDispatch, Matching, LatestDispatches
<1>3. CASE CreateDispatch(t, d)
  BY <1>3, CreationRowIsRow, BeginType DEF CreateDispatch, Stages
<1>4. CASE Acknowledge(t, d)
  <2>1. PICK i \in FindDispatch(d) :
          Begin(t, CopyOf(i, "acknowledgement", "acknowledged", log[i].approval), "append")
    BY <1>4 DEF Acknowledge
  <2>2. CopyOf(i, "acknowledgement", "acknowledged", log[i].approval) \in Row
    BY <1>2, CopyIsRow DEF Row, Kinds, Statuses
  <2> QED
    BY <2>1, <2>2, BeginType DEF Stages
<1>5. CASE \E decision \in Decisions : DecideApproval(t, d, decision)
  <2>1. PICK decision \in Decisions, i \in FindDispatch(d) :
          Begin(t, CopyOf(i, "approvalDecision", DecisionStatus(decision), decision), "publish")
    BY <1>5 DEF DecideApproval
  <2>2. CopyOf(i, "approvalDecision", DecisionStatus(decision), decision) \in Row
    BY <1>2, CopyIsRow DEF Kinds, Statuses, DecisionStatus
  <2> QED
    BY <2>1, <2>2, BeginType DEF Stages
<1> QED
  BY <1>1, <1>3, <1>4, <1>5

\* Every reachable state of the outbox is well-typed.
THEOREM TypeCorrect == Spec => []TypeOK
<1>1. Init => TypeOK
  BY DEF Init, TypeOK, Stages
<1>2. TypeOK /\ [Next]_outboxVars => TypeOK'
  <2> SUFFICES ASSUME TypeOK, [Next]_outboxVars PROVE TypeOK'
    OBVIOUS
  <2>1. CASE Restart
    BY <2>1 DEF Restart, TypeOK, Stages
  <2>2. CASE \E t \in Threads : Request(t) \/ ThreadStep(t)
    BY <2>2, RequestType, ThreadStepType
  <2>3. CASE UNCHANGED outboxVars
    BY <2>3 DEF outboxVars, TypeOK
  <2> QED
    BY <2>1, <2>2, <2>3 DEF Next
<1> QED
  BY <1>1, <1>2, PTL DEF Spec

-----------------------------------------------------------------------------
(***************************************************************************)
(* The lookup invariants.  An invariant about the rows in the file is not  *)
(* inductive alone: what a request will append was decided when it read    *)
(* the file, so the invariant must also say what the requests in flight    *)
(* still know (InFlightAgreesWithItsRead).                                 *)
(***************************************************************************)
LookupInv ==
    /\ TypeOK
    /\ CreationSawNoDuplicate
    /\ UpdateExtendsNewestSeenRow
    /\ UpdateEventsAreDurable
    /\ InFlightAgreesWithItsRead

\* The clamp lets every reader see at least one row.
LEMMA RowLimitPositive ==
    ASSUME NEW limit \in Nat
    PROVE  RowLimit(limit) \in Nat /\ RowLimit(limit) > 0
BY OutboxAssumption DEF RowLimit

\* Appending a row leaves every earlier row, and what a reader of an earlier
\* length saw, as it was.
LEMMA AppendKeepsReads ==
    ASSUME TypeOK, NEW r \in Row, log' = Append(log, r)
    PROVE  /\ Len(log') = Len(log) + 1
           /\ DOMAIN log' = DOMAIN log \cup {Len(log) + 1}
           /\ \A i \in DOMAIN log : log'[i] = log[i]
           /\ log'[Len(log) + 1] = r
           /\ \A d \in Dispatches, n \in Nat, limit \in Nat :
                n <= Len(log) => SeenAt(log', d, n, limit) = SeenAt(log, d, n, limit)
<1>1. log \in Seq(Row)
  BY DEF TypeOK
<1>2. /\ Len(log') = Len(log) + 1
      /\ DOMAIN log' = DOMAIN log \cup {Len(log) + 1}
      /\ \A i \in DOMAIN log : log'[i] = log[i]
      /\ log'[Len(log) + 1] = r
  BY <1>1
<1>3. ASSUME NEW d \in Dispatches, NEW n \in Nat, NEW limit \in Nat, n <= Len(log)
      PROVE  SeenAt(log', d, n, limit) = SeenAt(log, d, n, limit)
  <2>1. Len(log) \in Nat /\ DOMAIN log = 1 .. Len(log)
    BY <1>1
  <2>2. \A i : i \in SeenAt(log', d, n, limit) <=> i \in SeenAt(log, d, n, limit)
    BY <1>2, <1>3, <2>1 DEF SeenAt, RowLimit
  <2> QED
    BY <2>2
<1> QED
  BY <1>2, <1>3

\* What a lookup reads now is what SeenAt says of the present length.
LEMMA MatchingIsSeen ==
    ASSUME TypeOK, NEW d \in Dispatches, NEW limit \in Nat
    PROVE  Matching(d, limit) = SeenAt(log, d, Len(log), limit)
<1>1. Len(log) \in Nat /\ DOMAIN log = 1 .. Len(log)
  BY DEF TypeOK
<1> QED
  BY <1>1 DEF Matching, LatestDispatches, SeenAt

\* Starting a request whose row fits what the file says now keeps LookupInv.
LEMMA BeginLookup ==
    ASSUME LookupInv, NEW t \in Threads, NEW row \in Row,
           NEW next \in Stages \ {"idle", "event"}, Begin(t, row, next),
           row.looked = Len(log),
           row.kind = "dispatch" => SeenAt(log, row.dispatch, row.looked, DedupeLookback) = {},
           row.kind # "dispatch" =>
             /\ row.base \in SeenAt(log, row.dispatch, row.looked, FindLookback)
             /\ \A i \in SeenAt(log, row.dispatch, row.looked, FindLookback) : i <= row.base
             /\ row.kind = "acknowledgement" => row.approval = log[row.base].approval
    PROVE  LookupInv'
<1>1. TypeOK'
  BY BeginType DEF LookupInv
<1>2. log' = log /\ events' = events
  BY DEF Begin
<1>3. \A d, n, limit : SeenAt(log', d, n, limit) = SeenAt(log, d, n, limit)
  BY <1>2 DEF SeenAt, RowLimit
<1>4. CreationSawNoDuplicate' /\ UpdateExtendsNewestSeenRow' /\ UpdateEventsAreDurable'
  BY <1>2, <1>3 DEF LookupInv, CreationSawNoDuplicate, UpdateExtendsNewestSeenRow,
                    UpdateEventsAreDurable
<1>5. ASSUME NEW u \in Threads, stage'[u] # "idle"
      PROVE  InFlight(u)'
  <2>1. Len(log) \in Nat
    BY DEF LookupInv, TypeOK
  <2>2. CASE u = t
    <3>1. work'[u] = row /\ stage'[u] = next
      BY <2>2 DEF Begin, LookupInv, TypeOK
    <3> QED
      BY <1>2, <1>3, <2>1, <3>1 DEF InFlight
  <2>3. CASE u # t
    <3>1. work'[u] = work[u] /\ stage'[u] = stage[u]
      BY <2>3 DEF Begin, LookupInv, TypeOK
    <3>2. InFlight(u)
      BY <1>5, <3>1 DEF LookupInv, InFlightAgreesWithItsRead
    <3> QED
      BY <1>2, <1>3, <3>1, <3>2 DEF InFlight
  <2> QED
    BY <2>2, <2>3
<1>6. InFlightAgreesWithItsRead'
  BY <1>5 DEF InFlightAgreesWithItsRead
<1> QED
  BY <1>1, <1>4, <1>6 DEF LookupInv

\* Every way a request may start keeps LookupInv.
LEMMA RequestLookup ==
    ASSUME LookupInv, NEW t \in Threads, Request(t)
    PROVE  LookupInv'
<1> USE DEF LookupInv
<1>1. PICK d \in Dispatches :
        \/ CreateDispatch(t, d)
        \/ Acknowledge(t, d)
        \/ \E decision \in Decisions : DecideApproval(t, d, decision)
  BY DEF Request
<1>2. FindLookback \in Nat /\ DedupeLookback \in Nat
  BY OutboxAssumption
<1>3. CASE CreateDispatch(t, d)
  <2>1. SeenAt(log, d, Len(log), DedupeLookback) = {}
    BY <1>2, <1>3, MatchingIsSeen DEF CreateDispatch, HasDuplicate
  <2>2. CreationRow(d) \in Row
    BY CreationRowIsRow
  <2>3. /\ CreationRow(d).dispatch = d
        /\ CreationRow(d).kind = "dispatch"
        /\ CreationRow(d).looked = Len(log)
    BY DEF CreationRow
  <2>4. PICK next \in {"publish", "append"} : Begin(t, CreationRow(d), next)
    BY <1>3 DEF CreateDispatch
  <2> QED
    BY <2>1, <2>2, <2>3, <2>4, BeginLookup DEF Stages
<1>4. ASSUME NEW i \in FindDispatch(d), NEW kind \in Kinds \ {"dispatch"},
             NEW status \in Statuses, NEW approval \in Decisions \cup {"none"},
             NEW next \in {"publish", "append"},
             Begin(t, CopyOf(i, kind, status, approval), next),
             kind = "acknowledgement" => approval = log[i].approval
      PROVE  LookupInv'
  <2> DEFINE row == CopyOf(i, kind, status, approval)
  <2>1. i \in DOMAIN log /\ log[i] \in Row /\ log[i].dispatch = d
    BY DEF FindDispatch, Matching, LatestDispatches, TypeOK
  <2>2. row \in Row
    BY <2>1, CopyIsRow
  <2>3. /\ row.dispatch = d /\ row.kind = kind /\ row.approval = approval
        /\ row.base = i /\ row.looked = Len(log)
    BY <2>1 DEF CopyOf, Row
  <2>4. Matching(d, FindLookback) = SeenAt(log, d, Len(log), FindLookback)
    BY <1>2, MatchingIsSeen
  <2>5. i \in SeenAt(log, d, Len(log), FindLookback)
        /\ \A j \in SeenAt(log, d, Len(log), FindLookback) : j <= i
    BY <2>4 DEF FindDispatch
  <2> HIDE DEF row
  <2> QED
    BY <1>4, <2>2, <2>3, <2>5, BeginLookup DEF Stages, row
<1>5. CASE Acknowledge(t, d)
  <2>1. PICK i \in FindDispatch(d) :
          Begin(t, CopyOf(i, "acknowledgement", "acknowledged", log[i].approval), "append")
    BY <1>5 DEF Acknowledge
  <2>2. i \in DOMAIN log
    BY DEF FindDispatch, Matching, LatestDispatches
  <2>3. log[i] \in Row
    BY <2>2 DEF TypeOK
  <2>4. log[i].approval \in Decisions \cup {"none"}
    BY <2>3 DEF Row
  <2> QED
    BY <1>4, <2>1, <2>4 DEF Kinds, Statuses
<1>6. CASE \E decision \in Decisions : DecideApproval(t, d, decision)
  <2>1. PICK decision \in Decisions, i \in FindDispatch(d) :
          Begin(t, CopyOf(i, "approvalDecision", DecisionStatus(decision), decision), "publish")
    BY <1>6 DEF DecideApproval
  <2> QED
    BY <1>4, <2>1 DEF Kinds, Statuses, DecisionStatus
<1> QED
  BY <1>1, <1>3, <1>5, <1>6

\* A step that leaves the file alone, and gives no thread a row it did not
\* have, keeps what is known about the requests in flight.
LEMMA QuietLookup ==
    ASSUME LookupInv, log' = log, TypeOK', UpdateEventsAreDurable',
           \A u \in Threads :
              stage'[u] # "idle" =>
                  /\ stage[u] # "idle"
                  /\ work'[u] = work[u]
                  /\ stage'[u] = "event" => stage[u] = "event" \/ work[u].kind = "dispatch"
    PROVE  LookupInv'
<1>1. \A d, n, limit : SeenAt(log', d, n, limit) = SeenAt(log, d, n, limit)
  BY DEF SeenAt, RowLimit
<1>2. CreationSawNoDuplicate' /\ UpdateExtendsNewestSeenRow'
  BY <1>1 DEF LookupInv, CreationSawNoDuplicate, UpdateExtendsNewestSeenRow
<1>3. ASSUME NEW u \in Threads, stage'[u] # "idle"
      PROVE  InFlight(u)'
  <2>1. InFlight(u) /\ work'[u] = work[u]
    BY <1>3 DEF LookupInv, InFlightAgreesWithItsRead
  <2> QED
    BY <1>1, <1>3, <2>1 DEF InFlight
<1> QED
  BY <1>2, <1>3 DEF LookupInv, InFlightAgreesWithItsRead

\* Appending the row of a request in flight keeps LookupInv.
LEMMA AppendLookup ==
    ASSUME LookupInv, NEW t \in Threads, stage[t] = "append", AppendRow(t), TypeOK',
           events' = events,
           \A u \in Threads :
              stage'[u] # "idle" =>
                  /\ stage[u] # "idle"
                  /\ work'[u] = work[u]
                  /\ stage'[u] = "event" => stage[u] = "event" \/ u = t
    PROVE  LookupInv'
<1> DEFINE r == work[t]
           N == Len(log) + 1
<1>1. r \in Row /\ InFlight(t) /\ Len(log) \in Nat /\ DOMAIN log = 1 .. Len(log)
  BY DEF LookupInv, TypeOK, InFlightAgreesWithItsRead
<1>2. log' = Append(log, r)
  BY DEF AppendRow
<1>3. /\ Len(log') = N
      /\ DOMAIN log' = DOMAIN log \cup {N}
      /\ \A i \in DOMAIN log : log'[i] = log[i]
      /\ log'[N] = r
      /\ \A d \in Dispatches, n \in Nat, limit \in Nat :
           n <= Len(log) => SeenAt(log', d, n, limit) = SeenAt(log, d, n, limit)
  BY <1>1, <1>2, AppendKeepsReads DEF LookupInv
<1>4. FindLookback \in Nat /\ DedupeLookback \in Nat
  BY OutboxAssumption
<1>5. \A i \in DOMAIN log : log[i] \in Row
  BY DEF LookupInv, TypeOK
<1>6. CreationSawNoDuplicate'
  <2> SUFFICES ASSUME NEW j \in DOMAIN log', log'[j].kind = "dispatch"
               PROVE  /\ log'[j].looked < j
                      /\ SeenAt(log', log'[j].dispatch, log'[j].looked, DedupeLookback) = {}
    BY DEF CreationSawNoDuplicate
  <2>1. CASE j = N
    BY <1>1, <1>3, <1>4, <2>1 DEF InFlight, Row
  <2>2. CASE j \in DOMAIN log
    <3>1. log'[j] = log[j] /\ log[j] \in Row
      BY <1>3, <1>5, <2>2
    <3>2. /\ log[j].looked < j
          /\ SeenAt(log, log[j].dispatch, log[j].looked, DedupeLookback) = {}
      BY <2>2, <3>1 DEF LookupInv, CreationSawNoDuplicate
    <3>3. log[j].dispatch \in Dispatches /\ log[j].looked \in Nat /\ log[j].looked <= Len(log)
      BY <1>1, <2>2, <3>1, <3>2 DEF Row
    <3> QED
      BY <1>3, <1>4, <3>1, <3>2, <3>3
  <2> QED
    BY <1>3, <2>1, <2>2
<1>7. ASSUME NEW row \in Row, row.looked <= Len(log), row.kind # "dispatch",
             row.base \in SeenAt(log, row.dispatch, row.looked, FindLookback),
             \A i \in SeenAt(log, row.dispatch, row.looked, FindLookback) : i <= row.base,
             row.kind = "acknowledgement" => row.approval = log[row.base].approval
      PROVE  /\ row.base \in SeenAt(log', row.dispatch, row.looked, FindLookback)
             /\ \A i \in SeenAt(log', row.dispatch, row.looked, FindLookback) : i <= row.base
             /\ row.kind = "acknowledgement" => row.approval = log'[row.base].approval
  <2>1. SeenAt(log', row.dispatch, row.looked, FindLookback)
          = SeenAt(log, row.dispatch, row.looked, FindLookback)
    BY <1>3, <1>4, <1>7 DEF Row
  <2>2. row.base \in DOMAIN log
    BY <1>7 DEF SeenAt
  <2> QED
    BY <1>3, <1>7, <2>1, <2>2
<1>8. UpdateExtendsNewestSeenRow'
  <2> SUFFICES ASSUME NEW j \in DOMAIN log', log'[j].kind # "dispatch"
               PROVE  LET row == log'[j] IN
                      /\ row.base \in SeenAt(log', row.dispatch, row.looked, FindLookback)
                      /\ \A i \in SeenAt(log', row.dispatch, row.looked, FindLookback) : i <= row.base
                      /\ row.looked < j
                      /\ row.kind = "acknowledgement" => row.approval = log'[row.base].approval
    BY DEF UpdateExtendsNewestSeenRow
  <2>1. CASE j = N
    <3>1. r.looked < N
      BY <1>1 DEF InFlight, Row
    <3> QED
      BY <1>1, <1>3, <1>7, <2>1, <3>1 DEF InFlight
  <2>2. CASE j \in DOMAIN log
    <3>1. log'[j] = log[j] /\ log[j] \in Row
      BY <1>3, <1>5, <2>2
    <3>2. /\ log[j].base \in SeenAt(log, log[j].dispatch, log[j].looked, FindLookback)
          /\ \A i \in SeenAt(log, log[j].dispatch, log[j].looked, FindLookback) : i <= log[j].base
          /\ log[j].looked < j
          /\ log[j].kind = "acknowledgement" => log[j].approval = log[log[j].base].approval
      BY <2>2, <3>1 DEF LookupInv, UpdateExtendsNewestSeenRow
    <3>3. log[j].looked <= Len(log)
      BY <1>1, <2>2, <3>1, <3>2 DEF Row
    <3> QED
      BY <1>7, <3>1, <3>2, <3>3
  <2> QED
    BY <1>3, <2>1, <2>2
<1>9. UpdateEventsAreDurable'
  BY <1>3 DEF LookupInv, UpdateEventsAreDurable
<1>10. ASSUME NEW u \in Threads, stage'[u] # "idle"
       PROVE  InFlight(u)'
  <2>1. InFlight(u) /\ work'[u] = work[u] /\ work[u] \in Row
    BY <1>10 DEF LookupInv, InFlightAgreesWithItsRead, TypeOK
  <2>2. work[u].looked <= Len(log) /\ work[u].looked \in Nat /\ work[u].dispatch \in Dispatches
    BY <2>1 DEF InFlight, Row
  <2>3. work[u].looked <= Len(log')
    BY <1>1, <1>3, <2>2
  <2>4. work[u].kind = "dispatch"
          => SeenAt(log', work[u].dispatch, work[u].looked, DedupeLookback) = {}
    BY <1>3, <1>4, <2>1, <2>2 DEF InFlight
  <2>5. work[u].kind # "dispatch" =>
          /\ work[u].base \in SeenAt(log', work[u].dispatch, work[u].looked, FindLookback)
          /\ \A i \in SeenAt(log', work[u].dispatch, work[u].looked, FindLookback) : i <= work[u].base
          /\ work[u].kind = "acknowledgement" => work[u].approval = log'[work[u].base].approval
    BY <1>7, <2>1, <2>2 DEF InFlight
  <2>6. ASSUME work[u].kind # "dispatch", stage'[u] = "event"
        PROVE  \E i \in DOMAIN log' : log'[i].dispatch = work[u].dispatch
                                      /\ log'[i].kind = work[u].kind
    <3>1. CASE u = t
      BY <1>3, <3>1
    <3>2. CASE u # t
      <4>1. PICK i \in DOMAIN log : log[i].dispatch = work[u].dispatch
                                   /\ log[i].kind = work[u].kind
        BY <1>10, <2>1, <2>6, <3>2 DEF InFlight
      <4> QED
        BY <1>3, <4>1
    <3> QED
      BY <3>1, <3>2
  <2> QED
    BY <2>1, <2>3, <2>4, <2>5, <2>6 DEF InFlight
<1> QED
  BY <1>6, <1>8, <1>9, <1>10 DEF LookupInv, InFlightAgreesWithItsRead

\* Every step of a request in flight keeps LookupInv.
LEMMA ThreadStepLookup ==
    ASSUME LookupInv, NEW t \in Threads, ThreadStep(t)
    PROVE  LookupInv'
<1>1. TypeOK'
  BY ThreadStepType DEF LookupInv
<1>2. stage \in [Threads -> Stages] /\ work \in [Threads -> Row \cup {NoRow}]
  BY DEF LookupInv, TypeOK
<1>3. CASE Publish(t)
  <2>1. UpdateEventsAreDurable'
    BY <1>3 DEF Publish, LookupInv, UpdateEventsAreDurable
  <2> QED
    BY <1>1, <1>2, <1>3, <2>1, QuietLookup DEF Publish, Advance
<1>4. CASE PersistDispatch(t)
  <2>1. \A u \in Threads :
          stage'[u] # "idle" =>
            /\ stage[u] # "idle"
            /\ work'[u] = work[u]
            /\ stage'[u] = "event" => stage[u] = "event" \/ u = t
    BY <1>2, <1>4 DEF PersistDispatch, Advance, Finish
  <2>2. CASE AppendRow(t)
    BY <1>1, <1>4, <2>1, <2>2, AppendLookup DEF PersistDispatch
  <2>3. CASE log' = log
    <3>1. UpdateEventsAreDurable'
      BY <1>4, <2>3 DEF PersistDispatch, LookupInv, UpdateEventsAreDurable
    <3>2. work[t].kind = "dispatch"
      BY <1>4 DEF PersistDispatch
    <3> QED
      BY <1>1, <2>1, <2>3, <3>1, <3>2, QuietLookup
  <2> QED
    BY <1>4, <2>2, <2>3 DEF PersistDispatch
<1>5. CASE AppendUpdate(t)
  <2>1. CASE AppendRow(t) /\ Advance(t, "event")
    <3>1. \A u \in Threads :
            stage'[u] # "idle" =>
              /\ stage[u] # "idle"
              /\ work'[u] = work[u]
              /\ stage'[u] = "event" => stage[u] = "event" \/ u = t
      BY <1>2, <1>5, <2>1 DEF AppendUpdate, Advance
    <3> QED
      BY <1>1, <1>5, <2>1, <3>1, AppendLookup DEF AppendUpdate
  <2>2. CASE UNCHANGED log /\ Finish(t)
    <3>1. UpdateEventsAreDurable'
      BY <1>5, <2>2 DEF AppendUpdate, LookupInv, UpdateEventsAreDurable
    <3> QED
      BY <1>1, <1>2, <2>2, <3>1, QuietLookup DEF Finish
  <2> QED
    BY <1>5, <2>1, <2>2 DEF AppendUpdate
<1>6. CASE RecordEvent(t)
  <2>1. log' = log
    BY <1>6 DEF RecordEvent
  <2>2. UpdateEventsAreDurable'
    <3>1. InFlight(t) /\ stage[t] = "event"
      BY <1>6 DEF RecordEvent, LookupInv, InFlightAgreesWithItsRead
    <3>2. work[t].kind \in {"acknowledgement", "approvalDecision"} =>
            \E i \in DOMAIN log : log[i].dispatch = work[t].dispatch
                                  /\ log[i].kind = work[t].kind
      BY <3>1 DEF InFlight
    <3> QED
      BY <1>6, <2>1, <3>2 DEF RecordEvent, LookupInv, UpdateEventsAreDurable
  <2> QED
    BY <1>1, <1>2, <1>6, <2>1, <2>2, QuietLookup DEF RecordEvent, Finish
<1> QED
  BY <1>3, <1>4, <1>5, <1>6 DEF ThreadStep

\* LookupInv is an invariant of the outbox.
THEOREM LookupInvariant == Spec => []LookupInv
<1>1. Init => LookupInv
  <2> SUFFICES ASSUME Init PROVE LookupInv
    OBVIOUS
  <2>1. TypeOK
    BY DEF Init, TypeOK, Stages
  <2>2. DOMAIN log = {}
    BY DEF Init
  <2> QED
    BY <2>1, <2>2 DEF Init, LookupInv, CreationSawNoDuplicate, UpdateExtendsNewestSeenRow,
                      UpdateEventsAreDurable, InFlightAgreesWithItsRead
<1>2. LookupInv /\ [Next]_outboxVars => LookupInv'
  <2> SUFFICES ASSUME LookupInv, [Next]_outboxVars PROVE LookupInv'
    OBVIOUS
  <2>1. CASE Restart
    <3>1. TypeOK' /\ UpdateEventsAreDurable'
      BY <2>1 DEF Restart, LookupInv, TypeOK, Stages, UpdateEventsAreDurable
    <3> QED
      BY <2>1, <3>1, QuietLookup DEF Restart
  <2>2. CASE \E t \in Threads : Request(t) \/ ThreadStep(t)
    BY <2>2, RequestLookup, ThreadStepLookup
  <2>3. CASE UNCHANGED outboxVars
    <3>1. TypeOK' /\ UpdateEventsAreDurable'
      BY <2>3 DEF outboxVars, LookupInv, TypeOK, UpdateEventsAreDurable
    <3> QED
      BY <2>3, <3>1, QuietLookup DEF outboxVars
  <2> QED
    BY <2>1, <2>2, <2>3 DEF Next
<1> QED
  BY <1>1, <1>2, PTL DEF Spec

\* Whatever the interleaving, a creation is appended only when its lookup saw
\* no row about the same payload.
THEOREM CreationsAreDeduplicated == Spec => []CreationSawNoDuplicate
BY LookupInvariant, PTL DEF LookupInv

\* Every acknowledgement and decision continues the newest row its lookup saw.
THEOREM UpdatesExtendTheirRead == Spec => []UpdateExtendsNewestSeenRow
BY LookupInvariant, PTL DEF LookupInv

\* The event ledger reports no update the outbox does not hold.
THEOREM UpdateEventsHaveRows == Spec => []UpdateEventsAreDurable
BY LookupInvariant, PTL DEF LookupInv

\* A request in flight can still rely on what its lookup read, however many
\* rows other requests have appended since.
THEOREM RequestsAgreeWithTheirRead == Spec => []InFlightAgreesWithItsRead
BY LookupInvariant, PTL DEF LookupInv
=============================================================================
