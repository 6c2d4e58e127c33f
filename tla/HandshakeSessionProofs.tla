----------------------- MODULE HandshakeSessionProofs -----------------------
(***************************************************************************)
(* What TLAPS proves of HandshakeSession for every set of threads, tokens, *)
(* scopes and declarations.  An operation writes a copy that it made of an *)
(* earlier row, so the invariants are those of a session and hold of the   *)
(* row and of every copy in flight: Sound below.  That an operation makes  *)
(* a sound session of a sound one is the heart of the matter.              *)
(***************************************************************************)
EXTENDS HandshakeSession, TLAPS

\* What holds of every session, stored or about to be.  The commitment of a
\* receipt is backed because that of the session it shows was.
Sound(s) ==
    /\ s \in Session
    /\ CommitsToShown(s)
    /\ Backed(s)
    /\ s.commitment # None => "commit" \in s.done
    /\ Recorded(s.proposal, s.done)
    /\ Recorded(s.commitment, s.done)
    /\ WithinDelegation(s)
    /\ ChecksItsToken(s)

\* What an operation does to each field of the session.
PlannedProposal(s, op) ==
    CASE op = "propose" -> "plan"
      [] op = "counter" -> "plan_r1"
      [] op = "reroute" -> Rerouted(s.proposal)
      [] OTHER          -> s.proposal

LEMMA UpdatedFields ==
    ASSUME NEW s \in Session, NEW op \in Operations, NEW declared \in SUBSET Scopes
    PROVE  LET u == Updated(s, op, declared) IN
           /\ u \in Session
           /\ u.token = s.token
           /\ u.done = s.done
           /\ u.permissions = IF op = "capability" THEN declared ELSE s.permissions
           /\ u.proposal = PlannedProposal(s, op)
           /\ u.commitment = IF op = "commit" THEN Accepted(s.proposal) ELSE s.commitment
           /\ u.receipt = IF op = "receipt" THEN ReceiptOf(s) ELSE s.receipt
           /\ u.state = "committed" =>
                 op = "commit" \/ (u.proposal = s.proposal /\ s.state = "committed")
           /\ u.state = "verified" => s.state = "verified"
<1> DEFINE u == Updated(s, op, declared)
<1>1. /\ s.state \in States /\ s.token \in Tokens /\ s.permissions \subseteq Scopes
      /\ s.proposal \in Proposals \cup {None} /\ s.commitment \in Proposals \cup {None}
      /\ s.done \subseteq Operations /\ s.receipt \in Receipt \cup {None}
    BY DEF Session
<1>2. Rerouted(s.proposal) \in Proposals /\ Accepted(s.proposal) \in Proposals
    BY <1>1, HandshakeAssumption DEF Rerouted, Accepted, Proposals
<1>3. ReceiptOf(s) \in Receipt
    BY <1>1 DEF ReceiptOf, Receipt
<1>4. CASE op = "capability"
    <2>1. u = [s EXCEPT !.state = "scoped", !.permissions = declared]
        BY <1>4 DEF Updated
    <2> QED
        BY <1>1, <1>4, <2>1 DEF Session, States, PlannedProposal
<1>5. CASE op = "intent"
    <2>1. u = [s EXCEPT !.state = "intent_accepted"]
        BY <1>5 DEF Updated
    <2> QED
        BY <1>1, <1>5, <2>1 DEF Session, States, PlannedProposal
<1>6. CASE op = "propose"
    <2>1. u = [s EXCEPT !.state = "negotiating", !.proposal = "plan"]
        BY <1>6 DEF Updated
    <2> QED
        BY <1>1, <1>6, <2>1 DEF Session, States, Proposals, PlannedProposal
<1>7. CASE op = "counter"
    <2>1. u = [s EXCEPT !.state = "negotiating", !.proposal = "plan_r1"]
        BY <1>7 DEF Updated
    <2> QED
        BY <1>1, <1>7, <2>1 DEF Session, States, Proposals, PlannedProposal
<1>8. CASE op = "reroute"
    <2>1. u = [s EXCEPT !.state = "negotiating", !.proposal = Rerouted(s.proposal)]
        BY <1>8 DEF Updated
    <2> QED
        BY <1>1, <1>2, <1>8, <2>1 DEF Session, States, PlannedProposal
<1>9. CASE op = "commerce"
    <2>1. u = s
        BY <1>9 DEF Updated
    <2> QED
        BY <1>9, <2>1 DEF PlannedProposal
<1>10. CASE op = "commit"
    <2>1. u = [s EXCEPT !.state = "committed", !.commitment = Accepted(s.proposal)]
        BY <1>10 DEF Updated
    <2> QED
        BY <1>1, <1>2, <1>10, <2>1 DEF Session, States, PlannedProposal
<1>11. CASE op = "monitor"
    <2>1. u = [s EXCEPT !.state = "monitoring"]
        BY <1>11 DEF Updated
    <2> QED
        BY <1>1, <1>11, <2>1 DEF Session, States, PlannedProposal
<1>12. CASE op = "receipt"
    <2>1. u = [s EXCEPT !.receipt = ReceiptOf(s)]
        BY <1>12 DEF Updated
    <2> QED
        BY <1>1, <1>3, <1>12, <2>1 DEF Session, PlannedProposal
<1> QED
    BY <1>4, <1>5, <1>6, <1>7, <1>8, <1>9, <1>10, <1>11, <1>12 DEF Operations

\* The outcome of an operation, in fields: what it made of the session, with
\* its entry in the lists and, if it was checked, the token that passed.
After(r, s, op, declared) ==
    /\ r \in Session
    /\ r.done = s.done \cup {op}
    /\ r.permissions = IF op = "capability" THEN declared ELSE s.permissions
    /\ r.proposal = PlannedProposal(s, op)
    /\ r.commitment = IF op = "commit" THEN Accepted(s.proposal) ELSE s.commitment
    /\ r.receipt = IF op = "receipt" THEN ReceiptOf(s) ELSE s.receipt
    /\ r.state = "committed" =>
          op = "commit" \/ (r.proposal = s.proposal /\ s.state = "committed")
    /\ r.state = "verified" => s.state = "verified"

LEMMA CheckedOutcome ==
    ASSUME NEW s \in Session, NEW op \in Operations, NEW declared \in SUBSET Scopes,
           NEW token \in Tokens
    PROVE  LET r == Logged([Updated(s, op, declared) EXCEPT !.token = token], op) IN
           After(r, s, op, declared) /\ r.token = token
<1> DEFINE u == Updated(s, op, declared)
           r == Logged([u EXCEPT !.token = token], op)
<1> HIDE DEF u
<1>1. u \in Session
    BY UpdatedFields DEF u
<1>2. /\ r \in Session /\ r.token = token /\ r.done = u.done \cup {op}
      /\ r.permissions = u.permissions /\ r.proposal = u.proposal
      /\ r.commitment = u.commitment /\ r.receipt = u.receipt /\ r.state = u.state
    BY <1>1 DEF Logged, Session
<1> HIDE DEF r
<1>3. After(r, s, op, declared)
    BY <1>2, UpdatedFields DEF After, u
<1> QED
    BY <1>2, <1>3 DEF r, u

LEMMA UncheckedOutcome ==
    ASSUME NEW s \in Session
    PROVE  LET r == Logged(Updated(s, "receipt", {}), "receipt") IN
           After(r, s, "receipt", {}) /\ r.token = s.token
<1> DEFINE u == Updated(s, "receipt", {})
           r == Logged(u, "receipt")
<1> HIDE DEF u
<1>1. "receipt" \in Operations /\ {} \in SUBSET Scopes
    BY DEF Operations
<1>2. u \in Session /\ u.token = s.token
    BY <1>1, UpdatedFields DEF u
<1>3. /\ r \in Session /\ r.token = u.token /\ r.done = u.done \cup {"receipt"}
      /\ r.permissions = u.permissions /\ r.proposal = u.proposal
      /\ r.commitment = u.commitment /\ r.receipt = u.receipt /\ r.state = u.state
    BY <1>1, <1>2 DEF Logged, Session
<1> HIDE DEF r
<1>4. After(r, s, "receipt", {})
    BY <1>1, <1>3, UpdatedFields DEF After, u
<1> QED
    BY <1>2, <1>3, <1>4 DEF r, u

\* An operation that was delegated, or asks for nothing but a receipt, makes a
\* sound session of a sound one.
LEMMA OperationIsSound ==
    ASSUME NEW s, Sound(s), NEW op \in Operations, NEW declared \in SUBSET Scopes,
           NEW r, After(r, s, op, declared),
           r.token \in ClientTokens \/ (op = "receipt" /\ r.token = s.token),
           op = "receipt" \/ Delegated(Required(op, declared))
    PROVE  Sound(r)
<1>1. /\ s \in Session /\ CommitsToShown(s) /\ Backed(s)
      /\ s.commitment # None => "commit" \in s.done
      /\ Recorded(s.proposal, s.done) /\ Recorded(s.commitment, s.done)
      /\ WithinDelegation(s) /\ ChecksItsToken(s)
    BY DEF Sound
<1>2. s.proposal \in Proposals \cup {None}
    BY <1>1 DEF Session
<1>3. CommitsToShown(r)
    <2> SUFFICES ASSUME r.state = "committed"
                 PROVE  r.commitment # None /\ r.proposal \in {None, r.commitment}
        BY DEF CommitsToShown
    <2>1. CASE op = "commit"
        BY <2>1, <1>2, HandshakeAssumption
           DEF After, PlannedProposal, Accepted, Proposals
    <2>2. CASE op # "commit"
        BY <2>2, <1>1 DEF After, CommitsToShown
    <2> QED
        BY <2>1, <2>2
<1>4. r.commitment # None => "commit" \in r.done
    BY <1>1 DEF After
<1>5. Backed(r)
    <2>1. CASE op = "receipt"
        <3>1. r.receipt = ReceiptOf(s) /\ r.done = s.done \cup {op}
            BY <2>1 DEF After
        <3> QED
            BY <3>1, <1>1 DEF Backed, ReceiptOf, CommitsToShown
    <2>2. CASE op # "receipt"
        <3>1. r.receipt = s.receipt /\ r.done = s.done \cup {op}
            BY <2>2 DEF After
        <3> QED
            BY <3>1, <1>1 DEF Backed
    <2> QED
        BY <2>1, <2>2
<1>6. Recorded(r.proposal, r.done) /\ Recorded(r.commitment, r.done)
    <2>1. r.done = s.done \cup {op} /\ r.proposal = PlannedProposal(s, op)
        BY DEF After
    <2>2. Recorded(r.proposal, r.done)
        BY <2>1, <1>1, <1>2 DEF Recorded, PlannedProposal, Rerouted, Proposals
    <2>3. Recorded(Accepted(s.proposal), r.done)
        BY <2>1, <1>1, <1>2 DEF Recorded, Accepted
    <2>4. r.commitment \in {s.commitment, Accepted(s.proposal)}
        BY DEF After
    <2>5. Recorded(s.commitment, r.done)
        BY <2>1, <1>1 DEF Recorded
    <2> QED
        BY <2>2, <2>3, <2>4, <2>5
<1>7. WithinDelegation(r)
    <2>1. ASSUME NEW o \in r.done \ {"capability", "receipt"}
          PROVE  Delegated(Required(o, {}))
        <3>1. CASE o \in s.done
            BY <3>1, <1>1 DEF WithinDelegation
        <3>2. CASE o = op
            <4>1. Required(op, declared) = Required(o, {})
                BY <3>2 DEF Required, Operations
            <4> QED
                BY <4>1, <3>2
        <3> QED
            BY <3>1, <3>2 DEF After
    <2>2. ASSUME r.permissions # {} PROVE Delegated(r.permissions)
        <3>1. CASE op = "capability"
            <4>1. Required(op, declared) = declared
                BY <3>1 DEF Required
            <4> QED
                BY <4>1, <3>1 DEF After
        <3>2. CASE op # "capability"
            BY <3>2, <2>2, <1>1 DEF After, WithinDelegation
        <3> QED
            BY <3>1, <3>2
    <2> QED
        BY <2>1, <2>2 DEF WithinDelegation
<1>8. ChecksItsToken(r)
    BY <1>1 DEF ChecksItsToken, After
<1> QED
    BY <1>3, <1>4, <1>5, <1>6, <1>7, <1>8 DEF Sound, After

\* The inductive invariant: the row, and every copy that may replace it, is a
\* sound session.
SessionsSound ==
    /\ row = None \/ Sound(row)
    /\ request \in [Threads -> Request]
    /\ \A t \in Threads : request[t] = Idle \/ Sound(request[t].copy)
    /\ expired \subseteq Tokens
    /\ writes \in 0..MaxWrites

LEMMA StartIsSound ==
    ASSUME SessionsSound, NEW t \in Threads, NEW op \in Operations \cup {"identity"},
           NEW copy, Sound(copy), Start(t, op, copy)
    PROVE  SessionsSound'
<1>1. request' = [request EXCEPT ![t] = [op |-> op, copy |-> copy, stale |-> FALSE]]
      /\ UNCHANGED <<row, expired, writes>>
    BY DEF Start
<1>2. [op |-> op, copy |-> copy, stale |-> FALSE] \in Request
    BY DEF Request, Sound
<1>3. request' \in [Threads -> Request]
    BY <1>1, <1>2 DEF SessionsSound
<1>4. \A u \in Threads : request'[u] = Idle \/ Sound(request'[u].copy)
    BY <1>1 DEF SessionsSound
<1>5. row' = None \/ Sound(row')
    BY <1>1 DEF SessionsSound
<1> QED
    BY <1>1, <1>3, <1>4, <1>5 DEF SessionsSound

LEMMA ThreadKeepsSound ==
    ASSUME SessionsSound, NEW t \in Threads, ThreadStep(t)
    PROVE  SessionsSound'
<1>1. ASSUME NEW token \in Tokens, Identity(t, token) PROVE SessionsSound'
    <2> DEFINE s == [state |-> IF Verified(token) THEN "verified" ELSE "initiated",
                     token |-> token, permissions |-> {}, proposal |-> None,
                     commitment |-> None, done |-> {}, receipt |-> None]
    <2>1. s \in Session
        BY DEF Session, States
    <2>2. s.state = "verified" => token \in ClientTokens
        BY DEF Verified
    <2>3. CommitsToShown(s) /\ Backed(s) /\ Recorded(s.proposal, s.done)
          /\ Recorded(s.commitment, s.done)
        BY HandshakeAssumption DEF CommitsToShown, Backed, Recorded, Proposals
    <2>4. WithinDelegation(s) /\ ChecksItsToken(s)
        BY <2>2 DEF WithinDelegation, ChecksItsToken
    <2>5. Sound(s)
        BY <2>1, <2>3, <2>4 DEF Sound
    <2>6. Start(t, "identity", s)
        BY <1>1 DEF Identity
    <2> HIDE DEF s
    <2> QED
        BY <2>5, <2>6, StartIsSound
<1>2. ASSUME NEW op \in Operations, NEW token \in Tokens, NEW declared \in Declarations,
             Operate(t, op, token, declared)
      PROVE  SessionsSound'
    <2> DEFINE r == Logged([Updated(row, op, declared) EXCEPT !.token = token], op)
    <2>1. Sound(row) /\ row \in Session
        BY <1>2 DEF Operate, SessionsSound, Sound
    <2>2. declared \in SUBSET Scopes
        BY HandshakeAssumption
    <2>3. After(r, row, op, declared) /\ r.token = token
        BY <2>1, <2>2, CheckedOutcome
    <2>4. Start(t, op, r)
        BY <1>2 DEF Operate
    <2>5. token \in ClientTokens /\ Delegated(Required(op, declared))
        BY <1>2 DEF Operate, Accepts, Verified, Delegated
    <2> HIDE DEF r
    <2>6. Sound(r)
        BY <2>1, <2>2, <2>3, <2>5, OperationIsSound
    <2> QED
        BY <2>4, <2>6, StartIsSound
<1>3. CASE UncheckedReceipt(t)
    <2> DEFINE r == Logged(Updated(row, "receipt", {}), "receipt")
    <2>1. Sound(row) /\ row \in Session
        BY <1>3 DEF UncheckedReceipt, SessionsSound, Sound
    <2>2. After(r, row, "receipt", {}) /\ r.token = row.token
        BY <2>1, UncheckedOutcome
    <2>3. Start(t, "receipt", r)
        BY <1>3 DEF UncheckedReceipt
    <2>4. "receipt" \in Operations
        BY DEF Operations
    <2> HIDE DEF r
    <2>5. Sound(r)
        BY <2>1, <2>2, <2>4, OperationIsSound
    <2> QED
        BY <2>3, <2>4, <2>5, StartIsSound
<1>4. CASE PersistSession(t)
    <2>1. request[t] # Idle /\ row' = request[t].copy /\ expired' = expired
        BY <1>4 DEF PersistSession
    <2>2. Sound(row')
        BY <2>1 DEF SessionsSound
    <2>3. writes' \in 0..MaxWrites
        BY <1>4, HandshakeAssumption DEF PersistSession, SessionsSound
    <2>4. Idle \in Request
        BY DEF Idle, Request
    <2>5. \A u \in Threads :
             request'[u] = Idle \/ request'[u] = [request[u] EXCEPT !.stale = TRUE]
        BY <1>4 DEF PersistSession
    <2>6. \A u \in Threads :
             request'[u] \in Request /\ (request'[u] = Idle \/ Sound(request'[u].copy))
        <3> SUFFICES ASSUME NEW u \in Threads,
                            request'[u] # Idle
                     PROVE  request'[u] \in Request /\ Sound(request'[u].copy)
            BY <2>4
        <3>1. request'[u] = [request[u] EXCEPT !.stale = TRUE] /\ request[u] # Idle
            BY <1>4 DEF PersistSession
        <3>2. request[u] \in Request /\ Sound(request[u].copy)
            BY <3>1 DEF SessionsSound
        <3>3. request'[u] \in Request /\ request'[u].copy = request[u].copy
            BY <3>1, <3>2 DEF Request
        <3> QED
            BY <3>2, <3>3
    <2>7. request' \in [Threads -> Request]
        BY <1>4, <2>6 DEF PersistSession
    <2> QED
        BY <2>1, <2>2, <2>3, <2>6, <2>7 DEF SessionsSound
<1>5. CASE Abort(t)
    <2>1. request' = [request EXCEPT ![t] = Idle] /\ UNCHANGED <<row, expired, writes>>
        BY <1>5 DEF Abort
    <2>2. Idle \in Request
        BY DEF Idle, Request
    <2>3. request' \in [Threads -> Request]
        BY <2>1, <2>2 DEF SessionsSound
    <2>4. \A u \in Threads : request'[u] = Idle \/ Sound(request'[u].copy)
        BY <2>1 DEF SessionsSound
    <2>5. row' = None \/ Sound(row')
        BY <2>1 DEF SessionsSound
    <2> QED
        BY <2>1, <2>3, <2>4, <2>5 DEF SessionsSound
<1> QED
    BY <1>1, <1>2, <1>3, <1>4, <1>5 DEF ThreadStep

\* Whatever requests overlap, fail or come in whatever order: the stored
\* session, and all that is about to be stored, is sound.
THEOREM SessionInvariant == Spec => []SessionsSound
<1>1. Init => SessionsSound
    BY HandshakeAssumption DEF Init, SessionsSound, Idle, Request
<1>2. SessionsSound /\ [Next]_vars => SessionsSound'
    <2> SUFFICES ASSUME SessionsSound, [Next]_vars PROVE SessionsSound'
        OBVIOUS
    <2>1. ASSUME NEW t \in Threads, ThreadStep(t) PROVE SessionsSound'
        BY <2>1, ThreadKeepsSound
    <2>2. ASSUME NEW token \in ClientTokens, Expire(token) PROVE SessionsSound'
        <3>1. row' = row /\ request' = request /\ writes' = writes
              /\ expired' = expired \cup {token}
            BY <2>2 DEF Expire
        <3>2. row' = None \/ Sound(row')
            BY <3>1 DEF SessionsSound
        <3>3. \A u \in Threads : request'[u] = Idle \/ Sound(request'[u].copy)
            BY <3>1 DEF SessionsSound
        <3> QED
            BY <3>1, <3>2, <3>3, HandshakeAssumption DEF SessionsSound
    <2>3. CASE UNCHANGED vars
        <3>1. row' = None \/ Sound(row')
            BY <2>3 DEF vars, SessionsSound
        <3>2. \A u \in Threads : request'[u] = Idle \/ Sound(request'[u].copy)
            BY <2>3 DEF vars, SessionsSound
        <3> QED
            BY <2>3, <3>1, <3>2 DEF vars, SessionsSound
    <2> QED
        BY <2>1, <2>2, <2>3 DEF Next
<1> QED
    BY <1>1, <1>2, PTL DEF Spec

\* The shape of the state, also of the copies in flight.
THEOREM HandshakeTypes == Spec => []HandshakeTypeOK
<1>1. SessionsSound => HandshakeTypeOK
    BY DEF SessionsSound, HandshakeTypeOK, Sound
<1> QED
    BY <1>1, SessionInvariant, PTL

\* A committed session shows the proposal it committed to.
THEOREM CommitmentsAreCurrent == Spec => []CommitmentIsCurrent
<1>1. SessionsSound => CommitmentIsCurrent
    BY DEF SessionsSound, CommitmentIsCurrent, Sound
<1> QED
    BY <1>1, SessionInvariant, PTL

\* What a receipt lists is in the session, and it names one plan.
THEOREM ReceiptsAreBacked == Spec => []ReceiptIsBacked
<1>1. SessionsSound => ReceiptIsBacked
    BY DEF SessionsSound, ReceiptIsBacked, Sound
<1> QED
    BY <1>1, SessionInvariant, PTL

\* No revised or rerouted plan without the operation that made it.
THEOREM OffersHaveRecords == Spec => []OffersAreRecorded
<1>1. SessionsSound => OffersAreRecorded
    BY DEF SessionsSound, OffersAreRecorded, Sound
<1> QED
    BY <1>1, SessionInvariant, PTL

\* No session goes beyond what one of the client's own tokens delegates, and the
\* token on file is the client's once an operation was checked.
THEOREM SessionsStayDelegated == Spec => []OperationsAreDelegated
<1>1. SessionsSound => OperationsAreDelegated
    BY DEF SessionsSound, OperationsAreDelegated, Sound
<1> QED
    BY <1>1, SessionInvariant, PTL

-----------------------------------------------------------------------------
(* Who may forget.  A copy nobody overtook extends the row. *)

FreshCopiesExtend ==
    \A t \in Threads :
        request[t] # Idle /\ ~request[t].stale /\ row # None
            => ~Forgets(row, request[t].copy)

LEMMA OutcomeExtends ==
    ASSUME NEW s, NEW op, NEW declared, NEW r, After(r, s, op, declared)
    PROVE  ~Forgets(s, r)
<1>1. Accepted(s.proposal) # None
    BY HandshakeAssumption DEF Accepted, Proposals
<1> QED
    BY <1>1 DEF After, Forgets

LEMMA StartExtends ==
    ASSUME FreshCopiesExtend, request \in [Threads -> Request], NEW t \in Threads,
           NEW op, NEW copy, Start(t, op, copy), row = None \/ ~Forgets(row, copy)
    PROVE  FreshCopiesExtend'
<1>1. row' = row /\ request' = [request EXCEPT ![t] = [op |-> op, copy |-> copy, stale |-> FALSE]]
    BY DEF Start
<1> SUFFICES ASSUME NEW u \in Threads, request'[u] # Idle, ~request'[u].stale, row' # None
             PROVE  ~Forgets(row', request'[u].copy)
    BY DEF FreshCopiesExtend
<1>2. CASE u = t
    BY <1>1, <1>2
<1>3. CASE u # t
    BY <1>1, <1>3 DEF FreshCopiesExtend
<1> QED
    BY <1>2, <1>3

LEMMA FreshInvariant == Spec => []FreshCopiesExtend
<1>1. Init => FreshCopiesExtend
    BY DEF Init, FreshCopiesExtend
<1>2. SessionsSound /\ FreshCopiesExtend /\ [Next]_vars => FreshCopiesExtend'
    <2> SUFFICES ASSUME SessionsSound, FreshCopiesExtend, [Next]_vars
                 PROVE  FreshCopiesExtend'
        OBVIOUS
    <2>0. request \in [Threads -> Request]
        BY DEF SessionsSound
    <2>1. ASSUME NEW t \in Threads, NEW token \in Tokens, Identity(t, token)
          PROVE  FreshCopiesExtend'
        BY <2>0, <2>1, StartExtends DEF Identity
    <2>2. ASSUME NEW t \in Threads, NEW op \in Operations, NEW token \in Tokens,
                 NEW declared \in Declarations, Operate(t, op, token, declared)
          PROVE  FreshCopiesExtend'
        <3> DEFINE r == Logged([Updated(row, op, declared) EXCEPT !.token = token], op)
        <3>1. row \in Session /\ declared \in SUBSET Scopes
            BY <2>2, HandshakeAssumption DEF Operate, SessionsSound, Sound
        <3>2. After(r, row, op, declared)
            BY <3>1, CheckedOutcome
        <3>3. Start(t, op, r)
            BY <2>2 DEF Operate
        <3> HIDE DEF r
        <3>4. ~Forgets(row, r)
            BY <3>2, OutcomeExtends
        <3> QED
            BY <2>0, <3>3, <3>4, StartExtends
    <2>3. ASSUME NEW t \in Threads, UncheckedReceipt(t) PROVE FreshCopiesExtend'
        <3> DEFINE r == Logged(Updated(row, "receipt", {}), "receipt")
        <3>1. row \in Session
            BY <2>3 DEF UncheckedReceipt, SessionsSound, Sound
        <3>2. After(r, row, "receipt", {})
            BY <3>1, UncheckedOutcome
        <3>3. Start(t, "receipt", r)
            BY <2>3 DEF UncheckedReceipt
        <3> HIDE DEF r
        <3>4. ~Forgets(row, r)
            BY <3>2, OutcomeExtends
        <3> QED
            BY <2>0, <3>3, <3>4, StartExtends
    <2>4. ASSUME NEW t \in Threads, PersistSession(t) PROVE FreshCopiesExtend'
        <3>1. ASSUME NEW u \in Threads PROVE request'[u] = Idle \/ request'[u].stale
            <4>1. request'[u] = Idle \/ request'[u] = [request[u] EXCEPT !.stale = TRUE]
                BY <2>4 DEF PersistSession
            <4> QED
                BY <2>0, <4>1 DEF Request
        <3> QED
            BY <3>1 DEF FreshCopiesExtend
    <2>5. ASSUME NEW t \in Threads, Abort(t) PROVE FreshCopiesExtend'
        BY <2>0, <2>5 DEF Abort, FreshCopiesExtend
    <2>6. ASSUME NEW token \in ClientTokens, Expire(token) PROVE FreshCopiesExtend'
        BY <2>6 DEF Expire, FreshCopiesExtend
    <2>7. CASE UNCHANGED vars
        BY <2>7 DEF vars, FreshCopiesExtend
    <2> QED
        BY <2>1, <2>2, <2>3, <2>4, <2>5, <2>6, <2>7 DEF Next, ThreadStep
<1> QED
    BY <1>1, <1>2, SessionInvariant, PTL DEF Spec

\* An entry or a commitment vanishes only under a writer that was overtaken.
THEOREM OnlyTheOvertakenForget == Spec => OnlyStaleWritersForget
<1>1. FreshCopiesExtend /\ [Next]_vars =>
         [row # None /\ Forgets(row, row') =>
             \E t \in Threads : request[t].stale /\ row' = request[t].copy]_vars
    <2> SUFFICES ASSUME FreshCopiesExtend, [Next]_vars, row # None, Forgets(row, row')
                 PROVE  \E t \in Threads : request[t].stale /\ row' = request[t].copy
        OBVIOUS
    <2>1. row' # row
        BY DEF Forgets
    <2>2. PICK t \in Threads : PersistSession(t)
        BY <2>1 DEF Next, ThreadStep, Identity, Operate, UncheckedReceipt, Start, Abort,
                    Expire, vars
    <2>3. request[t] # Idle /\ row' = request[t].copy
        BY <2>2 DEF PersistSession
    <2> QED
        BY <2>3 DEF FreshCopiesExtend
<1> QED
    BY <1>1, FreshInvariant, PTL DEF Spec, OnlyStaleWritersForget
NobodyOvertaken == \A t \in Threads : ~request[t].stale

\* With one request thread nobody is ever overtaken.
LEMMA NobodyIsOvertaken ==
    ASSUME NEW t, Threads = {t}
    PROVE  Spec => []NobodyOvertaken
<1>t. t \in Threads /\ \A u \in Threads : u = t
    OBVIOUS
<1>1. Init => NobodyOvertaken
    BY DEF Init, Idle, NobodyOvertaken
<1>2. SessionsSound /\ NobodyOvertaken /\ [Next]_vars => NobodyOvertaken'
    <2> SUFFICES ASSUME SessionsSound, NobodyOvertaken, [Next]_vars
                 PROVE  ~request'[t].stale
        BY <1>t DEF NobodyOvertaken
    <2>1. request \in [Threads -> Request]
        BY DEF SessionsSound
    <2>2. ASSUME NEW op, NEW copy, Start(t, op, copy) PROVE ~request'[t].stale
        BY <1>t, <2>1, <2>2 DEF Start
    <2>3. CASE PersistSession(t) \/ Abort(t)
        BY <1>t, <2>1, <2>3 DEF PersistSession, Abort, Idle
    <2>4. CASE UNCHANGED request
        BY <1>t, <2>4 DEF NobodyOvertaken
    <2>5. \/ \E op \in Operations \cup {"identity"}, copy \in {request'[t].copy} : Start(t, op, copy)
          \/ PersistSession(t) \/ Abort(t)
          \/ UNCHANGED request
        <3>1. CASE UNCHANGED vars \/ \E token \in ClientTokens : Expire(token)
            BY <3>1 DEF vars, Expire
        <3>2. CASE ThreadStep(t)
            <4>1. ASSUME NEW op \in Operations \cup {"identity"}, NEW copy, Start(t, op, copy)
                  PROVE  copy = request'[t].copy
                BY <1>t, <2>1, <4>1 DEF Start
            <4> QED
                BY <3>2, <4>1 DEF ThreadStep, Identity, Operate, UncheckedReceipt, Operations
        <3> QED
            BY <1>t, <3>1, <3>2 DEF Next
    <2> QED
        BY <2>2, <2>3, <2>4, <2>5
<1> QED
    BY <1>1, <1>2, SessionInvariant, PTL DEF Spec

\* Overlapping requests are the only way to lose an entry or a commitment: with
\* one request thread no write of any operation, in any order, with expired or
\* foreign tokens and failures in between, ever forgets one.
THEOREM ASingleThreadForgetsNothing ==
    ASSUME NEW u, Threads = {u}
    PROVE  Spec => [][row # None => ~Forgets(row, row')]_vars
<1>1. NobodyOvertaken /\ [row # None /\ Forgets(row, row') =>
                             \E t \in Threads : request[t].stale /\ row' = request[t].copy]_vars
         => [row # None => ~Forgets(row, row')]_vars
    BY DEF NobodyOvertaken
<1>2. Spec => []NobodyOvertaken
    BY NobodyIsOvertaken
<1> QED
    BY <1>1, <1>2, OnlyTheOvertakenForget, PTL DEF OnlyStaleWritersForget
=============================================================================
