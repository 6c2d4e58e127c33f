-------------------------- MODULE HandshakeSession --------------------------
(***************************************************************************)
(* A handshake session between an external agent and the park              *)
(* (AgentHandshakeService.java and AgentHandshakeLedgerService.java).      *)
(*                                                                         *)
(* The session is one SQLite row that holds the whole session as JSON.     *)
(* Every operation reads the row, checks the delegation token, changes its *)
(* copy and writes the whole copy back.  No lock is held meanwhile and no  *)
(* operation looks at the state the session is in, so operations come in   *)
(* any order and overlapping ones overwrite each other.                    *)
(***************************************************************************)
EXTENDS FiniteSets, Naturals

CONSTANTS
    Threads,       \* request threads
    Tokens,        \* delegation tokens that are presented
    ClientTokens,  \* those signed for the session's agent and guest
    Scopes,
    TokenScope,    \* scopes of each token
    Declarations,  \* what an agent declares to share and to receive
    MaxWrites,     \* bound of the model: how often the row is written
    None           \* no row, no proposal, no commitment, no receipt, no token

Operations == {"capability", "intent", "propose", "counter", "reroute",
               "commerce", "commit", "monitor", "receipt"}

States == {"initiated", "verified", "scoped", "intent_accepted", "negotiating",
           "committed", "monitoring"}

\* A proposal is identified by what its id says of its history: the plan as
\* first proposed, revised by a counter, rerouted by the queue agent.
Proposals == {"plan", "plan_r1", "plan_queue", "plan_r1_queue"}

ASSUME HandshakeAssumption ==
    /\ ClientTokens \subseteq Tokens
    /\ TokenScope \in [Tokens -> SUBSET Scopes]
    /\ Declarations \subseteq SUBSET Scopes
    /\ MaxWrites \in Nat
    /\ None \notin Tokens \cup Operations \cup Proposals

VARIABLES
    row,      \* the session as stored
    request,  \* request[t]: the copy thread t is about to write
    expired,  \* tokens whose time has run out
    writes    \* how often the row was written

vars == <<row, request, expired, writes>>

\* done: the operations the session's lists (conversation, handoffs, policy
\* decisions, case evaluations) tell of.
Receipt == [status : States, proposal : Proposals \cup {None},
            commitment : Proposals \cup {None}, done : SUBSET Operations]

Session == [state : States, token : Tokens, permissions : SUBSET Scopes,
            proposal : Proposals \cup {None}, commitment : Proposals \cup {None},
            done : SUBSET Operations, receipt : Receipt \cup {None}]

Idle == [op |-> "idle", copy |-> None, stale |-> FALSE]

\* stale is not in the code: somebody else wrote the row since it was read.
Request == [op : Operations \cup {"identity", "idle"}, copy : Session \cup {None},
            stale : BOOLEAN]

Init ==
    /\ row = None
    /\ request = [t \in Threads |-> Idle]
    /\ expired = {}
    /\ writes = 0

-----------------------------------------------------------------------------
(* The delegation check. *)

\* What an operation needs; declared matters for the capability handshake.
Required(op, declared) ==
    CASE op = "capability" -> declared
      [] op = "intent"     -> {"preferences"}
      [] op \in {"propose", "counter"} -> {"preferences", "route_plan"}
      [] op = "commerce"   -> {"policy_check"}
      [] op = "reroute"    -> {"route_plan", "wait_time_alert"}
      [] op = "commit"     -> {"route_plan", "session_commit"}
      [] op = "monitor"    -> {"wait_time_alert", "safety_notice"}
      [] op = "receipt"    -> {"route_plan"}

\* verifyDelegationToken, then agent and guest.
Verified(token) == token \in ClientTokens \ expired

\* Faulty variant: only the presented token's scopes matter, not its owner.
AcceptsScopes(token, needs) == token \notin expired /\ needs \subseteq TokenScope[token]

Accepts(token, needs) == Verified(token) /\ needs \subseteq TokenScope[token]

-----------------------------------------------------------------------------
(* What the operations make of their copy of the session. *)

\* Proposals and counter-proposals are planned afresh; a reroute marks the
\* proposal at hand, or a fresh one, unless it is marked already.

\* Faulty variant: marks it once more.
ReroutedAgain(p) ==
    CASE p \in {None, "plan"} -> "plan_queue"
      [] p = "plan_r1"      -> "plan_r1_queue"
      [] OTHER              -> "plan_queue_queue"

Rerouted(p) ==
    CASE p \in {None, "plan", "plan_queue"} -> "plan_queue"
      [] p \in {"plan_r1", "plan_r1_queue"} -> "plan_r1_queue"

\* Without a proposal the commitment accepts a plan made up on the spot, which
\* the session does not show.
AcceptedAnew(p) == "plan"

Accepted(p) == IF p = None THEN "plan" ELSE p

ReceiptOf(s) == [status |-> s.state, proposal |-> s.proposal,
                 commitment |-> s.commitment, done |-> s.done]

\* Faulty variant: the reroute changes the proposal and leaves the state.
UpdatedQuietReroute(s, op, declared) ==
    CASE op = "reroute" -> [s EXCEPT !.proposal = Rerouted(s.proposal)]
      [] op = "commit"  -> [s EXCEPT !.state = "committed",
                                     !.commitment = Accepted(s.proposal)]
      [] OTHER          -> s

\* Faulty variant: a new proposal withdraws the commitment.
UpdatedProposeAnew(s, op, declared) ==
    CASE op = "propose" -> [s EXCEPT !.state = "negotiating", !.proposal = "plan",
                                     !.commitment = None]
      [] op = "commit"  -> [s EXCEPT !.state = "committed",
                                     !.commitment = Accepted(s.proposal)]
      [] OTHER          -> s

Updated(s, op, declared) ==
    CASE op = "capability" -> [s EXCEPT !.state = "scoped", !.permissions = declared]
      [] op = "intent"     -> [s EXCEPT !.state = "intent_accepted"]
      [] op = "propose"    -> [s EXCEPT !.state = "negotiating", !.proposal = "plan"]
      [] op = "counter"    -> [s EXCEPT !.state = "negotiating", !.proposal = "plan_r1"]
      [] op = "reroute"    -> [s EXCEPT !.state = "negotiating",
                                        !.proposal = Rerouted(s.proposal)]
      [] op = "commerce"   -> s
      [] op = "commit"     -> [s EXCEPT !.state = "committed",
                                        !.commitment = Accepted(s.proposal)]
      [] op = "monitor"    -> [s EXCEPT !.state = "monitoring"]
      [] op = "receipt"    -> [s EXCEPT !.receipt = ReceiptOf(s)]

\* Faulty variant: a counter-proposal leaves no handoff and no event.
LoggedButCounter(s, op) == [s EXCEPT !.done = @ \cup ({op} \ {"counter"})]

Logged(s, op) == [s EXCEPT !.done = @ \cup {op}]

-----------------------------------------------------------------------------
(* Requests. *)

Start(t, op, copy) ==
    /\ request[t] = Idle
    /\ writes < MaxWrites
    /\ request' = [request EXCEPT ![t] = [op |-> op, copy |-> copy, stale |-> FALSE]]
    /\ UNCHANGED <<row, expired, writes>>

\* identityHandshake: the session id is a hash of the names and the
\* millisecond, so equal requests of one millisecond make one session.  With
\* no token presented one of the client's own is issued.
Identity(t, token) ==
    /\ row = None
    /\ Start(t, "identity",
             [state |-> IF Verified(token) THEN "verified" ELSE "initiated",
              token |-> token, permissions |-> {}, proposal |-> None,
              commitment |-> None, done |-> {}, receipt |-> None])

\* readSession, enforceDelegation and the operation itself.  A token that does
\* not pass raises an exception and leaves the row as it is.
Operate(t, op, token, declared) ==
    /\ row # None
    /\ Accepts(token, Required(op, declared))
    /\ Start(t, op, LET s == Updated(row, op, declared)
                    IN  Logged([s EXCEPT !.token = token], op))

\* A receipt without a token is not checked.
UncheckedReceipt(t) ==
    /\ row # None
    /\ Start(t, "receipt", Logged(Updated(row, "receipt", {}), "receipt"))

\* persistSession writes the whole copy.
PersistSession(t) ==
    /\ request[t] # Idle
    /\ writes < MaxWrites
    /\ row' = request[t].copy
    /\ request' = [u \in Threads |-> IF u = t THEN Idle
                                     ELSE IF request[u] = Idle THEN Idle
                                     ELSE [request[u] EXCEPT !.stale = TRUE]]
    /\ writes' = writes + 1
    /\ UNCHANGED expired

\* The write failed, or the process died.
Abort(t) ==
    /\ request[t] # Idle
    /\ request' = [request EXCEPT ![t] = Idle]
    /\ UNCHANGED <<row, expired, writes>>

\* Only the time of the client's own tokens matters: others never pass.
Expire(token) ==
    /\ expired' = expired \cup {token}
    /\ UNCHANGED <<row, request, writes>>

ThreadStep(t) ==
    \/ \E token \in Tokens : Identity(t, token)
    \/ \E op \in Operations, token \in Tokens, declared \in Declarations :
          Operate(t, op, token, declared)
    \/ UncheckedReceipt(t) \/ PersistSession(t) \/ Abort(t)

Next == (\E t \in Threads : ThreadStep(t)) \/ \E token \in ClientTokens : Expire(token)

Spec == Init /\ [][Next]_vars
-----------------------------------------------------------------------------
(* Properties. *)

HandshakeTypeOK ==
    /\ row \in Session \cup {None}
    /\ request \in [Threads -> Request]
    /\ \A t \in Threads : request[t] = Idle \/ request[t].copy \in Session
    /\ expired \subseteq Tokens
    /\ writes \in 0..MaxWrites

\* A committed session shows the proposal it committed to, whatever was
\* proposed or rerouted meanwhile; only one committed without any proposal
\* shows none.
CommitsToShown(s) ==
    s.state = "committed" => s.commitment # None /\ s.proposal \in {None, s.commitment}

CommitmentIsCurrent == row # None => CommitsToShown(row)

\* A receipt is a view of one moment of the session: what it lists is in the
\* session's lists, and a receipt for a committed session names one plan.
Backed(s) ==
    s.receipt # None =>
        /\ s.receipt.done \subseteq s.done
        /\ s.receipt.commitment # None => "commit" \in s.done
        /\ CommitsToShown([state |-> s.receipt.status, proposal |-> s.receipt.proposal,
                           commitment |-> s.receipt.commitment])

ReceiptIsBacked == row # None => Backed(row)

\* What is on offer or accepted is in the record: no revised plan without its
\* counter, no queue plan without its reroute.
Recorded(p, done) ==
    /\ p \in {"plan_r1", "plan_r1_queue"} => "counter" \in done
    /\ p \in {"plan_queue", "plan_r1_queue"} => "reroute" \in done

OffersAreRecorded ==
    row # None => Recorded(row.proposal, row.done) /\ Recorded(row.commitment, row.done)

\* However operations overlap and tokens are mixed, the session never goes
\* beyond what its own guest delegated to its own agent: every operation it
\* tells of, and every permission it grants, is covered by one client token.
Delegated(needs) == \E token \in ClientTokens : needs \subseteq TokenScope[token]

WithinDelegation(s) ==
    /\ \A op \in s.done \ {"capability", "receipt"} : Delegated(Required(op, {}))
    /\ s.permissions # {} => Delegated(s.permissions)

\* Once an operation passed the delegation check the token on file is one of
\* the client's own, although a rejected one may open the session.
ChecksItsToken(s) ==
    s.done \ {"receipt"} # {} \/ s.state = "verified" => s.token \in ClientTokens

OperationsAreDelegated == row # None => WithinDelegation(row) /\ ChecksItsToken(row)

\* An operation leaves the record and the commitment, unless it overwrites
\* what others wrote after it had read the session.
Forgets(before, after) ==
    \/ ~(before.done \subseteq after.done)
    \/ before.commitment # None /\ after.commitment = None

OnlyStaleWritersForget ==
    [][row # None /\ Forgets(row, row') =>
          \E t \in Threads : request[t].stale /\ row' = request[t].copy]_vars
=============================================================================
