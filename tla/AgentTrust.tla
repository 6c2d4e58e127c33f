----------------------------- MODULE AgentTrust -----------------------------
(***************************************************************************)
(* The agent trust registry: partner allowlists, onboarding records,       *)
(* signing keys, revocations and certification credentials.                *)
(*                                                                         *)
(* The registry is one SQLite file.  The request threads of the Spring     *)
(* process work on it (AgentTrustService.java and, for certification,      *)
(* AgentCertificationService.java), and so does the Python process, which  *)
(* resets the default partners and looks for a signing key whenever it     *)
(* starts (agent_handshake.py, agent_trust_store.py).  A transaction or a  *)
(* query is one step; nothing holds across the transactions of a request,  *)
(* and a request may end by an exception between any two of them.          *)
(*                                                                         *)
(* One partner is modelled, one of those the Python process resets.        *)
(***************************************************************************)
CONSTANTS
    Threads,       \* request threads of the Spring process
    Agents,        \* agents of the partner
    Scopes,        \* what an agent may ask for
    DefaultScopes, \* DEFAULT_DELEGATION_SCOPES
    Grants,        \* scope lists that occur in requests, {} for an empty one
    Keys,          \* signing keys, one per key version
    DefaultKey,    \* the key of version "v1"
    Certs,         \* certification ids (bound of the model: each is used once)
    None           \* no row, no key, no id, nothing in hand

ASSUME TrustAssumption ==
    /\ DefaultScopes \subseteq Scopes
    /\ Grants \subseteq SUBSET Scopes
    /\ DefaultKey \in Keys
    /\ None \notin Agents \cup Keys \cup Certs

VARIABLES
    partner,     \* allowed_scopes of the partner's row, {} if there is none
    onboarding,  \* record_json of the agents' rows
    keys,        \* status of the rows of certification_keys, "none" if missing
    revoked,     \* rows of credential_revocations
    credentials, \* credentials handed out
    usedCerts,   \* certification ids generated so far
    request,     \* request[t]: what thread t is doing
    python,      \* how far the Python process is in _load_trust_registry
    listed       \* history: every allowlist the partner's row has had

vars == <<partner, onboarding, keys, revoked, credentials, usedCerts, request, python, listed>>

\* list is the snapshot of the partner's allowlist taken by the registration.
Onboarding == [status : {"registered", "approved", "blocked"}, asked : SUBSET Scopes,
               list : SUBSET Scopes, cert : Certs \cup {None}]

Credential == [cert : Certs, agent : Agents, scopes : SUBSET Scopes,
               list : SUBSET Scopes, key : Keys]

Stages == {"idle", "register", "session", "sign", "ensure", "update"}
Request == [stage : Stages, agent : Agents \cup {None}, asked : SUBSET Scopes,
            list : SUBSET Scopes, cert : Certs \cup {None}, key : Keys \cup {None}]

Idle == [stage |-> "idle", agent |-> None, asked |-> {}, list |-> {},
         cert |-> None, key |-> None]

-----------------------------------------------------------------------------
WithDefault(values, fallback) == IF values = {} THEN fallback ELSE values

\* activeKey: the time stamps of the two processes do not order the keys, so
\* any active one may come out newest.
ActiveKeys == {k \in Keys : keys[k] = "active"}

\* Faulty variant: the retiring UPDATE runs after the new key was written.
RotatedRetiringLast(k) ==
    [x \in Keys |-> IF x = k \/ keys[x] = "active" THEN "retired" ELSE keys[x]]

\* Faulty variant: the former active key is not retired.
RotatedWithoutRetiring(k) == [keys EXCEPT ![k] = "active"]

\* One transaction retires what is active and upserts the new key.
Rotated(k) ==
    [x \in Keys |-> IF x = k THEN "active"
                    ELSE IF keys[x] = "active" THEN "retired" ELSE keys[x]]

Init ==
    /\ partner = {}
    /\ onboarding = [a \in Agents |-> None]
    /\ keys = [k \in Keys |-> "none"]
    /\ revoked = {}
    /\ credentials = {}
    /\ usedCerts = {}
    /\ request = [t \in Threads |-> Idle]
    /\ python = "fresh"
    /\ listed = {}

-----------------------------------------------------------------------------
(* Steps shared by the requests. *)

\* The partner's row is written with an allowlist.
WritePartner(list) ==
    /\ partner' = list
    /\ listed' = listed \cup {list}

Begin(t, q) ==
    /\ request[t] = Idle
    /\ request' = [request EXCEPT ![t] = q]

Moves(t, stage) == request' = [request EXCEPT ![t].stage = stage]

\* Faulty variant: the thread is handed back with its request still in hand.
FinishKeepsRequest(t) == Moves(t, "idle")

Finish(t) == request' = [request EXCEPT ![t] = Idle]

-----------------------------------------------------------------------------
(* registerOnboarding: one query for the partner, whose allowlist counts   *)
(* unless the request brings one along, then one transaction that writes   *)
(* the partner back together with the fresh onboarding record.  An empty   *)
(* list stands for the default scopes.                                     *)

ReadPartner(t, a, asked, list) ==
    /\ Begin(t, [Idle EXCEPT !.stage = "register", !.agent = a,
                             !.asked = WithDefault(asked, DefaultScopes),
                             !.list = WithDefault(list, DefaultScopes)])
    /\ UNCHANGED <<partner, listed, onboarding, keys, revoked, credentials, usedCerts, python>>

\* Faulty variant: a list the request brings along is kept in the record, but
\* the row of a partner that is known already is left as it is.
CommitRegistrationOfKnown(t) ==
    LET q == request[t] IN
    /\ q.stage = "register"
    /\ WritePartner(WithDefault(partner, q.list))
    /\ onboarding' = [onboarding EXCEPT ![q.agent] =
                        [status |-> "registered", asked |-> q.asked,
                         list |-> q.list, cert |-> None]]
    /\ Finish(t)
    /\ UNCHANGED <<keys, revoked, credentials, usedCerts, python>>

CommitRegistration(t) ==
    LET q == request[t] IN
    /\ q.stage = "register"
    /\ WritePartner(q.list)
    /\ onboarding' = [onboarding EXCEPT ![q.agent] =
                        [status |-> "registered", asked |-> q.asked,
                         list |-> q.list, cert |-> None]]
    /\ Finish(t)
    /\ UNCHANGED <<keys, revoked, credentials, usedCerts, python>>

-----------------------------------------------------------------------------
(* certify: reads the record, runs the required cases in a session, reads  *)
(* or records the signing key, and writes the record it read back.         *)

\* Faulty variant: the requested scopes are not compared with the allowlist.
ReadRecordUnchecked(t, a, asked, c) ==
    LET record == onboarding[a] IN
    /\ record # None
    /\ c \in Certs \ usedCerts
    /\ usedCerts' = usedCerts \cup {c}
    /\ Begin(t, [Idle EXCEPT !.stage = "session", !.agent = a, !.cert = c,
                             !.asked = WithDefault(asked, record.asked),
                             !.list = record.list])
    /\ UNCHANGED <<partner, listed, onboarding, keys, revoked, credentials, python>>

ReadRecord(t, a, asked, c) ==
    LET record == onboarding[a]
        wanted == WithDefault(asked, record.asked)
    IN
    /\ record # None
    /\ c \in Certs \ usedCerts
    /\ usedCerts' = usedCerts \cup {c}
    /\ Begin(t, [Idle EXCEPT !.stage = IF wanted \subseteq record.list
                                       THEN "session" ELSE "update",
                             !.agent = a, !.cert = c,
                             !.asked = wanted, !.list = record.list])
    /\ UNCHANGED <<partner, listed, onboarding, keys, revoked, credentials, python>>

\* The handshake session passes all the required cases, or it does not.
RunSession(t) ==
    /\ request[t].stage = "session"
    /\ Moves(t, "sign") \/ Moves(t, "update")
    /\ UNCHANGED <<partner, listed, onboarding, keys, revoked, credentials, usedCerts, python>>

\* issueCertificationCredential, with the active key if there is one.
ReadActiveKey(t) ==
    /\ request[t].stage = "sign"
    /\ IF ActiveKeys = {}
       THEN Moves(t, "ensure")
       ELSE \E k \in ActiveKeys :
              request' = [request EXCEPT ![t].stage = "update", ![t].key = k]
    /\ UNCHANGED <<partner, listed, onboarding, keys, revoked, credentials, usedCerts, python>>

\* Signed with "v1" or, for issuerMetadata, only shown.
UseDefaultKey(t) ==
    IF request[t].agent = None THEN Finish(t)
    ELSE request' = [request EXCEPT ![t].stage = "update", ![t].key = DefaultKey]

\* Faulty variant: somebody else may have activated a key by now, so the
\* default key is not written; the caller goes on with it all the same.
RecordDefaultKeyOnce(t) ==
    /\ request[t].stage = "ensure"
    /\ keys' = IF ActiveKeys = {} THEN [keys EXCEPT ![DefaultKey] = "active"] ELSE keys
    /\ UseDefaultKey(t)
    /\ UNCHANGED <<partner, listed, onboarding, revoked, credentials, usedCerts, python>>

\* ensureActiveCertificationKey found none: it writes "v1" without looking
\* again and without retiring what became active meanwhile.
RecordDefaultKey(t) ==
    /\ request[t].stage = "ensure"
    /\ keys' = [keys EXCEPT ![DefaultKey] = "active"]
    /\ UseDefaultKey(t)
    /\ UNCHANGED <<partner, listed, onboarding, revoked, credentials, usedCerts, python>>

\* Faulty variant: the credential carries the scopes of the record as it is
\* now, not those that were checked.
IssuedForRecord(q) ==
    IF q.key = None THEN {}
    ELSE {[cert |-> q.cert, agent |-> q.agent, scopes |-> onboarding[q.agent].asked,
           list |-> q.list, key |-> q.key]}

Issued(q) ==
    IF q.key = None THEN {}
    ELSE {[cert |-> q.cert, agent |-> q.agent, scopes |-> q.asked,
           list |-> q.list, key |-> q.key]}

\* updateOnboardingRecord: the whole record as it was read, with the outcome.
CommitCertification(t) ==
    LET q == request[t] IN
    /\ q.stage = "update"
    /\ onboarding' = [onboarding EXCEPT ![q.agent] =
                        [status |-> IF q.key = None THEN "blocked" ELSE "approved",
                         asked |-> q.asked, list |-> q.list, cert |-> q.cert]]
    /\ credentials' = credentials \cup Issued(q)
    /\ Finish(t)
    /\ UNCHANGED <<partner, listed, keys, revoked, usedCerts, python>>

-----------------------------------------------------------------------------
(* The remaining requests are a single transaction. *)

\* issuerMetadata reads the active key; only a missing one leads on.
ReadIssuer(t) ==
    /\ ActiveKeys = {}
    /\ Begin(t, [Idle EXCEPT !.stage = "ensure"])
    /\ UNCHANGED <<partner, listed, onboarding, keys, revoked, credentials, usedCerts, python>>

UpsertPartner(list) ==
    /\ WritePartner(list)
    /\ UNCHANGED <<onboarding, keys, revoked, credentials, usedCerts, request, python>>

\* rotateKey, also to a version that is active or was retired.
RotateKey(k) ==
    /\ keys' = Rotated(k)
    /\ UNCHANGED <<partner, listed, onboarding, revoked, credentials, usedCerts, request, python>>

\* revokeCredential, by the id of a credential somebody holds, leaves the
\* onboarding record as it is.
RevokeCredential(c) ==
    /\ revoked' = revoked \cup {c}
    /\ UNCHANGED <<partner, listed, onboarding, keys, credentials, usedCerts, request, python>>

\* A transaction failed, or the Spring process died.
Abort(t) ==
    /\ request[t] # Idle
    /\ Finish(t)
    /\ UNCHANGED <<partner, listed, onboarding, keys, revoked, credentials, usedCerts, python>>

-----------------------------------------------------------------------------
(* The Python process: _load_trust_registry, once per start. *)

PythonMoves(stage) ==
    /\ python' = stage
    /\ UNCHANGED <<onboarding, revoked, credentials, usedCerts, request>>

ResetPartners ==
    /\ python = "fresh"
    /\ WritePartner(DefaultScopes)
    /\ PythonMoves("reset")
    /\ UNCHANGED keys

FindActiveKey ==
    /\ python = "reset"
    /\ PythonMoves(IF ActiveKeys = {} THEN "ensure" ELSE "ready")
    /\ UNCHANGED <<partner, listed, keys>>

\* record_key, unlike its Java counterpart, retires the other active keys.
RecordPythonKey ==
    /\ python = "ensure"
    /\ keys' = Rotated(DefaultKey)
    /\ PythonMoves("ready")
    /\ UNCHANGED <<partner, listed>>

RestartPython ==
    /\ python # "fresh"
    /\ PythonMoves("fresh")
    /\ UNCHANGED <<partner, listed, keys>>

-----------------------------------------------------------------------------
PythonStep == ResetPartners \/ FindActiveKey \/ RecordPythonKey \/ RestartPython

ThreadStep(t) ==
    \/ \E a \in Agents, asked \in Grants :
          \/ \E list \in Grants \cup {partner} : ReadPartner(t, a, asked, list)
          \/ \E c \in Certs : ReadRecord(t, a, asked, c)
    \/ CommitRegistration(t) \/ RunSession(t) \/ ReadActiveKey(t)
    \/ RecordDefaultKey(t) \/ CommitCertification(t) \/ ReadIssuer(t) \/ Abort(t)

Admin ==
    \/ \E list \in Grants : UpsertPartner(list)
    \/ \E k \in Keys : RotateKey(k)
    \/ \E c \in credentials : RevokeCredential(c.cert)

Next == PythonStep \/ Admin \/ \E t \in Threads : ThreadStep(t)

Spec == Init /\ [][Next]_vars

-----------------------------------------------------------------------------
(* Properties. *)

\* The shape of the state; a thread without a request holds nothing, one that
\* certifies has an agent and an id of its own.
HoldsItsOwn(q, certs) ==
    /\ q.stage = "idle" => q = Idle
    /\ q.stage \in {"register", "session", "sign", "update"} => q.agent \in Agents
    /\ q.agent \in Agents /\ q.stage # "register" => q.cert \in certs

TrustTypeOK ==
    /\ partner \subseteq Scopes
    /\ onboarding \in [Agents -> Onboarding \cup {None}]
    /\ keys \in [Keys -> {"none", "active", "retired"}]
    /\ revoked \subseteq Certs
    /\ credentials \subseteq Credential
    /\ usedCerts \subseteq Certs
    /\ request \in [Threads -> Request]
    /\ python \in {"fresh", "reset", "ensure", "ready"}
    /\ listed \subseteq SUBSET Scopes
    /\ \A t \in Threads : HoldsItsOwn(request[t], usedCerts)

\* Whatever the two processes rotate, record or leave half done: once there is
\* a signing key, one is active.
KeyAlwaysActive == (\E k \in Keys : keys[k] # "none") => ActiveKeys # {}

\* "Ensure" and "rotate" race, so a key may become active beside another one;
\* but only the default key does, so there are never more than two.
SecondKeyIsDefault ==
    [][\A k \in ActiveKeys' \ ActiveKeys : ActiveKeys' = {k} \/ k = DefaultKey]_vars

\* Rotation never breaks a credential: its key stays known, so it verifies
\* until it is revoked (docs/agent-handshake-integration-pack.md:379).
Verifies(c) == keys[c.key] \in {"active", "retired"} /\ c.cert \notin revoked

CredentialsStayVerifiable ==
    \A c \in credentials : c.cert \in revoked \/ Verifies(c)

\* An approved record names a credential that was issued to that agent for
\* exactly the scopes, and under exactly the allowlist, the record shows.
ApprovalsAreBacked ==
    \A a \in Agents :
        onboarding[a] # None /\ onboarding[a].status = "approved" =>
            \E c \in credentials :
                /\ c.cert = onboarding[a].cert
                /\ c.agent = a
                /\ c.scopes = onboarding[a].asked
                /\ c.list = onboarding[a].list

\* An allowlist is copied from the partner's row, or from a request that also
\* writes it there, into a record, a certification and a credential, while both
\* processes overwrite the row.  What a credential goes by may be outdated, but
\* the partner's row did have it, and the credential does not go beyond it.
IssuedUnderARealAllowlist ==
    \A c \in credentials : c.list \in listed /\ c.scopes \subseteq c.list

\* What a certification in flight relies on: the key it read is still on file,
\* and what it asks for passed the check against the list it read, although
\* the registry moves on in the meantime.
Certifying(q) == q.stage \in {"session", "sign"} \/ (q.stage = "ensure" /\ q.agent # None)

RequestsAreSound ==
    \A t \in Threads :
        /\ request[t].key # None => keys[request[t].key] # "none"
        /\ Certifying(request[t]) \/ request[t].key # None
              => request[t].asked \subseteq request[t].list

(* A statement of the repository that the code keeps only as of registration. *)

\* "If the requested scopes exceed the partner allowlist, certification is
\* blocked and no credential is issued."
IssuedWithinAllowlist ==
    [][\A c \in credentials' \ credentials : c.scopes \subseteq partner]_vars
=============================================================================
