-------------------------- MODULE AgentTrustProofs --------------------------
(***************************************************************************)
(* Theorems about AgentTrust, for any number of threads, agents, keys,     *)
(* scopes and certifications.  One inductive invariant carries them: the   *)
(* types, what is said of keys, credentials and records, and what a        *)
(* request in flight still relies on.                                      *)
(***************************************************************************)
EXTENDS AgentTrust, TLAPS

-----------------------------------------------------------------------------
(* Types. *)

\* A thread that goes on with q leaves every thread with what it may hold,
\* provided q does and no certification id is withdrawn.
LEMMA RequestsMoveOn ==
    ASSUME NEW t \in Threads, NEW q \in Request,
           request \in [Threads -> Request],
           \A u \in Threads : HoldsItsOwn(request[u], usedCerts),
           usedCerts \subseteq usedCerts',
           request' = [request EXCEPT ![t] = q],
           HoldsItsOwn(q, usedCerts')
    PROVE  /\ request' \in [Threads -> Request]
           /\ \A u \in Threads : HoldsItsOwn(request'[u], usedCerts')
<1>1. request' \in [Threads -> Request]
    OBVIOUS
<1>2. ASSUME NEW u \in Threads PROVE HoldsItsOwn(request'[u], usedCerts')
    <2>1. CASE u = t
        BY <2>1
    <2>2. CASE u # t
        <3>1. request'[u] = request[u]
            BY <2>2
        <3>2. HoldsItsOwn(request[u], usedCerts)
            OBVIOUS
        <3> QED
            BY <3>1, <3>2 DEF HoldsItsOwn
    <2> QED
        BY <2>1, <2>2
<1> QED
    BY <1>1, <1>2

\* An idle thread is well-typed and holds nothing.
LEMMA IdleIsARequest ==
    /\ Idle \in Request
    /\ \A certs : HoldsItsOwn(Idle, certs)
    BY TrustAssumption DEF Idle, Request, Stages, HoldsItsOwn

\* A thread that finishes.
LEMMA FinishKeepsTypes ==
    ASSUME NEW t \in Threads, TrustTypeOK, Finish(t), usedCerts' = usedCerts
    PROVE  /\ request' \in [Threads -> Request]
           /\ \A u \in Threads : HoldsItsOwn(request'[u], usedCerts')
    BY RequestsMoveOn, IdleIsARequest DEF TrustTypeOK, Finish

\* A thread that goes on to the next stage of a certification.
LEMMA MovesKeepTypes ==
    ASSUME NEW t \in Threads, TrustTypeOK, usedCerts' = usedCerts,
           NEW stage \in {"sign", "update", "ensure"},
           request[t].stage \in {"session", "sign"},
           Moves(t, stage)
    PROVE  /\ request' \in [Threads -> Request]
           /\ \A u \in Threads : HoldsItsOwn(request'[u], usedCerts')
<1> DEFINE q == [request[t] EXCEPT !.stage = stage]
<1>1. request[t] \in Request /\ HoldsItsOwn(request[t], usedCerts)
    BY DEF TrustTypeOK
<1>2. q \in Request
    BY <1>1 DEF Request, Stages
<1>3. HoldsItsOwn(q, usedCerts')
    BY <1>1 DEF HoldsItsOwn, Request
<1>4. request' = [request EXCEPT ![t] = q]
    BY DEF Moves, TrustTypeOK
<1> QED
    BY <1>2, <1>3, <1>4, RequestsMoveOn DEF TrustTypeOK

\* A certification that has got its key.
LEMMA KeyReadKeepsTypes ==
    ASSUME NEW t \in Threads, TrustTypeOK, usedCerts' = usedCerts,
           NEW k \in Keys,
           request[t].agent \in Agents,
           request[t].stage # "register",
           request' = [request EXCEPT ![t].stage = "update", ![t].key = k]
    PROVE  /\ request' \in [Threads -> Request]
           /\ \A u \in Threads : HoldsItsOwn(request'[u], usedCerts')
<1> DEFINE q == [request[t] EXCEPT !.stage = "update", !.key = k]
<1>1. request[t] \in Request /\ HoldsItsOwn(request[t], usedCerts)
    BY DEF TrustTypeOK
<1>2. q \in Request
    BY <1>1 DEF Request, Stages
<1>3. HoldsItsOwn(q, usedCerts')
    BY <1>1 DEF HoldsItsOwn, Request
<1>4. request' = [request EXCEPT ![t] = q]
    BY DEF TrustTypeOK
<1> QED
    BY <1>2, <1>3, <1>4, RequestsMoveOn DEF TrustTypeOK

\* One thread's step, action by action.
LEMMA ThreadKeepsTypes ==
    ASSUME TrustTypeOK, NEW t \in Threads, ThreadStep(t)
    PROVE  TrustTypeOK'
<1> USE DEF TrustTypeOK
<1>1. ASSUME NEW a \in Agents, NEW asked \in Grants, NEW list \in Grants \cup {partner},
             ReadPartner(t, a, asked, list)
      PROVE  TrustTypeOK'
    <2> DEFINE q == [Idle EXCEPT !.stage = "register", !.agent = a,
                                 !.asked = WithDefault(asked, DefaultScopes),
                                 !.list = WithDefault(list, DefaultScopes)]
    <2>1. /\ WithDefault(asked, DefaultScopes) \in SUBSET Scopes
          /\ WithDefault(list, DefaultScopes) \in SUBSET Scopes
        BY TrustAssumption DEF WithDefault
    <2>2. q \in Request
        BY <2>1 DEF Idle, Request, Stages
    <2>3. HoldsItsOwn(q, usedCerts')
        BY DEF HoldsItsOwn, Idle
    <2>4. request' = [request EXCEPT ![t] = q] /\ usedCerts' = usedCerts
        BY <1>1 DEF ReadPartner, Begin
    <2>5. /\ request' \in [Threads -> Request]
          /\ \A u \in Threads : HoldsItsOwn(request'[u], usedCerts')
        BY <2>2, <2>3, <2>4, RequestsMoveOn
    <2> QED
        BY <1>1, <2>5 DEF ReadPartner
<1>2. ASSUME NEW a \in Agents, NEW asked \in Grants, NEW c \in Certs,
             ReadRecord(t, a, asked, c)
      PROVE  TrustTypeOK'
    <2> DEFINE record == onboarding[a]
               wanted == WithDefault(asked, record.asked)
               next == IF wanted \subseteq record.list THEN "session" ELSE "update"
               q == [Idle EXCEPT !.stage = next, !.agent = a, !.cert = c,
                                 !.asked = wanted, !.list = record.list]
    <2>1. record \in Onboarding
        BY <1>2 DEF ReadRecord
    <2>2. wanted \in SUBSET Scopes /\ record.list \in SUBSET Scopes
        BY <2>1, TrustAssumption DEF WithDefault, Onboarding
    <2>3. q \in Request
        BY <2>2 DEF Idle, Request, Stages
    <2>4. usedCerts' = usedCerts \cup {c}
        BY <1>2 DEF ReadRecord
    <2>5. HoldsItsOwn(q, usedCerts')
        BY <2>4 DEF HoldsItsOwn, Idle
    <2>6. request' = [request EXCEPT ![t] = q]
        BY <1>2 DEF ReadRecord, Begin
    <2>7. /\ request' \in [Threads -> Request]
          /\ \A u \in Threads : HoldsItsOwn(request'[u], usedCerts')
        BY <2>3, <2>4, <2>5, <2>6, RequestsMoveOn
    <2> QED
        BY <1>2, <2>4, <2>7 DEF ReadRecord
<1>3. CASE CommitRegistration(t)
    <2>1. request[t] \in Request
        OBVIOUS
    <2>2. partner' \subseteq Scopes
        BY <1>3, <2>1 DEF CommitRegistration, WritePartner, Request
    <2>3. onboarding' \in [Agents -> Onboarding \cup {None}]
        BY <1>3, <2>1 DEF CommitRegistration, Request, Onboarding
    <2>4. /\ request' \in [Threads -> Request]
          /\ \A u \in Threads : HoldsItsOwn(request'[u], usedCerts')
        BY <1>3, FinishKeepsTypes DEF CommitRegistration
    <2> QED
        BY <1>3, <2>1, <2>2, <2>3, <2>4 DEF CommitRegistration, WritePartner, Request
<1>4. CASE RunSession(t)
    <2>1. /\ request' \in [Threads -> Request]
          /\ \A u \in Threads : HoldsItsOwn(request'[u], usedCerts')
        BY <1>4, MovesKeepTypes DEF RunSession
    <2> QED
        BY <1>4, <2>1 DEF RunSession
<1>5. CASE ReadActiveKey(t)
    <2>1. /\ request' \in [Threads -> Request]
          /\ \A u \in Threads : HoldsItsOwn(request'[u], usedCerts')
        <3>1. CASE ActiveKeys = {}
            BY <1>5, <3>1, MovesKeepTypes DEF ReadActiveKey
        <3>2. CASE ActiveKeys # {}
            <4>1. PICK k \in ActiveKeys :
                     request' = [request EXCEPT ![t].stage = "update", ![t].key = k]
                BY <1>5, <3>2 DEF ReadActiveKey
            <4>2. k \in Keys
                BY DEF ActiveKeys
            <4>3. request[t].agent \in Agents /\ request[t].stage # "register"
                BY <1>5 DEF ReadActiveKey, HoldsItsOwn
            <4> QED
                BY <1>5, <4>1, <4>2, <4>3, KeyReadKeepsTypes DEF ReadActiveKey
        <3> QED
            BY <3>1, <3>2
    <2> QED
        BY <1>5, <2>1 DEF ReadActiveKey
<1>6. CASE RecordDefaultKey(t)
    <2>1. /\ request' \in [Threads -> Request]
          /\ \A u \in Threads : HoldsItsOwn(request'[u], usedCerts')
        <3>1. CASE request[t].agent = None
            BY <1>6, <3>1, FinishKeepsTypes DEF RecordDefaultKey, UseDefaultKey
        <3>2. CASE request[t].agent # None
            <4>1. request[t].agent \in Agents /\ request[t].stage # "register"
                BY <1>6, <3>2 DEF RecordDefaultKey, Request
            <4>2. /\ request' = [request EXCEPT ![t].stage = "update", ![t].key = DefaultKey]
                  /\ usedCerts' = usedCerts
                BY <1>6, <3>2 DEF RecordDefaultKey, UseDefaultKey
            <4> QED
                BY <4>1, <4>2, KeyReadKeepsTypes, TrustAssumption
        <3> QED
            BY <3>1, <3>2
    <2> QED
        BY <1>6, <2>1 DEF RecordDefaultKey
<1>7. CASE CommitCertification(t)
    <2> DEFINE q == request[t]
    <2>1. /\ q \in Request
          /\ q.agent \in Agents
          /\ q.cert \in Certs
        BY <1>7 DEF CommitCertification, HoldsItsOwn
    <2>2. onboarding' \in [Agents -> Onboarding \cup {None}]
        BY <1>7, <2>1 DEF CommitCertification, Request, Onboarding
    <2>3. Issued(q) \subseteq Credential
        BY <2>1 DEF Issued, Request, Credential
    <2>4. credentials' \subseteq Credential
        BY <1>7, <2>3 DEF CommitCertification
    <2>5. /\ request' \in [Threads -> Request]
          /\ \A u \in Threads : HoldsItsOwn(request'[u], usedCerts')
        BY <1>7, FinishKeepsTypes DEF CommitCertification
    <2> QED
        BY <1>7, <2>2, <2>4, <2>5 DEF CommitCertification
<1>8. CASE ReadIssuer(t)
    <2> DEFINE q == [Idle EXCEPT !.stage = "ensure"]
    <2>1. q \in Request
        BY IdleIsARequest DEF Request, Stages, Idle
    <2>2. HoldsItsOwn(q, usedCerts')
        BY TrustAssumption DEF HoldsItsOwn, Idle
    <2>3. request' = [request EXCEPT ![t] = q] /\ usedCerts' = usedCerts
        BY <1>8 DEF ReadIssuer, Begin
    <2>4. /\ request' \in [Threads -> Request]
          /\ \A u \in Threads : HoldsItsOwn(request'[u], usedCerts')
        BY <2>1, <2>2, <2>3, RequestsMoveOn
    <2> QED
        BY <1>8, <2>4 DEF ReadIssuer
<1>9. CASE Abort(t)
    <2>1. /\ request' \in [Threads -> Request]
          /\ \A u \in Threads : HoldsItsOwn(request'[u], usedCerts')
        BY <1>9, FinishKeepsTypes DEF Abort
    <2> QED
        BY <1>9, <2>1 DEF Abort
<1> QED
    BY <1>1, <1>2, <1>3, <1>4, <1>5, <1>6, <1>7, <1>8, <1>9 DEF ThreadStep

\* The steps of the Python process and of the administrators leave the
\* requests alone.
LEMMA OthersKeepTypes ==
    ASSUME TrustTypeOK, PythonStep \/ Admin
    PROVE  TrustTypeOK'
<1> USE DEF TrustTypeOK, HoldsItsOwn, PythonMoves
<1>1. CASE ResetPartners
    BY <1>1, TrustAssumption DEF ResetPartners, WritePartner
<1>2. CASE FindActiveKey
    BY <1>2 DEF FindActiveKey
<1>3. CASE RecordPythonKey
    BY <1>3 DEF RecordPythonKey, Rotated
<1>4. CASE RestartPython
    BY <1>4 DEF RestartPython
<1>5. ASSUME NEW list \in Grants, UpsertPartner(list) PROVE TrustTypeOK'
    BY <1>5, TrustAssumption DEF UpsertPartner, WritePartner
<1>6. ASSUME NEW k \in Keys, RotateKey(k) PROVE TrustTypeOK'
    BY <1>6 DEF RotateKey, Rotated
<1>7. ASSUME NEW c \in credentials, RevokeCredential(c.cert) PROVE TrustTypeOK'
    BY <1>7 DEF RevokeCredential, Credential
<1> QED
    BY <1>1, <1>2, <1>3, <1>4, <1>5, <1>6, <1>7 DEF PythonStep, Admin

\* The registry and the requests on it are well-typed; an idle thread holds
\* nothing, and a certification has an agent and an id of its own.
THEOREM TrustTypes == Spec => []TrustTypeOK
<1>1. Init => TrustTypeOK
    BY IdleIsARequest DEF Init, TrustTypeOK
<1>2. TrustTypeOK /\ [Next]_vars => TrustTypeOK'
    <2> SUFFICES ASSUME TrustTypeOK, [Next]_vars PROVE TrustTypeOK'
        OBVIOUS
    <2>1. CASE UNCHANGED vars
        BY <2>1 DEF vars, TrustTypeOK, HoldsItsOwn
    <2>2. CASE Next
        BY <2>2, ThreadKeepsTypes, OthersKeepTypes DEF Next
    <2> QED
        BY <2>1, <2>2
<1> QED
    BY <1>1, <1>2, PTL DEF Spec

-----------------------------------------------------------------------------
(* Signing keys. *)

\* What a step may do to the keys: nothing, a rotation, or the default key
\* written by a Spring thread that found none.
LEMMA KeysChange ==
    ASSUME [Next]_vars
    PROVE  \/ keys' = keys
           \/ \E k \in Keys : keys' = Rotated(k)
           \/ keys' = [keys EXCEPT ![DefaultKey] = "active"]
<1>1. CASE UNCHANGED vars
    BY <1>1 DEF vars
<1>2. CASE PythonStep
    BY <1>2, TrustAssumption
       DEF PythonStep, ResetPartners, FindActiveKey, RecordPythonKey, RestartPython
<1>3. CASE Admin
    BY <1>3 DEF Admin, UpsertPartner, RotateKey, RevokeCredential
<1>4. ASSUME NEW t \in Threads, ThreadStep(t)
      PROVE  keys' = keys \/ keys' = [keys EXCEPT ![DefaultKey] = "active"]
    BY <1>4 DEF ThreadStep, ReadPartner, ReadRecord, CommitRegistration, RunSession,
                ReadActiveKey, RecordDefaultKey, CommitCertification, ReadIssuer, Abort
<1> QED
    BY <1>1, <1>2, <1>3, <1>4 DEF Next

\* No step forgets a key.
LEMMA KeysAreKept ==
    ASSUME TrustTypeOK, [Next]_vars, NEW k \in Keys, keys[k] # "none"
    PROVE  keys'[k] # "none"
<1>1. CASE keys' = keys
    BY <1>1
<1>2. ASSUME NEW j \in Keys, keys' = Rotated(j) PROVE keys'[k] # "none"
    BY <1>2 DEF Rotated
<1>3. CASE keys' = [keys EXCEPT ![DefaultKey] = "active"]
    BY <1>3 DEF TrustTypeOK
<1> QED
    BY <1>1, <1>2, <1>3, KeysChange

\* Once there is a signing key, one is active: a rotation retires and
\* activates in one transaction, and recording the default key retires none.
THEOREM AKeyIsActive == Spec => []KeyAlwaysActive
<1>1. Init => KeyAlwaysActive
    BY DEF Init, KeyAlwaysActive
<1>2. TrustTypeOK /\ KeyAlwaysActive /\ [Next]_vars => KeyAlwaysActive'
    <2> SUFFICES ASSUME TrustTypeOK, KeyAlwaysActive, [Next]_vars
                 PROVE  KeyAlwaysActive'
        OBVIOUS
    <2>1. CASE keys' = keys
        BY <2>1 DEF KeyAlwaysActive, ActiveKeys
    <2>2. ASSUME NEW k \in Keys, keys' = Rotated(k) PROVE KeyAlwaysActive'
        BY <2>2 DEF KeyAlwaysActive, ActiveKeys, Rotated
    <2>3. CASE keys' = [keys EXCEPT ![DefaultKey] = "active"]
        BY <2>3, TrustAssumption DEF KeyAlwaysActive, ActiveKeys, TrustTypeOK
    <2> QED
        BY <2>1, <2>2, <2>3, KeysChange
<1> QED
    BY <1>1, <1>2, TrustTypes, PTL DEF Spec

\* A key becomes active alone, unless it is the default key.
THEOREM OnlyTheDefaultKeyJoins == Spec => SecondKeyIsDefault
<1> DEFINE Joins == \A k \in ActiveKeys' \ ActiveKeys : ActiveKeys' = {k} \/ k = DefaultKey
<1>1. TrustTypeOK /\ [Next]_vars => Joins
    <2> SUFFICES ASSUME TrustTypeOK, [Next]_vars, NEW k \in ActiveKeys' \ ActiveKeys
                 PROVE  ActiveKeys' = {k} \/ k = DefaultKey
        OBVIOUS
    <2>1. CASE keys' = keys
        BY <2>1 DEF ActiveKeys
    <2>2. ASSUME NEW j \in Keys, keys' = Rotated(j) PROVE ActiveKeys' = {k}
        BY <2>2 DEF ActiveKeys, Rotated
    <2>3. CASE keys' = [keys EXCEPT ![DefaultKey] = "active"]
        BY <2>3 DEF ActiveKeys, TrustTypeOK
    <2> QED
        BY <2>1, <2>2, <2>3, KeysChange
<1> QED
    BY <1>1, TrustTypes, PTL DEF Spec, SecondKeyIsDefault

\* Nothing but the default key can be active beside another key.
OneKeyBesideTheDefault == \A j, k \in ActiveKeys \ {DefaultKey} : j = k

\* However rotations, both processes' first keys and restarts interleave, two
\* keys at most are active, and one of two is the default key: a credential is
\* signed with the key of the last rotation or with "v1".
THEOREM AtMostTwoKeysAreActive == Spec => []OneKeyBesideTheDefault
<1>1. Init => OneKeyBesideTheDefault
    BY DEF Init, OneKeyBesideTheDefault, ActiveKeys
<1>2. TrustTypeOK /\ OneKeyBesideTheDefault /\ [Next]_vars => OneKeyBesideTheDefault'
    <2> SUFFICES ASSUME TrustTypeOK, OneKeyBesideTheDefault, [Next]_vars
                 PROVE  OneKeyBesideTheDefault'
        OBVIOUS
    <2>1. CASE keys' = keys
        BY <2>1 DEF OneKeyBesideTheDefault, ActiveKeys
    <2>2. ASSUME NEW k \in Keys, keys' = Rotated(k) PROVE OneKeyBesideTheDefault'
        BY <2>2 DEF OneKeyBesideTheDefault, ActiveKeys, Rotated
    <2>3. CASE keys' = [keys EXCEPT ![DefaultKey] = "active"]
        BY <2>3 DEF OneKeyBesideTheDefault, ActiveKeys, TrustTypeOK
    <2> QED
        BY <2>1, <2>2, <2>3, KeysChange
<1> QED
    BY <1>1, <1>2, TrustTypes, PTL DEF Spec

-----------------------------------------------------------------------------
(* Credentials and the requests that issue them. *)

CredentialKeysKnown == \A c \in credentials : keys[c.key] # "none"

CredentialsWithinSnapshot == \A c \in credentials : c.scopes \subseteq c.list

\* The inductive invariant: the credentials handed out, and what the requests
\* that will hand out the next ones still rely on.
CredentialInv ==
    /\ CredentialKeysKnown
    /\ CredentialsWithinSnapshot
    /\ ApprovalsAreBacked
    /\ RequestsAreSound

\* RequestsAreSound, for one request.
Sound(q, ring) ==
    /\ q.key # None => ring[q.key] # "none"
    /\ Certifying(q) \/ q.key # None => q.asked \subseteq q.list

\* Thread t goes on with a sound request, the others with what they have.
LEMMA RequestsStaySound ==
    ASSUME TrustTypeOK, RequestsAreSound, [Next]_vars,
           NEW t \in Threads, NEW q, Sound(q, keys'),
           request' = [request EXCEPT ![t] = q]
    PROVE  RequestsAreSound'
<1> SUFFICES ASSUME NEW u \in Threads PROVE Sound(request'[u], keys')
    BY DEF RequestsAreSound, Sound, Certifying
<1>1. CASE u = t
    BY <1>1 DEF TrustTypeOK
<1>2. CASE u # t
    <2>1. request'[u] = request[u]
        BY <1>2 DEF TrustTypeOK
    <2>2. Sound(request[u], keys)
        BY DEF RequestsAreSound, Sound
    <2>3. request[u].key # None => request[u].key \in Keys
        BY DEF TrustTypeOK, Request
    <2> QED
        BY <2>1, <2>2, <2>3, KeysAreKept DEF Sound
<1> QED
    BY <1>1, <1>2

\* Nothing is in the hands of an idle thread.
LEMMA IdleIsSound == \A ring : Sound(Idle, ring)
    BY DEF Sound, Certifying, Idle

\* A step that issues nothing and decides no record.
LEMMA NothingIssued ==
    ASSUME TrustTypeOK, CredentialInv, [Next]_vars,
           credentials' = credentials, onboarding' = onboarding, RequestsAreSound'
    PROVE  CredentialInv'
<1>1. CredentialKeysKnown'
    BY KeysAreKept DEF CredentialInv, CredentialKeysKnown, TrustTypeOK, Credential
<1>2. CredentialsWithinSnapshot' /\ ApprovalsAreBacked'
    BY DEF CredentialInv, CredentialsWithinSnapshot, ApprovalsAreBacked
<1> QED
    BY <1>1, <1>2 DEF CredentialInv

\* The steps that start or continue a request.
LEMMA ThreadKeepsCredentials ==
    ASSUME TrustTypeOK, CredentialInv, NEW t \in Threads, ThreadStep(t)
    PROVE  CredentialInv'
<1>1. [Next]_vars
    BY DEF Next
<1>2. RequestsAreSound /\ Sound(request[t], keys) /\ request[t] \in Request
    BY DEF CredentialInv, RequestsAreSound, Sound, TrustTypeOK
<1>3. Finish(t) => RequestsAreSound'
    BY <1>1, <1>2, IdleIsSound, RequestsStaySound DEF Finish
<1>4. ASSUME NEW a \in Agents, NEW asked \in Grants, NEW list \in Grants \cup {partner},
             ReadPartner(t, a, asked, list)
      PROVE  CredentialInv'
    <2> DEFINE q == [Idle EXCEPT !.stage = "register", !.agent = a,
                                 !.asked = WithDefault(asked, DefaultScopes),
                                 !.list = WithDefault(list, DefaultScopes)]
    <2>1. Sound(q, keys')
        BY DEF Sound, Certifying, Idle
    <2>2. request' = [request EXCEPT ![t] = q]
        BY <1>4 DEF ReadPartner, Begin
    <2>3. RequestsAreSound'
        BY <1>1, <1>2, <2>1, <2>2, RequestsStaySound
    <2> QED
        BY <1>1, <1>4, <2>3, NothingIssued DEF ReadPartner
<1>5. ASSUME NEW a \in Agents, NEW asked \in Grants, NEW c \in Certs,
             ReadRecord(t, a, asked, c)
      PROVE  CredentialInv'
    <2> DEFINE record == onboarding[a]
               wanted == WithDefault(asked, record.asked)
               next == IF wanted \subseteq record.list THEN "session" ELSE "update"
               q == [Idle EXCEPT !.stage = next, !.agent = a, !.cert = c,
                                 !.asked = wanted, !.list = record.list]
    <2>1. Sound(q, keys')
        BY DEF Sound, Certifying, Idle
    <2>2. request' = [request EXCEPT ![t] = q]
        BY <1>5 DEF ReadRecord, Begin
    <2>3. RequestsAreSound'
        BY <1>1, <1>2, <2>1, <2>2, RequestsStaySound
    <2> QED
        BY <1>1, <1>5, <2>3, NothingIssued DEF ReadRecord
<1>6. CASE CommitRegistration(t)
    <2>1. RequestsAreSound' /\ keys' = keys /\ credentials' = credentials
        BY <1>3, <1>6 DEF CommitRegistration
    <2>2. ApprovalsAreBacked'
        <3> DEFINE fresh == [status |-> "registered", asked |-> request[t].asked,
                             list |-> request[t].list, cert |-> None]
        <3>1. onboarding' = [onboarding EXCEPT ![request[t].agent] = fresh]
            BY <1>6 DEF CommitRegistration
        <3>2. ASSUME NEW a \in Agents
              PROVE  onboarding'[a] = onboarding[a] \/ onboarding'[a].status = "registered"
            BY <3>1 DEF TrustTypeOK
        <3> QED
            BY <2>1, <3>2 DEF CredentialInv, ApprovalsAreBacked
    <2> QED
        BY <2>1, <2>2 DEF CredentialInv, CredentialKeysKnown, CredentialsWithinSnapshot
<1>7. CASE RunSession(t)
    <2>1. PICK stage \in {"sign", "update"} : Moves(t, stage)
        BY <1>7 DEF RunSession
    <2> DEFINE q == [request[t] EXCEPT !.stage = stage]
    <2>2. Sound(q, keys')
        BY <1>2, <1>7 DEF RunSession, Sound, Certifying, Request
    <2>3. request' = [request EXCEPT ![t] = q]
        BY <2>1 DEF Moves, TrustTypeOK
    <2>4. RequestsAreSound'
        BY <1>1, <1>2, <2>2, <2>3, RequestsStaySound
    <2> QED
        BY <1>1, <1>7, <2>4, NothingIssued DEF RunSession
<1>8. CASE ReadActiveKey(t)
    <2>1. CASE ActiveKeys = {}
        <3> DEFINE q == [request[t] EXCEPT !.stage = "ensure"]
        <3>1. Sound(q, keys')
            BY <1>2, <1>8 DEF ReadActiveKey, Sound, Certifying, Request
        <3>2. request' = [request EXCEPT ![t] = q]
            BY <1>8, <2>1 DEF ReadActiveKey, Moves, TrustTypeOK
        <3>3. RequestsAreSound'
            BY <1>1, <1>2, <3>1, <3>2, RequestsStaySound
        <3> QED
            BY <1>1, <1>8, <3>3, NothingIssued DEF ReadActiveKey
    <2>2. CASE ActiveKeys # {}
        <3>1. PICK k \in ActiveKeys :
                 request' = [request EXCEPT ![t].stage = "update", ![t].key = k]
            BY <1>8, <2>2 DEF ReadActiveKey
        <3> DEFINE q == [request[t] EXCEPT !.stage = "update", !.key = k]
        <3>2. keys'[k] # "none"
            BY <1>8 DEF ReadActiveKey, ActiveKeys
        <3>3. request[t].asked \subseteq request[t].list
            BY <1>2, <1>8 DEF ReadActiveKey, Sound, Certifying
        <3>4. Sound(q, keys')
            BY <1>2, <3>2, <3>3 DEF Sound, Request
        <3>5. request' = [request EXCEPT ![t] = q]
            BY <3>1 DEF TrustTypeOK
        <3>6. RequestsAreSound'
            BY <1>1, <1>2, <3>4, <3>5, RequestsStaySound
        <3> QED
            BY <1>1, <1>8, <3>6, NothingIssued DEF ReadActiveKey
    <2> QED
        BY <2>1, <2>2
<1>9. CASE RecordDefaultKey(t)
    <2>1. RequestsAreSound'
        <3>1. CASE request[t].agent = None
            BY <1>3, <1>9, <3>1 DEF RecordDefaultKey, UseDefaultKey
        <3>2. CASE request[t].agent # None
            <4> DEFINE q == [request[t] EXCEPT !.stage = "update", !.key = DefaultKey]
            <4>1. keys'[DefaultKey] # "none"
                BY <1>9, TrustAssumption DEF RecordDefaultKey, TrustTypeOK
            <4>2. request[t].asked \subseteq request[t].list
                BY <1>2, <1>9, <3>2 DEF RecordDefaultKey, Sound, Certifying
            <4>3. Sound(q, keys')
                BY <1>2, <4>1, <4>2 DEF Sound, Request
            <4>4. request' = [request EXCEPT ![t] = q]
                BY <1>9, <3>2 DEF RecordDefaultKey, UseDefaultKey, TrustTypeOK
            <4> QED
                BY <1>1, <1>2, <4>3, <4>4, RequestsStaySound
        <3> QED
            BY <3>1, <3>2
    <2> QED
        BY <1>1, <1>9, <2>1, NothingIssued DEF RecordDefaultKey
<1>10. CASE CommitCertification(t)
    <2> DEFINE q == request[t]
               decided == [status |-> IF q.key = None THEN "blocked" ELSE "approved",
                           asked |-> q.asked, list |-> q.list, cert |-> q.cert]
    <2>1. RequestsAreSound' /\ keys' = keys
        BY <1>3, <1>10 DEF CommitCertification
    <2>2. credentials' = credentials \cup Issued(q)
        BY <1>10 DEF CommitCertification
    <2>3. CredentialKeysKnown'
        <3>1. \A c \in Issued(q) : keys[c.key] # "none"
            BY <1>2 DEF Issued, Sound
        <3> QED
            BY <2>1, <2>2, <3>1 DEF CredentialInv, CredentialKeysKnown
    <2>4. CredentialsWithinSnapshot'
        <3>1. \A c \in Issued(q) : c.scopes \subseteq c.list
            BY <1>2 DEF Issued, Sound
        <3> QED
            BY <2>2, <3>1 DEF CredentialInv, CredentialsWithinSnapshot
    <2>5. ApprovalsAreBacked'
        <3>1. onboarding' = [onboarding EXCEPT ![q.agent] = decided]
            BY <1>10 DEF CommitCertification
        <3> SUFFICES ASSUME NEW a \in Agents,
                            onboarding'[a] # None, onboarding'[a].status = "approved"
                     PROVE  \E c \in credentials' :
                              /\ c.cert = onboarding'[a].cert
                              /\ c.agent = a
                              /\ c.scopes = onboarding'[a].asked
                              /\ c.list = onboarding'[a].list
            BY DEF ApprovalsAreBacked
        <3>2. CASE a = q.agent
            <4>1. onboarding'[a] = decided /\ q.key # None
                BY <3>1, <3>2 DEF TrustTypeOK
            <4> DEFINE issued == [cert |-> q.cert, agent |-> q.agent, scopes |-> q.asked,
                                  list |-> q.list, key |-> q.key]
            <4>2. issued \in credentials'
                BY <2>2, <4>1 DEF Issued
            <4> QED
                BY <3>2, <4>1, <4>2
        <3>3. CASE a # q.agent
            <4>1. onboarding'[a] = onboarding[a]
                BY <3>1, <3>3 DEF TrustTypeOK
            <4> QED
                BY <2>2, <4>1 DEF CredentialInv, ApprovalsAreBacked
        <3> QED
            BY <3>2, <3>3
    <2> QED
        BY <2>1, <2>3, <2>4, <2>5 DEF CredentialInv
<1>11. CASE ReadIssuer(t)
    <2> DEFINE q == [Idle EXCEPT !.stage = "ensure"]
    <2>1. Sound(q, keys')
        BY DEF Sound, Certifying, Idle
    <2>2. request' = [request EXCEPT ![t] = q]
        BY <1>11 DEF ReadIssuer, Begin
    <2>3. RequestsAreSound'
        BY <1>1, <1>2, <2>1, <2>2, RequestsStaySound
    <2> QED
        BY <1>1, <1>11, <2>3, NothingIssued DEF ReadIssuer
<1>12. CASE Abort(t)
    BY <1>1, <1>3, <1>12, NothingIssued DEF Abort
<1> QED
    BY <1>4, <1>5, <1>6, <1>7, <1>8, <1>9, <1>10, <1>11, <1>12 DEF ThreadStep

\* The Python process and the administrators touch no request, record or
\* credential, and forget no key.
LEMMA OthersKeepCredentials ==
    ASSUME TrustTypeOK, CredentialInv, PythonStep \/ Admin
    PROVE  CredentialInv'
<1>1. [Next]_vars
    BY DEF Next
<1>2. UNCHANGED <<request, credentials, onboarding>>
    BY DEF PythonStep, PythonMoves, ResetPartners, FindActiveKey, RecordPythonKey,
           RestartPython, Admin, UpsertPartner, RotateKey, RevokeCredential
<1>3. RequestsAreSound'
    <2> SUFFICES ASSUME NEW u \in Threads PROVE Sound(request[u], keys')
        BY <1>2 DEF RequestsAreSound, Sound, Certifying
    <2>1. Sound(request[u], keys)
        BY DEF CredentialInv, RequestsAreSound, Sound
    <2>2. request[u].key # None => request[u].key \in Keys
        BY DEF TrustTypeOK, Request
    <2> QED
        BY <1>1, <2>1, <2>2, KeysAreKept DEF Sound
<1> QED
    BY <1>1, <1>2, <1>3, NothingIssued

\* The invariant the theorems on credentials follow from.
THEOREM CredentialInvariant == Spec => []CredentialInv
<1>1. Init => CredentialInv
    BY IdleIsSound DEF Init, CredentialInv, CredentialKeysKnown, CredentialsWithinSnapshot,
                       ApprovalsAreBacked, RequestsAreSound, Sound
<1>2. TrustTypeOK /\ CredentialInv /\ [Next]_vars => CredentialInv'
    <2> SUFFICES ASSUME TrustTypeOK, CredentialInv, [Next]_vars PROVE CredentialInv'
        OBVIOUS
    <2>1. CASE UNCHANGED vars
        <3>1. RequestsAreSound'
            BY <2>1 DEF vars, CredentialInv, RequestsAreSound, Certifying
        <3> QED
            BY <2>1, <3>1, NothingIssued DEF vars
    <2>2. CASE Next
        BY <2>2, ThreadKeepsCredentials, OthersKeepCredentials DEF Next
    <2> QED
        BY <2>1, <2>2
<1> QED
    BY <1>1, <1>2, TrustTypes, PTL DEF Spec

\* However keys are rotated, a credential verifies until it is revoked.
THEOREM RotationKeepsCredentials == Spec => []CredentialsStayVerifiable
<1>1. TrustTypeOK /\ CredentialInv => CredentialsStayVerifiable
    BY DEF TrustTypeOK, CredentialInv, CredentialKeysKnown, CredentialsStayVerifiable,
           Verifies, Credential
<1> QED
    BY <1>1, TrustTypes, CredentialInvariant, PTL

\* An approved record is backed by a credential with the same id, agent,
\* scopes and allowlist, whoever overwrites whose record.
THEOREM ApprovalsHaveCredentials == Spec => []ApprovalsAreBacked
<1>1. CredentialInv => ApprovalsAreBacked
    BY DEF CredentialInv
<1> QED
    BY <1>1, CredentialInvariant, PTL

\* A certification in flight keeps a key that stays on file and a request that
\* stays within the list it was checked against, whatever happens beside it.
THEOREM RequestsInFlightAreSound == Spec => []RequestsAreSound
<1>1. CredentialInv => RequestsAreSound
    BY DEF CredentialInv
<1> QED
    BY <1>1, CredentialInvariant, PTL

-----------------------------------------------------------------------------
(* Allowlists, and their copies. *)

\* Every copy of an allowlist that a credential can come from, or came from, was
\* once in the partner's row; what a registration has in hand is not there yet.
CopiesAreListed ==
    /\ \A a \in Agents : onboarding[a] # None => onboarding[a].list \in listed
    /\ \A t \in Threads :
         request[t].agent # None /\ request[t].stage # "register"
            => request[t].list \in listed
    /\ \A c \in credentials : c.list \in listed

\* A step that writes no record and hands out no credential, where what a
\* certification has in hand is what it had before.
LEMMA CopiesStay ==
    ASSUME CopiesAreListed, listed \subseteq listed',
           onboarding' = onboarding, credentials' = credentials,
           \A u \in Threads :
              request'[u].agent # None /\ request'[u].stage # "register"
                 => \/ /\ request[u].agent # None /\ request[u].stage # "register"
                       /\ request'[u].list = request[u].list
                    \/ request'[u].list \in listed
    PROVE  CopiesAreListed'
    BY DEF CopiesAreListed

\* One thread's step, action by action.
LEMMA ThreadCopiesListed ==
    ASSUME TrustTypeOK, CopiesAreListed, NEW t \in Threads, ThreadStep(t)
    PROVE  CopiesAreListed'
<1>1. request \in [Threads -> Request] /\ onboarding \in [Agents -> Onboarding \cup {None}]
    BY DEF TrustTypeOK
<1>2. Idle.agent = None /\ Idle.stage = "idle"
    BY DEF Idle
<1>3. ASSUME NEW a \in Agents, NEW asked \in Grants, NEW list \in Grants \cup {partner},
             ReadPartner(t, a, asked, list)
      PROVE  CopiesAreListed'
    <2>1. /\ request'[t].stage = "register"
          /\ \A u \in Threads : u # t => request'[u] = request[u]
        BY <1>1, <1>3 DEF ReadPartner, Begin, Idle
    <2> QED
        BY <1>3, <2>1, CopiesStay DEF ReadPartner
<1>4. ASSUME NEW a \in Agents, NEW asked \in Grants, NEW c \in Certs,
             ReadRecord(t, a, asked, c)
      PROVE  CopiesAreListed'
    <2>1. /\ request'[t].list = onboarding[a].list
          /\ \A u \in Threads : u # t => request'[u] = request[u]
        BY <1>1, <1>4 DEF ReadRecord, Begin, Idle
    <2>2. onboarding[a].list \in listed
        BY <1>4 DEF ReadRecord, CopiesAreListed
    <2> QED
        BY <1>4, <2>1, <2>2, CopiesStay DEF ReadRecord
<1>5. CASE CommitRegistration(t)
    <2> DEFINE fresh == [status |-> "registered", asked |-> request[t].asked,
                         list |-> request[t].list, cert |-> None]
    <2>1. /\ onboarding' = [onboarding EXCEPT ![request[t].agent] = fresh]
          /\ listed' = listed \cup {request[t].list}
          /\ request' = [request EXCEPT ![t] = Idle]
          /\ credentials' = credentials
        BY <1>5 DEF CommitRegistration, WritePartner, Finish
    <2>2. \A a \in Agents : onboarding'[a] = onboarding[a] \/ onboarding'[a] = fresh
        BY <1>1, <2>1
    <2>3. \A u \in Threads : request'[u] = request[u] \/ request'[u].agent = None
        BY <1>1, <1>2, <2>1
    <2> QED
        BY <2>1, <2>2, <2>3 DEF CopiesAreListed
<1>6. CASE RunSession(t) \/ ReadActiveKey(t) \/ RecordDefaultKey(t)
    <2>1. \A u \in Threads :
             \/ /\ request'[u].agent = request[u].agent /\ request'[u].list = request[u].list
                /\ request[u].stage # "register" \/ request'[u] = request[u]
             \/ request'[u].agent = None
        BY <1>1, <1>2, <1>6
           DEF RunSession, ReadActiveKey, RecordDefaultKey, UseDefaultKey, Moves, Finish, Request
    <2> QED
        BY <1>6, <2>1, CopiesStay DEF RunSession, ReadActiveKey, RecordDefaultKey
<1>7. CASE CommitCertification(t)
    <2> DEFINE q == request[t]
               decided == [status |-> IF q.key = None THEN "blocked" ELSE "approved",
                           asked |-> q.asked, list |-> q.list, cert |-> q.cert]
    <2>1. /\ onboarding' = [onboarding EXCEPT ![q.agent] = decided]
          /\ listed' = listed
          /\ request' = [request EXCEPT ![t] = Idle]
          /\ credentials' = credentials \cup Issued(q)
        BY <1>7 DEF CommitCertification, Finish
    <2>2. q.list \in listed
        BY <1>7, TrustAssumption DEF CommitCertification, CopiesAreListed, TrustTypeOK, HoldsItsOwn
    <2>3. \A a \in Agents : onboarding'[a] = onboarding[a] \/ onboarding'[a] = decided
        BY <1>1, <2>1
    <2>4. \A u \in Threads : request'[u] = request[u] \/ request'[u].agent = None
        BY <1>1, <1>2, <2>1
    <2>5. \A c \in Issued(q) : c.list = q.list
        BY DEF Issued
    <2> QED
        BY <2>1, <2>2, <2>3, <2>4, <2>5 DEF CopiesAreListed
<1>8. CASE ReadIssuer(t) \/ Abort(t)
    <2>1. \A u \in Threads : request'[u] = request[u] \/ request'[u].agent = None
        BY <1>1, <1>2, <1>8 DEF ReadIssuer, Abort, Begin, Finish, Idle
    <2> QED
        BY <1>8, <2>1, CopiesStay DEF ReadIssuer, Abort
<1> QED
    BY <1>3, <1>4, <1>5, <1>6, <1>7, <1>8 DEF ThreadStep

\* Rewriting the partner's row adds a list and withdraws none.
LEMMA OthersCopiesListed ==
    ASSUME CopiesAreListed, PythonStep \/ Admin
    PROVE  CopiesAreListed'
<1>1. UNCHANGED <<request, credentials, onboarding>> /\ listed \subseteq listed'
    BY DEF PythonStep, PythonMoves, ResetPartners, FindActiveKey, RecordPythonKey,
           RestartPython, Admin, UpsertPartner, RotateKey, RevokeCredential, WritePartner
<1> QED
    BY <1>1, CopiesStay

\* A credential may go by an outdated allowlist, but by one the partner's row
\* has had, and it never goes beyond it: whoever overwrites the row, the record
\* or both, and wherever a request ends.
THEOREM CredentialsGoByRealAllowlists == Spec => []IssuedUnderARealAllowlist
<1>1. Init => CopiesAreListed
    BY DEF Init, CopiesAreListed, Idle
<1>2. TrustTypeOK /\ CopiesAreListed /\ [Next]_vars => CopiesAreListed'
    <2> SUFFICES ASSUME TrustTypeOK, CopiesAreListed, [Next]_vars PROVE CopiesAreListed'
        OBVIOUS
    <2>1. CASE UNCHANGED vars
        BY <2>1 DEF vars, CopiesAreListed
    <2>2. CASE Next
        BY <2>2, ThreadCopiesListed, OthersCopiesListed DEF Next
    <2> QED
        BY <2>1, <2>2
<1>3. CredentialInv /\ CopiesAreListed => IssuedUnderARealAllowlist
    BY DEF CredentialInv, CredentialsWithinSnapshot, CopiesAreListed, IssuedUnderARealAllowlist
<1> QED
    BY <1>1, <1>2, <1>3, TrustTypes, CredentialInvariant, PTL DEF Spec
=============================================================================
