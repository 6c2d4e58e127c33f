\* Two Spring threads and the Python process on one partner, one agent, two
\* certifications and two signing keys.
SPECIFICATION Spec
CONSTANTS
    t1 = t1
    t2 = t2
    a1 = a1
    route = route
    budget = budget
    v1 = v1
    v2 = v2
    c1 = c1
    c2 = c2
    None = None
    Threads = {t1, t2}
    Agents = {a1}
    Scopes <- AllScopes
    DefaultScopes <- AllScopes
    Grants <- NarrowAndFull
    Keys = {v1, v2}
    DefaultKey = v1
    Certs = {c1, c2}
SYMMETRY Symmetry
INVARIANTS
    TrustTypeOK
    KeyAlwaysActive
    CredentialsStayVerifiable
    ApprovalsAreBacked
    IssuedUnderARealAllowlist
PROPERTIES
    SecondKeyIsDefault
