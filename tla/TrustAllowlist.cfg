\* Expected to fail: an allowlist narrowed after the registration is not looked
\* at again, even with one request at a time.
SPECIFICATION Spec
CONSTANTS
    t1 = t1
    t2 = t2
    a1 = a1
    route = route
    budget = budget
    v1 = v1
    v2 = v2
    c1 = c1
    c2 = c2
    None = None
    Threads = {t1}
    Agents = {a1}
    Scopes <- AllScopes
    DefaultScopes <- AllScopes
    Grants <- NarrowAndFull
    Keys = {v1, v2}
    DefaultKey = v1
    Certs = {c1, c2}
PROPERTIES
    IssuedWithinAllowlist
