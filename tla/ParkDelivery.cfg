\* The event loop and one refinement worker; the list holds less than the two
\* plans send, so dispatches are forgotten.
SPECIFICATION Spec
CONSTANTS
    loop = loop
    w1 = w1
    d1 = d1
    d2 = d2
    NoRequest = NoRequest
    Loop = loop
    Workers = {w1}
    Decisions = {d1, d2}
    Requests <- BothRequests
    Blocked <- RefusedSign
    OutboxCap = 3
    Attempts = 2
    Threshold = 3
    MaxCalls = 3
CHECK_DEADLOCK FALSE
INVARIANTS
    DeliveryTypeOK
    StatusIsOnFile
    CreationsBounded
    CriticalActionIsStaffed
PROPERTIES
    ClosesOnlyOnSuccess
