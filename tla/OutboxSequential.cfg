\* One request at a time (with failures and restarts), windows larger than the
\* file: the outbox is a DispatchLifecycle per payload.
SPECIFICATION Spec
CONSTANTS
    t1 = t1
    t2 = t2
    promo = promo
    command = command
    bare = bare
    NoRow = NoRow
    Threads = {t1}
    Dispatches <- AllPayloads
    NeedsApproval = {command}
    ToolExecutor <- AllPayloads
    GateChecked = {promo}
    GateBlocked = {}
    RowCap = 5
    FindLookback = 4
    DedupeLookback = 6
    MaxRows = 4
PROPERTIES
    RefinesLifecycle
