\* Expected to fail: one request at a time, but the lookup sees only RowCap rows
\* although the caller asks for DedupeLookback of them.
SPECIFICATION Spec
CONSTANTS
    t1 = t1
    t2 = t2
    promo = promo
    command = command
    bare = bare
    NoRow = NoRow
    Threads = {t1}
    Dispatches <- AllPayloads
    NeedsApproval = {command}
    ToolExecutor <- AllPayloads
    GateChecked = {promo}
    GateBlocked = {}
    RowCap = 2
    FindLookback = 4
    DedupeLookback = 6
    MaxRows = 4
INVARIANTS
    OneCreationPerKey
