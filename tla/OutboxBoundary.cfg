\* Expected to fail: an operator decision does not look at the agent boundary.
SPECIFICATION Spec
CONSTANTS
    t1 = t1
    t2 = t2
    promo = promo
    command = command
    bare = bare
    NoRow = NoRow
    Threads = {t1}
    Dispatches <- AllPayloads
    NeedsApproval = {command}
    ToolExecutor <- AllPayloads
    GateChecked = {promo}
    GateBlocked = {}
    RowCap = 5
    FindLookback = 4
    DedupeLookback = 6
    MaxRows = 3
INVARIANTS
    BlockedIsNeverExecutable
