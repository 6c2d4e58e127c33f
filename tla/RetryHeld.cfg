\* Expected to fail: a run replays rows, so a row that was superseded by an
\* operator hold is still eligible.
SPECIFICATION RetrySpec
CONSTANTS
    t1 = t1
    w1 = w1
    w2 = w2
    promo = promo
    command = command
    NoRow = NoRow
    Threads = {t1}
    Workers = {w1}
    Dispatches = {command}
    NeedsApproval = {command}
    ToolExecutor <- BothPayloads
    GateChecked = {promo}
    GateBlocked = {}
    Unconfigured = {}
    RowCap = 3
    FindLookback = 3
    DedupeLookback = 3
    MaxRows = 3
    MaxAttempts = 2
    RunLimit = 2
    MaxRuns = 1
PROPERTIES
    HeldIsNotReplayed
