\* One request thread and two overlapping retry runs over a command that needs
\* an operator, with failing writes, dry runs and restarts.
SPECIFICATION RetrySpec
CONSTANTS
    t1 = t1
    w1 = w1
    w2 = w2
    promo = promo
    command = command
    NoRow = NoRow
    Threads = {t1}
    Workers = {w1, w2}
    Dispatches = {command}
    NeedsApproval = {command}
    ToolExecutor <- BothPayloads
    GateChecked = {promo}
    GateBlocked = {}
    Unconfigured = {}
    RowCap = 3
    FindLookback = 3
    DedupeLookback = 3
    MaxRows = 2
    MaxAttempts = 2
    RunLimit = 1
    MaxRuns = 4
SYMMETRY WorkerSymmetry
INVARIANTS
    RetryTypeOK
    PostsAreReleased
    AttemptBudget
    AcceptancesBounded
PROPERTIES
    RefinesOutbox
