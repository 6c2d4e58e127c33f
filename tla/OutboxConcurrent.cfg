\* Two request threads on one payload; the file outgrows the lookup window, so
\* interleaving, failure, restart and eviction all happen.
SPECIFICATION Spec
CONSTANTS
    t1 = t1
    t2 = t2
    promo = promo
    command = command
    bare = bare
    NoRow = NoRow
    Threads = {t1, t2}
    Dispatches <- CommandOnly
    NeedsApproval = {command}
    ToolExecutor <- CommandOnly
    GateChecked = {}
    GateBlocked = {}
    RowCap = 3
    FindLookback = 4
    DedupeLookback = 6
    MaxRows = 5
SYMMETRY ThreadSymmetry
INVARIANTS
    TypeOK
    DuplicatesBoundedByThreads
    LostUpdatesBounded
    UpdateEventsAreDurable
