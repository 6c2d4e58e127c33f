\* Two requests, one of which pushes the other out of the list, two slots and
\* two workers; no symmetry, as three properties are about what eventually
\* happens.
SPECIFICATION FairSpec
CONSTANTS
    r1 = r1
    r2 = r2
    w1 = w1
    w2 = w2
    Loader = Loader
    Free = Free
    NoReceipt = NoReceipt
    Receipts = {r1, r2}
    Workers = {w1, w2}
    Cap = 1
    MaxRefinements = 2
    MaxFailures = 2
CHECK_DEADLOCK FALSE
INVARIANTS
    ReceiptTypeOK
    ListMatchesStore
    ImportIsExclusive
    SlotsAreJobs
    NoOrphanedPromise
PROPERTIES
    AnswersAreFinal
    PromisesAreSettled
    SlotsAreReleased
    LoadsAreDecided
