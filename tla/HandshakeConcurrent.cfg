\* Two threads on one session whose client may do everything but commerce.
SPECIFICATION Spec
CONSTANTS
    t1 = t1
    t2 = t2
    own = own
    foreign = foreign
    None = None
    Threads = {t1, t2}
    Tokens = {own, foreign}
    ClientTokens = {own}
    Scopes <- AllScopes
    TokenScope <- ScopeOf
    Declarations <- Declared
    MaxWrites = 5
SYMMETRY Symmetry
INVARIANTS
    HandshakeTypeOK
    CommitmentIsCurrent
    ReceiptIsBacked
    OffersAreRecorded
    OperationsAreDelegated
PROPERTIES
    OnlyStaleWritersForget
