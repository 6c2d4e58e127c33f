\* Two requests and the refresher while the sources change once, the process
\* restarts once and one build fails.
SPECIFICATION FairSpec
CONSTANTS
    q1 = q1
    q2 = q2
    Requests = {q1, q2}
    Refresher = Refresher
    NoGraph = NoGraph
    Torn = Torn
    MaxChanges = 1
    MaxRestarts = 1
    MaxFailures = 1
INVARIANTS
    MonitorTypeOK
    RefreshIsSingle
PROPERTIES
    EvidenceConverges
