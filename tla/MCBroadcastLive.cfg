SPECIFICATION FairSpec
CONSTANTS
    Jobs = {j1}
    Phones = {p1, p2}
    Instances = {i1}
    Workers = {w1}
    QueueCap = 1
    ClaimBatchSize = 2
    AttemptInputs = {2}
    Faults = {}
    None = None
PROPERTIES
    EveryJobEnds
