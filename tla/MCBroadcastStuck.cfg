SPECIFICATION FairSpec
CONSTANTS
    Jobs = {j1}
    Phones = {p1}
    Instances = {i1}
    Workers = {w1}
    QueueCap = 1
    ClaimBatchSize = 1
    AttemptInputs = {2}
    Faults = {"restart"}
    None = None
PROPERTY
    NoJobStuck
