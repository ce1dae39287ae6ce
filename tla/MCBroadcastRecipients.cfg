SPECIFICATION Spec
CONSTANTS
    Jobs = {j1}
    Phones = {p1, p2}
    Instances = {i1}
    Workers = {w1}
    QueueCap = 1
    ClaimBatchSize = 2
    AttemptInputs = {0}
    Faults = {"db", "restart"}
    None = None
SYMMETRY Symmetric
INVARIANTS
    Inductive
    
    CompletionHonest
PROPERTIES
    SettledRowsFinal
    KeepsPromise
