SPECIFICATION Spec
CONSTANTS
    Jobs = {j1, j2}
    Phones = {p1}
    Instances = {i1}
    Workers = {w1, w2}
    QueueCap = 1
    ClaimBatchSize = 2
    AttemptInputs = {2}
    Faults = {"restart"}
    None = None
SYMMETRY Symmetric
INVARIANTS
    OneHolder
    QueueNeverOverflows
PROPERTIES
    TerminalJobsFinal
