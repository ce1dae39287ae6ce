SPECIFICATION ReplySpec
CONSTANTS
    Messages = {m1, m2}
    Workers = {w1, w2}
    QueueSize = 1
    MemoryLimit = 2
    Nothing = Nothing
INVARIANTS
    RepliesJustified
PROPERTIES
    WorkersEnd
