SPECIFICATION MCSpec
CONSTANTS
    Sends = {s1, s2}
    Second = s2
    Inbound = {i1}
    Operations = {"queue", "text", "media", "audio", "reaction", "poll", "contact", "markRead", "checkNumbers"}
    Times = {1, 2}
    Workers = {w1}
    QueueSize = 1
    CheckUserExists = TRUE
    MaxRestarts = 1
    None = None
INVARIANTS
    ReportedWasAccepted
    RowBehindJob
    
PROPERTIES
    StatusForward
    
    
    QueuedJobEnds
