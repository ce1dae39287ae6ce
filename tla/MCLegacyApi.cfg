SPECIFICATION MCSpec
CONSTANTS
    r1 = r1
    r2 = r2
    Requests = {r1, r2}
    Inputs <- MCInputs
    Voters = {v1, v2}
    CheckUserExists = TRUE
    GlobalKey = TRUE
    MaxTroubles = 1
    MaxVotes = 3
    MaxRestarts = 1
    None = None
INVARIANT EachCallOnce
 
CHECK_DEADLOCK FALSE
