SPECIFICATION MCSpec
CONSTANTS
    Settings <- MCSettings
    Configs <- MCConfigs
    Inputs <- MCInputs
    Conns = {c1, c2}
    PublishTries = 3
    DialTries = 2
    HookTries = 2
    MaxEvents = 3
    MaxDrops = 2
    None = None
INVARIANTS
    FanoutInOrder
    CrashNeedsTrouble
    ObservationKept
CHECK_DEADLOCK FALSE
