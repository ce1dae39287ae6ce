SPECIFICATION MCSpec
CONSTANTS
    Loops = {s1, s2}
    Channels = {c1, c2}
    Requests = {r1, r2}
    Operations = {"start", "connect", "reconnect", "disconnect", "logout", "delete", "force"}
    None = None
    QrcodeMaxCount = 2
    PairingCodes = 2
INVARIANTS
    KillSwitch
    OneStarter
CHECK_DEADLOCK FALSE
