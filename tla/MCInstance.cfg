SPECIFICATION MCSpec
CONSTANTS
    Requests = {r1, r2}
    Second = r2
    BootWorkers = {b1}
    Operations = {"create", "delete", "connect", "disconnect", "reconnect", "logout", "status", "qrcode", "pair", "runtimeStatus", "backfill", "setWebhook", "getSettings", "updateSettings", "setConnector", "setProxy", "searchChats"}
    Hooks = {h1}
    Keys = {k1, k2}
    MaxRestarts = 1
    None = None
INVARIANTS
    OneRuntime
    
PROPERTIES
    LiveThrottled
    BootReconnects
