------------------------------ MODULE Instance ------------------------------
(***************************************************************************)
(* The instance service of the SaaS API (internal/instance): the row of    *)
(* one instance, the engine row it is linked to by LegacyRuntime, the lazy *)
(* start of the runtime, the reconnection at boot, and the chat search     *)
(* with its cache.                                                         *)
(*                                                                         *)
(* A request is a list of steps, one for each access to shared state.  It  *)
(* works on copies: Update of a row is a Save of the whole copy, which     *)
(* inserts the row when it is gone.  "connecting" also stands for          *)
(* "qrcode".  What an engine call does to the client in detail is the      *)
(* subject of Session; here the client changes by itself, and a call only  *)
(* makes the change it makes before it returns.                            *)
(***************************************************************************)
EXTENDS Integers, Sequences, FiniteSets

CONSTANTS
    Requests,       \* requests under way at the same time
    BootWorkers,    \* workers of BootstrapReconnectAll
    Operations,     \* operations that requests ask for
    Hooks,          \* webhook URLs
    Keys,           \* keys of the chat search cache
    MaxRestarts,    \* bound: restarts of the process
    None

OperationNames ==
    {"create", "delete", "connect", "disconnect", "reconnect", "logout", "status",
     "qrcode", "pair", "runtimeStatus", "backfill", "setWebhook", "getSettings",
     "updateSettings", "setConnector", "setProxy", "searchChats"}

ASSUME InstanceAssumption ==
    /\ Operations \subseteq OperationNames
    /\ Requests \cap BootWorkers = {}
    /\ None \notin Requests \cup BootWorkers \cup Hooks \cup Keys
    /\ MaxRestarts \in Nat

VARIABLES
    \* The process.
    runtime,    \* s.runtime: "none" or "ready"
    builds,     \* runtimes built since the start
    mutex,      \* holder of runtimeMu
    client,     \* the client in the engine's map
    task,       \* request or boot worker -> what it is doing
    boot,       \* BootstrapReconnectAll
    entries,    \* key -> entry of the chat search cache
    attempts,   \* key -> lastLiveAttempt
    window,     \* key -> a live query began less than liveThrottle ago
    \* Databases.
    row,        \* the row of instances
    engine,     \* the rows of the engine that carry the instance's name
    \* What was seen since the start.
    reconnected,\* a reconnection was queued
    warned,     \* the boot reported a failure
    restarts

processVars == <<runtime, builds, mutex, client>>
cacheVars   == <<entries, attempts, window>>
dataVars    == <<row, engine>>
bootVars    == <<boot, reconnected, warned>>
vars == <<processVars, task, cacheVars, dataVars, bootVars, restarts>>

Actors == Requests \cup BootWorkers
Statuses == {"created", "connecting", "open", "close", "disconnected"}
Row == [status : Statuses, webhook : Hooks \cup {None}]

\* The engine row of the instance's own id, and one that was made for the
\* same name under another id.
EngineIds == {"own", "other"}
EngineRow == [webhook : Hooks \cup {None}, connected : BOOLEAN]
EngineCopy == [id : EngineIds, webhook : Hooks \cup {None}, connected : BOOLEAN]
Clients == {"none", "down", "pairing", "open"}

\* None is no row and no copy of one.
ASSUME NoneAssumption == None \notin Row \cup EngineRow \cup EngineCopy

(***************************************************************************)
(* The operations as lists of steps.                                       *)
(***************************************************************************)
EnsureRuntime == <<"runtime">>
EnsureLegacyInstance == <<"link">>
RuntimeSnapshot == EnsureLegacyInstance \o <<"snapshot">>

RuntimeConnect == EnsureLegacyInstance \o <<"connect">> \o RuntimeSnapshot
RuntimeDisconnect == EnsureLegacyInstance \o <<"disconnect">> \o RuntimeSnapshot
RuntimeReconnect == EnsureLegacyInstance \o <<"reconnect">> \o RuntimeSnapshot
RuntimeLogout == EnsureLegacyInstance \o <<"logout">> \o RuntimeSnapshot
RuntimePair == EnsureLegacyInstance \o <<"pair", "snapshot">>
RuntimeQRCode == EnsureLegacyInstance \o <<"qr", "snapshot">>
RequestHistorySync == EnsureLegacyInstance \o <<"call">>
RuntimeUpdateSettings == EnsureLegacyInstance \o <<"call">> \o RuntimeSnapshot
RuntimeGetSettings == EnsureLegacyInstance \o <<"call">>

Create == <<"insert", "adopt">> \o EnsureRuntime \o RuntimeSnapshot
Delete == <<"delete">>
Connect == <<"load">> \o EnsureRuntime \o RuntimeConnect \o <<"apply">>
Disconnect == <<"load">> \o EnsureRuntime \o RuntimeDisconnect \o <<"apply">>
Reconnect == <<"load">> \o EnsureRuntime \o RuntimeReconnect \o <<"apply">>
Logout == <<"load">> \o EnsureRuntime \o RuntimeLogout \o <<"apply">>
Status == <<"load">> \o EnsureRuntime \o RuntimeSnapshot \o <<"apply">>
QRCode == <<"load">> \o EnsureRuntime \o RuntimeQRCode \o <<"apply">>
Pair == <<"load">> \o EnsureRuntime \o RuntimePair \o <<"apply">>
RuntimeStatus == <<"load">> \o EnsureRuntime \o RuntimeSnapshot
BackfillHistory ==
    <<"load", "anchor">> \o EnsureRuntime \o RequestHistorySync \o EnsureRuntime
        \o RuntimeSnapshot
SetWebhook ==
    <<"load", "setWebhook">> \o EnsureRuntime \o EnsureLegacyInstance \o <<"setEngine">>
        \o RuntimeSnapshot \o <<"apply">>
GetAdvancedSettings == <<"load">> \o EnsureRuntime \o RuntimeGetSettings
UpdateAdvancedSettings ==
    <<"load">> \o EnsureRuntime \o RuntimeUpdateSettings \o <<"apply">> \o RuntimeGetSettings
ResolveLegacyInstance == <<"load">> \o EnsureRuntime \o EnsureLegacyInstance
SetConnector == ResolveLegacyInstance \o <<"setEngine">>
SetProxyConfig == ResolveLegacyInstance \o <<"call">>
RuntimeSearchChats == EnsureLegacyInstance \o <<"query">>
SearchChats ==
    <<"load", "fresh", "throttled", "begin">> \o EnsureRuntime \o RuntimeSearchChats
        \o <<"store">>

Program ==
    [create |-> Create, delete |-> Delete, connect |-> Connect,
     disconnect |-> Disconnect, reconnect |-> Reconnect, logout |-> Logout,
     status |-> Status, qrcode |-> QRCode, pair |-> Pair,
     runtimeStatus |-> RuntimeStatus, backfill |-> BackfillHistory,
     setWebhook |-> SetWebhook, getSettings |-> GetAdvancedSettings,
     updateSettings |-> UpdateAdvancedSettings, setConnector |-> SetConnector,
     setProxy |-> SetProxyConfig, searchChats |-> SearchChats]

Idle == [op |-> "none", todo |-> <<>>, row |-> None, engine |-> None,
         shown |-> "none", key |-> None]

Init ==
    /\ runtime \in {"none", "ready"}
    /\ builds = IF runtime = "ready" THEN 1 ELSE 0
    /\ mutex = None
    /\ client = "none"
    /\ task = [a \in Actors |-> Idle]
    /\ boot = "list"
    /\ entries = [k \in Keys |-> "none"]
    /\ attempts = [k \in Keys |-> "none"]
    /\ window = [k \in Keys |-> FALSE]
    /\ row \in {None} \cup [status : {"created", "open"}, webhook : {None}]
    /\ engine \in {[i \in EngineIds |-> None],
                   [own |-> None, other |-> [webhook |-> None, connected |-> TRUE]]}
    /\ reconnected = FALSE /\ warned = FALSE
    /\ restarts = 0

(***************************************************************************)
(* A step of a request.                                                    *)
(***************************************************************************)
At(a, step) == task[a].todo # <<>> /\ Head(task[a].todo) = step

\* The task with its first step done, and with other steps to make.
Done(a) == [task[a] EXCEPT !.todo = Tail(@)]
Goto(a, steps) == [task[a] EXCEPT !.todo = steps]
Become(a, t) == task' = [task EXCEPT ![a] = IF t.todo = <<>> THEN Idle ELSE t]
Continue(a) == Become(a, Done(a))

\* A failure ends the request; a chat search falls back on its cache, and a
\* boot worker reports it and takes the next instance.
Fail(a) ==
    /\ Become(a, Goto(a, IF task[a].op = "searchChats" /\ task[a].key # None
                            THEN <<"stale">> ELSE <<>>))
    /\ warned' = (warned \/ a \in BootWorkers)
    /\ UNCHANGED <<boot, reconnected>>

\* A request for the instance, or for the one that takes its name once it is
\* deleted: to that one the engine row is a row of another id.
Begin(a) ==
    /\ a \in Requests
    /\ task[a] = Idle
    /\ \E op \in Operations :
          /\ task' = [task EXCEPT ![a] = [Idle EXCEPT !.op = op, !.todo = Program[op]]]
          /\ IF op = "create"
                THEN /\ row = None /\ \A b \in Actors : task[b] = Idle
                     /\ engine' = [own |-> None,
                                   other |-> IF engine.own # None THEN engine.own
                                             ELSE engine.other]
                ELSE UNCHANGED engine
    /\ UNCHANGED <<processVars, cacheVars, row, bootVars, restarts>>

\* resolve, Get.
Load(a) ==
    /\ At(a, "load")
    /\ \/ /\ row # None
          /\ Become(a, [Done(a) EXCEPT !.row = row])
          /\ UNCHANGED bootVars
       \/ Fail(a)
    /\ UNCHANGED <<processVars, cacheVars, dataVars, restarts>>

(***************************************************************************)
(* ensureRuntime.                                                          *)
(***************************************************************************)
\* Where a request goes on without a runtime.
WithoutRuntime(a) ==
    IF task[a].op \in {"connect", "disconnect"}
       THEN Become(a, Goto(a, <<"local">>)) /\ UNCHANGED bootVars
       ELSE Fail(a)

Check(a) ==
    /\ At(a, "runtime")
    /\ Become(a, IF runtime = "ready" THEN Done(a)
                 ELSE Goto(a, <<"lock">> \o Tail(task[a].todo)))
    /\ UNCHANGED <<processVars, cacheVars, dataVars, bootVars, restarts>>

Lock(a) ==
    /\ At(a, "lock")
    /\ mutex = None
    /\ mutex' = a
    /\ Become(a, Goto(a, <<"build">> \o Tail(task[a].todo)))
    /\ UNCHANGED <<runtime, builds, client, cacheVars, dataVars, bootVars, restarts>>

\* Variant: no second look under the lock.
BuildAlways == TRUE
BuildNeeded == runtime = "none"

Build(a) ==
    /\ At(a, "build")
    /\ mutex' = None
    /\ \/ ~BuildNeeded /\ Continue(a) /\ UNCHANGED <<runtime, builds, bootVars>>
       \/ /\ BuildNeeded
          /\ runtime' = "ready"
          /\ builds' = builds + 1
          /\ Continue(a)
          /\ UNCHANGED bootVars
       \/ BuildNeeded /\ WithoutRuntime(a) /\ UNCHANGED <<runtime, builds>>
    /\ UNCHANGED <<client, cacheVars, dataVars, restarts>>

(***************************************************************************)
(* The rows.                                                               *)
(***************************************************************************)
\* Save: the whole copy is written; what others wrote since it was read is
\* lost, and a deleted row is inserted again.
SaveRow(a, r) ==
    \/ row' = r /\ Become(a, [Done(a) EXCEPT !.row = r]) /\ UNCHANGED bootVars
    \/ Fail(a) /\ UNCHANGED row

Insert(a) ==
    /\ At(a, "insert")
    /\ SaveRow(a, [status |-> "created", webhook |-> None])
    /\ UNCHANGED <<processVars, cacheVars, engine, restarts>>

\* Create stores the row a second time, with its own id as engine id.
Adopt(a) ==
    /\ At(a, "adopt")
    /\ SaveRow(a, task[a].row)
    /\ UNCHANGED <<processVars, cacheVars, engine, restarts>>

DeleteRow(a) ==
    /\ At(a, "delete")
    /\ \/ row' = None /\ Continue(a) /\ UNCHANGED bootVars
       \/ Fail(a) /\ UNCHANGED row
    /\ UNCHANGED <<processVars, cacheVars, engine, restarts>>

SetWebhookRow(a) ==
    /\ At(a, "setWebhook")
    /\ \E h \in Hooks : SaveRow(a, [task[a].row EXCEPT !.webhook = h])
    /\ UNCHANGED <<processVars, cacheVars, engine, restarts>>

LocalStatus(op) == IF op = "connect" THEN "connecting" ELSE "disconnected"
Local(a) ==
    /\ At(a, "local")
    /\ SaveRow(a, [task[a].row EXCEPT !.status = LocalStatus(task[a].op)])
    /\ UNCHANGED <<processVars, cacheVars, engine, restarts>>

\* applySnapshot: stored only when the status differs from the copy's.
Apply(a) ==
    /\ At(a, "apply")
    /\ IF task[a].shown = task[a].row.status
          THEN Continue(a) /\ UNCHANGED <<row, bootVars>>
          ELSE SaveRow(a, [task[a].row EXCEPT !.status = task[a].shown])
    /\ UNCHANGED <<processVars, cacheVars, engine, restarts>>

(***************************************************************************)
(* ensureLegacyInstance.                                                   *)
(***************************************************************************)
CopyOf(i) == [id |-> i, webhook |-> engine[i].webhook, connected |-> engine[i].connected]
Named == {i \in EngineIds : engine[i] # None}     \* GetInstanceByName
Hold(a, copy, rest) == [task[a] EXCEPT !.engine = copy, !.todo = rest]

\* The copy is saved first when the webhook of the instance is another one.
Linked(a, i) ==
    Hold(a, CopyOf(i), (IF engine[i].webhook = task[a].row.webhook THEN <<>> ELSE <<"sync">>)
                           \o Tail(task[a].todo))

\* By id, then by name; otherwise a row has to be created.
Link(a) ==
    /\ At(a, "link")
    /\ \/ /\ engine["own"] # None
          /\ Become(a, Linked(a, "own"))
          /\ UNCHANGED bootVars
       \/ /\ engine["own"] = None
          /\ \E i \in Named : Become(a, Linked(a, i))
          /\ UNCHANGED bootVars
       \/ /\ Named = {}
          /\ Become(a, Goto(a, <<"createEngine">> \o Tail(task[a].todo)))
          /\ UNCHANGED bootVars
       \/ Fail(a)
    /\ UNCHANGED <<processVars, cacheVars, dataVars, restarts>>

\* Variant: the engine row is created although one with the name exists,
\* under the id that is still free.
CreateAnother(a) ==
    /\ At(a, "createEngine")
    /\ \E i \in EngineIds :
          /\ engine[i] = None
          /\ engine' = [engine EXCEPT ![i] = [webhook |-> None, connected |-> FALSE]]
          /\ Become(a, Hold(a, [id |-> i, webhook |-> None, connected |-> FALSE],
                            <<"sync">> \o Tail(task[a].todo)))
    /\ UNCHANGED <<processVars, cacheVars, row, bootVars, restarts>>

\* legacySvc.Create, which refuses a name or an id that exists, and the
\* lookup by name after a refusal.
CreateEngine(a) ==
    /\ At(a, "createEngine")
    /\ \/ /\ Named = {}
          /\ engine' = [engine EXCEPT !["own"] = [webhook |-> None, connected |-> FALSE]]
          /\ Become(a, Hold(a, [id |-> "own", webhook |-> None, connected |-> FALSE],
                            (IF task[a].row.webhook = None THEN <<>> ELSE <<"sync">>)
                                \o Tail(task[a].todo)))
          /\ UNCHANGED bootVars
       \/ /\ \E i \in Named : Become(a, Linked(a, i))
          /\ UNCHANGED <<engine, bootVars>>
       \/ Fail(a) /\ UNCHANGED engine
    /\ UNCHANGED <<processVars, cacheVars, row, restarts>>

\* Update of the engine's repository: the whole copy.
SaveEngine(a, copy) ==
    engine' = [engine EXCEPT ![copy.id] =
                  [webhook |-> copy.webhook, connected |-> copy.connected]]

Sync(a) ==
    /\ At(a, "sync")
    /\ LET copy == [task[a].engine EXCEPT !.webhook = task[a].row.webhook]
       IN \/ SaveEngine(a, copy) /\ Become(a, [Done(a) EXCEPT !.engine = copy])
             /\ UNCHANGED bootVars
          \/ Fail(a) /\ UNCHANGED engine
    /\ UNCHANGED <<processVars, cacheVars, row, restarts>>

\* The settings of a connector, and the events of a webhook, in the copy.
SetEngine(a) ==
    /\ At(a, "setEngine")
    /\ UNCHANGED engine \/ SaveEngine(a, task[a].engine)
    /\ Continue(a)
    /\ UNCHANGED <<processVars, cacheVars, row, bootVars, restarts>>

(***************************************************************************)
(* Calls of the engine.                                                    *)
(***************************************************************************)
\* Calls that change nothing this module keeps, and the stored anchor of a
\* history backfill.
Call(a) ==
    /\ At(a, "call") \/ At(a, "anchor")
    /\ \/ Continue(a) /\ UNCHANGED bootVars
       \/ Fail(a)
    /\ UNCHANGED <<processVars, cacheVars, dataVars, restarts>>

\* Connect saves the copy and starts a client; Pair does so for a client
\* that is not connected, and refuses one that is logged in.
ConnectCall(a) ==
    /\ At(a, "connect") \/ (At(a, "pair") /\ client # "open")
    /\ \/ /\ IF At(a, "pair") /\ client = "pairing"
                THEN UNCHANGED engine
                ELSE SaveEngine(a, task[a].engine)
          /\ client' = IF client = "none" THEN "down" ELSE client
          /\ Continue(a)
          /\ UNCHANGED bootVars
       \/ Fail(a) /\ UNCHANGED <<engine, client>>
    /\ UNCHANGED <<runtime, builds, mutex, cacheVars, row, restarts>>

RefusePair(a) ==
    /\ At(a, "pair")
    /\ client = "open"
    /\ Fail(a)
    /\ UNCHANGED <<processVars, cacheVars, dataVars, restarts>>

DisconnectCall(a) ==
    /\ At(a, "disconnect")
    /\ \/ /\ client = "open"
          /\ SaveEngine(a, task[a].engine)
          /\ Continue(a)
          /\ UNCHANGED bootVars
       \/ client # "open" /\ Continue(a) /\ UNCHANGED <<engine, bootVars>>
       \/ Fail(a) /\ UNCHANGED engine
    /\ UNCHANGED <<processVars, cacheVars, row, restarts>>

LogoutCall(a) ==
    /\ At(a, "logout")
    /\ \/ /\ client \in {"open", "pairing"}
          /\ client' = "none"
          /\ IF client = "open"
                THEN SaveEngine(a, [task[a].engine EXCEPT !.connected = FALSE])
                ELSE UNCHANGED engine
          /\ Continue(a)
          /\ UNCHANGED bootVars
       \/ Fail(a) /\ UNCHANGED <<client, engine>>
    /\ UNCHANGED <<runtime, builds, mutex, cacheVars, row, restarts>>

\* ReconnectClient, also at boot.
ReconnectCall(a) ==
    /\ At(a, "reconnect")
    /\ \/ /\ client' = "down"
          /\ reconnected' = TRUE
          /\ Continue(a)
          /\ UNCHANGED <<boot, warned>>
       \/ Fail(a) /\ UNCHANGED client
    /\ UNCHANGED <<runtime, builds, mutex, cacheVars, dataVars, restarts>>

\* The QR code of an instance: nothing is asked of the engine while a client
\* is there and active, or there and down.
Qr(a) ==
    /\ At(a, "qr")
    /\ \/ Continue(a) /\ UNCHANGED bootVars
       \/ client \in {"none", "pairing"} /\ Fail(a)
    /\ UNCHANGED <<processVars, cacheVars, dataVars, restarts>>

\* buildRuntimeSnapshot, from the client and the copy of the engine row.
BuildRuntimeSnapshot(copy) ==
    CASE client = "open" -> "open"
      [] client = "pairing" -> "connecting"
      [] client \in {"none", "down"} /\ copy.connected -> "open"
      [] OTHER -> "close"

\* What an operation makes of it.
Shown(op, copy) ==
    CASE op = "logout" -> "close"
      [] op \in {"connect", "reconnect", "pair"} /\ BuildRuntimeSnapshot(copy) = "close" ->
            "connecting"
      [] op = "qrcode" /\ client # "open" -> "connecting"
      [] OTHER -> BuildRuntimeSnapshot(copy)

Snapshot(a) ==
    /\ At(a, "snapshot")
    /\ Become(a, [Done(a) EXCEPT !.shown = Shown(task[a].op, task[a].engine), !.engine = None])
    /\ UNCHANGED <<processVars, cacheVars, dataVars, bootVars, restarts>>

(***************************************************************************)
(* Chat search.  An entry is fresh, usable or expired, an attempt recent or *)
(* past; what has not been stored or tried is "none".                      *)
(***************************************************************************)
Usable(k) == entries[k] \in {"fresh", "usable"}

Fresh(a) ==
    /\ At(a, "fresh")
    /\ \E k \in Keys :
          Become(a, IF entries[k] = "fresh" THEN Goto(a, <<>>)
                    ELSE [Done(a) EXCEPT !.key = k])
    /\ UNCHANGED <<processVars, cacheVars, dataVars, bootVars, restarts>>

Throttled(a) ==
    /\ At(a, "throttled")
    /\ LET k == task[a].key
       IN Become(a, IF Usable(k) /\ attempts[k] = "recent" THEN Goto(a, <<>>) ELSE Done(a))
    /\ UNCHANGED <<processVars, cacheVars, dataVars, bootVars, restarts>>

\* Variant: the throttle looked before is not looked at again.
LiveAllowedAlways(k) == TRUE
LiveAllowed(k) == attempts[k] # "recent"

BeginLiveAttempt(a) ==
    /\ At(a, "begin")
    /\ LET k == task[a].key
       IN IF LiveAllowed(k)
             THEN /\ attempts' = [attempts EXCEPT ![k] = "recent"]
                  /\ window' = [window EXCEPT ![k] = TRUE]
                  /\ Continue(a)
             ELSE Become(a, Goto(a, <<>>)) /\ UNCHANGED <<attempts, window>>
    /\ UNCHANGED <<processVars, entries, dataVars, bootVars, restarts>>

\* The live query connects the client if it has to.
Query(a) ==
    /\ At(a, "query")
    /\ \/ /\ client' \in {client, "open"}
          /\ Continue(a)
          /\ UNCHANGED bootVars
       \/ Fail(a) /\ client' \in {client, "down"}
    /\ UNCHANGED <<runtime, builds, mutex, cacheVars, dataVars, restarts>>

\* cleanupExpiredLocked, then the attempt and the entry of the key.
Cleaned(k) ==
    [c \in Keys |-> IF c = k THEN "recent"
                    ELSE IF entries[c] = "expired" THEN "none" ELSE attempts[c]]

Store(a) ==
    /\ At(a, "store")
    /\ LET k == task[a].key
       IN /\ entries' = [c \in Keys |-> IF c = k THEN "fresh"
                                        ELSE IF entries[c] = "expired" THEN "none"
                                        ELSE entries[c]]
          /\ attempts' = Cleaned(k)
    /\ Continue(a)
    /\ UNCHANGED <<processVars, window, dataVars, bootVars, restarts>>

\* The usable entry or the error.
Stale(a) ==
    /\ At(a, "stale")
    /\ Become(a, Goto(a, <<>>))
    /\ UNCHANGED <<processVars, cacheVars, dataVars, bootVars, restarts>>

\* Time passes: freshTTL, staleTTL, liveThrottle.  An attempt that is stored
\* is not older than the query it belongs to.
Ages(k) ==
    /\ \/ /\ Usable(k)
          /\ entries' = [entries EXCEPT ![k] = IF @ = "fresh" THEN "usable" ELSE "expired"]
          /\ UNCHANGED <<attempts, window>>
       \/ /\ window[k]
          /\ window' = [window EXCEPT ![k] = FALSE]
          /\ UNCHANGED <<entries, attempts>>
       \/ /\ ~window[k]
          /\ attempts[k] = "recent"
          /\ attempts' = [attempts EXCEPT ![k] = "past"]
          /\ UNCHANGED <<entries, window>>
    /\ UNCHANGED <<processVars, task, dataVars, bootVars, restarts>>

(***************************************************************************)
(* Boot, the client and the end of the process.                            *)
(***************************************************************************)
\* Variant: the status the engine calls it.
ConnectedRows == row # None /\ row.status = "connected"

OpenRows == row # None /\ row.status = "open"     \* ListByStatus("open")

BootList ==
    /\ boot = "list"
    /\ \/ OpenRows /\ boot' = "feed" /\ UNCHANGED warned
       \/ ~OpenRows /\ boot' = "done" /\ UNCHANGED warned
       \/ boot' = "done" /\ warned' = TRUE
    /\ UNCHANGED <<processVars, task, cacheVars, dataVars, reconnected, restarts>>

\* A worker takes the instance and runs ReconnectByID.
BootTake(w) ==
    /\ w \in BootWorkers
    /\ boot = "feed"
    /\ task[w] = Idle
    /\ boot' = "done"
    /\ task' = [task EXCEPT ![w] = [Idle EXCEPT !.op = "reconnect", !.todo = Reconnect]]
    /\ UNCHANGED <<processVars, cacheVars, dataVars, reconnected, warned, restarts>>

\* The engine's events: a login marks the engine row, a logout clears it.
ClientChanges ==
    /\ client # "none"
    /\ client' \in Clients \ {client}
    /\ \E i \in Named :
          engine' = [engine EXCEPT ![i].connected =
                        IF client' = "open" THEN TRUE
                        ELSE IF client' = "none" THEN FALSE ELSE @]
    /\ UNCHANGED <<runtime, builds, mutex, task, cacheVars, row, bootVars, restarts>>

Restart ==
    /\ restarts < MaxRestarts
    /\ restarts' = restarts + 1
    /\ runtime' \in {"none", "ready"}
    /\ builds' = IF runtime' = "ready" THEN 1 ELSE 0
    /\ mutex' = None
    /\ client' = "none"
    /\ task' = [a \in Actors |-> Idle]
    /\ boot' = "list"
    /\ entries' = [k \in Keys |-> "none"]
    /\ attempts' = [k \in Keys |-> "none"]
    /\ window' = [k \in Keys |-> FALSE]
    /\ reconnected' = FALSE
    /\ warned' = FALSE
    /\ UNCHANGED dataVars

Step(a) ==
    \/ Load(a) \/ Check(a) \/ Build(a)
    \/ Insert(a) \/ Adopt(a) \/ DeleteRow(a) \/ SetWebhookRow(a) \/ Local(a) \/ Apply(a)
    \/ Link(a) \/ CreateEngine(a) \/ Sync(a) \/ SetEngine(a)
    \/ Call(a) \/ ConnectCall(a) \/ RefusePair(a) \/ DisconnectCall(a) \/ LogoutCall(a)
    \/ ReconnectCall(a) \/ Qr(a) \/ Snapshot(a)
    \/ Fresh(a) \/ Throttled(a) \/ BeginLiveAttempt(a) \/ Query(a) \/ Store(a) \/ Stale(a)

Next ==
    \/ \E a \in Actors : Begin(a) \/ Lock(a) \/ Step(a)
    \/ \E k \in Keys : Ages(k)
    \/ BootList
    \/ \E w \in BootWorkers : BootTake(w)
    \/ ClientChanges
    \/ Restart

Spec == Init /\ [][Next]_vars

\* A goroutine that can take a step takes it, and a mutex is handed on in turn.
Fairness ==
    /\ \A a \in Actors : WF_vars(Step(a)) /\ SF_vars(Lock(a))
    /\ WF_vars(BootList)
    /\ \A w \in BootWorkers : WF_vars(BootTake(w))

(***************************************************************************)
(* Properties.                                                             *)
(***************************************************************************)
\* The steps of the programs but for "delete", and those that a request puts in
\* front of what is left of its program.
ProgramSteps ==
    {"load", "insert", "adopt", "runtime", "link", "snapshot", "apply",
     "connect", "disconnect", "reconnect", "logout", "pair", "qr", "call", "anchor",
     "setWebhook", "setEngine", "fresh", "throttled", "begin", "query", "store"}
Steps == ProgramSteps \cup {"delete", "lock", "build", "local", "createEngine", "sync", "stale"}

Task ==
    [op : OperationNames \cup {"none"}, todo : Seq(Steps), row : Row \cup {None},
     engine : EngineCopy \cup {None}, shown : Statuses \cup {"none"},
     key : Keys \cup {None}]

\* Types of the variables.
TypeOK ==
    /\ runtime \in {"none", "ready"}
    /\ builds \in Nat
    /\ mutex \in Actors \cup {None}
    /\ client \in Clients
    /\ task \in [Actors -> Task]
    /\ boot \in {"list", "feed", "done"}
    /\ entries \in [Keys -> {"none", "fresh", "usable", "expired"}]
    /\ attempts \in [Keys -> {"none", "recent", "past"}]
    /\ window \in [Keys -> BOOLEAN]
    /\ row \in Row \cup {None}
    /\ engine \in [EngineIds -> EngineRow \cup {None}]
    /\ reconnected \in BOOLEAN /\ warned \in BOOLEAN
    /\ restarts \in 0 .. MaxRestarts

\* One runtime at a time: requests and boot workers that all find s.runtime
\* unset make one runtime between them (ensureRuntime).  A second one would
\* have a client map of its own, and an instance two connections.
OneRuntime == builds <= 1

\* One engine row per name: requests that link the instance at the same time
\* (ensureLegacyInstance: by id, by name, create, by name again) never leave
\* it with two engine rows, one of which would hold the session.
OneEngineRow == Cardinality(Named) <= 1

\* A live chat search begins at most every liveThrottle while cached data
\* exists, although requests look at the throttle and take it in two steps
\* (throttled, beginLiveAttempt) and the store of one key forgets the attempts
\* of others (cleanupExpiredLocked).
LiveThrottled ==
    [][\A a \in Requests :
          At(a, "begin") /\ At(a, "begin")' = FALSE /\ task'[a] # Idle =>
              ~(Usable(task[a].key) /\ window[task[a].key])]_vars

RowOpen == row # None /\ row.status = "open"

\* An instance that is open when the process starts is reconnected, or the log
\* says why not (BootstrapReconnectAll): its client lives in memory only, and
\* without traffic nothing else would connect it.
BootReconnects ==
    boot = "list" /\ RowOpen ~> reconnected \/ warned \/ ~RowOpen
=============================================================================
