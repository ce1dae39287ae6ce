------------------------------- MODULE Session -------------------------------
(***************************************************************************)
(* The WhatsApp session of one instance: pkg/whatsmeow/service and the     *)
(* operations of pkg/instance/service that start and end it.               *)
(*                                                                         *)
(* The service keeps three maps from instance to client, MyClient and kill *)
(* channel, guarded by one mutex per access.  StartClient is a goroutine   *)
(* that opens a client, registers it in the maps, connects it, and then    *)
(* waits for its kill channel to be closed; woken, it clears the maps and  *)
(* calls itself.  Requests and the goroutines of the event handler change  *)
(* the maps at the same time, one access after the other.                  *)
(*                                                                         *)
(* Instances share no entry of the maps, so one instance is modelled.  An  *)
(* activation of StartClient creates at most one client, which is named    *)
(* after it.  A request is the list of the accesses it has still to make.  *)
(* Durations are abstract: a sleep, a slow dial or a slow fetch of the     *)
(* version is an activation or a request that takes no step.  A step makes *)
(* one access to the maps; the writes to the row and the calls of the      *)
(* client next to it belong to the same step.  Of the row only the flag    *)
(* connected is kept: whether a start finds a stored device is left open.  *)
(***************************************************************************)
EXTENDS Integers, Sequences

CONSTANTS
    Loops,           \* activations of StartClient, and their clients
    Channels,        \* kill channels
    Requests,        \* goroutines that serve a request or a reconnect
    Operations,      \* operations that requests ask for
    None,            \* no entry in a map
    QrcodeMaxCount,  \* QRCODE_MAX_COUNT, 0: no limit
    PairingCodes     \* QR codes the library offers for one connection

OperationNames ==
    {"start", "connect", "reconnect", "disconnect", "logout", "delete", "force"}

ASSUME SessionAssumption ==
    /\ None \notin Loops \cup Channels
    /\ Requests # {}
    /\ Operations \subseteq OperationNames
    /\ QrcodeMaxCount \in Nat
    /\ PairingCodes \in Nat

VARIABLES
    \* The maps' entries for the instance.
    clientPointer,    \* client, or None
    myClientPointer,  \* MyClient with the event handler, or None
    killChannel,      \* channel, or None
    \* Channels in memory.
    made,             \* channels created so far
    closed,           \* channels closed so far
    \* Activations of StartClient.
    pc,               \* where each stands
    kill,             \* the channel it captured
    parent,           \* the activation that called it, None: a go statement
    codes,            \* QR codes it has received
    \* Clients of the library.
    paired,           \* clients whose store holds a device
    socket,           \* client -> "closed", "open", or "auth": logged in
    handler,          \* clients whose event handler is attached
    reopening,        \* clients the event handler is about to reconnect
    \* Database.
    row,              \* connected flag of the instance's row
    \* Requests.
    starting,         \* startingInstances
    req               \* request -> what it holds and has still to do

maps     == <<clientPointer, myClientPointer, killChannel>>
channels == <<made, closed>>
loopVars == <<pc, kill, parent, codes>>
clients  == <<paired, socket, handler, reopening>>
requests == <<starting, req>>
vars == <<maps, channels, loopVars, clients, row, requests>>

Rows == {"absent", "offline", "online"}

Stages == {"unused", "begin", "ensure", "new", "attach", "dial", "qr",
           "limit", "timeout", "capture", "wait", "killed", "suspended",
           "returned"}

Up(l) == l \in Loops /\ socket[l] # "closed"      \* IsConnected
LoggedIn(l) == l \in Loops /\ socket[l] = "auth"  \* IsLoggedIn

(***************************************************************************)
(* The operations as lists of accesses.                                    *)
(***************************************************************************)
StartInstance == <<"claim", "look", "launch">>
EnsureClientConnected == <<"need">> \o StartInstance \o <<"recheck">>
ReconnectClient == <<"hangup", "signal", "drop", "mark">> \o StartInstance
Connect == <<"save", "settings", "open">>
Disconnect == EnsureClientConnected \o <<"stop", "saveStopped">>
Logout ==
    EnsureClientConnected
        \o <<"leave", "saveOffline", "signal", "dropClient", "dropKill">>
Delete ==
    <<"part", "dropClient", "ifKill", "signal", "dropKill",
      "dropMy", "dropClient", "signalIf", "dropKill", "erase">>
ForceReconnect ==
    <<"refuse", "replace", "cut", "signal", "dropClient", "dropKill", "spawn">>

Steps == {"claim", "look", "launch", "need", "recheck", "hangup", "signal", "drop",
          "mark", "save", "settings", "open", "stop", "saveStopped", "leave",
          "saveOffline", "dropClient", "dropMy", "dropKill", "part", "ifKill",
          "signalIf", "erase", "refuse", "replace", "cut", "spawn"}

Program ==
    [start      |-> StartInstance,
     connect    |-> Connect,
     reconnect  |-> EnsureClientConnected \o ReconnectClient,
     disconnect |-> Disconnect,
     logout     |-> Logout,
     delete     |-> Delete,
     force      |-> ForceReconnect]

\* A request: the accesses it has still to make and the client it holds.
Task == [todo : Seq(Steps), held : Loops \cup {None}]
Job(steps) == [todo |-> steps, held |-> None]
Idle == Job(<<>>)

\* ConnectOnStartup starts the instances whose row says connected.
Booter == CHOOSE r \in Requests : TRUE
ConnectOnStartup ==
    [r \in Requests |-> IF r = Booter /\ row = "online"
                           THEN Job(StartInstance) ELSE Idle]

Init ==
    /\ clientPointer = None /\ myClientPointer = None /\ killChannel = None
    /\ made = {} /\ closed = {}
    /\ pc = [l \in Loops |-> "unused"]
    /\ kill = [l \in Loops |-> None]
    /\ parent = [l \in Loops |-> None]
    /\ codes = [l \in Loops |-> 0]
    /\ paired = {}
    /\ socket = [l \in Loops |-> "closed"]
    /\ handler = {} /\ reopening = {}
    /\ row \in {"offline", "online"}
    /\ starting = FALSE
    /\ req = ConnectOnStartup

(***************************************************************************)
(* Accesses to the maps, each under the mutex.                             *)
(***************************************************************************)
\* signalKillChannel: close the channel and forget it, if there is one.
SignalKillChannel ==
    /\ closed' = closed \cup ({killChannel} \cap Channels)
    /\ killChannel' = None

\* deleteClientState: forget all three entries, whoever they belong to.
DeleteClientState ==
    /\ clientPointer' = None
    /\ myClientPointer' = None
    /\ killChannel' = None

\* setKillChannel(make(chan bool)): a new channel, in place of any other.
Fresh == CHOOSE c \in Channels : c \notin made
SetKillChannel ==
    /\ made # Channels
    /\ killChannel' = Fresh
    /\ made' = made \cup {Fresh}

\* ensureKillChannel: make one unless there is one.
EnsureKillChannel ==
    \/ killChannel = None /\ SetKillChannel
    \/ killChannel # None /\ UNCHANGED <<killChannel, made>>

\* UpdateConnected changes nothing when the row is gone.
UpdateConnected(flag) == row' = IF row = "absent" THEN row ELSE flag

Go(l, stage) == pc' = [pc EXCEPT ![l] = stage]
Close(l) == socket' = [socket EXCEPT ![l] = "closed"]
CloseCurrent ==
    socket' = [l \in Loops |-> IF l = clientPointer THEN "closed" ELSE socket[l]]

\* Calling StartClient: an activation that has not been used.
CanSpawn == \E l \in Loops : pc[l] = "unused"
Callee == CHOOSE l \in Loops : pc[l] = "unused"
Spawn ==
    /\ CanSpawn
    /\ Go(Callee, "begin")
    /\ UNCHANGED <<kill, parent, codes>>

(***************************************************************************)
(* StartClient.                                                            *)
(***************************************************************************)
\* It gives up when a client of the instance is connected already.
Begin(l) ==
    /\ pc[l] = "begin"
    /\ Go(l, IF Up(clientPointer) THEN "returned" ELSE "ensure")
    /\ UNCHANGED <<maps, channels, kill, parent, codes, clients, row, requests>>

\* A kill channel, then the stored device of the instance or a new one: an
\* instance that has a jid without a device is marked as not connected.  An
\* error of the store returns.
Ensure(l) ==
    /\ pc[l] = "ensure"
    /\ EnsureKillChannel
    /\ \/ Go(l, "returned") /\ UNCHANGED <<paired, row>>
       \/ Go(l, "new") /\ paired' = paired \cup {l} /\ UNCHANGED row
       \/ /\ Go(l, "new")
          /\ UNCHANGED paired
          /\ UpdateConnected("offline") \/ UNCHANGED row
    /\ UNCHANGED <<clientPointer, myClientPointer, closed, kill, parent, codes,
                   socket, handler, reopening, requests>>

\* The new client becomes the instance's.  A malformed proxy returns.
NewClient(l) ==
    /\ pc[l] = "new"
    /\ clientPointer' = l
    /\ Go(l, "attach") \/ Go(l, "returned")
    /\ UNCHANGED <<myClientPointer, killChannel, channels, kill, parent, codes,
                   clients, row, requests>>

Attach(l) ==
    /\ pc[l] = "attach"
    /\ handler' = handler \cup {l}
    /\ myClientPointer' = l
    /\ Go(l, "dial")
    /\ UNCHANGED <<clientPointer, killChannel, channels, kill, parent, codes, paired,
                   socket, reopening, row, requests>>

\* Connect, the second attempt included.  A failure returns, and leaves the
\* entries of the maps behind.
Dial(l) ==
    /\ pc[l] = "dial"
    /\ \/ /\ Go(l, "returned")
          /\ UNCHANGED socket
       \/ /\ Go(l, IF l \in paired THEN "capture" ELSE "qr")
          /\ socket' = [socket EXCEPT ![l] = "open"]
    /\ UNCHANGED <<maps, channels, kill, parent, codes, paired, handler, reopening,
                   row, requests>>

AtLimit(n) == QrcodeMaxCount > 0 /\ n >= QrcodeMaxCount

\* A QR code is shown, unless it is one too many: then the client is logged
\* out, which may fail, the kill channel signalled and the entries dropped.
QrCode(l) ==
    /\ pc[l] = "qr"
    /\ codes[l] < PairingCodes
    /\ l \notin paired
    /\ \/ /\ ~AtLimit(codes[l] + 1)
          /\ codes' = [codes EXCEPT ![l] = @ + 1]
          /\ UNCHANGED <<pc, killChannel, closed, socket, row>>
       \/ /\ AtLimit(codes[l] + 1)
          /\ UpdateConnected("offline")
          /\ Close(l) \/ UNCHANGED socket
          /\ SignalKillChannel
          /\ Go(l, "limit")
          /\ codes' = [codes EXCEPT ![l] = 0]
    /\ UNCHANGED <<clientPointer, myClientPointer, made, kill, parent, paired,
                   handler, reopening, requests>>

\* The library has no code left: it disconnects and closes its channel.
QrTimeout(l) ==
    /\ pc[l] = "qr"
    /\ l \notin paired
    /\ SignalKillChannel
    /\ Close(l)
    /\ Go(l, "timeout")
    /\ codes' = [codes EXCEPT ![l] = 0]
    /\ UNCHANGED <<clientPointer, myClientPointer, made, kill, parent, paired,
                   handler, reopening, row, requests>>

QrDrop(l) ==
    /\ pc[l] \in {"limit", "timeout"}
    /\ DeleteClientState
    /\ Go(l, IF pc[l] = "limit" THEN "returned" ELSE "capture")
    /\ UNCHANGED <<channels, kill, parent, codes, clients, row, requests>>

\* "success" after pairing, or another event that ends the pairing.
QrEnds(l) ==
    /\ pc[l] = "qr"
    /\ Go(l, "capture")
    /\ codes' = [codes EXCEPT ![l] = 0]
    /\ UNCHANGED <<maps, channels, kill, parent, clients, row, requests>>

\* Variant: without the test for nil the client waits on no channel at all.
CaptureWithoutTest(l) ==
    /\ pc[l] = "capture"
    /\ kill' = [kill EXCEPT ![l] = killChannel]
    /\ Go(l, "wait")
    /\ UNCHANGED <<maps, channels, parent, codes, clients, row, requests>>

\* The kill channel is read once; without one the client is given up.
Capture(l) ==
    /\ pc[l] = "capture"
    /\ kill' = [kill EXCEPT ![l] = killChannel]
    /\ \/ killChannel = None /\ Close(l) /\ Go(l, "returned")
       \/ killChannel # None /\ Go(l, "wait") /\ UNCHANGED socket
    /\ UNCHANGED <<maps, channels, parent, codes, paired, handler, reopening, row,
                   requests>>

Wake(l) ==
    /\ pc[l] = "wait"
    /\ kill[l] \in closed
    /\ DeleteClientState
    /\ Go(l, "killed")
    /\ UNCHANGED <<channels, kill, parent, codes, clients, row, requests>>

\* The row is updated and StartClient calls itself.
CallAgain(l) ==
    /\ pc[l] = "killed"
    /\ CanSpawn
    /\ UpdateConnected("offline")
    /\ pc' = [pc EXCEPT ![l] = "suspended", ![Callee] = "begin"]
    /\ parent' = [parent EXCEPT ![Callee] = l]
    /\ UNCHANGED <<maps, channels, kill, codes, clients, requests>>

\* The deferred Disconnect, once the inner call has returned.
Unwind(l) ==
    /\ pc[l] = "suspended"
    /\ \A m \in Loops : parent[m] = l => pc[m] = "returned"
    /\ Close(l)
    /\ Go(l, "returned")
    /\ UNCHANGED <<maps, channels, kill, parent, codes, paired, handler, reopening,
                   row, requests>>

StartClient(l) ==
    \/ Begin(l) \/ Ensure(l) \/ NewClient(l) \/ Attach(l)
    \/ Dial(l) \/ QrCode(l) \/ QrTimeout(l) \/ QrDrop(l) \/ QrEnds(l)
    \/ Capture(l) \/ Wake(l) \/ CallAgain(l) \/ Unwind(l)

(***************************************************************************)
(* Requests.  A step makes the first access of its request's list.         *)
(***************************************************************************)
At(r, step) == req[r].todo # <<>> /\ Head(req[r].todo) = step
Rest(task, n) ==
    IF Len(task.todo) <= n
       THEN Idle
       ELSE [task EXCEPT !.todo = SubSeq(@, n + 1, Len(@))]
Skip(r, n) == req' = [req EXCEPT ![r] = Rest(@, n)]
Done(r) == Skip(r, 1)
GiveUp(r) == req' = [req EXCEPT ![r] = Idle]

\* A request arrives; the middleware loads the instance for it.
Request(r) ==
    /\ req[r].todo = <<>>
    /\ row # "absent"
    /\ \E o \in Operations : req' = [req EXCEPT ![r] = Job(Program[o])]
    /\ UNCHANGED <<maps, channels, loopVars, clients, row, starting>>

Holding(task, l) == [task EXCEPT !.held = l]

\* ensureClientConnected: without a client the instance is started first, and
\* a client that is not connected is an error.
Need(r) ==
    /\ At(r, "need")
    /\ \/ clientPointer = None /\ Done(r)
       \/ /\ Up(clientPointer)
          /\ req' = [req EXCEPT ![r] = Rest(Holding(@, clientPointer),
                                            Len(EnsureClientConnected))]
       \/ clientPointer # None /\ ~Up(clientPointer) /\ GiveUp(r)
    /\ UNCHANGED <<maps, channels, loopVars, clients, row, starting>>

Recheck(r) ==
    /\ At(r, "recheck")
    /\ \/ /\ Up(clientPointer)
          /\ req' = [req EXCEPT ![r] = Rest(Holding(@, clientPointer), 1)]
       \/ ~Up(clientPointer) /\ GiveUp(r)
    /\ UNCHANGED <<maps, channels, loopVars, clients, row, starting>>

\* StartInstance: one at a time, another is skipped.
Claim(r) ==
    /\ At(r, "claim")
    /\ starting' = TRUE
    /\ IF starting THEN Skip(r, Len(StartInstance)) ELSE Done(r)
    /\ UNCHANGED <<maps, channels, loopVars, clients, row>>

\* Variant: the early return for a missing row keeps the instance claimed.
LookKeepsClaim(r) ==
    /\ At(r, "look")
    /\ \/ row # "absent" /\ clientPointer = None /\ Done(r) /\ UNCHANGED starting
       \/ row # "absent" /\ clientPointer # None /\ Skip(r, 2) /\ starting' = FALSE
       \/ GiveUp(r) /\ UNCHANGED starting
    /\ UNCHANGED <<maps, channels, loopVars, clients, row>>

\* It is skipped when the instance has a client.  The row may be gone, or the
\* query fail.
Look(r) ==
    /\ At(r, "look")
    /\ \/ row # "absent" /\ clientPointer = None /\ Done(r) /\ UNCHANGED starting
       \/ row # "absent" /\ clientPointer # None /\ Skip(r, 2) /\ starting' = FALSE
       \/ GiveUp(r) /\ starting' = FALSE
    /\ UNCHANGED <<maps, channels, loopVars, clients, row>>

\* The kill channel is replaced and StartClient runs.  A malformed proxy
\* configuration stops between the two.
Launch(r) ==
    /\ At(r, "launch")
    /\ starting' = FALSE
    /\ SetKillChannel
    /\ \/ Spawn /\ Done(r)
       \/ GiveUp(r) /\ UNCHANGED loopVars
    /\ UNCHANGED <<clientPointer, myClientPointer, closed, clients, row>>

\* ReconnectClient: disconnect the client and detach its handler.
Hangup(r) ==
    /\ At(r, "hangup")
    /\ CloseCurrent
    /\ handler' = IF myClientPointer = clientPointer
                     THEN handler \ {clientPointer} ELSE handler
    /\ Done(r)
    /\ UNCHANGED <<maps, channels, loopVars, paired, reopening, row, starting>>

Signal(r) ==
    /\ At(r, "signal")
    /\ SignalKillChannel
    /\ Done(r)
    /\ UNCHANGED <<clientPointer, myClientPointer, made, loopVars, clients, row,
                   starting>>

Drop(r) ==
    /\ At(r, "drop")
    /\ DeleteClientState
    /\ Done(r)
    /\ UNCHANGED <<channels, loopVars, clients, row, starting>>

DropClient(r) ==
    /\ At(r, "dropClient")
    /\ clientPointer' = None
    /\ Done(r)
    /\ UNCHANGED <<myClientPointer, killChannel, channels, loopVars, clients, row,
                   starting>>

DropMy(r) ==
    /\ At(r, "dropMy")
    /\ myClientPointer' = None
    /\ Done(r)
    /\ UNCHANGED <<clientPointer, killChannel, channels, loopVars, clients, row,
                   starting>>

DropKill(r) ==
    /\ At(r, "dropKill")
    /\ killChannel' = None
    /\ Done(r)
    /\ UNCHANGED <<clientPointer, myClientPointer, channels, loopVars, clients, row,
                   starting>>

\* "Reconnecting" is written to the row; without a row the restart ends here.
Mark(r) ==
    /\ At(r, "mark")
    /\ \/ row # "absent" /\ UpdateConnected("offline") /\ Done(r)
       \/ GiveUp(r) /\ UNCHANGED row
    /\ UNCHANGED <<maps, channels, loopVars, clients, starting>>

\* The whole row as the request loaded it, deleted since or not: the flag is
\* what it was then.  Logout clears it first.
Save(r) ==
    /\ At(r, "save") \/ At(r, "saveOffline") \/ At(r, "saveStopped")
    /\ \/ /\ row' \in {"offline", "online"}
          /\ At(r, "saveOffline") => row' = "offline"
          /\ Done(r)
       \/ GiveUp(r) /\ UNCHANGED row
    /\ UNCHANGED <<maps, channels, loopVars, clients, starting>>

\* Connect: a MyClient in the map gets the new settings and that is all.  An
\* instance without one, or whose row cannot be loaded, counts as not running.
Settings(r) ==
    /\ At(r, "settings")
    /\ (myClientPointer # None /\ row # "absent" /\ Skip(r, 2)) \/ Done(r)
    /\ UNCHANGED <<maps, channels, loopVars, clients, row, starting>>

\* Connect calls StartClient itself, past the guards of StartInstance.
Open(r) ==
    /\ At(r, "open")
    /\ SetKillChannel
    /\ \/ Spawn /\ Done(r)
       \/ GiveUp(r) /\ UNCHANGED loopVars
    /\ UNCHANGED <<clientPointer, myClientPointer, closed, clients, row, starting>>

\* Disconnect: signal the loop of a client that is logged in.
Stop(r) ==
    /\ At(r, "stop")
    /\ \/ LoggedIn(req[r].held) /\ SignalKillChannel /\ Done(r)
       \/ /\ ~LoggedIn(req[r].held)
          /\ GiveUp(r)
          /\ UNCHANGED <<killChannel, closed>>
    /\ UNCHANGED <<clientPointer, myClientPointer, made, loopVars, clients, row,
                   starting>>

\* Logout: log out a client that is logged in, hang up one that is not.
Leave(r) ==
    LET c == req[r].held IN
    /\ At(r, "leave")
    /\ \/ LoggedIn(c) /\ Close(c) /\ Done(r)
       \/ Up(c) /\ ~LoggedIn(c) /\ Close(c) /\ Skip(r, 2)
       \/ (LoggedIn(c) \/ ~Up(c)) /\ GiveUp(r) /\ UNCHANGED socket
    /\ UNCHANGED <<maps, channels, loopVars, paired, handler, reopening, row,
                   starting>>

\* Delete: log out and hang up a connected client.
Part(r) ==
    /\ At(r, "part")
    /\ \/ row # "absent" /\ CloseCurrent /\ Done(r)
       \/ GiveUp(r) /\ UNCHANGED socket
    /\ UNCHANGED <<maps, channels, loopVars, paired, handler, reopening, row,
                   starting>>

IfKill(r) ==
    /\ At(r, "ifKill")
    /\ IF killChannel = None THEN Skip(r, 3) ELSE Done(r)
    /\ UNCHANGED <<maps, channels, loopVars, clients, row, starting>>

SignalIf(r) ==
    /\ At(r, "signalIf")
    /\ SignalKillChannel
    /\ IF killChannel = None THEN Skip(r, 2) ELSE Done(r)
    /\ UNCHANGED <<clientPointer, myClientPointer, made, loopVars, clients, row,
                   starting>>

Erase(r) ==
    /\ At(r, "erase")
    /\ \/ row' = "absent" /\ Done(r)
       \/ GiveUp(r) /\ UNCHANGED row
    /\ UNCHANGED <<maps, channels, loopVars, clients, starting>>

\* ForceReconnect: refused while a client is logged in, or without a row.
Refuse(r) ==
    /\ At(r, "refuse")
    /\ \/ ~LoggedIn(clientPointer) /\ row # "absent" /\ Done(r)
       \/ GiveUp(r)
    /\ UNCHANGED <<maps, channels, loopVars, clients, row, starting>>

Replace(r) ==
    /\ At(r, "replace")
    /\ SetKillChannel
    /\ Done(r) \/ GiveUp(r)
    /\ UNCHANGED <<clientPointer, myClientPointer, closed, loopVars, clients, row,
                   starting>>

Cut(r) ==
    /\ At(r, "cut")
    /\ CloseCurrent
    /\ IF clientPointer = None THEN Skip(r, 4) ELSE Done(r)
    /\ UNCHANGED <<maps, channels, loopVars, paired, handler, reopening, row,
                   starting>>

Run(r) ==
    /\ At(r, "spawn")
    /\ Spawn
    /\ Done(r)
    /\ UNCHANGED <<maps, channels, clients, row, starting>>

Serve(r) ==
    \/ Need(r) \/ Recheck(r) \/ Claim(r) \/ Look(r) \/ Launch(r)
    \/ Hangup(r) \/ Signal(r) \/ Drop(r) \/ Mark(r)
    \/ DropClient(r) \/ DropMy(r) \/ DropKill(r) \/ Save(r)
    \/ Settings(r) \/ Open(r) \/ Stop(r) \/ Leave(r)
    \/ Part(r) \/ IfKill(r) \/ SignalIf(r) \/ Erase(r)
    \/ Refuse(r) \/ Replace(r) \/ Cut(r) \/ Run(r)

(***************************************************************************)
(* Events of the library, and what the event handler does with them.  They *)
(* reach the handler of a connected client as long as it is attached.      *)
(***************************************************************************)
Listening(l) == l \in handler /\ Up(l)

\* Login succeeded, or a push name came: the row says connected, unless the
\* store has no push name yet.
Connected(l) ==
    /\ Listening(l) /\ l \in paired
    /\ socket' = [socket EXCEPT ![l] = "auth"]
    /\ UpdateConnected("online") \/ UNCHANGED row
    /\ UNCHANGED <<maps, channels, loopVars, paired, handler, reopening, requests>>

\* The QR code was scanned: the row is loaded and saved as connected.
PairSuccess(l) ==
    /\ Listening(l) /\ pc[l] = "qr" /\ l \notin paired
    /\ paired' = paired \cup {l}
    /\ UpdateConnected("online")
    /\ UNCHANGED <<maps, channels, loopVars, socket, handler, reopening, requests>>

\* LoggedOut and ClientOutdated: the device is gone, the loop is signalled.
LoggedOut(l) ==
    /\ Listening(l) /\ l \in paired
    /\ paired' = paired \ {l}
    /\ Close(l)
    /\ UpdateConnected("offline")
    /\ SignalKillChannel
    /\ UNCHANGED <<clientPointer, myClientPointer, made, loopVars, handler,
                   reopening, requests>>

\* The server closed the connection: a goroutine reconnects the instance.
Disconnected(l, r) ==
    /\ Listening(l)
    /\ req[r].todo = <<>>
    /\ Close(l)
    /\ UpdateConnected("offline")
    /\ req' = [req EXCEPT ![r] = Job(ReconnectClient)]
    /\ UNCHANGED <<maps, channels, loopVars, paired, handler, reopening, starting>>

\* The login was refused.
ConnectFailure(l) ==
    /\ Listening(l) /\ ~LoggedIn(l)
    /\ Close(l)
    /\ UpdateConnected("offline")
    /\ UNCHANGED <<maps, channels, loopVars, paired, handler, reopening, requests>>

\* Another connection took over the device.
StreamReplaced(l) ==
    /\ Listening(l) /\ LoggedIn(l)
    /\ \E m \in Loops \ {l} : LoggedIn(m)
    /\ Close(l)
    /\ UNCHANGED <<maps, channels, loopVars, paired, handler, reopening, row,
                   requests>>

\* Some messages that cannot be decrypted make the handler reconnect.
Undecryptable(l) ==
    /\ Listening(l) /\ LoggedIn(l)
    /\ Close(l)
    /\ reopening' = reopening \cup {l}
    /\ UNCHANGED <<maps, channels, loopVars, paired, handler, row, requests>>

Reopen(l) ==
    /\ l \in reopening
    /\ reopening' = reopening \ {l}
    /\ \/ socket' = [socket EXCEPT ![l] = IF @ = "closed" THEN "open" ELSE @]
       \/ UNCHANGED socket
    /\ UNCHANGED <<maps, channels, loopVars, paired, handler, row, requests>>

Events(l) ==
    \/ Connected(l) \/ PairSuccess(l) \/ LoggedOut(l) \/ ConnectFailure(l)
    \/ StreamReplaced(l) \/ Undecryptable(l) \/ Reopen(l)
    \/ \E r \in Requests : Disconnected(l, r)

\* The process stops and starts again; only the database survives.
Restart ==
    /\ clientPointer' = None /\ myClientPointer' = None /\ killChannel' = None
    /\ made' = {} /\ closed' = {}
    /\ pc' = [l \in Loops |-> "unused"]
    /\ kill' = [l \in Loops |-> None]
    /\ parent' = [l \in Loops |-> None]
    /\ codes' = [l \in Loops |-> 0]
    /\ paired' = {}
    /\ socket' = [l \in Loops |-> "closed"]
    /\ handler' = {} /\ reopening' = {}
    /\ starting' = FALSE
    /\ req' = ConnectOnStartup
    /\ UNCHANGED row

Next ==
    \/ \E l \in Loops : StartClient(l) \/ Events(l)
    \/ \E r \in Requests : Request(r) \/ Serve(r)
    \/ Restart

Spec == Init /\ [][Next]_vars

-----------------------------------------------------------------------------
\* Every variable has its type.
TypeOK ==
    /\ clientPointer \in Loops \cup {None}
    /\ myClientPointer \in Loops \cup {None}
    /\ killChannel \in Channels \cup {None}
    /\ made \subseteq Channels
    /\ closed \subseteq Channels
    /\ pc \in [Loops -> Stages]
    /\ kill \in [Loops -> Channels \cup {None}]
    /\ parent \in [Loops -> Loops \cup {None}]
    /\ codes \in [Loops -> Nat]
    /\ paired \subseteq Loops
    /\ socket \in [Loops -> {"closed", "open", "auth"}]
    /\ handler \subseteq Loops
    /\ reopening \subseteq Loops
    /\ row \in Rows
    /\ starting \in BOOLEAN
    /\ req \in [Requests -> Task]

\* Starters hold the claim of StartInstance.
Claimed(r) == At(r, "look") \/ At(r, "launch")

\* The kill channel works as a switch: the one in the map can still be closed
\* (signalKillChannel closes and removes under one lock), a StartClient that
\* waits does so on a channel that exists, never on nil, and one that restarts
\* was signalled on the channel it had captured.
KillSwitch ==
    /\ closed \subseteq made
    /\ killChannel # None => killChannel \in made \ closed
    /\ \A l \in Loops :
        /\ pc[l] = "wait" => kill[l] \in made
        /\ pc[l] \in {"killed", "suspended"} => kill[l] \in closed

\* startingInstances admits one start at a time and is released on every way
\* out: it is set exactly while a request is between its claim and its launch,
\* and only one request is.
OneStarter ==
    /\ starting <=> \E r \in Requests : Claimed(r)
    /\ \A q, r \in Requests : Claimed(q) /\ Claimed(r) => q = r

=============================================================================
