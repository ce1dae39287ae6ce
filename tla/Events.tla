------------------------------- MODULE Events -------------------------------
(***************************************************************************)
(* What becomes of an event of a WhatsApp client: the event handler of     *)
(* pkg/whatsmeow/service, the fan-out to the sinks of pkg/events, and the  *)
(* observation of the session (pkg/runtimeobs and its listener).           *)
(*                                                                         *)
(* One instance.  The library calls the handler for one event at a time;   *)
(* the handler starts goroutines that share the AMQP connection, the       *)
(* websocket connections and the row of the session state.  What the       *)
(* handler does to the session is in Session, and what receipts and        *)
(* messages do to the history is in Conversation: here the handler decides *)
(* what is dispatched and what is observed.  Of a payload only the event's *)
(* name is kept.  A panic in a goroutine ends the process; a panic in the  *)
(* handler is recovered by the library.                                    *)
(***************************************************************************)
EXTENDS Integers, Sequences, FiniteSets

CONSTANTS
    Settings,      \* the settings an instance may have (records, see below)
    Configs,       \* the configurations of the process (records, see below)
    Inputs,        \* the events of the library (records, see below)
    Conns,         \* websocket connections
    PublishTries,  \* maxRetries of the AMQP producer: 3
    DialTries,     \* attempts of one reconnect: 3
    HookTries,     \* attempts of one webhook: 5
    MaxEvents,     \* bound: events and API observations
    MaxDrops,      \* bound: times the AMQP connection breaks
    None

ASSUME EventsAssumption ==
    /\ {PublishTries, DialTries, HookTries} \subseteq Nat \ {0}
    /\ {MaxEvents, MaxDrops} \subseteq Nat
    /\ None \notin Conns

VARIABLES
    settings,   \* the instance: subscriptions and sinks, and what it ignores
    config,     \* the process: global queues, media, connections at startup
    handled,    \* number of events so far
    effects,    \* what the last event's handler did to the session's chat
    tasks,      \* goroutines of CallWebhook and SendToGlobalQueues
    hooks,      \* goroutines of sendWebhookWithRetry
    conn,       \* p.conn of the AMQP producer: "nil", "open" or "closed"
    broker,     \* whether the broker answers
    drops,      \* times the AMQP connection broke
    lost,       \* the AMQP connection broke, or a dial failed
    open,       \* websocket connections whose peer is there
    readers,    \* connection -> its reader: "none", "client" or "broadcast"
    client,     \* p.clients[instance]: a connection, or None
    broadcast,  \* p.broadcast
    overlapped, \* two tasks were under way at once
    crashed,    \* the process ended with a panic
    occurred,   \* lifecycle events that passed the registry, in order
    seen,       \* status_observed noted lately: by the service, the registry
    listeners,  \* goroutines of the lifecycle listener
    row,        \* the runtime_session_states row, or None
    upserted,   \* lifecycle events written to the row, in order
    appended,   \* runtime_session_events rows
    clean       \* no two listeners overlapped, no GetState failed

amqp == <<conn, broker, drops, lost>>
socket == <<open, readers, client, broadcast>>
observation == <<occurred, seen, listeners, row, upserted, appended, clean>>
vars == <<settings, config, handled, effects, tasks, hooks, amqp, socket,
          overlapped, crashed, observation>>

-----------------------------------------------------------------------------
(***************************************************************************)
(* Subscriptions.  An event belongs to a group; the two events without one *)
(* reach only those who subscribe to everything.                           *)
(***************************************************************************)
Members ==
    [MESSAGE       |-> {"Message"},
     SEND_MESSAGE  |-> {"SendMessage"},
     READ_RECEIPT  |-> {"Receipt"},
     PRESENCE      |-> {"Presence"},
     HISTORY_SYNC  |-> {"HistorySync"},
     CHAT_PRESENCE |-> {"ChatPresence", "Archive"},
     CALL          |-> {"CallOffer", "CallAccept", "CallTerminate", "CallOfferNotice",
                        "CallRelayLatency"},
     CONNECTION    |-> {"Connected", "PairSuccess", "TemporaryBan", "LoggedOut",
                        "ConnectFailure", "Disconnected"},
     LABEL         |-> {"LabelEdit", "LabelAssociationChat", "LabelAssociationMessage"},
     CONTACT       |-> {"Contact", "PushName"},
     GROUP         |-> {"GroupInfo", "JoinedGroup"},
     NEWSLETTER    |-> {"NewsletterJoin", "NewsletterLeave"},
     QRCODE        |-> {"QRCode", "QRTimeout", "QRSuccess"}]

GroupsOf(e) == {g \in DOMAIN Members : e \in Members[g]}

\* Names that are not event types are discarded: they match nothing.
Subscribed(e) == "ALL" \in settings.events \/ settings.events \cap GroupsOf(e) # {}

On(value) == value \in {"enabled", "true"}

(***************************************************************************)
(* The goroutines.                                                         *)
(***************************************************************************)
\* at is the next step, tries and dials the attempts left of its loops, channel
\* the state of its AMQP channel, sent the sinks it reached, failed the sink
\* whose error ended it, subs and want the subscriptions and the sinks of the
\* instance when it was found subscribed, disturbed whether since then a
\* publish of it failed or the settings changed.
Task(kind, e) ==
    [kind |-> kind, event |-> e, at |-> "start", tries |-> 0, dials |-> 0,
     channel |-> "none", sent |-> <<>>, failed |-> None, subs |-> {},
     want |-> {}, disturbed |-> FALSE]

GlobalOn == config.amqp # "off" \/ config.nats # {}

\* go CallWebhook, and go SendToGlobalQueues when there are global queues.
Dispatches(e) ==
    <<Task("instance", e)>> \o IF GlobalOn THEN <<Task("global", e)>> ELSE <<>>

UnderWay(ts) == {t \in DOMAIN ts : ts[t].at # "done"}

\* SetTasks and Go change the tasks and note when two are under way.
SetTasks(ts) ==
    /\ tasks' = ts
    /\ overlapped' = (overlapped \/ Cardinality(UnderWay(ts)) > 1)
Change(t, x) == SetTasks([tasks EXCEPT ![t] = x])
Go(t, step) == Change(t, [tasks[t] EXCEPT !.at = step])

-----------------------------------------------------------------------------
(***************************************************************************)
(* The event handler.  An outcome is the event's name (None: nothing is    *)
(* dispatched), how often it is dispatched, what the handler did besides,  *)
(* and the lifecycle event it observed.                                    *)
(***************************************************************************)
Outcome(e, times, did, life) == [event |-> e, times |-> times, did |-> did, life |-> life]
Nothing(did) == Outcome(None, 0, did, None)
Life(type, connected) == [type |-> type, connected |-> connected]

Ignored(chat) ==
    \/ chat = "group" /\ (config.ignoreGroup \/ settings.ignoreGroups)
    \/ chat = "status" /\ (config.ignoreStatus \/ settings.ignoreStatus)

\* The poll's vote: without a client the event ends there; a vote that can be
\* decrypted is saved by a goroutine that may fail.
OnPoll(did) ==
    {Nothing(did), Outcome("Message", 1, did, None),
     Outcome("Message", 1, did \cup {"SavePollVote"}, None)}

\* After the download, which may fail, the media goes into the payload as the
\* URL of the storage, which may fail too, or as base64.
Embedded(did) ==
    {Outcome("Message", 1, did, None),
     Outcome("Message", 1, did \cup {IF config.minio THEN "mediaUrl" ELSE "base64"}, None)}

\* Media too large for the payload is left out.  A sticker that was downloaded
\* and cannot be decoded ends the handler.
OnMedia(x, did) ==
    IF ~ config.webhookFiles THEN {Outcome("Message", 1, did, None)}
    ELSE IF x.body = "large" /\ ~ config.minio
    THEN {Outcome("Message", 1, did \cup {"mediaOmitted"}, None)}
    ELSE Embedded(did) \cup IF x.body = "sticker" THEN {Nothing(did)} ELSE {}

\* The first MarkRead comes before the tests, and so also for what is ignored.
OnMessage(x) ==
    LET first == IF settings.readMessages THEN {"MarkRead"} ELSE {}
        later == IF settings.readMessages /\ ~ x.fromMe THEN {"MarkReadLater"} ELSE {}
        did   == first \cup later
    IN  IF Ignored(x.chat) THEN {Nothing(first)}
        ELSE CASE x.body = "protocol" -> {Nothing(did)}
               [] x.body = "poll"     -> OnPoll(did)
               [] x.body \in {"image", "large", "sticker"} -> OnMedia(x, did)
               [] OTHER -> {Outcome("Message", 1, did, None)}

OnReceipt(x) ==
    IF (x.chat = "group" /\ Ignored("group")) \/ x.kind = "other" THEN {Nothing({})}
    ELSE {Outcome("Receipt", 1, {}, None)}

OnCallOffer ==
    IF settings.rejectCall THEN {Nothing({"RejectCall"})}
    ELSE {Outcome("CallOffer", 1, {}, None)}

\* Dispatched before the kill channel is closed, and again at the end.
OnLoggedOut == {Outcome("LoggedOut", 2, {"kill"}, Life("logout", FALSE))}
OnClientOutdated ==
    {Outcome("ClientOutdated", 1, {"kill", "deleteStore"}, Life("logout", FALSE))}
OnConnectFailure == {Outcome("ConnectFailure", 1, {}, Life("status_observed", FALSE))}
OnDisconnected == {Outcome("Disconnected", 1, {"reconnect"}, Life("disconnected", FALSE))}
OnPairSuccess == {Outcome("PairSuccess", 1, {}, Life("paired", TRUE))}
OnTemporaryBan == {Outcome("TemporaryBan", 1, {}, None)}
OnLabelEdit == {Outcome("LabelEdit", 1, {"UpsertLabel"}, None)}

\* Without a push name the event does nothing.
OnConnected ==
    {Nothing({}), Outcome("Connected", 1, {"presence"}, Life("connected", TRUE))}

OnUndecryptable(x) ==
    CASE x.kind = "view_once" -> {Outcome("Message", 1, {}, None)}
      [] x.kind = "66"        -> {Nothing({"reconnect"})}
      [] OTHER                -> {Nothing({})}

\* Archive's type assertion panics, and the library's recover drops the event.
Silent == {"StreamReplaced", "AppState", "AppStateSyncComplete", "UserAbout",
           "IdentityChange", "Archive", "Unhandled"}

Outcomes(x) ==
    CASE x.type = "Message"        -> OnMessage(x)
      [] x.type = "Receipt"        -> OnReceipt(x)
      [] x.type = "CallOffer"      -> OnCallOffer
      [] x.type = "LoggedOut"      -> OnLoggedOut
      [] x.type = "ClientOutdated" -> OnClientOutdated
      [] x.type = "ConnectFailure" -> OnConnectFailure
      [] x.type = "Disconnected"   -> OnDisconnected
      [] x.type = "PairSuccess"    -> OnPairSuccess
      [] x.type = "Connected"      -> OnConnected
      [] x.type = "TemporaryBan"   -> OnTemporaryBan
      [] x.type = "LabelEdit"      -> OnLabelEdit
      [] x.type = "Undecryptable"  -> OnUndecryptable(x)
      [] x.type \in Silent         -> {Nothing({})}
      [] OTHER                     -> {Outcome(x.type, 1, {}, None)}

-----------------------------------------------------------------------------
(***************************************************************************)
(* NotifyLifecycleEvent: an observation of a status that was noted lately  *)
(* is dropped; anything else starts a listener.                            *)
(***************************************************************************)
Listening == {l \in DOMAIN listeners : listeners[l].at # "done"}

NotifyLifecycleEvent(life) ==
    IF life.type = "status_observed" /\ life.connected \in seen.registry
    THEN UNCHANGED <<occurred, listeners, clean>>
    ELSE /\ occurred' = Append(occurred, life)
         /\ listeners' = Append(listeners, [event |-> Len(occurred) + 1, at |-> "load",
                                            state |-> None])
         /\ clean' = (clean /\ Listening = {})

Noted(life) ==
    IF life.type = "status_observed" THEN {life.connected} ELSE {}

myEventHandler(x) ==
    /\ ~ crashed /\ handled < MaxEvents
    /\ handled' = handled + 1
    /\ \E o \in Outcomes(x) :
         /\ effects' = o.did
         /\ SetTasks(tasks \o (IF o.times > 0 THEN Dispatches(o.event) ELSE <<>>)
                           \o (IF o.times > 1 THEN Dispatches(o.event) ELSE <<>>))
         /\ IF o.life = None THEN UNCHANGED <<occurred, listeners, clean, seen>>
            ELSE /\ NotifyLifecycleEvent(o.life)
                 /\ seen' = [seen EXCEPT !.registry = @ \cup Noted(o.life)]
    /\ UNCHANGED <<settings, config, hooks, amqp, socket, crashed, row, upserted, appended>>

\* recordRuntimeObservation of the API's operations, with the service's own
\* interval before the registry's.
recordRuntimeObservation(life) ==
    /\ ~ crashed /\ handled < MaxEvents
    /\ handled' = handled + 1
    /\ IF life.type = "status_observed" /\ life.connected \in seen.service
       THEN UNCHANGED <<occurred, listeners, clean, seen>>
       ELSE /\ NotifyLifecycleEvent(life)
            /\ seen' = [service |-> seen.service \cup Noted(life),
                        registry |-> seen.registry \cup Noted(life)]
    /\ UNCHANGED <<settings, config, effects, tasks, hooks, amqp, socket, overlapped,
                   crashed, row, upserted, appended>>

\* The intervals pass.
Forget(map) ==
    /\ seen[map] # {}
    /\ seen' = [seen EXCEPT ![map] = {}]
    /\ UNCHANGED <<settings, config, handled, effects, tasks, hooks, amqp, socket, overlapped,
                   crashed, occurred, listeners, row, upserted, appended, clean>>

(***************************************************************************)
(* The listener reads the state, changes it and writes all of it, and then *)
(* appends the event.  A read that fails counts as no state.               *)
(***************************************************************************)
Stamps == {"connected", "disconnected", "paired", "logout"}
Stamped(type) ==
    CASE type = "connected"    -> {"connected"}
      [] type = "paired"       -> {"connected", "paired"}
      [] type = "disconnected" -> {"disconnected"}
      [] type = "logout"       -> {"logout", "disconnected"}
      [] OTHER                 -> {}

State == [event : Nat, connected : BOOLEAN, stamp : [Stamps -> Nat]]
NoState == [event |-> 0, connected |-> FALSE, stamp |-> [s \in Stamps |-> 0]]

\* None is no state and no sink.
ASSUME NoneAssumption == None \notin State /\ None \notin {"rabbit", "nats", "socket", "hook"}

Listen(l, x) == listeners' = [listeners EXCEPT ![l] = x]
At(l, step) == listeners[l].at = step
notListening == <<settings, config, handled, effects, tasks, hooks, amqp, socket,
                  overlapped, crashed, occurred, seen>>

\* Variant: the state that was read is not used.
LoadNothing(l) ==
    /\ ~ crashed /\ At(l, "load")
    /\ Listen(l, [listeners[l] EXCEPT !.at = "upsert", !.state = NoState])
    /\ UNCHANGED <<notListening, clean, row, upserted, appended>>

Load(l) ==
    /\ ~ crashed /\ At(l, "load")
    /\ \/ Listen(l, [listeners[l] EXCEPT !.at = "done"]) /\ UNCHANGED clean
       \/ Listen(l, [listeners[l] EXCEPT !.at = "upsert",
                                         !.state = IF row = None THEN NoState ELSE row])
          /\ UNCHANGED clean
       \/ Listen(l, [listeners[l] EXCEPT !.at = "upsert", !.state = NoState])
          /\ clean' = FALSE
    /\ UNCHANGED <<notListening, row, upserted, appended>>

Observed(l) ==
    LET n == listeners[l].event
    IN  [event |-> n, connected |-> occurred[n].connected,
         stamp |-> [s \in Stamps |-> IF s \in Stamped(occurred[n].type) THEN n
                                     ELSE listeners[l].state.stamp[s]]]

UpsertState(l) ==
    /\ ~ crashed /\ At(l, "upsert")
    /\ \/ /\ row' = Observed(l)
          /\ upserted' = Append(upserted, listeners[l].event)
          /\ Listen(l, [listeners[l] EXCEPT !.at = "append", !.state = None])
       \/ /\ Listen(l, [listeners[l] EXCEPT !.at = "done", !.state = None])
          /\ UNCHANGED <<row, upserted>>
    /\ UNCHANGED <<notListening, appended, clean>>

AppendEvent(l) ==
    /\ ~ crashed /\ At(l, "append")
    /\ appended' \in {appended, appended \cup {listeners[l].event}}
    /\ Listen(l, [listeners[l] EXCEPT !.at = "done"])
    /\ UNCHANGED <<notListening, row, upserted, clean>>

-----------------------------------------------------------------------------
(***************************************************************************)
(* Dispatches that do not come from the event handler: the QR codes of     *)
(* StartClient, and the messages the API sends.                            *)
(***************************************************************************)
Announce(e) ==
    /\ ~ crashed /\ handled < MaxEvents
    /\ handled' = handled + 1
    /\ SetTasks(tasks \o Dispatches(e))
    /\ UNCHANGED <<settings, config, effects, hooks, amqp, socket, crashed, observation>>

(***************************************************************************)
(* CallWebhook and sendToQueueOrWebhook: the sinks in order, up to the     *)
(* first error.  SendToGlobalQueues: AMQP, and NATS whatever AMQP did, but *)
(* for an event without a group, which ends the fallback mode of AMQP.     *)
(***************************************************************************)
Here(t, step) == ~ crashed /\ t \in DOMAIN tasks /\ tasks[t].at = step

notTasks == <<settings, config, handled, effects, observation>>

\* The sinks that publish: the value "true" passes the test of the caller but
\* not the one of the AMQP and NATS producers, and without a connection at
\* startup the NATS producer does nothing.
Sinks == <<"rabbit", "nats", "socket", "hook">>
Publishes(sink) ==
    CASE sink = "rabbit" -> settings.rabbit = "enabled"
      [] sink = "nats"   -> settings.nats = "enabled" /\ config.natsUp
      [] sink = "socket" -> On(settings.socket)
      [] sink = "hook"   -> settings.hook
Wanted == {sink \in {"rabbit", "nats", "socket", "hook"} : Publishes(sink)}

CallWebhook(t) ==
    /\ Here(t, "start") /\ tasks[t].kind = "instance"
    /\ IF Subscribed(tasks[t].event)
       THEN Change(t, [tasks[t] EXCEPT !.at = "rabbit", !.want = Wanted,
                                       !.subs = settings.events])
       ELSE Go(t, "done")
    /\ UNCHANGED <<notTasks, hooks, amqp, socket, crashed>>

GlobalAmqp(e) ==
    \/ config.amqp = "specific" /\ e \in config.specific
    \/ config.amqp = "groups" /\ config.groups \cap GroupsOf(e) # {}

SendToGlobalQueues(t) ==
    /\ Here(t, "start") /\ tasks[t].kind = "global"
    /\ Go(t, IF config.amqp = "groups" /\ GroupsOf(tasks[t].event) = {} THEN "done"
             ELSE IF GlobalAmqp(tasks[t].event) THEN "rabbit" ELSE "nats")
    /\ UNCHANGED <<notTasks, hooks, amqp, socket, crashed>>

\* A sink succeeded, or failed: for an instance the first error is the last.
After(x, sink) ==
    LET i == CHOOSE j \in DOMAIN Sinks : Sinks[j] = sink
    IN  IF (x.kind = "global" /\ sink = "nats") \/ sink = "hook" THEN "done" ELSE Sinks[i + 1]

\* Variant: an error is logged and the next sink follows.
FailedGoesOn(x, sink) ==
    [x EXCEPT !.failed = sink, !.channel = "none", !.at = After(x, sink)]

Succeeded(x, sink, sent) ==
    [x EXCEPT !.at = After(x, sink), !.channel = "none",
              !.sent = IF sent THEN Append(@, sink) ELSE @]
Failed(x, sink) ==
    [x EXCEPT !.failed = sink, !.channel = "none",
              !.at = IF x.kind = "global" THEN After(x, sink) ELSE "done"]

(***************************************************************************)
(* The AMQP producer.  p.conn is shared by all tasks without a lock; a     *)
(* dial that fails sets it to nil.                                         *)
(***************************************************************************)
Enabled(x) == IF x.kind = "global" THEN "global" ELSE settings.rabbit

\* Variant: the connection is used as it is.
EnsureNothing(t, step) == Change(t, [tasks[t] EXCEPT !.at = step])

DialFor(step) == IF step = "channel" THEN "dialChannel" ELSE "dialRechannel"

\* ensureConnection, before a channel is opened and again after a publish
\* failed; step is what follows when there is a connection.
EnsureConnection(t, step) ==
    Change(t, [tasks[t] EXCEPT !.at = IF conn = "open" THEN step ELSE DialFor(step),
                               !.dials = IF conn = "open" THEN 0 ELSE DialTries])

Produce(t) ==
    /\ Here(t, "rabbit")
    /\ \/ /\ tasks[t].kind = "instance" /\ ~ On(settings.rabbit)
          /\ Go(t, "nats")
       \/ /\ tasks[t].kind = "global" \/ On(settings.rabbit)
          /\ IF config.amqpUrl THEN EnsureConnection(t, "channel")
             ELSE Change(t, Failed(tasks[t], "rabbit"))
    /\ UNCHANGED <<notTasks, hooks, amqp, socket, crashed>>

\* publishWithRetry goes on with its next attempt, or returns its error.
NextPublish(x) ==
    IF x.tries > 1 THEN [x EXCEPT !.at = "publish", !.tries = @ - 1]
    ELSE Failed(x, "rabbit")

\* An attempt of reconnect.  After the last one Produce fails, and
\* publishWithRetry goes on with its next attempt, on its old channel.
Reconnect(t) ==
    /\ ~ crashed /\ tasks[t].at \in {"dialChannel", "dialRechannel"}
    /\ LET again == tasks[t].at = "dialRechannel"
       IN  \/ /\ broker
              /\ conn' = "open"
              /\ Go(t, IF again THEN "rechannel" ELSE "channel")
              /\ UNCHANGED lost
           \/ /\ conn' = "nil" /\ ~ broker
              /\ lost' = TRUE
              /\ Change(t, IF tasks[t].dials > 1 THEN [tasks[t] EXCEPT !.dials = @ - 1]
                           ELSE IF again THEN NextPublish(tasks[t])
                           ELSE Failed(tasks[t], "rabbit"))
    /\ UNCHANGED <<notTasks, broker, drops, hooks, socket, crashed>>

Crash == crashed' = TRUE /\ UNCHANGED <<tasks, overlapped>>

\* conn.Channel, Confirm and QueueDeclare.  A nil connection panics; the
\* value "true" ends here, with success.
Channel(t) ==
    /\ Here(t, "channel")
    /\ IF conn = "nil" THEN Crash
       ELSE /\ UNCHANGED crashed
            /\ \/ Change(t, Failed(tasks[t], "rabbit"))
               \/ /\ conn = "open"
                  /\ IF Enabled(tasks[t]) \in {"global", "enabled"}
                     THEN Change(t, [tasks[t] EXCEPT !.at = "publish", !.tries = PublishTries,
                                                     !.channel = "live"])
                     ELSE Change(t, Succeeded(tasks[t], "rabbit", FALSE))
    /\ UNCHANGED <<notTasks, hooks, amqp, socket>>

\* An attempt of publishWithRetry.  On a dead channel it fails and the
\* connection is ensured; on a live one it may fail for another reason and is
\* tried again after a pause; a channel that could not be opened panics.
Publish(t) ==
    /\ Here(t, "publish")
    /\ CASE tasks[t].channel = "live" ->
              /\ UNCHANGED crashed
              /\ \/ Change(t, Succeeded(tasks[t], "rabbit", TRUE))
                 \/ Change(t, NextPublish([tasks[t] EXCEPT !.disturbed = TRUE]))
         [] tasks[t].channel = "dead" ->
              /\ UNCHANGED crashed
              /\ EnsureConnection(t, "rechannel")
         [] OTHER -> Crash
    /\ UNCHANGED <<notTasks, hooks, amqp, socket>>

\* The new channel of publishWithRetry.  It also overwrites the error of the
\* publish: after the last attempt the function returns success.
Rechannel(t) ==
    /\ Here(t, "rechannel")
    /\ IF conn = "nil" THEN Crash
       ELSE /\ UNCHANGED crashed
            /\ LET x == [tasks[t] EXCEPT !.disturbed = TRUE]
               IN  \/ Change(t, NextPublish([x EXCEPT !.channel = "nil"]))
                  \/ /\ conn = "open"
                     /\ Change(t, IF x.tries > 1 THEN NextPublish([x EXCEPT !.channel = "live"])
                                  ELSE Succeeded(x, "rabbit", FALSE))
    /\ UNCHANGED <<notTasks, hooks, amqp, socket>>

\* The broker closes the connection, and is there or not afterwards.
Drop(up) ==
    /\ ~ crashed /\ drops < MaxDrops
    /\ drops' = drops + 1 /\ broker' = up /\ lost' = TRUE
    /\ conn' = IF conn = "open" THEN "closed" ELSE conn
    /\ tasks' = [t \in DOMAIN tasks |-> IF tasks[t].channel = "live"
                                        THEN [tasks[t] EXCEPT !.channel = "dead"] ELSE tasks[t]]
    /\ UNCHANGED <<notTasks, hooks, socket, overlapped, crashed>>

Recover ==
    /\ ~ broker /\ broker' = TRUE
    /\ UNCHANGED <<notTasks, conn, drops, lost, tasks, hooks, socket, overlapped, crashed>>

(***************************************************************************)
(* NATS: the client buffers while it reconnects by itself.                 *)
(***************************************************************************)
NatsProduce(t) ==
    /\ Here(t, "nats")
    /\ IF tasks[t].kind = "global"
       THEN IF config.nats \cap GroupsOf(tasks[t].event) # {}
            THEN \/ Change(t, Succeeded(tasks[t], "nats", config.natsUp))
                 \/ config.natsUp /\ Change(t, Failed(tasks[t], "nats"))
            ELSE Go(t, "done")
       ELSE \/ Change(t, Succeeded(tasks[t], "nats", Publishes("nats")))
            \/ Publishes("nats") /\ Change(t, Failed(tasks[t], "nats"))
    /\ UNCHANGED <<notTasks, hooks, amqp, socket, crashed>>

(***************************************************************************)
(* Websockets.  Produce writes under the read lock, so writers may meet on *)
(* one connection, which panics; Add and Remove wait for them.             *)
(***************************************************************************)
Writing == {t \in DOMAIN tasks : tasks[t].at = "write"}
Targets == broadcast \cup (IF client = None THEN {} ELSE {client})

SocketProduce(t) ==
    /\ Here(t, "socket")
    /\ IF ~ On(settings.socket) THEN Go(t, "hook") /\ UNCHANGED crashed
       ELSE \/ Go(t, "write") /\ UNCHANGED crashed
            \/ Writing # {} /\ Targets # {} /\ Crash
    /\ UNCHANGED <<notTasks, hooks, amqp, socket>>

\* A write to the instance's connection fails when its peer is gone; the
\* errors of the broadcast connections are skipped.
SocketWrite(t) ==
    /\ Here(t, "write")
    /\ Change(t, IF client # None /\ client \notin open THEN Failed(tasks[t], "socket")
                 ELSE Succeeded(tasks[t], "socket", Targets \cap open # {}))
    /\ UNCHANGED <<notTasks, hooks, amqp, socket, crashed>>

ServeWs(c, as) ==
    /\ ~ crashed /\ Writing = {}
    /\ readers[c] = "none" /\ c \notin open
    /\ open' = open \cup {c} /\ readers' = [readers EXCEPT ![c] = as]
    /\ client' = IF as = "client" THEN c ELSE client
    /\ broadcast' = IF as = "broadcast" THEN broadcast \cup {c} ELSE broadcast
    /\ UNCHANGED <<notTasks, tasks, hooks, amqp, overlapped, crashed>>

PeerCloses(c) ==
    /\ c \in open /\ open' = open \ {c}
    /\ UNCHANGED <<notTasks, tasks, hooks, amqp, readers, client, broadcast, overlapped, crashed>>

\* The reader of a connection ends: RemoveClient deletes the instance's
\* connection, whichever it is by now.
ReaderEnds(c) ==
    /\ ~ crashed /\ Writing = {}
    /\ readers[c] # "none" /\ c \notin open
    /\ readers' = [readers EXCEPT ![c] = "none"]
    /\ client' = IF readers[c] = "client" THEN None ELSE client
    /\ broadcast' = broadcast \ {c}
    /\ UNCHANGED <<notTasks, tasks, hooks, amqp, open, overlapped, crashed>>

(***************************************************************************)
(* Webhooks: a goroutine for the global URL and one for the instance's.    *)
(***************************************************************************)
Urls == {"instance"} \cup IF config.webhookUrl THEN {"global"} ELSE {}

HookProduce(t) ==
    /\ Here(t, "hook")
    /\ Change(t, Succeeded(tasks[t], "hook", settings.hook))
    /\ hooks' = hooks \o IF ~ settings.hook THEN <<>>
                         ELSE IF config.webhookUrl
                              THEN <<[task |-> t, url |-> "global", left |-> HookTries, got |-> 0],
                                     [task |-> t, url |-> "instance", left |-> HookTries, got |-> 0]>>
                              ELSE <<[task |-> t, url |-> "instance", left |-> HookTries, got |-> 0]>>
    /\ UNCHANGED <<notTasks, amqp, socket, crashed>>

\* One attempt: answered with 2xx, accepted without such an answer, or
\* refused.  An endpoint that never answers is a goroutine that takes no step.
sendWebhook(h) ==
    /\ ~ crashed /\ hooks[h].left > 0
    /\ hooks' \in {[hooks EXCEPT ![h].left = 0, ![h].got = @ + 1],
                   [hooks EXCEPT ![h].left = @ - 1, ![h].got = @ + 1],
                   [hooks EXCEPT ![h].left = @ - 1]}
    /\ UNCHANGED <<notTasks, tasks, amqp, socket, overlapped, crashed>>

\* The instance's settings change under the goroutines.
Configure(s) ==
    /\ s # settings /\ settings' = s
    /\ tasks' = [t \in DOMAIN tasks |-> IF tasks[t].at = "done" THEN tasks[t]
                                        ELSE [tasks[t] EXCEPT !.disturbed = TRUE]]
    /\ UNCHANGED <<config, handled, effects, hooks, amqp, socket, overlapped, crashed,
                   observation>>

-----------------------------------------------------------------------------
Init ==
    /\ settings \in Settings /\ config \in Configs
    /\ handled = 0 /\ effects = {} /\ tasks = <<>> /\ hooks = <<>>
    /\ broker \in BOOLEAN /\ conn = IF broker /\ config.amqpUrl THEN "open" ELSE "nil"
    /\ drops = 0 /\ lost = FALSE
    /\ open = {} /\ readers = [c \in Conns |-> "none"] /\ client = None /\ broadcast = {}
    /\ overlapped = FALSE /\ crashed = FALSE
    /\ occurred = <<>> /\ seen = [service |-> {}, registry |-> {}] /\ listeners = <<>>
    /\ row = None /\ upserted = <<>> /\ appended = {} /\ clean = TRUE

Lifecycles == {Life(type, c) : type \in {"connected", "paired", "disconnected", "logout",
                                         "status_observed"}, c \in BOOLEAN}

Announced == {"SendMessage", "QRCode", "QRTimeout", "QRSuccess"}

\* A step, where events come from the given sets.
Step(inputs, announced, lifecycles) ==
    \/ \E x \in inputs : myEventHandler(x)
    \/ \E e \in announced : Announce(e)
    \/ \E life \in lifecycles : recordRuntimeObservation(life)
    \/ \E map \in {"service", "registry"} : Forget(map)
    \/ \E l \in DOMAIN listeners : Load(l) \/ UpsertState(l) \/ AppendEvent(l)
    \/ \E t \in DOMAIN tasks :
          \/ CallWebhook(t) \/ SendToGlobalQueues(t) \/ Produce(t) \/ Reconnect(t)
          \/ Channel(t) \/ Publish(t) \/ Rechannel(t) \/ NatsProduce(t)
          \/ SocketProduce(t) \/ SocketWrite(t) \/ HookProduce(t)
    \/ \E up \in BOOLEAN : Drop(up)
    \/ Recover
    \/ \E c \in Conns : \/ \E as \in {"client", "broadcast"} : ServeWs(c, as)
                       \/ PeerCloses(c) \/ ReaderEnds(c)
    \/ \E h \in DOMAIN hooks : sendWebhook(h)
    \/ \E s \in Settings : Configure(s)

Next == Step(Inputs, Announced, Lifecycles)

Spec == Init /\ [][Next]_vars

-----------------------------------------------------------------------------
(***************************************************************************)
(* Properties.                                                             *)
(***************************************************************************)
Ordered(sinks) ==
    \A i, j \in DOMAIN sinks : i < j =>
        \E k, m \in DOMAIN Sinks : k < m /\ Sinks[k] = sinks[i] /\ Sinks[m] = sinks[j]

Reached(x) == {x.sent[i] : i \in DOMAIN x.sent}

\* An event reaches an instance's sinks in their order and each once, only
\* while the instance is subscribed to it, and nothing after the sink whose
\* error ended the dispatch.  A dispatch that met no error, no broken channel
\* and no change of settings reached every sink that publishes, the websockets
\* if a peer was there; and a webhook is called for exactly the URLs of a
\* dispatch that came that far (CallWebhook, sendToQueueOrWebhook,
\* rabbitMQProducer.Produce, webhookProducer.Produce).
FanoutInOrder ==
    /\ \A t \in DOMAIN tasks :
         LET x == tasks[t]
         IN  /\ Ordered(x.sent)
             /\ x.kind = "instance" /\ x.sent # <<>> =>
                   "ALL" \in x.subs \/ GroupsOf(x.event) \cap x.subs # {}
             /\ x.kind = "instance" /\ x.failed # None => Ordered(Append(x.sent, x.failed))
             /\ (/\ x.kind = "instance" /\ x.at = "done" /\ x.failed = None
                 /\ ~ x.disturbed) =>
                   Reached(x) \ {"socket"} = x.want \ {"socket"}
    /\ \A h, i \in DOMAIN hooks :
         /\ tasks[hooks[h].task].sent # <<>>
         /\ tasks[hooks[h].task].sent[Len(tasks[hooks[h].task].sent)] = "hook"
         /\ hooks[h].task = hooks[i].task /\ hooks[h].url = hooks[i].url => h = i

\* The process ends with a panic of a producer only when two dispatches were
\* under way at once, or the AMQP connection was lost: a lone dispatch finds a
\* connection or fails, also when there was none at startup
\* (ensureConnection, publishWithRetry, websocketProducer.Produce).
CrashNeedsTrouble == crashed => overlapped \/ lost

Newest(stamp) ==
    LET ns == {upserted[i] : i \in {j \in DOMAIN upserted :
                                     stamp \in Stamped(occurred[upserted[j]].type)}}
    IN  IF ns = {} THEN 0 ELSE CHOOSE n \in ns : \A m \in ns : m <= n

\* The session's row always tells of the lifecycle event that was written last
\* as a whole, with that event's own stamps; as long as no two listeners
\* overlapped and every read succeeded it also has the newest stamp of every
\* kind.  An event is appended only after it was written to the row
\* (the lifecycle listener of newServices, UpsertState).
ObservationKept ==
    /\ row # None =>
         /\ upserted # <<>> /\ row.event = upserted[Len(upserted)]
         /\ row.connected = occurred[row.event].connected
         /\ \A s \in Stamps :
              /\ s \in Stamped(occurred[row.event].type) => row.stamp[s] = row.event
              /\ row.stamp[s] # 0 => \E i \in DOMAIN upserted :
                    upserted[i] = row.stamp[s] /\ s \in Stamped(occurred[upserted[i]].type)
              /\ clean => row.stamp[s] = Newest(s)
    /\ \A n \in appended : \E i \in DOMAIN upserted : upserted[i] = n
=============================================================================
