----------------------------- MODULE MCEvents -----------------------------
(* Small instances of Events for TLC.  A behaviour keeps to one group: what  *)
(* the handler makes of every event, the fan-out of one event to all sinks,  *)
(* two dispatches that meet in the AMQP connection or in the websockets, the *)
(* global queues, or the observations.                                       *)
EXTENDS Events, TLC

VARIABLE group

Instance(events, rabbit, nats, sock, hook) ==
    [events |-> events, rabbit |-> rabbit, nats |-> nats, socket |-> sock, hook |-> hook,
     readMessages |-> FALSE, ignoreGroups |-> FALSE, ignoreStatus |-> FALSE, rejectCall |-> FALSE]
Process ==
    [amqp |-> "off", specific |-> {}, groups |-> {}, nats |-> {}, amqpUrl |-> TRUE,
     natsUp |-> TRUE, webhookUrl |-> FALSE, webhookFiles |-> TRUE, minio |-> FALSE,
     ignoreGroup |-> FALSE, ignoreStatus |-> FALSE]

Off == Instance({"PICTURE"}, "", "", "", FALSE)
Handlers == {[Off EXCEPT !.readMessages = r, !.ignoreGroups = g, !.ignoreStatus = s, !.rejectCall = c] :
             r \in BOOLEAN, g \in BOOLEAN, s \in BOOLEAN, c \in BOOLEAN}
Everything == Instance({"ALL"}, "enabled", "enabled", "enabled", TRUE)
Loose == Instance({"GROUP", "oops"}, "true", "true", "true", TRUE)
Rabbit == Instance({"ALL"}, "enabled", "", "", FALSE)
Sock == Instance({"SEND_MESSAGE"}, "", "", "enabled", TRUE)

MCSettings == Handlers \cup {Everything, Loose, Rabbit, Sock}
MCConfigs ==
    {Process,
     [Process EXCEPT !.minio = TRUE, !.ignoreGroup = TRUE, !.ignoreStatus = TRUE],
     [Process EXCEPT !.webhookFiles = FALSE, !.amqpUrl = FALSE, !.natsUp = FALSE, !.webhookUrl = TRUE],
     [Process EXCEPT !.amqp = "groups", !.groups = {"GROUP"}, !.nats = {"GROUP", "CONNECTION"}],
     [Process EXCEPT !.amqp = "specific", !.specific = {"LoggedOut"}, !.nats = {"CONNECTION"}]}

Chats == {"user", "group", "status"}
MCInputs ==
    {[type |-> "Message", chat |-> c, body |-> b, fromMe |-> f] :
         c \in Chats, b \in {"text", "protocol", "poll", "image", "large", "sticker"}, f \in BOOLEAN}
    \cup {[type |-> "Receipt", chat |-> c, kind |-> k] :
              c \in Chats, k \in {"read", "readself", "delivered", "other"}}
    \cup {[type |-> "Undecryptable", kind |-> k] : k \in {"view_once", "66", "other"}}
    \cup {[type |-> y] : y \in (UNION {Members[g] : g \in DOMAIN Members}
                                \ {"Message", "Receipt", "SendMessage", "QRCode", "QRTimeout", "QRSuccess"})
                               \cup Silent \cup {"OfflineSyncCompleted", "ClientOutdated"}}

Group(name, instances, inputs, events) ==
    [name |-> name, settings |-> instances, inputs |-> inputs, events |-> events]
Groups ==
    {Group("handler", Handlers, {x.type : x \in MCInputs}, 1),
     Group("fanout", {Everything, Loose}, {"GroupInfo", "ClientOutdated"}, 1),
     Group("amqp", {Rabbit}, {"GroupInfo"}, 2),
     Group("socket", {Sock}, {}, 2),
     Group("global", {Off}, {"GroupInfo", "OfflineSyncCompleted", "LoggedOut"}, 1),
     Group("observe", {Off}, {"ConnectFailure"}, 3)}

MCLifecycles == {Life("paired", TRUE), Life("logout", FALSE), Life("status_observed", FALSE)}

MCInit ==
    /\ Init
    /\ group \in Groups
    /\ settings \in group.settings
    /\ (config.amqp # "off") = (group.name = "global")
    /\ group.name \in {"amqp", "socket", "observe"} => config = Process
    /\ group.name \notin {"amqp", "fanout", "global"} => broker
MCNext ==
    /\ Step({x \in Inputs : x.type \in group.inputs},
            IF group.name = "socket" THEN Announced ELSE {},
            IF group.name = "observe" THEN MCLifecycles ELSE {})
    /\ settings' \in group.settings
    /\ settings' # settings => group.name = "fanout"
    /\ handled' <= group.events
    /\ drops' > drops => group.name = "amqp"
    /\ open' # open => group.name = "socket"
    /\ UNCHANGED group
MCSpec == MCInit /\ [][MCNext]_<<vars, group>>
=============================================================================
