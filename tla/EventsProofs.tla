---------------------------- MODULE EventsProofs ----------------------------
(***************************************************************************)
(* Proofs about the events of a WhatsApp client, for any number of events, *)
(* goroutines, connections and attempts: what the session's row tells, when *)
(* the process may panic, and which sinks a dispatch reaches.              *)
(***************************************************************************)
EXTENDS Events, SequenceTheorems, FiniteSetTheorems, TLAPS

-----------------------------------------------------------------------------
(* The inductive invariant of the observations.                            *)

Listener == [event : Nat, at : {"load", "upsert", "append", "done"}, state : State \cup {None}]

WatchTypes ==
    /\ occurred \in Seq(Lifecycles)
    /\ listeners \in Seq(Listener)
    /\ row \in State \cup {None}
    /\ upserted \in Seq(Nat)
    /\ clean \in BOOLEAN

\* The lifecycle event n of oc sets the stamp s.
Sets(oc, n, s) == s \in Stamped(oc[n].type)

\* Every stamp of the state x is that of an event that was written.
Witnessed(oc, up, x) ==
    \A s \in Stamps :
        x.stamp[s] # 0 => \E i \in 1..Len(up) : up[i] = x.stamp[s] /\ Sets(oc, up[i], s)

\* Every stamp of x is the newest one that was written.
UpToDate(oc, up, x) ==
    \A s \in Stamps : \A i \in 1..Len(up) : Sets(oc, up[i], s) => up[i] <= x.stamp[s]

\* The row has the event that was written last, and its stamps.
RowInv ==
    /\ row = None => upserted = <<>>
    /\ row # None =>
          /\ upserted # <<>> /\ row.event = upserted[Len(upserted)]
          /\ row.connected = occurred[row.event].connected
          /\ \A s \in Stamps : Sets(occurred, row.event, s) => row.stamp[s] = row.event
          /\ Witnessed(occurred, upserted, row)
          /\ clean => UpToDate(occurred, upserted, row)

\* A listener has the event of its number.  As long as the observations are
\* clean, only the last one is under way.
ListenerInv ==
    /\ Len(listeners) = Len(occurred)
    /\ \A l \in 1..Len(listeners) :
          /\ listeners[l].event = l
          /\ listeners[l].at = "upsert" =>
                /\ listeners[l].state # None
                /\ Witnessed(occurred, upserted, listeners[l].state)
                /\ clean => UpToDate(occurred, upserted, listeners[l].state)
          /\ listeners[l].at = "append" => \E i \in 1..Len(upserted) : upserted[i] = l
          /\ clean /\ listeners[l].at # "done" => l = Len(listeners)
    /\ \A i \in 1..Len(upserted) :
          /\ upserted[i] \in 1..Len(listeners)
          /\ listeners[upserted[i]].at \in {"append", "done"}
    /\ \A n \in appended : \E i \in 1..Len(upserted) : upserted[i] = n

WatchInv == WatchTypes /\ RowInv /\ ListenerInv

-----------------------------------------------------------------------------
(* The inductive invariant of the dispatches.                              *)

SinkSet == {"rabbit", "nats", "socket", "hook"}
EventNames ==
    {x.type : x \in Inputs} \cup Announced
        \cup {"Message", "Receipt", "CallOffer", "LoggedOut", "ClientOutdated", "ConnectFailure",
              "Disconnected", "PairSuccess", "Connected", "TemporaryBan", "LabelEdit"}

\* The steps with AMQP, and all steps.
RabbitSteps == {"rabbit", "dialChannel", "channel", "publish", "dialRechannel", "rechannel"}
Steps == RabbitSteps \cup {"start", "nats", "socket", "write", "hook", "done"}

TaskType ==
    [kind : {"instance", "global"}, event : EventNames, at : Steps, tries : Nat, dials : Nat,
     channel : {"none", "live", "dead", "nil"}, sent : Seq(SinkSet), failed : SinkSet \cup {None},
     subs : {s.events : s \in Settings} \cup {{}}, want : SUBSET SinkSet, disturbed : BOOLEAN]
HookType == [task : Nat, url : {"instance", "global"}, left : Nat, got : Nat]

DispatchTypes ==
    /\ settings \in Settings
    /\ tasks \in Seq(TaskType)
    /\ hooks \in Seq(HookType)
    /\ conn \in {"nil", "open", "closed"}

\* The place of a sink, and of the sink that a step is about.
Rank(sink) ==
    IF sink = "rabbit" THEN 1 ELSE IF sink = "nats" THEN 2 ELSE IF sink = "socket" THEN 3 ELSE 4
Phase(step) ==
    IF step = "nats" THEN 2 ELSE IF step \in {"socket", "write"} THEN 3
    ELSE IF step = "hook" THEN 4 ELSE IF step = "done" THEN 5 ELSE 1

InOrder(s) == \A i, j \in 1..Len(s) : i < j => Rank(s[i]) < Rank(s[j])
Below(s, n) == \A i \in 1..Len(s) : Rank(s[i]) < n
Has(s, sink) == \E i \in 1..Len(s) : s[i] = sink

\* The sinks that were reached are in order, and before the one of the step; an
\* instance's dispatch ends with its first error.
Lane(x) ==
    /\ InOrder(x.sent) /\ Below(x.sent, Phase(x.at))
    /\ x.kind = "instance" /\ x.failed # None => x.at = "done" /\ Below(x.sent, Rank(x.failed))

\* The instance was subscribed when the dispatch left its start.
Entitled(x) ==
    x.kind = "instance" /\ (x.at \notin {"start", "done"} \/ x.sent # <<>>) =>
        "ALL" \in x.subs \/ GroupsOf(x.event) \cap x.subs # {}

\* The sinks that publish for the settings st and the configuration cf.
Wants(st, cf, sink) ==
    /\ sink = "rabbit" => st.rabbit = "enabled"
    /\ sink = "nats" => st.nats = "enabled" /\ cf.natsUp
    /\ sink = "socket" => On(st.socket)
    /\ sink = "hook" => st.hook

\* A dispatch that met no trouble reached the sinks before its step that publish.
Undisturbed(x) == x.kind = "instance" /\ ~x.disturbed /\ x.failed = None
Delivered(st, cf, x) ==
    Undisturbed(x) =>
        /\ x.at = "start" => x.want = {} /\ x.sent = <<>>
        /\ x.at \notin {"start", "done"} =>
              \A k \in SinkSet : k \in x.want <=> Wants(st, cf, k)
        /\ x.at \in {"dialChannel", "channel"} => On(st.rabbit)
        /\ x.at \in {"publish", "dialRechannel", "rechannel"} => st.rabbit = "enabled"
        /\ x.at # "start" =>
              \A k \in SinkSet \ {"socket"} :
                  Has(x.sent, k) <=> k \in x.want /\ Rank(k) < Phase(x.at)

TaskInv ==
    \A t \in 1..Len(tasks) :
        Lane(tasks[t]) /\ Entitled(tasks[t]) /\ Delivered(settings, config, tasks[t])

\* The webhooks are those of dispatches that came to the last sink.
HookInv ==
    /\ \A h \in 1..Len(hooks) :
          /\ hooks[h].task \in 1..Len(tasks)
          /\ LET x == tasks[hooks[h].task]
             IN  x.at = "done" /\ x.sent # <<>> /\ x.sent[Len(x.sent)] = "hook"
    /\ \A h, i \in 1..Len(hooks) :
          hooks[h].task = hooks[i].task /\ hooks[h].url = hooks[i].url => h = i

\* As long as the connection c was not lost, whoever uses it finds it.
Connected(c, lst, x) ==
    ~lst =>
        /\ x.channel \in {"none", "live"}
        /\ x.at \notin {"dialRechannel", "rechannel"}
        /\ x.at = "channel" => c = "open"
        /\ x.at = "publish" => x.channel = "live"
TroubleInv ==
    /\ \A t \in 1..Len(tasks) : Connected(conn, lost, tasks[t])
    /\ \A t, u \in 1..Len(tasks) :
          t # u /\ tasks[t].at # "done" /\ tasks[u].at # "done" => overlapped
    /\ crashed => overlapped \/ lost

DispatchInv == DispatchTypes /\ TaskInv /\ HookInv /\ TroubleInv

-----------------------------------------------------------------------------
(* The outcomes of the handler.                                            *)

GoodOutcome(o) ==
    /\ o.life = None \/ o.life \in Lifecycles
    /\ o.times \in 0..2
    /\ o.times > 0 => o.event \in EventNames

\* An outcome that dispatches nothing.
LEMMA NothingIsGood ==
    ASSUME NEW did
    PROVE  GoodOutcome(Nothing(did))
BY DEF GoodOutcome, Nothing, Outcome

\* An outcome that dispatches a known event.
LEMMA OutcomeIsGood ==
    ASSUME NEW e \in EventNames, NEW n \in 0..2, NEW did, NEW life,
           life = None \/ life \in Lifecycles
    PROVE  GoodOutcome(Outcome(e, n, did, life))
BY DEF GoodOutcome, Outcome

\* The lifecycle events of the handler.
LEMMA LifeIsLifecycle ==
    ASSUME NEW type \in {"connected", "paired", "disconnected", "logout", "status_observed"},
           NEW c \in BOOLEAN
    PROVE  Life(type, c) \in Lifecycles
BY DEF Lifecycles

\* A message is dispatched as a message or not at all.
LEMMA MessageIsGood ==
    ASSUME NEW x, NEW o \in OnMessage(x)
    PROVE  GoodOutcome(o)
<1> DEFINE Msg(did) == Outcome("Message", 1, did, None)
<1>1. \A did : GoodOutcome(Msg(did)) /\ GoodOutcome(Nothing(did))
    <2>1. "Message" \in EventNames /\ 1 \in 0..2
        BY DEF EventNames
    <2> QED
        BY <2>1, NothingIsGood, OutcomeIsGood, Zenon
<1> HIDE DEF Msg
<1> DEFINE first == IF settings.readMessages THEN {"MarkRead"} ELSE {}
           did   == first \cup IF settings.readMessages /\ ~x.fromMe THEN {"MarkReadLater"} ELSE {}
<1>2. o \in {Nothing(first)} \cup {Nothing(did)} \cup OnPoll(did) \cup OnMedia(x, did)
              \cup {Msg(did)}
    <2>1. OnMessage(x) =
            IF Ignored(x.chat) THEN {Nothing(first)}
            ELSE CASE x.body = "protocol" -> {Nothing(did)}
                   [] x.body = "poll"     -> OnPoll(did)
                   [] x.body \in {"image", "large", "sticker"} -> OnMedia(x, did)
                   [] OTHER -> {Msg(did)}
        BY DEF OnMessage, Msg
    <2> HIDE DEF first, did
    <2> QED
        BY <2>1
<1>3. ASSUME NEW d, o \in OnPoll(d)
      PROVE  GoodOutcome(o)
    BY <1>1, <1>3 DEF OnPoll, Msg
<1>4. ASSUME NEW d, o \in OnMedia(x, d)
      PROVE  GoodOutcome(o)
    <2>1. o \in {Msg(d), Msg(d \cup {"mediaOmitted"}), Nothing(d)} \cup Embedded(d)
        BY <1>4 DEF OnMedia, Msg
    <2>2. o \in Embedded(d) => GoodOutcome(o)
        BY <1>1 DEF Embedded, Msg
    <2> QED
        BY <2>1, <2>2, <1>1
<1> HIDE DEF first, did
<1> QED
    BY <1>1, <1>2, <1>3, <1>4

\* Whatever the handler makes of an event of the library, it dispatches a known
\* event and observes a lifecycle event or none.
LEMMA OutcomesAreGood ==
    ASSUME NEW x \in Inputs, NEW o \in Outcomes(x)
    PROVE  GoodOutcome(o)
<1>1. \A did : GoodOutcome(Nothing(did))
    BY NothingIsGood
<1>2. \A e \in EventNames, n \in 0..2 : \A did, life :
         life = None \/ life \in Lifecycles => GoodOutcome(Outcome(e, n, did, life))
    BY OutcomeIsGood
<1>0. 1 \in 0..2 /\ 2 \in 0..2
    OBVIOUS
<1>3. x.type \in EventNames
    BY DEF EventNames
<1>4. {"Message", "Receipt", "CallOffer", "LoggedOut", "ClientOutdated", "ConnectFailure",
       "Disconnected", "PairSuccess", "Connected", "TemporaryBan", "LabelEdit"}
         \subseteq EventNames
    BY DEF EventNames
<1>5. {Life("logout", FALSE), Life("status_observed", FALSE), Life("disconnected", FALSE),
       Life("paired", TRUE), Life("connected", TRUE)} \subseteq Lifecycles
    BY LifeIsLifecycle
<1>6. o \in OnMessage(x) => GoodOutcome(o)
    BY MessageIsGood
<1>7. o \in OnReceipt(x) \cup OnCallOffer \cup OnUndecryptable(x) => GoodOutcome(o)
    BY <1>1, <1>2, <1>4 DEF OnReceipt, OnCallOffer, OnUndecryptable
<1>8. o \in OnLoggedOut \cup OnClientOutdated \cup OnConnectFailure \cup OnDisconnected
             \cup OnPairSuccess => GoodOutcome(o)
    <2>1. o \in OnLoggedOut => GoodOutcome(o)
        BY <1>0, <1>2, <1>4, <1>5, Zenon DEF OnLoggedOut
    <2>2. o \in OnClientOutdated => GoodOutcome(o)
        BY <1>0, <1>2, <1>4, <1>5, Zenon DEF OnClientOutdated
    <2>3. o \in OnConnectFailure => GoodOutcome(o)
        BY <1>0, <1>2, <1>4, <1>5, Zenon DEF OnConnectFailure
    <2>4. o \in OnDisconnected => GoodOutcome(o)
        BY <1>0, <1>2, <1>4, <1>5, Zenon DEF OnDisconnected
    <2>5. o \in OnPairSuccess => GoodOutcome(o)
        BY <1>0, <1>2, <1>4, <1>5, Zenon DEF OnPairSuccess
    <2> QED
        BY <2>1, <2>2, <2>3, <2>4, <2>5
<1>9. o \in OnConnected \cup OnTemporaryBan \cup OnLabelEdit => GoodOutcome(o)
    <2>1. o \in OnConnected => GoodOutcome(o)
        BY <1>1, <1>0, <1>2, <1>4, <1>5, Zenon DEF OnConnected
    <2>2. o \in OnTemporaryBan => GoodOutcome(o)
        BY <1>2, <1>4 DEF OnTemporaryBan
    <2>3. o \in OnLabelEdit => GoodOutcome(o)
        BY <1>2, <1>4 DEF OnLabelEdit
    <2> QED
        BY <2>1, <2>2, <2>3
<1>10. o \in {Nothing({}), Outcome(x.type, 1, {}, None)} => GoodOutcome(o)
    BY <1>1, <1>2, <1>3
<1>11. o \in OnMessage(x) \cup OnReceipt(x) \cup OnCallOffer \cup OnUndecryptable(x)
              \cup OnLoggedOut \cup OnClientOutdated \cup OnConnectFailure \cup OnDisconnected
              \cup OnPairSuccess \cup OnConnected \cup OnTemporaryBan \cup OnLabelEdit
              \cup {Nothing({}), Outcome(x.type, 1, {}, None)}
    BY DEF Outcomes
<1> QED
    BY <1>6, <1>7, <1>8, <1>9, <1>10, <1>11

-----------------------------------------------------------------------------
(* Stamps.                                                                 *)

\* What was written keeps its stamps when the events that were written are
\* the same.
LEMMA SameStamps ==
    ASSUME NEW oc, NEW oc2, NEW up, NEW x,
           \A i \in 1..Len(up) : oc2[up[i]] = oc[up[i]]
    PROVE  /\ Witnessed(oc, up, x) => Witnessed(oc2, up, x)
           /\ UpToDate(oc, up, x) => UpToDate(oc2, up, x)
BY DEF Witnessed, UpToDate, Sets

\* Without a row nothing was written, and the empty state is up to date.
LEMMA NoStateStamps ==
    /\ NoState \in State
    /\ \A oc, up : Witnessed(oc, up, NoState)
    /\ \A oc, up : up = <<>> => UpToDate(oc, up, NoState)
<1>1. NoState.stamp = [s \in Stamps |-> 0] /\ NoState \in State
    BY DEF NoState, State
<1>2. \A s \in Stamps : NoState.stamp[s] = 0
    BY <1>1
<1> HIDE DEF NoState
<1>3. \A oc, up : Witnessed(oc, up, NoState)
    BY <1>2 DEF Witnessed
<1>4. \A oc, up : up = <<>> => UpToDate(oc, up, NoState)
    BY DEF UpToDate
<1> QED
    BY <1>1, <1>3, <1>4

-----------------------------------------------------------------------------
(* The observations: one lemma per operation.                              *)

watch == <<occurred, listeners, row, upserted, appended, clean>>

\* A step that leaves the observations alone.
LEMMA WatchFrame ==
    ASSUME WatchInv, UNCHANGED watch
    PROVE  WatchInv'
BY DEF WatchInv, WatchTypes, RowInv, ListenerInv, watch

\* A lifecycle event is new: nobody has written it, and its listener starts.
LEMMA NotifyKeeps ==
    ASSUME WatchInv, NEW life \in Lifecycles, NotifyLifecycleEvent(life),
           UNCHANGED <<row, upserted, appended>>
    PROVE  WatchInv'
<1>1. CASE UNCHANGED <<occurred, listeners, clean>>
    BY <1>1, WatchFrame DEF watch
<1>2. CASE ~UNCHANGED <<occurred, listeners, clean>>
    <2> DEFINE n == Len(occurred) + 1
               y == [event |-> n, at |-> "load", state |-> None]
    <2> USE DEF WatchInv
    <2>1. /\ occurred \in Seq(Lifecycles) /\ listeners \in Seq(Listener)
          /\ upserted \in Seq(Nat) /\ row \in State \cup {None}
          /\ Len(listeners) = Len(occurred)
        BY DEF WatchTypes, ListenerInv
    <2>2. /\ occurred' = Append(occurred, life)
          /\ listeners' = Append(listeners, y)
          /\ clean' = (clean /\ Listening = {})
        <3>1. ~(life.type = "status_observed" /\ life.connected \in seen.registry)
            BY <1>2, Zenon DEF NotifyLifecycleEvent
        <3> QED
            BY <3>1, Zenon DEF NotifyLifecycleEvent
    <2>3. y \in Listener /\ y.event = n /\ y.at = "load"
        BY <2>1 DEF Listener
    <2> HIDE DEF y
    <2>4. /\ occurred' \in Seq(Lifecycles) /\ Len(occurred') = n
          /\ \A i \in 1..Len(occurred) : occurred'[i] = occurred[i]
        BY <2>1, <2>2
    <2>5. /\ listeners' \in Seq(Listener) /\ Len(listeners') = n
          /\ \A l \in 1..Len(listeners) : listeners'[l] = listeners[l]
          /\ listeners'[n] = y
        BY <2>1, <2>2, <2>3
    <2>6. \A l \in 1..Len(listeners) : clean' => clean /\ listeners[l].at = "done"
        <3>1. \A l \in 1..Len(listeners) : Listening = {} => listeners[l].at = "done"
            BY <2>1 DEF Listening
        <3>2. clean' => clean /\ Listening = {}
            BY <2>2, Zenon
        <3> QED
            BY <3>1, <3>2, Zenon
    <2>7. \A i \in 1..Len(upserted) : upserted[i] \in 1..Len(listeners)
        BY DEF ListenerInv
    <2>8. \A i \in 1..Len(upserted) : occurred'[upserted[i]] = occurred[upserted[i]]
        BY <2>4, <2>7, <2>1
    <2>9. ASSUME NEW x
          PROVE  /\ Witnessed(occurred, upserted, x) => Witnessed(occurred', upserted, x)
                 /\ UpToDate(occurred, upserted, x) => UpToDate(occurred', upserted, x)
        BY <2>8, SameStamps
    <2>10. WatchTypes'
        <3>1. clean' \in BOOLEAN
            BY <2>2, Zenon
        <3> QED
            BY <2>1, <2>4, <2>5, <3>1 DEF WatchTypes
    <2>11. RowInv'
        <3>1. CASE row = None
            BY <3>1 DEF RowInv
        <3>2. CASE row # None
            <4>1. /\ upserted # <<>> /\ row.event = upserted[Len(upserted)]
                  /\ row.connected = occurred[row.event].connected
                  /\ \A s \in Stamps : Sets(occurred, row.event, s) => row.stamp[s] = row.event
                  /\ Witnessed(occurred, upserted, row)
                  /\ clean => UpToDate(occurred, upserted, row)
                BY <3>2 DEF RowInv
            <4>2. Len(upserted) \in 1..Len(upserted)
                BY <4>1, <2>1
            <4>3. occurred'[row.event] = occurred[row.event]
                BY <4>1, <4>2, <2>8
            <4>4. \A s \in Stamps : Sets(occurred', row.event, s) => row.stamp[s] = row.event
                BY <4>1, <4>3 DEF Sets
            <4>5. Witnessed(occurred', upserted, row)
                BY <4>1, <2>9
            <4>6. clean' => UpToDate(occurred', upserted, row)
                BY <4>1, <2>9, <2>2
            <4>7. row.connected = occurred'[row.event].connected
                BY <4>1, <4>3
            <4> QED
                BY <3>2, <4>1, <4>4, <4>5, <4>6, <4>7 DEF RowInv
        <3> QED
            BY <3>1, <3>2
    <2>12. ListenerInv'
        <3>1. ASSUME NEW l \in 1..Len(listeners')
              PROVE  /\ listeners'[l].event = l
                     /\ listeners'[l].at = "upsert" =>
                           /\ listeners'[l].state # None
                           /\ Witnessed(occurred', upserted', listeners'[l].state)
                           /\ clean' => UpToDate(occurred', upserted', listeners'[l].state)
                     /\ listeners'[l].at = "append" =>
                           \E i \in 1..Len(upserted') : upserted'[i] = l
                     /\ clean' /\ listeners'[l].at # "done" => l = Len(listeners')
            <4>1. CASE l = n
                BY <4>1, <2>3, <2>5
            <4>2. CASE l # n
                <5>1. l \in 1..Len(listeners) /\ listeners'[l] = listeners[l]
                    BY <4>2, <2>1, <2>5
                <5> QED
                    BY <5>1, <2>6, <2>9 DEF ListenerInv
            <4> QED
                BY <4>1, <4>2
        <3>2. \A i \in 1..Len(upserted') :
                 /\ upserted'[i] \in 1..Len(listeners')
                 /\ listeners'[upserted'[i]].at \in {"append", "done"}
            BY <2>1, <2>5, <2>7 DEF ListenerInv
        <3>3. \A m \in appended' : \E i \in 1..Len(upserted') : upserted'[i] = m
            BY DEF ListenerInv
        <3> QED
            BY <3>1, <3>2, <3>3, <2>4, <2>5 DEF ListenerInv
    <2> QED
        BY <2>10, <2>11, <2>12
<1> QED
    BY <1>1, <1>2

\* A listener that goes on without writing to the row.
LEMMA ListenKeeps ==
    ASSUME WatchInv, NEW l \in 1..Len(listeners), NEW y \in Listener,
           Listen(l, y), UNCHANGED <<occurred, row, upserted>>, clean' \in BOOLEAN,
           clean' => clean, y.event = l, listeners[l].at # "done",
           y.at = "upsert" => /\ y.state # None
                              /\ Witnessed(occurred, upserted, y.state)
                              /\ clean' => UpToDate(occurred, upserted, y.state),
           y.at # "append",
           listeners[l].at = "append" => y.at = "done",
           \A n \in appended' : n \in appended \/ \E i \in 1..Len(upserted) : upserted[i] = n
    PROVE  WatchInv'
<1> USE DEF WatchInv
<1>1. /\ listeners \in Seq(Listener) /\ Len(listeners) \in Nat
      /\ listeners' \in Seq(Listener) /\ Len(listeners') = Len(listeners)
      /\ listeners'[l] = y
      /\ \A m \in 1..Len(listeners) : m # l => listeners'[m] = listeners[m]
    BY DEF WatchTypes, Listen
<1>2. WatchTypes'
    BY <1>1 DEF WatchTypes
<1>3. RowInv'
    BY DEF RowInv
<1>4. ListenerInv'
    <2>1. ASSUME NEW m \in 1..Len(listeners')
          PROVE  /\ listeners'[m].event = m
                 /\ listeners'[m].at = "upsert" =>
                       /\ listeners'[m].state # None
                       /\ Witnessed(occurred', upserted', listeners'[m].state)
                       /\ clean' => UpToDate(occurred', upserted', listeners'[m].state)
                 /\ listeners'[m].at = "append" =>
                       \E i \in 1..Len(upserted') : upserted'[i] = m
                 /\ clean' /\ listeners'[m].at # "done" => m = Len(listeners')
        <3>1. CASE m = l
            BY <3>1, <1>1 DEF ListenerInv
        <3>2. CASE m # l
            BY <3>2, <1>1 DEF ListenerInv
        <3> QED
            BY <3>1, <3>2
    <2>2. \A i \in 1..Len(upserted') :
             /\ upserted'[i] \in 1..Len(listeners')
             /\ listeners'[upserted'[i]].at \in {"append", "done"}
        BY <1>1 DEF ListenerInv
    <2>3. \A n \in appended' : \E i \in 1..Len(upserted') : upserted'[i] = n
        BY DEF ListenerInv
    <2> QED
        BY <1>1, <2>1, <2>2, <2>3 DEF ListenerInv
<1> QED
    BY <1>2, <1>3, <1>4

\* Load keeps the observations.
LEMMA LoadKeeps ==
    ASSUME WatchInv, NEW l \in DOMAIN listeners, Load(l)
    PROVE  WatchInv'
<1>1. /\ listeners \in Seq(Listener) /\ l \in 1..Len(listeners)
      /\ listeners[l] \in Listener /\ listeners[l].event = l /\ listeners[l].at = "load"
      /\ row \in State \cup {None}
    BY DEF WatchInv, WatchTypes, ListenerInv, Load, At
<1>2. UNCHANGED <<occurred, row, upserted, appended>>
    BY DEF Load, notListening
<1>0. clean \in BOOLEAN
    BY DEF WatchInv, WatchTypes
<1>3. ASSUME NEW y \in Listener, Listen(l, y), clean' \in BOOLEAN, clean' => clean,
             y.event = l, y.at \in {"upsert", "done"},
             y.at = "upsert" => /\ y.state # None
                                /\ Witnessed(occurred, upserted, y.state)
                                /\ clean' => UpToDate(occurred, upserted, y.state)
      PROVE  WatchInv'
    BY <1>1, <1>2, <1>3, ListenKeeps
<1>4. ASSUME NEW z \in State
      PROVE  /\ [listeners[l] EXCEPT !.at = "upsert", !.state = z] \in Listener
             /\ [listeners[l] EXCEPT !.at = "upsert", !.state = z].event = l
             /\ [listeners[l] EXCEPT !.at = "upsert", !.state = z].at = "upsert"
             /\ [listeners[l] EXCEPT !.at = "upsert", !.state = z].state = z
             /\ z # None
    BY <1>1, NoneAssumption DEF Listener
<1>5. CASE Listen(l, [listeners[l] EXCEPT !.at = "done"]) /\ UNCHANGED clean
    <2> DEFINE y == [listeners[l] EXCEPT !.at = "done"]
    <2>1. y \in Listener /\ y.event = l /\ y.at = "done"
        BY <1>1 DEF Listener
    <2>2. Listen(l, y) /\ clean' \in BOOLEAN /\ (clean' => clean)
        BY <1>0, <1>5
    <2> HIDE DEF y
    <2> QED
        BY <1>3, <2>1, <2>2
<1>6. CASE /\ Listen(l, [listeners[l] EXCEPT !.at = "upsert",
                                             !.state = IF row = None THEN NoState ELSE row])
           /\ UNCHANGED clean
    <2> DEFINE z == IF row = None THEN NoState ELSE row
               y == [listeners[l] EXCEPT !.at = "upsert", !.state = z]
    <2>1. z \in State
        BY <1>1, NoStateStamps
    <2>2. Witnessed(occurred, upserted, z) /\ (clean => UpToDate(occurred, upserted, z))
        BY NoStateStamps DEF WatchInv, RowInv
    <2>3. Listen(l, y) /\ clean' \in BOOLEAN /\ (clean' => clean)
        BY <1>0, <1>6
    <2> HIDE DEF z
    <2>4. y \in Listener /\ y.event = l /\ y.at = "upsert" /\ y.state = z /\ z # None
        BY <1>4, <2>1
    <2> HIDE DEF y
    <2> QED
        BY <1>3, <2>2, <2>3, <2>4
<1>7. CASE /\ Listen(l, [listeners[l] EXCEPT !.at = "upsert", !.state = NoState])
           /\ clean' = FALSE
    <2> DEFINE y == [listeners[l] EXCEPT !.at = "upsert", !.state = NoState]
    <2>1. Listen(l, y) /\ clean' \in BOOLEAN /\ ~clean'
        BY <1>7
    <2>2. y \in Listener /\ y.event = l /\ y.at = "upsert" /\ y.state = NoState /\ NoState # None
        BY <1>4, NoStateStamps
    <2>3. Witnessed(occurred, upserted, NoState)
        BY NoStateStamps
    <2> HIDE DEF y
    <2> QED
        BY <1>3, <2>1, <2>2, <2>3
<1> QED
    BY <1>5, <1>6, <1>7 DEF Load

\* AppendEvent keeps the observations: its event was written to the row.
LEMMA AppendKeeps ==
    ASSUME WatchInv, NEW l \in DOMAIN listeners, AppendEvent(l)
    PROVE  WatchInv'
<1> DEFINE y == [listeners[l] EXCEPT !.at = "done"]
<1>1. /\ listeners \in Seq(Listener) /\ l \in 1..Len(listeners)
      /\ listeners[l] \in Listener /\ listeners[l].event = l /\ listeners[l].at = "append"
    BY DEF WatchInv, WatchTypes, ListenerInv, AppendEvent, At
<1>2. UNCHANGED <<occurred, row, upserted, clean>> /\ Listen(l, y)
    BY DEF AppendEvent, notListening
<1>3. y \in Listener /\ y.event = l /\ y.at = "done"
    BY <1>1 DEF Listener
<1>4. \E i \in 1..Len(upserted) : upserted[i] = l
    BY <1>1 DEF WatchInv, ListenerInv
<1>5. \A n \in appended' : n \in appended \/ \E i \in 1..Len(upserted) : upserted[i] = n
    BY <1>1, <1>4 DEF AppendEvent
<1>6. clean' \in BOOLEAN /\ (clean' => clean)
    BY <1>2 DEF WatchInv, WatchTypes
<1> HIDE DEF y
<1> QED
    BY <1>1, <1>2, <1>3, <1>5, <1>6, ListenKeeps

\* UpsertState keeps the observations: the row gets the event of the listener
\* and, as long as all is clean, that is the newest event of all.
LEMMA UpsertKeeps ==
    ASSUME WatchInv, NEW l \in DOMAIN listeners, UpsertState(l)
    PROVE  WatchInv'
<1> USE DEF WatchInv
<1>1. /\ listeners \in Seq(Listener) /\ l \in 1..Len(listeners) /\ Len(listeners) \in Nat
      /\ listeners[l] \in Listener /\ listeners[l].event = l /\ listeners[l].at = "upsert"
      /\ row \in State \cup {None} /\ upserted \in Seq(Nat) /\ Len(upserted) \in Nat
      /\ occurred \in Seq(Lifecycles) /\ Len(listeners) = Len(occurred)
    BY DEF WatchTypes, ListenerInv, UpsertState, At
<1>2. UNCHANGED <<occurred, appended, clean>>
    BY DEF UpsertState, notListening
<1>3. CASE /\ Listen(l, [listeners[l] EXCEPT !.at = "done", !.state = None])
           /\ UNCHANGED <<row, upserted>>
    <2> DEFINE y == [listeners[l] EXCEPT !.at = "done", !.state = None]
    <2>1. Listen(l, y)
        BY <1>3
    <2>2. y \in Listener /\ y.event = l /\ y.at = "done"
        BY <1>1 DEF Listener
    <2>3. clean' \in BOOLEAN /\ (clean' => clean)
        BY <1>2 DEF WatchTypes
    <2> HIDE DEF y
    <2> QED
        BY <1>1, <1>2, <1>3, <2>1, <2>2, <2>3, ListenKeeps
<1>4. CASE /\ row' = Observed(l)
           /\ upserted' = Append(upserted, listeners[l].event)
           /\ Listen(l, [listeners[l] EXCEPT !.at = "append", !.state = None])
    <2> DEFINE y == [listeners[l] EXCEPT !.at = "append", !.state = None]
               z == listeners[l].state
               k == Len(upserted) + 1
    <2>1. y \in Listener /\ y.event = l /\ y.at = "append"
        BY <1>1 DEF Listener
    <2>2. /\ z \in State
          /\ Witnessed(occurred, upserted, z)
          /\ clean => UpToDate(occurred, upserted, z)
        BY <1>1, NoneAssumption DEF ListenerInv, Listener
    <2>3. /\ listeners' \in Seq(Listener) /\ Len(listeners') = Len(listeners)
          /\ listeners'[l] = y
          /\ \A m \in 1..Len(listeners) : m # l => listeners'[m] = listeners[m]
        BY <1>1, <1>4, <2>1 DEF Listen
    <2>4. /\ upserted' \in Seq(Nat) /\ Len(upserted') = k /\ upserted'[k] = l
          /\ \A i \in 1..Len(upserted) : upserted'[i] = upserted[i]
        BY <1>1, <1>4
    <2>5. /\ row' = [event |-> l, connected |-> occurred[l].connected,
                     stamp |-> [s \in Stamps |-> IF s \in Stamped(occurred[l].type) THEN l
                                                 ELSE z.stamp[s]]]
        BY <1>1, <1>4, Zenon DEF Observed
    <2>6. z.stamp \in [Stamps -> Nat]
        BY <2>2 DEF State
    <2>7. occurred[l].connected \in BOOLEAN
        <3>1. occurred[l] \in Lifecycles
            BY <1>1
        <3> QED
            BY <3>1 DEF Lifecycles, Life
    <2> HIDE DEF y, z
    <2>8. /\ row' \in State /\ row'.event = l /\ row'.connected = occurred[l].connected
          /\ \A s \in Stamps : row'.stamp[s] = IF Sets(occurred, l, s) THEN l ELSE z.stamp[s]
        <3>1. [s \in Stamps |-> IF s \in Stamped(occurred[l].type) THEN l ELSE z.stamp[s]]
                \in [Stamps -> Nat]
            BY <2>6, <1>1
        <3> QED
            BY <2>5, <2>7, <3>1, <1>1 DEF State, Sets
    <2>9. row' # None
        BY <2>8, NoneAssumption
    <2>10. Witnessed(occurred, upserted', row')
        <3> SUFFICES ASSUME NEW s \in Stamps, row'.stamp[s] # 0
                     PROVE  \E i \in 1..k : upserted'[i] = row'.stamp[s]
                                              /\ Sets(occurred, upserted'[i], s)
            BY <2>4 DEF Witnessed
        <3>1. CASE Sets(occurred, l, s)
            <4>1. row'.stamp[s] = l /\ k \in 1..k
                BY <3>1, <2>8, <1>1
            <4> QED
                BY <3>1, <4>1, <2>4, Zenon
        <3>2. CASE ~Sets(occurred, l, s)
            <4>1. row'.stamp[s] = z.stamp[s]
                BY <3>2, <2>8
            <4>2. PICK i \in 1..Len(upserted) :
                      upserted[i] = z.stamp[s] /\ Sets(occurred, upserted[i], s)
                BY <4>1, <2>2 DEF Witnessed
            <4>3. i \in 1..k /\ upserted'[i] = upserted[i]
                BY <2>4, <1>1
            <4> QED
                BY <4>1, <4>2, <4>3, Zenon
        <3> QED
            BY <3>1, <3>2
    <2>11. clean => UpToDate(occurred, upserted', row')
        <3> SUFFICES ASSUME clean, NEW s \in Stamps, NEW i \in 1..k,
                            Sets(occurred, upserted'[i], s)
                     PROVE  upserted'[i] <= row'.stamp[s]
            BY <2>4 DEF UpToDate
        <3>1. l = Len(listeners)
            BY <1>1 DEF ListenerInv
        <3>2. \A j \in 1..Len(upserted) : upserted[j] \in 1..l
            BY <3>1 DEF ListenerInv
        <3>3. CASE i = k
            BY <3>3, <2>4, <2>8, <1>1
        <3>4. CASE i # k
            <4>1. i \in 1..Len(upserted) /\ upserted'[i] = upserted[i] /\ upserted[i] \in 1..l
                BY <3>4, <3>2, <2>4, <1>1
            <4>2. upserted[i] <= z.stamp[s]
                BY <4>1, <2>2 DEF UpToDate
            <4> QED
                BY <4>1, <4>2, <2>8, <1>1, SMTT(60)
        <3> QED
            BY <3>3, <3>4
    <2>12. WatchTypes'
        BY <1>1, <1>2, <2>3, <2>4, <2>8 DEF WatchTypes
    <2>13. RowInv'
        <3>1. \A s \in Stamps : Sets(occurred', row'.event, s) => row'.stamp[s] = row'.event
            BY <1>2, <2>8
        <3>2. upserted' # <<>> /\ row'.event = upserted'[Len(upserted')]
            BY <2>4, <2>8, <1>1
        <3>3. row'.connected = occurred'[row'.event].connected
            BY <2>8, <1>2
        <3> QED
            BY <3>1, <3>2, <3>3, <1>2, <2>9, <2>10, <2>11 DEF RowInv
    <2>14. ListenerInv'
        <3>1. ASSUME NEW m \in 1..Len(listeners')
              PROVE  /\ listeners'[m].event = m
                     /\ listeners'[m].at = "upsert" =>
                           /\ listeners'[m].state # None
                           /\ Witnessed(occurred', upserted', listeners'[m].state)
                           /\ clean' => UpToDate(occurred', upserted', listeners'[m].state)
                     /\ listeners'[m].at = "append" =>
                           \E i \in 1..Len(upserted') : upserted'[i] = m
                     /\ clean' /\ listeners'[m].at # "done" => m = Len(listeners')
            <4>1. CASE m = l
                <5>1. k \in 1..Len(upserted') /\ upserted'[k] = l
                    BY <2>4, <1>1
                <5>2. clean => l = Len(listeners)
                    BY <1>1 DEF ListenerInv
                <5> QED
                    BY <4>1, <5>1, <5>2, <2>1, <2>3, <1>2
            <4>2. CASE m # l
                <5>1. m \in 1..Len(listeners) /\ listeners'[m] = listeners[m]
                    BY <4>2, <2>3
                <5>2. clean => listeners[m].at = "done"
                    BY <4>2, <5>1, <1>1 DEF ListenerInv
                <5>3. ASSUME NEW x, Witnessed(occurred, upserted, x)
                      PROVE  Witnessed(occurred', upserted', x)
                    BY <5>3, <2>4, <1>1, <1>2 DEF Witnessed
                <5>4. listeners[m].at = "append" => \E i \in 1..k : upserted'[i] = m
                    BY <5>1, <2>4, <1>1, SMTT(60) DEF ListenerInv
                <5> QED
                    BY <5>1, <5>2, <5>3, <5>4, <2>4, <1>2 DEF ListenerInv
            <4> QED
                BY <4>1, <4>2
        <3>2. ASSUME NEW i \in 1..Len(upserted')
              PROVE  /\ upserted'[i] \in 1..Len(listeners')
                     /\ listeners'[upserted'[i]].at \in {"append", "done"}
            <4>1. CASE i = k
                BY <4>1, <2>1, <2>3, <2>4, <1>1
            <4>2. CASE i # k
                <5>1. i \in 1..Len(upserted) /\ upserted'[i] = upserted[i]
                    BY <4>2, <2>4, <1>1
                <5>2. upserted[i] \in 1..Len(listeners)
                      /\ listeners[upserted[i]].at \in {"append", "done"}
                    BY <5>1 DEF ListenerInv
                <5>3. upserted[i] # l
                    BY <5>2, <1>1
                <5> QED
                    BY <5>1, <5>2, <5>3, <2>3
            <4> QED
                BY <4>1, <4>2
        <3>3. \A n \in appended' : \E i \in 1..Len(upserted') : upserted'[i] = n
            <4>1. \A n \in appended : \E i \in 1..Len(upserted) : upserted[i] = n
                BY DEF ListenerInv
            <4> QED
                BY <4>1, <1>1, <1>2, <2>4, SMTT(60)
        <3>4. Len(listeners') = Len(occurred')
            BY <1>1, <1>2, <2>3
        <3> QED
            BY <3>1, <3>2, <3>3, <3>4 DEF ListenerInv
    <2> QED
        BY <2>12, <2>13, <2>14
<1> QED
    BY <1>3, <1>4 DEF UpsertState

\* The invariant of the observations holds at first.
LEMMA WatchInit ==
    ASSUME Init
    PROVE  WatchInv
<1>1. /\ occurred = <<>> /\ listeners = <<>> /\ row = None /\ upserted = <<>>
      /\ appended = {} /\ clean = TRUE
    BY DEF Init
<1>2. WatchTypes
    BY <1>1 DEF WatchTypes
<1>3. RowInv
    BY <1>1 DEF RowInv
<1>4. ListenerInv
    BY <1>1 DEF ListenerInv
<1> QED
    BY <1>2, <1>3, <1>4 DEF WatchInv

\* Only the listener and those who observe a lifecycle event change the
\* observations.
LEMMA WatchStep ==
    ASSUME WatchInv, [Next]_vars
    PROVE  WatchInv'
<1>1. CASE UNCHANGED watch
    BY <1>1, WatchFrame
<1>2. ASSUME NEW x \in Inputs, myEventHandler(x)
      PROVE  WatchInv'
    <2>1. PICK o \in Outcomes(x) :
             IF o.life = None THEN UNCHANGED <<occurred, listeners, clean, seen>>
             ELSE /\ NotifyLifecycleEvent(o.life)
                  /\ seen' = [seen EXCEPT !.registry = @ \cup Noted(o.life)]
        BY <1>2 DEF myEventHandler
    <2>2. UNCHANGED <<row, upserted, appended>>
        BY <1>2 DEF myEventHandler
    <2>3. CASE o.life = None
        BY <2>1, <2>2, <2>3, WatchFrame DEF watch
    <2>4. CASE o.life # None
        <3>1. o.life \in Lifecycles
            BY <2>4, OutcomesAreGood DEF GoodOutcome
        <3>2. NotifyLifecycleEvent(o.life)
            BY <2>1, <2>4
        <3> QED
            BY <2>2, <3>1, <3>2, NotifyKeeps
    <2> QED
        BY <2>3, <2>4
<1>3. ASSUME NEW life \in Lifecycles, recordRuntimeObservation(life)
      PROVE  WatchInv'
    <2>1. UNCHANGED <<row, upserted, appended>>
        BY <1>3 DEF recordRuntimeObservation
    <2>2. UNCHANGED <<occurred, listeners, clean, seen>> \/ NotifyLifecycleEvent(life)
        BY <1>3, Zenon DEF recordRuntimeObservation
    <2>3. CASE UNCHANGED <<occurred, listeners, clean, seen>>
        BY <2>1, <2>3, WatchFrame DEF watch
    <2> QED
        BY <2>1, <2>2, <2>3, NotifyKeeps
<1>4. ASSUME NEW l \in DOMAIN listeners, Load(l) \/ UpsertState(l) \/ AppendEvent(l)
      PROVE  WatchInv'
    BY <1>4, LoadKeeps, UpsertKeeps, AppendKeeps
<1>5. CASE UNCHANGED vars
    BY <1>5, WatchFrame DEF vars, watch, observation
<1>6. ASSUME NEW e, Announce(e)
      PROVE  UNCHANGED watch
    BY <1>6 DEF Announce, observation, watch
<1>7. ASSUME NEW map, Forget(map)
      PROVE  UNCHANGED watch
    BY <1>7 DEF Forget, watch
<1>8. UNCHANGED notTasks => UNCHANGED watch
    BY DEF notTasks, observation, watch
<1>9. ASSUME NEW t,
             \/ CallWebhook(t) \/ SendToGlobalQueues(t) \/ Produce(t) \/ Reconnect(t)
             \/ Channel(t) \/ Publish(t) \/ Rechannel(t) \/ NatsProduce(t)
             \/ SocketProduce(t) \/ SocketWrite(t) \/ HookProduce(t)
      PROVE  UNCHANGED notTasks
    <2>1. CallWebhook(t) => UNCHANGED notTasks
        BY Zenon DEF CallWebhook
    <2>2. SendToGlobalQueues(t) => UNCHANGED notTasks
        BY Zenon DEF SendToGlobalQueues
    <2>3. Produce(t) => UNCHANGED notTasks
        BY Zenon DEF Produce
    <2>4. Reconnect(t) => UNCHANGED notTasks
        BY Zenon DEF Reconnect
    <2>5. Channel(t) => UNCHANGED notTasks
        BY Zenon DEF Channel
    <2>6. Publish(t) => UNCHANGED notTasks
        BY Zenon DEF Publish
    <2>7. Rechannel(t) => UNCHANGED notTasks
        BY Zenon DEF Rechannel
    <2>8. NatsProduce(t) => UNCHANGED notTasks
        BY Zenon DEF NatsProduce
    <2>9. SocketProduce(t) => UNCHANGED notTasks
        BY Zenon DEF SocketProduce
    <2>10. SocketWrite(t) => UNCHANGED notTasks
        BY Zenon DEF SocketWrite
    <2>11. HookProduce(t) => UNCHANGED notTasks
        BY Zenon DEF HookProduce
    <2> QED
        BY <1>9, <2>1, <2>2, <2>3, <2>4, <2>5, <2>6, <2>7, <2>8, <2>9, <2>10, <2>11
<1>10. ASSUME NEW up, Drop(up)
       PROVE  UNCHANGED notTasks
    BY <1>10, Zenon DEF Drop
<1>11. Recover => UNCHANGED notTasks
    BY Zenon DEF Recover
<1>12. ASSUME NEW c, NEW as, ServeWs(c, as) \/ PeerCloses(c) \/ ReaderEnds(c)
       PROVE  UNCHANGED notTasks
    BY <1>12, Zenon DEF ServeWs, PeerCloses, ReaderEnds
<1>13. ASSUME NEW h, sendWebhook(h)
       PROVE  UNCHANGED notTasks
    BY <1>13, Zenon DEF sendWebhook
<1>14. ASSUME NEW s, Configure(s)
       PROVE  UNCHANGED watch
    BY <1>14 DEF Configure, observation, watch
<1>15. CASE Next
    BY <1>1, <1>2, <1>3, <1>4, <1>6, <1>7, <1>8, <1>9, <1>10, <1>11, <1>12, <1>13, <1>14, <1>15,
       Zenon
    DEF Next, Step
<1> QED
    BY <1>5, <1>15

\* As long as the row is up to date, a stamp of it is the newest one.
LEMMA StampIsNewest ==
    ASSUME WatchInv, row # None, clean, NEW s \in Stamps
    PROVE  row.stamp[s] = Newest(s)
<1> DEFINE ns == {upserted[i] : i \in {j \in DOMAIN upserted :
                                        s \in Stamped(occurred[upserted[j]].type)}}
<1>1. /\ upserted \in Seq(Nat) /\ DOMAIN upserted = 1..Len(upserted)
      /\ \A i \in 1..Len(upserted) : upserted[i] \in Nat /\ upserted[i] > 0
    BY DEF WatchInv, WatchTypes, ListenerInv
<1>2. row.stamp[s] \in Nat
    BY DEF WatchInv, WatchTypes, State
<1>3. row.stamp[s] # 0 => row.stamp[s] \in ns
    BY <1>1 DEF WatchInv, RowInv, Witnessed, Sets
<1>4. \A n \in ns : n \in Nat /\ n > 0 /\ n <= row.stamp[s]
    BY <1>1 DEF WatchInv, RowInv, UpToDate, Sets
<1>5. Newest(s) = IF ns = {} THEN 0 ELSE CHOOSE n \in ns : \A m \in ns : m <= n
    BY DEF Newest
<1> HIDE DEF ns
<1>6. CASE ns = {}
    BY <1>3, <1>5, <1>6
<1>7. CASE ns # {}
    <2>1. row.stamp[s] # 0
        BY <1>2, <1>4, <1>7
    <2>2. row.stamp[s] \in ns /\ \A m \in ns : m <= row.stamp[s]
        BY <1>3, <1>4, <2>1
    <2>3. \A n \in ns : (\A m \in ns : m <= n) => n = row.stamp[s]
        BY <1>2, <1>4, <2>2
    <2>4. (CHOOSE n \in ns : \A m \in ns : m <= n) = row.stamp[s]
        BY <2>2, <2>3
    <2> QED
        BY <1>5, <1>7, <2>4
<1> QED
    BY <1>6, <1>7

\* The inductive invariant of the observations.
THEOREM WatchInvariant == Spec => []WatchInv
<1>1. Init => WatchInv
    BY WatchInit
<1>2. WatchInv /\ [Next]_vars => WatchInv'
    BY WatchStep
<1> QED
    BY <1>1, <1>2, PTL DEF Spec

\* The row of the session's state tells of the lifecycle event that was written
\* last, with its stamps; as long as the observations are clean it has the
\* newest stamp of every kind; and an event is appended after it was written
\* (the lifecycle listener of newServices, UpsertState).
THEOREM ObservationIsKept == Spec => []ObservationKept
<1>1. WatchInv => ObservationKept
    <2> SUFFICES ASSUME WatchInv
                 PROVE  ObservationKept
        OBVIOUS
    <2>1. upserted \in Seq(Nat) /\ DOMAIN upserted = 1..Len(upserted)
        BY DEF WatchInv, WatchTypes
    <2>2. \A n \in appended : \E i \in DOMAIN upserted : upserted[i] = n
        BY <2>1 DEF WatchInv, ListenerInv
    <2>3. ASSUME row # None, NEW s \in Stamps
          PROVE  /\ s \in Stamped(occurred[row.event].type) => row.stamp[s] = row.event
                 /\ row.stamp[s] # 0 => \E i \in DOMAIN upserted :
                       upserted[i] = row.stamp[s] /\ s \in Stamped(occurred[upserted[i]].type)
                 /\ clean => row.stamp[s] = Newest(s)
        <3>1. Sets(occurred, row.event, s) => row.stamp[s] = row.event
            BY <2>3 DEF WatchInv, RowInv
        <3>2. Witnessed(occurred, upserted, row)
            BY <2>3 DEF WatchInv, RowInv
        <3>3. clean => row.stamp[s] = Newest(s)
            BY <2>3, StampIsNewest
        <3> QED
            BY <2>1, <3>1, <3>2, <3>3 DEF Witnessed, Sets
    <2>4. row # None => /\ upserted # <<>> /\ row.event = upserted[Len(upserted)]
                        /\ row.connected = occurred[row.event].connected
        BY DEF WatchInv, RowInv
    <2> QED
        BY <2>2, <2>3, <2>4 DEF ObservationKept
<1> QED
    BY <1>1, WatchInvariant, PTL

-----------------------------------------------------------------------------
(* Tasks.                                                                  *)

Fine(st, cf, x) == x \in TaskType /\ Lane(x) /\ Entitled(x) /\ Delivered(st, cf, x)

\* y is a later form of the task x.
Follows(x, y) ==
    /\ y \in TaskType
    /\ y.kind = x.kind /\ y.event = x.event /\ y.subs = x.subs /\ y.want = x.want
    /\ x.disturbed => y.disturbed

\* The steps of an undisturbed dispatch of settings st.
AtFits(st, step) ==
    /\ step \in {"dialChannel", "channel"} => On(st.rabbit)
    /\ step \in {"publish", "dialRechannel", "rechannel"} => st.rabbit = "enabled"

\* The places of the sinks are those of the list.
LEMMA RankFacts ==
    /\ \A sink \in SinkSet : /\ Rank(sink) \in 1..4
                             /\ Rank(sink) \in DOMAIN Sinks /\ Sinks[Rank(sink)] = sink
    /\ \A a, b \in SinkSet : Rank(a) = Rank(b) => a = b
BY DEF SinkSet, Rank, Sinks

\* The places are 1 to 4.
LEMMA RankRange == \A sink \in SinkSet : Rank(sink) \in 1..4
BY DEF SinkSet, Rank

\* What follows a sink.
LEMMA AfterFacts ==
    ASSUME NEW x
    PROVE  /\ After(x, "rabbit") = "nats"
           /\ x.kind = "global" => After(x, "nats") = "done"
           /\ x.kind # "global" => After(x, "nats") = "socket"
           /\ After(x, "socket") = "hook"
           /\ After(x, "hook") = "done"
<1>1. \A i \in 1..4 : (CHOOSE j \in DOMAIN Sinks : Sinks[j] = Sinks[i]) = i
    <2> SUFFICES ASSUME NEW i \in 1..4
                 PROVE  (CHOOSE j \in DOMAIN Sinks : Sinks[j] = Sinks[i]) = i
        OBVIOUS
    <2>1. i \in DOMAIN Sinks /\ \A j \in DOMAIN Sinks : Sinks[j] = Sinks[i] => j = i
        BY DEF Sinks
    <2> QED
        BY <2>1
<1>2. Sinks[1] = "rabbit" /\ Sinks[2] = "nats" /\ Sinks[3] = "socket" /\ Sinks[4] = "hook"
    BY DEF Sinks
<1>3. /\ (CHOOSE j \in DOMAIN Sinks : Sinks[j] = "rabbit") = 1
      /\ (CHOOSE j \in DOMAIN Sinks : Sinks[j] = "nats") = 2
      /\ (CHOOSE j \in DOMAIN Sinks : Sinks[j] = "socket") = 3
    BY <1>1, <1>2
<1> DEFINE Place(sink) == CHOOSE j \in DOMAIN Sinks : Sinks[j] = sink
<1>8. \A sink : After(x, sink) = IF (x.kind = "global" /\ sink = "nats") \/ sink = "hook"
                                 THEN "done" ELSE Sinks[Place(sink) + 1]
    BY Zenon DEF After
<1>9. Place("rabbit") = 1 /\ Place("nats") = 2 /\ Place("socket") = 3
    BY <1>3
<1> HIDE DEF Place
<1>4. After(x, "rabbit") = "nats"
    BY <1>2, <1>8, <1>9
<1>5. x.kind # "global" => After(x, "nats") = "socket"
    BY <1>2, <1>8, <1>9
<1>6. After(x, "socket") = "hook"
    BY <1>2, <1>8, <1>9
<1>7. /\ x.kind = "global" => After(x, "nats") = "done"
      /\ After(x, "hook") = "done"
    BY DEF After
<1> QED
    BY <1>4, <1>5, <1>6, <1>7

\* The place of a step.
LEMMA PhaseFacts ==
    ASSUME NEW step \in Steps
    PROVE  /\ Phase(step) \in 1..5
           /\ Phase(step) = 5 <=> step = "done"
           /\ step \in RabbitSteps \cup {"start"} => Phase(step) = 1
<1>1. step \in {"rabbit", "dialChannel", "channel", "publish", "dialRechannel", "rechannel",
                "start"} => Phase(step) = 1
    BY DEF Phase
<1>2. step \in {"nats", "socket", "write", "hook", "done"} =>
         Phase(step) \in 2..5 /\ (Phase(step) = 5 <=> step = "done")
    BY DEF Phase
<1>3. CASE step \in RabbitSteps \cup {"start"}
    <2>1. Phase(step) = 1 /\ step # "done"
        BY <1>1, <1>3 DEF RabbitSteps
    <2> QED
        BY <2>1
<1>4. CASE step \notin RabbitSteps \cup {"start"}
    <2>1. step \in {"nats", "socket", "write", "hook", "done"}
        BY <1>4 DEF Steps
    <2> QED
        BY <1>2, <1>4, <2>1
<1> QED
    BY <1>3, <1>4

\* The steps with the other sinks, their places and those of the sinks.
LEMMA StepFacts ==
    /\ {"nats", "socket", "hook", "done"} \subseteq Steps \ ({"start"} \cup RabbitSteps)
    /\ Phase("nats") = 2 /\ Phase("socket") = 3 /\ Phase("write") = 3
    /\ Phase("hook") = 4 /\ Phase("done") = 5
    /\ Rank("rabbit") = 1 /\ Rank("nats") = 2 /\ Rank("socket") = 3 /\ Rank("hook") = 4
    /\ SinkSet = {"rabbit", "nats", "socket", "hook"}
    /\ {"rabbit", "dialChannel", "channel", "publish", "dialRechannel", "rechannel", "write"}
          \subseteq Steps \ {"start"}
<1>1. {"nats", "socket", "hook", "done"} \subseteq Steps \ ({"start"} \cup RabbitSteps)
    BY DEF Steps, RabbitSteps
<1>2. /\ Phase("nats") = 2 /\ Phase("socket") = 3 /\ Phase("write") = 3
      /\ Phase("hook") = 4 /\ Phase("done") = 5
    BY DEF Phase
<1>3. Rank("rabbit") = 1 /\ Rank("nats") = 2 /\ Rank("socket") = 3 /\ Rank("hook") = 4
    BY DEF Rank
<1>4. {"rabbit", "dialChannel", "channel", "publish", "dialRechannel", "rechannel", "write"}
          \subseteq Steps \ {"start"}
    BY DEF Steps, RabbitSteps
<1> QED
    BY <1>1, <1>2, <1>3, <1>4 DEF SinkSet

\* A task that goes on without having reached a sink.
LEMMA StepFine ==
    ASSUME NEW st, NEW cf, NEW x, NEW y, Fine(st, cf, x), Follows(x, y),
           x.at \notin {"start", "done"}, y.at # "start",
           y.sent = x.sent, y.failed = x.failed, Phase(x.at) <= Phase(y.at),
           Undisturbed(y) =>
               /\ AtFits(st, y.at)
               /\ \A k \in SinkSet \ {"socket"} :
                     Phase(x.at) <= Rank(k) /\ Rank(k) < Phase(y.at) => ~Wants(st, cf, k)
    PROVE  Fine(st, cf, y)
<1>1. /\ x \in TaskType /\ y \in TaskType /\ x.at \in Steps /\ y.at \in Steps
      /\ x.sent \in Seq(SinkSet)
    BY DEF Fine, Follows, TaskType
<1>2. Phase(x.at) \in 1..4 /\ Phase(y.at) \in 1..5
    BY <1>1, PhaseFacts
<1>3. x.kind = "instance" => x.failed = None
    BY DEF Fine, Lane
<1>4. Lane(y)
    <2>1. InOrder(y.sent)
        BY DEF Fine, Lane
    <2>2. \A i \in 1..Len(x.sent) : x.sent[i] \in SinkSet /\ Rank(x.sent[i]) \in 1..4
        BY <1>1, RankFacts
    <2>3. Below(y.sent, Phase(y.at))
        BY <1>2, <2>2 DEF Fine, Lane, Below
    <2> QED
        BY <2>1, <2>3, <1>3 DEF Lane, Follows
<1>5. Entitled(y)
    BY DEF Fine, Entitled, Follows
<1>6. Delivered(st, cf, y)
    <2> SUFFICES ASSUME Undisturbed(y)
                 PROVE  Delivered(st, cf, y)
        BY DEF Delivered
    <2>1. Undisturbed(x)
        BY DEF Undisturbed, Follows
    <2>2. /\ \A k \in SinkSet : k \in x.want <=> Wants(st, cf, k)
          /\ \A k \in SinkSet \ {"socket"} :
                Has(x.sent, k) <=> k \in x.want /\ Rank(k) < Phase(x.at)
        BY <2>1 DEF Fine, Delivered
    <2>3. \A k \in SinkSet \ {"socket"} :
             Has(y.sent, k) <=> k \in y.want /\ Rank(k) < Phase(y.at)
        <3> SUFFICES ASSUME NEW k \in SinkSet \ {"socket"}
                     PROVE  Has(x.sent, k) <=> k \in x.want /\ Rank(k) < Phase(y.at)
            BY DEF Follows
        <3>1. Rank(k) \in 1..4
            BY RankFacts
        <3>2. Rank(k) < Phase(x.at) => Rank(k) < Phase(y.at)
            BY <3>1, <1>2
        <3>3. ~(Rank(k) < Phase(x.at)) /\ Rank(k) < Phase(y.at) => k \notin x.want
            BY <3>1, <1>2, <2>2
        <3> QED
            BY <3>2, <3>3, <2>2
    <2>4. \A k \in SinkSet : k \in y.want <=> Wants(st, cf, k)
        BY <2>2 DEF Follows
    <2> QED
        BY <2>3, <2>4 DEF Delivered, AtFits
<1> QED
    BY <1>1, <1>4, <1>5, <1>6 DEF Fine

\* A task that reached the sink of its step.
LEMMA SendFine ==
    ASSUME NEW st, NEW cf, NEW x, NEW y, NEW sink \in SinkSet, Fine(st, cf, x), Follows(x, y),
           x.at \notin {"start", "done"}, y.at # "start",
           y.sent = Append(x.sent, sink), y.failed = x.failed,
           Rank(sink) = Phase(x.at), Phase(x.at) < Phase(y.at),
           Undisturbed(y) =>
               /\ AtFits(st, y.at)
               /\ sink # "socket" => Wants(st, cf, sink)
               /\ Phase(y.at) = Phase(x.at) + 1
    PROVE  Fine(st, cf, y)
<1> DEFINE n == Len(x.sent) + 1
<1>1. /\ x \in TaskType /\ y \in TaskType /\ x.at \in Steps /\ y.at \in Steps
      /\ x.sent \in Seq(SinkSet) /\ Len(x.sent) \in Nat
    BY DEF Fine, Follows, TaskType
<1>2. Phase(x.at) \in 1..4 /\ Phase(y.at) \in 1..5
    BY <1>1, PhaseFacts
<1>3. x.kind = "instance" => x.failed = None
    BY DEF Fine, Lane
<1>4. /\ Len(y.sent) = n /\ y.sent[n] = sink
      /\ \A i \in 1..Len(x.sent) : y.sent[i] = x.sent[i]
    BY <1>1
<1>5. \A i \in 1..Len(x.sent) : /\ x.sent[i] \in SinkSet /\ Rank(x.sent[i]) \in 1..4
                                /\ Rank(x.sent[i]) < Phase(x.at)
    BY <1>1, RankFacts DEF Fine, Lane, Below
<1>6. Lane(y)
    <2>1. InOrder(y.sent)
        <3> SUFFICES ASSUME NEW i \in 1..n, NEW j \in 1..n, i < j
                     PROVE  Rank(y.sent[i]) < Rank(y.sent[j])
            BY <1>4 DEF InOrder
        <3>1. i \in 1..Len(x.sent) /\ y.sent[i] = x.sent[i]
            BY <1>1, <1>4
        <3>2. CASE j = n
            BY <3>1, <3>2, <1>4, <1>5
        <3>3. CASE j # n
            <4>1. j \in 1..Len(x.sent) /\ y.sent[j] = x.sent[j]
                BY <3>3, <1>1, <1>4
            <4> QED
                BY <3>1, <4>1 DEF Fine, Lane, InOrder
        <3> QED
            BY <3>2, <3>3
    <2>2. Below(y.sent, Phase(y.at))
        <3> SUFFICES ASSUME NEW i \in 1..n
                     PROVE  Rank(y.sent[i]) < Phase(y.at)
            BY <1>4 DEF Below
        <3>1. CASE i = n
            BY <3>1, <1>2, <1>4
        <3>2. CASE i # n
            BY <3>2, <1>1, <1>2, <1>4, <1>5, SMTT(60)
        <3> QED
            BY <3>1, <3>2
    <2> QED
        BY <2>1, <2>2, <1>3 DEF Lane, Follows
<1>7. Entitled(y)
    BY DEF Fine, Entitled, Follows
<1>8. Delivered(st, cf, y)
    <2> SUFFICES ASSUME Undisturbed(y)
                 PROVE  Delivered(st, cf, y)
        BY DEF Delivered
    <2>1. Undisturbed(x)
        BY DEF Undisturbed, Follows
    <2>2. /\ \A k \in SinkSet : k \in x.want <=> Wants(st, cf, k)
          /\ \A k \in SinkSet \ {"socket"} :
                Has(x.sent, k) <=> k \in x.want /\ Rank(k) < Phase(x.at)
        BY <2>1 DEF Fine, Delivered
    <2>3. \A k \in SinkSet : Has(y.sent, k) <=> Has(x.sent, k) \/ k = sink
        <3> SUFFICES ASSUME NEW k \in SinkSet
                     PROVE  Has(y.sent, k) <=> Has(x.sent, k) \/ k = sink
            OBVIOUS
        <3>1. Has(y.sent, k) => Has(x.sent, k) \/ k = sink
            <4> SUFFICES ASSUME NEW i \in 1..n, y.sent[i] = k
                         PROVE  Has(x.sent, k) \/ k = sink
                BY <1>4 DEF Has
            <4> QED
                BY <1>1, <1>4 DEF Has
        <3>2. Has(x.sent, k) => Has(y.sent, k)
            BY <1>1, <1>4 DEF Has
        <3>3. k = sink => Has(y.sent, k)
            BY <1>1, <1>4 DEF Has
        <3> QED
            BY <3>1, <3>2, <3>3
    <2>4. \A k \in SinkSet \ {"socket"} :
             Has(y.sent, k) <=> k \in y.want /\ Rank(k) < Phase(y.at)
        <3> SUFFICES ASSUME NEW k \in SinkSet \ {"socket"}
                     PROVE  Has(y.sent, k) <=> k \in x.want /\ Rank(k) < Phase(y.at)
            BY DEF Follows
        <3>1. Rank(k) \in 1..4 /\ (k = sink <=> Rank(k) = Phase(x.at))
            BY RankFacts
        <3>2. Rank(k) < Phase(y.at) <=> Rank(k) < Phase(x.at) \/ k = sink
            BY <3>1, <1>2
        <3>3. k = sink => k \in x.want
            BY <2>2
        <3> QED
            BY <3>2, <3>3, <2>2, <2>3
    <2>5. \A k \in SinkSet : k \in y.want <=> Wants(st, cf, k)
        BY <2>2 DEF Follows
    <2> QED
        BY <2>4, <2>5 DEF Delivered, AtFits
<1> QED
    BY <1>1, <1>6, <1>7, <1>8 DEF Fine

\* A task whose sink failed: for an instance's dispatch that is the end.
LEMMA FailFine ==
    ASSUME NEW st, NEW cf, NEW x, NEW y, NEW sink \in SinkSet, Fine(st, cf, x), Follows(x, y),
           x.at \notin {"start", "done"}, y.at # "start",
           y.sent = x.sent, y.failed = sink,
           Rank(sink) = Phase(x.at), Phase(x.at) <= Phase(y.at),
           y.kind = "instance" => y.at = "done"
    PROVE  Fine(st, cf, y)
<1>1. /\ x \in TaskType /\ y \in TaskType /\ x.at \in Steps /\ y.at \in Steps
      /\ x.sent \in Seq(SinkSet)
    BY DEF Fine, Follows, TaskType
<1>2. Phase(x.at) \in 1..4 /\ Phase(y.at) \in 1..5
    BY <1>1, PhaseFacts
<1>3. \A i \in 1..Len(x.sent) : /\ Rank(x.sent[i]) \in 1..4
                                /\ Rank(x.sent[i]) < Phase(x.at)
    BY <1>1, RankFacts DEF Fine, Lane, Below
<1>4. Lane(y)
    <2>1. InOrder(y.sent)
        BY DEF Fine, Lane
    <2>2. Below(y.sent, Phase(y.at)) /\ Below(y.sent, Rank(y.failed))
        BY <1>2, <1>3 DEF Below
    <2> QED
        BY <2>1, <2>2 DEF Lane
<1>5. Entitled(y)
    BY DEF Fine, Entitled, Follows
<1>6. Delivered(st, cf, y)
    BY NoneAssumption DEF Delivered, Undisturbed, SinkSet
<1> QED
    BY <1>1, <1>4, <1>5, <1>6 DEF Fine

-----------------------------------------------------------------------------
(* What the updates of a task leave alone.                                 *)

\* y is the task x at another step, perhaps with as many dials or attempts.
Moved(x, step, d, y) ==
    \/ y = [x EXCEPT !.at = step]
    \/ y = [x EXCEPT !.at = step, !.dials = d]
    \/ y = [x EXCEPT !.at = step, !.tries = d]

\* A task at another step is otherwise the same.
LEMMA AtForm ==
    ASSUME NEW x \in TaskType, NEW step \in Steps, NEW d \in Nat, NEW y,
           Moved(x, step, d, y)
    PROVE  /\ Follows(x, y) /\ y.at = step
           /\ y.sent = x.sent /\ y.failed = x.failed /\ y.channel = x.channel
BY ZenonT(60) DEF TaskType, Follows, Moved

\* An attempt less to dial.
LEMMA DialForm ==
    ASSUME NEW x \in TaskType, NEW d \in Nat
    PROVE  LET y == [x EXCEPT !.dials = d]
           IN  /\ Follows(x, y) /\ y.at = x.at
               /\ y.sent = x.sent /\ y.failed = x.failed /\ y.channel = x.channel
BY DEF TaskType, Follows

\* The channel is open.
LEMMA PublishForm ==
    ASSUME NEW x \in TaskType, NEW n \in Nat
    PROVE  LET y == [x EXCEPT !.at = "publish", !.tries = n, !.channel = "live"]
           IN  /\ Follows(x, y) /\ y.at = "publish"
               /\ y.sent = x.sent /\ y.failed = x.failed /\ y.channel = "live"
BY DEF TaskType, Follows, Steps, RabbitSteps

\* y is the task x after a publish of it failed, on a channel that is now c.
Disturbed(x, c, y) ==
    \/ y = [x EXCEPT !.disturbed = TRUE] /\ c = x.channel
    \/ y = [[x EXCEPT !.disturbed = TRUE] EXCEPT !.channel = c]

\* A failed publish changes nothing else.
LEMMA DisturbForm ==
    ASSUME NEW x \in TaskType, NEW c \in {"none", "live", "dead", "nil"}, NEW y,
           Disturbed(x, c, y)
    PROVE  /\ Follows(x, y) /\ y.at = x.at /\ y.disturbed /\ y.tries = x.tries
           /\ y.sent = x.sent /\ y.failed = x.failed /\ y.channel = c
BY DEF TaskType, Follows, Disturbed

\* The place of what follows a sink.
LEMMA AfterStep ==
    ASSUME NEW x \in TaskType, NEW sink \in SinkSet
    PROVE  /\ After(x, sink) \in Steps \ {"start"} /\ After(x, sink) \notin RabbitSteps
           /\ x.kind = "instance" => Phase(After(x, sink)) = Rank(sink) + 1
           /\ Phase(After(x, sink)) > Rank(sink)
<1> DEFINE next == After(x, sink)
<1>1. x.kind \in {"instance", "global"}
    BY DEF TaskType
<1>2. \/ sink = "rabbit" /\ next = "nats"
      \/ sink = "nats" /\ x.kind = "global" /\ next = "done"
      \/ sink = "nats" /\ x.kind = "instance" /\ next = "socket"
      \/ sink = "socket" /\ next = "hook"
      \/ sink = "hook" /\ next = "done"
    BY <1>1, AfterFacts DEF SinkSet
<1> HIDE DEF next
<1>3. next \in Steps \ {"start"} /\ next \notin RabbitSteps
    BY <1>2 DEF Steps, RabbitSteps
<1>4. /\ x.kind = "instance" => Phase(next) = Rank(sink) + 1
      /\ Phase(next) > Rank(sink)
    BY <1>2 DEF Phase, Rank
<1> QED
    BY <1>3, <1>4 DEF next

\* A sink that succeeded.
LEMMA SucceededForm ==
    ASSUME NEW x \in TaskType, NEW sink \in SinkSet, NEW b
    PROVE  LET y == Succeeded(x, sink, b)
           IN  /\ Follows(x, y) /\ y.at = After(x, sink) /\ y.failed = x.failed
               /\ y.channel = "none" /\ y.disturbed = x.disturbed
               /\ b => y.sent = Append(x.sent, sink)
               /\ ~b => y.sent = x.sent
<1>1. After(x, sink) \in Steps
    BY AfterStep
<1>2. CASE b
    <2>1. Succeeded(x, sink, b) =
            [x EXCEPT !.at = After(x, sink), !.channel = "none", !.sent = Append(@, sink)]
        BY <1>2 DEF Succeeded
    <2>2. Append(x.sent, sink) \in Seq(SinkSet)
        BY DEF TaskType
    <2> QED
        BY <1>1, <1>2, <2>1, <2>2, ZenonT(60) DEF TaskType, Follows
<1>3. CASE ~b
    <2>1. Succeeded(x, sink, b) =
            [x EXCEPT !.at = After(x, sink), !.channel = "none", !.sent = @]
        BY <1>3 DEF Succeeded
    <2> QED
        BY <1>1, <1>3, <2>1 DEF TaskType, Follows
<1> QED
    BY <1>2, <1>3

\* A sink that failed.
LEMMA FailedForm ==
    ASSUME NEW x \in TaskType, NEW sink \in SinkSet
    PROVE  LET y == Failed(x, sink)
           IN  /\ Follows(x, y) /\ y.failed = sink /\ y.sent = x.sent /\ y.channel = "none"
               /\ y.at = IF x.kind = "global" THEN After(x, sink) ELSE "done"
<1>1. (IF x.kind = "global" THEN After(x, sink) ELSE "done") \in Steps
    BY AfterStep DEF Steps
<1> QED
    BY <1>1 DEF Failed, TaskType, Follows

\* A task that reached its sink, or passed it by, is fine.
LEMMA SucceededFine ==
    ASSUME NEW st, NEW cf, NEW x, NEW sink \in SinkSet, NEW b, Fine(st, cf, x),
           x.at \notin {"start", "done"}, Rank(sink) = Phase(x.at),
           Undisturbed(x) /\ sink # "socket" => (b <=> Wants(st, cf, sink))
    PROVE  LET y == Succeeded(x, sink, b)
           IN  Fine(st, cf, y) /\ y.channel = "none" /\ y.at \notin RabbitSteps
<1> DEFINE y == Succeeded(x, sink, b)
<1>1. x \in TaskType
    BY DEF Fine
<1>2. /\ Follows(x, y) /\ y.at = After(x, sink) /\ y.failed = x.failed
      /\ y.channel = "none" /\ y.disturbed = x.disturbed
      /\ b => y.sent = Append(x.sent, sink)
      /\ ~b => y.sent = x.sent
    BY <1>1, SucceededForm
<1> HIDE DEF y
<1>3. /\ y.at \in Steps \ {"start"} /\ y.at \notin RabbitSteps
      /\ x.kind = "instance" => Phase(y.at) = Rank(sink) + 1
      /\ Phase(y.at) > Rank(sink)
    BY <1>1, <1>2, AfterStep
<1>4. AtFits(st, y.at)
    BY <1>3 DEF AtFits, RabbitSteps
<1>5. Undisturbed(y) => Undisturbed(x) /\ x.kind = "instance"
    BY <1>2 DEF Undisturbed, Follows
<1>6. Phase(x.at) \in 1..5 /\ Phase(y.at) \in 1..5
    BY <1>1, <1>3, PhaseFacts DEF TaskType
<1>7. ASSUME b PROVE Fine(st, cf, y)
    <2>1. Phase(x.at) < Phase(y.at) /\ y.at # "start"
        BY <1>3, <1>6
    <2>2. Undisturbed(y) => /\ AtFits(st, y.at)
                            /\ sink # "socket" => Wants(st, cf, sink)
                            /\ Phase(y.at) = Phase(x.at) + 1
        BY <1>3, <1>4, <1>5, <1>7
    <2>3. y.sent = Append(x.sent, sink)
        BY <1>2, <1>7
    <2> QED
        BY <1>2, <2>1, <2>2, <2>3, SendFine
<1>8. ASSUME ~b PROVE Fine(st, cf, y)
    <2>1. Undisturbed(y) =>
            \A k \in SinkSet \ {"socket"} :
                Phase(x.at) <= Rank(k) /\ Rank(k) < Phase(y.at) => ~Wants(st, cf, k)
        <3> SUFFICES ASSUME Undisturbed(y), NEW k \in SinkSet \ {"socket"},
                            Phase(x.at) <= Rank(k), Rank(k) < Phase(y.at)
                     PROVE  ~Wants(st, cf, k)
            OBVIOUS
        <3>1. Rank(k) = Rank(sink)
            BY <1>3, <1>5, <1>6, RankFacts
        <3>2. k = sink
            BY <3>1, RankFacts
        <3> QED
            BY <3>2, <1>5, <1>8
    <2>2. Phase(x.at) <= Phase(y.at) /\ y.at # "start"
        BY <1>3, <1>6
    <2>3. y.sent = x.sent
        BY <1>2, <1>8
    <2>4. Undisturbed(y) =>
             /\ AtFits(st, y.at)
             /\ \A k \in SinkSet \ {"socket"} :
                   Phase(x.at) <= Rank(k) /\ Rank(k) < Phase(y.at) => ~Wants(st, cf, k)
        BY <1>4, <2>1
    <2> QED
        BY <1>2, <2>2, <2>3, <2>4, StepFine
<1>9. Fine(st, cf, y)
    BY <1>7, <1>8
<1> QED
    BY <1>2, <1>3, <1>9 DEF y

\* A task whose sink failed is fine.
LEMMA FailedFine ==
    ASSUME NEW st, NEW cf, NEW x, NEW sink \in SinkSet, Fine(st, cf, x),
           x.at \notin {"start", "done"}, Rank(sink) = Phase(x.at)
    PROVE  LET y == Failed(x, sink)
           IN  Fine(st, cf, y) /\ y.channel = "none" /\ y.at \notin RabbitSteps
<1> DEFINE y == Failed(x, sink)
<1>1. x \in TaskType /\ x.kind \in {"instance", "global"}
    BY DEF Fine, TaskType
<1>2. /\ Follows(x, y) /\ y.failed = sink /\ y.sent = x.sent /\ y.channel = "none"
      /\ y.at = IF x.kind = "global" THEN After(x, sink) ELSE "done"
    BY <1>1, FailedForm
<1> HIDE DEF y
<1>3. /\ After(x, sink) \in Steps \ {"start"} /\ After(x, sink) \notin RabbitSteps
      /\ Phase(After(x, sink)) > Rank(sink)
    BY <1>1, AfterStep
<1>4. /\ y.at \in Steps \ {"start"} /\ y.at \notin RabbitSteps
      /\ Phase(y.at) > Rank(sink)
    <2>1. "done" \in Steps \ {"start"} /\ "done" \notin RabbitSteps /\ Phase("done") = 5
        BY DEF Steps, RabbitSteps, Phase
    <2>2. Rank(sink) < 5
        BY RankFacts
    <2> QED
        BY <1>2, <1>3, <2>1, <2>2
<1>5. Phase(x.at) \in 1..5 /\ Phase(y.at) \in 1..5
    BY <1>1, <1>4, PhaseFacts DEF TaskType
<1>6. y.kind = "instance" => y.at = "done"
    BY <1>2 DEF Follows
<1>7. Fine(st, cf, y)
    BY <1>2, <1>4, <1>5, <1>6, FailFine
<1> QED
    BY <1>2, <1>4, <1>7 DEF y

\* A task that publishes again, or gives up, is fine.
LEMMA NextPublishFine ==
    ASSUME NEW st, NEW cf, NEW x, Fine(st, cf, x),
           x.at \in {"publish", "dialRechannel", "rechannel"}
    PROVE  LET y == NextPublish(x)
           IN  /\ Fine(st, cf, y)
               /\ \/ y.at = "publish" /\ y.channel = x.channel
                  \/ y.at \notin RabbitSteps /\ y.channel = "none"
<1>1. x \in TaskType /\ x.tries \in Nat /\ x.at \notin {"start", "done"} /\ x.at \in Steps
    BY DEF Fine, TaskType
<1>2. Phase(x.at) = 1
    BY DEF Phase
<1>3. CASE x.tries > 1
    <2> DEFINE d == x.tries - 1
               y == [x EXCEPT !.at = "publish", !.tries = d]
    <2>1. d \in Nat /\ "publish" \in Steps
        <3>1. \A n \in Nat : n > 1 => n - 1 \in Nat
            OBVIOUS
        <3>2. d \in Nat
            BY <1>1, <1>3, <3>1, Zenon
        <3>3. "publish" \in Steps
            BY StepFacts
        <3> QED
            BY <3>2, <3>3
    <2>2. NextPublish(x) = y
        BY <1>1, <1>3 DEF NextPublish
    <2> HIDE DEF d
    <2>3. /\ Follows(x, y) /\ y.at = "publish"
          /\ y.sent = x.sent /\ y.failed = x.failed /\ y.channel = x.channel
        <3>1. Moved(x, "publish", d, y)
            BY DEF Moved
        <3>2. "publish" \in Steps
            BY <2>1
        <3> HIDE DEF y
        <3> QED
            BY <1>1, <2>1, <3>1, <3>2, AtForm
    <2> HIDE DEF y
    <2>4. Phase(y.at) = 1
        BY <2>3 DEF Phase
    <2>5. Undisturbed(y) => AtFits(st, y.at)
        <3>1. Undisturbed(y) => Undisturbed(x)
            BY <2>3 DEF Undisturbed, Follows
        <3>2. Undisturbed(x) => st.rabbit = "enabled"
            BY DEF Fine, Delivered
        <3> QED
            BY <2>3, <3>1, <3>2 DEF AtFits
    <2>6. \A k \in SinkSet : ~(Phase(x.at) <= Rank(k) /\ Rank(k) < Phase(y.at))
        <3>1. \A r \in 1..4 : ~(1 <= r /\ r < 1)
            OBVIOUS
        <3> QED
            BY <1>2, <2>4, <3>1, RankRange, Zenon
    <2>7. Phase(x.at) <= Phase(y.at)
        BY <1>2, <2>4
    <2>8. Fine(st, cf, y)
        BY <1>1, <2>3, <2>5, <2>6, <2>7, StepFine
    <2> QED
        BY <2>2, <2>3, <2>8
<1>4. CASE ~(x.tries > 1)
    <2>1. NextPublish(x) = Failed(x, "rabbit")
        BY <1>4 DEF NextPublish
    <2>2. "rabbit" \in SinkSet /\ Rank("rabbit") = Phase(x.at)
        BY <1>2 DEF SinkSet, Rank
    <2> DEFINE y == Failed(x, "rabbit")
    <2>3. Fine(st, cf, y) /\ y.channel = "none" /\ y.at \notin RabbitSteps
        BY <1>1, <2>2, FailedFine
    <2> HIDE DEF y
    <2>4. NextPublish(x) = y
        BY <2>1 DEF y
    <2> QED
        BY <2>3, <2>4
<1> QED
    BY <1>3, <1>4

-----------------------------------------------------------------------------
(* The dispatches: what holds for each task, and for all of them.          *)

\* Two tasks are under way.
LEMMA TwoUnderWay ==
    ASSUME NEW S, NEW ts \in Seq(S), NEW t \in 1..Len(ts), NEW u \in 1..Len(ts), t # u,
           ts[t].at # "done", ts[u].at # "done"
    PROVE  Cardinality(UnderWay(ts)) > 1
<1>1. Len(ts) \in Nat /\ IsFiniteSet(1..Len(ts))
    BY FS_Interval
<1>2. UnderWay(ts) \subseteq 1..Len(ts) /\ {t, u} \subseteq UnderWay(ts)
    BY DEF UnderWay
<1>3. IsFiniteSet(UnderWay(ts)) /\ Cardinality(UnderWay(ts)) \in Nat
    BY <1>1, <1>2, FS_Subset, FS_CardinalityType
<1>4. Cardinality({t, u}) <= Cardinality(UnderWay(ts))
    BY <1>2, <1>3, FS_Subset
<1>5. Cardinality({t, u}) = 2
    <2>1. IsFiniteSet({t}) /\ Cardinality({t}) = 1
        BY FS_Singleton
    <2>2. {t} \cup {u} = {t, u} /\ u \notin {t}
        OBVIOUS
    <2>3. Cardinality({t} \cup {u}) = Cardinality({t}) + 1
        BY <2>1, <2>2, FS_AddElement, Zenon
    <2>4. Cardinality({t, u}) = 1 + 1
        BY <2>1, <2>2, <2>3, Zenon
    <2> QED
        BY <2>4
<1> QED
    BY <1>3, <1>4, <1>5

\* A step of one task, t, that does not fall to a panic.
LEMMA OneTask ==
    ASSUME DispatchInv, NEW t \in 1..Len(tasks), NEW y, Change(t, y),
           UNCHANGED <<settings, config, crashed>>,
           Fine(settings, config, y), Connected(conn', lost', y),
           conn' \in {"nil", "open", "closed"}, lost => lost', conn' \in {conn, "open"} \/ lost',
           tasks[t].at # "done"
    PROVE  /\ DispatchTypes' <=> hooks' \in Seq(HookType)
           /\ TaskInv' /\ TroubleInv'
           /\ UNCHANGED hooks => HookInv'
           /\ tasks' \in Seq(TaskType) /\ Len(tasks') = Len(tasks) /\ tasks'[t] = y
           /\ \A u \in 1..Len(tasks) : u # t => tasks'[u] = tasks[u]
<1> USE DEF DispatchInv
<1>1. /\ tasks \in Seq(TaskType) /\ Len(tasks) \in Nat /\ y \in TaskType
      /\ tasks' = [tasks EXCEPT ![t] = y]
    BY DEF DispatchTypes, Fine, Change, SetTasks
<1>2. /\ tasks' \in Seq(TaskType) /\ Len(tasks') = Len(tasks) /\ tasks'[t] = y
      /\ \A u \in 1..Len(tasks) : u # t => tasks'[u] = tasks[u]
    BY <1>1
<1>3. DispatchTypes' <=> hooks' \in Seq(HookType)
    BY <1>2 DEF DispatchTypes
<1>4. TaskInv'
    <2> SUFFICES ASSUME NEW u \in 1..Len(tasks)
                 PROVE  /\ Lane(tasks'[u]) /\ Entitled(tasks'[u])
                        /\ Delivered(settings, config, tasks'[u])
        BY <1>2 DEF TaskInv
    <2>1. CASE u = t
        BY <2>1, <1>2 DEF Fine
    <2>2. CASE u # t
        BY <2>2, <1>2 DEF TaskInv
    <2> QED
        BY <2>1, <2>2
<1>5. \A u \in 1..Len(tasks') : Connected(conn', lost', tasks'[u])
    <2> SUFFICES ASSUME NEW u \in 1..Len(tasks)
                 PROVE  Connected(conn', lost', tasks'[u])
        BY <1>2
    <2>1. CASE u = t
        BY <2>1, <1>2
    <2>2. CASE u # t
        <3>1. Connected(conn, lost, tasks[u]) /\ tasks'[u] = tasks[u]
            BY <2>2, <1>2 DEF TroubleInv
        <3> QED
            BY <3>1 DEF Connected
    <2> QED
        BY <2>1, <2>2
<1>6. overlapped' = (overlapped \/ Cardinality(UnderWay(tasks')) > 1)
    BY DEF Change, SetTasks
<1>7. \A u, v \in 1..Len(tasks') :
         u # v /\ tasks'[u].at # "done" /\ tasks'[v].at # "done" => overlapped'
    <2>1. \A u, v \in 1..Len(tasks') :
             u # v /\ tasks'[u].at # "done" /\ tasks'[v].at # "done" =>
                 Cardinality(UnderWay(tasks')) > 1
        BY <1>2, TwoUnderWay
    <2> QED
        BY <1>6, <2>1, Zenon
<1>8. crashed' => overlapped' \/ lost'
    <2>1. crashed => overlapped \/ lost
        BY DEF TroubleInv
    <2>2. overlapped => overlapped'
        BY <1>6, Zenon
    <2> QED
        BY <2>1, <2>2
<1>9. TroubleInv'
    BY <1>5, <1>7, <1>8 DEF TroubleInv
<1>10. ASSUME UNCHANGED hooks
       PROVE  HookInv'
    <2>1. ASSUME NEW h \in 1..Len(hooks)
          PROVE  /\ hooks[h].task \in 1..Len(tasks')
                 /\ tasks'[hooks[h].task] = tasks[hooks[h].task]
        <3>1. hooks[h].task \in 1..Len(tasks) /\ tasks[hooks[h].task].at = "done"
            BY DEF HookInv
        <3> QED
            BY <3>1, <1>2
    <2> QED
        BY <1>10, <2>1 DEF HookInv
<1> QED
    BY <1>2, <1>3, <1>4, <1>9, <1>10

\* A step of one task that leaves the webhooks alone.
LEMMA TaskStep ==
    ASSUME DispatchInv, NEW t \in 1..Len(tasks), NEW y, Change(t, y),
           UNCHANGED <<settings, config, crashed, hooks>>,
           Fine(settings, config, y), Connected(conn', lost', y),
           conn' \in {"nil", "open", "closed"}, lost => lost', conn' \in {conn, "open"} \/ lost',
           tasks[t].at # "done"
    PROVE  DispatchInv'
<1>1. hooks' \in Seq(HookType)
    BY DEF DispatchInv, DispatchTypes
<1>2. /\ DispatchTypes' <=> hooks' \in Seq(HookType)
      /\ TaskInv' /\ TroubleInv' /\ HookInv'
    BY OneTask
<1> QED
    BY <1>1, <1>2 DEF DispatchInv

\* What the invariant says of a task that is not done.
LEMMA TaskFacts ==
    ASSUME DispatchInv, NEW t \in DOMAIN tasks
    PROVE  /\ t \in 1..Len(tasks)
           /\ Fine(settings, config, tasks[t]) /\ Connected(conn, lost, tasks[t])
           /\ tasks[t] \in TaskType /\ tasks[t].at \in Steps
           /\ tasks[t].kind \in {"instance", "global"}
           /\ conn \in {"nil", "open", "closed"}
<1>1. /\ tasks \in Seq(TaskType) /\ t \in 1..Len(tasks) /\ tasks[t] \in TaskType
      /\ conn \in {"nil", "open", "closed"}
    BY DEF DispatchInv, DispatchTypes
<1>2. tasks[t].at \in Steps /\ tasks[t].kind \in {"instance", "global"}
    BY <1>1 DEF TaskType
<1> QED
    BY <1>1, <1>2 DEF DispatchInv, TaskInv, TroubleInv, Fine

\* A task without a channel, past the steps with AMQP.
LEMMA PastRabbit ==
    ASSUME NEW c, NEW lst, NEW y, y.channel = "none", y.at \notin RabbitSteps
    PROVE  Connected(c, lst, y)
BY DEF Connected, RabbitSteps

\* A task goes to its next step, with as many dials or attempts.
LEMMA GoFine ==
    ASSUME NEW st, NEW cf, NEW x, Fine(st, cf, x), x.at \notin {"start", "done"},
           NEW step \in Steps, NEW d \in Nat, NEW y,
           Moved(x, step, d, y),
           step # "start", Phase(x.at) <= Phase(step),
           Undisturbed(x) =>
               /\ AtFits(st, step)
               /\ \A k \in SinkSet \ {"socket"} :
                     Phase(x.at) <= Rank(k) /\ Rank(k) < Phase(step) => ~Wants(st, cf, k)
    PROVE  Fine(st, cf, y) /\ y.at = step /\ y.channel = x.channel
<1>1. x \in TaskType
    BY DEF Fine
<1>2. /\ Follows(x, y) /\ y.at = step
      /\ y.sent = x.sent /\ y.failed = x.failed /\ y.channel = x.channel
    BY <1>1, AtForm
<1>3. Undisturbed(y) => Undisturbed(x)
    BY <1>2 DEF Undisturbed, Follows
<1>4. Fine(st, cf, y)
    BY <1>2, <1>3, StepFine
<1> QED
    BY <1>2, <1>4

\* What a sink publishes for.
LEMMA WantsFacts ==
    ASSUME NEW st, NEW cf
    PROVE  /\ Wants(st, cf, "rabbit") <=> st.rabbit = "enabled"
           /\ Wants(st, cf, "nats") <=> st.nats = "enabled" /\ cf.natsUp
           /\ Wants(st, cf, "hook") <=> st.hook
BY DEF Wants

\* Only one sink has its place.
LEMMA RankOnly ==
    ASSUME NEW k \in SinkSet, NEW sink \in SinkSet, Rank(sink) <= Rank(k),
           Rank(k) < Rank(sink) + 1
    PROVE  k = sink
<1>1. Rank(k) \in 1..4 /\ Rank(sink) \in 1..4
    BY RankRange
<1>2. Rank(k) = Rank(sink)
    BY <1>1
<1> QED
    BY <1>2, RankFacts

\* A step of one task that leaves everything else alone.
LEMMA QuietStep ==
    ASSUME DispatchInv, NEW t \in DOMAIN tasks, NEW y, Change(t, y),
           UNCHANGED <<notTasks, hooks, amqp, crashed>>, tasks[t].at # "done",
           Fine(settings, config, y), Connected(conn, lost, y)
    PROVE  DispatchInv'
<1>1. t \in 1..Len(tasks) /\ conn \in {"nil", "open", "closed"}
    BY TaskFacts
<1>2. UNCHANGED <<settings, config, crashed, hooks, conn, lost>>
    BY DEF notTasks, amqp
<1> QED
    BY <1>1, <1>2, TaskStep

\* A panic after two tasks met, or the connection was lost.
LEMMA CrashStep ==
    ASSUME DispatchInv, Crash, UNCHANGED <<notTasks, hooks, amqp>>, overlapped \/ lost
    PROVE  DispatchInv'
<1>1. UNCHANGED <<settings, config, hooks, conn, lost, tasks, overlapped>>
    BY DEF notTasks, amqp, Crash
<1>2. DispatchTypes' /\ TaskInv' /\ HookInv'
    BY <1>1 DEF DispatchInv, DispatchTypes, TaskInv, HookInv
<1>3. TroubleInv'
    BY <1>1 DEF DispatchInv, TroubleInv
<1> QED
    BY <1>2, <1>3 DEF DispatchInv

\* Away from the channel and the publishing only the channel's state matters.
LEMMA SameChannel ==
    ASSUME NEW c, NEW lst, NEW x, NEW y, Connected(c, lst, x), y.channel = x.channel,
           y.at \notin {"dialRechannel", "rechannel", "channel", "publish"}
    PROVE  Connected(c, lst, y)
BY DEF Connected

\* A task that has not started has reached nothing.
LEMMA StartFacts ==
    ASSUME NEW st, NEW cf, NEW x, Fine(st, cf, x), x.at = "start"
    PROVE  x.sent = <<>> /\ (x.kind = "instance" => x.failed = None)
<1>1. x.sent \in Seq(SinkSet) /\ Len(x.sent) \in Nat
    BY DEF Fine, TaskType
<1>2. Phase(x.at) = 1
    BY DEF Phase
<1>3. \A i \in 1..Len(x.sent) : Rank(x.sent[i]) < 1 /\ x.sent[i] \in SinkSet
    BY <1>1, <1>2 DEF Fine, Lane, Below
<1>4. \A i \in 1..Len(x.sent) : FALSE
    BY <1>3, RankRange
<1>5. Len(x.sent) = 0
    BY <1>1, <1>4
<1>6. x.sent = <<>>
    BY <1>1, <1>5
<1>7. x.kind = "instance" => x.failed = None
    BY DEF Fine, Lane
<1> QED
    BY <1>6, <1>7

\* A task that starts with a global queue, or ends at once.
LEMMA LeaveStart ==
    ASSUME NEW st, NEW cf, NEW x, NEW y, Fine(st, cf, x), Follows(x, y), x.at = "start",
           y.sent = x.sent, y.failed = x.failed,
           y.at # "start", y.kind = "instance" => y.at = "done"
    PROVE  Fine(st, cf, y)
<1>1. y.sent = <<>> /\ (x.kind = "instance" => x.failed = None)
    BY StartFacts
<1>2. Lane(y)
    <2>1. InOrder(y.sent) /\ Below(y.sent, Phase(y.at))
        BY <1>1 DEF InOrder, Below
    <2> QED
        BY <1>1, <2>1 DEF Lane, Follows
<1>3. Entitled(y)
    BY <1>1 DEF Entitled
<1>4. Delivered(st, cf, y)
    <2> SUFFICES ASSUME Undisturbed(y)
                 PROVE  Delivered(st, cf, y)
        BY DEF Delivered
    <2>1. Undisturbed(x)
        BY DEF Undisturbed, Follows
    <2>2. y.want = {} /\ y.at = "done"
        BY <2>1 DEF Fine, Delivered, Follows, Undisturbed
    <2>3. \A k \in SinkSet : ~Has(y.sent, k)
        BY <1>1 DEF Has
    <2> QED
        BY <2>2, <2>3 DEF Delivered
<1> QED
    BY <1>2, <1>3, <1>4 DEF Fine, Follows

\* CallWebhook keeps the dispatches: a subscribed instance notes its sinks.
LEMMA CallWebhookKeeps ==
    ASSUME DispatchInv, NEW t \in DOMAIN tasks, CallWebhook(t)
    PROVE  DispatchInv'
<1> DEFINE x == tasks[t]
<1>1. /\ Fine(settings, config, x) /\ Connected(conn, lost, x)
      /\ x \in TaskType /\ x.at = "start" /\ x.kind = "instance"
    BY TaskFacts DEF CallWebhook, Here
<1>2. UNCHANGED <<notTasks, hooks, amqp, crashed>>
    BY DEF CallWebhook
<1>3. CASE Subscribed(x.event)
    <2> DEFINE y == [x EXCEPT !.at = "rabbit", !.want = Wanted, !.subs = settings.events]
    <2>1. Change(t, y)
        BY <1>3 DEF CallWebhook
    <2>2. Wanted \in SUBSET SinkSet /\ settings \in Settings
        BY DEF Wanted, SinkSet, DispatchInv, DispatchTypes
    <2>3. \A k \in SinkSet : k \in Wanted <=> Wants(settings, config, k)
        BY DEF Wanted, SinkSet, Publishes, Wants
    <2>4. settings.events \in {s.events : s \in Settings} \cup {{}} /\ "rabbit" \in Steps
        BY <2>2, StepFacts
    <2>5. /\ y \in TaskType /\ y.kind = x.kind /\ y.event = x.event /\ y.at = "rabbit"
          /\ y.sent = x.sent /\ y.failed = x.failed /\ y.channel = x.channel
          /\ y.subs = settings.events /\ y.want = Wanted
        BY <1>1, <2>2, <2>4 DEF TaskType
    <2> HIDE DEF y
    <2>6. x.sent = <<>> /\ x.failed = None
        BY <1>1, StartFacts
    <2>7. Lane(y)
        BY <2>5, <2>6 DEF Lane, InOrder, Below
    <2>8. Entitled(y)
        BY <1>3, <2>5 DEF Entitled, Subscribed
    <2>9. Phase(y.at) = 1
        BY <2>5 DEF Phase
    <2>10. \A k \in SinkSet : ~Has(y.sent, k) /\ ~(Rank(k) < Phase(y.at))
        BY <2>5, <2>6, <2>9, RankRange DEF Has
    <2>11. Delivered(settings, config, y)
        BY <2>3, <2>5, <2>10 DEF Delivered
    <2>12. Connected(conn, lost, y)
        BY <1>1, <2>5, SameChannel
    <2>13. Fine(settings, config, y)
        BY <2>5, <2>7, <2>8, <2>11 DEF Fine
    <2> QED
        BY <1>1, <1>2, <2>1, <2>12, <2>13, QuietStep
<1>4. CASE ~Subscribed(x.event)
    <2> DEFINE y == [x EXCEPT !.at = "done"]
    <2>1. Change(t, y)
        BY <1>4 DEF CallWebhook, Go
    <2>2. Moved(x, "done", 0, y)
        BY DEF Moved
    <2> HIDE DEF y
    <2>3. /\ Follows(x, y) /\ y.at = "done"
          /\ y.sent = x.sent /\ y.failed = x.failed /\ y.channel = x.channel
        BY <1>1, <2>2, AtForm, StepFacts
    <2>4. Fine(settings, config, y)
        BY <1>1, <2>3, LeaveStart
    <2>5. Connected(conn, lost, y)
        BY <1>1, <2>3, SameChannel
    <2> QED
        BY <1>1, <1>2, <2>1, <2>4, <2>5, QuietStep
<1> QED
    BY <1>3, <1>4

\* SendToGlobalQueues keeps the dispatches.
LEMMA GlobalKeeps ==
    ASSUME DispatchInv, NEW t \in DOMAIN tasks, SendToGlobalQueues(t)
    PROVE  DispatchInv'
<1> DEFINE x == tasks[t]
           step == IF config.amqp = "groups" /\ GroupsOf(x.event) = {} THEN "done"
                   ELSE IF GlobalAmqp(x.event) THEN "rabbit" ELSE "nats"
           y == [x EXCEPT !.at = step]
<1>1. /\ Fine(settings, config, x) /\ Connected(conn, lost, x)
      /\ x \in TaskType /\ x.at = "start" /\ x.kind = "global"
    BY TaskFacts DEF SendToGlobalQueues, Here
<1>2. UNCHANGED <<notTasks, hooks, amqp, crashed>> /\ Change(t, y)
    BY DEF SendToGlobalQueues, Go
<1>3. step \in {"done", "rabbit", "nats"}
    OBVIOUS
<1>4. Moved(x, step, 0, y)
    BY DEF Moved
<1> HIDE DEF step, y
<1>5. step \in Steps
    BY <1>3, StepFacts
<1>6. /\ Follows(x, y) /\ y.at = step
      /\ y.sent = x.sent /\ y.failed = x.failed /\ y.channel = x.channel
    BY <1>1, <1>4, <1>5, AtForm
<1>7. Fine(settings, config, y)
    <2>1. y.at # "start" /\ y.kind = "global"
        BY <1>1, <1>3, <1>6 DEF Follows
    <2> QED
        BY <1>1, <1>6, <2>1, LeaveStart
<1>8. Connected(conn, lost, y)
    BY <1>1, <1>3, <1>6, SameChannel
<1> QED
    BY <1>1, <1>2, <1>7, <1>8, QuietStep

\* A step among those with AMQP.
LEMMA RabbitFine ==
    ASSUME NEW st, NEW cf, NEW x, Fine(st, cf, x), x.at \in RabbitSteps,
           NEW step \in RabbitSteps, NEW d \in Nat, NEW y, Moved(x, step, d, y),
           Undisturbed(x) => AtFits(st, step)
    PROVE  Fine(st, cf, y) /\ y.at = step /\ y.channel = x.channel
<1>1. /\ x.at \in Steps /\ step \in Steps /\ x.at \notin {"start", "done"} /\ step # "start"
    BY DEF Steps, RabbitSteps
<1>2. Phase(x.at) = 1 /\ Phase(step) = 1
    BY <1>1, PhaseFacts
<1>3. \A k \in SinkSet : ~(Phase(x.at) <= Rank(k) /\ Rank(k) < Phase(step))
    BY <1>2, RankRange
<1>4. Phase(x.at) <= Phase(step)
    BY <1>2
<1> QED
    BY <1>1, <1>3, <1>4, GoFine

\* AMQP failed.
LEMMA RabbitFailed ==
    ASSUME NEW st, NEW cf, NEW x, Fine(st, cf, x), x.at \in RabbitSteps, NEW c, NEW lst
    PROVE  Fine(st, cf, Failed(x, "rabbit")) /\ Connected(c, lst, Failed(x, "rabbit"))
<1> DEFINE y == Failed(x, "rabbit")
<1>1. x.at \in Steps /\ x.at \notin {"start", "done"}
    BY DEF Steps, RabbitSteps
<1>2. "rabbit" \in SinkSet /\ Rank("rabbit") = Phase(x.at)
    BY <1>1, PhaseFacts, StepFacts
<1>3. Fine(st, cf, y) /\ y.channel = "none" /\ y.at \notin RabbitSteps
    BY <1>1, <1>2, FailedFine
<1> HIDE DEF y
<1>4. Connected(c, lst, y)
    BY <1>3, PastRabbit
<1> QED
    BY <1>3, <1>4 DEF y

\* AMQP succeeded, or published nothing.
LEMMA RabbitSucceeded ==
    ASSUME NEW st, NEW cf, NEW x, Fine(st, cf, x), x.at \in RabbitSteps, NEW c, NEW lst, NEW b,
           Undisturbed(x) => (b <=> Wants(st, cf, "rabbit"))
    PROVE  /\ Fine(st, cf, Succeeded(x, "rabbit", b))
           /\ Connected(c, lst, Succeeded(x, "rabbit", b))
<1> DEFINE y == Succeeded(x, "rabbit", b)
<1>1. x.at \in Steps /\ x.at \notin {"start", "done"}
    BY DEF Steps, RabbitSteps
<1>2. "rabbit" \in SinkSet /\ Rank("rabbit") = Phase(x.at)
    BY <1>1, PhaseFacts, StepFacts
<1>3. Fine(st, cf, y) /\ y.channel = "none" /\ y.at \notin RabbitSteps
    BY <1>1, <1>2, SucceededFine
<1> HIDE DEF y
<1>4. Connected(c, lst, y)
    BY <1>3, PastRabbit
<1> QED
    BY <1>3, <1>4 DEF y

\* The connection is ensured before the step.
LEMMA EnsureFine ==
    ASSUME DispatchInv, NEW t \in DOMAIN tasks, NEW step \in {"channel", "rechannel"},
           EnsureConnection(t, step), UNCHANGED <<notTasks, hooks, amqp, crashed>>,
           tasks[t].at \in RabbitSteps,
           Undisturbed(tasks[t]) => AtFits(settings, step),
           step = "rechannel" => lost
    PROVE  DispatchInv'
<1> DEFINE x == tasks[t]
           next == IF conn = "open" THEN step ELSE DialFor(step)
           d == IF conn = "open" THEN 0 ELSE DialTries
           y == [x EXCEPT !.at = next, !.dials = d]
<1>1. Fine(settings, config, x) /\ Connected(conn, lost, x)
    BY TaskFacts
<1>2. Change(t, y)
    BY DEF EnsureConnection
<1>3. d \in Nat
    BY EventsAssumption
<1>4. /\ next \in RabbitSteps
      /\ step = "channel" => next \in {"channel", "dialChannel"}
      /\ step = "rechannel" => next \in {"rechannel", "dialRechannel"}
      /\ next = "channel" => conn = "open"
    BY DEF DialFor, RabbitSteps
<1>5. Moved(x, next, d, y)
    BY DEF Moved
<1> HIDE DEF next, d, y
<1>6. Undisturbed(x) => AtFits(settings, next)
    BY <1>4 DEF AtFits
<1>7. Fine(settings, config, y) /\ y.at = next /\ y.channel = x.channel
    BY <1>1, <1>3, <1>4, <1>5, <1>6, RabbitFine
<1>8. Connected(conn, lost, y)
    <2>1. CASE step = "rechannel"
        BY <2>1 DEF Connected
    <2>2. CASE step = "channel"
        <3>1. y.at \in {"channel", "dialChannel"} /\ (y.at = "channel" => conn = "open")
            BY <1>4, <1>7, <2>2
        <3> QED
            BY <1>1, <1>7, <3>1 DEF Connected
    <2> QED
        BY <2>1, <2>2
<1>9. x.at # "done"
    BY DEF RabbitSteps
<1> QED
    BY <1>2, <1>7, <1>8, <1>9, QuietStep

\* Produce of the AMQP producer keeps the dispatches.
LEMMA ProduceKeeps ==
    ASSUME DispatchInv, NEW t \in DOMAIN tasks, Produce(t)
    PROVE  DispatchInv'
<1> DEFINE x == tasks[t]
<1>1. /\ Fine(settings, config, x) /\ Connected(conn, lost, x)
      /\ x \in TaskType /\ x.at = "rabbit"
    BY TaskFacts DEF Produce, Here
<1>2. UNCHANGED <<notTasks, hooks, amqp, crashed>>
    BY DEF Produce
<1>3. x.at \in RabbitSteps /\ x.at # "done" /\ Phase(x.at) = 1
    BY <1>1 DEF RabbitSteps, Phase
<1>4. CASE x.kind = "instance" /\ ~On(settings.rabbit) /\ Go(t, "nats")
    <2> DEFINE y == [x EXCEPT !.at = "nats"]
    <2>1. Change(t, y)
        BY <1>4 DEF Go
    <2>2. Moved(x, "nats", 0, y)
        BY DEF Moved
    <2> HIDE DEF y
    <2>3. \A k \in SinkSet \ {"socket"} :
             Phase(x.at) <= Rank(k) /\ Rank(k) < Phase("nats") => ~Wants(settings, config, k)
        <3> SUFFICES ASSUME NEW k \in SinkSet, Phase(x.at) <= Rank(k), Rank(k) < Phase("nats")
                     PROVE  ~Wants(settings, config, k)
            OBVIOUS
        <3>1. k = "rabbit"
            BY <1>3, StepFacts, RankOnly
        <3> QED
            BY <1>4, <3>1, WantsFacts DEF On
    <2>4. AtFits(settings, "nats") /\ Phase(x.at) <= Phase("nats") /\ "nats" \in Steps
        BY <1>3, StepFacts DEF AtFits
    <2>5. Fine(settings, config, y) /\ y.at = "nats" /\ y.channel = x.channel
        BY <1>1, <2>2, <2>3, <2>4, GoFine
    <2>6. Connected(conn, lost, y)
        BY <1>1, <2>5, SameChannel
    <2> QED
        BY <1>2, <1>3, <2>1, <2>5, <2>6, QuietStep
<1>5. CASE (x.kind = "global" \/ On(settings.rabbit)) /\ EnsureConnection(t, "channel")
    <2>1. Undisturbed(x) => AtFits(settings, "channel")
        BY <1>5 DEF Undisturbed, AtFits
    <2> QED
        BY <1>2, <1>3, <1>5, <2>1, EnsureFine
<1>6. CASE Change(t, Failed(x, "rabbit"))
    <2>1. /\ Fine(settings, config, Failed(x, "rabbit"))
          /\ Connected(conn, lost, Failed(x, "rabbit"))
        BY <1>1, <1>3, RabbitFailed
    <2> QED
        BY <1>2, <1>3, <1>6, <2>1, QuietStep
<1> QED
    BY <1>4, <1>5, <1>6 DEF Produce

\* A publish of the task failed.
LEMMA DisturbedFine ==
    ASSUME NEW st, NEW cf, NEW x, Fine(st, cf, x), x.at \notin {"start", "done"},
           NEW c \in {"none", "live", "dead", "nil"}, NEW z,
           Disturbed(x, c, z)
    PROVE  /\ Fine(st, cf, z) /\ z.at = x.at /\ z.channel = c /\ z.tries = x.tries
           /\ z.disturbed
<1>1. x \in TaskType
    BY DEF Fine
<1>2. /\ Follows(x, z) /\ z.at = x.at /\ z.disturbed /\ z.tries = x.tries
      /\ z.sent = x.sent /\ z.failed = x.failed /\ z.channel = c
    BY <1>1, DisturbForm
<1>3. ~Undisturbed(z)
    BY <1>2 DEF Undisturbed
<1>4. Phase(x.at) <= Phase(z.at) /\ z.at # "start"
    <2>1. Phase(x.at) \in 1..5
        BY <1>1, PhaseFacts DEF TaskType
    <2> QED
        BY <1>2, <2>1
<1>5. Fine(st, cf, z)
    BY <1>2, <1>3, <1>4, StepFine
<1> QED
    BY <1>2, <1>5

\* Reconnect keeps the dispatches: a dial that fails loses the connection.
LEMMA ReconnectKeeps ==
    ASSUME DispatchInv, NEW t \in DOMAIN tasks, Reconnect(t)
    PROVE  DispatchInv'
<1> DEFINE x == tasks[t]
           again == x.at = "dialRechannel"
<1>1. /\ t \in 1..Len(tasks) /\ Fine(settings, config, x) /\ Connected(conn, lost, x)
      /\ x \in TaskType /\ x.at \in {"dialChannel", "dialRechannel"}
    BY TaskFacts DEF Reconnect
<1>2. UNCHANGED <<settings, config, crashed, hooks>>
    BY DEF Reconnect, notTasks
<1>3. x.at \in RabbitSteps /\ x.at # "done" /\ x.at # "start"
    BY <1>1 DEF RabbitSteps
<1>4. CASE /\ conn' = "open" /\ UNCHANGED lost
           /\ Go(t, IF again THEN "rechannel" ELSE "channel")
    <2> DEFINE step == IF again THEN "rechannel" ELSE "channel"
               y == [x EXCEPT !.at = step]
    <2>1. Change(t, y)
        BY <1>4 DEF Go
    <2>2. Moved(x, step, 0, y)
        BY DEF Moved
    <2>3. /\ step \in RabbitSteps
          /\ x.at = "dialChannel" => step = "channel"
          /\ x.at = "dialRechannel" => step = "rechannel"
        BY DEF RabbitSteps
    <2> HIDE DEF step, y
    <2>4. Undisturbed(x) => AtFits(settings, step)
        BY <1>1, <2>3 DEF AtFits, Fine, Delivered
    <2>5. Fine(settings, config, y) /\ y.at = step /\ y.channel = x.channel
        BY <1>1, <1>3, <2>2, <2>3, <2>4, RabbitFine
    <2>6. Connected(conn', lost', y)
        BY <1>1, <1>4, <2>3, <2>5 DEF Connected
    <2> QED
        BY <1>1, <1>2, <1>3, <1>4, <2>1, <2>5, <2>6, TaskStep
<1>5. ASSUME NEW y, Fine(settings, config, y), Change(t, y), conn' = "nil", lost' = TRUE
      PROVE  DispatchInv'
    <2>1. Connected(conn', lost', y)
        BY <1>5 DEF Connected
    <2> QED
        BY <1>1, <1>2, <1>3, <1>5, <2>1, TaskStep
<1>6. CASE /\ conn' = "nil" /\ lost' = TRUE
           /\ Change(t, IF x.dials > 1 THEN [x EXCEPT !.dials = @ - 1]
                        ELSE IF again THEN NextPublish(x) ELSE Failed(x, "rabbit"))
    <2>1. CASE x.dials > 1
        <3> DEFINE d == x.dials - 1
                   y == [x EXCEPT !.dials = d]
        <3>1. d \in Nat
            BY <1>1, <2>1 DEF TaskType
        <3>2. Change(t, y)
            BY <1>6, <2>1
        <3> HIDE DEF d
        <3>3. /\ Follows(x, y) /\ y.at = x.at
              /\ y.sent = x.sent /\ y.failed = x.failed /\ y.channel = x.channel
            BY <1>1, <3>1, DialForm
        <3> HIDE DEF y
        <3>4. Phase(x.at) = 1
            BY <1>1 DEF Phase
        <3>5. /\ Phase(x.at) <= Phase(y.at)
              /\ \A k \in SinkSet : ~(Phase(x.at) <= Rank(k) /\ Rank(k) < Phase(y.at))
            BY <3>3, <3>4, RankRange
        <3>6. Undisturbed(y) => AtFits(settings, y.at)
            <4>1. Undisturbed(y) => Undisturbed(x)
                BY <3>3 DEF Undisturbed, Follows
            <4> QED
                BY <1>1, <3>3, <4>1 DEF AtFits, Fine, Delivered
        <3>7. Fine(settings, config, y)
            BY <1>1, <1>3, <3>3, <3>5, <3>6, StepFine
        <3> QED
            BY <1>5, <1>6, <3>2, <3>7
    <2>2. CASE ~(x.dials > 1) /\ again
        <3>1. Fine(settings, config, NextPublish(x))
            BY <1>1, <2>2, NextPublishFine
        <3> QED
            BY <1>5, <1>6, <2>2, <3>1
    <2>3. CASE ~(x.dials > 1) /\ ~again
        <3>1. Fine(settings, config, Failed(x, "rabbit"))
            BY <1>1, <1>3, RabbitFailed
        <3> QED
            BY <1>5, <1>6, <2>3, <3>1
    <2> QED
        BY <2>1, <2>2, <2>3
<1> QED
    BY <1>4, <1>6 DEF Reconnect

\* Channel keeps the dispatches: only a lost connection is nil here.
LEMMA ChannelKeeps ==
    ASSUME DispatchInv, NEW t \in DOMAIN tasks, Channel(t)
    PROVE  DispatchInv'
<1> DEFINE x == tasks[t]
<1>1. /\ Fine(settings, config, x) /\ Connected(conn, lost, x)
      /\ x \in TaskType /\ x.at = "channel" /\ x.kind \in {"instance", "global"}
    BY TaskFacts DEF Channel, Here
<1>2. UNCHANGED <<notTasks, hooks, amqp>>
    BY DEF Channel
<1>3. x.at \in RabbitSteps /\ x.at \notin {"start", "done"}
    BY <1>1 DEF RabbitSteps
<1>4. conn = "nil" => lost
    BY <1>1 DEF Connected
<1>5. Undisturbed(x) => On(settings.rabbit) /\ Enabled(x) = settings.rabbit
    BY <1>1 DEF Fine, Delivered, Undisturbed, Enabled
<1>6. CASE Crash /\ conn = "nil"
    BY <1>2, <1>4, <1>6, CrashStep
<1>7. CASE UNCHANGED crashed /\ Change(t, Failed(x, "rabbit"))
    <2>1. /\ Fine(settings, config, Failed(x, "rabbit"))
          /\ Connected(conn, lost, Failed(x, "rabbit"))
        BY <1>1, <1>3, RabbitFailed
    <2> QED
        BY <1>2, <1>3, <1>7, <2>1, QuietStep
<1>8. CASE /\ UNCHANGED crashed /\ Enabled(x) \in {"global", "enabled"}
           /\ Change(t, [x EXCEPT !.at = "publish", !.tries = PublishTries, !.channel = "live"])
    <2> DEFINE y == [x EXCEPT !.at = "publish", !.tries = PublishTries, !.channel = "live"]
    <2>1. Change(t, y)
        BY <1>8
    <2>2. PublishTries \in Nat
        BY EventsAssumption
    <2>3. /\ Follows(x, y) /\ y.at = "publish"
          /\ y.sent = x.sent /\ y.failed = x.failed /\ y.channel = "live"
        BY <1>1, <2>2, PublishForm
    <2> HIDE DEF y
    <2>4. Phase(x.at) = 1 /\ Phase(y.at) = 1
        BY <1>1, <2>3 DEF Phase
    <2>5. /\ Phase(x.at) <= Phase(y.at)
          /\ \A k \in SinkSet : ~(Phase(x.at) <= Rank(k) /\ Rank(k) < Phase(y.at))
        BY <2>4, RankRange
    <2>6. Undisturbed(y) => AtFits(settings, y.at)
        <3>1. Undisturbed(y) => Undisturbed(x)
            BY <2>3 DEF Undisturbed, Follows
        <3>2. Undisturbed(x) => settings.rabbit = "enabled"
            BY <1>5, <1>8 DEF On
        <3> QED
            BY <2>3, <3>1, <3>2 DEF AtFits
    <2>7. Fine(settings, config, y)
        BY <1>1, <1>3, <2>3, <2>5, <2>6, StepFine
    <2>8. Connected(conn, lost, y)
        BY <2>3 DEF Connected
    <2> QED
        BY <1>2, <1>3, <1>8, <2>1, <2>7, <2>8, QuietStep
<1>9. CASE /\ UNCHANGED crashed /\ Enabled(x) \notin {"global", "enabled"}
           /\ Change(t, Succeeded(x, "rabbit", FALSE))
    <2>1. Undisturbed(x) => (FALSE <=> Wants(settings, config, "rabbit"))
        BY <1>5, <1>9, WantsFacts
    <2>2. /\ Fine(settings, config, Succeeded(x, "rabbit", FALSE))
          /\ Connected(conn, lost, Succeeded(x, "rabbit", FALSE))
        BY <1>1, <1>3, <2>1, RabbitSucceeded
    <2> QED
        BY <1>2, <1>3, <1>9, <2>2, QuietStep
<1> QED
    BY <1>6, <1>7, <1>8, <1>9 DEF Channel

\* Publish keeps the dispatches: only a lost connection leaves a task without
\* its channel.
LEMMA PublishKeeps ==
    ASSUME DispatchInv, NEW t \in DOMAIN tasks, Publish(t)
    PROVE  DispatchInv'
<1> DEFINE x == tasks[t]
<1>1. /\ Fine(settings, config, x) /\ Connected(conn, lost, x)
      /\ x \in TaskType /\ x.at = "publish"
    BY TaskFacts DEF Publish, Here
<1>2. UNCHANGED <<notTasks, hooks, amqp>>
    BY DEF Publish
<1>3. x.at \in RabbitSteps /\ x.at \notin {"start", "done"}
    BY <1>1 DEF RabbitSteps
<1>4. x.channel # "live" => lost
    BY <1>1 DEF Connected
<1>5. Undisturbed(x) => settings.rabbit = "enabled"
    BY <1>1 DEF Fine, Delivered
<1>6. CASE UNCHANGED crashed /\ Change(t, Succeeded(x, "rabbit", TRUE))
    <2>1. Undisturbed(x) => (TRUE <=> Wants(settings, config, "rabbit"))
        BY <1>5, WantsFacts
    <2>2. /\ Fine(settings, config, Succeeded(x, "rabbit", TRUE))
          /\ Connected(conn, lost, Succeeded(x, "rabbit", TRUE))
        BY <1>1, <1>3, <2>1, RabbitSucceeded
    <2> QED
        BY <1>2, <1>3, <1>6, <2>2, QuietStep
<1>7. CASE /\ x.channel = "live" /\ UNCHANGED crashed
           /\ Change(t, NextPublish([x EXCEPT !.disturbed = TRUE]))
    <2> DEFINE z == [x EXCEPT !.disturbed = TRUE]
               y == NextPublish(z)
    <2>1. Change(t, y)
        BY <1>7
    <2>2. Disturbed(x, "live", z)
        BY <1>7 DEF Disturbed
    <2> HIDE DEF z
    <2>3. Fine(settings, config, z) /\ z.at = "publish" /\ z.channel = "live"
        BY <1>1, <1>3, <2>2, DisturbedFine
    <2>4. /\ Fine(settings, config, y)
          /\ \/ y.at = "publish" /\ y.channel = "live"
             \/ y.at \notin RabbitSteps /\ y.channel = "none"
        BY <2>3, NextPublishFine
    <2> HIDE DEF y
    <2>5. Connected(conn, lost, y)
        BY <2>4, PastRabbit DEF Connected
    <2> QED
        BY <1>2, <1>3, <1>7, <2>1, <2>4, <2>5, QuietStep
<1>8. CASE x.channel = "dead" /\ UNCHANGED crashed /\ EnsureConnection(t, "rechannel")
    <2>1. lost
        BY <1>4, <1>8
    <2>2. Undisturbed(x) => AtFits(settings, "rechannel")
        BY <1>5 DEF AtFits
    <2> QED
        BY <1>2, <1>3, <1>8, <2>1, <2>2, EnsureFine
<1>9. CASE x.channel # "live" /\ Crash
    BY <1>2, <1>4, <1>9, CrashStep
<1> QED
    BY <1>6, <1>7, <1>8, <1>9 DEF Publish

\* Rechannel keeps the dispatches: it follows a connection that was lost.
LEMMA RechannelKeeps ==
    ASSUME DispatchInv, NEW t \in DOMAIN tasks, Rechannel(t)
    PROVE  DispatchInv'
<1> DEFINE x == tasks[t]
           z == [x EXCEPT !.disturbed = TRUE]
<1>1. /\ Fine(settings, config, x) /\ Connected(conn, lost, x)
      /\ x \in TaskType /\ x.at = "rechannel"
    BY TaskFacts DEF Rechannel, Here
<1>2. UNCHANGED <<notTasks, hooks, amqp>>
    BY DEF Rechannel
<1>3. x.at \in RabbitSteps /\ x.at \notin {"start", "done"}
    BY <1>1 DEF RabbitSteps
<1>4. lost
    BY <1>1 DEF Connected
<1>5. \A y : Connected(conn, lost, y)
    BY <1>4 DEF Connected
<1>6. ASSUME NEW y, UNCHANGED crashed, Change(t, y), Fine(settings, config, y)
      PROVE  DispatchInv'
    BY <1>2, <1>3, <1>5, <1>6, QuietStep
<1>7. ASSUME NEW c \in {"nil", "live"}
      PROVE  Fine(settings, config, NextPublish([z EXCEPT !.channel = c]))
    <2> DEFINE w == [z EXCEPT !.channel = c]
    <2>1. Disturbed(x, c, w)
        BY DEF Disturbed
    <2> HIDE DEF w
    <2>2. Fine(settings, config, w) /\ w.at = "rechannel"
        BY <1>1, <1>3, <2>1, DisturbedFine
    <2>3. Fine(settings, config, NextPublish(w))
        BY <2>2, NextPublishFine
    <2> QED
        BY <2>3 DEF w
<1>8. Fine(settings, config, Succeeded(z, "rabbit", FALSE))
    <2>1. Disturbed(x, x.channel, z) /\ x.channel \in {"none", "live", "dead", "nil"}
        BY <1>1 DEF Disturbed, TaskType
    <2> HIDE DEF z
    <2>2. Fine(settings, config, z) /\ z.at = "rechannel" /\ z.disturbed
        BY <1>1, <1>3, <2>1, DisturbedFine
    <2>3. z.at \in RabbitSteps /\ ~Undisturbed(z)
        BY <1>1, <1>3, <2>2 DEF Undisturbed
    <2> QED
        BY <2>2, <2>3, RabbitSucceeded
<1>9. \/ Crash
      \/ /\ UNCHANGED crashed
         /\ \/ Change(t, NextPublish([z EXCEPT !.channel = "nil"]))
            \/ Change(t, NextPublish([z EXCEPT !.channel = "live"]))
            \/ Change(t, Succeeded(z, "rabbit", FALSE))
    BY DEF Rechannel
<1>10. CASE Crash
    BY <1>2, <1>4, <1>10, CrashStep
<1> HIDE DEF z
<1> QED
    BY <1>6, <1>7, <1>8, <1>9, <1>10

\* A sink other than AMQP was reached, or passed by.
LEMMA OtherSucceeded ==
    ASSUME NEW st, NEW cf, NEW x, Fine(st, cf, x), x.at \notin {"start", "done"},
           NEW sink \in SinkSet, Rank(sink) = Phase(x.at), NEW c, NEW lst, NEW b,
           Undisturbed(x) /\ sink # "socket" => (b <=> Wants(st, cf, sink))
    PROVE  /\ Fine(st, cf, Succeeded(x, sink, b))
           /\ Connected(c, lst, Succeeded(x, sink, b))
<1> DEFINE y == Succeeded(x, sink, b)
<1>1. Fine(st, cf, y) /\ y.channel = "none" /\ y.at \notin RabbitSteps
    BY SucceededFine
<1> HIDE DEF y
<1>2. Connected(c, lst, y)
    BY <1>1, PastRabbit
<1> QED
    BY <1>1, <1>2 DEF y

\* A sink other than AMQP failed.
LEMMA OtherFailed ==
    ASSUME NEW st, NEW cf, NEW x, Fine(st, cf, x), x.at \notin {"start", "done"},
           NEW sink \in SinkSet, Rank(sink) = Phase(x.at), NEW c, NEW lst
    PROVE  Fine(st, cf, Failed(x, sink)) /\ Connected(c, lst, Failed(x, sink))
<1> DEFINE y == Failed(x, sink)
<1>1. Fine(st, cf, y) /\ y.channel = "none" /\ y.at \notin RabbitSteps
    BY FailedFine
<1> HIDE DEF y
<1>2. Connected(c, lst, y)
    BY <1>1, PastRabbit
<1> QED
    BY <1>1, <1>2 DEF y

\* NatsProduce keeps the dispatches.
LEMMA NatsKeeps ==
    ASSUME DispatchInv, NEW t \in DOMAIN tasks, NatsProduce(t)
    PROVE  DispatchInv'
<1> DEFINE x == tasks[t]
<1>1. /\ Fine(settings, config, x) /\ Connected(conn, lost, x)
      /\ x \in TaskType /\ x.at = "nats" /\ x.kind \in {"instance", "global"}
    BY TaskFacts DEF NatsProduce, Here
<1>2. UNCHANGED <<notTasks, hooks, amqp, crashed>>
    BY DEF NatsProduce
<1>3. /\ x.at \notin {"start", "done"} /\ "nats" \in SinkSet /\ Rank("nats") = Phase(x.at)
      /\ Phase(x.at) = 2
    BY <1>1, StepFacts
<1>4. ASSUME NEW b, Change(t, Succeeded(x, "nats", b)),
             Undisturbed(x) => (b <=> Wants(settings, config, "nats"))
      PROVE  DispatchInv'
    <2>1. /\ Fine(settings, config, Succeeded(x, "nats", b))
          /\ Connected(conn, lost, Succeeded(x, "nats", b))
        BY <1>1, <1>3, <1>4, OtherSucceeded
    <2> QED
        BY <1>2, <1>3, <1>4, <2>1, QuietStep
<1>5. CASE Change(t, Failed(x, "nats"))
    <2>1. /\ Fine(settings, config, Failed(x, "nats"))
          /\ Connected(conn, lost, Failed(x, "nats"))
        BY <1>1, <1>3, OtherFailed
    <2> QED
        BY <1>2, <1>3, <1>5, <2>1, QuietStep
<1>6. CASE x.kind = "global" /\ Go(t, "done")
    <2> DEFINE y == [x EXCEPT !.at = "done"]
    <2>1. Change(t, y)
        BY <1>6 DEF Go
    <2>2. Moved(x, "done", 0, y)
        BY DEF Moved
    <2> HIDE DEF y
    <2>3. ~Undisturbed(x)
        BY <1>6 DEF Undisturbed
    <2>4. Phase(x.at) <= Phase("done") /\ "done" \in Steps
        BY <1>3, StepFacts
    <2>5. Fine(settings, config, y) /\ y.at = "done" /\ y.channel = x.channel
        BY <1>1, <1>3, <2>2, <2>3, <2>4, GoFine
    <2>6. Connected(conn, lost, y)
        BY <1>1, <2>5, SameChannel
    <2> QED
        BY <1>2, <1>3, <2>1, <2>5, <2>6, QuietStep
<1>7. CASE x.kind = "global" /\ Change(t, Succeeded(x, "nats", config.natsUp))
    <2>1. ~Undisturbed(x)
        BY <1>7 DEF Undisturbed
    <2> QED
        BY <1>4, <1>7, <2>1
<1>8. CASE Change(t, Succeeded(x, "nats", Publishes("nats")))
    <2>1. Publishes("nats") <=> Wants(settings, config, "nats")
        BY WantsFacts DEF Publishes
    <2> QED
        BY <1>4, <1>8, <2>1
<1> QED
    BY <1>1, <1>5, <1>6, <1>7, <1>8 DEF NatsProduce

\* SocketProduce keeps the dispatches: writers meet only when two tasks do.
LEMMA SocketProduceKeeps ==
    ASSUME DispatchInv, NEW t \in DOMAIN tasks, SocketProduce(t)
    PROVE  DispatchInv'
<1> DEFINE x == tasks[t]
<1>1. /\ Fine(settings, config, x) /\ Connected(conn, lost, x)
      /\ x \in TaskType /\ x.at = "socket" /\ t \in 1..Len(tasks)
    BY TaskFacts DEF SocketProduce, Here
<1>2. UNCHANGED <<notTasks, hooks, amqp>>
    BY DEF SocketProduce
<1>3. x.at \notin {"start", "done"} /\ Phase(x.at) = 3
    BY <1>1, StepFacts
<1>4. ASSUME NEW step \in {"hook", "write"}, Go(t, step), UNCHANGED crashed
      PROVE  DispatchInv'
    <2> DEFINE y == [x EXCEPT !.at = step]
    <2>1. Change(t, y)
        BY <1>4 DEF Go
    <2>2. Moved(x, step, 0, y)
        BY DEF Moved
    <2> HIDE DEF y
    <2>3. /\ step \in Steps /\ step # "start" /\ AtFits(settings, step)
          /\ Phase(step) \in 3..4
        BY StepFacts DEF AtFits
    <2>4. \A k \in SinkSet \ {"socket"} : ~(Phase(x.at) <= Rank(k) /\ Rank(k) < Phase(step))
        <3> SUFFICES ASSUME NEW k \in SinkSet, Phase(x.at) <= Rank(k), Rank(k) < Phase(step)
                     PROVE  k = "socket"
            OBVIOUS
        <3>1. Rank("socket") <= Rank(k) /\ Rank(k) < Rank("socket") + 1 /\ "socket" \in SinkSet
            BY <1>3, <2>3, StepFacts, RankRange
        <3> QED
            BY <3>1, RankOnly
    <2>5. Phase(x.at) <= Phase(step)
        BY <1>3, <2>3
    <2>6. Fine(settings, config, y) /\ y.at = step /\ y.channel = x.channel
        BY <1>1, <1>3, <2>2, <2>3, <2>4, <2>5, GoFine
    <2>7. Connected(conn, lost, y)
        BY <1>1, <2>6, SameChannel
    <2> QED
        BY <1>2, <1>3, <1>4, <2>1, <2>6, <2>7, QuietStep
<1>5. CASE Writing # {} /\ Crash
    <2>1. PICK u \in DOMAIN tasks : tasks[u].at = "write"
        BY <1>5 DEF Writing
    <2>2. u \in 1..Len(tasks) /\ u # t
        BY <2>1, <1>1, TaskFacts
    <2>3. overlapped
        BY <1>1, <2>1, <2>2 DEF DispatchInv, TroubleInv
    <2> QED
        BY <1>2, <1>5, <2>3, CrashStep
<1> QED
    BY <1>4, <1>5 DEF SocketProduce

\* SocketWrite keeps the dispatches.
LEMMA SocketWriteKeeps ==
    ASSUME DispatchInv, NEW t \in DOMAIN tasks, SocketWrite(t)
    PROVE  DispatchInv'
<1> DEFINE x == tasks[t]
           b == Targets \cap open # {}
<1>1. /\ Fine(settings, config, x) /\ Connected(conn, lost, x)
      /\ x \in TaskType /\ x.at = "write"
    BY TaskFacts DEF SocketWrite, Here
<1>2. UNCHANGED <<notTasks, hooks, amqp, crashed>>
    BY DEF SocketWrite
<1>3. /\ x.at \notin {"start", "done"} /\ "socket" \in SinkSet
      /\ Rank("socket") = Phase(x.at)
    BY <1>1, StepFacts
<1>4. Change(t, Failed(x, "socket")) \/ Change(t, Succeeded(x, "socket", b))
    BY DEF SocketWrite
<1>5. /\ Fine(settings, config, Failed(x, "socket"))
      /\ Connected(conn, lost, Failed(x, "socket"))
    BY <1>1, <1>3, OtherFailed
<1> HIDE DEF b
<1>6. /\ Fine(settings, config, Succeeded(x, "socket", b))
      /\ Connected(conn, lost, Succeeded(x, "socket", b))
    BY <1>1, <1>3, OtherSucceeded
<1> QED
    BY <1>2, <1>3, <1>4, <1>5, <1>6, QuietStep

\* The webhooks of a dispatch.
Called(t, n) == <<[task |-> t, url |-> "global", left |-> n, got |-> 0],
                  [task |-> t, url |-> "instance", left |-> n, got |-> 0]>>
CalledOne(t, n) == <<[task |-> t, url |-> "instance", left |-> n, got |-> 0]>>

\* They are all of that dispatch, and of different URLs.
LEMMA CalledFacts ==
    ASSUME NEW t \in Nat, NEW n \in Nat, NEW c, c \in {<<>>, Called(t, n), CalledOne(t, n)}
    PROVE  /\ c \in Seq(HookType)
           /\ \A i \in 1..Len(c) : c[i].task = t
           /\ \A i, j \in 1..Len(c) : c[i].url = c[j].url => i = j
<1>1. CASE c = <<>>
    BY <1>1
<1> DEFINE g == [task |-> t, url |-> "global", left |-> n, got |-> 0]
           i1 == [task |-> t, url |-> "instance", left |-> n, got |-> 0]
<1>2. /\ g \in HookType /\ i1 \in HookType /\ g.task = t /\ i1.task = t
      /\ g.url = "global" /\ i1.url = "instance"
    BY DEF HookType
<1>3. Called(t, n) = <<g, i1>> /\ CalledOne(t, n) = <<i1>>
    BY DEF Called, CalledOne
<1> HIDE DEF g, i1
<1>4. CASE c = <<g, i1>>
    <2>1. c \in Seq(HookType) /\ Len(c) = 2 /\ c[1] = g /\ c[2] = i1
        BY <1>2, <1>4
    <2>2. \A i \in 1..Len(c) : i = 1 \/ i = 2
        BY <2>1
    <2> QED
        BY <1>2, <2>1, <2>2
<1>5. CASE c = <<i1>>
    <2>1. c \in Seq(HookType) /\ Len(c) = 1 /\ c[1] = i1
        BY <1>2, <1>5
    <2>2. \A i \in 1..Len(c) : i = 1
        BY <2>1
    <2> QED
        BY <1>2, <2>1, <2>2
<1> QED
    BY <1>1, <1>3, <1>4, <1>5

\* HookProduce keeps the dispatches: it calls each URL once.
LEMMA HookKeeps ==
    ASSUME DispatchInv, NEW t \in DOMAIN tasks, HookProduce(t)
    PROVE  DispatchInv'
<1> DEFINE x == tasks[t]
           b == settings.hook
           y == Succeeded(x, "hook", b)
<1>1. /\ Fine(settings, config, x) /\ Connected(conn, lost, x) /\ t \in 1..Len(tasks)
      /\ x \in TaskType /\ x.at = "hook" /\ conn \in {"nil", "open", "closed"}
    BY TaskFacts DEF HookProduce, Here
<1>2. UNCHANGED <<settings, config, crashed, conn, lost>> /\ Change(t, y)
    BY DEF HookProduce, notTasks, amqp
<1>3. PICK c \in {<<>>, Called(t, HookTries), CalledOne(t, HookTries)} :
         hooks' = hooks \o c /\ (c # <<>> => b)
    BY DEF HookProduce, Called, CalledOne
<1>4. t \in Nat /\ HookTries \in Nat
    BY <1>1, EventsAssumption
<1>5. /\ c \in Seq(HookType)
      /\ \A i \in 1..Len(c) : c[i].task = t
      /\ \A i, j \in 1..Len(c) : c[i].url = c[j].url => i = j
    BY <1>3, <1>4, CalledFacts
<1>6. /\ x.at \notin {"start", "done"} /\ "hook" \in SinkSet /\ Rank("hook") = Phase(x.at)
      /\ Phase(x.at) = 4
    BY <1>1, StepFacts
<1>7. Undisturbed(x) => (b <=> Wants(settings, config, "hook"))
    BY WantsFacts
<1>8. Fine(settings, config, y) /\ Connected(conn, lost, y)
    BY <1>1, <1>6, <1>7, OtherSucceeded
<1>9. y.at = "done" /\ (b => y.sent = Append(x.sent, "hook"))
    BY <1>1, <1>6, SucceededForm, AfterFacts
<1>10. x.sent \in Seq(SinkSet)
    BY <1>1 DEF TaskType
<1> HIDE DEF y
<1>11. b => y.sent # <<>> /\ y.sent[Len(y.sent)] = "hook"
    BY <1>6, <1>9, <1>10
<1>12. /\ DispatchTypes' <=> hooks' \in Seq(HookType)
       /\ TaskInv' /\ TroubleInv'
       /\ tasks' \in Seq(TaskType) /\ Len(tasks') = Len(tasks) /\ tasks'[t] = y
       /\ \A u \in 1..Len(tasks) : u # t => tasks'[u] = tasks[u]
    BY <1>1, <1>2, <1>6, <1>8, OneTask
<1>13. hooks \in Seq(HookType) /\ Len(hooks) \in Nat /\ Len(c) \in Nat
    BY <1>5 DEF DispatchInv, DispatchTypes
<1>14. /\ hooks' \in Seq(HookType) /\ Len(hooks') = Len(hooks) + Len(c)
       /\ \A h \in 1..Len(hooks) : hooks'[h] = hooks[h]
       /\ \A h \in 1..Len(hooks') : h > Len(hooks) =>
             h - Len(hooks) \in 1..Len(c) /\ hooks'[h] = c[h - Len(hooks)]
    BY <1>3, <1>5, <1>13
<1>15. \A h \in 1..Len(hooks) : /\ hooks[h].task \in 1..Len(tasks)
                                /\ hooks[h].task # t
    BY <1>1, <1>6 DEF DispatchInv, HookInv
<1>16. \A h \in 1..Len(hooks') : h > Len(hooks) => hooks'[h].task = t /\ b
    <2> SUFFICES ASSUME NEW h \in 1..Len(hooks'), h > Len(hooks)
                 PROVE  hooks'[h].task = t /\ b
        OBVIOUS
    <2>1. h - Len(hooks) \in 1..Len(c) /\ hooks'[h] = c[h - Len(hooks)]
        BY <1>14
    <2>2. c # <<>>
        BY <2>1
    <2> QED
        BY <2>1, <2>2, <1>3, <1>5
<1>17. ASSUME NEW h \in 1..Len(hooks')
       PROVE  /\ hooks'[h].task \in 1..Len(tasks')
              /\ LET z == tasks'[hooks'[h].task]
                 IN  z.at = "done" /\ z.sent # <<>> /\ z.sent[Len(z.sent)] = "hook"
    <2>1. CASE h > Len(hooks)
        BY <2>1, <1>1, <1>9, <1>11, <1>12, <1>16
    <2>2. CASE ~(h > Len(hooks))
        <3>1. h \in 1..Len(hooks)
            BY <2>2, <1>13, <1>14
        <3>2. tasks'[hooks'[h].task] = tasks[hooks[h].task] /\ hooks'[h] = hooks[h]
            BY <3>1, <1>12, <1>14, <1>15
        <3> QED
            BY <3>1, <3>2, <1>12, <1>15 DEF DispatchInv, HookInv
    <2> QED
        BY <2>1, <2>2
<1>18. ASSUME NEW h \in 1..Len(hooks'), NEW i \in 1..Len(hooks'),
              hooks'[h].task = hooks'[i].task, hooks'[h].url = hooks'[i].url
       PROVE  h = i
    <2>1. CASE h > Len(hooks) /\ i > Len(hooks)
        <3>1. /\ h - Len(hooks) \in 1..Len(c) /\ hooks'[h] = c[h - Len(hooks)]
              /\ i - Len(hooks) \in 1..Len(c) /\ hooks'[i] = c[i - Len(hooks)]
            BY <2>1, <1>14
        <3>2. h - Len(hooks) = i - Len(hooks)
            BY <3>1, <1>5, <1>18
        <3> QED
            BY <3>2, <1>13
    <2>2. CASE ~(h > Len(hooks)) /\ ~(i > Len(hooks))
        <3>1. h \in 1..Len(hooks) /\ i \in 1..Len(hooks)
            BY <2>2, <1>13, <1>14
        <3> QED
            BY <3>1, <1>14, <1>18 DEF DispatchInv, HookInv
    <2>3. CASE h > Len(hooks) /\ ~(i > Len(hooks))
        <3>1. i \in 1..Len(hooks)
            BY <2>3, <1>13, <1>14
        <3> QED
            BY <2>3, <3>1, <1>14, <1>15, <1>16, <1>18
    <2>4. CASE ~(h > Len(hooks)) /\ i > Len(hooks)
        <3>1. h \in 1..Len(hooks)
            BY <2>4, <1>13, <1>14
        <3> QED
            BY <2>4, <3>1, <1>14, <1>15, <1>16, <1>18
    <2> QED
        BY <2>1, <2>2, <2>3, <2>4
<1>19. HookInv'
    BY <1>17, <1>18 DEF HookInv
<1> QED
    BY <1>12, <1>14, <1>19 DEF DispatchInv

\* An attempt of a webhook keeps its dispatch and its URL.
LEMMA SendHookKeeps ==
    ASSUME DispatchInv, NEW h \in DOMAIN hooks, sendWebhook(h)
    PROVE  DispatchInv'
<1>1. UNCHANGED <<settings, config, tasks, conn, lost, overlapped, crashed>>
    BY DEF sendWebhook, notTasks, amqp
<1>2. hooks \in Seq(HookType) /\ h \in 1..Len(hooks) /\ hooks[h] \in HookType
    BY DEF DispatchInv, DispatchTypes
<1>3. hooks[h].left > 0 /\ hooks[h].left \in Nat /\ hooks[h].got \in Nat
    BY <1>2 DEF sendWebhook, HookType
<1>4. PICK x : /\ x \in {[hooks[h] EXCEPT !.left = 0, !.got = @ + 1],
                         [hooks[h] EXCEPT !.left = @ - 1, !.got = @ + 1],
                         [hooks[h] EXCEPT !.left = @ - 1]}
               /\ hooks' = [hooks EXCEPT ![h] = x]
    <2>1. /\ [hooks EXCEPT ![h].left = 0, ![h].got = @ + 1]
               = [hooks EXCEPT ![h] = [hooks[h] EXCEPT !.left = 0, !.got = @ + 1]]
          /\ [hooks EXCEPT ![h].left = @ - 1, ![h].got = @ + 1]
               = [hooks EXCEPT ![h] = [hooks[h] EXCEPT !.left = @ - 1, !.got = @ + 1]]
          /\ [hooks EXCEPT ![h].left = @ - 1]
               = [hooks EXCEPT ![h] = [hooks[h] EXCEPT !.left = @ - 1]]
        BY <1>2
    <2>2. \/ hooks' = [hooks EXCEPT ![h].left = 0, ![h].got = @ + 1]
          \/ hooks' = [hooks EXCEPT ![h].left = @ - 1, ![h].got = @ + 1]
          \/ hooks' = [hooks EXCEPT ![h].left = @ - 1]
        BY DEF sendWebhook
    <2>3. \/ hooks' = [hooks EXCEPT ![h] = [hooks[h] EXCEPT !.left = 0, !.got = @ + 1]]
          \/ hooks' = [hooks EXCEPT ![h] = [hooks[h] EXCEPT !.left = @ - 1, !.got = @ + 1]]
          \/ hooks' = [hooks EXCEPT ![h] = [hooks[h] EXCEPT !.left = @ - 1]]
        BY <2>1, <2>2, Zenon
    <2> QED
        BY <2>3, Zenon
<1>5. x \in HookType /\ x.task = hooks[h].task /\ x.url = hooks[h].url
    <2> DEFINE r == hooks[h]
    <2>1. /\ r \in HookType /\ r.left - 1 \in Nat /\ r.got + 1 \in Nat
          /\ \/ x = [r EXCEPT !.left = 0, !.got = @ + 1]
             \/ x = [r EXCEPT !.left = @ - 1, !.got = @ + 1]
             \/ x = [r EXCEPT !.left = @ - 1]
        BY <1>2, <1>3, <1>4
    <2> HIDE DEF r
    <2>2. CASE x = [r EXCEPT !.left = 0, !.got = @ + 1]
        BY <2>1, <2>2 DEF HookType, r
    <2>3. CASE x = [r EXCEPT !.left = @ - 1, !.got = @ + 1]
        BY <2>1, <2>3 DEF HookType, r
    <2>4. CASE x = [r EXCEPT !.left = @ - 1]
        BY <2>1, <2>4 DEF HookType, r
    <2> QED
        BY <2>1, <2>2, <2>3, <2>4
<1>6. /\ hooks' \in Seq(HookType) /\ Len(hooks') = Len(hooks)
      /\ \A i \in 1..Len(hooks) : /\ hooks'[i].task = hooks[i].task
                                  /\ hooks'[i].url = hooks[i].url
    BY <1>2, <1>4, <1>5
<1>7. HookInv'
    BY <1>1, <1>6 DEF DispatchInv, HookInv
<1>8. DispatchTypes' /\ TaskInv' /\ TroubleInv'
    BY <1>1, <1>6 DEF DispatchInv, DispatchTypes, TaskInv, TroubleInv
<1> QED
    BY <1>7, <1>8 DEF DispatchInv

\* What the steps of the dispatches are about.
dispatch == <<settings, config, tasks, hooks, conn, lost, overlapped, crashed>>

\* A step that leaves the dispatches alone.
LEMMA DispatchFrame ==
    ASSUME DispatchInv, UNCHANGED dispatch
    PROVE  DispatchInv'
<1>1. DispatchTypes' /\ TaskInv'
    BY DEF DispatchInv, DispatchTypes, TaskInv, dispatch
<1>2. HookInv' /\ TroubleInv'
    BY DEF DispatchInv, HookInv, TroubleInv, dispatch
<1> QED
    BY <1>1, <1>2 DEF DispatchInv

\* A step that changes at most the channel of the tasks, or disturbs those that
\* are not done.
LEMMA AllTasks ==
    ASSUME DispatchInv, NEW f, tasks' = [t \in DOMAIN tasks |-> f[t]],
           UNCHANGED <<config, hooks, overlapped, crashed>>,
           settings' \in Settings, conn' \in {"nil", "open", "closed"}, lost => lost',
           \A t \in 1..Len(tasks) :
               /\ Fine(settings', config, f[t]) /\ Connected(conn', lost', f[t])
               /\ f[t].at = tasks[t].at /\ f[t].sent = tasks[t].sent
    PROVE  DispatchInv'
<1>1. /\ tasks \in Seq(TaskType) /\ DOMAIN tasks = 1..Len(tasks) /\ Len(tasks) \in Nat
      /\ hooks \in Seq(HookType)
    BY DEF DispatchInv, DispatchTypes
<1>2. \A t \in 1..Len(tasks) : tasks'[t] = f[t] /\ f[t] \in TaskType
    BY <1>1 DEF Fine
<1>3. tasks' \in Seq(TaskType) /\ Len(tasks') = Len(tasks)
    BY <1>1, <1>2
<1>4. DispatchTypes'
    BY <1>1, <1>3 DEF DispatchTypes
<1>5. TaskInv'
    BY <1>2, <1>3 DEF TaskInv, Fine
<1>6. HookInv'
    BY <1>2, <1>3 DEF DispatchInv, HookInv
<1>7. TroubleInv'
    BY <1>2, <1>3, SMTT(60) DEF DispatchInv, TroubleInv
<1> QED
    BY <1>4, <1>5, <1>6, <1>7 DEF DispatchInv

\* The connection breaks: the channels of the tasks are dead.
LEMMA DropKeeps ==
    ASSUME DispatchInv, NEW up, Drop(up)
    PROVE  DispatchInv'
<1> DEFINE g(t) == IF tasks[t].channel = "live" THEN [tasks[t] EXCEPT !.channel = "dead"]
                   ELSE tasks[t]
           f == [t \in DOMAIN tasks |-> g(t)]
<1>1. /\ UNCHANGED <<config, settings, hooks, overlapped, crashed>> /\ lost' = TRUE
      /\ tasks' = f /\ conn' \in {conn, "closed"}
    BY DEF Drop, notTasks
<1>2. settings' \in Settings /\ conn' \in {"nil", "open", "closed"}
      /\ DOMAIN tasks = 1..Len(tasks)
    BY <1>1 DEF DispatchInv, DispatchTypes
<1>3. ASSUME NEW t \in 1..Len(tasks)
      PROVE  /\ Fine(settings, config, g(t))
             /\ g(t).at = tasks[t].at /\ g(t).sent = tasks[t].sent
    <2>1. Fine(settings, config, tasks[t]) /\ tasks[t] \in TaskType
        BY <1>2, TaskFacts
    <2>2. /\ g(t) \in TaskType /\ g(t).at = tasks[t].at /\ g(t).sent = tasks[t].sent
          /\ g(t).kind = tasks[t].kind /\ g(t).event = tasks[t].event
          /\ g(t).failed = tasks[t].failed /\ g(t).subs = tasks[t].subs
          /\ g(t).want = tasks[t].want /\ g(t).disturbed = tasks[t].disturbed
        BY <2>1 DEF TaskType
    <2> HIDE DEF g
    <2>3. Lane(g(t)) /\ Entitled(g(t))
        BY <2>1, <2>2 DEF Fine, Lane, Entitled
    <2>4. Delivered(settings, config, g(t))
        BY <2>1, <2>2 DEF Fine, Delivered, Undisturbed
    <2> QED
        BY <2>2, <2>3, <2>4 DEF Fine
<1>4. \A x : Connected(conn', lost', x)
    BY <1>1 DEF Connected
<1>5. \A t \in 1..Len(tasks) : f[t] = g(t)
    BY <1>2
<1>6. tasks' = [t \in DOMAIN tasks |-> f[t]]
    BY <1>1
<1> HIDE DEF f, g
<1>7. \A t \in 1..Len(tasks) :
         /\ Fine(settings', config, f[t]) /\ Connected(conn', lost', f[t])
         /\ f[t].at = tasks[t].at /\ f[t].sent = tasks[t].sent
    BY <1>1, <1>3, <1>4, <1>5
<1>8. lost => lost'
    BY <1>1
<1> QED
    BY <1>1, <1>2, <1>6, <1>7, <1>8, AllTasks

\* The settings change: the dispatches under way are disturbed.
LEMMA ConfigureKeeps ==
    ASSUME DispatchInv, NEW s \in Settings, Configure(s)
    PROVE  DispatchInv'
<1> DEFINE g(t) == IF tasks[t].at = "done" THEN tasks[t]
                   ELSE [tasks[t] EXCEPT !.disturbed = TRUE]
           f == [t \in DOMAIN tasks |-> g(t)]
<1>1. /\ UNCHANGED <<config, hooks, overlapped, crashed, conn, lost>>
      /\ tasks' = f /\ settings' = s
    BY DEF Configure, amqp
<1>2. conn' \in {"nil", "open", "closed"} /\ DOMAIN tasks = 1..Len(tasks)
    BY <1>1 DEF DispatchInv, DispatchTypes
<1>3. ASSUME NEW t \in 1..Len(tasks)
      PROVE  /\ Fine(s, config, g(t)) /\ Connected(conn, lost, g(t))
             /\ g(t).at = tasks[t].at /\ g(t).sent = tasks[t].sent
    <2>1. /\ Fine(settings, config, tasks[t]) /\ tasks[t] \in TaskType
          /\ Connected(conn, lost, tasks[t])
        BY <1>2, TaskFacts
    <2>2. /\ g(t) \in TaskType /\ g(t).at = tasks[t].at /\ g(t).sent = tasks[t].sent
          /\ g(t).kind = tasks[t].kind /\ g(t).event = tasks[t].event
          /\ g(t).failed = tasks[t].failed /\ g(t).subs = tasks[t].subs
          /\ g(t).want = tasks[t].want /\ g(t).channel = tasks[t].channel
          /\ tasks[t].at = "done" => g(t) = tasks[t]
          /\ tasks[t].at # "done" => g(t).disturbed
        BY <2>1 DEF TaskType
    <2> HIDE DEF g
    <2>3. Lane(g(t)) /\ Entitled(g(t))
        BY <2>1, <2>2 DEF Fine, Lane, Entitled
    <2>4. Delivered(s, config, g(t))
        <3>1. CASE tasks[t].at # "done"
            BY <2>2, <3>1 DEF Delivered, Undisturbed
        <3>2. CASE tasks[t].at = "done"
            BY <2>1, <2>2, <3>2 DEF Fine, Delivered
        <3> QED
            BY <3>1, <3>2
    <2>5. Connected(conn, lost, g(t))
        BY <2>1, <2>2 DEF Connected
    <2> QED
        BY <2>2, <2>3, <2>4, <2>5 DEF Fine
<1>4. \A t \in 1..Len(tasks) : f[t] = g(t)
    BY <1>2
<1>5. tasks' = [t \in DOMAIN tasks |-> f[t]]
    BY <1>1
<1> HIDE DEF f, g
<1>6. \A t \in 1..Len(tasks) :
         /\ Fine(settings', config, f[t]) /\ Connected(conn', lost', f[t])
         /\ f[t].at = tasks[t].at /\ f[t].sent = tasks[t].sent
    BY <1>1, <1>3, <1>4
<1>7. lost => lost'
    BY <1>1
<1> QED
    BY <1>1, <1>2, <1>5, <1>6, <1>7, AllTasks

-----------------------------------------------------------------------------
(* New dispatches.                                                         *)

Fresh(x) ==
    /\ x \in TaskType /\ x.at = "start" /\ x.sent = <<>> /\ x.failed = None
    /\ x.want = {} /\ x.channel = "none"

\* The tasks b are the tasks a and fresh ones.
Grown(a, b) ==
    /\ b \in Seq(TaskType) /\ Len(a) <= Len(b)
    /\ \A i \in 1..Len(a) : b[i] = a[i]
    /\ \A i \in 1..Len(b) : i > Len(a) => Fresh(b[i])

\* A fresh task is fine.
LEMMA FreshFine ==
    ASSUME NEW st, NEW cf, NEW c, NEW lst, NEW x, Fresh(x)
    PROVE  Fine(st, cf, x) /\ Connected(c, lst, x)
<1>1. Lane(x)
    BY DEF Fresh, Lane, InOrder, Below
<1>2. Entitled(x)
    BY DEF Fresh, Entitled
<1>3. Delivered(st, cf, x)
    BY DEF Fresh, Delivered
<1>4. Connected(c, lst, x)
    BY DEF Fresh, Connected
<1> QED
    BY <1>1, <1>2, <1>3, <1>4 DEF Fine, Fresh

\* A task begins fresh.
LEMMA TaskIsFresh ==
    ASSUME NEW kind \in {"instance", "global"}, NEW e \in EventNames
    PROVE  Fresh(Task(kind, e))
<1> DEFINE x(p) == [kind |-> kind, event |-> e, at |-> "start", tries |-> 0, dials |-> 0,
                    channel |-> "none", sent |-> p, failed |-> None, subs |-> {},
                    want |-> {}, disturbed |-> FALSE]
<1>1. ASSUME NEW p \in Seq(SinkSet)
      PROVE  /\ x(p) \in TaskType /\ x(p).at = "start" /\ x(p).sent = p /\ x(p).failed = None
             /\ x(p).want = {} /\ x(p).channel = "none"
    BY DEF TaskType, Steps
<1>2. Task(kind, e) = x(<<>>)
    BY DEF Task
<1>3. <<>> \in Seq(SinkSet)
    OBVIOUS
<1> HIDE DEF x
<1>4. Fresh(x(<<>>))
    BY <1>1, <1>3 DEF Fresh
<1> QED
    BY <1>2, <1>4

\* A dispatch adds fresh tasks.
LEMMA DispatchGrows ==
    ASSUME NEW a \in Seq(TaskType), NEW e \in EventNames
    PROVE  Grown(a, a \o Dispatches(e))
<1> DEFINE i1 == Task("instance", e)
           g == Task("global", e)
<1>1. Fresh(i1) /\ Fresh(g)
    BY TaskIsFresh
<1>2. i1 \in TaskType /\ g \in TaskType
    BY <1>1 DEF Fresh
<1>3. Dispatches(e) = <<i1>> \o <<g>> \/ Dispatches(e) = <<i1>> \o <<>>
    BY DEF Dispatches
<1> HIDE DEF i1, g
<1>4. ASSUME NEW d \in Seq(TaskType), \A j \in 1..Len(d) : Fresh(d[j])
      PROVE  Grown(a, a \o d)
    <2>1. /\ a \o d \in Seq(TaskType) /\ Len(a \o d) = Len(a) + Len(d)
          /\ Len(a) \in Nat /\ Len(d) \in Nat
          /\ \A i \in 1..Len(a) : (a \o d)[i] = a[i]
          /\ \A i \in 1..Len(a \o d) : i > Len(a) =>
                i - Len(a) \in 1..Len(d) /\ (a \o d)[i] = d[i - Len(a)]
        BY <1>4
    <2> QED
        BY <1>4, <2>1 DEF Grown
<1> DEFINE two == <<i1>> \o <<g>>
           one == <<i1>> \o <<>>
<1>5. /\ two \in Seq(TaskType) /\ Len(two) = 2 /\ two[1] = i1 /\ two[2] = g
      /\ one \in Seq(TaskType) /\ Len(one) = 1 /\ one[1] = i1
    BY <1>2
<1> HIDE DEF two, one
<1>6. /\ \A j \in 1..2 : j = 1 \/ j = 2
      /\ \A j \in 1..1 : j = 1
    OBVIOUS
<1>7. /\ \A j \in 1..Len(two) : Fresh(two[j])
      /\ \A j \in 1..Len(one) : Fresh(one[j])
    BY <1>1, <1>5, <1>6
<1>8. Grown(a, a \o two) /\ Grown(a, a \o one)
    BY <1>4, <1>5, <1>7
<1> QED
    BY <1>3, <1>8 DEF two, one

\* More tasks of the same kind.
LEMMA GrownMore ==
    ASSUME NEW a \in Seq(TaskType), NEW b, NEW c, Grown(a, b), Grown(b, c)
    PROVE  Grown(a, c)
<1>1. /\ b \in Seq(TaskType) /\ c \in Seq(TaskType)
      /\ Len(a) \in Nat /\ Len(b) \in Nat /\ Len(c) \in Nat
    BY DEF Grown
<1>2. Len(a) <= Len(c) /\ \A i \in 1..Len(a) : c[i] = a[i]
    BY <1>1 DEF Grown
<1>3. ASSUME NEW i \in 1..Len(c), i > Len(a)
      PROVE  Fresh(c[i])
    <2>1. CASE i > Len(b)
        BY <2>1 DEF Grown
    <2>2. CASE ~(i > Len(b))
        <3>1. i \in 1..Len(b) /\ c[i] = b[i]
            BY <1>1, <2>2 DEF Grown
        <3> QED
            BY <3>1, <1>3 DEF Grown
    <2> QED
        BY <2>1, <2>2
<1> QED
    BY <1>1, <1>2, <1>3 DEF Grown

\* New tasks keep the dispatches.
LEMMA GrowthKeeps ==
    ASSUME DispatchInv, NEW ts, Grown(tasks, ts), SetTasks(ts),
           UNCHANGED <<settings, config, hooks, conn, lost, crashed>>
    PROVE  DispatchInv'
<1>1. /\ tasks' = ts /\ tasks \in Seq(TaskType) /\ ts \in Seq(TaskType)
      /\ Len(tasks) \in Nat /\ Len(ts) \in Nat
    BY DEF SetTasks, DispatchInv, DispatchTypes, Grown
<1>2. ASSUME NEW t \in 1..Len(ts)
      PROVE  Fine(settings, config, ts[t]) /\ Connected(conn, lost, ts[t])
    <2>1. CASE t > Len(tasks)
        BY <2>1, FreshFine DEF Grown
    <2>2. CASE ~(t > Len(tasks))
        <3>1. t \in 1..Len(tasks) /\ ts[t] = tasks[t] /\ t \in DOMAIN tasks
            BY <2>2, <1>1 DEF Grown
        <3> QED
            BY <3>1, TaskFacts
    <2> QED
        BY <2>1, <2>2
<1>3. DispatchTypes'
    BY <1>1 DEF DispatchInv, DispatchTypes
<1>4. TaskInv'
    BY <1>1, <1>2 DEF TaskInv, Fine
<1>5. HookInv'
    <2>1. \A h \in 1..Len(hooks) : /\ hooks[h].task \in 1..Len(ts)
                                   /\ ts[hooks[h].task] = tasks[hooks[h].task]
        BY <1>1 DEF DispatchInv, HookInv, Grown
    <2> QED
        BY <1>1, <2>1 DEF DispatchInv, HookInv
<1>6. overlapped' = (overlapped \/ Cardinality(UnderWay(ts)) > 1)
    BY DEF SetTasks
<1>7. \A u, v \in 1..Len(ts) :
         u # v /\ ts[u].at # "done" /\ ts[v].at # "done" => overlapped'
    <2>1. \A u, v \in 1..Len(ts) :
             u # v /\ ts[u].at # "done" /\ ts[v].at # "done" => Cardinality(UnderWay(ts)) > 1
        BY <1>1, TwoUnderWay
    <2> QED
        BY <1>6, <2>1, Zenon
<1>8. crashed' => overlapped' \/ lost'
    <2>1. crashed => overlapped \/ lost
        BY DEF DispatchInv, TroubleInv
    <2>2. overlapped => overlapped'
        BY <1>6, Zenon
    <2> QED
        BY <2>1, <2>2
<1>9. TroubleInv'
    BY <1>1, <1>2, <1>7, <1>8 DEF TroubleInv
<1> QED
    BY <1>3, <1>4, <1>5, <1>9 DEF DispatchInv

\* The event handler keeps the dispatches.
LEMMA HandlerKeeps ==
    ASSUME DispatchInv, NEW x \in Inputs, myEventHandler(x)
    PROVE  DispatchInv'
<1>1. UNCHANGED <<settings, config, hooks, conn, lost, crashed>>
    BY DEF myEventHandler, amqp
<1>2. PICK o \in Outcomes(x) :
         SetTasks(tasks \o (IF o.times > 0 THEN Dispatches(o.event) ELSE <<>>)
                        \o (IF o.times > 1 THEN Dispatches(o.event) ELSE <<>>))
    BY Zenon DEF myEventHandler
<1>3. GoodOutcome(o)
    BY OutcomesAreGood
<1>4. tasks \in Seq(TaskType)
    BY DEF DispatchInv, DispatchTypes
<1> DEFINE a == tasks \o (IF o.times > 0 THEN Dispatches(o.event) ELSE <<>>)
           b == a \o (IF o.times > 1 THEN Dispatches(o.event) ELSE <<>>)
<1>5. Grown(tasks, tasks)
    BY <1>4 DEF Grown
<1>6. Grown(tasks, a)
    <2>1. CASE o.times > 0
        <3>1. a = tasks \o Dispatches(o.event) /\ o.event \in EventNames
            BY <2>1, <1>3 DEF GoodOutcome
        <3> HIDE DEF a
        <3> QED
            BY <3>1, <1>4, DispatchGrows
    <2>2. CASE ~(o.times > 0)
        <3>1. a = tasks
            BY <2>2, <1>4
        <3> HIDE DEF a
        <3> QED
            BY <3>1, <1>5
    <2> QED
        BY <2>1, <2>2
<1>7. a \in Seq(TaskType)
    BY <1>6 DEF Grown
<1> HIDE DEF a
<1>8. Grown(tasks, b)
    <2>1. CASE o.times > 1
        <3>1. o.times > 0
            BY <2>1, <1>3 DEF GoodOutcome
        <3>2. b = a \o Dispatches(o.event) /\ o.event \in EventNames
            BY <2>1, <3>1, <1>3 DEF GoodOutcome
        <3> HIDE DEF b
        <3>3. Grown(a, b)
            BY <3>2, <1>7, DispatchGrows
        <3> QED
            BY <3>3, <1>4, <1>6, GrownMore
    <2>2. CASE ~(o.times > 1)
        <3>1. b = a
            BY <2>2, <1>7
        <3> HIDE DEF b
        <3> QED
            BY <3>1, <1>6
    <2> QED
        BY <2>1, <2>2
<1>9. SetTasks(b)
    BY <1>2 DEF a
<1> HIDE DEF b
<1> QED
    BY <1>1, <1>8, <1>9, GrowthKeeps

\* An announced event keeps the dispatches.
LEMMA AnnounceKeeps ==
    ASSUME DispatchInv, NEW e \in Announced, Announce(e)
    PROVE  DispatchInv'
<1>1. UNCHANGED <<settings, config, hooks, conn, lost, crashed>>
    BY DEF Announce, amqp
<1>2. e \in EventNames /\ tasks \in Seq(TaskType)
    BY DEF EventNames, DispatchInv, DispatchTypes
<1>3. Grown(tasks, tasks \o Dispatches(e))
    BY <1>2, DispatchGrows
<1>4. SetTasks(tasks \o Dispatches(e))
    BY DEF Announce
<1> QED
    BY <1>1, <1>3, <1>4, GrowthKeeps

-----------------------------------------------------------------------------
(* The dispatches: all steps.                                              *)

\* The invariant of the dispatches holds at first.
LEMMA DispatchInit ==
    ASSUME Init
    PROVE  DispatchInv
<1>1. /\ settings \in Settings /\ tasks = <<>> /\ hooks = <<>> /\ crashed = FALSE
      /\ conn \in {"nil", "open", "closed"}
    BY DEF Init
<1>2. DispatchTypes
    BY <1>1 DEF DispatchTypes
<1>3. TaskInv /\ HookInv
    BY <1>1 DEF TaskInv, HookInv
<1>4. TroubleInv
    BY <1>1 DEF TroubleInv
<1> QED
    BY <1>2, <1>3, <1>4 DEF DispatchInv

\* Every step keeps the dispatches.
LEMMA DispatchStep ==
    ASSUME DispatchInv, [Next]_vars
    PROVE  DispatchInv'
<1>1. CASE UNCHANGED dispatch
    BY <1>1, DispatchFrame
<1>2. CASE UNCHANGED vars
    BY <1>2, DispatchFrame DEF vars, dispatch, amqp
<1>3. ASSUME NEW life, recordRuntimeObservation(life)
      PROVE  UNCHANGED dispatch
    BY <1>3 DEF recordRuntimeObservation, dispatch, amqp
<1>4. ASSUME NEW map, Forget(map)
      PROVE  UNCHANGED dispatch
    BY <1>4 DEF Forget, dispatch, amqp
<1>5. ASSUME NEW l, Load(l) \/ UpsertState(l) \/ AppendEvent(l)
      PROVE  UNCHANGED dispatch
    <2>1. UNCHANGED notListening
        BY <1>5, Zenon DEF Load, UpsertState, AppendEvent
    <2> QED
        BY <2>1 DEF notListening, dispatch, amqp
<1>6. ASSUME NEW t \in DOMAIN tasks,
             \/ CallWebhook(t) \/ SendToGlobalQueues(t) \/ Produce(t) \/ Reconnect(t)
             \/ Channel(t) \/ Publish(t) \/ Rechannel(t) \/ NatsProduce(t)
             \/ SocketProduce(t) \/ SocketWrite(t) \/ HookProduce(t)
      PROVE  DispatchInv'
    BY <1>6, CallWebhookKeeps, GlobalKeeps, ProduceKeeps, ReconnectKeeps, ChannelKeeps,
       PublishKeeps, RechannelKeeps, NatsKeeps, SocketProduceKeeps, SocketWriteKeeps, HookKeeps
<1>7. Recover => UNCHANGED dispatch
    BY DEF Recover, notTasks, dispatch
<1>8. ASSUME NEW c, NEW as, ServeWs(c, as) \/ PeerCloses(c) \/ ReaderEnds(c)
      PROVE  UNCHANGED dispatch
    <2>1. UNCHANGED <<notTasks, tasks, hooks, amqp, overlapped, crashed>>
        BY <1>8, Zenon DEF ServeWs, PeerCloses, ReaderEnds
    <2> QED
        BY <2>1 DEF notTasks, dispatch, amqp
<1>9. ASSUME NEW x \in Inputs, myEventHandler(x)
      PROVE  DispatchInv'
    BY <1>9, HandlerKeeps
<1>10. ASSUME NEW e \in Announced, Announce(e)
       PROVE  DispatchInv'
    BY <1>10, AnnounceKeeps
<1>11. ASSUME NEW up, Drop(up)
       PROVE  DispatchInv'
    BY <1>11, DropKeeps
<1>12. ASSUME NEW h \in DOMAIN hooks, sendWebhook(h)
       PROVE  DispatchInv'
    BY <1>12, SendHookKeeps
<1>13. ASSUME NEW s \in Settings, Configure(s)
       PROVE  DispatchInv'
    BY <1>13, ConfigureKeeps
<1>14. CASE Next
    BY <1>1, <1>3, <1>4, <1>5, <1>6, <1>7, <1>8, <1>9, <1>10, <1>11, <1>12, <1>13, <1>14, Zenon
    DEF Next, Step
<1> QED
    BY <1>2, <1>14

\* The inductive invariant of the dispatches.
THEOREM DispatchInvariant == Spec => []DispatchInv
<1>1. Init => DispatchInv
    BY DispatchInit
<1>2. DispatchInv /\ [Next]_vars => DispatchInv'
    BY DispatchStep
<1> QED
    BY <1>1, <1>2, PTL DEF Spec

\* The sinks of a list in the order of their places are in the order of Sinks.
LEMMA InOrderIsOrdered ==
    ASSUME NEW s \in Seq(SinkSet), InOrder(s)
    PROVE  Ordered(s)
<1> SUFFICES ASSUME NEW i \in 1..Len(s), NEW j \in 1..Len(s), i < j
             PROVE  \E k, m \in DOMAIN Sinks : k < m /\ Sinks[k] = s[i] /\ Sinks[m] = s[j]
    BY DEF Ordered
<1>1. s[i] \in SinkSet /\ s[j] \in SinkSet
    OBVIOUS
<1>2. Rank(s[i]) < Rank(s[j])
    BY DEF InOrder
<1> QED
    BY <1>1, <1>2, RankFacts, Zenon

\* An event reaches an instance's sinks in their order and each once, only
\* while the instance is subscribed; an undisturbed dispatch reaches every sink
\* that publishes; a webhook is called once for each URL (CallWebhook,
\* sendToQueueOrWebhook, rabbitMQProducer.Produce, webhookProducer.Produce).
THEOREM FanoutIsInOrder == Spec => []FanoutInOrder
<1>1. DispatchInv => FanoutInOrder
    <2> SUFFICES ASSUME DispatchInv
                 PROVE  FanoutInOrder
        OBVIOUS
    <2>1. ASSUME NEW t \in DOMAIN tasks
          PROVE  LET x == tasks[t]
                 IN  /\ Ordered(x.sent)
                     /\ x.kind = "instance" /\ x.sent # <<>> =>
                           "ALL" \in x.subs \/ GroupsOf(x.event) \cap x.subs # {}
                     /\ x.kind = "instance" /\ x.failed # None =>
                           Ordered(Append(x.sent, x.failed))
                     /\ (/\ x.kind = "instance" /\ x.at = "done" /\ x.failed = None
                         /\ ~x.disturbed) =>
                           Reached(x) \ {"socket"} = x.want \ {"socket"}
        <3> DEFINE x == tasks[t]
        <3>1. /\ Fine(settings, config, x) /\ x \in TaskType
              /\ x.sent \in Seq(SinkSet) /\ Len(x.sent) \in Nat
              /\ x.failed \in SinkSet \cup {None} /\ x.want \in SUBSET SinkSet
            BY TaskFacts DEF TaskType
        <3> HIDE DEF x
        <3>2. Ordered(x.sent)
            BY <3>1, InOrderIsOrdered DEF Fine, Lane
        <3>3. x.kind = "instance" /\ x.sent # <<>> =>
                 "ALL" \in x.subs \/ GroupsOf(x.event) \cap x.subs # {}
            BY <3>1 DEF Fine, Entitled
        <3>4. ASSUME x.kind = "instance", x.failed # None
              PROVE  Ordered(Append(x.sent, x.failed))
            <4> DEFINE s == Append(x.sent, x.failed)
                       n == Len(x.sent) + 1
            <4>1. /\ s \in Seq(SinkSet) /\ Len(s) = n /\ s[n] = x.failed
                  /\ \A i \in 1..Len(x.sent) : s[i] = x.sent[i]
                BY <3>1, <3>4
            <4>2. InOrder(x.sent) /\ Below(x.sent, Rank(x.failed))
                BY <3>1, <3>4 DEF Fine, Lane
            <4> HIDE DEF s
            <4>3. InOrder(s)
                <5> SUFFICES ASSUME NEW i \in 1..n, NEW j \in 1..n, i < j
                             PROVE  Rank(s[i]) < Rank(s[j])
                    BY <4>1 DEF InOrder
                <5>1. i \in 1..Len(x.sent) /\ s[i] = x.sent[i]
                    BY <3>1, <4>1
                <5>2. CASE j = n
                    BY <4>1, <4>2, <5>1, <5>2 DEF Below
                <5>3. CASE j # n
                    <6>1. j \in 1..Len(x.sent) /\ s[j] = x.sent[j]
                        BY <3>1, <4>1, <5>3
                    <6> QED
                        BY <4>2, <5>1, <6>1 DEF InOrder
                <5> QED
                    BY <5>2, <5>3
            <4>4. Ordered(s)
                BY <4>1, <4>3, InOrderIsOrdered
            <4> QED
                BY <4>4 DEF s
        <3>5. ASSUME x.kind = "instance", x.at = "done", x.failed = None, ~x.disturbed
              PROVE  Reached(x) \ {"socket"} = x.want \ {"socket"}
            <4>1. \A k \in SinkSet \ {"socket"} :
                     Has(x.sent, k) <=> k \in x.want /\ Rank(k) < Phase(x.at)
                BY <3>1, <3>5 DEF Fine, Delivered, Undisturbed
            <4>2. Phase(x.at) = 5 /\ \A k \in SinkSet : Rank(k) < 5
                BY <3>5, StepFacts, RankRange
            <4>3. \A k \in SinkSet \ {"socket"} : Has(x.sent, k) <=> k \in x.want
                BY <4>1, <4>2
            <4>4. \A k : k \in Reached(x) <=> Has(x.sent, k)
                BY <3>1 DEF Reached, Has
            <4>5. Reached(x) \subseteq SinkSet
                BY <3>1 DEF Reached
            <4> QED
                BY <3>1, <4>3, <4>4, <4>5
        <3> QED
            BY <3>2, <3>3, <3>4, <3>5 DEF x
    <2>2. ASSUME NEW h \in DOMAIN hooks, NEW i \in DOMAIN hooks
          PROVE  /\ tasks[hooks[h].task].sent # <<>>
                 /\ tasks[hooks[h].task].sent[Len(tasks[hooks[h].task].sent)] = "hook"
                 /\ hooks[h].task = hooks[i].task /\ hooks[h].url = hooks[i].url => h = i
        <3>1. h \in 1..Len(hooks) /\ i \in 1..Len(hooks)
            BY DEF DispatchInv, DispatchTypes
        <3> QED
            BY <3>1 DEF DispatchInv, HookInv
    <2> QED
        BY <2>1, <2>2 DEF FanoutInOrder
<1> QED
    BY <1>1, DispatchInvariant, PTL

\* The process panics only after two dispatches were under way at once, or the
\* AMQP connection was lost (ensureConnection, publishWithRetry,
\* websocketProducer.Produce).
THEOREM CrashesNeedTrouble == Spec => []CrashNeedsTrouble
<1>1. DispatchInv => CrashNeedsTrouble
    BY DEF DispatchInv, TroubleInv, CrashNeedsTrouble
<1> QED
    BY <1>1, DispatchInvariant, PTL

=============================================================================
