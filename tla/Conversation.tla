---------------------------- MODULE Conversation ----------------------------
(***************************************************************************)
(* The conversation history of one instance and everything that writes to  *)
(* it: the sends of internal/instance (direct and queued), the receipts    *)
(* that pkg/sendstatus matches with queued sends, and the messages of      *)
(* contacts that pkg/chathistory hands to a pool of workers.               *)
(*                                                                         *)
(* A send is a request with the list of the steps it has still to make.    *)
(* It makes at most one message, whose id is generated once and kept over  *)
(* the attempts, so the message is named after the request, and so is the  *)
(* job of a queued send.  The WhatsApp client is the flag session, what    *)
(* waitForActiveClient sees; Session models how it comes up.  A call that  *)
(* may fail for reasons outside this code fails or not at any time.        *)
(***************************************************************************)
EXTENDS Integers, Sequences

CONSTANTS
    Sends,          \* requests to send, and their messages and jobs
    Inbound,        \* messages that contacts write
    Operations,     \* operations that requests ask for
    Times,          \* timestamps of receipts, 0 stands for NULL
    Workers,        \* dispatch workers
    QueueSize,      \* dispatchQueueSize
    CheckUserExists,\* CHECK_USER_EXISTS
    MaxRestarts,    \* bound: restarts of the process
    None

OperationNames ==
    {"queue", "text", "media", "audio", "reaction", "poll", "contact",
     "markRead", "checkNumbers"}

ASSUME ConversationAssumption ==
    /\ Sends \cap Inbound = {}
    /\ None \notin Sends \cup Inbound
    /\ Operations \subseteq OperationNames
    /\ Times \subseteq Nat \ {0}
    /\ QueueSize \in Nat \ {0}
    /\ MaxRestarts \in Nat
    /\ CheckUserExists \in BOOLEAN

VARIABLES
    \* The sends.
    session,    \* the client is connected and logged in
    lock,       \* who holds the instance's send lock
    task,       \* send -> its operation, steps to make, attempts made
    accepted,   \* messages that reached WhatsApp
    \* pkg/sendstatus, in memory.
    jobs,       \* job -> status and receipt timestamps
    index,      \* messages in messageIndex
    updates,    \* goroutines about to run the receipt listener
    processed,  \* processedMessages of the event handler
    \* pkg/chathistory, in memory.
    queue,      \* dispatchQueue
    held,       \* worker -> message it is storing
    \* Database.
    rows,       \* message -> its row of conversation_messages
    warned,     \* messages with a failed write, which the log reports
    restarts

sendVars     == <<session, lock, task, accepted>>
registryVars == <<jobs, index, updates, processed>>
dispatchVars == <<queue, held>>
vars == <<sendVars, registryVars, dispatchVars, rows, warned, restarts>>

MaxAttempts == 3
Messages == Sends \cup Inbound
Stamps == Times \cup {0}
Later(a, b) == IF a > b THEN a ELSE b

(***************************************************************************)
(* The operations as lists of steps.                                       *)
(***************************************************************************)
RuntimeSendText == <<"link", "lock", "ensure", "recipient", "send">>
SendWAMessage == <<"link", "lock", "ensure", "recipient", "build", "send">>
RuntimeSendMedia ==
    <<"link", "lock", "ensure", "recipient", "download", "build", "upload", "sendOnce">>

LegacyRuntimeFor == <<"resolve">>
SendText == <<"resolve">> \o RuntimeSendText \o <<"persist">>
SendMedia == <<"resolve">> \o RuntimeSendMedia \o <<"persist">>
SendAudio == <<"resolve">> \o RuntimeSendMedia \o <<"persist">>
SendReaction == LegacyRuntimeFor \o SendWAMessage
SendContact == LegacyRuntimeFor \o SendWAMessage
SendPoll ==
    LegacyRuntimeFor \o <<"link", "lock", "ensure", "recipient", "pollClient", "send">>
MarkRead == <<"resolve", "link", "ensure", "call">>
CheckNumbers == LegacyRuntimeFor \o <<"link", "ensure", "call">>

\* Variant: the job is stored as sent before the row is written.
StoreThenPersist ==
    <<"running", "resolve">> \o RuntimeSendText \o <<"sent", "persist">>

\* QueueSendText: the goroutine after the job was stored as queued.
QueueSendText == <<"running">> \o SendText \o <<"sent">>

Program ==
    [queue |-> QueueSendText, text |-> SendText, media |-> SendMedia,
     audio |-> SendAudio, reaction |-> SendReaction, poll |-> SendPoll,
     contact |-> SendContact, markRead |-> MarkRead,
     checkNumbers |-> CheckNumbers]

Steps == {"running", "resolve", "link", "lock", "ensure", "recipient", "download",
          "build", "upload", "pollClient", "call", "send", "sendOnce", "refresh",
          "persist", "sent", "failed"}

Tasks == [op : OperationNames \cup {"none"}, todo : Seq(Steps), attempt : 0 .. MaxAttempts - 1]
Unused == [op |-> "none", todo |-> <<>>, attempt |-> 0]

JobStatus == {"absent", "queued", "running", "sent", "failed"}
Job == [status : JobStatus, deliveredAt : Stamps, readAt : Stamps]
NoJob == [status |-> "absent", deliveredAt |-> 0, readAt |-> 0]

RowStatus == {"absent", "sent", "delivered", "read", "received"}
Row == [status : RowStatus, deliveredAt : Stamps, readAt : Stamps]
NoRow == [status |-> "absent", deliveredAt |-> 0, readAt |-> 0]

States == {"delivered", "read"}
Update == [message : Sends, state : States, at : Times]

\* DeliveryStatus: what the status of a job is reported as.
DeliveryStatus(j) ==
    CASE j.readAt # 0 -> "read"
      [] j.readAt = 0 /\ j.deliveredAt # 0 -> "delivered"
      [] OTHER -> j.status

Init ==
    /\ session \in BOOLEAN
    /\ lock = None
    /\ task = [s \in Sends |-> Unused]
    /\ accepted = {}
    /\ jobs = [s \in Sends |-> NoJob]
    /\ index = {} /\ updates = {} /\ processed = {}
    /\ queue = <<>>
    /\ held = [w \in Workers |-> None]
    /\ rows = [m \in Messages |-> NoRow]
    /\ warned = {}
    /\ restarts = 0

(***************************************************************************)
(* Sends.                                                                  *)
(***************************************************************************)
\* mergeStatus: a stored job takes the new status and keeps what the new
\* one leaves out, the receipts included.
MergeStatus(existing, status) == [existing EXCEPT !.status = status]

\* Store: the job, and the message in the index once its id is known.
Store(s, status) ==
    /\ jobs' = [jobs EXCEPT ![s] = MergeStatus(@, status)]
    /\ index' = IF status = "sent" THEN index \cup {s} ELSE index
    /\ UNCHANGED <<updates, processed>>

\* A request comes in; a queued one is given a job and a goroutine.
Begin(s) ==
    /\ task[s] = Unused
    /\ \E op \in Operations :
          /\ task' = [task EXCEPT ![s] = [@ EXCEPT !.op = op, !.todo = Program[op]]]
          /\ IF op = "queue" THEN Store(s, "queued") ELSE UNCHANGED registryVars
    /\ UNCHANGED <<session, lock, accepted, dispatchVars, rows, warned, restarts>>

At(s, step) == task[s].todo # <<>> /\ Head(task[s].todo) = step

Continue(s) == task' = [task EXCEPT ![s].todo = Tail(@)]

\* Variant: an error returns without the unlock.
ReturnLocked(s) ==
    /\ task' = [task EXCEPT ![s].todo = IF task[s].op = "queue" THEN <<"failed">> ELSE <<>>]
    /\ UNCHANGED lock

\* An error: the deferred unlock, then the caller's error path.
Return(s) ==
    /\ task' = [task EXCEPT ![s].todo = IF task[s].op = "queue" THEN <<"failed">> ELSE <<>>]
    /\ lock' = IF lock = s THEN None ELSE lock

\* Steps of which a send only sees whether they succeed: the lookup and the
\* validation, the legacy instance, the download, the conversion, the upload.
Fallible == {"resolve", "link", "download", "build", "upload", "call"}
Proceed(s) ==
    /\ \E step \in Fallible : At(s, step)
    /\ \/ Continue(s) /\ UNCHANGED lock
       \/ Return(s)
    /\ UNCHANGED <<session, accepted, registryVars, dispatchVars, rows, warned, restarts>>

Lock(s) ==
    /\ At(s, "lock")
    /\ lock = None
    /\ lock' = s
    /\ Continue(s)
    /\ UNCHANGED <<session, accepted, registryVars, dispatchVars, rows, warned, restarts>>

WaitForActiveClient == session

\* The rungs a send climbs until the client is active: each may bring it up.
ReconnectExistingClient == session' \in BOOLEAN
HardReconnectClient == session' \in BOOLEAN

EnsureConnectedClient ==
    IF WaitForActiveClient
       THEN UNCHANGED session
       ELSE ReconnectExistingClient \/ HardReconnectClient

Ensure(s) ==
    /\ At(s, "ensure")
    /\ EnsureConnectedClient
    /\ IF session' THEN Continue(s) /\ UNCHANGED lock ELSE Return(s)
    /\ UNCHANGED <<accepted, registryVars, dispatchVars, rows, warned, restarts>>

\* The poll is built by a client fetched anew, errors ignored.
PollClient(s) ==
    /\ At(s, "pollClient")
    /\ EnsureConnectedClient
    /\ Continue(s)
    /\ UNCHANGED <<lock, accepted, registryVars, dispatchVars, rows, warned, restarts>>

\* resolveTextRecipient: whether the number is a recipient.  A number that
\* cannot be checked counts as one.
Numbers == {"invalid", "group", "registered", "unregistered"}
CheckTextRecipientOnWhatsApp(number) ==
    IF number = "registered" THEN {"found", "error"} ELSE {"missing", "error"}
IsRecipient(number, answer) ==
    /\ number # "invalid"
    /\ CheckUserExists /\ number # "group" => answer # "missing"

Recipient(s) ==
    /\ At(s, "recipient")
    /\ \E number \in Numbers : \E answer \in CheckTextRecipientOnWhatsApp(number) :
          IF IsRecipient(number, answer)
             THEN Continue(s) /\ UNCHANGED lock ELSE Return(s)
    /\ UNCHANGED <<session, accepted, registryVars, dispatchVars, rows, warned, restarts>>

Transient == {"timeout", "transient"}   \* isTransientSendError, or the deadline
Replies == {"ok", "refused"} \cup Transient

\* Variant: the loop runs out and returns its error variable unset.
AcceptLastReply(s, reply) ==
    \/ reply = "ok"
    \/ reply \in Transient /\ task[s].attempt + 1 = MaxAttempts

Succeeds(s, reply) == reply = "ok"
Retries(s, reply) == reply \in Transient /\ task[s].attempt + 1 < MaxAttempts

\* One attempt.  A message may have reached WhatsApp whatever the error says.
SendMessage(s) ==
    /\ At(s, "send")
    /\ \E reply \in Replies, arrives \in BOOLEAN :
          /\ reply = "ok" => arrives
          /\ accepted' = IF arrives THEN accepted \cup {s} ELSE accepted
          /\ IF Succeeds(s, reply)
                THEN Continue(s) /\ lock' = None
                ELSE IF Retries(s, reply)
                        THEN /\ task' = [task EXCEPT ![s].attempt = @ + 1,
                                                     ![s].todo = <<"refresh">> \o @]
                             /\ UNCHANGED lock
                        ELSE Return(s)
    /\ UNCHANGED <<session, registryVars, dispatchVars, rows, warned, restarts>>

RefreshConnectedClient(s) ==
    /\ At(s, "refresh")
    /\ EnsureConnectedClient
    /\ IF session' THEN Continue(s) /\ UNCHANGED lock ELSE Return(s)
    /\ UNCHANGED <<accepted, registryVars, dispatchVars, rows, warned, restarts>>

\* Media are sent once.
SendOnce(s) ==
    /\ At(s, "sendOnce")
    /\ \/ accepted' = accepted \cup {s} /\ Continue(s) /\ lock' = None
       \/ accepted' \in {accepted, accepted \cup {s}} /\ Return(s)
    /\ UNCHANGED <<session, registryVars, dispatchVars, rows, warned, restarts>>

\* Upsert: the row is written whole, NULL receipts included.  A failure is
\* logged.
Upsert(m, status) ==
    \/ /\ rows' = [rows EXCEPT ![m] = [status |-> status, deliveredAt |-> 0, readAt |-> 0]]
       /\ UNCHANGED warned
    \/ warned' = warned \cup {m} /\ UNCHANGED rows

\* persistOutboundText, persistOutboundMedia and persistOutboundAudio: a
\* failure is logged and the send still succeeds.
PersistOutbound(s) ==
    /\ At(s, "persist")
    /\ Upsert(s, "sent")
    /\ Continue(s)
    /\ UNCHANGED <<session, lock, accepted, registryVars, dispatchVars, restarts>>

StoreSendTextJob(s) ==
    /\ \E status \in {"running", "sent", "failed"} :
          At(s, status) /\ Store(s, status)
    /\ Continue(s)
    /\ UNCHANGED <<session, lock, accepted, dispatchVars, rows, warned, restarts>>

\* The network and the other side of the client.
SessionChanges ==
    /\ session' = ~session
    /\ UNCHANGED <<lock, task, accepted, registryVars, dispatchVars, rows, warned, restarts>>

(***************************************************************************)
(* Receipts.                                                               *)
(***************************************************************************)
\* Variant: the timestamps of the receipt replace those of the job.
ReceivedLast(j, state, at) ==
    [j EXCEPT !.deliveredAt = at, !.readAt = IF state = "read" THEN at ELSE @]

\* Variant: the receipt's state becomes the state of the job.
ReceivedState(j, state, at) ==
    [j EXCEPT !.deliveredAt = Later(@, at), !.readAt = IF state = "read" THEN at ELSE 0]

Received(j, state, at) ==
    [j EXCEPT !.deliveredAt = Later(@, at),
              !.readAt = IF state = "read" THEN Later(@, at) ELSE @]

\* MarkReceipt of the registry: dropped unless the message is indexed.
MarkReceipt(m, state, at) ==
    IF m \in index /\ jobs[m].status # "absent"
       THEN /\ jobs' = [jobs EXCEPT ![m] = Received(@, state, at)]
            /\ updates' = updates \cup {[message |-> m, state |-> state, at |-> at]}
       ELSE UNCHANGED <<jobs, updates>>

\* The Receipt event: remembered first, so that it is applied once.
ReceiptEvent(m, state, at) ==
    /\ m \in accepted
    /\ <<m, state>> \notin processed
    /\ processed' = processed \cup {<<m, state>>}
    /\ MarkReceipt(m, state, at)
    /\ UNCHANGED <<sendVars, index, dispatchVars, rows, warned, restarts>>

\* processedMessages forgets after 30 minutes.
ForgetProcessed ==
    /\ processed # {}
    /\ processed' = {}
    /\ UNCHANGED <<sendVars, jobs, index, updates, dispatchVars, rows, warned, restarts>>

\* MarkReceipt of the repository: an UPDATE of the row, if there is one.
MarkedRow(r, state, at) ==
    [status |-> state, deliveredAt |-> at,
     readAt |-> IF state = "read" THEN at ELSE r.readAt]

ReceiptListener(u) ==
    /\ u \in updates
    /\ updates' = updates \ {u}
    /\ \/ /\ rows[u.message].status # "absent"
          /\ rows' = [rows EXCEPT ![u.message] = MarkedRow(@, u.state, u.at)]
          /\ UNCHANGED warned
       \/ rows[u.message].status = "absent" /\ UNCHANGED <<rows, warned>>
       \/ warned' = warned \cup {u.message} /\ UNCHANGED rows
    /\ UNCHANGED <<sendVars, jobs, index, processed, dispatchVars, restarts>>

(***************************************************************************)
(* Messages of contacts.                                                   *)
(***************************************************************************)
\* NotifyInboundMessage: never blocks, a full queue drops the message.
NotifyInboundMessage(m) ==
    queue' = IF Len(queue) < QueueSize THEN Append(queue, m) ELSE queue

MessageEvent(m) ==
    /\ m \in Inbound
    /\ NotifyInboundMessage(m)
    /\ UNCHANGED <<sendVars, registryVars, held, rows, warned, restarts>>

\* Variant: a history sync takes the messages of both directions.
IngestBothWays(m) ==
    /\ m \in Inbound \cup accepted
    /\ NotifyInboundMessage(m)
    /\ UNCHANGED <<sendVars, registryVars, held, rows, warned, restarts>>

\* ingestHistorySync: the phone's copy of the conversation, what this
\* instance sent included; messages of its own are passed over.
IngestHistorySync(m) ==
    /\ m \in Inbound \cup accepted
    /\ m \notin Sends
    /\ NotifyInboundMessage(m)
    /\ UNCHANGED <<sendVars, registryVars, held, rows, warned, restarts>>

TakeDispatch(w) ==
    /\ held[w] = None
    /\ queue # <<>>
    /\ held' = [held EXCEPT ![w] = Head(queue)]
    /\ queue' = Tail(queue)
    /\ UNCHANGED <<sendVars, registryVars, rows, warned, restarts>>

\* The listener: an instance not found or a failed write loses the message.
InboundListener(w) ==
    /\ held[w] # None
    /\ Upsert(held[w], "received")
    /\ held' = [held EXCEPT ![w] = None]
    /\ UNCHANGED <<sendVars, registryVars, queue, restarts>>

\* The process stops and starts: everything in memory is gone.
Restart ==
    /\ restarts < MaxRestarts
    /\ restarts' = restarts + 1
    /\ session' = FALSE
    /\ lock' = None
    /\ task' = [s \in Sends |-> IF task[s] = Unused THEN Unused ELSE [task[s] EXCEPT !.todo = <<>>]]
    /\ jobs' = [s \in Sends |-> NoJob]
    /\ index' = {} /\ updates' = {} /\ processed' = {}
    /\ queue' = <<>>
    /\ held' = [w \in Workers |-> None]
    /\ UNCHANGED <<accepted, rows, warned>>

\* The steps of a send that need nothing but a turn.
SendStep(s) ==
    \/ Proceed(s) \/ Ensure(s) \/ PollClient(s) \/ Recipient(s)
    \/ SendMessage(s) \/ RefreshConnectedClient(s) \/ SendOnce(s)
    \/ PersistOutbound(s) \/ StoreSendTextJob(s)

Next ==
    \/ \E s \in Sends : Begin(s) \/ Lock(s) \/ SendStep(s)
    \/ SessionChanges
    \/ \E s \in Sends, state \in States, at \in Times : ReceiptEvent(s, state, at)
    \/ ForgetProcessed
    \/ \E u \in updates : ReceiptListener(u)
    \/ \E m \in Messages : MessageEvent(m) \/ IngestHistorySync(m)
    \/ \E w \in Workers : TakeDispatch(w) \/ InboundListener(w)
    \/ Restart

Spec == Init /\ [][Next]_vars

\* A goroutine that can take a step takes it, and a mutex is handed on in
\* turn (sync.Mutex serves a waiter that has starved first).
Fairness == \A s \in Sends : WF_vars(SendStep(s)) /\ SF_vars(Lock(s))

(***************************************************************************)
(* Properties.                                                             *)
(***************************************************************************)
\* Types of the variables.
TypeOK ==
    /\ session \in BOOLEAN
    /\ lock \in Sends \cup {None}
    /\ task \in [Sends -> Tasks]
    /\ accepted \subseteq Sends
    /\ jobs \in [Sends -> Job]
    /\ index \subseteq Sends
    /\ updates \subseteq Update
    /\ processed \subseteq Sends \X States
    /\ queue \in Seq(Messages) /\ Len(queue) <= QueueSize
    /\ held \in [Workers -> Messages \cup {None}]
    /\ rows \in [Messages -> Row]
    /\ warned \subseteq Messages
    /\ restarts \in 0 .. MaxRestarts

\* Nothing is reported of a message that WhatsApp did not take: a job that is
\* sent or confirmed (QueueSendText, MarkReceipt of pkg/sendstatus) and an
\* outbound row (persistOutbound) belong to an accepted message, whatever the
\* retries of the send answered.
ReportedWasAccepted ==
    \A s \in Sends :
        \/ DeliveryStatus(jobs[s]) \in {"sent", "delivered", "read"}
        \/ rows[s].status # "absent"
        => s \in accepted

\* The row never runs ahead of the job: while the process lives, the receipt
\* timestamps of a queued send's row (MarkReceipt of the repository, one
\* goroutine per receipt) are ones the registry has reached or passed.
RowBehindJob ==
    \A s \in Sends :
        jobs[s].status # "absent" =>
            /\ rows[s].deliveredAt <= jobs[s].deliveredAt
            /\ rows[s].readAt <= jobs[s].readAt

\* A receipt the registry took reaches the history: once no listener is
\* under way for the message, the row shows it, unless the log reports a
\* failed write.  It holds because the message is indexed (Store, after
\* SendText) only when its row was written (persistOutboundText): an UPDATE
\* that comes before the row changes nothing and is never repeated.
HistoryComplete ==
    \A s \in Sends \ warned :
        (\A u \in updates : u.message # s) =>
            /\ jobs[s].deliveredAt # 0 => rows[s].deliveredAt # 0
            /\ jobs[s].readAt # 0 => rows[s].readAt # 0

Rank(status) ==
    CASE status = "absent" -> 0
      [] status = "queued" -> 1
      [] status = "running" -> 2
      [] status \in {"sent", "failed"} -> 3
      [] status = "delivered" -> 4
      [] status = "read" -> 5

\* The status GetSendTextJob reports of a job only moves forward, receipts in
\* any order and repeated after the dedupe forgot them, until the process ends.
StatusForward ==
    [][\A s \in Sends :
          jobs'[s].status = "absent"
          \/ Rank(DeliveryStatus(jobs'[s])) > Rank(DeliveryStatus(jobs[s]))
          \/ DeliveryStatus(jobs'[s]) = DeliveryStatus(jobs[s])]_vars

\* A receipt in the history stays: no upsert, which writes NULL timestamps,
\* comes after a receipt was recorded in the row, although a history sync
\* brings the instance's own messages back (ingestHistorySync) and receipts
\* are applied in any order.
ReceiptSurvives ==
    [][\A s \in Sends :
          /\ rows[s].deliveredAt # 0 => rows'[s].deliveredAt # 0
          /\ rows[s].readAt # 0 => rows'[s].readAt # 0]_vars

\* What a send looks like to its caller and in the history.
StageSeen(s) ==
    IF task[s].op = "queue"
       THEN CASE jobs[s].status \in {"queued", "running"} -> "queued"
              [] jobs[s].status = "absent" -> "over"
              [] OTHER -> jobs[s].status
       ELSE IF task[s].op = "none" THEN "none"
            ELSE IF task[s].todo # <<>> THEN "direct" ELSE "over"

RowSeen(s) ==
    IF rows[s].status # "absent" THEN "recorded"
    ELSE IF s \in warned THEN "lost" ELSE "none"

\* The receipts of a job or a row.
ReceiptsOf(r) ==
    (IF r.deliveredAt # 0 THEN {"delivered"} ELSE {}) \cup (IF r.readAt # 0 THEN {"read"} ELSE {})

SendSeen(s) ==
    [stage |-> StageSeen(s), reached |-> s \in accepted, row |-> RowSeen(s),
     taken |-> ReceiptsOf(jobs[s]), shown |-> ReceiptsOf(rows[s])]

Promise == INSTANCE SendPromise WITH send <- [s \in Sends |-> SendSeen(s)]

\* Seen from outside, each send goes one way, whatever its retries, the
\* receipts and a restart come in between: nothing reaches WhatsApp once a
\* row or a job tells of the send, a job that failed has no row, and
\* receipts are taken by the job before they show in the row.
KeepsSendPromise == Promise!PSpec

\* A queued job ends: as sent, as failed, or forgotten with the process,
\* although it waits for the send lock of other sends and retries.
QueuedJobEnds ==
    \A s \in Sends :
        jobs[s].status = "queued" ~> jobs[s].status \in {"sent", "failed", "absent"}
=============================================================================
