----------------------------- MODULE AutoReply -----------------------------
(***************************************************************************)
(* The AI auto reply (internal/ai): the bounded queue between the inbound  *)
(* webhook dispatch and the workers, the two settings that switch replies  *)
(* on, the memory of a conversation, and the end of the workers.           *)
(*                                                                         *)
(* One conversation of one instance: workers that handle its messages at   *)
(* the same time meet in its memory.  The provider's answer is text,       *)
(* nothing but blanks, or an error; a context that is cancelled makes      *)
(* every call fail.                                                        *)
(***************************************************************************)
EXTENDS Integers, Sequences, FiniteSets

CONSTANTS
    Messages,       \* inbound messages, each dispatched once
    Workers,        \* workers
    QueueSize,      \* capacity of the queue: eight for each worker
    MemoryLimit,    \* rows of memory a prompt is made of
    Nothing

ASSUME AutoReplyAssumption ==
    /\ QueueSize \in Nat \ {0} /\ MemoryLimit \in Nat \ {0}
    /\ Nothing \notin Messages

VARIABLES
    inbound,    \* messages that were not dispatched yet
    queue,      \* s.queue
    replier,    \* worker -> what it is doing
    cancelled,  \* the workers' context is done
    tenantOn,   \* Enabled and AutoReply of the tenant's ai_settings
    instanceOn, \* AIEnabled and AIAutoReply of the instance
    memory,     \* rows of ai_conversation_messages, oldest first
    dispatched  \* messages whose reply went to DispatchOutbound, in order

settings == <<tenantOn, instanceOn>>
replyVars == <<inbound, queue, replier, cancelled, settings, memory, dispatched>>

MemoryRow(role, m) == [role |-> role, message |-> m]

\* A worker waits, or is at a step of process with a message.  tenant and
\* instance collect the values the switches had since it took the message.
Idle == [at |-> "select", message |-> Nothing, prompt |-> <<>>, tenant |-> {}, instance |-> {}]

ReplyInit ==
    /\ inbound = Messages /\ queue = <<>>
    /\ replier = [w \in Workers |-> Idle]
    /\ cancelled = FALSE
    /\ tenantOn \in BOOLEAN /\ instanceOn \in BOOLEAN
    /\ memory = <<>> /\ dispatched = <<>>

(***************************************************************************)
(* HandleInboundAsync: a message without a text or an instance is ignored, *)
(* and a full queue drops the message with a warning.                      *)
(***************************************************************************)
HandleInboundAsync(m) ==
    /\ m \in inbound
    /\ inbound' = inbound \ {m}
    /\ \/ Len(queue) < QueueSize /\ queue' = Append(queue, m)
       \/ UNCHANGED queue
    /\ UNCHANGED <<replier, cancelled, settings, memory, dispatched>>

(***************************************************************************)
(* The settings.  A tenant without a row counts as switched off.           *)
(***************************************************************************)
Note(tenant, instance) ==
    [w \in Workers |-> IF replier[w].message = Nothing THEN replier[w]
                       ELSE [replier[w] EXCEPT !.tenant = @ \cup {tenant},
                                              !.instance = @ \cup {instance}]]

ConfigureTenant(on) ==
    /\ tenantOn' = on
    /\ replier' = Note(on, instanceOn)
    /\ UNCHANGED <<inbound, queue, cancelled, instanceOn, memory, dispatched>>

ConfigureInstance(on) ==
    /\ instanceOn' = on
    /\ replier' = Note(tenantOn, on)
    /\ UNCHANGED <<inbound, queue, cancelled, tenantOn, memory, dispatched>>

(***************************************************************************)
(* A worker.  The select takes any case that is ready.                     *)
(***************************************************************************)
Take(w) ==
    /\ replier[w].at = "select" /\ queue # <<>>
    /\ replier' = [replier EXCEPT ![w] =
         [at |-> "tenant", message |-> Head(queue), prompt |-> <<>>,
          tenant |-> {tenantOn}, instance |-> {instanceOn}]]
    /\ queue' = Tail(queue)
    /\ UNCHANGED <<inbound, cancelled, settings, memory, dispatched>>

\* Variant: the worker never looks at its context.
ReturnNever(w) ==
    /\ replier[w].at = "select" /\ cancelled /\ FALSE
    /\ UNCHANGED replyVars

Return(w) ==
    /\ replier[w].at = "select" /\ cancelled
    /\ replier' = [replier EXCEPT ![w].at = "ended"]
    /\ UNCHANGED <<inbound, queue, cancelled, settings, memory, dispatched>>

At(w, step) == replier[w].at = step

\* The next step of process; an error, or a switch that is off, ends it.
Go(w, step) == replier' = [replier EXCEPT ![w].at = step]
GiveUp(w) == replier' = [replier EXCEPT ![w] = Idle]

ReadTenant(w) ==
    /\ At(w, "tenant")
    /\ \/ tenantOn /\ ~ cancelled /\ Go(w, "instance")
       \/ GiveUp(w)
    /\ UNCHANGED <<inbound, queue, cancelled, settings, memory, dispatched>>

\* Variant: only the tenant's switch counts.
ReadInstanceAnyway(w) ==
    /\ At(w, "instance")
    /\ \/ ~ cancelled /\ Go(w, "user")
       \/ GiveUp(w)
    /\ UNCHANGED <<inbound, queue, cancelled, settings, memory, dispatched>>

ReadInstance(w) ==
    /\ At(w, "instance")
    /\ \/ instanceOn /\ ~ cancelled /\ Go(w, "user")
       \/ GiveUp(w)
    /\ UNCHANGED <<inbound, queue, cancelled, settings, memory, dispatched>>

AppendConversationMessage(w, role, next) ==
    \/ /\ ~ cancelled
       /\ memory' = Append(memory, MemoryRow(role, replier[w].message))
       /\ Go(w, next)
    \/ GiveUp(w) /\ UNCHANGED memory

StoreUser(w) ==
    /\ At(w, "user")
    /\ AppendConversationMessage(w, "user", "prompt")
    /\ UNCHANGED <<inbound, queue, cancelled, settings, dispatched>>

Smaller(a, b) == IF a < b THEN a ELSE b

\* Variant: the oldest rows.
Oldest == SubSeq(memory, 1, Smaller(MemoryLimit, Len(memory)))

\* generateReply reads the newest rows of the conversation, in order, ...
Newest == SubSeq(memory, Len(memory) - Smaller(MemoryLimit, Len(memory)) + 1, Len(memory))

ListMemory(w) ==
    /\ At(w, "prompt")
    /\ \/ /\ ~ cancelled
          /\ replier' = [replier EXCEPT ![w].at = "ask", ![w].prompt = Newest]
       \/ GiveUp(w)
    /\ UNCHANGED <<inbound, queue, cancelled, settings, memory, dispatched>>

\* ... and asks the provider, which answers within the timeout or not.
Ask(w) ==
    /\ At(w, "ask")
    /\ \/ ~ cancelled /\ Go(w, "assistant")
       \/ GiveUp(w)
    /\ UNCHANGED <<inbound, queue, cancelled, settings, memory, dispatched>>

StoreAssistant(w) ==
    /\ At(w, "assistant")
    /\ AppendConversationMessage(w, "assistant", "dispatch")
    /\ UNCHANGED <<inbound, queue, cancelled, settings, dispatched>>

\* The reply goes to the tenant's webhooks; the outcome is ignored.
DispatchOutbound(w) ==
    /\ At(w, "dispatch")
    /\ dispatched' = Append(dispatched, [message |-> replier[w].message,
                                         prompt  |-> replier[w].prompt,
                                         tenant  |-> replier[w].tenant,
                                         instance |-> replier[w].instance])
    /\ GiveUp(w)
    /\ UNCHANGED <<inbound, queue, cancelled, settings, memory>>

process(w) ==
    \/ ReadTenant(w) \/ ReadInstance(w) \/ StoreUser(w) \/ ListMemory(w)
    \/ Ask(w) \/ StoreAssistant(w) \/ DispatchOutbound(w)

\* cancelWorkers of the shutdown.
Cancel ==
    /\ ~ cancelled
    /\ cancelled' = TRUE
    /\ UNCHANGED <<inbound, queue, replier, settings, memory, dispatched>>

ReplyNext ==
    \/ \E m \in Messages : HandleInboundAsync(m)
    \/ \E on \in BOOLEAN : ConfigureTenant(on) \/ ConfigureInstance(on)
    \/ \E w \in Workers : Take(w) \/ Return(w) \/ process(w)
    \/ Cancel

\* Every call of a worker returns, by its timeout at the latest.  A select
\* with two cases ready chooses at random, so it takes each of them in the
\* long run.
ReplyFairness ==
    \A w \in Workers : WF_replyVars(process(w)) /\ WF_replyVars(Take(w)) /\ SF_replyVars(Return(w))

ReplySpec == ReplyInit /\ [][ReplyNext]_replyVars /\ ReplyFairness

-----------------------------------------------------------------------------
(***************************************************************************)
(* Properties.                                                             *)
(***************************************************************************)
Position(role, m) == {i \in DOMAIN memory : memory[i] = MemoryRow(role, m)}

\* Every reply that is sent answers its message once, both switches were on
\* at some moment since the message was taken, and the memory holds the
\* message and after it the reply, once each, however the workers meet in the
\* conversation.  The prompt held the message, unless other workers had stored
\* as many rows as a prompt takes in the meantime (Service.process,
\* generateReply).
RepliesJustified ==
    \A d \in DOMAIN dispatched :
        LET x == dispatched[d]
        IN  /\ \A e \in DOMAIN dispatched : dispatched[e].message = x.message => d = e
            /\ TRUE \in x.tenant /\ TRUE \in x.instance
            /\ \E i, j \in DOMAIN memory :
                 /\ Position("user", x.message) = {i}
                 /\ Position("assistant", x.message) = {j}
                 /\ i < j
            /\ \/ MemoryRow("user", x.message) \in {x.prompt[i] : i \in DOMAIN x.prompt}
               \/ /\ Len(x.prompt) = MemoryLimit
                  /\ \E i \in Position("user", x.message) :
                       \E k \in i .. Len(memory) - MemoryLimit :
                           x.prompt = SubSeq(memory, k + 1, k + MemoryLimit)

\* Once the context is cancelled every worker ends, so Stop returns: a message
\* under way is given up at its next call, and the ones in the queue stay
\* there (Service.worker, Service.Stop).
WorkersEnd == cancelled ~> \A w \in Workers : replier[w].at = "ended"
=============================================================================
