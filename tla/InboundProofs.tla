---------------------------- MODULE InboundProofs ----------------------------
(***************************************************************************)
(* Proofs about what becomes of the events of a tenant's instances: the AI *)
(* auto reply of AutoReply, for any number of messages and workers, any    *)
(* queue and any memory limit, and then the deliveries of Webhook, for any *)
(* number of requests, endpoints, attempts and faults.                     *)
(***************************************************************************)
EXTENDS WebhookInvariant, AutoReply, SequenceTheorems, TLAPS

-----------------------------------------------------------------------------
(* AutoReply: the inductive invariant.                                     *)

\* The steps after the message was stored, and after the prompt was made.
StoredSteps == {"prompt", "ask", "assistant", "dispatch"}
Prompted == {"ask", "assistant", "dispatch"}
Steps == {"tenant", "instance", "user"} \cup StoredSteps

RowType == [role : {"user", "assistant"}, message : Messages]
Busy ==
    [at : Steps, message : Messages, prompt : Seq(RowType),
     tenant : SUBSET BOOLEAN, instance : SUBSET BOOLEAN]
Free ==
    [at : {"select", "ended"}, message : {Nothing}, prompt : Seq(RowType),
     tenant : SUBSET BOOLEAN, instance : SUBSET BOOLEAN]
Reply ==
    [message : Messages, prompt : Seq(RowType),
     tenant : SUBSET BOOLEAN, instance : SUBSET BOOLEAN]

Types ==
    /\ inbound \subseteq Messages
    /\ queue \in Seq(Messages)
    /\ replier \in [Workers -> Busy \cup Free]
    /\ tenantOn \in BOOLEAN /\ instanceOn \in BOOLEAN
    /\ memory \in Seq(RowType)
    /\ dispatched \in Seq(Reply)

\* No worker has taken the message m yet: it is inbound (in), or in the queue (q).
Waiting(in, q, m) == m \in in \/ \E i \in 1..Len(q) : q[i] = m

\* A message is in one place: not dispatched, in the queue once, or with one worker.
PlaceInv ==
    /\ \A i \in 1..Len(queue) : queue[i] \notin inbound
    /\ \A i, j \in 1..Len(queue) : queue[i] = queue[j] => i = j
    /\ \A w \in Workers : ~Waiting(inbound, queue, replier[w].message)
    /\ \A v, w \in Workers :
          replier[v].message = replier[w].message /\ replier[v].message # Nothing => v = w

\* What the memory mem has of a worker's message was stored by that worker.
OwnRows(mem, x) ==
    \A i \in 1..Len(mem) :
        mem[i].message = x.message =>
            /\ x.at \in StoredSteps
            /\ mem[i].role = "assistant" => x.at = "dispatch"

\* A memory has a message and its reply once, in that order.
Orderly(mem) ==
    \A i, j \in 1..Len(mem) :
        /\ mem[i] = mem[j] => i = j
        /\ mem[i].message = mem[j].message /\ mem[i].role = "user"
              /\ mem[j].role = "assistant" => i < j

MemoryInv ==
    /\ \A i \in 1..Len(memory) : ~Waiting(inbound, queue, memory[i].message)
    /\ Orderly(memory)
    /\ \A w \in Workers : OwnRows(memory, replier[w])

Remembered(mem, role, m) == \E i \in 1..Len(mem) : mem[i] = MemoryRow(role, m)

\* A prompt has the message, or as many rows that were stored after it.
Grounded(mem, m, prompt) ==
    \/ \E i \in 1..Len(prompt) : prompt[i] = MemoryRow("user", m)
    \/ /\ Len(prompt) = MemoryLimit
       /\ \E i \in 1..Len(mem) :
            /\ mem[i] = MemoryRow("user", m)
            /\ \E k \in i..(Len(mem) - MemoryLimit) :
                  prompt = SubSeq(mem, k + 1, k + MemoryLimit)

\* What a worker passed on its way; t and i are the switches.
Passed(mem, t, i, x) ==
    /\ t \in x.tenant /\ i \in x.instance
    /\ x.at # "tenant" => TRUE \in x.tenant
    /\ x.at \notin {"tenant", "instance"} => TRUE \in x.instance
    /\ x.at \in StoredSteps => Remembered(mem, "user", x.message)
    /\ x.at = "dispatch" => Remembered(mem, "assistant", x.message)
    /\ x.at \in Prompted => Grounded(mem, x.message, x.prompt)
ReplierInv ==
    \A w \in Workers :
        replier[w].message # Nothing => Passed(memory, tenantOn, instanceOn, replier[w])

\* A reply that was sent.
Justified(mem, x) ==
    /\ TRUE \in x.tenant /\ TRUE \in x.instance
    /\ Remembered(mem, "user", x.message) /\ Remembered(mem, "assistant", x.message)
    /\ Grounded(mem, x.message, x.prompt)

\* Every reply is justified, and its message is with no one any more.
ReplyInv ==
    /\ \A d \in 1..Len(dispatched) :
          /\ Justified(memory, dispatched[d])
          /\ ~Waiting(inbound, queue, dispatched[d].message)
          /\ \A w \in Workers : replier[w].message # dispatched[d].message
    /\ \A d, e \in 1..Len(dispatched) :
          dispatched[d].message = dispatched[e].message => d = e

ReplyInvariant == Types /\ PlaceInv /\ MemoryInv /\ ReplierInv /\ ReplyInv

-----------------------------------------------------------------------------
(* Memories.                                                               *)

\* A row at the end of a memory.
LEMMA Appended ==
    ASSUME NEW S, NEW s \in Seq(S), NEW r \in S
    PROVE  LET t == Append(s, r)
           IN  /\ t \in Seq(S) /\ Len(s) \in Nat /\ Len(t) = Len(s) + 1
               /\ \A i \in 1..Len(s) : t[i] = s[i] /\ i \in 1..Len(t)
               /\ t[Len(t)] = r /\ Len(t) \in 1..Len(t)
               /\ \A i \in 1..Len(t) : i \in 1..Len(s) \/ i = Len(t)
BY AppendProperties, LenProperties

\* Both memories have the same rows where the shorter one has any.
Extends(mem, more) ==
    /\ mem \in Seq(RowType) /\ more \in Seq(RowType) /\ Len(mem) <= Len(more)
    /\ \A i \in 1..Len(mem) : more[i] = mem[i]

LEMMA Longer ==
    ASSUME NEW mem, NEW more, Extends(mem, more)
    PROVE  /\ \A role, m : Remembered(mem, role, m) => Remembered(more, role, m)
           /\ \A m, p : Grounded(mem, m, p) => Grounded(more, m, p)
<1> DEFINE n == Len(mem)
           l == Len(more)
<1>1. n \in Nat /\ l \in Nat /\ n <= l /\ \A i \in 1..n : i \in 1..l /\ more[i] = mem[i]
    BY LenProperties DEF Extends
<1>2. \A role, m : Remembered(mem, role, m) => Remembered(more, role, m)
    BY <1>1 DEF Remembered
<1>3. ASSUME NEW k \in 1..n, k + MemoryLimit <= n
      PROVE  SubSeq(mem, k + 1, k + MemoryLimit) = SubSeq(more, k + 1, k + MemoryLimit)
  <2> DEFINE a == k + 1
             b == k + MemoryLimit
  <2>1. MemoryLimit \in Nat \ {0} /\ k \in Nat
      BY AutoReplyAssumption
  <2>2. a \in Int /\ b \in Int /\ \A i \in a..b : i \in 1..n
      BY <1>1, <1>3, <2>1
  <2>3. \A i \in a..b : mem[i] = more[i] /\ mem[i] \in RowType
      BY <1>1, <2>2, ElementOfSeq DEF Extends
  <2>4. \A i \in 1..(b - a + 1) : a + i - 1 \in a..b
      BY <2>2
  <2>5. a <= b
      BY <2>1
  <2> HIDE DEF a, b
  <2>6. /\ SubSeq(mem, a, b) \in Seq(RowType) /\ Len(SubSeq(mem, a, b)) = b - a + 1
        /\ \A i \in 1..(b - a + 1) : SubSeq(mem, a, b)[i] = mem[a + i - 1]
      BY <2>2, <2>3, <2>5, SubSeqProperties
  <2>7. /\ SubSeq(more, a, b) \in Seq(RowType) /\ Len(SubSeq(more, a, b)) = b - a + 1
        /\ \A i \in 1..(b - a + 1) : SubSeq(more, a, b)[i] = more[a + i - 1]
      BY <2>2, <2>3, <2>5, SubSeqProperties
  <2>8. \A i \in 1..(b - a + 1) : SubSeq(mem, a, b)[i] = SubSeq(more, a, b)[i]
      BY <2>3, <2>4, <2>6, <2>7
  <2>9. SubSeq(mem, a, b) = SubSeq(more, a, b)
      BY <2>6, <2>7, <2>8, SeqEqual
  <2> QED
      BY <2>9 DEF a, b
<1>4. ASSUME NEW m, NEW p, Grounded(mem, m, p)
      PROVE  Grounded(more, m, p)
  <2>1. CASE \E i \in 1..Len(p) : p[i] = MemoryRow("user", m)
      BY <2>1 DEF Grounded
  <2>2. CASE /\ Len(p) = MemoryLimit
             /\ \E i \in 1..n :
                  /\ mem[i] = MemoryRow("user", m)
                  /\ \E k \in i..(n - MemoryLimit) : p = SubSeq(mem, k + 1, k + MemoryLimit)
    <3>1. PICK i \in 1..n :
              /\ mem[i] = MemoryRow("user", m)
              /\ \E k \in i..(n - MemoryLimit) : p = SubSeq(mem, k + 1, k + MemoryLimit)
        BY <2>2
    <3>2. PICK k \in i..(n - MemoryLimit) : p = SubSeq(mem, k + 1, k + MemoryLimit)
        BY <3>1
    <3>3. k \in 1..n /\ k + MemoryLimit <= n /\ k \in i..(l - MemoryLimit)
        BY <1>1, AutoReplyAssumption
    <3>4. i \in 1..l /\ more[i] = MemoryRow("user", m) /\ p = SubSeq(more, k + 1, k + MemoryLimit)
        BY <1>1, <1>3, <3>1, <3>2, <3>3
    <3> QED
        BY <2>2, <3>3, <3>4 DEF Grounded
  <2> QED
      BY <1>4, <2>1, <2>2 DEF Grounded
<1> QED
    BY <1>2, <1>4

\* A longer memory justifies what a shorter one did.
LEMMA StillPassed ==
    ASSUME NEW mem, NEW more, Extends(mem, more)
    PROVE  /\ \A t, i, x : Passed(mem, t, i, x) => Passed(more, t, i, x)
           /\ \A x : Justified(mem, x) => Justified(more, x)
BY Longer DEF Passed, Justified

LEMMA Same ==
    ASSUME NEW mem \in Seq(RowType)
    PROVE  Extends(mem, mem)
BY LenProperties DEF Extends

\* The newest rows have the message, or were stored after it.
LEMMA NewestGrounded ==
    ASSUME NEW m, memory \in Seq(RowType), Remembered(memory, "user", m)
    PROVE  Newest \in Seq(RowType) /\ Grounded(memory, m, Newest)
<1> DEFINE l == Len(memory)
           s == Smaller(MemoryLimit, l)
           a == l - s + 1
           p == SubSeq(memory, a, l)
<1>1. l \in Nat /\ MemoryLimit \in Nat \ {0}
    BY AutoReplyAssumption, LenProperties
<1>2. PICK i \in 1..l : memory[i] = MemoryRow("user", m)
    BY DEF Remembered
<1>3. s \in 1..l /\ (s = MemoryLimit \/ s = l) /\ s <= MemoryLimit
    BY <1>1, <1>2 DEF Smaller
<1> HIDE DEF s
<1>4. a \in 1..l /\ \A j \in a..l : j \in 1..l
    BY <1>1, <1>3
<1>5. \A j \in a..l : memory[j] \in RowType
    BY <1>4, ElementOfSeq
<1>6. p \in Seq(RowType) /\ Len(p) = l - a + 1 /\ \A j \in 1..(l - a + 1) : p[j] = memory[a + j - 1]
    BY <1>1, <1>4, <1>5, SubSeqProperties
<1>7. l - a + 1 = s
    BY <1>1, <1>3
<1>8. CASE i >= a
  <2>1. i - a + 1 \in 1..(l - a + 1) /\ a + (i - a + 1) - 1 = i
      BY <1>1, <1>4, <1>8
  <2>2. p[i - a + 1] = MemoryRow("user", m) /\ i - a + 1 \in 1..Len(p)
      BY <1>2, <1>6, <2>1
  <2> HIDE DEF p, a
  <2> QED
      BY <1>6, <2>2 DEF Grounded, Newest, p, s, a
<1>9. CASE i < a
  <2>1. s = MemoryLimit /\ l - MemoryLimit \in i..(l - MemoryLimit)
        /\ (l - MemoryLimit) + 1 = a /\ (l - MemoryLimit) + MemoryLimit = l
      BY <1>1, <1>2, <1>3, <1>9
  <2>2. Len(p) = MemoryLimit
      BY <1>6, <1>7, <2>1
  <2>3. p = SubSeq(memory, (l - MemoryLimit) + 1, (l - MemoryLimit) + MemoryLimit)
      BY <2>1
  <2>4. Newest = p
      BY DEF Newest, s
  <2> HIDE DEF p, a
  <2> QED
      BY <1>2, <1>6, <2>1, <2>2, <2>3, <2>4 DEF Grounded
<1> QED
    BY <1>1, <1>2, <1>4, <1>8, <1>9

-----------------------------------------------------------------------------
(* The steps.                                                              *)

\* The facts about a worker.
LEMMA WorkerFacts ==
    ASSUME ReplyInvariant, NEW w \in Workers
    PROVE  LET x == replier[w]
           IN  /\ x \in Busy \cup Free
               /\ x.at \in Steps \cup {"select", "ended"} /\ x.message \in Messages \cup {Nothing}
               /\ x.prompt \in Seq(RowType)
               /\ x.tenant \subseteq BOOLEAN /\ x.instance \subseteq BOOLEAN
               /\ x.message # Nothing <=> x \in Busy
               /\ x \in Busy <=> x.at \in Steps
               /\ x.message # Nothing =>
                     /\ x.message \in Messages /\ Passed(memory, tenantOn, instanceOn, x)
               /\ OwnRows(memory, x) /\ ~Waiting(inbound, queue, x.message)
<1>1. replier[w] \in Busy \cup Free
    BY DEF ReplyInvariant, Types
<1>2. OwnRows(memory, replier[w]) /\ ~Waiting(inbound, queue, replier[w].message)
    BY DEF ReplyInvariant, MemoryInv, PlaceInv
<1>3. replier[w].message # Nothing => Passed(memory, tenantOn, instanceOn, replier[w])
    BY DEF ReplyInvariant, ReplierInv
<1> DEFINE x == replier[w]
<1> HIDE DEF x
<1>4. /\ x.at \in Steps \cup {"select", "ended"} /\ x.message \in Messages \cup {Nothing}
      /\ x.prompt \in Seq(RowType)
      /\ x.tenant \subseteq BOOLEAN /\ x.instance \subseteq BOOLEAN
    BY <1>1 DEF Busy, Free, x
<1>5. /\ x.message # Nothing <=> x \in Busy
      /\ x \in Busy <=> x.at \in Steps
  <2>1. x \in Busy => x.message # Nothing /\ x.at \in Steps
      BY AutoReplyAssumption DEF Busy
  <2>2. x \in Free => x.message = Nothing /\ x.at \notin Steps
      BY DEF Free, Steps, StoredSteps
  <2> QED
      BY <1>1, <2>1, <2>2 DEF x
<1> QED
    BY <1>1, <1>2, <1>3, <1>4, <1>5 DEF x

\* One worker changes, and may store a row of its message.
LEMMA OneWorker ==
    ASSUME ReplyInvariant, NEW w \in Workers, NEW y \in Busy \cup Free,
           replier' = [replier EXCEPT ![w] = y],
           UNCHANGED <<inbound, queue, tenantOn, instanceOn, dispatched>>,
           Extends(memory, memory'), Orderly(memory'),
           y.message = replier[w].message \/ y.message = Nothing,
           y.message # Nothing => Passed(memory', tenantOn, instanceOn, y) /\ OwnRows(memory', y),
           \A i \in 1..Len(memory') :
               i \in 1..Len(memory) \/ (memory'[i].message = replier[w].message)
    PROVE  ReplyInvariant'
<1>1. /\ inbound' = inbound /\ queue' = queue /\ tenantOn' = tenantOn
      /\ instanceOn' = instanceOn /\ dispatched' = dispatched
    OBVIOUS
<1>2. /\ replier' \in [Workers -> Busy \cup Free] /\ replier'[w] = y
      /\ \A v \in Workers \ {w} : replier'[v] = replier[v]
    BY DEF ReplyInvariant, Types
<1>3. memory' \in Seq(RowType) /\ \A i \in 1..Len(memory) : memory'[i] = memory[i]
    BY DEF Extends
<1>4. Types'
    BY <1>1, <1>2, <1>3 DEF ReplyInvariant, Types
<1>5. ~Waiting(inbound, queue, Nothing)
    BY AutoReplyAssumption, ElementOfSeq DEF Waiting, ReplyInvariant, Types
<1>6. \A v \in Workers : replier'[v].message = replier[v].message \/ replier'[v].message = Nothing
    BY <1>2
<1>7. PlaceInv'
    BY <1>1, <1>5, <1>6 DEF ReplyInvariant, PlaceInv
<1>8. \A i \in 1..Len(memory') : memory'[i].message \in Messages
  <2>1. \A i \in 1..Len(memory') : memory'[i] \in RowType
      BY <1>3, ElementOfSeq
  <2> QED
      BY <2>1 DEF RowType
<1>9. ASSUME NEW v \in Workers
      PROVE  OwnRows(memory', replier'[v])
  <2>1. CASE replier'[v].message = Nothing
      BY <1>8, <2>1, AutoReplyAssumption DEF OwnRows
  <2>2. CASE v = w /\ y.message # Nothing
      BY <1>2, <2>2
  <2>3. CASE v # w /\ replier'[v].message # Nothing
    <3>1. replier'[v] = replier[v] /\ replier[v].message # replier[w].message
        BY <1>2, <2>3 DEF ReplyInvariant, PlaceInv
    <3>2. OwnRows(memory, replier[v])
        BY DEF ReplyInvariant, MemoryInv
    <3> QED
        BY <1>3, <3>1, <3>2 DEF OwnRows
  <2> QED
      BY <1>2, <2>1, <2>2, <2>3
<1>10. MemoryInv'
  <2>1. ASSUME NEW i \in 1..Len(memory')
        PROVE  ~Waiting(inbound, queue, memory'[i].message)
      BY <1>3 DEF ReplyInvariant, MemoryInv, PlaceInv
  <2> QED
      BY <1>1, <1>9, <2>1 DEF MemoryInv
<1>11. ReplierInv'
  <2>1. ASSUME NEW v \in Workers, replier'[v].message # Nothing
        PROVE  Passed(memory', tenantOn, instanceOn, replier'[v])
    <3>1. CASE v = w
        BY <1>2, <2>1, <3>1
    <3>2. CASE v # w
      <4>1. replier'[v] = replier[v] /\ Passed(memory, tenantOn, instanceOn, replier[v])
          BY <1>2, <2>1, <3>2 DEF ReplyInvariant, ReplierInv
      <4> QED
          BY <4>1, StillPassed
    <3> QED
        BY <3>1, <3>2
  <2> QED
      BY <1>1, <2>1 DEF ReplierInv
<1>12. ReplyInv'
  <2>1. ASSUME NEW d \in 1..Len(dispatched)
        PROVE  /\ Justified(memory', dispatched[d]) /\ ~Waiting(inbound, queue, dispatched[d].message)
               /\ \A v \in Workers : replier'[v].message # dispatched[d].message
    <3>1. /\ Justified(memory, dispatched[d]) /\ ~Waiting(inbound, queue, dispatched[d].message)
          /\ \A v \in Workers : replier[v].message # dispatched[d].message
        BY DEF ReplyInvariant, ReplyInv
    <3>2. dispatched[d].message # Nothing
      <4>1. dispatched[d] \in Reply
          BY ElementOfSeq DEF ReplyInvariant, Types
      <4> QED
          BY <4>1, AutoReplyAssumption DEF Reply
    <3> QED
        BY <1>6, <3>1, <3>2, StillPassed
  <2> QED
      BY <1>1, <2>1 DEF ReplyInvariant, ReplyInv
<1> QED
    BY <1>4, <1>7, <1>10, <1>11, <1>12 DEF ReplyInvariant

\* A worker goes on, or gives its message up, and stores nothing.
LEMMA WorkerMoves ==
    ASSUME ReplyInvariant, NEW w \in Workers, NEW y \in Busy \cup Free,
           replier' = [replier EXCEPT ![w] = y],
           UNCHANGED <<inbound, queue, tenantOn, instanceOn, dispatched, memory>>,
           \/ y.message = Nothing
           \/ /\ y.message = replier[w].message
              /\ Passed(memory, tenantOn, instanceOn, y) /\ OwnRows(memory, y)
    PROVE  ReplyInvariant'
<1>1. memory' = memory /\ memory \in Seq(RowType) /\ Orderly(memory)
    BY DEF ReplyInvariant, Types, MemoryInv
<1>2. Extends(memory, memory') /\ Orderly(memory')
    BY <1>1, Same
<1>3. \A i \in 1..Len(memory') : i \in 1..Len(memory)
    BY <1>1
<1> QED
    BY <1>1, <1>2, <1>3, OneWorker

LEMMA IdleFree == Idle \in Free /\ Idle.message = Nothing
<1>1. ASSUME NEW p \in Seq(RowType)
      PROVE  [at |-> "select", message |-> Nothing, prompt |-> p, tenant |-> {}, instance |-> {}] \in Free
    BY DEF Free
<1>2. <<>> \in Seq(RowType)
    BY EmptySeq
<1>3. Idle \in Free
    BY <1>1, <1>2 DEF Idle
<1> QED
    BY <1>3 DEF Free

LEMMA GivenUp ==
    ASSUME ReplyInvariant, NEW w \in Workers, GiveUp(w),
           UNCHANGED <<inbound, queue, tenantOn, instanceOn, dispatched, memory>>
    PROVE  ReplyInvariant'
<1> DEFINE y == Idle
<1>1. y \in Busy \cup Free /\ y.message = Nothing /\ replier' = [replier EXCEPT ![w] = y]
    BY IdleFree DEF GiveUp
<1> HIDE DEF y
<1> QED
    BY <1>1, WorkerMoves

\* A worker at another step.
LEMMA Stepped ==
    ASSUME ReplyInvariant, NEW w \in Workers, replier[w].at \in Steps, NEW s \in Steps
    PROVE  LET x == replier[w]
               y == [x EXCEPT !.at = s]
           IN  /\ y \in Busy /\ y.at = s /\ y.message = x.message /\ y.prompt = x.prompt
               /\ y.tenant = x.tenant /\ y.instance = x.instance
<1>1. replier[w] \in Busy
    BY WorkerFacts
<1> QED
    BY <1>1 DEF Busy

\* The steps that ask: the settings, the memory, the provider.
LEMMA AskKept ==
    ASSUME ReplyInvariant, NEW w \in Workers,
           ReadTenant(w) \/ ReadInstance(w) \/ ListMemory(w) \/ Ask(w)
    PROVE  ReplyInvariant'
<1> DEFINE x == replier[w]
<1>1. UNCHANGED <<inbound, queue, tenantOn, instanceOn, dispatched, memory>>
    BY DEF ReadTenant, ReadInstance, ListMemory, Ask, settings
<1>2. /\ x.at \in Steps /\ x \in Busy /\ x.message # Nothing
      /\ Passed(memory, tenantOn, instanceOn, x) /\ OwnRows(memory, x)
  <2>1. x.at \in {"tenant", "instance", "prompt", "ask"}
      BY DEF ReadTenant, ReadInstance, ListMemory, Ask, At
  <2>2. x.at \in Steps
      BY <2>1 DEF Steps, StoredSteps
  <2> QED
      BY <2>2, WorkerFacts
<1>3. CASE GiveUp(w)
    BY <1>1, <1>3, GivenUp
<1>4. ASSUME NEW s \in Steps, Go(w, s), \/ s = "instance" /\ x.at = "tenant" /\ tenantOn = TRUE
                                        \/ s = "user" /\ x.at = "instance" /\ instanceOn = TRUE
                                        \/ s = "assistant" /\ x.at = "ask"
      PROVE  ReplyInvariant'
  <2> DEFINE y == [x EXCEPT !.at = s]
  <2>1. replier' = [replier EXCEPT ![w] = y]
      BY <1>4 DEF Go
  <2>2. /\ y \in Busy /\ y.at = s /\ y.message = x.message /\ y.prompt = x.prompt
        /\ y.tenant = x.tenant /\ y.instance = x.instance
      BY <1>2, Stepped
  <2> HIDE DEF y
  <2>3. s # "dispatch" /\ (s \in StoredSteps => x.at \in StoredSteps) /\ (s \in Prompted => x.at \in Prompted)
        /\ x.at # "dispatch"
      BY <1>4 DEF StoredSteps, Prompted
  <2>4. TRUE \in y.tenant /\ (s # "instance" => TRUE \in y.instance) /\ s # "tenant"
      BY <1>2, <1>4, <2>2 DEF Passed
  <2>5. Passed(memory, tenantOn, instanceOn, y)
      BY <1>2, <2>2, <2>3, <2>4 DEF Passed
  <2>6. OwnRows(memory, y)
    <3>1. \A i \in 1..Len(memory) :
              memory[i].message = x.message => x.at \in StoredSteps /\ memory[i].role # "assistant"
        BY <1>2, <2>3 DEF OwnRows
    <3>2. x.at \in StoredSteps => s \in StoredSteps
        BY <1>4 DEF StoredSteps
    <3> QED
        BY <2>2, <3>1, <3>2 DEF OwnRows
  <2> QED
      BY <1>1, <2>1, <2>2, <2>5, <2>6, WorkerMoves
<1>5. CASE ReadTenant(w) \/ ReadInstance(w) \/ Ask(w)
  <2>1. /\ ReadTenant(w) => x.at = "tenant" /\ (GiveUp(w) \/ (Go(w, "instance") /\ tenantOn))
        /\ ReadInstance(w) => x.at = "instance" /\ (GiveUp(w) \/ (Go(w, "user") /\ instanceOn))
        /\ Ask(w) => x.at = "ask" /\ (GiveUp(w) \/ Go(w, "assistant"))
      BY DEF ReadTenant, ReadInstance, Ask, At
  <2>2. "instance" \in Steps /\ "user" \in Steps /\ "assistant" \in Steps
      BY DEF Steps, StoredSteps
  <2>3. (tenantOn => tenantOn = TRUE) /\ (instanceOn => instanceOn = TRUE)
      BY DEF ReplyInvariant, Types
  <2> QED
      BY <1>3, <1>4, <1>5, <2>1, <2>2, <2>3
<1>6. CASE ListMemory(w) /\ replier' = [replier EXCEPT ![w].at = "ask", ![w].prompt = Newest]
  <2>1. x.at = "prompt"
      BY <1>6 DEF ListMemory, At
  <2> DEFINE p == Newest
             y == [x EXCEPT !.at = "ask", !.prompt = p]
  <2>2. Remembered(memory, "user", x.message) /\ TRUE \in x.tenant /\ TRUE \in x.instance
      BY <1>2, <2>1 DEF Passed, StoredSteps
  <2>3. p \in Seq(RowType) /\ Grounded(memory, x.message, p)
      BY <2>2, NewestGrounded DEF ReplyInvariant, Types
  <2>4. replier' = [replier EXCEPT ![w] = y]
      BY <1>6 DEF ReplyInvariant, Types
  <2> HIDE DEF p
  <2>5. "ask" \in Steps
      BY DEF Steps, StoredSteps
  <2>6. /\ y \in Busy /\ y.at = "ask" /\ y.message = x.message /\ y.prompt = p
        /\ y.tenant = x.tenant /\ y.instance = x.instance
      BY <1>2, <2>3, <2>5 DEF Busy
  <2> HIDE DEF y
  <2>7. Passed(memory, tenantOn, instanceOn, y)
      BY <1>2, <2>2, <2>3, <2>6 DEF Passed
  <2>8. OwnRows(memory, y)
      BY <1>2, <2>1, <2>6 DEF OwnRows, StoredSteps
  <2> QED
      BY <1>1, <2>4, <2>6, <2>7, <2>8, WorkerMoves
<1> QED
    BY <1>3, <1>5, <1>6 DEF ListMemory

\* The message, and later the reply, goes to the end of the memory.
LEMMA StoreKept ==
    ASSUME ReplyInvariant, NEW w \in Workers, StoreUser(w) \/ StoreAssistant(w)
    PROVE  ReplyInvariant'
<1> DEFINE x == replier[w]
           role == IF x.at = "user" THEN "user" ELSE "assistant"
           s == IF x.at = "user" THEN "prompt" ELSE "dispatch"
           r == MemoryRow(role, x.message)
<1>1. x.at \in {"user", "assistant"} /\ UNCHANGED <<inbound, queue, tenantOn, instanceOn, dispatched>>
    BY DEF StoreUser, StoreAssistant, At, settings
<1>2. /\ x.at \in Steps /\ x \in Busy /\ x.message # Nothing /\ x.message \in Messages
      /\ Passed(memory, tenantOn, instanceOn, x) /\ OwnRows(memory, x)
  <2>1. x.at \in Steps
      BY <1>1 DEF Steps, StoredSteps
  <2> QED
      BY <2>1, WorkerFacts
<1>3. \/ memory' = Append(memory, r) /\ Go(w, s)
      \/ GiveUp(w) /\ memory' = memory
    BY DEF StoreUser, StoreAssistant, AppendConversationMessage, At
<1>4. CASE GiveUp(w) /\ memory' = memory
    BY <1>1, <1>4, GivenUp
<1>5. CASE memory' = Append(memory, r) /\ Go(w, s)
  <2>1. r \in RowType /\ r.role = role /\ r.message = x.message
      BY <1>2 DEF RowType, MemoryRow
  <2>2. s \in Steps /\ s \in StoredSteps /\ (role = "assistant" <=> s = "dispatch") /\ (s = "dispatch" <=> x.at = "assistant")
        /\ role \in {"user", "assistant"}
      BY <1>1 DEF Steps, StoredSteps
  <2> DEFINE l == Len(memory)
             n == Len(memory')
             y == [x EXCEPT !.at = s]
  <2>3. r = MemoryRow(role, x.message)
      OBVIOUS
  <2>4. replier' = [replier EXCEPT ![w] = y]
      BY <1>5 DEF Go
  <2>5. memory' = Append(memory, r)
      BY <1>5
  <2> HIDE DEF r, s, role
  <2>6. /\ y \in Busy /\ y.at = s /\ y.message = x.message /\ y.prompt = x.prompt
        /\ y.tenant = x.tenant /\ y.instance = x.instance
      BY <1>2, <2>2, Stepped
  <2>7. memory \in Seq(RowType) /\ Orderly(memory)
      BY DEF ReplyInvariant, Types, MemoryInv
  <2>8. /\ memory' \in Seq(RowType) /\ l \in Nat /\ n = l + 1
        /\ \A i \in 1..l : memory'[i] = memory[i] /\ i \in 1..n
        /\ memory'[n] = r /\ n \in 1..n
        /\ \A i \in 1..n : i \in 1..l \/ i = n
      BY <2>1, <2>5, <2>7, Appended
  <2>9. Extends(memory, memory')
      BY <2>7, <2>8 DEF Extends
  <2> HIDE DEF y, l, n
  <2>10. \A i \in 1..l : memory[i].message = x.message =>
             role = "assistant" /\ memory[i].role # "assistant"
    <3>1. \A i \in 1..l : memory[i].message = x.message =>
              x.at \in StoredSteps /\ (memory[i].role = "assistant" => x.at = "dispatch")
        BY <1>2 DEF OwnRows, l
    <3>2. x.at # "dispatch" /\ (x.at \in StoredSteps => x.at = "assistant")
        BY <1>1 DEF StoredSteps
    <3> QED
        BY <2>2, <3>1, <3>2
  <2>11. Orderly(memory')
    <3>1. ASSUME NEW i \in 1..l
          PROVE  memory[i] # r /\ i < n /\ ~(memory[i].message = r.message /\ r.role = "user")
      <4>1. memory[i] # r
          BY <2>1, <2>10
      <4>2. ~(memory[i].message = r.message /\ r.role = "user")
          BY <2>1, <2>10
      <4> QED
          BY <2>8, <4>1, <4>2
    <3>2. ASSUME NEW i \in 1..n, NEW j \in 1..n
          PROVE  /\ memory'[i] = memory'[j] => i = j
                 /\ memory'[i].message = memory'[j].message /\ memory'[i].role = "user"
                       /\ memory'[j].role = "assistant" => i < j
      <4>1. CASE i \in 1..l /\ j \in 1..l
          BY <2>7, <2>8, <4>1 DEF Orderly, l
      <4>2. CASE i \in 1..l /\ j = n
          BY <2>8, <3>1, <4>2
      <4>3. CASE i = n /\ j \in 1..l
          BY <2>8, <3>1, <4>3
      <4>4. CASE i = n /\ j = n
        <5>1. memory'[i].role # "user" \/ memory'[j].role # "assistant"
            BY <2>1, <2>8, <4>4
        <5> QED
            BY <4>4, <5>1
      <4> QED
          BY <2>8, <4>1, <4>2, <4>3, <4>4
    <3> QED
        BY <3>2 DEF Orderly, n
  <2>12. Remembered(memory', role, x.message)
      BY <2>3, <2>8 DEF Remembered, n
  <2>13. Passed(memory', tenantOn, instanceOn, y)
    <3>1. Passed(memory', tenantOn, instanceOn, x)
        BY <1>2, <2>9, StillPassed
    <3>2. x.at \in StoredSteps => Remembered(memory', "user", x.message)
        BY <3>1 DEF Passed
    <3>3. x.at = "user" \/ x.at \in StoredSteps \cap Prompted
        BY <1>1 DEF StoredSteps, Prompted
    <3>4. Remembered(memory', "user", x.message)
        BY <1>1, <2>2, <2>12, <3>2, <3>3
    <3>5. s = "dispatch" => Remembered(memory', "assistant", x.message)
        BY <2>2, <2>12
    <3>6. s \in Prompted => Grounded(memory', x.message, x.prompt)
      <4>1. s \in Prompted => s = "dispatch"
          BY DEF s, Prompted
      <4> QED
          BY <2>2, <3>1, <3>3, <4>1 DEF Passed
    <3>7. TRUE \in x.tenant /\ TRUE \in x.instance
        BY <1>1, <3>1 DEF Passed
    <3> QED
        BY <2>6, <3>1, <3>4, <3>5, <3>6, <3>7 DEF Passed
  <2>14. OwnRows(memory', y)
    <3>1. ASSUME NEW i \in 1..n, memory'[i].message = x.message
          PROVE  memory'[i].role = "assistant" => s = "dispatch"
        BY <2>1, <2>2, <2>8, <2>10, <3>1
    <3> QED
        BY <2>2, <2>6, <3>1 DEF OwnRows, n
  <2>15. \A i \in 1..Len(memory') : i \in 1..Len(memory) \/ memory'[i].message = x.message
      BY <2>1, <2>8 DEF l, n
  <2> QED
      BY <1>1, <2>4, <2>6, <2>9, <2>11, <2>13, <2>14, <2>15, OneWorker
<1> QED
    BY <1>3, <1>4, <1>5

\* The reply goes out, and the worker is free again.
LEMMA DispatchKept ==
    ASSUME ReplyInvariant, NEW w \in Workers, DispatchOutbound(w)
    PROVE  ReplyInvariant'
<1> DEFINE x == replier[w]
           r == [message |-> x.message, prompt |-> x.prompt, tenant |-> x.tenant,
                 instance |-> x.instance]
           l == Len(dispatched)
           n == Len(dispatched')
<1>1. /\ x.at = "dispatch" /\ replier' = [replier EXCEPT ![w] = Idle]
      /\ inbound' = inbound /\ queue' = queue /\ tenantOn' = tenantOn
      /\ instanceOn' = instanceOn /\ memory' = memory /\ dispatched' = Append(dispatched, r)
    BY DEF DispatchOutbound, At, GiveUp, settings
<1>2. /\ x.message # Nothing /\ x.message \in Messages /\ x.prompt \in Seq(RowType)
      /\ x.tenant \in SUBSET BOOLEAN /\ x.instance \in SUBSET BOOLEAN
      /\ Passed(memory, tenantOn, instanceOn, x) /\ ~Waiting(inbound, queue, x.message)
    BY <1>1, WorkerFacts DEF Steps, StoredSteps
<1>3. /\ r \in Reply /\ r.message = x.message /\ r.prompt = x.prompt /\ r.tenant = x.tenant
      /\ r.instance = x.instance
    BY <1>2 DEF Reply
<1> HIDE DEF r
<1>4. Justified(memory, r)
    BY <1>1, <1>2, <1>3 DEF Passed, Justified, StoredSteps, Prompted
<1>5. dispatched \in Seq(Reply)
    BY DEF ReplyInvariant, Types
<1>6. /\ dispatched' \in Seq(Reply) /\ l \in Nat /\ n = l + 1
      /\ \A i \in 1..l : dispatched'[i] = dispatched[i] /\ i \in 1..n
      /\ dispatched'[n] = r
      /\ \A i \in 1..n : i \in 1..l \/ i = n
    BY <1>1, <1>3, <1>5, Appended
<1> DEFINE y == Idle
<1>7. y \in Busy \cup Free /\ y.message = Nothing /\ replier' = [replier EXCEPT ![w] = y]
    BY <1>1, IdleFree
<1> HIDE DEF y, l, n
<1>8. /\ replier' \in [Workers -> Busy \cup Free] /\ replier'[w] = y
      /\ \A v \in Workers \ {w} : replier'[v] = replier[v]
    BY <1>7 DEF ReplyInvariant, Types
<1>9. Types'
    BY <1>1, <1>6, <1>8 DEF ReplyInvariant, Types
<1>10. ~Waiting(inbound, queue, Nothing)
    BY AutoReplyAssumption, ElementOfSeq DEF Waiting, ReplyInvariant, Types
<1>11. \A v \in Workers : replier'[v].message = replier[v].message \/ replier'[v].message = Nothing
    BY <1>7, <1>8
<1>12. PlaceInv'
    BY <1>1, <1>10, <1>11 DEF ReplyInvariant, PlaceInv
<1>13. \A i \in 1..Len(memory) : memory[i].message # Nothing
  <2>1. \A i \in 1..Len(memory) : memory[i] \in RowType
      BY ElementOfSeq DEF ReplyInvariant, Types
  <2> QED
      BY <2>1, AutoReplyAssumption DEF RowType
<1>14. MemoryInv'
  <2>1. \A v \in Workers : OwnRows(memory, replier'[v])
      BY <1>7, <1>8, <1>13 DEF ReplyInvariant, MemoryInv, OwnRows
  <2> QED
      BY <1>1, <2>1 DEF ReplyInvariant, MemoryInv
<1>15. ReplierInv'
    BY <1>1, <1>7, <1>8 DEF ReplyInvariant, ReplierInv
<1>16. ReplyInv'
  <2>1. ASSUME NEW d \in 1..l
        PROVE  /\ Justified(memory, dispatched[d]) /\ ~Waiting(inbound, queue, dispatched[d].message)
               /\ \A v \in Workers : replier'[v].message # dispatched[d].message
               /\ dispatched[d].message # x.message
    <3>1. /\ Justified(memory, dispatched[d]) /\ ~Waiting(inbound, queue, dispatched[d].message)
          /\ \A v \in Workers : replier[v].message # dispatched[d].message
        BY DEF ReplyInvariant, ReplyInv, l
    <3>2. dispatched[d].message # Nothing
      <4>1. dispatched[d] \in Reply
          BY <1>5, ElementOfSeq DEF l
      <4> QED
          BY <4>1, AutoReplyAssumption DEF Reply
    <3> QED
        BY <1>11, <3>1, <3>2
  <2>2. \A v \in Workers : replier'[v].message # x.message
      BY <1>2, <1>7, <1>8 DEF ReplyInvariant, PlaceInv
  <2>3. ASSUME NEW d \in 1..n
        PROVE  /\ Justified(memory, dispatched'[d]) /\ ~Waiting(inbound, queue, dispatched'[d].message)
               /\ \A v \in Workers : replier'[v].message # dispatched'[d].message
      BY <1>2, <1>3, <1>4, <1>6, <2>1, <2>2
  <2>4. ASSUME NEW d \in 1..n, NEW e \in 1..n, dispatched'[d].message = dispatched'[e].message
        PROVE  d = e
    <3>1. CASE d \in 1..l /\ e \in 1..l
        BY <1>6, <2>4, <3>1 DEF ReplyInvariant, ReplyInv, l
    <3>2. CASE d = n \/ e = n
        BY <1>3, <1>6, <2>1, <2>4, <3>2, ZenonT(60)
    <3> QED
        BY <1>6, <3>1, <3>2
  <2> QED
      BY <1>1, <2>3, <2>4 DEF ReplyInv, n
<1> QED
    BY <1>9, <1>12, <1>14, <1>15, <1>16 DEF ReplyInvariant

\* Messages stop waiting, and a free worker may take one that was.
LEMMA FewerWait ==
    ASSUME ReplyInvariant,
           UNCHANGED <<tenantOn, instanceOn, memory, dispatched>>,
           inbound' \subseteq Messages, queue' \in Seq(Messages),
           \A i \in 1..Len(queue') : queue'[i] \notin inbound',
           \A i, j \in 1..Len(queue') : queue'[i] = queue'[j] => i = j,
           \A m \in Messages : Waiting(inbound', queue', m) => Waiting(inbound, queue, m),
           replier' \in [Workers -> Busy \cup Free],
           \A w \in Workers :
               \/ replier'[w] = replier[w]
               \/ /\ replier'[w] \in Busy /\ replier'[w].at = "tenant"
                  /\ replier'[w].tenant = {tenantOn} /\ replier'[w].instance = {instanceOn}
                  /\ Waiting(inbound, queue, replier'[w].message)
                  /\ ~Waiting(inbound', queue', replier'[w].message)
                  /\ \A v \in Workers \ {w} : replier'[v] = replier[v]
    PROVE  ReplyInvariant'
<1>1. /\ tenantOn' = tenantOn /\ instanceOn' = instanceOn
      /\ memory' = memory /\ dispatched' = dispatched
    OBVIOUS
<1>2. Types'
    BY <1>1 DEF ReplyInvariant, Types
<1>3. ~Waiting(inbound', queue', Nothing)
    BY AutoReplyAssumption, ElementOfSeq DEF Waiting
<1>4. \A w \in Workers : replier[w].message \in Messages \cup {Nothing}
    BY WorkerFacts
<1>5. \A w \in Workers : ~Waiting(inbound, queue, replier[w].message)
    BY WorkerFacts
<1>6. PlaceInv'
  <2>1. \A w \in Workers : ~Waiting(inbound', queue', replier'[w].message)
      BY <1>3, <1>4, <1>5
  <2>2. ASSUME NEW v \in Workers, NEW w \in Workers,
               replier'[v].message = replier'[w].message, replier'[v].message # Nothing, v # w
        PROVE  FALSE
    <3>1. CASE replier'[v] = replier[v] /\ replier'[w] = replier[w]
        BY <2>2, <3>1 DEF ReplyInvariant, PlaceInv
    <3>2. CASE replier'[v] # replier[v]
        BY <1>5, <2>2, <3>2
    <3>3. CASE replier'[w] # replier[w]
        BY <1>5, <2>2, <3>3
    <3> QED
        BY <3>1, <3>2, <3>3
  <2> QED
      BY <2>1, <2>2 DEF PlaceInv
<1>7. \A i \in 1..Len(memory) : memory[i].message \in Messages /\ ~Waiting(inbound, queue, memory[i].message)
  <2>1. \A i \in 1..Len(memory) : memory[i] \in RowType
      BY ElementOfSeq DEF ReplyInvariant, Types
  <2>2. \A i \in 1..Len(memory) : memory[i].message \in Messages
      BY <2>1 DEF RowType
  <2> QED
      BY <2>2 DEF ReplyInvariant, MemoryInv
<1>8. MemoryInv'
  <2>1. ASSUME NEW w \in Workers
        PROVE  OwnRows(memory, replier'[w])
    <3>1. CASE replier'[w] = replier[w]
        BY <3>1 DEF ReplyInvariant, MemoryInv
    <3>2. CASE Waiting(inbound, queue, replier'[w].message)
        BY <1>7, <3>2 DEF OwnRows
    <3> QED
        BY <3>1, <3>2
  <2>2. Orderly(memory)
      BY DEF ReplyInvariant, MemoryInv
  <2> QED
      BY <1>1, <1>7, <2>1, <2>2 DEF MemoryInv
<1>9. ReplierInv'
  <2>1. ASSUME NEW w \in Workers, replier'[w].message # Nothing
        PROVE  Passed(memory, tenantOn, instanceOn, replier'[w])
    <3>1. CASE replier'[w] = replier[w]
        BY <2>1, <3>1 DEF ReplyInvariant, ReplierInv
    <3>2. CASE /\ replier'[w].at = "tenant"
               /\ replier'[w].tenant = {tenantOn} /\ replier'[w].instance = {instanceOn}
        BY <3>2 DEF Passed, StoredSteps, Prompted
    <3> QED
        BY <3>1, <3>2
  <2> QED
      BY <1>1, <2>1 DEF ReplierInv
<1>10. ReplyInv'
  <2>1. ASSUME NEW d \in 1..Len(dispatched)
        PROVE  /\ Justified(memory, dispatched[d]) /\ ~Waiting(inbound', queue', dispatched[d].message)
               /\ \A v \in Workers : replier'[v].message # dispatched[d].message
    <3>1. /\ Justified(memory, dispatched[d]) /\ ~Waiting(inbound, queue, dispatched[d].message)
          /\ \A v \in Workers : replier[v].message # dispatched[d].message
        BY DEF ReplyInvariant, ReplyInv
    <3>2. dispatched[d].message \in Messages
      <4>1. dispatched[d] \in Reply
          BY ElementOfSeq DEF ReplyInvariant, Types
      <4> QED
          BY <4>1 DEF Reply
    <3> QED
        BY <3>1, <3>2
  <2> QED
      BY <1>1, <2>1 DEF ReplyInvariant, ReplyInv
<1> QED
    BY <1>2, <1>6, <1>8, <1>9, <1>10 DEF ReplyInvariant

LEMMA InboundKept ==
    ASSUME ReplyInvariant, NEW m \in Messages, HandleInboundAsync(m)
    PROVE  ReplyInvariant'
<1>1. /\ m \in inbound /\ inbound' = inbound \ {m} /\ replier' = replier
      /\ tenantOn' = tenantOn /\ instanceOn' = instanceOn /\ memory' = memory
      /\ dispatched' = dispatched
      /\ queue' = Append(queue, m) \/ queue' = queue
    BY DEF HandleInboundAsync, settings
<1>2. /\ inbound \subseteq Messages /\ queue \in Seq(Messages)
      /\ replier \in [Workers -> Busy \cup Free]
      /\ \A i \in 1..Len(queue) : queue[i] \notin inbound
      /\ \A i, j \in 1..Len(queue) : queue[i] = queue[j] => i = j
    BY DEF ReplyInvariant, Types, PlaceInv
<1>3. CASE queue' = queue
  <2>1. \A p \in Messages : Waiting(inbound', queue', p) => Waiting(inbound, queue, p)
      BY <1>1, <1>3 DEF Waiting
  <2> QED
      BY <1>1, <1>2, <1>3, <2>1, FewerWait
<1>4. CASE queue' = Append(queue, m)
  <2> DEFINE l == Len(queue)
             n == Len(queue')
  <2>1. /\ queue' \in Seq(Messages) /\ l \in Nat /\ n = l + 1
        /\ \A i \in 1..l : queue'[i] = queue[i] /\ i \in 1..n
        /\ queue'[n] = m
        /\ \A i \in 1..n : i \in 1..l \/ i = n
      BY <1>2, <1>4, Appended
  <2> HIDE DEF l, n
  <2>2. \A i \in 1..l : queue[i] # m /\ queue[i] \notin inbound
      BY <1>1, <1>2 DEF l
  <2>3. \A i \in 1..n : queue'[i] \notin inbound'
      BY <1>1, <2>1, <2>2
  <2>4. \A i, j \in 1..n : queue'[i] = queue'[j] => i = j
    <3> SUFFICES ASSUME NEW i \in 1..n, NEW j \in 1..n, queue'[i] = queue'[j]
                 PROVE  i = j
        OBVIOUS
    <3>1. CASE i \in 1..l /\ j \in 1..l
        BY <1>2, <2>1, <3>1 DEF l
    <3>2. CASE i = n \/ j = n
        BY <2>1, <2>2, <3>2
    <3> QED
        BY <2>1, <3>1, <3>2
  <2>5. ASSUME NEW p \in Messages, Waiting(inbound', queue', p)
        PROVE  Waiting(inbound, queue, p)
      BY <1>1, <2>1, <2>5 DEF Waiting, l, n
  <2> QED
      BY <1>1, <1>2, <2>1, <2>3, <2>4, <2>5, FewerWait DEF n
<1> QED
    BY <1>1, <1>3, <1>4

LEMMA TakeKept ==
    ASSUME ReplyInvariant, NEW w \in Workers, Take(w)
    PROVE  ReplyInvariant'
<1> DEFINE m == Head(queue)
           t == Tail(queue)
           y == [at |-> "tenant", message |-> m, prompt |-> <<>>,
                 tenant |-> {tenantOn}, instance |-> {instanceOn}]
<1>1. /\ queue # <<>> /\ queue' = t /\ inbound' = inbound
      /\ replier' = [replier EXCEPT ![w] = y]
      /\ tenantOn' = tenantOn /\ instanceOn' = instanceOn /\ memory' = memory
      /\ dispatched' = dispatched
    BY DEF Take, settings
<1>2. /\ inbound \subseteq Messages /\ queue \in Seq(Messages)
      /\ replier \in [Workers -> Busy \cup Free]
      /\ \A i \in 1..Len(queue) : queue[i] \notin inbound
      /\ \A i, j \in 1..Len(queue) : queue[i] = queue[j] => i = j
      /\ tenantOn \in BOOLEAN /\ instanceOn \in BOOLEAN
    BY DEF ReplyInvariant, Types, PlaceInv
<1> DEFINE l == Len(queue)
           n == Len(t)
<1>3. /\ m \in Messages /\ m = queue[1] /\ t \in Seq(Messages) /\ l \in Nat \ {0} /\ n = l - 1 /\ n \in Nat
      /\ \A i \in 1..n : t[i] = queue[i + 1]
    BY <1>1, <1>2, HeadTailProperties, LenProperties
<1>4. y \in Busy /\ y.at = "tenant" /\ y.message = m /\ y.tenant = {tenantOn} /\ y.instance = {instanceOn}
  <2>1. ASSUME NEW p \in Seq(RowType), NEW a \in SUBSET BOOLEAN, NEW b \in SUBSET BOOLEAN
        PROVE  [at |-> "tenant", message |-> m, prompt |-> p, tenant |-> a, instance |-> b] \in Busy
      BY <1>3 DEF Busy, Steps
  <2>2. <<>> \in Seq(RowType) /\ {tenantOn} \in SUBSET BOOLEAN /\ {instanceOn} \in SUBSET BOOLEAN
      BY <1>2, EmptySeq
  <2>3. y \in Busy
      BY <2>1, <2>2
  <2> QED
      BY <2>3
<1> HIDE DEF y, m, t, l, n
<1>5. 1 \in 1..l /\ \A i \in 1..n : i + 1 \in 1..l /\ i + 1 # 1
    BY <1>3
<1>6. /\ \A i \in 1..n : t[i] \notin inbound
      /\ \A i \in 1..n : t[i] # m
      /\ m \notin inbound
    BY <1>2, <1>3, <1>5 DEF l
<1>7. \A i, j \in 1..n : t[i] = t[j] => i = j
  <2> SUFFICES ASSUME NEW i \in 1..n, NEW j \in 1..n, t[i] = t[j]
               PROVE  i = j
      OBVIOUS
  <2>1. i + 1 = j + 1
      BY <1>2, <1>3, <1>5 DEF l
  <2> QED
      BY <1>3, <2>1
<1>8. Waiting(inbound, queue, m) /\ ~Waiting(inbound, t, m)
    BY <1>3, <1>5, <1>6 DEF Waiting, l, n
<1>9. \A p \in Messages : Waiting(inbound, t, p) => Waiting(inbound, queue, p)
    BY <1>3, <1>5 DEF Waiting, l, n
<1>10. /\ replier' \in [Workers -> Busy \cup Free] /\ replier'[w] = y
       /\ \A v \in Workers \ {w} : replier'[v] = replier[v]
    BY <1>1, <1>2, <1>4
<1>11. \A v \in Workers :
           \/ replier'[v] = replier[v]
           \/ /\ replier'[v] \in Busy /\ replier'[v].at = "tenant"
              /\ replier'[v].tenant = {tenantOn} /\ replier'[v].instance = {instanceOn}
              /\ Waiting(inbound, queue, replier'[v].message)
              /\ ~Waiting(inbound', queue', replier'[v].message)
              /\ \A u \in Workers \ {v} : replier'[u] = replier[u]
    BY <1>1, <1>4, <1>8, <1>10
<1> QED
    BY <1>1, <1>2, <1>3, <1>6, <1>7, <1>9, <1>10, <1>11, FewerWait DEF n

LEMMA ReturnKept ==
    ASSUME ReplyInvariant, NEW w \in Workers, Return(w)
    PROVE  ReplyInvariant'
<1> DEFINE y == [replier[w] EXCEPT !.at = "ended"]
<1>1. /\ replier[w].at = "select" /\ replier' = [replier EXCEPT ![w] = y]
      /\ UNCHANGED <<inbound, queue, tenantOn, instanceOn, dispatched, memory>>
    BY DEF Return, settings
<1>2. replier[w] \in Free
  <2>1. replier[w].at \notin Steps
      BY <1>1 DEF Steps, StoredSteps
  <2> QED
      BY <2>1, WorkerFacts
<1>3. y \in Free /\ y.message = Nothing
    BY <1>2 DEF Free
<1> HIDE DEF y
<1> QED
    BY <1>1, <1>3, WorkerMoves

\* A switch is turned: the workers under way note its value.
LEMMA SettingsKept ==
    ASSUME ReplyInvariant, NEW t \in BOOLEAN, NEW i \in BOOLEAN,
           tenantOn' = t, instanceOn' = i, replier' = Note(t, i),
           UNCHANGED <<inbound, queue, memory, dispatched>>
    PROVE  ReplyInvariant'
<1>1. inbound' = inbound /\ queue' = queue /\ memory' = memory /\ dispatched' = dispatched
    OBVIOUS
<1>2. ASSUME NEW w \in Workers
      PROVE  /\ replier'[w] \in Busy \cup Free
             /\ replier'[w].at = replier[w].at /\ replier'[w].message = replier[w].message
             /\ replier[w].message # Nothing => Passed(memory, t, i, replier'[w])
  <2> DEFINE x == replier[w]
             y == [x EXCEPT !.tenant = @ \cup {t}, !.instance = @ \cup {i}]
  <2>1. replier'[w] = IF x.message = Nothing THEN x ELSE y
      BY DEF Note
  <2>2. x \in Busy \cup Free /\ (x.message # Nothing => x \in Busy /\ Passed(memory, tenantOn, instanceOn, x))
      BY WorkerFacts
  <2>3. CASE x.message = Nothing
      BY <2>1, <2>2, <2>3
  <2>4. CASE x.message # Nothing
    <3> HIDE DEF x
    <3>1. x \in Busy
        BY <2>2, <2>4
    <3>2. x.tenant \cup {t} \in SUBSET BOOLEAN /\ x.instance \cup {i} \in SUBSET BOOLEAN
        BY <3>1 DEF Busy
    <3>3. /\ y \in Busy /\ y.at = x.at /\ y.message = x.message /\ y.prompt = x.prompt
          /\ y.tenant = x.tenant \cup {t} /\ y.instance = x.instance \cup {i}
        BY <3>1, <3>2 DEF Busy
    <3> HIDE DEF y
    <3>4. Passed(memory, t, i, y)
        BY <2>2, <2>4, <3>3 DEF Passed
    <3> QED
        BY <2>1, <2>4, <3>3, <3>4 DEF x
  <2> QED
      BY <2>3, <2>4
<1>3. replier' \in [Workers -> Busy \cup Free]
  <2>1. replier' = [w \in Workers |-> replier'[w]]
      BY DEF Note
  <2> QED
      BY <1>2, <2>1
<1>4. Types'
    BY <1>1, <1>3 DEF ReplyInvariant, Types
<1>5. PlaceInv'
    BY <1>1, <1>2 DEF ReplyInvariant, PlaceInv
<1>6. MemoryInv'
  <2>1. ASSUME NEW w \in Workers
        PROVE  OwnRows(memory, replier'[w])
    <3>1. OwnRows(memory, replier[w])
        BY DEF ReplyInvariant, MemoryInv
    <3> QED
        BY <1>2, <3>1 DEF OwnRows
  <2> QED
      BY <1>1, <2>1 DEF ReplyInvariant, MemoryInv
<1>7. ReplierInv'
    BY <1>1, <1>2 DEF ReplierInv
<1>8. ReplyInv'
    BY <1>1, <1>2 DEF ReplyInvariant, ReplyInv
<1> QED
    BY <1>4, <1>5, <1>6, <1>7, <1>8 DEF ReplyInvariant

\* Nothing but the context changes.
LEMMA NothingKept ==
    ASSUME ReplyInvariant,
           UNCHANGED <<inbound, queue, replier, tenantOn, instanceOn, memory, dispatched>>
    PROVE  ReplyInvariant'
<1>1. /\ inbound' = inbound /\ queue' = queue /\ replier' = replier /\ tenantOn' = tenantOn
      /\ instanceOn' = instanceOn /\ memory' = memory /\ dispatched' = dispatched
    OBVIOUS
<1> QED
    BY <1>1 DEF ReplyInvariant, Types, PlaceInv, MemoryInv, ReplierInv, ReplyInv

LEMMA InitInv ==
    ASSUME ReplyInit
    PROVE  ReplyInvariant
<1> DEFINE y == Idle
<1>1. /\ inbound = Messages /\ queue = <<>> /\ memory = <<>> /\ dispatched = <<>>
      /\ replier = [w \in Workers |-> y] /\ tenantOn \in BOOLEAN /\ instanceOn \in BOOLEAN
    BY DEF ReplyInit
<1>2. y \in Free /\ y.message = Nothing
    BY IdleFree
<1> HIDE DEF y
<1>3. Len(<<>>) = 0 /\ (\A S : <<>> \in Seq(S)) /\ ~ \E i \in 1..0 : TRUE
    BY EmptySeq
<1>4. replier \in [Workers -> Busy \cup Free] /\ \A w \in Workers : replier[w].message = Nothing
    BY <1>1, <1>2
<1>5. Types
    BY <1>1, <1>3, <1>4 DEF Types
<1>6. PlaceInv
    BY <1>1, <1>3, <1>4, AutoReplyAssumption DEF PlaceInv, Waiting
<1>7. MemoryInv /\ ReplierInv /\ ReplyInv
    BY <1>1, <1>3, <1>4 DEF MemoryInv, OwnRows, Orderly, ReplierInv, ReplyInv
<1> QED
    BY <1>5, <1>6, <1>7 DEF ReplyInvariant

LEMMA NextInv ==
    ASSUME ReplyInvariant, [ReplyNext]_replyVars
    PROVE  ReplyInvariant'
<1>1. ASSUME NEW m \in Messages, HandleInboundAsync(m)
      PROVE  ReplyInvariant'
    BY <1>1, InboundKept
<1>2. ASSUME NEW on \in BOOLEAN, ConfigureTenant(on) \/ ConfigureInstance(on)
      PROVE  ReplyInvariant'
  <2>1. tenantOn \in BOOLEAN /\ instanceOn \in BOOLEAN
      BY DEF ReplyInvariant, Types
  <2>2. CASE ConfigureTenant(on)
      BY <2>1, <2>2, SettingsKept DEF ConfigureTenant
  <2>3. CASE ConfigureInstance(on)
      BY <2>1, <2>3, SettingsKept DEF ConfigureInstance
  <2> QED
      BY <1>2, <2>2, <2>3
<1>3. ASSUME NEW w \in Workers, Take(w) \/ Return(w) \/ process(w)
      PROVE  ReplyInvariant'
    BY <1>3, TakeKept, ReturnKept, AskKept, StoreKept, DispatchKept DEF process
<1>4. CASE Cancel
    BY <1>4, NothingKept DEF Cancel, settings
<1>5. CASE UNCHANGED replyVars
    BY <1>5, NothingKept DEF replyVars, settings
<1> QED
    BY <1>1, <1>2, <1>3, <1>4, <1>5 DEF ReplyNext

-----------------------------------------------------------------------------
(* Theorems.                                                               *)

\* A message is with one worker at a time, which stores it and then its reply
\* once each, and makes a prompt that holds it or what was stored after it.
THEOREM AutoReplyInvariant == ReplySpec => []ReplyInvariant
<1>1. ReplyInit => ReplyInvariant
    BY InitInv
<1>2. ReplyInvariant /\ [ReplyNext]_replyVars => ReplyInvariant'
    BY NextInv
<1> QED
    BY <1>1, <1>2, PTL DEF ReplySpec

\* However many workers meet in a conversation, a reply that is sent answers
\* its message once, with both switches seen on, after the message and the
\* reply were stored once each in that order, from a prompt that held the
\* message or as many later rows as a prompt takes (Service.process,
\* generateReply).
THEOREM RepliesAreJustified == ReplySpec => []RepliesJustified
<1>1. ASSUME ReplyInvariant
      PROVE  RepliesJustified
  <2>1. /\ DOMAIN dispatched = 1..Len(dispatched) /\ DOMAIN memory = 1..Len(memory)
        /\ memory \in Seq(RowType) /\ dispatched \in Seq(Reply)
      BY <1>1, LenProperties DEF ReplyInvariant, Types
  <2>2. Orderly(memory)
      BY <1>1 DEF ReplyInvariant, MemoryInv
  <2> SUFFICES ASSUME NEW d \in 1..Len(dispatched)
               PROVE  LET x == dispatched[d]
                      IN  /\ \A e \in DOMAIN dispatched : dispatched[e].message = x.message => d = e
                          /\ TRUE \in x.tenant /\ TRUE \in x.instance
                          /\ \E i, j \in DOMAIN memory :
                               /\ Position("user", x.message) = {i}
                               /\ Position("assistant", x.message) = {j}
                               /\ i < j
                          /\ \/ MemoryRow("user", x.message) \in {x.prompt[i] : i \in DOMAIN x.prompt}
                             \/ /\ Len(x.prompt) = MemoryLimit
                                /\ \E i \in Position("user", x.message) :
                                     \E k \in i .. Len(memory) - MemoryLimit :
                                         x.prompt = SubSeq(memory, k + 1, k + MemoryLimit)
      BY <2>1 DEF RepliesJustified
  <2> DEFINE x == dispatched[d]
             m == x.message
  <2>3. /\ Justified(memory, x)
        /\ \A e \in 1..Len(dispatched) : dispatched[e].message = m => d = e
      BY <1>1 DEF ReplyInvariant, ReplyInv
  <2>4. x.prompt \in Seq(RowType) /\ m \in Messages
    <3>1. x \in Reply
        BY <2>1, ElementOfSeq
    <3> QED
        BY <3>1 DEF Reply
  <2> HIDE DEF x
  <2>5. PICK i \in 1..Len(memory) : memory[i] = MemoryRow("user", m)
      BY <2>3 DEF Justified, Remembered
  <2>6. PICK j \in 1..Len(memory) : memory[j] = MemoryRow("assistant", m)
      BY <2>3 DEF Justified, Remembered
  <2>7. Position("user", m) = {i} /\ Position("assistant", m) = {j}
    <3>1. \A k \in 1..Len(memory) : /\ memory[k] = MemoryRow("user", m) => k = i
                                    /\ memory[k] = MemoryRow("assistant", m) => k = j
        BY <2>2, <2>5, <2>6 DEF Orderly
    <3> QED
        BY <2>1, <2>5, <2>6, <3>1 DEF Position
  <2>8. i < j
    <3>1. memory[i].message = memory[j].message /\ memory[i].role = "user" /\ memory[j].role = "assistant"
        BY <2>5, <2>6 DEF MemoryRow
    <3> QED
        BY <2>2, <3>1 DEF Orderly
  <2>9. \/ MemoryRow("user", m) \in {x.prompt[k] : k \in DOMAIN x.prompt}
        \/ /\ Len(x.prompt) = MemoryLimit
           /\ \E k \in i..(Len(memory) - MemoryLimit) :
                  x.prompt = SubSeq(memory, k + 1, k + MemoryLimit)
    <3>1. CASE \E k \in 1..Len(x.prompt) : x.prompt[k] = MemoryRow("user", m)
        BY <2>4, <3>1, LenProperties
    <3>2. CASE /\ Len(x.prompt) = MemoryLimit
               /\ \E h \in 1..Len(memory) :
                    /\ memory[h] = MemoryRow("user", m)
                    /\ \E k \in h..(Len(memory) - MemoryLimit) :
                          x.prompt = SubSeq(memory, k + 1, k + MemoryLimit)
      <4>1. PICK h \in 1..Len(memory) :
                /\ memory[h] = MemoryRow("user", m)
                /\ \E k \in h..(Len(memory) - MemoryLimit) :
                      x.prompt = SubSeq(memory, k + 1, k + MemoryLimit)
          BY <3>2
      <4>2. h = i
          BY <2>2, <2>5, <4>1 DEF Orderly
      <4> QED
          BY <3>2, <4>1, <4>2
    <3> QED
        BY <2>3, <3>1, <3>2 DEF Justified, Grounded
  <2>10. TRUE \in x.tenant /\ TRUE \in x.instance
      BY <2>3 DEF Justified
  <2> QED
      BY <2>1, <2>3, <2>7, <2>8, <2>9, <2>10 DEF x
<1> QED
    BY <1>1, AutoReplyInvariant, PTL

-----------------------------------------------------------------------------
(* Webhook: what the steps do to the types of the deliveries.              *)


USE DEF endpointVars, tableVars, requestVars, workerVars, history

-----------------------------------------------------------------------------
(* A delivery is a pair of a request and an endpoint.                      *)
LEMMA DeliveryPair ==
    ASSUME NEW x \in Deliveries
    PROVE  x[1] \in Requests /\ x[2] \in Endpoints /\ x = <<x[1], x[2]>>
BY DEF Deliveries

(* NoRow and the rows the two writers produce are rows.                    *)
LEMMA RowTypes ==
    /\ NoRow \in Row
    /\ NoRows \in [Requests -> [Endpoints -> Row]]
    /\ \A a \in Answers : FirstRow(a) \in Row
    /\ \A d \in Row, a \in Answers : RetriedRow(d, a) \in Row
<1>1. NoRow \in Row /\ NoRows \in [Requests -> [Endpoints -> Row]]
    BY DEF NoRow, NoRows, Row, Status
<1>2. \A a, n : StatusAfter(a, n) \in Status
    BY DEF StatusAfter, Status
<1>3. \A a \in Answers : FirstRow(a) \in Row
    BY <1>2 DEF FirstRow, Row
<1>4. \A d \in Row, a \in Answers : RetriedRow(d, a) \in Row
    BY <1>2 DEF RetriedRow, Row
<1> QED
    BY <1>1, <1>3, <1>4

(* Updating one entry of a two-dimensional table.                          *)
LEMMA PutEntry ==
    ASSUME NEW A, NEW B, NEW C, NEW f \in [A -> [B -> C]],
           NEW a \in A, NEW b \in B, NEW c \in C,
           NEW g, g = [f EXCEPT ![a][b] = c]
    PROVE  /\ g \in [A -> [B -> C]]
           /\ \A x \in A, y \in B :
                 g[x][y] = IF x = a /\ y = b THEN c ELSE f[x][y]
<1>1. [f[a] EXCEPT ![b] = c] \in [B -> C]
    OBVIOUS
<1>2. g = [f EXCEPT ![a] = [f[a] EXCEPT ![b] = c]]
    OBVIOUS
<1> QED
    BY <1>1, <1>2

(* A POST is counted for one delivery.                                     *)
LEMMA SendEffect ==
    ASSUME TypeOK, NEW r \in Requests, NEW e \in Endpoints, NEW a \in Answers,
           SendOnce(r, e, a)
    PROVE  /\ sends' \in [Requests -> [Endpoints -> Nat]]
           /\ accepted' \in [Requests -> [Endpoints -> BOOLEAN]]
           /\ \A x \in Requests, y \in Endpoints :
                 sends'[x][y] = IF x = r /\ y = e THEN sends[r][e] + 1
                                                 ELSE sends[x][y]
           /\ \A x \in Requests, y \in Endpoints :
                 accepted'[x][y] = IF x = r /\ y = e
                                   THEN accepted[r][e] \/ a = "2xx"
                                   ELSE accepted[x][y]
           /\ lost' = lost /\ faults' = faults
<1>1. sends' = [sends EXCEPT ![r][e] = sends[r][e] + 1]
    BY DEF SendOnce, TypeOK
<1>2. accepted' = [accepted EXCEPT ![r][e] = accepted[r][e] \/ a = "2xx"]
    BY DEF SendOnce, TypeOK
<1>3. sends[r][e] + 1 \in Nat /\ (accepted[r][e] \/ a = "2xx") \in BOOLEAN
    BY DEF TypeOK
<1>4. sends \in [Requests -> [Endpoints -> Nat]]
      /\ accepted \in [Requests -> [Endpoints -> BOOLEAN]]
    BY DEF TypeOK
<1>5. /\ sends' \in [Requests -> [Endpoints -> Nat]]
      /\ \A x \in Requests, y \in Endpoints :
            sends'[x][y] = IF x = r /\ y = e THEN sends[r][e] + 1
                                            ELSE sends[x][y]
    BY <1>1, <1>3, <1>4, PutEntry
<1>6. /\ accepted' \in [Requests -> [Endpoints -> BOOLEAN]]
      /\ \A x \in Requests, y \in Endpoints :
            accepted'[x][y] = IF x = r /\ y = e
                              THEN accepted[r][e] \/ a = "2xx"
                              ELSE accepted[x][y]
    BY <1>2, <1>3, <1>4, PutEntry
<1> QED
    BY <1>5, <1>6 DEF SendOnce

(* A row is written for one delivery.                                      *)
LEMMA RowEffect ==
    ASSUME TypeOK, NEW r \in Requests, NEW e \in Endpoints, NEW d \in Row,
           rows' = [rows EXCEPT ![r][e] = d]
    PROVE  /\ rows' \in [Requests -> [Endpoints -> Row]]
           /\ \A x \in Requests, y \in Endpoints :
                 rows'[x][y] = IF x = r /\ y = e THEN d ELSE rows[x][y]
BY PutEntry DEF TypeOK

(* A retry is lost for one delivery.                                       *)
LEMMA LostEffect ==
    ASSUME TypeOK, NEW r \in Requests, NEW e \in Endpoints,
           lost' = [lost EXCEPT ![r][e] = @ + 1]
    PROVE  /\ lost' \in [Requests -> [Endpoints -> Nat]]
           /\ \A x \in Requests, y \in Endpoints :
                 lost'[x][y] = IF x = r /\ y = e THEN lost[r][e] + 1
                                                ELSE lost[x][y]
<1>1. lost' = [lost EXCEPT ![r][e] = lost[r][e] + 1] /\ lost[r][e] + 1 \in Nat
    BY DEF TypeOK
<1> QED
    BY <1>1, PutEntry DEF TypeOK

-----------------------------------------------------------------------------
LEMMA InitInductive == Init => DeliveryInductive
<1> SUFFICES ASSUME Init PROVE DeliveryInductive
    OBVIOUS
<1>1. TypeOK
    BY RowTypes, WebhookAssumption
       DEF Init, TypeOK, None, NoDelivery, Directions, Answers, Deliveries
<1>2. \A r \in Requests : RequestInv(r)
    BY DEF Init, RequestInv, Untouched, NoRows
<1>3. WorkerInv
    BY DEF Init, WorkerInv
<1>4. DeliveryBudget /\ OutcomeHonest
    BY DEF Init, DeliveryBudget, OutcomeHonest, BudgetAt, HonestAt, Stored,
              NoRows, NoRow
<1> QED
    BY <1>1, <1>2, <1>3, <1>4 DEF DeliveryInductive

-----------------------------------------------------------------------------
(* Steps of a request that neither post nor store anything, steps that     *)
(* create endpoints, and the passing of the dedupe window.                 *)

Quiet == /\ UNCHANGED <<rows, workerVars, sends, accepted, lost, faults>>
         /\ TypeOK'

LEMMA QuietStep ==
    ASSUME DeliveryInductive, Quiet
    PROVE  WorkerInv' /\ DeliveryBudget' /\ OutcomeHonest'
BY DEF DeliveryInductive, Quiet, WorkerInv, Current, DeliveryBudget,
       OutcomeHonest, BudgetAt, HonestAt, Stored, BeingSaved

(* A quiet step of another request keeps what a request knows.             *)
LEMMA QuietOthers ==
    ASSUME DeliveryInductive, Quiet, NEW q \in Requests,
           rpc'[q] = rpc[q], targets'[q] = targets[q], cur'[q] = cur[q],
           answer'[q] = answer[q]
    PROVE  RequestInv(q)'
BY DEF DeliveryInductive, Quiet, RequestInv, Untouched

LEMMA CreateStep ==
    ASSUME DeliveryInductive, NEW e \in Endpoints, NEW D \in FlagInputs,
           Create(e, D)
    PROVE  DeliveryInductive'
<1>1. Quiet
    <2>1. TypeOK'
        BY WebhookAssumption
           DEF DeliveryInductive, Create, TypeOK, StoredFlags, Directions
    <2> QED
        BY <2>1 DEF Create, Quiet
<1>2. \A q \in Requests : RequestInv(q)'
    BY <1>1, QuietOthers DEF Create
<1> QED
    BY <1>1, <1>2, QuietStep DEF DeliveryInductive, Quiet

LEMMA LeaveWindowStep ==
    ASSUME DeliveryInductive, NEW r \in Requests, NEW e \in Endpoints,
           LeaveWindow(r, e)
    PROVE  DeliveryInductive'
<1>1. Quiet
    BY DEF DeliveryInductive, LeaveWindow, TypeOK, Quiet
<1>2. \A q \in Requests : RequestInv(q)'
    BY <1>1, QuietOthers DEF LeaveWindow
<1> QED
    BY <1>1, <1>2, QuietStep DEF DeliveryInductive, Quiet

LEMMA DispatchStep ==
    ASSUME DeliveryInductive, NEW r \in Requests, NEW d \in Directions,
           NEW ev \in Events \cup {NoMessage}, Dispatch(r, d, ev)
    PROVE  DeliveryInductive'
<1> TypeOK
    BY DEF DeliveryInductive
<1>1. Quiet
    BY DEF Dispatch, Goto, TypeOK, Quiet
<1>2. ASSUME NEW q \in Requests PROVE RequestInv(q)'
    <2>1. CASE q # r
        BY <1>1, <2>1, QuietOthers DEF Dispatch, Goto, TypeOK
    <2>2. CASE q = r
        BY <1>1, <2>2 DEF Dispatch, Goto, TypeOK, Quiet, DeliveryInductive,
                          RequestInv, Untouched
    <2> QED
        BY <2>1, <2>2
<1> QED
    BY <1>1, <1>2, QuietStep DEF DeliveryInductive, Quiet

LEMMA CheckStep ==
    ASSUME DeliveryInductive, NEW r \in Requests, CheckRecent(r)
    PROVE  DeliveryInductive'
<1> TypeOK
    BY DEF DeliveryInductive
<1>1. Quiet
    BY DEF CheckRecent, AfterDispatch, Goto, TypeOK, Quiet
<1>2. ASSUME NEW q \in Requests PROVE RequestInv(q)'
    <2>1. CASE q # r
        BY <1>1, <2>1, QuietOthers DEF CheckRecent, Goto, TypeOK
    <2>2. CASE q = r
        BY <1>1, <2>2 DEF CheckRecent, AfterDispatch, Goto, TypeOK, Quiet,
                          DeliveryInductive, RequestInv, Untouched
    <2> QED
        BY <2>1, <2>2
<1> QED
    BY <1>1, <1>2, QuietStep DEF DeliveryInductive, Quiet

LEMMA ListStep ==
    ASSUME DeliveryInductive, NEW r \in Requests, ListEndpoints(r)
    PROVE  DeliveryInductive'
<1> TypeOK
    BY DEF DeliveryInductive
<1> DEFINE found == {e \in Endpoints : ShouldDeliver(e, dir[r])}
<1>1. \E l \in {"post", "trigger", "done"} : rpc' = [rpc EXCEPT ![r] = l]
    BY DEF ListEndpoints, AfterDispatch, Goto
<1>2. targets' = [targets EXCEPT ![r] = found] \/ targets' = targets
    BY DEF ListEndpoints
<1>3. found \subseteq Endpoints
    OBVIOUS
<1> HIDE DEF found
<1>4. Quiet
    <2>1. rpc' \in [Requests -> {"new", "check", "list", "post", "persist",
                                "trigger", "done"}]
        BY <1>1 DEF TypeOK
    <2>2. targets' \in [Requests -> SUBSET Endpoints]
        BY <1>2, <1>3, ZenonT(60) DEF TypeOK
    <2> QED
        BY <2>1, <2>2 DEF ListEndpoints, TypeOK, Quiet
<1>5. ASSUME NEW q \in Requests PROVE RequestInv(q)'
    <2>1. CASE q # r
        BY <1>1, <1>2, <1>4, <2>1, QuietOthers DEF ListEndpoints, TypeOK
    <2>2. CASE q = r
        <3>1. \A e \in Endpoints : Untouched(r, e)
            BY DEF DeliveryInductive, RequestInv, ListEndpoints
        <3>2. \A e \in Endpoints : Untouched(r, e)'
            BY <3>1, <1>4 DEF Quiet, Untouched
        <3>3. targets'[r] \subseteq Endpoints
            BY <1>4 DEF Quiet, TypeOK
        <3>4. rpc'[r] \in {"post", "trigger", "done"}
            BY <1>1 DEF TypeOK
        <3> QED
            BY <2>2, <3>2, <3>3, <3>4 DEF RequestInv
    <2> QED
        BY <2>1, <2>2
<1> QED
    BY <1>4, <1>5, QuietStep DEF DeliveryInductive, Quiet

LEMMA TriggerStep ==
    ASSUME DeliveryInductive, NEW r \in Requests, TriggerAI(r)
    PROVE  DeliveryInductive'
<1> TypeOK
    BY DEF DeliveryInductive
<1>1. Quiet
    BY DEF TriggerAI, Goto, TypeOK, Quiet
<1>2. ASSUME NEW q \in Requests PROVE RequestInv(q)'
    <2>1. CASE q # r
        BY <1>1, <2>1, QuietOthers DEF TriggerAI, Goto, TypeOK
    <2>2. CASE q = r
        BY <1>1, <2>2 DEF TriggerAI, Goto, TypeOK, Quiet, DeliveryInductive,
                          RequestInv, Untouched
    <2> QED
        BY <2>1, <2>2
<1> QED
    BY <1>1, <1>2, QuietStep DEF DeliveryInductive, Quiet

-----------------------------------------------------------------------------
(* Steps that post or store.                                               *)

LEMMA PostStep ==
    ASSUME DeliveryInductive, NEW r \in Requests, Post(r)
    PROVE  DeliveryInductive'
<1> TypeOK /\ WorkerInv /\ RequestInv(r)
    BY DEF DeliveryInductive
<1> PICK e \in targets[r], a \in Answers :
          /\ SendOnce(r, e, a)
          /\ cur'     = [cur EXCEPT ![r] = <<r, e>>]
          /\ answer'  = [answer EXCEPT ![r] = a]
          /\ targets' = [targets EXCEPT ![r] = @ \ {e}]
    BY DEF Post
<1> e \in Endpoints /\ <<r, e>> \in Deliveries
    BY DEF TypeOK, Deliveries
<1>1. Untouched(r, e)
    BY DEF RequestInv
<1>2. /\ sends' \in [Requests -> [Endpoints -> Nat]]
      /\ accepted' \in [Requests -> [Endpoints -> BOOLEAN]]
      /\ \A x \in Requests, y \in Endpoints :
            sends'[x][y] = IF x = r /\ y = e THEN sends[r][e] + 1
                                            ELSE sends[x][y]
      /\ \A x \in Requests, y \in Endpoints :
            accepted'[x][y] = IF x = r /\ y = e
                              THEN accepted[r][e] \/ a = "2xx"
                              ELSE accepted[x][y]
      /\ lost' = lost /\ faults' = faults
    BY SendEffect
<1>3. /\ rows' = rows /\ UNCHANGED workerVars
      /\ rpc' = [rpc EXCEPT ![r] = "persist"]
    BY DEF Post, Goto
<1>4. TypeOK'
    BY <1>2, <1>3 DEF Post, TypeOK
<1>5. ASSUME NEW q \in Requests PROVE RequestInv(q)'
    <2>1. CASE q # r
        <3>1. RequestInv(q)
            BY DEF DeliveryInductive
        <3>2. rpc'[q] = rpc[q] /\ targets'[q] = targets[q] /\ cur'[q] = cur[q]
              /\ answer'[q] = answer[q] /\ targets[q] \subseteq Endpoints
            BY <2>1, <1>3 DEF TypeOK
        <3>3. \A y \in Endpoints :
                 /\ sends'[q][y] = sends[q][y] /\ accepted'[q][y] = accepted[q][y]
                 /\ lost'[q][y] = lost[q][y] /\ rows'[q][y] = rows[q][y]
            BY <2>1, <1>2, <1>3
        <3> QED
            BY <3>1, <3>2, <3>3 DEF RequestInv, Untouched
    <2>2. CASE q = r
        <3>1. rpc'[r] = "persist" /\ cur'[r] = <<r, e>> /\ answer'[r] = a
              /\ targets'[r] = targets[r] \ {e} /\ targets[r] \subseteq Endpoints
            BY <1>3 DEF TypeOK
        <3>2. \A y \in targets[r] \ {e} : Untouched(r, y)'
            BY <3>1, <1>2, <1>3, ZenonT(60) DEF RequestInv, Untouched
        <3>3. rows'[r][e] = NoRow /\ sends'[r][e] = 1 /\ lost'[r][e] = 0
              /\ (accepted'[r][e] <=> a = "2xx")
            BY <1>1, <1>2, <1>3 DEF Untouched
        <3> QED
            BY <2>2, <3>1, <3>2, <3>3 DEF RequestInv
    <2> QED
        BY <2>1, <2>2
<1>6. WorkerInv'
    <2>1. worker = "save" => trying # <<r, e>>
        BY <1>1 DEF WorkerInv, Current, Untouched, NoRow
    <2>2. worker = "save" =>
             /\ trying[1] \in Requests /\ trying[2] \in Endpoints
             /\ ~(trying[1] = r /\ trying[2] = e)
        BY <2>1, DeliveryPair DEF WorkerInv
    <2> QED
        BY <1>2, <1>3, <2>2 DEF WorkerInv, Current
<1>7. ASSUME NEW x \in Requests, NEW y \in Endpoints
      PROVE  BudgetAt(x, y)' /\ HonestAt(x, y)'
    <2>1. BudgetAt(x, y) /\ HonestAt(x, y)
        BY DEF DeliveryInductive, DeliveryBudget, OutcomeHonest
    <2>2. CASE x = r /\ y = e
        BY <1>1, <1>2, <1>3, <2>2 DEF Untouched, BudgetAt, HonestAt, Stored, NoRow
    <2>3. CASE ~(x = r /\ y = e)
        BY <1>2, <1>3, <2>1, <2>3 DEF BudgetAt, HonestAt, Stored, BeingSaved
    <2> QED
        BY <2>2, <2>3
<1> QED
    BY <1>4, <1>5, <1>6, <1>7
       DEF DeliveryInductive, DeliveryBudget, OutcomeHonest

LEMMA PersistStep ==
    ASSUME DeliveryInductive, NEW r \in Requests, Persist(r)
    PROVE  DeliveryInductive'
<1> TypeOK /\ WorkerInv /\ RequestInv(r)
    BY DEF DeliveryInductive
<1> PICK e \in Endpoints :
          /\ cur[r] = <<r, e>>
          /\ e \notin targets[r]
          /\ rows[r][e] = NoRow
          /\ sends[r][e] = 1
          /\ lost[r][e] = 0
          /\ accepted[r][e] <=> answer[r] = "2xx"
    BY DEF Persist, RequestInv
<1> DEFINE d == FirstRow(answer[r])
<1>1. d \in Row
    BY RowTypes DEF TypeOK
<1>2. /\ d.status \in {"delivered", "retrying", "failed"} /\ d.attempts = 1
      /\ d.status = "delivered" <=> answer[r] = "2xx"
      /\ d.status = "retrying" => 1 < MaxAttempts
      /\ d.status = "failed" => MaxAttempts = 1
    BY WebhookAssumption DEF FirstRow, StatusAfter, Success
<1> HIDE DEF d
<1>3. \/ rows' = [rows EXCEPT ![r][e] = d] /\ window' = window \cup {<<r, e>>}
      \/ rows' = rows /\ window' = window
    BY DEF Persist, d
<1>4. /\ rows' \in [Requests -> [Endpoints -> Row]]
      /\ \A x \in Requests, y \in Endpoints :
            rows'[x][y] # rows[x][y] => x = r /\ y = e /\ rows'[x][y] = d
    <2>1. CASE rows' = [rows EXCEPT ![r][e] = d]
        BY <1>1, <2>1, RowEffect
    <2>2. CASE rows' = rows
        BY <2>2 DEF TypeOK
    <2> QED
        BY <1>3, <2>1, <2>2
<1>5. /\ UNCHANGED <<workerVars, sends, accepted, lost, faults, targets>>
      /\ \E l \in {"post", "trigger", "done"} : rpc' = [rpc EXCEPT ![r] = l]
      /\ cur' = [cur EXCEPT ![r] = NoDelivery]
      /\ answer' = [answer EXCEPT ![r] = "error"]
    BY DEF Persist, AfterDispatch, Goto
<1>6. TypeOK'
    <2>1. window' \subseteq Deliveries
        BY <1>3 DEF TypeOK, Deliveries
    <2> QED
        BY <1>4, <1>5, <2>1 DEF Persist, TypeOK, Answers
<1>7. ASSUME NEW q \in Requests PROVE RequestInv(q)'
    <2> RequestInv(q) /\ targets[q] \subseteq Endpoints
        BY DEF DeliveryInductive, TypeOK
    <2>1. CASE q # r
        <3>1. rpc'[q] = rpc[q] /\ cur'[q] = cur[q] /\ answer'[q] = answer[q]
              /\ targets'[q] = targets[q]
              /\ \A y \in Endpoints : rows'[q][y] = rows[q][y]
            BY <1>4, <1>5, <2>1 DEF TypeOK
        <3> QED
            BY <1>5, <3>1 DEF RequestInv, Untouched
    <2>2. CASE q = r
        <3>1. rpc'[r] \in {"post", "trigger", "done"} /\ targets'[r] = targets[r]
            BY <1>5 DEF TypeOK
        <3>2. \A y \in targets[r] : rows'[r][y] = rows[r][y]
            BY <1>4, <2>2
        <3> QED
            BY <1>5, <2>2, <3>1, <3>2 DEF RequestInv, Untouched
    <2> QED
        BY <2>1, <2>2
<1>8. ASSUME NEW x \in Deliveries, Current(x) PROVE Current(x)'
    <2>1. x[1] \in Requests /\ x[2] \in Endpoints
        BY DeliveryPair
    <2>2. rows'[x[1]][x[2]] = rows[x[1]][x[2]]
        BY <1>4, <1>8, <2>1 DEF Current, NoRow
    <2> QED
        BY <1>5, <1>8, <2>2 DEF Current
<1>9. WorkerInv'
    BY <1>5, <1>8 DEF WorkerInv, TypeOK
<1>10. ASSUME NEW x \in Requests, NEW y \in Endpoints
       PROVE  BudgetAt(x, y)' /\ HonestAt(x, y)'
    <2>1. BudgetAt(x, y) /\ HonestAt(x, y)
        BY DEF DeliveryInductive, DeliveryBudget, OutcomeHonest
    <2>2. CASE rows'[x][y] = rows[x][y]
        BY <1>5, <2>1, <2>2 DEF BudgetAt, HonestAt, Stored, BeingSaved
    <2>3. CASE rows'[x][y] # rows[x][y]
        <3>1. x = r /\ y = e /\ rows'[x][y] = d
            BY <1>4, <2>3
        <3>2. ~BeingSaved(r, e)
            BY DEF BeingSaved, WorkerInv, Current, NoRow
        <3>3. ~BeingSaved(r, e)'
            BY <3>2, <1>5 DEF BeingSaved
        <3> QED
            BY <1>2, <1>5, <3>1, <3>3, WebhookAssumption
               DEF BudgetAt, HonestAt, Stored
    <2> QED
        BY <2>2, <2>3
<1> QED
    BY <1>6, <1>7, <1>9, <1>10
       DEF DeliveryInductive, DeliveryBudget, OutcomeHonest

-----------------------------------------------------------------------------
(* Steps of the retry worker, the backoff and the restart.                 *)

(* Steps that leave the rows and every request alone keep RequestInv when  *)
(* they post only for stored deliveries.                                   *)
LEMMA RequestsKept ==
    ASSUME DeliveryInductive, UNCHANGED requestVars,
           \A x \in Requests, y \in Endpoints :
              rows[x][y] = NoRow => /\ rows'[x][y] = NoRow
                                    /\ sends'[x][y] = sends[x][y]
                                    /\ lost'[x][y] = lost[x][y]
                                    /\ accepted'[x][y] = accepted[x][y]
    PROVE  \A q \in Requests : RequestInv(q)'
<1> SUFFICES ASSUME NEW q \in Requests PROVE RequestInv(q)'
    OBVIOUS
<1>1. RequestInv(q) /\ targets[q] \subseteq Endpoints
    BY DEF DeliveryInductive, TypeOK
<1> QED
    BY <1>1 DEF RequestInv, Untouched

LEMMA ListDueStep ==
    ASSUME DeliveryInductive, ListDueRetries
    PROVE  DeliveryInductive'
<1> TypeOK /\ WorkerInv
    BY DEF DeliveryInductive
<1> DEFINE due == {x \in Deliveries : Due(rows[x[1]][x[2]])}
<1>1. /\ worker = "idle"
      /\ batch' \subseteq due
      /\ copy' = IF due = {} THEN NoRows ELSE rows
      /\ worker' = IF due = {} THEN "idle" ELSE "retry"
      /\ UNCHANGED <<rows, requestVars, trying, reply, history>>
    BY DEF ListDueRetries
<1>2. due \subseteq Deliveries /\ \A x \in due : Due(rows[x[1]][x[2]])
    OBVIOUS
<1> HIDE DEF due
<1>3. TypeOK'
    BY <1>1, <1>2, RowTypes DEF TypeOK, ListDueRetries
<1>4. \A q \in Requests : RequestInv(q)'
    BY <1>1, RequestsKept
<1>5. WorkerInv'
    <2>1. \A x \in batch' : Current(x)'
        BY <1>1, <1>2 DEF Current, Due
    <2> QED
        BY <1>1, <2>1 DEF WorkerInv
<1>6. DeliveryBudget' /\ OutcomeHonest'
    BY <1>1 DEF DeliveryInductive, DeliveryBudget, OutcomeHonest, BudgetAt,
                HonestAt, Stored, BeingSaved
<1> QED
    BY <1>3, <1>4, <1>5, <1>6 DEF DeliveryInductive

LEMMA RetryStep ==
    ASSUME DeliveryInductive, RetryDelivery
    PROVE  DeliveryInductive'
<1> TypeOK /\ WorkerInv
    BY DEF DeliveryInductive
<1> PICK z \in batch, a \in Answers :
          /\ SendOnce(z[1], z[2], a)
          /\ trying' = z
          /\ reply'  = a
          /\ batch'  = batch \ {z}
    BY DEF RetryDelivery
<1> DEFINE r == z[1]
           e == z[2]
<1> z \in Deliveries /\ r \in Requests /\ e \in Endpoints /\ z = <<r, e>>
    BY DeliveryPair DEF TypeOK
<1>1. Current(z)
    BY DEF WorkerInv
<1>2. /\ sends' \in [Requests -> [Endpoints -> Nat]]
      /\ accepted' \in [Requests -> [Endpoints -> BOOLEAN]]
      /\ \A x \in Requests, y \in Endpoints :
            sends'[x][y] = IF x = r /\ y = e THEN sends[r][e] + 1
                                            ELSE sends[x][y]
      /\ \A x \in Requests, y \in Endpoints :
            accepted'[x][y] = IF x = r /\ y = e
                              THEN accepted[r][e] \/ a = "2xx"
                              ELSE accepted[x][y]
      /\ lost' = lost /\ faults' = faults
    BY SendEffect
<1>3. /\ worker = "retry" /\ worker' = "save"
      /\ UNCHANGED <<rows, copy, requestVars>>
    BY DEF RetryDelivery
<1>4. rows[r][e].status = "retrying" /\ Stored(r, e) /\ rows[r][e] # NoRow
    BY <1>1 DEF Current, Stored, NoRow
<1>5. BudgetAt(r, e) /\ HonestAt(r, e)
    BY DEF DeliveryInductive, DeliveryBudget, OutcomeHonest
<1>6. TypeOK'
    BY <1>2, <1>3 DEF TypeOK, RetryDelivery
<1>7. \A q \in Requests : RequestInv(q)'
    BY <1>2, <1>3, <1>4, RequestsKept
<1>8. WorkerInv'
    <2>1. \A x \in batch : Current(x)'
        BY <1>3 DEF WorkerInv, Current
    <2>2. accepted[r][e] /\ lost[r][e] = 0 => FALSE
        BY <1>3, <1>4, <1>5 DEF HonestAt, BeingSaved
    <2>3. /\ a = "2xx" => accepted'[r][e]
          /\ accepted'[r][e] /\ lost'[r][e] = 0 => a = "2xx"
        BY <1>2, <2>2
    <2> QED
        BY <1>3, <2>1, <2>3 DEF WorkerInv
<1>9. ASSUME NEW x \in Requests, NEW y \in Endpoints
      PROVE  BudgetAt(x, y)' /\ HonestAt(x, y)'
    <2>1. BudgetAt(x, y) /\ HonestAt(x, y)
        BY DEF DeliveryInductive, DeliveryBudget, OutcomeHonest
    <2>2. CASE x = r /\ y = e
        <3>1. BeingSaved(x, y)' /\ ~BeingSaved(x, y)
            BY <1>3, <2>2 DEF BeingSaved
        <3>2. sends'[x][y] = sends[x][y] + 1 /\ lost'[x][y] = lost[x][y]
              /\ rows'[x][y] = rows[x][y]
            BY <1>2, <1>3, <2>2
        <3>3. rows[x][y] \in Row /\ lost[x][y] \in Nat /\ sends[x][y] \in Nat
            BY DEF TypeOK
        <3>4. BudgetAt(x, y)'
            BY <1>4, <2>1, <2>2, <3>1, <3>2, <3>3 DEF BudgetAt, Stored, Row
        <3>5. HonestAt(x, y)'
            BY <1>4, <2>2, <3>1, <3>2 DEF HonestAt
        <3> QED
            BY <3>4, <3>5
    <2>3. CASE ~(x = r /\ y = e)
        <3>1. ~BeingSaved(x, y)' /\ ~BeingSaved(x, y)
            BY <1>3, <2>3 DEF BeingSaved
        <3> QED
            BY <1>2, <1>3, <2>1, <2>3, <3>1 DEF BudgetAt, HonestAt, Stored
    <2> QED
        BY <2>2, <2>3
<1> QED
    BY <1>6, <1>7, <1>8, <1>9
       DEF DeliveryInductive, DeliveryBudget, OutcomeHonest

LEMMA UpdateStep ==
    ASSUME DeliveryInductive, UpdateDelivery
    PROVE  DeliveryInductive'
<1> TypeOK /\ WorkerInv
    BY DEF DeliveryInductive
<1> DEFINE r == trying[1]
           e == trying[2]
           d == RetriedRow(rows[r][e], reply)
<1>1. worker = "save"
    BY DEF UpdateDelivery
<1>2. /\ trying \in Deliveries \ batch /\ Current(trying)
      /\ reply = "2xx" => accepted[r][e]
      /\ accepted[r][e] /\ lost[r][e] = 0 => reply = "2xx"
    BY <1>1 DEF WorkerInv
<1> r \in Requests /\ e \in Endpoints /\ trying = <<r, e>>
    BY <1>2, DeliveryPair
<1>3. d \in Row /\ rows[r][e] \in Row /\ lost[r][e] \in Nat
    BY RowTypes DEF TypeOK
<1>4. /\ d.attempts = rows[r][e].attempts + 1
      /\ d.status \in {"delivered", "retrying", "failed"}
      /\ d.status = "delivered" <=> reply = "2xx"
      /\ d.status = "retrying" => d.attempts < MaxAttempts
      /\ d.status = "failed" => d.attempts >= MaxAttempts
    BY <1>3, WebhookAssumption DEF RetriedRow, StatusAfter, Success, Row
<1>5. \/ rows' = [rows EXCEPT ![r][e] = d] /\ UNCHANGED <<lost, faults>>
      \/ /\ lost' = [lost EXCEPT ![r][e] = @ + 1] /\ rows' = rows
         /\ faults < MaxFaults /\ faults' = faults + 1
    BY <1>2 DEF UpdateDelivery, Current
<1>6. /\ UNCHANGED <<sends, accepted, requestVars, batch>>
      /\ trying' = NoDelivery /\ reply' = "error"
      /\ worker' = IF batch = {} THEN "idle" ELSE "retry"
      /\ copy' = IF batch = {} THEN NoRows ELSE copy
    BY DEF UpdateDelivery
<1> HIDE DEF d
<1>7. \/ /\ rows' \in [Requests -> [Endpoints -> Row]]
         /\ \A x \in Requests, y \in Endpoints :
               rows'[x][y] = IF x = r /\ y = e THEN d ELSE rows[x][y]
         /\ UNCHANGED <<lost, faults>>
      \/ /\ rows' = rows
         /\ lost' \in [Requests -> [Endpoints -> Nat]]
         /\ \A x \in Requests, y \in Endpoints :
               lost'[x][y] = IF x = r /\ y = e THEN lost[r][e] + 1
                                              ELSE lost[x][y]
         /\ faults' \in 0..MaxFaults
    <2>1. CASE rows' = [rows EXCEPT ![r][e] = d] /\ UNCHANGED <<lost, faults>>
        BY <1>3, <2>1, RowEffect, ZenonT(60)
    <2>2. CASE /\ lost' = [lost EXCEPT ![r][e] = @ + 1] /\ rows' = rows
               /\ faults < MaxFaults /\ faults' = faults + 1
        <3>1. faults' \in 0..MaxFaults
            BY <2>2, WebhookAssumption DEF TypeOK
        <3> QED
            BY <2>2, <3>1, LostEffect, ZenonT(60)
    <2> QED
        BY <1>5, <2>1, <2>2
<1>8. TypeOK'
    <2>1. rows' \in [Requests -> [Endpoints -> Row]]
          /\ lost' \in [Requests -> [Endpoints -> Nat]] /\ faults' \in 0..MaxFaults
        BY <1>7 DEF TypeOK
    <2>2. copy' \in [Requests -> [Endpoints -> Row]]
        BY <1>6, RowTypes DEF TypeOK
    <2> QED
        BY <1>6, <2>1, <2>2 DEF UpdateDelivery, TypeOK, Answers
<1>9. \A q \in Requests : RequestInv(q)'
    <2>1. rows[r][e] # NoRow
        BY <1>2 DEF Current, NoRow
    <2> QED
        BY <1>6, <1>7, <2>1, RequestsKept
<1>10. WorkerInv'
    <2>1. ASSUME NEW x \in batch PROVE Current(x)'
        <3>1. x[1] \in Requests /\ x[2] \in Endpoints /\ x = <<x[1], x[2]>>
            BY DeliveryPair DEF TypeOK
        <3>2. ~(x[1] = r /\ x[2] = e)
            BY <1>2, <3>1
        <3>3. rows'[x[1]][x[2]] = rows[x[1]][x[2]]
            BY <1>7, <3>1, <3>2
        <3> QED
            BY <1>6, <3>3 DEF WorkerInv, Current
    <2> QED
        BY <1>6, <2>1 DEF WorkerInv
<1>11. ASSUME NEW x \in Requests, NEW y \in Endpoints
       PROVE  BudgetAt(x, y)' /\ HonestAt(x, y)'
    <2>1. BudgetAt(x, y) /\ HonestAt(x, y)
        BY DEF DeliveryInductive, DeliveryBudget, OutcomeHonest
    <2>2. ~BeingSaved(x, y)'
        BY <1>6 DEF BeingSaved
    <2>3. CASE x = r /\ y = e
        <3>1. BeingSaved(x, y) /\ rows[x][y].status = "retrying" /\ Stored(x, y)
            BY <1>1, <1>2, <2>3 DEF BeingSaved, Current, Stored
        <3>2. /\ rows[x][y].attempts \in 1..MaxAttempts
              /\ rows[x][y].attempts < MaxAttempts
              /\ sends[x][y] = rows[x][y].attempts + lost[x][y] + 1
            BY <2>1, <3>1 DEF BudgetAt
        <3>3. CASE rows'[r][e] = d /\ UNCHANGED <<lost, faults>>
            BY <1>2, <1>3, <1>4, <1>6, <2>2, <2>3, <3>2, <3>3, WebhookAssumption
               DEF BudgetAt, HonestAt, Stored, Row
        <3>4. CASE rows' = rows /\ lost'[r][e] = lost[r][e] + 1
            BY <1>3, <1>6, <2>1, <2>2, <2>3, <3>1, <3>2, <3>4, WebhookAssumption
               DEF BudgetAt, HonestAt, Stored, Row
        <3> QED
            BY <1>7, <3>3, <3>4
    <2>4. CASE ~(x = r /\ y = e)
        <3>1. ~BeingSaved(x, y)
            BY <2>4 DEF BeingSaved
        <3>2. rows'[x][y] = rows[x][y] /\ lost'[x][y] = lost[x][y]
            BY <1>7, <2>4
        <3> QED
            BY <1>6, <2>1, <2>2, <3>1, <3>2 DEF BudgetAt, HonestAt, Stored
    <2> QED
        BY <2>3, <2>4
<1> QED
    BY <1>8, <1>9, <1>10, <1>11
       DEF DeliveryInductive, DeliveryBudget, OutcomeHonest

LEMMA BackoffStep ==
    ASSUME DeliveryInductive, NEW r \in Requests, NEW e \in Endpoints,
           BackoffElapses(r, e)
    PROVE  DeliveryInductive'
<1> TypeOK /\ WorkerInv
    BY DEF DeliveryInductive
<1> DEFINE d == [rows[r][e] EXCEPT !.due = TRUE]
<1>1. rows[r][e] \in Row /\ rows[r][e].status = "retrying" /\ ~rows[r][e].due
    BY DEF BackoffElapses, TypeOK
<1>2. d \in Row /\ d.status = rows[r][e].status /\ d.attempts = rows[r][e].attempts
    BY <1>1 DEF Row
<1>3. rows' = [rows EXCEPT ![r][e] = d]
    BY DEF BackoffElapses, TypeOK
<1> HIDE DEF d
<1>4. /\ rows' \in [Requests -> [Endpoints -> Row]]
      /\ \A x \in Requests, y \in Endpoints :
            rows'[x][y] = IF x = r /\ y = e THEN d ELSE rows[x][y]
    BY <1>2, <1>3, RowEffect
<1>5. UNCHANGED <<requestVars, workerVars, history>>
    BY DEF BackoffElapses
<1>6. TypeOK'
    BY <1>4, <1>5 DEF BackoffElapses, TypeOK
<1>7. \A q \in Requests : RequestInv(q)'
    <2>1. rows[r][e] # NoRow
        BY <1>1 DEF NoRow
    <2> QED
        BY <1>4, <1>5, <2>1, RequestsKept
<1>8. ASSUME NEW x \in Deliveries, Current(x) PROVE Current(x)'
    <2>1. x[1] \in Requests /\ x[2] \in Endpoints
        BY DeliveryPair
    <2>2. rows'[x[1]][x[2]] = rows[x[1]][x[2]]
        BY <1>1, <1>4, <1>8, <2>1 DEF Current
    <2> QED
        BY <1>5, <1>8, <2>2 DEF Current
<1>9. WorkerInv'
    BY <1>5, <1>8 DEF WorkerInv, TypeOK
<1>10. DeliveryBudget' /\ OutcomeHonest'
    <2>1. ASSUME NEW x \in Requests, NEW y \in Endpoints
          PROVE  BudgetAt(x, y)' /\ HonestAt(x, y)'
        <3>1. BudgetAt(x, y) /\ HonestAt(x, y)
            BY DEF DeliveryInductive, DeliveryBudget, OutcomeHonest
        <3>2. rows'[x][y].status = rows[x][y].status
              /\ rows'[x][y].attempts = rows[x][y].attempts
            BY <1>2, <1>4
        <3> QED
            BY <1>5, <3>1, <3>2 DEF BudgetAt, HonestAt, Stored, BeingSaved
    <2> QED
        BY <2>1 DEF DeliveryBudget, OutcomeHonest
<1> QED
    BY <1>6, <1>7, <1>9, <1>10 DEF DeliveryInductive

LEMMA RestartStep ==
    ASSUME DeliveryInductive, Restart
    PROVE  DeliveryInductive'
<1> TypeOK /\ WorkerInv
    BY DEF DeliveryInductive
<1>1. /\ worker' = "idle" /\ batch' = {} /\ UNCHANGED <<rows, sends, accepted>>
      /\ rpc' = [q \in Requests |-> IF rpc[q] = "new" THEN "new" ELSE "done"]
      /\ targets' = [q \in Requests |-> {}]
    BY DEF Restart
<1>2. /\ lost' \in [Requests -> [Endpoints -> Nat]]
      /\ \A x \in Requests, y \in Endpoints :
            lost'[x][y] = IF BeingSaved(x, y) THEN lost[x][y] + 1 ELSE lost[x][y]
    <2>1. CASE worker = "save"
        <3>1. /\ trying[1] \in Requests /\ trying[2] \in Endpoints
              /\ trying = <<trying[1], trying[2]>>
            BY <2>1, DeliveryPair DEF WorkerInv
        <3>2. /\ lost' \in [Requests -> [Endpoints -> Nat]]
              /\ \A x \in Requests, y \in Endpoints :
                    lost'[x][y] = IF x = trying[1] /\ y = trying[2]
                                  THEN lost[trying[1]][trying[2]] + 1
                                  ELSE lost[x][y]
            BY <2>1, <3>1, LostEffect, ZenonT(60) DEF Restart
        <3> QED
            BY <2>1, <3>1, <3>2 DEF BeingSaved
    <2>2. CASE worker # "save"
        BY <2>2 DEF Restart, TypeOK, BeingSaved
    <2> QED
        BY <2>1, <2>2
<1>3. TypeOK'
    <2>1. faults' \in 0..MaxFaults
        BY WebhookAssumption DEF Restart, TypeOK
    <2>2. copy' \in [Requests -> [Endpoints -> Row]]
        BY RowTypes DEF Restart
    <2> QED
        BY <1>1, <1>2, <2>1, <2>2 DEF Restart, TypeOK, Answers, NoDelivery
<1>4. ASSUME NEW q \in Requests PROVE RequestInv(q)'
    <2>1. RequestInv(q)
        BY DEF DeliveryInductive
    <2>2. rpc'[q] \in {"new", "done"} /\ targets'[q] = {}
          /\ rpc'[q] = "new" => rpc[q] = "new"
        BY <1>1
    <2>3. \A y \in Endpoints : rows[q][y] = NoRow => ~BeingSaved(q, y)
        BY DEF BeingSaved, WorkerInv, Current, NoRow
    <2> QED
        BY <1>1, <1>2, <2>1, <2>2, <2>3 DEF RequestInv, Untouched
<1>5. WorkerInv'
    BY <1>1 DEF WorkerInv
<1>6. ASSUME NEW x \in Requests, NEW y \in Endpoints
      PROVE  BudgetAt(x, y)' /\ HonestAt(x, y)'
    <2>1. BudgetAt(x, y) /\ HonestAt(x, y)
        BY DEF DeliveryInductive, DeliveryBudget, OutcomeHonest
    <2>2. ~BeingSaved(x, y)' /\ lost[x][y] \in Nat /\ rows[x][y] \in Row
        BY <1>1 DEF BeingSaved, TypeOK
    <2>3. BeingSaved(x, y) => Stored(x, y)
        BY DEF BeingSaved, WorkerInv, Current, Stored
    <2>4. /\ rows'[x][y] = rows[x][y]
          /\ sends'[x][y] = sends[x][y]
          /\ accepted'[x][y] = accepted[x][y]
        BY <1>1
    <2>5. CASE BeingSaved(x, y)
        <3>1. lost'[x][y] = lost[x][y] + 1 /\ lost'[x][y] # 0
            BY <1>2, <2>2, <2>5
        <3>2. rows[x][y].attempts \in Nat
            BY <2>2 DEF Row
        <3>3. BudgetAt(x, y)'
            BY <2>1, <2>2, <2>3, <2>4, <2>5, <3>1, <3>2 DEF BudgetAt, Stored
        <3>4. HonestAt(x, y)'
            BY <2>1, <2>4, <3>1 DEF HonestAt, Stored
        <3> QED
            BY <3>3, <3>4
    <2>6. CASE ~BeingSaved(x, y)
        <3>1. lost'[x][y] = lost[x][y]
            BY <1>2, <2>6
        <3>2. BudgetAt(x, y)'
            BY <2>1, <2>2, <2>4, <2>6, <3>1 DEF BudgetAt, Stored
        <3>3. HonestAt(x, y)'
            BY <2>1, <2>4, <2>6, <3>1 DEF HonestAt, Stored
        <3> QED
            BY <3>2, <3>3
    <2> QED
        BY <2>5, <2>6
<1> QED
    BY <1>3, <1>4, <1>5, <1>6
       DEF DeliveryInductive, DeliveryBudget, OutcomeHonest

-----------------------------------------------------------------------------
(* Every step keeps the inductive invariant.                               *)
LEMMA InductiveStep ==
    ASSUME DeliveryInductive, [Next]_vars
    PROVE  DeliveryInductive'
<1>1. CASE \E e \in Endpoints, D \in FlagInputs : Create(e, D)
    BY <1>1, CreateStep
<1>2. ASSUME NEW r \in Requests, RequestStep(r)
      PROVE  DeliveryInductive'
    BY <1>2, DispatchStep, CheckStep, ListStep, PostStep, PersistStep,
       TriggerStep DEF RequestStep
<1>3. CASE WorkerStep
    BY <1>3, ListDueStep, RetryStep, UpdateStep DEF WorkerStep
<1>4. CASE TimePasses
    BY <1>4, BackoffStep, LeaveWindowStep DEF TimePasses
<1>5. CASE Restart
    BY <1>5, RestartStep
<1>6. CASE UNCHANGED vars
    <2>1. Quiet
        BY <1>6 DEF DeliveryInductive, TypeOK, Quiet, vars, endpointVars,
                    tableVars, requestVars, workerVars, history
    <2>2. \A q \in Requests : RequestInv(q)'
        BY <1>6, <2>1, QuietOthers DEF vars, requestVars
    <2> QED
        BY <2>1, <2>2, QuietStep DEF DeliveryInductive, Quiet
<1> QED
    BY <1>1, <1>2, <1>3, <1>4, <1>5, <1>6 DEF Next

(* The inductive invariant holds in every reachable state of Webhook, for  *)
(* any number of requests, endpoints, attempts and faults: a request has   *)
(* never posted to an endpoint it has still to try, and the worker's       *)
(* copies are the rows (dispatch, deliver, retryDueDeliveries).            *)
THEOREM DeliveryInductiveHolds == Spec => []DeliveryInductive
<1>1. DeliveryInductive /\ [Next]_vars => DeliveryInductive'
    BY InductiveStep
<1> QED
    BY <1>1, InitInductive, PTL DEF Spec

(* Every variable of Webhook keeps its type, so that the statuses that     *)
(* deliver and retryDelivery store are delivered, retrying and failed.     *)
THEOREM DeliveryTypes == Spec => []TypeOK
<1>1. DeliveryInductive => TypeOK
    BY DEF DeliveryInductive
<1> QED
    BY <1>1, DeliveryInductiveHolds, PTL

(* The attempts of a row account for every POST of deliver and             *)
(* retryDelivery, and end at max_attempts.                                 *)
THEOREM DeliveriesAccounted == Spec => []DeliveryBudget
<1>1. DeliveryInductive => DeliveryBudget
    BY DEF DeliveryInductive
<1> QED
    BY <1>1, DeliveryInductiveHolds, PTL

(* What the status of a stored row says about the endpoint is true, for    *)
(* the rows of deliver and for those of retryDelivery.                     *)
THEOREM OutcomesHonest == Spec => []OutcomeHonest
<1>1. DeliveryInductive => OutcomeHonest
    BY DEF DeliveryInductive
<1> QED
    BY <1>1, DeliveryInductiveHolds, PTL

-----------------------------------------------------------------------------
(* No action writes a final row or posts its event again.                  *)
LEMMA FinalStep ==
    ASSUME DeliveryInductive, [Next]_vars
    PROVE  FinalDeliveryStep
<1> SUFFICES ASSUME NEW x \in Requests, NEW y \in Endpoints, Final(rows[x][y])
             PROVE  rows'[x][y] = rows[x][y] /\ sends'[x][y] = sends[x][y]
    BY DEF FinalDeliveryStep
<1> TypeOK /\ WorkerInv
    BY DEF DeliveryInductive
<1>0. rows[x][y] # NoRow /\ rows[x][y].status # "retrying"
    BY DEF Final, NoRow
<1>1. CASE \E e \in Endpoints, D \in FlagInputs : Create(e, D)
    BY <1>1 DEF Create, tableVars, history
<1>2. ASSUME NEW r \in Requests, RequestStep(r)
      PROVE  rows'[x][y] = rows[x][y] /\ sends'[x][y] = sends[x][y]
    <2> RequestInv(r)
        BY DEF DeliveryInductive
    <2>1. CASE Post(r)
        <3>1. PICK e \in targets[r], a \in Answers : SendOnce(r, e, a)
            BY <2>1 DEF Post
        <3>2. e \in Endpoints /\ rows[r][e] = NoRow
            BY DEF TypeOK, RequestInv, Untouched
        <3>3. sends'[x][y] = IF x = r /\ y = e THEN sends[r][e] + 1
                                              ELSE sends[x][y]
            BY <3>1, <3>2, SendEffect
        <3> QED
            BY <1>0, <2>1, <3>2, <3>3 DEF Post, tableVars
    <2>2. CASE Persist(r)
        <3>1. UNCHANGED sends
            BY <2>2 DEF Persist, history
        <3>2. PICK e \in Endpoints : cur[r] = <<r, e>> /\ rows[r][e] = NoRow
            BY <2>2 DEF Persist, RequestInv
        <3>3. CASE UNCHANGED tableVars
            BY <3>1, <3>3 DEF tableVars
        <3>4. CASE rows' = [rows EXCEPT ![r][cur[r][2]] = FirstRow(answer[r])]
            <4>1. rows' = [rows EXCEPT ![r][e] = FirstRow(answer[r])]
                BY <3>2, <3>4
            <4>2. FirstRow(answer[r]) \in Row
                BY RowTypes DEF TypeOK
            <4>3. rows'[x][y] = IF x = r /\ y = e THEN FirstRow(answer[r])
                                                 ELSE rows[x][y]
                BY <4>1, <4>2, RowEffect
            <4> QED
                BY <1>0, <3>1, <3>2, <4>3
        <3> QED
            BY <2>2, <3>3, <3>4 DEF Persist
    <2>3. CASE ~Post(r) /\ ~Persist(r)
        BY <1>2, <2>3 DEF RequestStep, Dispatch, CheckRecent, ListEndpoints,
                          TriggerAI, tableVars, history
    <2> QED
        BY <2>1, <2>2, <2>3
<1>3. CASE ListDueRetries
    BY <1>3 DEF ListDueRetries, tableVars, history
<1>4. CASE RetryDelivery
    <2>1. PICK z \in batch, a \in Answers : SendOnce(z[1], z[2], a)
        BY <1>4 DEF RetryDelivery
    <2>2. z[1] \in Requests /\ z[2] \in Endpoints
          /\ rows[z[1]][z[2]].status = "retrying"
        BY DeliveryPair DEF TypeOK, WorkerInv, Current
    <2>3. sends'[x][y] = IF x = z[1] /\ y = z[2] THEN sends[z[1]][z[2]] + 1
                                                ELSE sends[x][y]
        BY <2>1, <2>2, SendEffect
    <2> QED
        BY <1>0, <1>4, <2>2, <2>3 DEF RetryDelivery, tableVars
<1>5. CASE UpdateDelivery
    <2>1. trying \in Deliveries /\ Current(trying) /\ UNCHANGED sends
        BY <1>5 DEF UpdateDelivery, WorkerInv, history
    <2>2. /\ trying[1] \in Requests /\ trying[2] \in Endpoints
          /\ rows[trying[1]][trying[2]].status = "retrying"
        BY <2>1, DeliveryPair DEF Current
    <2> DEFINE d == RetriedRow(copy[trying[1]][trying[2]], reply)
    <2>3. d \in Row
        BY <2>2, RowTypes DEF TypeOK
    <2>4. rows' = [rows EXCEPT ![trying[1]][trying[2]] = d] \/ UNCHANGED rows
        BY <1>5 DEF UpdateDelivery
    <2> HIDE DEF d
    <2>5. CASE rows' = [rows EXCEPT ![trying[1]][trying[2]] = d]
        <3>1. rows'[x][y] = IF x = trying[1] /\ y = trying[2]
                            THEN d ELSE rows[x][y]
            BY <2>2, <2>3, <2>5, RowEffect
        <3> QED
            BY <1>0, <2>1, <2>2, <3>1
    <2> QED
        BY <2>1, <2>4, <2>5
<1>6. ASSUME NEW r \in Requests, NEW e \in Endpoints, BackoffElapses(r, e)
      PROVE  rows'[x][y] = rows[x][y] /\ sends'[x][y] = sends[x][y]
    BY <1>0, <1>6 DEF BackoffElapses, TypeOK, history
<1>7. ASSUME NEW r \in Requests, NEW e \in Endpoints, LeaveWindow(r, e)
      PROVE  rows'[x][y] = rows[x][y] /\ sends'[x][y] = sends[x][y]
    BY <1>7 DEF LeaveWindow, history
<1>8. CASE Restart
    BY <1>8 DEF Restart, tableVars
<1>9. CASE UNCHANGED vars
    BY <1>9 DEF vars, tableVars, history
<1> QED
    BY <1>1, <1>2, <1>3, <1>4, <1>5, <1>6, <1>7, <1>8, <1>9
       DEF Next, WorkerStep, TimePasses

(* A delivered or given-up row is never written again and its event never  *)
(* posted again, although UpdateDelivery writes whole rows from copies the *)
(* worker listed earlier.                                                  *)
THEOREM FinalRowsStay == Spec => FinalDeliveriesStay
<1>1. DeliveryInductive /\ [Next]_vars => [FinalDeliveryStep]_vars
    BY FinalStep
<1> QED
    BY <1>1, DeliveryInductiveHolds, PTL DEF Spec, FinalDeliveriesStay

-----------------------------------------------------------------------------
(* Webhook implements WebhookPromise.  A step changes what is seen of one  *)
(* delivery, or takes the answers out of several hands.                    *)

Seen == [x \in Deliveries |-> DeliverySeen(x)]

LEMMA SeenOf ==
    ASSUME NEW r \in Requests, NEW e \in Endpoints
    PROVE  /\ <<r, e>> \in Deliveries
           /\ DeliverySeen(<<r, e>>) =
                 [outcome |-> OutcomeSeen(rows[r][e]), counted |-> rows[r][e].attempts,
                  posts |-> sends[r][e], pending |-> AnswerHeld(r, e)]
BY DEF Deliveries, DeliverySeen

LEMMA SeenUnchanged ==
    ASSUME NEW r \in Requests, NEW e \in Endpoints,
           rows'[r][e].status = rows[r][e].status, rows'[r][e].attempts = rows[r][e].attempts,
           sends'[r][e] = sends[r][e], AnswerHeld(r, e)' = AnswerHeld(r, e)
    PROVE  DeliverySeen(<<r, e>>)' = DeliverySeen(<<r, e>>)
<1>1. OutcomeSeen(rows'[r][e]) = OutcomeSeen(rows[r][e])
    BY DEF OutcomeSeen
<1> QED
    BY <1>1 DEF DeliverySeen

LEMMA AllUnchanged ==
    ASSUME \A r \in Requests, e \in Endpoints : DeliverySeen(<<r, e>>)' = DeliverySeen(<<r, e>>)
    PROVE  Seen' = Seen
<1>1. \A x \in Deliveries : DeliverySeen(x)' = DeliverySeen(x)
    BY DeliveryPair
<1> QED
    BY <1>1 DEF Seen

LEMMA OneChanged ==
    ASSUME NEW r \in Requests, NEW e \in Endpoints, NEW d, DeliverySeen(<<r, e>>)' = d,
           \A q \in Requests, y \in Endpoints :
               ~(q = r /\ y = e) => DeliverySeen(<<q, y>>)' = DeliverySeen(<<q, y>>)
    PROVE  Seen' = [Seen EXCEPT ![<<r, e>>] = d]
<1>1. <<r, e>> \in Deliveries
    BY DEF Deliveries
<1>2. ASSUME NEW x \in Deliveries, x # <<r, e>>
      PROVE  DeliverySeen(x)' = DeliverySeen(x)
    BY <1>2, DeliveryPair
<1> QED
    BY <1>1, <1>2 DEF Seen

\* Who holds the answer to a POST that is in no row yet.
LEMMA Holders ==
    ASSUME DeliveryInductive, NEW r \in Requests, NEW e \in Endpoints
    PROVE  /\ AnswerHeld(r, e) \in Answers \cup {"nothing"}
           /\ rpc[r] = "persist" /\ cur[r] = <<r, e>> =>
                 rows[r][e] = NoRow /\ sends[r][e] = 1 /\ ~BeingSaved(r, e)
           /\ BeingSaved(r, e) => rows[r][e].status = "retrying" /\ copy[r][e] = rows[r][e]
           /\ rows[r][e].status # "absent" => AnswerHeld(r, e) = IF BeingSaved(r, e) THEN reply ELSE "nothing"
           /\ Untouched(r, e) => AnswerHeld(r, e) = "nothing" /\ ~BeingSaved(r, e)
<1>1. TypeOK /\ RequestInv(r) /\ WorkerInv
    BY DEF DeliveryInductive
<1>2. answer[r] \in Answers /\ reply \in Answers
    BY <1>1 DEF TypeOK
<1>3. BeingSaved(r, e) => rows[r][e].status = "retrying" /\ copy[r][e] = rows[r][e]
    BY <1>1 DEF BeingSaved, WorkerInv, Current
<1>4. NoRow.status = "absent"
    BY DEF NoRow
<1>5. ASSUME rpc[r] = "persist", cur[r] = <<r, e>>
      PROVE  rows[r][e] = NoRow /\ sends[r][e] = 1
    BY <1>1, <1>5 DEF RequestInv
<1>6. Untouched(r, e) => rows[r][e] = NoRow /\ sends[r][e] = 0
    BY DEF Untouched
<1> QED
    BY <1>2, <1>3, <1>4, <1>5, <1>6 DEF AnswerHeld

\* A step in which nobody takes or drops an answer.
LEMMA SeenQuiet ==
    ASSUME UNCHANGED <<sends, trying, reply>>, worker' = "save" <=> worker = "save",
           \A q \in Requests, y \in Endpoints :
               rows'[q][y].status = rows[q][y].status /\ rows'[q][y].attempts = rows[q][y].attempts,
           \A q \in Requests : /\ rpc'[q] = "persist" <=> rpc[q] = "persist"
                               /\ cur'[q] = cur[q] /\ answer'[q] = answer[q]
    PROVE  Seen' = Seen
<1>1. ASSUME NEW q \in Requests, NEW y \in Endpoints
      PROVE  DeliverySeen(<<q, y>>)' = DeliverySeen(<<q, y>>)
  <2>1. AnswerHeld(q, y)' = AnswerHeld(q, y)
      BY DEF AnswerHeld, BeingSaved
  <2> QED
      BY <2>1, SeenUnchanged
<1> QED
    BY <1>1, AllUnchanged

LEMMA PromiseInit == Init => Promise!PInit
<1> SUFFICES ASSUME Init PROVE Promise!PInit
    OBVIOUS
<1>1. ASSUME NEW x \in Deliveries
      PROVE  DeliverySeen(x) = [outcome |-> "none", counted |-> 0, posts |-> 0, pending |-> "nothing"]
  <2>1. x[1] \in Requests /\ x[2] \in Endpoints
      BY DeliveryPair
  <2>2. rows[x[1]][x[2]] = NoRow /\ sends[x[1]][x[2]] = 0
      BY <2>1 DEF Init, NoRows
  <2>3. AnswerHeld(x[1], x[2]) = "nothing"
      BY <2>1 DEF Init, AnswerHeld, BeingSaved
  <2>4. OutcomeSeen(NoRow) = "none" /\ NoRow.attempts = 0
      BY DEF OutcomeSeen, NoRow
  <2> QED
      BY <2>2, <2>3, <2>4 DEF DeliverySeen
<1> QED
    BY <1>1 DEF Promise!PInit, Promise!View

\* A POST, whoever makes it.
LEMMA PostSeen ==
    ASSUME DeliveryInductive, NEW r \in Requests, NEW e \in Endpoints, NEW a \in Answers,
           SendOnce(r, e, a), rows' = rows, AnswerHeld(r, e) = "nothing", AnswerHeld(r, e)' = a,
           rows[r][e].status = "retrying" \/ sends[r][e] = 0,
           \A q \in Requests, y \in Endpoints :
               ~(q = r /\ y = e) => AnswerHeld(q, y)' = AnswerHeld(q, y)
    PROVE  Promise!Posted(<<r, e>>, a)
<1> DEFINE x == <<r, e>>
           d == DeliverySeen(x)
<1>1. x \in Deliveries /\ Seen[x] = d
    BY SeenOf DEF Seen
<1>2. /\ d = [outcome |-> OutcomeSeen(rows[r][e]), counted |-> rows[r][e].attempts,
              posts |-> sends[r][e], pending |-> "nothing"]
      /\ DeliverySeen(x)' = [outcome |-> OutcomeSeen(rows[r][e]), counted |-> rows[r][e].attempts,
                             posts |-> sends[r][e] + 1, pending |-> a]
  <2>1. sends'[r][e] = sends[r][e] + 1
      BY SendEffect DEF DeliveryInductive
  <2> QED
      BY <2>1 DEF DeliverySeen
<1> DEFINE c == Promise!View(d.outcome, d.counted, d.posts + 1, a)
<1>3. DeliverySeen(x)' = c
    BY <1>2 DEF Promise!View
<1>4. ASSUME NEW q \in Requests, NEW y \in Endpoints, ~(q = r /\ y = e)
      PROVE  DeliverySeen(<<q, y>>)' = DeliverySeen(<<q, y>>)
  <2>1. sends'[q][y] = sends[q][y]
      BY <1>4, SendEffect DEF DeliveryInductive
  <2>2. AnswerHeld(q, y)' = AnswerHeld(q, y)
      BY <1>4
  <2> QED
      BY <2>1, <2>2, SeenUnchanged
<1>5. Seen' = [Seen EXCEPT ![x] = c]
    BY <1>3, <1>4, OneChanged
<1>6. rows[r][e].status = "retrying" => d.outcome = "open"
    BY <1>2 DEF OutcomeSeen
<1>7. d.pending = "nothing" /\ (d.outcome = "open" \/ d.posts = 0)
    BY <1>2, <1>6
<1> HIDE DEF d, x
<1>8. Promise!Posted(x, a)
    BY <1>1, <1>5, <1>7 DEF Promise!Posted, Promise!Pending, Promise!Becomes, Seen
<1> QED
    BY <1>8 DEF x

\* An answer is counted in the row, whoever writes it.
LEMMA RecordSeen ==
    ASSUME DeliveryInductive, NEW r \in Requests, NEW e \in Endpoints, NEW a \in Answers, NEW n \in Nat,
           rows[r][e].attempts = n, n < MaxAttempts,
           rows' = [rows EXCEPT ![r][e] = [status |-> StatusAfter(a, n + 1), attempts |-> n + 1, due |-> FALSE]],
           sends' = sends, AnswerHeld(r, e) = a, AnswerHeld(r, e)' = "nothing",
           \A q \in Requests, y \in Endpoints :
               ~(q = r /\ y = e) => AnswerHeld(q, y)' = AnswerHeld(q, y)
    PROVE  Promise!Recorded(<<r, e>>)
<1> DEFINE x == <<r, e>>
           d == DeliverySeen(x)
           row == [status |-> StatusAfter(a, n + 1), attempts |-> n + 1, due |-> FALSE]
<1>1. x \in Deliveries /\ Seen[x] = d
    BY SeenOf DEF Seen
<1>2. row \in Row
    BY DEF Row, Status, StatusAfter
<1>3. \A q \in Requests, y \in Endpoints : rows'[q][y] = IF q = r /\ y = e THEN row ELSE rows[q][y]
    BY <1>2, RowEffect DEF DeliveryInductive
<1>4. d = [outcome |-> OutcomeSeen(rows[r][e]), counted |-> n, posts |-> sends[r][e], pending |-> a]
    BY DEF DeliverySeen
<1>5. OutcomeSeen(row) = IF a = "2xx" THEN "delivered" ELSE IF n + 1 = MaxAttempts THEN "failed" ELSE "open"
  <2>1. n + 1 >= MaxAttempts <=> n + 1 = MaxAttempts
      BY WebhookAssumption
  <2> QED
      BY <2>1 DEF OutcomeSeen, StatusAfter, Success
<1>6. DeliverySeen(x)' = [outcome |-> OutcomeSeen(row), counted |-> n + 1, posts |-> sends[r][e],
                          pending |-> "nothing"]
  <2>1. rows'[r][e] = row /\ row.attempts = n + 1
      BY <1>3
  <2> HIDE DEF row
  <2> QED
      BY <2>1 DEF DeliverySeen
<1> DEFINE c == Promise!View(Promise!OutcomeOf(d.pending, d.counted + 1), d.counted + 1, d.posts, "nothing")
<1>7. DeliverySeen(x)' = c
  <2>1. OutcomeSeen(row) = Promise!OutcomeOf(a, n + 1)
      BY <1>5 DEF Promise!OutcomeOf
  <2>2. d.pending = a /\ d.counted = n /\ d.posts = sends[r][e]
      BY <1>4
  <2> HIDE DEF d
  <2> QED
      BY <1>6, <2>1, <2>2 DEF Promise!View
<1>8. ASSUME NEW q \in Requests, NEW y \in Endpoints, ~(q = r /\ y = e)
      PROVE  DeliverySeen(<<q, y>>)' = DeliverySeen(<<q, y>>)
  <2>1. rows'[q][y] = rows[q][y] /\ sends'[q][y] = sends[q][y]
      BY <1>3, <1>8
  <2>2. AnswerHeld(q, y)' = AnswerHeld(q, y)
      BY <1>8
  <2> QED
      BY <2>1, <2>2, SeenUnchanged
<1>9. Seen' = [Seen EXCEPT ![x] = c]
    BY <1>7, <1>8, OneChanged
<1>10. d.pending # "nothing"
    BY <1>4 DEF Answers
<1> HIDE DEF d, x
<1>11. Promise!Recorded(x)
    BY <1>1, <1>9, <1>10 DEF Promise!Recorded, Promise!Pending, Promise!Becomes, Seen
<1> QED
    BY <1>11 DEF x

\* Answers are lost: with a write that fails, or with the process.
LEMMA LossSeen ==
    ASSUME DeliveryInductive, rows' = rows, sends' = sends,
           \A q \in Requests, y \in Endpoints :
               AnswerHeld(q, y)' = AnswerHeld(q, y) \/ AnswerHeld(q, y)' = "nothing"
    PROVE  \E S \in SUBSET Deliveries : Promise!Lost(S)
<1> DEFINE S == {x \in Deliveries : AnswerHeld(x[1], x[2])' = "nothing"}
<1>1. ASSUME NEW x \in Deliveries
      PROVE  DeliverySeen(x)' = IF x \in S THEN Promise!WithoutAnswer(DeliverySeen(x)) ELSE DeliverySeen(x)
  <2>1. x[1] \in Requests /\ x[2] \in Endpoints
      BY DeliveryPair
  <2>2. DeliverySeen(x)' = [outcome |-> OutcomeSeen(rows[x[1]][x[2]]), counted |-> rows[x[1]][x[2]].attempts,
                            posts |-> sends[x[1]][x[2]], pending |-> AnswerHeld(x[1], x[2])']
      BY DEF DeliverySeen
  <2>3. DeliverySeen(x) = [outcome |-> OutcomeSeen(rows[x[1]][x[2]]), counted |-> rows[x[1]][x[2]].attempts,
                           posts |-> sends[x[1]][x[2]], pending |-> AnswerHeld(x[1], x[2])]
      BY DEF DeliverySeen
  <2>4. CASE AnswerHeld(x[1], x[2])' = "nothing"
      BY <2>2, <2>3, <2>4 DEF Promise!WithoutAnswer, Promise!View
  <2>5. CASE AnswerHeld(x[1], x[2])' # "nothing"
      BY <2>1, <2>2, <2>3, <2>5
  <2> QED
      BY <2>4, <2>5
<1>2. S \in SUBSET Deliveries
    OBVIOUS
<1> HIDE DEF S
<1>3. Promise!Lost(S)
    BY <1>1, <1>2 DEF Promise!Lost
<1> QED
    BY <1>2, <1>3

\* dispatch and deliver.
LEMMA RequestSeen ==
    ASSUME DeliveryInductive, NEW r \in Requests, RequestStep(r)
    PROVE  Promise!PNext \/ Seen' = Seen
<1>0. TypeOK /\ RequestInv(r) /\ WorkerInv
    BY DEF DeliveryInductive
<1>1. CASE Post(r)
  <2>1. PICK e \in targets[r], a \in Answers :
            /\ SendOnce(r, e, a)
            /\ cur'    = [cur EXCEPT ![r] = <<r, e>>]
            /\ answer' = [answer EXCEPT ![r] = a]
      BY <1>1 DEF Post
  <2>2. /\ rows' = rows /\ rpc[r] = "post" /\ rpc' = [rpc EXCEPT ![r] = "persist"]
        /\ worker' = worker /\ trying' = trying /\ reply' = reply
      BY <1>1 DEF Post, Goto
  <2>3. e \in Endpoints /\ Untouched(r, e)
      BY <1>0 DEF TypeOK, RequestInv
  <2>4. AnswerHeld(r, e) = "nothing" /\ ~BeingSaved(r, e) /\ sends[r][e] = 0
      BY <2>3, Holders DEF Untouched
  <2>5. AnswerHeld(r, e)' = a
      BY <1>0, <2>1, <2>2 DEF AnswerHeld, TypeOK
  <2>6. ASSUME NEW q \in Requests, NEW y \in Endpoints, ~(q = r /\ y = e)
        PROVE  AnswerHeld(q, y)' = AnswerHeld(q, y)
    <3>1. BeingSaved(q, y)' = BeingSaved(q, y)
        BY <2>2 DEF BeingSaved
    <3>2. CASE q = r
      <4>1. cur'[q] # <<q, y>> /\ rpc[q] # "persist"
          BY <1>0, <2>1, <2>2, <2>6, <3>2 DEF TypeOK
      <4> QED
          BY <2>2, <3>1, <4>1 DEF AnswerHeld
    <3>3. CASE q # r
      <4>1. cur'[q] = cur[q] /\ rpc'[q] = rpc[q] /\ answer'[q] = answer[q]
          BY <1>0, <2>1, <2>2, <3>3 DEF TypeOK
      <4> QED
          BY <2>2, <3>1, <4>1 DEF AnswerHeld
    <3> QED
        BY <3>2, <3>3
  <2>7. Promise!Posted(<<r, e>>, a)
      BY <2>1, <2>2, <2>3, <2>4, <2>5, <2>6, PostSeen
  <2> QED
      BY <2>3, <2>7, SeenOf DEF Promise!PNext
<1>2. CASE Persist(r)
  <2>1. PICK e \in Endpoints : cur[r] = <<r, e>> /\ rows[r][e] = NoRow
      BY <1>0, <1>2 DEF Persist, RequestInv
  <2>2. /\ rpc[r] = "persist" /\ rpc'[r] # "persist" /\ sends' = sends
        /\ worker' = worker /\ trying' = trying /\ reply' = reply
        /\ \A q \in Requests : q # r => rpc'[q] = rpc[q] /\ cur'[q] = cur[q] /\ answer'[q] = answer[q]
      BY <1>0, <1>2 DEF Persist, Goto, AfterDispatch, TypeOK
  <2>3. /\ AnswerHeld(r, e) = answer[r] /\ answer[r] \in Answers /\ ~BeingSaved(r, e)
      BY <1>0, <2>1, <2>2, Holders DEF AnswerHeld, TypeOK
  <2>4. AnswerHeld(r, e)' = "nothing"
      BY <2>2, <2>3 DEF AnswerHeld, BeingSaved
  <2>5. ASSUME NEW q \in Requests, NEW y \in Endpoints, ~(q = r /\ y = e)
        PROVE  AnswerHeld(q, y)' = AnswerHeld(q, y)
    <3>1. BeingSaved(q, y)' = BeingSaved(q, y)
        BY <2>2 DEF BeingSaved
    <3>2. CASE q = r
      <4>1. cur[q] # <<q, y>>
          BY <2>1, <2>5, <3>2
      <4> QED
          BY <2>2, <3>1, <3>2, <4>1 DEF AnswerHeld
    <3>3. CASE q # r
        BY <2>2, <3>1, <3>3 DEF AnswerHeld
    <3> QED
        BY <3>2, <3>3
  <2>6. CASE rows' = [rows EXCEPT ![r][cur[r][2]] = FirstRow(answer[r])]
    <3>1. rows' = [rows EXCEPT ![r][e] = [status |-> StatusAfter(answer[r], 0 + 1), attempts |-> 0 + 1, due |-> FALSE]]
        BY <2>1, <2>6 DEF FirstRow
    <3>2. rows[r][e].attempts = 0 /\ 0 \in Nat /\ 0 < MaxAttempts
        BY <2>1, WebhookAssumption DEF NoRow
    <3>3. Promise!Recorded(<<r, e>>)
        BY <2>2, <2>3, <2>4, <2>5, <3>1, <3>2, RecordSeen
    <3> QED
        BY <3>3, SeenOf DEF Promise!PNext
  <2>7. CASE UNCHANGED tableVars
    <3>1. \E S \in SUBSET Deliveries : Promise!Lost(S)
        BY <2>2, <2>4, <2>5, <2>7, LossSeen
    <3> QED
        BY <3>1 DEF Promise!PNext
  <2> QED
      BY <1>2, <2>6, <2>7 DEF Persist
<1>3. CASE ~Post(r) /\ ~Persist(r)
  <2>1. /\ rows' = rows /\ sends' = sends /\ cur' = cur /\ answer' = answer
        /\ worker' = worker /\ trying' = trying /\ reply' = reply
      BY <1>3 DEF RequestStep, Dispatch, CheckRecent, ListEndpoints, TriggerAI
  <2>2. \E l \in {"check", "list", "trigger", "done", "post"} : rpc' = [rpc EXCEPT ![r] = l]
      BY <1>3 DEF RequestStep, Dispatch, CheckRecent, ListEndpoints, TriggerAI, Goto, AfterDispatch
  <2>3. rpc[r] # "persist"
      BY <1>3 DEF RequestStep, Dispatch, CheckRecent, ListEndpoints, TriggerAI
  <2>4. \A q \in Requests : rpc'[q] = "persist" <=> rpc[q] = "persist"
      BY <1>0, <2>2, <2>3 DEF TypeOK
  <2> QED
      BY <2>1, <2>4, SeenQuiet
<1> QED
    BY <1>1, <1>2, <1>3

\* The retry worker.
LEMMA WorkerSeen ==
    ASSUME DeliveryInductive, WorkerStep
    PROVE  Promise!PNext \/ Seen' = Seen
<1>0. TypeOK /\ WorkerInv
    BY DEF DeliveryInductive
<1>1. CASE ListDueRetries
  <2>1. /\ rows' = rows /\ sends' = sends /\ cur' = cur /\ answer' = answer /\ rpc' = rpc
        /\ trying' = trying /\ reply' = reply /\ worker # "save" /\ worker' # "save"
      BY <1>1 DEF ListDueRetries
  <2> QED
      BY <2>1, SeenQuiet
<1>2. CASE RetryDelivery
  <2>1. PICK x \in batch, a \in Answers : SendOnce(x[1], x[2], a) /\ trying' = x /\ reply' = a
      BY <1>2 DEF RetryDelivery
  <2>2. x \in Deliveries /\ Current(x)
      BY <1>0 DEF TypeOK, WorkerInv
  <2>3. PICK r \in Requests, e \in Endpoints : x = <<r, e>>
      BY <2>2 DEF Deliveries
  <2>4. /\ rows' = rows /\ rpc' = rpc /\ cur' = cur /\ answer' = answer
        /\ worker = "retry" /\ worker' = "save"
      BY <1>2 DEF RetryDelivery
  <2>5. rows[r][e].status = "retrying" /\ rows[r][e] # NoRow
      BY <2>2, <2>3 DEF Current, NoRow
  <2>6. \A q \in Requests, y \in Endpoints : ~BeingSaved(q, y)
      BY <2>4 DEF BeingSaved
  <2>7. AnswerHeld(r, e) = "nothing" /\ ~(rpc[r] = "persist" /\ cur[r] = <<r, e>>)
      BY <2>5, <2>6, Holders DEF AnswerHeld
  <2>8. AnswerHeld(r, e)' = a
      BY <2>1, <2>3, <2>4, <2>7 DEF AnswerHeld, BeingSaved
  <2>9. ASSUME NEW q \in Requests, NEW y \in Endpoints, ~(q = r /\ y = e)
        PROVE  AnswerHeld(q, y)' = AnswerHeld(q, y)
    <3>1. ~BeingSaved(q, y)' /\ ~BeingSaved(q, y)
        BY <2>1, <2>3, <2>6, <2>9 DEF BeingSaved
    <3> QED
        BY <2>4, <3>1 DEF AnswerHeld
  <2>10. SendOnce(r, e, a)
      BY <2>1, <2>3
  <2>11. Promise!Posted(<<r, e>>, a)
      BY <2>4, <2>5, <2>7, <2>8, <2>9, <2>10, PostSeen
  <2> QED
      BY <2>11, SeenOf DEF Promise!PNext
<1>3. CASE UpdateDelivery
  <2>1. trying \in Deliveries /\ Current(trying) /\ worker = "save" /\ reply \in Answers
      BY <1>0, <1>3 DEF UpdateDelivery, WorkerInv, TypeOK
  <2>2. PICK r \in Requests, e \in Endpoints : trying = <<r, e>>
      BY <2>1 DEF Deliveries
  <2>3. /\ rpc' = rpc /\ cur' = cur /\ answer' = answer /\ worker' # "save" /\ sends' = sends
      BY <1>3 DEF UpdateDelivery
  <2>4. BeingSaved(r, e) /\ rows[r][e].status = "retrying" /\ copy[r][e] = rows[r][e]
      BY <2>1, <2>2 DEF BeingSaved, Current
  <2>5. AnswerHeld(r, e) = reply /\ ~(rpc[r] = "persist" /\ cur[r] = <<r, e>>)
      BY <2>4, Holders DEF AnswerHeld
  <2>6. AnswerHeld(r, e)' = "nothing"
      BY <2>3, <2>5 DEF AnswerHeld, BeingSaved
  <2>7. ASSUME NEW q \in Requests, NEW y \in Endpoints, ~(q = r /\ y = e)
        PROVE  AnswerHeld(q, y)' = AnswerHeld(q, y)
    <3>1. ~BeingSaved(q, y)' /\ ~BeingSaved(q, y)
        BY <2>2, <2>3, <2>7 DEF BeingSaved
    <3> QED
        BY <2>3, <3>1 DEF AnswerHeld
  <2>8. CASE rows' = [rows EXCEPT ![trying[1]][trying[2]] = RetriedRow(copy[trying[1]][trying[2]], reply)]
    <3> DEFINE n == rows[r][e].attempts
    <3>1. n \in Nat /\ n < MaxAttempts
      <4>1. BudgetAt(r, e) /\ rows[r][e] \in Row
          BY <1>0 DEF DeliveryInductive, DeliveryBudget, TypeOK
      <4> QED
          BY <2>4, <4>1 DEF BudgetAt, Row
    <3>2. trying[1] = r /\ trying[2] = e
        BY <2>2
    <3>3. rows' = [rows EXCEPT ![r][e] = RetriedRow(rows[r][e], reply)]
        BY <2>4, <2>8, <3>2
    <3>4. rows' = [rows EXCEPT ![r][e] = [status |-> StatusAfter(reply, n + 1), attempts |-> n + 1, due |-> FALSE]]
        BY <3>3 DEF RetriedRow
    <3> HIDE DEF n
    <3>5. rows[r][e].attempts = n
        BY DEF n
    <3>6. Promise!Recorded(<<r, e>>)
        BY <2>1, <2>3, <2>5, <2>6, <2>7, <3>1, <3>4, <3>5, RecordSeen
    <3> QED
        BY <3>6, SeenOf DEF Promise!PNext
  <2>9. CASE rows' = rows
    <3>1. \E S \in SUBSET Deliveries : Promise!Lost(S)
        BY <2>3, <2>6, <2>7, <2>9, LossSeen
    <3> QED
        BY <3>1 DEF Promise!PNext
  <2> QED
      BY <1>3, <2>8, <2>9 DEF UpdateDelivery
<1> QED
    BY <1>1, <1>2, <1>3 DEF WorkerStep

LEMMA PromiseStep == DeliveryInductive /\ [Next]_vars => [Promise!PNext]_Seen
<1> SUFFICES ASSUME DeliveryInductive, [Next]_vars
             PROVE  Promise!PNext \/ Seen' = Seen
    OBVIOUS
<1>0. TypeOK
    BY DEF DeliveryInductive
<1>1. CASE \E e \in Endpoints, D \in FlagInputs : Create(e, D)
    BY <1>1, SeenQuiet DEF Create
<1>2. CASE \E r \in Requests : RequestStep(r)
    BY <1>2, RequestSeen
<1>3. CASE WorkerStep
    BY <1>3, WorkerSeen
<1>4. ASSUME NEW r \in Requests, NEW e \in Endpoints, BackoffElapses(r, e)
      PROVE  Seen' = Seen
  <2>1. \A q \in Requests, y \in Endpoints :
            rows'[q][y].status = rows[q][y].status /\ rows'[q][y].attempts = rows[q][y].attempts
    <3>1. rows' = [rows EXCEPT ![r][e] = [rows[r][e] EXCEPT !.due = TRUE]]
        BY <1>4 DEF BackoffElapses
    <3>2. /\ [rows[r][e] EXCEPT !.due = TRUE] \in Row
          /\ [rows[r][e] EXCEPT !.due = TRUE].status = rows[r][e].status
          /\ [rows[r][e] EXCEPT !.due = TRUE].attempts = rows[r][e].attempts
      <4>1. rows[r][e] \in Row
          BY <1>0 DEF TypeOK
      <4> QED
          BY <4>1 DEF Row
    <3> DEFINE d == [rows[r][e] EXCEPT !.due = TRUE]
    <3> HIDE DEF d
    <3>3. \A q \in Requests, y \in Endpoints : rows'[q][y] = IF q = r /\ y = e THEN d ELSE rows[q][y]
      <4>1. d \in Row /\ rows' = [rows EXCEPT ![r][e] = d]
          BY <3>1, <3>2 DEF d
      <4> QED
          BY <1>0, <4>1, RowEffect
    <3> QED
        BY <3>2, <3>3 DEF d
  <2> QED
      BY <1>4, <2>1, SeenQuiet DEF BackoffElapses
<1>5. ASSUME NEW r \in Requests, NEW e \in Endpoints, LeaveWindow(r, e)
      PROVE  Seen' = Seen
    BY <1>5, SeenQuiet DEF LeaveWindow
<1>6. CASE Restart
  <2>1. /\ rows' = rows /\ sends' = sends /\ worker' # "save"
        /\ \A q \in Requests : rpc'[q] # "persist"
      BY <1>6 DEF Restart
  <2>2. \A q \in Requests, y \in Endpoints : AnswerHeld(q, y)' = "nothing"
      BY <2>1 DEF AnswerHeld, BeingSaved
  <2>3. \E S \in SUBSET Deliveries : Promise!Lost(S)
      BY <2>1, <2>2, LossSeen
  <2> QED
      BY <2>3 DEF Promise!PNext
<1>7. CASE UNCHANGED vars
    BY <1>7, SeenQuiet DEF vars
<1> QED
    BY <1>1, <1>2, <1>3, <1>4, <1>5, <1>6, <1>7 DEF Next, TimePasses

(***************************************************************************)
(* Seen from outside, each delivery is one sequence of POSTs, never two at *)
(* a time, with none after its outcome and none after a first one whose    *)
(* row could not be stored, whatever fails and restarts in between.        *)
(***************************************************************************)
THEOREM DeliveryPromiseKept == Spec => KeepsDeliveryPromise
<1>1. DeliveryInductive /\ [Next]_vars => [Promise!PNext]_[x \in Deliveries |-> DeliverySeen(x)]
    BY PromiseStep DEF Seen
<1> QED
    BY <1>1, PromiseInit, DeliveryInductiveHolds, PTL DEF Spec, KeepsDeliveryPromise, Promise!PSpec

=============================================================================
