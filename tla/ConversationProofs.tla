------------------------- MODULE ConversationProofs -------------------------
(***************************************************************************)
(* Proofs about the conversation history: what is reported of a message,   *)
(* how the history follows the registry of sends, and which way both move, *)
(* for any number of sends, workers, messages, receipts and restarts.      *)
(***************************************************************************)
EXTENDS Conversation, SequenceTheorems, TLAPS

-----------------------------------------------------------------------------
(* The inductive invariant.                                                *)

\* In a list of steps, a step of S has a step of T before it.
Guarded(t, S, T) ==
    \A i \in 1..Len(t) : t[i] \in S => \E j \in 1..(i - 1) : t[j] \in T

Sending == {"send", "sendOnce"}
Final == {"sent", "failed"}

\* The job is marked running first and sent or failed last.
Shape(t) ==
    \A i \in 1..Len(t) :
        /\ t[i] \in Final => i = Len(t)
        /\ t[i] = "running" => i = 1

\* Steps on the job are for queued sends.
Jobless(t) == \A i \in 1..Len(t) : t[i] \notin Final \cup {"running"}

\* Only messages of contacts are handed to the workers.
DispatchInv ==
    /\ queue \in Seq(Inbound)
    /\ held \in [Workers -> Inbound \cup {None}]

\* A send that is under way: its message is accepted before it is persisted,
\* persisted before the job is sent, and no receipt was taken for it yet.
SendInv(s) ==
    /\ Shape(task[s].todo)
    /\ task[s].op = "none" =>
          task[s] = Unused /\ s \notin accepted /\ rows[s] = NoRow
    /\ task[s].op # "queue" => jobs[s] = NoJob /\ Jobless(task[s].todo)
    /\ s \in accepted \/ Guarded(task[s].todo, {"persist", "sent"}, Sending)
    /\ \/ rows[s].status # "absent" \/ s \in warned
       \/ Guarded(task[s].todo, {"sent"}, {"persist"})
    /\ task[s].todo # <<>> =>
          /\ s \notin index
          /\ rows[s].deliveredAt = 0 /\ rows[s].readAt = 0
          /\ task[s].op = "queue" => jobs[s].status \in {"queued", "running"}
          /\ task[s].todo[1] = "running" => jobs[s].status = "queued"

\* What the registry and the table know of a message.
MessageInv(s) ==
    /\ jobs[s].status = "absent" => jobs[s] = NoJob
    /\ jobs[s].status = "sent" => s \in accepted
    /\ rows[s].status # "absent" => s \in accepted
    /\ s \in index =>
          /\ jobs[s].status = "sent"
          /\ rows[s].status # "absent" \/ s \in warned
    /\ s \notin index => jobs[s].deliveredAt = 0 /\ jobs[s].readAt = 0

\* A listener under way brings a receipt that the registry has taken.
UpdateInv ==
    \A u \in updates :
        /\ u.message \in index
        /\ u.at <= jobs[u.message].deliveredAt
        /\ u.state = "read" => u.at <= jobs[u.message].readAt

\* Every receipt of the registry is in the row, on its way to it, or reported.
HistoryInv(s) ==
    s \notin warned =>
        /\ jobs[s].deliveredAt # 0 =>
              rows[s].deliveredAt # 0 \/ \E u \in updates : u.message = s
        /\ jobs[s].readAt # 0 =>
              rows[s].readAt # 0 \/ \E u \in updates : u.message = s /\ u.state = "read"

ConversationInv ==
    /\ TypeOK
    /\ DispatchInv
    /\ \A s \in Sends : SendInv(s) /\ MessageInv(s) /\ HistoryInv(s)
    /\ UpdateInv
    /\ RowBehindJob

-----------------------------------------------------------------------------
(* Lists of steps.                                                         *)

\* What is left of a list after its first step.
LEMMA Rest ==
    ASSUME NEW t \in Seq(Steps), t # <<>>, Shape(t)
    PROVE  /\ Head(t) = t[1] /\ Head(t) \in Steps
           /\ Tail(t) \in Seq(Steps) /\ Shape(Tail(t))
           /\ Head(t) \in Final => Tail(t) = <<>>
           /\ Tail(t) # <<>> => Tail(t)[1] # "running"
           /\ Jobless(t) => Jobless(Tail(t)) /\ Head(t) \notin Final \cup {"running"}
<1>1. /\ Head(t) = t[1] /\ Head(t) \in Steps
      /\ Tail(t) \in Seq(Steps)
      /\ Len(t) \in Nat \ {0} /\ Len(Tail(t)) = Len(t) - 1
      /\ \A i \in 1..Len(Tail(t)) : Tail(t)[i] = t[i + 1]
    BY HeadTailProperties, LenProperties
<1>2. \A i \in 1..Len(Tail(t)) : i + 1 \in 1..Len(t) /\ i + 1 # 1
    BY <1>1
<1>3. Shape(Tail(t)) /\ (Jobless(t) => Jobless(Tail(t)))
  <2>1. ASSUME NEW i \in 1..Len(Tail(t))
        PROVE  (Tail(t)[i] \in Final => i = Len(Tail(t))) /\ Tail(t)[i] # "running"
    <3>1. /\ t[i + 1] \in Final => i + 1 = Len(t)
          /\ t[i + 1] # "running"
        BY <1>2 DEF Shape
    <3>2. Tail(t)[i] = t[i + 1]
        BY <1>1
    <3>3. i + 1 = Len(t) => i = Len(Tail(t))
      <4> DEFINE n == Len(Tail(t))
      <4>1. n = Len(t) - 1 /\ i \in Int /\ Len(t) \in Int
          BY <1>1
      <4> HIDE DEF n
      <4>2. i + 1 = Len(t) => i = n
          BY <4>1
      <4> QED
          BY <4>2 DEF n
    <3> QED
        BY <3>1, <3>2, <3>3
  <2>2. Jobless(t) => Jobless(Tail(t))
      BY <1>1, <1>2 DEF Jobless
  <2> QED
      BY <2>1, <2>2 DEF Shape
<1>4. Head(t) \in Final => Tail(t) = <<>>
  <2>1. 1 \in 1..Len(t)
      BY <1>1, SMTT(60)
  <2>2. Head(t) \in Final => Len(t) = 1
      BY <1>1, <2>1, ZenonT(60) DEF Shape
  <2> QED
      BY <1>1, <2>2, EmptySeq
<1>5. Tail(t) # <<>> => Tail(t)[1] # "running"
  <2>1. Tail(t) # <<>> => 1 \in 1..Len(Tail(t))
      BY <1>1, EmptySeq
  <2> QED
      BY <1>1, <1>2, <2>1 DEF Shape
<1>6. Jobless(t) => Head(t) \notin Final \cup {"running"}
    BY <1>1 DEF Jobless
<1> QED
    BY <1>1, <1>3, <1>4, <1>5, <1>6

\* A list stays guarded until the guard is the step that is taken.
LEMMA GuardedRest ==
    ASSUME NEW t \in Seq(Steps), t # <<>>, NEW S, NEW T, Guarded(t, S, T)
    PROVE  /\ Head(t) \notin S
           /\ Head(t) \notin T => Guarded(Tail(t), S, T)
<1>1. /\ Head(t) = t[1]
      /\ Len(t) \in Nat \ {0} /\ Len(Tail(t)) = Len(t) - 1
      /\ \A i \in 1..Len(Tail(t)) : Tail(t)[i] = t[i + 1]
    BY HeadTailProperties, LenProperties
<1>2. Head(t) \notin S
  <2>1. 1 \in 1..Len(t) /\ ~ \E j \in 1..(1 - 1) : TRUE
      BY <1>1
  <2> QED
      BY <1>1, <2>1 DEF Guarded
<1>3. ASSUME Head(t) \notin T, NEW i \in 1..Len(Tail(t)), Tail(t)[i] \in S
      PROVE  \E j \in 1..(i - 1) : Tail(t)[j] \in T
  <2>1. i + 1 \in 1..Len(t) /\ t[i + 1] \in S /\ (i + 1) - 1 = i
      BY <1>1, <1>3
  <2>2. PICK k \in 1..i : t[k] \in T
      BY <2>1 DEF Guarded
  <2>3. k # 1
      BY <1>1, <1>3, <2>2
  <2>4. k - 1 \in 1..(i - 1) /\ k - 1 \in 1..Len(Tail(t)) /\ (k - 1) + 1 = k
      BY <1>1, <2>2, <2>3
  <2> QED
      BY <1>1, <2>2, <2>4
<1> QED
    BY <1>2, <1>3 DEF Guarded

\* A retry is put in front of the list.
LEMMA Retry ==
    ASSUME NEW t \in Seq(Steps), t # <<>>, Shape(t), Head(t) = "send"
    PROVE  LET u == <<"refresh">> \o t
           IN  /\ u \in Seq(Steps) /\ u # <<>> /\ u[1] = "refresh" /\ Shape(u)
               /\ Jobless(t) => Jobless(u)
               /\ \A S, T : "refresh" \notin S /\ Guarded(t, S, T) => Guarded(u, S, T)
<1> DEFINE u == <<"refresh">> \o t
<1>1. /\ t[1] = "send" /\ Len(t) \in Nat \ {0}
    BY HeadTailProperties, LenProperties
<1>2. /\ u \in Seq(Steps) /\ Len(u) = Len(t) + 1 /\ u[1] = "refresh"
      /\ \A i \in 1..Len(t) : u[i + 1] = t[i]
  <2>1. <<"refresh">> \in Seq(Steps) /\ Len(<<"refresh">>) = 1 /\ <<"refresh">>[1] = "refresh"
      BY DEF Steps
  <2>2. /\ u \in Seq(Steps) /\ Len(u) = 1 + Len(t)
        /\ \A i \in 1..1 : u[i] = <<"refresh">>[i]
        /\ \A i \in 2..(1 + Len(t)) : u[i] = t[i - 1]
      BY <2>1, ConcatProperties
  <2>3. \A i \in 1..Len(t) : i + 1 \in 2..(1 + Len(t)) /\ (i + 1) - 1 = i
      BY <1>1
  <2> QED
      BY <1>1, <2>1, <2>2, <2>3
<1>3. u # <<>>
    BY <1>1, <1>2, EmptySeq
<1> HIDE DEF u
<1>4. ASSUME NEW i \in 1..Len(u), i # 1
      PROVE  i - 1 \in 1..Len(t) /\ u[i] = t[i - 1] /\ i \in Int
  <2>1. i - 1 \in 1..Len(t) /\ (i - 1) + 1 = i
      BY <1>1, <1>2, <1>4
  <2> QED
      BY <1>2, <2>1
<1>5. Shape(u)
  <2>1. ASSUME NEW i \in 1..Len(u)
        PROVE  (u[i] \in Final => i = Len(u)) /\ u[i] # "running"
    <3>1. CASE i = 1
        BY <1>2, <3>1 DEF Final
    <3>2. CASE i # 1
      <4>1. i - 1 \in 1..Len(t) /\ u[i] = t[i - 1]
          BY <1>4, <3>2
      <4>2. t[i - 1] # "running"
          BY <1>1, <4>1 DEF Shape
      <4> QED
          BY <1>1, <1>2, <4>1, <4>2 DEF Shape
    <3> QED
        BY <3>1, <3>2
  <2> QED
      BY <2>1 DEF Shape
<1>6. Jobless(t) => Jobless(u)
    BY <1>2, <1>4 DEF Jobless, Final
<1>7. ASSUME NEW S, NEW T, "refresh" \notin S, Guarded(t, S, T)
      PROVE  Guarded(u, S, T)
  <2>1. ASSUME NEW i \in 1..Len(u), u[i] \in S
        PROVE  \E j \in 1..(i - 1) : u[j] \in T
    <3>1. i # 1
        BY <1>2, <1>7, <2>1
    <3>2. i - 1 \in 1..Len(t) /\ t[i - 1] \in S
        BY <1>4, <2>1, <3>1
    <3>3. PICK k \in 1..((i - 1) - 1) : t[k] \in T
        BY <1>7, <3>2 DEF Guarded
    <3>4. k \in 1..Len(t) /\ k + 1 \in 1..(i - 1)
        BY <1>1, <3>2, <3>3
    <3> QED
        BY <1>2, <3>3, <3>4
  <2> QED
      BY <2>1 DEF Guarded
<1> QED
    BY <1>2, <1>3, <1>5, <1>6, <1>7 DEF u

\* Two lists, one after the other.
LEMMA Concatenation ==
    ASSUME NEW a \in Seq(Steps), NEW b \in Seq(Steps), NEW c \in Seq(Steps),
           Len(c) = Len(a) + Len(b),
           \A i \in 1..Len(a) : c[i] = a[i],
           \A i \in 1..Len(b) : c[Len(a) + i] = b[i]
    PROVE  a \o b = c
<1>1. /\ a \o b \in Seq(Steps) /\ Len(a \o b) = Len(c)
      /\ Len(a) \in Nat /\ Len(b) \in Nat
      /\ \A i \in 1..Len(a) : (a \o b)[i] = a[i]
      /\ \A i \in Len(a) + 1 .. Len(a) + Len(b) : (a \o b)[i] = b[i - Len(a)]
    BY ConcatProperties, LenProperties
<1>2. ASSUME NEW i \in 1..Len(c)
      PROVE  (a \o b)[i] = c[i]
  <2>1. CASE i \in 1..Len(a)
      BY <1>1, <2>1
  <2>2. CASE i \notin 1..Len(a)
    <3>1. /\ i \in Len(a) + 1 .. Len(a) + Len(b)
          /\ i - Len(a) \in 1..Len(b) /\ Len(a) + (i - Len(a)) = i
        BY <1>1, <2>2
    <3> QED
        BY <1>1, <3>1
  <2> QED
      BY <2>1, <2>2
<1> QED
    BY <1>1, <1>2, SeqEqual

\* The lists of the operations.
LEMMA Flat ==
    /\ SendText = <<"resolve", "link", "lock", "ensure", "recipient", "send", "persist">>
    /\ QueueSendText = <<"running", "resolve", "link", "lock", "ensure", "recipient",
                         "send", "persist", "sent">>
    /\ SendMedia = <<"resolve", "link", "lock", "ensure", "recipient", "download", "build",
                     "upload", "sendOnce", "persist">>
    /\ SendAudio = SendMedia
    /\ SendReaction = <<"resolve", "link", "lock", "ensure", "recipient", "build", "send">>
    /\ SendContact = SendReaction
    /\ SendPoll = <<"resolve", "link", "lock", "ensure", "recipient", "pollClient", "send">>
    /\ CheckNumbers = <<"resolve", "link", "ensure", "call">>
<1>1. <<"resolve">> \o RuntimeSendText =
          <<"resolve", "link", "lock", "ensure", "recipient", "send">>
  <2> DEFINE a == <<"resolve">>
             b == <<"link", "lock", "ensure", "recipient", "send">>
             c == <<"resolve", "link", "lock", "ensure", "recipient", "send">>
  <2>1. a \in Seq(Steps) /\ b \in Seq(Steps) /\ c \in Seq(Steps)
      BY DEF Steps
  <2>2. /\ Len(c) = Len(a) + Len(b)
        /\ \A i \in 1..Len(a) : c[i] = a[i]
        /\ \A i \in 1..Len(b) : c[Len(a) + i] = b[i]
      OBVIOUS
  <2> HIDE DEF a, b, c
  <2>3. a \o b = c
      BY <2>1, <2>2, Concatenation
  <2> QED
      BY <2>3 DEF a, b, c, RuntimeSendText
<1>2. SendText =
          <<"resolve", "link", "lock", "ensure", "recipient", "send", "persist">>
  <2> DEFINE a == <<"resolve", "link", "lock", "ensure", "recipient", "send">>
             b == <<"persist">>
             c == <<"resolve", "link", "lock", "ensure", "recipient", "send", "persist">>
  <2>1. a \in Seq(Steps) /\ b \in Seq(Steps) /\ c \in Seq(Steps)
      BY DEF Steps
  <2>2. /\ Len(c) = Len(a) + Len(b)
        /\ \A i \in 1..Len(a) : c[i] = a[i]
        /\ \A i \in 1..Len(b) : c[Len(a) + i] = b[i]
      OBVIOUS
  <2> HIDE DEF a, b, c
  <2>3. a \o b = c
      BY <2>1, <2>2, Concatenation
  <2> QED
      BY <2>3, <1>1 DEF a, b, c, SendText
<1>3. <<"running">> \o SendText =
          <<"running", "resolve", "link", "lock", "ensure", "recipient", "send", "persist">>
  <2> DEFINE a == <<"running">>
             b == <<"resolve", "link", "lock", "ensure", "recipient", "send", "persist">>
             c == <<"running", "resolve", "link", "lock", "ensure", "recipient", "send", "persist">>
  <2>1. a \in Seq(Steps) /\ b \in Seq(Steps) /\ c \in Seq(Steps)
      BY DEF Steps
  <2>2. /\ Len(c) = Len(a) + Len(b)
        /\ \A i \in 1..Len(a) : c[i] = a[i]
        /\ \A i \in 1..Len(b) : c[Len(a) + i] = b[i]
      OBVIOUS
  <2> HIDE DEF a, b, c
  <2>3. a \o b = c
      BY <2>1, <2>2, Concatenation
  <2> QED
      BY <2>3, <1>2 DEF a, b, c
<1>4. QueueSendText =
          <<"running", "resolve", "link", "lock", "ensure", "recipient", "send", "persist", "sent">>
  <2> DEFINE a == <<"running", "resolve", "link", "lock", "ensure", "recipient", "send", "persist">>
             b == <<"sent">>
             c == <<"running", "resolve", "link", "lock", "ensure", "recipient", "send", "persist", "sent">>
  <2>1. a \in Seq(Steps) /\ b \in Seq(Steps) /\ c \in Seq(Steps)
      BY DEF Steps
  <2>2. /\ Len(c) = Len(a) + Len(b)
        /\ \A i \in 1..Len(a) : c[i] = a[i]
        /\ \A i \in 1..Len(b) : c[Len(a) + i] = b[i]
      OBVIOUS
  <2> HIDE DEF a, b, c
  <2>3. a \o b = c
      BY <2>1, <2>2, Concatenation
  <2> QED
      BY <2>3, <1>3 DEF a, b, c, QueueSendText
<1>5. <<"resolve">> \o RuntimeSendMedia =
          <<"resolve", "link", "lock", "ensure", "recipient", "download", "build", "upload", "sendOnce">>
  <2> DEFINE a == <<"resolve">>
             b == <<"link", "lock", "ensure", "recipient", "download", "build", "upload", "sendOnce">>
             c == <<"resolve", "link", "lock", "ensure", "recipient", "download", "build", "upload", "sendOnce">>
  <2>1. a \in Seq(Steps) /\ b \in Seq(Steps) /\ c \in Seq(Steps)
      BY DEF Steps
  <2>2. /\ Len(c) = Len(a) + Len(b)
        /\ \A i \in 1..Len(a) : c[i] = a[i]
        /\ \A i \in 1..Len(b) : c[Len(a) + i] = b[i]
      OBVIOUS
  <2> HIDE DEF a, b, c
  <2>3. a \o b = c
      BY <2>1, <2>2, Concatenation
  <2> QED
      BY <2>3 DEF a, b, c, RuntimeSendMedia
<1>6. SendMedia =
          <<"resolve", "link", "lock", "ensure", "recipient", "download", "build", "upload", "sendOnce", "persist">>
  <2> DEFINE a == <<"resolve", "link", "lock", "ensure", "recipient", "download", "build", "upload", "sendOnce">>
             b == <<"persist">>
             c == <<"resolve", "link", "lock", "ensure", "recipient", "download", "build", "upload", "sendOnce", "persist">>
  <2>1. a \in Seq(Steps) /\ b \in Seq(Steps) /\ c \in Seq(Steps)
      BY DEF Steps
  <2>2. /\ Len(c) = Len(a) + Len(b)
        /\ \A i \in 1..Len(a) : c[i] = a[i]
        /\ \A i \in 1..Len(b) : c[Len(a) + i] = b[i]
      OBVIOUS
  <2> HIDE DEF a, b, c
  <2>3. a \o b = c
      BY <2>1, <2>2, Concatenation
  <2> QED
      BY <2>3, <1>5 DEF a, b, c, SendMedia
<1>7. SendReaction =
          <<"resolve", "link", "lock", "ensure", "recipient", "build", "send">>
  <2> DEFINE a == <<"resolve">>
             b == <<"link", "lock", "ensure", "recipient", "build", "send">>
             c == <<"resolve", "link", "lock", "ensure", "recipient", "build", "send">>
  <2>1. a \in Seq(Steps) /\ b \in Seq(Steps) /\ c \in Seq(Steps)
      BY DEF Steps
  <2>2. /\ Len(c) = Len(a) + Len(b)
        /\ \A i \in 1..Len(a) : c[i] = a[i]
        /\ \A i \in 1..Len(b) : c[Len(a) + i] = b[i]
      OBVIOUS
  <2> HIDE DEF a, b, c
  <2>3. a \o b = c
      BY <2>1, <2>2, Concatenation
  <2> QED
      BY <2>3 DEF a, b, c, SendReaction, LegacyRuntimeFor, SendWAMessage
<1>8. SendPoll =
          <<"resolve", "link", "lock", "ensure", "recipient", "pollClient", "send">>
  <2> DEFINE a == <<"resolve">>
             b == <<"link", "lock", "ensure", "recipient", "pollClient", "send">>
             c == <<"resolve", "link", "lock", "ensure", "recipient", "pollClient", "send">>
  <2>1. a \in Seq(Steps) /\ b \in Seq(Steps) /\ c \in Seq(Steps)
      BY DEF Steps
  <2>2. /\ Len(c) = Len(a) + Len(b)
        /\ \A i \in 1..Len(a) : c[i] = a[i]
        /\ \A i \in 1..Len(b) : c[Len(a) + i] = b[i]
      OBVIOUS
  <2> HIDE DEF a, b, c
  <2>3. a \o b = c
      BY <2>1, <2>2, Concatenation
  <2> QED
      BY <2>3 DEF a, b, c, SendPoll, LegacyRuntimeFor
<1>9. CheckNumbers =
          <<"resolve", "link", "ensure", "call">>
  <2> DEFINE a == <<"resolve">>
             b == <<"link", "ensure", "call">>
             c == <<"resolve", "link", "ensure", "call">>
  <2>1. a \in Seq(Steps) /\ b \in Seq(Steps) /\ c \in Seq(Steps)
      BY DEF Steps
  <2>2. /\ Len(c) = Len(a) + Len(b)
        /\ \A i \in 1..Len(a) : c[i] = a[i]
        /\ \A i \in 1..Len(b) : c[Len(a) + i] = b[i]
      OBVIOUS
  <2> HIDE DEF a, b, c
  <2>3. a \o b = c
      BY <2>1, <2>2, Concatenation
  <2> QED
      BY <2>3 DEF a, b, c, CheckNumbers, LegacyRuntimeFor
<1> QED
    BY <1>2, <1>4, <1>6, <1>7, <1>8, <1>9 DEF SendAudio, SendMedia, SendContact, SendReaction

LEMMA Programs ==
    ASSUME NEW op \in OperationNames
    PROVE  /\ Program[op] \in Seq(Steps) /\ Program[op] # <<>>
           /\ Shape(Program[op])
           /\ op # "queue" => Jobless(Program[op]) /\ Program[op][1] # "running"
           /\ Guarded(Program[op], {"persist", "sent"}, Sending)
           /\ Guarded(Program[op], {"sent"}, {"persist"})
<1> DEFINE Good(t) ==
              /\ t \in Seq(Steps) /\ t # <<>>
              /\ Shape(t)
              /\ Guarded(t, {"persist", "sent"}, Sending)
              /\ Guarded(t, {"sent"}, {"persist"})
           Free(t) == Good(t) /\ Jobless(t) /\ t[1] # "running"
<1> USE DEF Steps, Shape, Guarded, Jobless, Sending, Final
<1>1. Good(QueueSendText)
    BY Flat
<1>2. Free(SendText)
    BY Flat
<1>3. Free(SendMedia)
    BY Flat
<1>4. Free(SendReaction)
    BY Flat
<1>5. Free(SendPoll)
    BY Flat
<1>6. Free(CheckNumbers)
    BY Flat
<1>7. Free(MarkRead)
    BY DEF MarkRead
<1>8. /\ Program["queue"] = QueueSendText /\ Program["text"] = SendText
      /\ Program["media"] = SendMedia /\ Program["audio"] = SendMedia
      /\ Program["reaction"] = SendReaction /\ Program["contact"] = SendReaction
      /\ Program["poll"] = SendPoll /\ Program["markRead"] = MarkRead
      /\ Program["checkNumbers"] = CheckNumbers
    BY DEF Program, SendAudio, SendMedia, SendContact, SendReaction
<1> HIDE DEF Good, Free, Steps, Shape, Guarded, Jobless, Sending, Final
<1>9. Good(Program[op]) /\ (op # "queue" => Free(Program[op]))
  <2>1. \A t : Free(t) => Good(t)
      BY DEF Free
  <2> QED
      BY <1>1, <1>2, <1>3, <1>4, <1>5, <1>6, <1>7, <1>8, <2>1 DEF OperationNames
<1> QED
    BY <1>9 DEF Good, Free

-----------------------------------------------------------------------------
(* Steps of one send.                                                      *)

\* A message about which nothing changes.
Same(r) ==
    /\ task'[r] = task[r] /\ jobs'[r] = jobs[r] /\ rows'[r] = rows[r]
    /\ r \in accepted' <=> r \in accepted
    /\ r \in index' <=> r \in index
    /\ r \in warned' <=> r \in warned
    /\ \A u : u.message = r => (u \in updates' <=> u \in updates)

LEMMA SameKeeps ==
    ASSUME NEW r \in Sends, Same(r), SendInv(r), MessageInv(r), HistoryInv(r)
    PROVE  SendInv(r)' /\ MessageInv(r)' /\ HistoryInv(r)'
BY DEF Same, SendInv, MessageInv, HistoryInv

\* The send that takes a step.
LEMMA Acting ==
    ASSUME TypeOK, NEW s \in Sends, SendInv(s), task[s].todo # <<>>
    PROVE  LET t == task[s].todo
           IN  /\ task[s] \in Tasks /\ t \in Seq(Steps) /\ t # <<>> /\ Shape(t)
               /\ task[s].op \in OperationNames
               /\ Head(t) = t[1]
               /\ Tail(t) \in Seq(Steps) /\ Shape(Tail(t))
               /\ Head(t) \in Final => Tail(t) = <<>>
               /\ Head(t) \in Final \cup {"running"} => task[s].op = "queue"
               /\ Tail(t) # <<>> => Tail(t)[1] # "running"
               /\ task[s].op # "queue" => Jobless(Tail(t))
               /\ Head(t) \in {"persist", "sent"} => s \in accepted
               /\ Head(t) = "sent" => rows[s].status # "absent" \/ s \in warned
               /\ Head(t) \notin Sending =>
                     s \in accepted \/ Guarded(Tail(t), {"persist", "sent"}, Sending)
               /\ Head(t) # "persist" =>
                     \/ rows[s].status # "absent" \/ s \in warned
                     \/ Guarded(Tail(t), {"sent"}, {"persist"})
<1> DEFINE t == task[s].todo
<1>1. task[s] \in Tasks /\ t \in Seq(Steps) /\ t # <<>> /\ Shape(t)
    BY DEF TypeOK, Tasks, SendInv
<1>2. task[s].op # "none"
    BY <1>1 DEF SendInv, Unused
<1>3. task[s].op \in OperationNames
    BY <1>1, <1>2 DEF Tasks
<1>4. /\ Head(t) = t[1] /\ Tail(t) \in Seq(Steps) /\ Shape(Tail(t))
      /\ Head(t) \in Final => Tail(t) = <<>>
      /\ Tail(t) # <<>> => Tail(t)[1] # "running"
      /\ Jobless(t) => Jobless(Tail(t)) /\ Head(t) \notin Final \cup {"running"}
    BY <1>1, Rest
<1>5. task[s].op # "queue" => Jobless(t)
    BY DEF SendInv
<1>6. \/ s \in accepted
      \/ /\ Head(t) \notin {"persist", "sent"}
         /\ Head(t) \notin Sending => Guarded(Tail(t), {"persist", "sent"}, Sending)
  <2>1. CASE s \in accepted
      BY <2>1
  <2>2. CASE Guarded(t, {"persist", "sent"}, Sending)
      BY <1>1, <2>2, GuardedRest
  <2> QED
      BY <2>1, <2>2 DEF SendInv
<1>7. \/ rows[s].status # "absent" \/ s \in warned
      \/ /\ Head(t) # "sent"
         /\ Head(t) # "persist" => Guarded(Tail(t), {"sent"}, {"persist"})
  <2>1. CASE rows[s].status # "absent" \/ s \in warned
      BY <2>1
  <2>2. CASE Guarded(t, {"sent"}, {"persist"})
    <3>1. Head(t) \notin {"sent"} /\ (Head(t) \notin {"persist"} => Guarded(Tail(t), {"sent"}, {"persist"}))
        BY <1>1, <2>2, GuardedRest
    <3> QED
        BY <3>1
  <2> QED
      BY <2>1, <2>2 DEF SendInv
<1> HIDE DEF t
<1>8. QED
    BY <1>1, <1>3, <1>4, <1>5, <1>6, <1>7 DEF t

\* Lists an error leaves.
LEMMA Ends ==
    /\ \A t \in {<<>>, <<"failed">>} :
          /\ t \in Seq(Steps) /\ Shape(t)
          /\ Guarded(t, {"persist", "sent"}, Sending)
          /\ Guarded(t, {"sent"}, {"persist"})
          /\ t # <<>> => t[1] # "running"
    /\ Jobless(<<>>)
BY DEF Steps, Shape, Guarded, Jobless, Final

\* A send goes on to the list u: what u and the data have to satisfy.
LEMMA Onward ==
    ASSUME TypeOK, NEW s \in Sends, SendInv(s), task[s].todo # <<>>,
           NEW x \in Tasks, NEW u, x.op = task[s].op, x.todo = u,
           task' = [task EXCEPT ![s] = x],
           Shape(u), task[s].op # "queue" => Jobless(u),
           u # <<>> => u[1] # "running",
           jobs' = jobs, index' = index, s \in accepted => s \in accepted',
           s \in accepted' \/ Guarded(u, {"persist", "sent"}, Sending),
           \/ rows'[s].status # "absent" \/ s \in warned'
           \/ Guarded(u, {"sent"}, {"persist"}),
           rows'[s].deliveredAt = 0 /\ rows'[s].readAt = 0
    PROVE  /\ task' \in [Sends -> Tasks]
           /\ SendInv(s)'
<1>1. /\ task[s] \in Tasks /\ task[s].op \in OperationNames
    BY Acting
<1>2. task' \in [Sends -> Tasks]
    BY <1>1 DEF TypeOK, Tasks
<1>3. task'[s] = x
    BY DEF TypeOK
<1>4. task'[s].op = task[s].op /\ task'[s].todo = u /\ task[s].op # "none"
    BY <1>1, <1>3 DEF OperationNames
<1> QED
    BY <1>2, <1>4 DEF SendInv

\* Continue and Return.
LEMMA Moves ==
    ASSUME TypeOK, NEW s \in Sends, SendInv(s), task[s].todo # <<>>,
           Head(task[s].todo) \notin Final \cup {"running"},
           jobs' = jobs, index' = index, s \in accepted => s \in accepted',
           rows'[s].status = "absent" => rows[s].status = "absent",
           s \in warned => s \in warned',
           rows'[s].deliveredAt = 0 /\ rows'[s].readAt = 0,
           \/ /\ Continue(s)
              /\ Head(task[s].todo) \in Sending => s \in accepted'
              /\ Head(task[s].todo) = "persist" => rows'[s].status # "absent" \/ s \in warned'
           \/ Return(s)
    PROVE  task' \in [Sends -> Tasks] /\ SendInv(s)'
<1> DEFINE t == task[s].todo
<1>1. task \in [Sends -> Tasks] /\ task[s] \in Tasks
    BY DEF TypeOK
<1>2. ASSUME NEW u \in Seq(Steps), task' = [task EXCEPT ![s].todo = u]
      PROVE  \E x \in Tasks : /\ x.op = task[s].op /\ x.todo = u
                              /\ task' = [task EXCEPT ![s] = x]
  <2> DEFINE x == [task[s] EXCEPT !.todo = u]
  <2>1. x \in Tasks /\ x.op = task[s].op /\ x.todo = u
      BY <1>1 DEF Tasks
  <2>2. task' = [task EXCEPT ![s] = x]
      BY <1>2
  <2> QED
      BY <2>1, <2>2
<1>3. CASE Return(s)
  <2>1. PICK u \in {<<>>, <<"failed">>} :
             task' = [task EXCEPT ![s].todo = u] /\ (u # <<>> => task[s].op = "queue")
      BY <1>3 DEF Return
  <2>2. u \in Seq(Steps)
      BY Ends
  <2>3. PICK x \in Tasks : x.op = task[s].op /\ x.todo = u /\ task' = [task EXCEPT ![s] = x]
      BY <1>2, <2>1, <2>2
  <2> QED
      BY <2>1, <2>3, Ends, Onward
<1>4. CASE Continue(s) /\ ~Return(s)
  <2>1. task' = [task EXCEPT ![s].todo = Tail(t)]
      BY <1>4 DEF Continue
  <2>2. Tail(t) \in Seq(Steps)
      BY Acting
  <2>3. PICK x \in Tasks : x.op = task[s].op /\ x.todo = Tail(t) /\ task' = [task EXCEPT ![s] = x]
      BY <1>2, <2>1, <2>2
  <2> QED
      BY <1>4, <2>3, Acting, Onward
<1> QED
    BY <1>3, <1>4

-----------------------------------------------------------------------------
(* Every step keeps the invariant.                                         *)

\* The first step of a list, as the guards of the actions name it.
LEMMA AtHead ==
    ASSUME NEW s, NEW step, At(s, step)
    PROVE  task[s].todo # <<>> /\ Head(task[s].todo) = step
BY DEF At

\* Steps that only move the send along its list: Proceed, Lock, Ensure,
\* PollClient, Recipient, RefreshConnectedClient.
LEMMA QuietKeeps ==
    ASSUME ConversationInv, NEW s \in Sends, task[s].todo # <<>>,
           Head(task[s].todo) \notin Final \cup Sending \cup {"running", "persist"},
           session' \in BOOLEAN, lock' \in Sends \cup {None},
           Continue(s) \/ Return(s),
           UNCHANGED <<accepted, registryVars, dispatchVars, rows, warned, restarts>>
    PROVE  ConversationInv'
<1> USE DEF registryVars, dispatchVars
<1>1. TypeOK /\ SendInv(s) /\ MessageInv(s) /\ HistoryInv(s)
    BY DEF ConversationInv
<1>2. rows[s].deliveredAt = 0 /\ rows[s].readAt = 0
    BY <1>1 DEF SendInv
<1>3. task' \in [Sends -> Tasks] /\ SendInv(s)'
  <2>1. /\ jobs' = jobs /\ index' = index /\ rows'[s] = rows[s]
        /\ accepted' = accepted /\ warned' = warned
      OBVIOUS
  <2> QED
      BY <1>1, <1>2, <2>1, Moves
<1>4. TypeOK' /\ DispatchInv'
    BY <1>1, <1>3 DEF TypeOK, DispatchInv, ConversationInv
<1>5. MessageInv(s)' /\ HistoryInv(s)'
    BY <1>1 DEF MessageInv, HistoryInv
<1>6. ASSUME NEW r \in Sends, r # s
      PROVE  SendInv(r)' /\ MessageInv(r)' /\ HistoryInv(r)'
  <2>1. task'[r] = task[r]
      BY <1>1, <1>6 DEF Continue, Return, TypeOK
  <2>2. Same(r)
      BY <2>1 DEF Same
  <2> QED
      BY <2>2, SameKeeps DEF ConversationInv
<1>7. UpdateInv' /\ RowBehindJob'
    BY DEF ConversationInv, UpdateInv, RowBehindJob
<1> QED
    BY <1>3, <1>4, <1>5, <1>6, <1>7 DEF ConversationInv

LEMMA QuietSteps ==
    ASSUME ConversationInv, NEW s \in Sends,
           \/ Proceed(s) \/ Lock(s) \/ Ensure(s) \/ PollClient(s) \/ Recipient(s)
           \/ RefreshConnectedClient(s)
    PROVE  ConversationInv'
<1>1. /\ session \in BOOLEAN /\ lock \in Sends \cup {None}
      /\ EnsureConnectedClient => session' \in BOOLEAN
    BY DEF ConversationInv, TypeOK, EnsureConnectedClient, ReconnectExistingClient,
           HardReconnectClient, WaitForActiveClient
<1>2. Return(s) => lock' \in Sends \cup {None}
    BY <1>1 DEF Return
<1> USE DEF Final, Sending
<1>3. CASE Proceed(s)
  <2>1. PICK step \in Fallible : At(s, step)
      BY <1>3 DEF Proceed
  <2>2. task[s].todo # <<>> /\ Head(task[s].todo) \in Fallible
      BY <2>1, AtHead
  <2>3. session' \in BOOLEAN /\ lock' \in Sends \cup {None} /\ (Continue(s) \/ Return(s))
      BY <1>1, <1>2, <1>3 DEF Proceed
  <2> QED
      BY <1>3, <2>2, <2>3, QuietKeeps DEF Proceed, Fallible
<1>4. CASE Lock(s)
    BY <1>1, <1>4, AtHead, QuietKeeps DEF Lock
<1>5. CASE Ensure(s)
  <2>1. session' \in BOOLEAN /\ lock' \in Sends \cup {None} /\ (Continue(s) \/ Return(s))
      BY <1>1, <1>2, <1>5 DEF Ensure
  <2> QED
      BY <1>5, <2>1, AtHead, QuietKeeps DEF Ensure
<1>6. CASE PollClient(s)
  <2>1. session' \in BOOLEAN /\ lock' \in Sends \cup {None} /\ (Continue(s) \/ Return(s))
      BY <1>1, <1>2, <1>6 DEF PollClient
  <2> QED
      BY <1>6, <2>1, AtHead, QuietKeeps DEF PollClient
<1>7. CASE Recipient(s)
  <2>1. session' \in BOOLEAN /\ lock' \in Sends \cup {None} /\ (Continue(s) \/ Return(s))
      BY <1>1, <1>2, <1>7 DEF Recipient
  <2> QED
      BY <1>7, <2>1, AtHead, QuietKeeps DEF Recipient
<1>8. CASE RefreshConnectedClient(s)
  <2>1. session' \in BOOLEAN /\ lock' \in Sends \cup {None} /\ (Continue(s) \/ Return(s))
      BY <1>1, <1>2, <1>8 DEF RefreshConnectedClient
  <2> QED
      BY <1>8, <2>1, AtHead, QuietKeeps DEF RefreshConnectedClient
<1> QED
    BY <1>3, <1>4, <1>5, <1>6, <1>7, <1>8

\* A message that may have reached WhatsApp.
LEMMA SentKeeps ==
    ASSUME ConversationInv, NEW s \in Sends,
           task' \in [Sends -> Tasks], SendInv(s)',
           \A r \in Sends \ {s} : task'[r] = task[r],
           accepted' \in {accepted, accepted \cup {s}},
           lock' \in Sends \cup {None},
           UNCHANGED <<session, registryVars, dispatchVars, rows, warned, restarts>>
    PROVE  ConversationInv'
<1> USE DEF registryVars, dispatchVars
<1>1. TypeOK' /\ DispatchInv'
    BY DEF TypeOK, DispatchInv, ConversationInv
<1>2. MessageInv(s)' /\ HistoryInv(s)'
    BY DEF MessageInv, HistoryInv, ConversationInv
<1>3. ASSUME NEW r \in Sends, r # s
      PROVE  SendInv(r)' /\ MessageInv(r)' /\ HistoryInv(r)'
  <2>1. Same(r)
      BY <1>3 DEF Same
  <2> QED
      BY <2>1, SameKeeps DEF ConversationInv
<1>4. UpdateInv' /\ RowBehindJob'
    BY DEF ConversationInv, UpdateInv, RowBehindJob
<1> QED
    BY <1>1, <1>2, <1>3, <1>4 DEF ConversationInv

LEMMA SendMessageKeeps ==
    ASSUME ConversationInv, NEW s \in Sends, SendMessage(s)
    PROVE  ConversationInv'
<1> USE DEF registryVars, dispatchVars
<1>1. TypeOK /\ SendInv(s) /\ task \in [Sends -> Tasks] /\ task[s] \in Tasks
    BY DEF ConversationInv, TypeOK
<1>2. task[s].todo # <<>> /\ Head(task[s].todo) = "send"
    BY AtHead DEF SendMessage
<1>3. rows[s].deliveredAt = 0 /\ rows[s].readAt = 0
    BY <1>1, <1>2 DEF SendInv
<1>4. PICK reply \in Replies, arrives \in BOOLEAN :
          /\ reply = "ok" => arrives
          /\ accepted' = IF arrives THEN accepted \cup {s} ELSE accepted
          /\ IF Succeeds(s, reply)
                THEN Continue(s) /\ lock' = None
                ELSE IF Retries(s, reply)
                        THEN /\ task' = [task EXCEPT ![s].attempt = @ + 1,
                                                     ![s].todo = <<"refresh">> \o @]
                             /\ UNCHANGED lock
                        ELSE Return(s)
    BY DEF SendMessage
<1>5. /\ accepted' \in {accepted, accepted \cup {s}}
      /\ s \in accepted => s \in accepted'
    BY <1>4
<1>6. UNCHANGED <<session, registryVars, dispatchVars, rows, warned, restarts>>
    BY DEF SendMessage
<1>7. CASE Succeeds(s, reply)
  <2>1. Continue(s) /\ s \in accepted' /\ lock' = None
      BY <1>4, <1>7 DEF Succeeds
  <2>2. task' \in [Sends -> Tasks] /\ SendInv(s)'
      BY <1>1, <1>2, <1>3, <1>5, <1>6, <2>1, Moves DEF Final
  <2>3. \A r \in Sends \ {s} : task'[r] = task[r]
      BY <1>1, <2>1 DEF Continue
  <2> QED
      BY <1>4, <1>6, <2>1, <2>2, <2>3, SentKeeps
<1>8. CASE ~Succeeds(s, reply) /\ Retries(s, reply)
  <2> DEFINE u == <<"refresh">> \o task[s].todo
             x == [task[s] EXCEPT !.attempt = @ + 1, !.todo = u]
  <2>1. /\ task' = [task EXCEPT ![s] = x]
        /\ lock' = lock
    <3>1. /\ task' = [[task EXCEPT ![s].attempt = @ + 1] EXCEPT ![s].todo = <<"refresh">> \o @]
          /\ lock' = lock
        BY <1>4, <1>8
    <3> DEFINE y == [task[s] EXCEPT !.attempt = @ + 1]
    <3>2. [task EXCEPT ![s].attempt = @ + 1] = [task EXCEPT ![s] = y]
        OBVIOUS
    <3>3. task' = [[task EXCEPT ![s] = y] EXCEPT ![s] = [y EXCEPT !.todo = <<"refresh">> \o @]]
        BY <1>1, <3>1, <3>2
    <3>4. y.todo = task[s].todo /\ x = [y EXCEPT !.todo = u]
        BY <1>1 DEF Tasks
    <3> QED
        BY <1>1, <3>1, <3>3, <3>4
  <2>2. /\ u \in Seq(Steps) /\ u # <<>> /\ u[1] = "refresh" /\ Shape(u)
        /\ Jobless(task[s].todo) => Jobless(u)
        /\ \A S, T : "refresh" \notin S /\ Guarded(task[s].todo, S, T) => Guarded(u, S, T)
      BY <1>1, <1>2, Acting, Retry
  <2>3. task[s].attempt + 1 \in 0 .. MaxAttempts - 1
    <3>1. task[s].attempt \in 0..2 /\ task[s].attempt + 1 < 3
        BY <1>1, <1>8 DEF Retries, Tasks, MaxAttempts
    <3> QED
        BY <3>1 DEF MaxAttempts
  <2>4. x \in Tasks /\ x.op = task[s].op /\ x.todo = u
      BY <1>1, <2>2, <2>3 DEF Tasks
  <2>5. s \in accepted' \/ Guarded(u, {"persist", "sent"}, Sending)
      BY <1>1, <1>5, <2>2 DEF SendInv
  <2>6. \/ rows'[s].status # "absent" \/ s \in warned'
        \/ Guarded(u, {"sent"}, {"persist"})
      BY <1>1, <1>6, <2>2 DEF SendInv
  <2>7. task[s].op # "queue" => Jobless(u)
      BY <1>1, <2>2 DEF SendInv
  <2> HIDE DEF u, x
  <2>8. task' \in [Sends -> Tasks] /\ SendInv(s)'
      BY <1>1, <1>2, <1>3, <1>5, <1>6, <2>1, <2>2, <2>4, <2>5, <2>6, <2>7, Onward
  <2>9. \A r \in Sends \ {s} : task'[r] = task[r]
      BY <1>1, <2>1
  <2>10. lock' \in Sends \cup {None}
      BY <1>1, <2>1 DEF TypeOK
  <2> QED
      BY <1>4, <1>6, <2>8, <2>9, <2>10, SentKeeps
<1>9. CASE ~Succeeds(s, reply) /\ ~Retries(s, reply)
  <2>1. Return(s) /\ lock' \in Sends \cup {None}
      BY <1>1, <1>4, <1>9 DEF Return, TypeOK
  <2>2. task' \in [Sends -> Tasks] /\ SendInv(s)'
      BY <1>1, <1>2, <1>3, <1>5, <1>6, <2>1, Moves DEF Final
  <2>3. \A r \in Sends \ {s} : task'[r] = task[r]
      BY <1>1, <2>1 DEF Return
  <2> QED
      BY <1>4, <1>6, <2>1, <2>2, <2>3, SentKeeps
<1> QED
    BY <1>7, <1>8, <1>9

LEMMA SendOnceKeeps ==
    ASSUME ConversationInv, NEW s \in Sends, SendOnce(s)
    PROVE  ConversationInv'
<1> USE DEF registryVars, dispatchVars
<1>1. TypeOK /\ SendInv(s) /\ task \in [Sends -> Tasks]
    BY DEF ConversationInv, TypeOK
<1>2. task[s].todo # <<>> /\ Head(task[s].todo) = "sendOnce"
    BY AtHead DEF SendOnce
<1>3. rows[s].deliveredAt = 0 /\ rows[s].readAt = 0
    BY <1>1, <1>2 DEF SendInv
<1>4. /\ UNCHANGED <<session, registryVars, dispatchVars, rows, warned, restarts>>
      /\ accepted' \in {accepted, accepted \cup {s}}
      /\ (Continue(s) /\ s \in accepted') \/ Return(s)
      /\ lock' \in Sends \cup {None}
    BY <1>1 DEF SendOnce, Return, TypeOK
<1>5. s \in accepted => s \in accepted'
    BY <1>4
<1>6. task' \in [Sends -> Tasks] /\ SendInv(s)'
    BY <1>1, <1>2, <1>3, <1>4, <1>5, Moves DEF Final
<1>7. \A r \in Sends \ {s} : task'[r] = task[r]
    BY <1>1, <1>4 DEF Continue, Return
<1> QED
    BY <1>4, <1>6, <1>7, SentKeeps

\* The row of the message is written, or the log says that it was not.
LEMMA PersistKeeps ==
    ASSUME ConversationInv, NEW s \in Sends, PersistOutbound(s)
    PROVE  ConversationInv'
<1> USE DEF registryVars, dispatchVars
<1>1. TypeOK /\ SendInv(s) /\ MessageInv(s) /\ task \in [Sends -> Tasks] /\ s \in Messages
    BY DEF ConversationInv, TypeOK, Messages
<1>2. task[s].todo # <<>> /\ Head(task[s].todo) = "persist"
    BY AtHead DEF PersistOutbound
<1>3. /\ rows[s].deliveredAt = 0 /\ rows[s].readAt = 0 /\ s \notin index
      /\ jobs[s].deliveredAt = 0 /\ jobs[s].readAt = 0
    BY <1>1, <1>2 DEF SendInv, MessageInv
<1>4. s \in accepted
    BY <1>1, <1>2, Acting
<1>5. /\ Continue(s) /\ Upsert(s, "sent")
      /\ UNCHANGED <<session, lock, accepted, registryVars, dispatchVars, restarts>>
    BY DEF PersistOutbound
<1>6. /\ rows' \in [Messages -> Row] /\ warned' \subseteq Messages
      /\ \A m \in Messages \ {s} : rows'[m] = rows[m] /\ (m \in warned' <=> m \in warned)
      /\ rows'[s].deliveredAt = 0 /\ rows'[s].readAt = 0
      /\ rows'[s].status # "absent" \/ s \in warned'
      /\ rows'[s].status = "absent" => rows[s].status = "absent"
      /\ s \in warned => s \in warned'
    BY <1>1, <1>3, <1>5 DEF TypeOK, Upsert, Row, RowStatus, Stamps
<1>7. task' \in [Sends -> Tasks] /\ SendInv(s)'
    BY <1>1, <1>2, <1>5, <1>6, Moves DEF Final, Sending
<1>8. TypeOK' /\ DispatchInv'
    BY <1>1, <1>5, <1>6, <1>7 DEF TypeOK, DispatchInv, ConversationInv
<1>9. MessageInv(s)' /\ HistoryInv(s)'
    BY <1>1, <1>3, <1>4, <1>5, <1>6 DEF MessageInv, HistoryInv
<1>10. ASSUME NEW r \in Sends, r # s
       PROVE  SendInv(r)' /\ MessageInv(r)' /\ HistoryInv(r)'
  <2>1. task'[r] = task[r] /\ r \in Messages \ {s}
      BY <1>1, <1>5, <1>10 DEF Continue, Messages
  <2>2. Same(r)
      BY <1>5, <1>6, <2>1 DEF Same
  <2> QED
      BY <2>2, SameKeeps DEF ConversationInv
<1>11. UpdateInv' /\ RowBehindJob'
  <2>1. \A r \in Sends : r # s => rows'[r] = rows[r]
      BY <1>6 DEF Messages
  <2> QED
      BY <1>3, <1>5, <1>6, <2>1 DEF ConversationInv, UpdateInv, RowBehindJob
<1> QED
    BY <1>7, <1>8, <1>9, <1>10, <1>11 DEF ConversationInv

\* A status is stored for a job that has no receipts yet.
LEMMA StoreKeeps ==
    ASSUME ConversationInv, NEW s \in Sends, s \notin index,
           rows[s].deliveredAt = 0, rows[s].readAt = 0,
           NEW status \in JobStatus \ {"absent"}, Store(s, status),
           status = "sent" =>
               s \in accepted /\ (rows[s].status # "absent" \/ s \in warned),
           task' \in [Sends -> Tasks], SendInv(s)',
           \A r \in Sends \ {s} : task'[r] = task[r],
           UNCHANGED <<session, lock, accepted, dispatchVars, rows, warned, restarts>>
    PROVE  ConversationInv'
<1> USE DEF dispatchVars
<1>1. TypeOK /\ MessageInv(s) /\ jobs \in [Sends -> Job] /\ jobs[s] \in Job
    BY DEF ConversationInv, TypeOK
<1>2. jobs[s].deliveredAt = 0 /\ jobs[s].readAt = 0
    BY <1>1 DEF MessageInv
<1>3. /\ jobs' \in [Sends -> Job]
      /\ jobs'[s].status = status /\ jobs'[s].deliveredAt = 0 /\ jobs'[s].readAt = 0
      /\ \A r \in Sends \ {s} : jobs'[r] = jobs[r]
  <2> DEFINE x == [jobs[s] EXCEPT !.status = status]
  <2>1. x \in Job /\ x.status = status /\ x.deliveredAt = 0 /\ x.readAt = 0
      BY <1>1, <1>2 DEF Job
  <2>2. jobs' = [jobs EXCEPT ![s] = x]
      BY DEF Store, MergeStatus
  <2> QED
      BY <1>1, <2>1, <2>2
<1>4. /\ index' = IF status = "sent" THEN index \cup {s} ELSE index
      /\ updates' = updates /\ processed' = processed
    BY DEF Store
<1>5. TypeOK' /\ DispatchInv'
    BY <1>1, <1>3, <1>4 DEF TypeOK, DispatchInv, ConversationInv
<1>6. MessageInv(s)' /\ HistoryInv(s)'
    BY <1>1, <1>3, <1>4 DEF MessageInv, HistoryInv
<1>7. ASSUME NEW r \in Sends, r # s
      PROVE  SendInv(r)' /\ MessageInv(r)' /\ HistoryInv(r)'
  <2>1. Same(r)
      BY <1>3, <1>4, <1>7 DEF Same
  <2> QED
      BY <2>1, SameKeeps DEF ConversationInv
<1>8. UpdateInv'
  <2>1. ASSUME NEW u \in updates
        PROVE  u.message \in index' /\ jobs'[u.message] = jobs[u.message]
    <3>1. u.message \in index /\ u.message \in Sends
        BY <1>1 DEF ConversationInv, UpdateInv, TypeOK
    <3> QED
        BY <1>3, <1>4, <3>1
  <2> QED
      BY <1>4, <2>1 DEF ConversationInv, UpdateInv
<1>9. RowBehindJob'
    BY <1>3 DEF ConversationInv, RowBehindJob
<1> QED
    BY <1>5, <1>6, <1>7, <1>8, <1>9 DEF ConversationInv

LEMMA JobKeeps ==
    ASSUME ConversationInv, NEW s \in Sends, StoreSendTextJob(s)
    PROVE  ConversationInv'
<1> DEFINE t == task[s].todo
<1>1. TypeOK /\ SendInv(s) /\ task \in [Sends -> Tasks] /\ task[s] \in Tasks
    BY DEF ConversationInv, TypeOK
<1>2. PICK status \in {"running", "sent", "failed"} : At(s, status) /\ Store(s, status)
    BY DEF StoreSendTextJob
<1>3. t # <<>> /\ Head(t) = status
    BY <1>2, AtHead
<1>4. /\ rows[s].deliveredAt = 0 /\ rows[s].readAt = 0 /\ s \notin index
    BY <1>1, <1>3 DEF SendInv
<1>5. /\ t \in Seq(Steps)
      /\ Tail(t) \in Seq(Steps) /\ Shape(Tail(t))
      /\ status # "running" => Tail(t) = <<>>
      /\ task[s].op = "queue"
      /\ Tail(t) # <<>> => Tail(t)[1] # "running"
      /\ status = "sent" => s \in accepted /\ (rows[s].status # "absent" \/ s \in warned)
      /\ s \in accepted \/ Guarded(Tail(t), {"persist", "sent"}, Sending)
      /\ \/ rows[s].status # "absent" \/ s \in warned
         \/ Guarded(Tail(t), {"sent"}, {"persist"})
    BY <1>1, <1>3, Acting DEF Final, Sending
<1>6. /\ task' \in [Sends -> Tasks]
      /\ task'[s].op = "queue" /\ task'[s].todo = Tail(t)
      /\ \A r \in Sends \ {s} : task'[r] = task[r]
  <2> DEFINE x == [task[s] EXCEPT !.todo = Tail(t)]
  <2>1. x \in Tasks /\ x.op = "queue" /\ x.todo = Tail(t)
      BY <1>1, <1>5 DEF Tasks
  <2>2. task' = [task EXCEPT ![s] = x]
      BY DEF StoreSendTextJob, Continue
  <2> QED
      BY <1>1, <2>1, <2>2
<1>7. UNCHANGED <<session, lock, accepted, dispatchVars, rows, warned, restarts>>
    BY DEF StoreSendTextJob
<1>8. jobs'[s].status = status /\ (status # "sent" => index' = index)
    BY <1>1, <1>2 DEF Store, MergeStatus, TypeOK, Job
<1> HIDE DEF t
<1>9. SendInv(s)'
    BY <1>4, <1>5, <1>6, <1>7, <1>8 DEF SendInv
<1>10. status \in JobStatus \ {"absent"}
    BY DEF JobStatus
<1> QED
    BY <1>2, <1>4, <1>5, <1>6, <1>7, <1>9, <1>10, StoreKeeps

LEMMA BeginKeeps ==
    ASSUME ConversationInv, NEW s \in Sends, Begin(s)
    PROVE  ConversationInv'
<1>1. /\ TypeOK /\ SendInv(s) /\ MessageInv(s) /\ HistoryInv(s)
      /\ task \in [Sends -> Tasks] /\ task[s] \in Tasks
    BY DEF ConversationInv, TypeOK
<1>2. /\ task[s] = Unused /\ s \notin accepted /\ rows[s] = NoRow /\ jobs[s] = NoJob
      /\ s \notin index
    BY <1>1 DEF Begin, SendInv, MessageInv, Unused, NoJob
<1>3. PICK op \in Operations :
          /\ task' = [task EXCEPT ![s] = [@ EXCEPT !.op = op, !.todo = Program[op]]]
          /\ IF op = "queue" THEN Store(s, "queued") ELSE UNCHANGED registryVars
    BY DEF Begin
<1>4. UNCHANGED <<session, lock, accepted, dispatchVars, rows, warned, restarts>>
    BY DEF Begin
<1>5. op \in OperationNames
    BY ConversationAssumption
<1> DEFINE t == Program[op]
<1>6. /\ t \in Seq(Steps) /\ t # <<>> /\ Shape(t)
      /\ op # "queue" => Jobless(t) /\ t[1] # "running"
      /\ Guarded(t, {"persist", "sent"}, Sending)
      /\ Guarded(t, {"sent"}, {"persist"})
    BY <1>5, Programs
<1> HIDE DEF t
<1>7. /\ task' \in [Sends -> Tasks] /\ task'[s].op = op /\ task'[s].todo = t
      /\ \A r \in Sends \ {s} : task'[r] = task[r]
  <2> DEFINE x == [task[s] EXCEPT !.op = op, !.todo = t]
  <2>1. x \in Tasks /\ x.op = op /\ x.todo = t
      BY <1>1, <1>5, <1>6 DEF Tasks
  <2>2. task' = [task EXCEPT ![s] = x]
      BY <1>3 DEF t
  <2> QED
      BY <1>1, <2>1, <2>2
<1>8. CASE op = "queue"
  <2>1. Store(s, "queued")
      BY <1>3, <1>8
  <2>2. jobs'[s].status = "queued" /\ index' = index
      BY <1>1, <2>1 DEF Store, MergeStatus, TypeOK, Job
  <2>3. SendInv(s)'
      BY <1>2, <1>4, <1>6, <1>7, <1>8, <2>2 DEF SendInv, NoRow
  <2>4. "queued" \in JobStatus \ {"absent"}
      BY DEF JobStatus
  <2> QED
      BY <1>2, <1>4, <1>7, <2>1, <2>3, <2>4, StoreKeeps DEF NoRow
<1>9. CASE op # "queue"
  <2> USE DEF registryVars, dispatchVars
  <2>1. UNCHANGED registryVars
      BY <1>3, <1>9
  <2>2. SendInv(s)'
    <3>1. task'[s].op # "none"
        BY <1>5, <1>7 DEF OperationNames
    <3> QED
        BY <1>2, <1>4, <1>6, <1>7, <1>9, <2>1, <3>1 DEF SendInv, NoRow, NoJob
  <2>3. TypeOK' /\ DispatchInv'
      BY <1>1, <1>4, <1>7, <2>1 DEF TypeOK, DispatchInv, ConversationInv
  <2>4. MessageInv(s)' /\ HistoryInv(s)'
      BY <1>1, <1>4, <2>1 DEF MessageInv, HistoryInv
  <2>5. ASSUME NEW r \in Sends, r # s
        PROVE  SendInv(r)' /\ MessageInv(r)' /\ HistoryInv(r)'
    <3>1. Same(r)
        BY <1>4, <1>7, <2>1, <2>5 DEF Same
    <3> QED
        BY <3>1, SameKeeps DEF ConversationInv
  <2>6. UpdateInv' /\ RowBehindJob'
      BY <1>4, <2>1 DEF ConversationInv, UpdateInv, RowBehindJob
  <2> QED
      BY <2>2, <2>3, <2>4, <2>5, <2>6 DEF ConversationInv
<1> QED
    BY <1>8, <1>9

\* Steps of the session, of the dedupe and of the dispatch queue.
LEMMA OtherKeeps ==
    ASSUME ConversationInv, TypeOK', DispatchInv',
           UNCHANGED <<task, accepted, jobs, index, updates, warned>>,
           \A s \in Sends : rows'[s] = rows[s]
    PROVE  ConversationInv'
<1>1. ASSUME NEW r \in Sends
      PROVE  SendInv(r)' /\ MessageInv(r)' /\ HistoryInv(r)'
  <2>1. Same(r)
      BY DEF Same
  <2> QED
      BY <2>1, SameKeeps DEF ConversationInv
<1>2. UpdateInv' /\ RowBehindJob'
    BY DEF ConversationInv, UpdateInv, RowBehindJob
<1> QED
    BY <1>1, <1>2 DEF ConversationInv

LEMMA SessionKeeps ==
    ASSUME ConversationInv, SessionChanges \/ ForgetProcessed
    PROVE  ConversationInv'
<1> USE DEF sendVars, registryVars, dispatchVars
<1>1. TypeOK /\ DispatchInv
    BY DEF ConversationInv
<1>2. UNCHANGED <<task, accepted, jobs, index, updates, warned, rows>>
    BY DEF SessionChanges, ForgetProcessed
<1>3. TypeOK' /\ DispatchInv'
    BY <1>1 DEF SessionChanges, ForgetProcessed, TypeOK, DispatchInv
<1> QED
    BY <1>2, <1>3, OtherKeeps

LEMMA NotifyKeeps ==
    ASSUME ConversationInv, NEW m \in Messages, MessageEvent(m) \/ IngestHistorySync(m)
    PROVE  ConversationInv'
<1> USE DEF sendVars, registryVars
<1>1. TypeOK /\ DispatchInv
    BY DEF ConversationInv
<1>2. /\ NotifyInboundMessage(m) /\ m \in Inbound
      /\ UNCHANGED <<sendVars, registryVars, held, rows, warned, restarts>>
    BY <1>1 DEF MessageEvent, IngestHistorySync, Messages
<1>3. QueueSize \in Nat
    BY ConversationAssumption
<1>4. /\ queue' \in Seq(Inbound) /\ queue' \in Seq(Messages)
      /\ Len(queue') <= QueueSize
  <2>1. CASE queue' = queue
      BY <1>1, <2>1 DEF TypeOK, DispatchInv
  <2>2. CASE Len(queue) < QueueSize /\ queue' = Append(queue, m)
    <3>1. /\ Append(queue, m) \in Seq(Inbound) /\ Append(queue, m) \in Seq(Messages)
          /\ Len(Append(queue, m)) = Len(queue) + 1 /\ Len(queue) \in Nat
        BY <1>1, <1>2, AppendProperties, LenProperties DEF TypeOK, DispatchInv
    <3> QED
        BY <1>3, <2>2, <3>1
  <2> QED
      BY <1>2, <2>1, <2>2 DEF NotifyInboundMessage
<1>5. TypeOK' /\ DispatchInv'
    BY <1>1, <1>2, <1>4 DEF TypeOK, DispatchInv
<1> QED
    BY <1>2, <1>5, OtherKeeps

LEMMA TakeKeeps ==
    ASSUME ConversationInv, NEW w \in Workers, TakeDispatch(w)
    PROVE  ConversationInv'
<1> USE DEF sendVars, registryVars
<1>1. TypeOK /\ DispatchInv
    BY DEF ConversationInv
<1>2. /\ Head(queue) \in Inbound /\ Tail(queue) \in Seq(Inbound)
      /\ Tail(queue) \in Seq(Messages) /\ Len(Tail(queue)) = Len(queue) - 1
      /\ Len(queue) \in Nat
    BY <1>1, HeadTailProperties, LenProperties DEF TakeDispatch, TypeOK, DispatchInv
<1>3. Len(Tail(queue)) <= QueueSize
  <2> DEFINE n == Len(Tail(queue))
  <2>1. n = Len(queue) - 1 /\ Len(queue) <= QueueSize /\ QueueSize \in Nat
      BY <1>1, <1>2, ConversationAssumption DEF TypeOK
  <2> HIDE DEF n
  <2>2. n <= QueueSize
      BY <1>2, <2>1
  <2> QED
      BY <2>2 DEF n
<1>4. TypeOK' /\ DispatchInv'
    BY <1>1, <1>2, <1>3 DEF TakeDispatch, TypeOK, DispatchInv, Messages
<1> QED
    BY <1>4, OtherKeeps DEF TakeDispatch

\* The row of a contact's message.
LEMMA InboundKeeps ==
    ASSUME ConversationInv, NEW w \in Workers, InboundListener(w)
    PROVE  ConversationInv'
<1> USE DEF sendVars, registryVars
<1>1. TypeOK /\ DispatchInv
    BY DEF ConversationInv
<1>2. held[w] \in Inbound /\ held[w] \in Messages /\ held[w] \notin Sends
    BY <1>1, ConversationAssumption DEF InboundListener, DispatchInv, Messages
<1>3. /\ rows' \in [Messages -> Row] /\ warned' \subseteq Messages
      /\ \A s \in Sends : rows'[s] = rows[s] /\ (s \in warned' <=> s \in warned)
    BY <1>1, <1>2 DEF InboundListener, Upsert, TypeOK, Row, RowStatus, Stamps, Messages
<1>4. UNCHANGED <<sendVars, registryVars, queue, restarts>>
    BY DEF InboundListener
<1>5. held' \in [Workers -> Inbound \cup {None}] /\ held' \in [Workers -> Messages \cup {None}]
    BY <1>1 DEF InboundListener, DispatchInv, TypeOK
<1>6. TypeOK' /\ DispatchInv'
    BY <1>1, <1>3, <1>4, <1>5 DEF TypeOK, DispatchInv
<1>7. ASSUME NEW r \in Sends
      PROVE  SendInv(r)' /\ MessageInv(r)' /\ HistoryInv(r)'
  <2>1. Same(r)
      BY <1>3, <1>4 DEF Same
  <2> QED
      BY <2>1, SameKeeps DEF ConversationInv
<1>8. UpdateInv' /\ RowBehindJob'
    BY <1>3, <1>4 DEF ConversationInv, UpdateInv, RowBehindJob
<1> QED
    BY <1>6, <1>7, <1>8 DEF ConversationInv

\* The registry takes a receipt: the later timestamp stays.
LEMMA ReceivedJob ==
    ASSUME NEW j \in Job, NEW state \in States, NEW at \in Times
    PROVE  LET k == Received(j, state, at)
           IN  /\ k \in Job /\ k.status = j.status
               /\ j.deliveredAt <= k.deliveredAt /\ j.readAt <= k.readAt
               /\ at <= k.deliveredAt
               /\ state = "read" => at <= k.readAt
               /\ k.deliveredAt # 0
               /\ state # "read" => k.readAt = j.readAt
               /\ state = "read" => k.readAt # 0
<1>1. /\ j.deliveredAt \in Stamps /\ j.readAt \in Stamps /\ at \in Stamps
      /\ Stamps \subseteq Nat /\ at # 0
    BY ConversationAssumption DEF Job, Stamps
<1>2. \A a, b \in Stamps : /\ Later(a, b) \in Stamps
                           /\ a <= Later(a, b) /\ b <= Later(a, b)
                           /\ b # 0 => Later(a, b) # 0
    BY <1>1 DEF Later
<1> DEFINE d == Later(j.deliveredAt, at)
           e == IF state = "read" THEN Later(j.readAt, at) ELSE j.readAt
           k == [j EXCEPT !.deliveredAt = d, !.readAt = e]
<1>3. /\ d \in Stamps /\ j.deliveredAt <= d /\ at <= d /\ d # 0
      /\ e \in Stamps /\ j.readAt <= e
      /\ state = "read" => at <= e /\ e # 0
      /\ state # "read" => e = j.readAt
  <2>1. d \in Stamps /\ j.deliveredAt <= d /\ at <= d /\ d # 0
      BY <1>1, <1>2
  <2>2. CASE state = "read"
    <3>1. e = Later(j.readAt, at)
        BY <2>2
    <3> HIDE DEF e
    <3>2. e \in Stamps /\ j.readAt <= e /\ at <= e /\ e # 0
        BY <1>1, <1>2, <3>1
    <3> QED
        BY <2>1, <2>2, <3>2
  <2>3. CASE state # "read"
    <3>1. e = j.readAt /\ j.readAt \in Nat
        BY <1>1, <2>3
    <3> QED
        BY <1>1, <2>1, <2>3, <3>1
  <2> QED
      BY <2>2, <2>3
<1>4. k = Received(j, state, at)
    BY DEF Received, Job
<1> HIDE DEF d, e
<1>5. /\ k \in Job /\ k.status = j.status /\ k.deliveredAt = d /\ k.readAt = e
    BY <1>3 DEF Job
<1> HIDE DEF k
<1> QED
    BY <1>3, <1>4, <1>5

LEMMA ReceiptKeeps ==
    ASSUME ConversationInv, NEW m \in Sends, NEW state \in States, NEW at \in Times,
           ReceiptEvent(m, state, at)
    PROVE  ConversationInv'
<1> USE DEF sendVars, dispatchVars
<1>1. /\ TypeOK /\ SendInv(m) /\ MessageInv(m) /\ DispatchInv
      /\ jobs \in [Sends -> Job] /\ jobs[m] \in Job
    BY DEF ConversationInv, TypeOK
<1>2. /\ processed' \subseteq Sends \X States
      /\ UNCHANGED <<sendVars, index, dispatchVars, rows, warned, restarts>>
    BY <1>1 DEF ReceiptEvent, TypeOK
<1>3. CASE ~(m \in index /\ jobs[m].status # "absent")
  <2>1. UNCHANGED <<jobs, updates>>
      BY <1>3 DEF ReceiptEvent, MarkReceipt
  <2>2. TypeOK' /\ DispatchInv'
      BY <1>1, <1>2, <2>1 DEF TypeOK, DispatchInv
  <2> QED
      BY <1>2, <2>1, <2>2, OtherKeeps
<1>4. CASE m \in index /\ jobs[m].status # "absent"
  <2> DEFINE k == Received(jobs[m], state, at)
             v == [message |-> m, state |-> state, at |-> at]
  <2>1. jobs' = [jobs EXCEPT ![m] = k] /\ updates' = updates \cup {v}
      BY <1>4 DEF ReceiptEvent, MarkReceipt
  <2>2. /\ k \in Job /\ k.status = jobs[m].status
        /\ jobs[m].deliveredAt <= k.deliveredAt /\ jobs[m].readAt <= k.readAt
        /\ at <= k.deliveredAt
        /\ state = "read" => at <= k.readAt
        /\ state # "read" => k.readAt = jobs[m].readAt
      BY <1>1, ReceivedJob
  <2>3. v \in Update /\ v.message = m /\ v.state = state /\ v.at = at
      BY DEF Update
  <2> HIDE DEF k, v
  <2>4. /\ jobs' \in [Sends -> Job] /\ jobs'[m] = k
        /\ \A r \in Sends \ {m} : jobs'[r] = jobs[r]
      BY <1>1, <2>1, <2>2
  <2>5. TypeOK' /\ DispatchInv'
      BY <1>1, <1>2, <2>1, <2>3, <2>4 DEF TypeOK, DispatchInv
  <2>6. jobs[m].status = "sent" /\ task[m].todo = <<>> /\ task[m].op = "queue"
      BY <1>1, <1>4 DEF MessageInv, SendInv, NoJob
  <2>7. SendInv(m)' /\ MessageInv(m)'
      BY <1>1, <1>2, <1>4, <2>2, <2>4, <2>6 DEF SendInv, MessageInv
  <2>8. HistoryInv(m)'
    <3>1. /\ \E u \in updates' : u.message = m
          /\ state = "read" => \E u \in updates' : u.message = m /\ u.state = "read"
        BY <2>1, <2>3
    <3>2. state # "read" /\ m \notin warned /\ jobs[m].readAt # 0 =>
              rows[m].readAt # 0 \/ \E u \in updates' : u.message = m /\ u.state = "read"
        BY <2>1 DEF ConversationInv, HistoryInv
    <3> QED
        BY <1>2, <2>2, <2>4, <3>1, <3>2 DEF HistoryInv
  <2>9. ASSUME NEW r \in Sends, r # m
        PROVE  SendInv(r)' /\ MessageInv(r)' /\ HistoryInv(r)'
    <3>1. Same(r)
        BY <1>2, <2>1, <2>3, <2>4, <2>9 DEF Same
    <3> QED
        BY <3>1, SameKeeps DEF ConversationInv
  <2>10. Stamps \subseteq Nat /\ Times \subseteq Nat
      BY ConversationAssumption DEF Stamps
  <2>11. UpdateInv'
    <3>1. ASSUME NEW u \in updates', u # v
          PROVE  /\ u.message \in index'
                 /\ u.at <= jobs'[u.message].deliveredAt
                 /\ u.state = "read" => u.at <= jobs'[u.message].readAt
      <4>1. /\ u \in updates /\ u.message \in Sends /\ u.message \in index /\ u.at \in Nat
            /\ u.at <= jobs[u.message].deliveredAt
            /\ u.state = "read" => u.at <= jobs[u.message].readAt
          BY <1>1, <2>1, <2>10, <3>1 DEF ConversationInv, UpdateInv, TypeOK, Update
      <4>2. CASE u.message # m
          BY <1>2, <2>4, <4>1, <4>2
      <4>3. CASE u.message = m
        <5>1. /\ jobs[m].deliveredAt \in Nat /\ k.deliveredAt \in Nat
              /\ jobs[m].readAt \in Nat /\ k.readAt \in Nat
            BY <1>1, <2>2, <2>10 DEF Job
        <5> QED
            BY <1>2, <2>2, <2>4, <4>1, <4>3, <5>1
      <4> QED
          BY <4>2, <4>3
    <3>2. v.message \in index' /\ v.at <= jobs'[v.message].deliveredAt
          /\ (v.state = "read" => v.at <= jobs'[v.message].readAt)
        BY <1>2, <1>4, <2>2, <2>3, <2>4
    <3> QED
        BY <3>1, <3>2 DEF UpdateInv
  <2>12. RowBehindJob'
    <3>1. /\ jobs[m].deliveredAt \in Nat /\ k.deliveredAt \in Nat
          /\ jobs[m].readAt \in Nat /\ k.readAt \in Nat
        BY <1>1, <2>2, <2>10 DEF Job
    <3>2. rows[m].deliveredAt \in Nat /\ rows[m].readAt \in Nat
        BY <1>1, <2>10 DEF TypeOK, Row, Messages
    <3>3. /\ rows[m].deliveredAt <= jobs[m].deliveredAt
          /\ rows[m].readAt <= jobs[m].readAt
        BY <1>4 DEF ConversationInv, RowBehindJob
    <3>4. rows[m].deliveredAt <= k.deliveredAt /\ rows[m].readAt <= k.readAt
        BY <2>2, <3>1, <3>2, <3>3
    <3> QED
        BY <1>2, <2>4, <3>4 DEF ConversationInv, RowBehindJob
  <2> QED
      BY <2>5, <2>7, <2>8, <2>9, <2>11, <2>12 DEF ConversationInv
<1> QED
    BY <1>3, <1>4

\* The listener brings the receipt to the row.
LEMMA ListenerKeeps ==
    ASSUME ConversationInv, NEW u \in updates, ReceiptListener(u)
    PROVE  ConversationInv'
<1> USE DEF sendVars, dispatchVars
<1> DEFINE m == u.message
<1>1. /\ TypeOK /\ DispatchInv /\ UpdateInv /\ u \in Update
      /\ m \in Sends /\ u.state \in States /\ u.at \in Times /\ m \in Messages
    BY DEF ConversationInv, TypeOK, Update, Messages
<1>2. /\ updates' = updates \ {u}
      /\ UNCHANGED <<sendVars, jobs, index, processed, dispatchVars, restarts>>
    BY DEF ReceiptListener
<1>3. /\ SendInv(m) /\ MessageInv(m) /\ HistoryInv(m)
      /\ rows \in [Messages -> Row] /\ rows[m] \in Row
    BY <1>1 DEF ConversationInv, TypeOK
<1>4. /\ m \in index /\ jobs[m].status = "sent"
      /\ u.at <= jobs[m].deliveredAt
      /\ u.state = "read" => u.at <= jobs[m].readAt
      /\ rows[m].status # "absent" \/ m \in warned
      /\ m \in accepted /\ task[m].todo = <<>> /\ task[m].op # "none"
    BY <1>1, <1>3 DEF UpdateInv, MessageInv, SendInv
<1>5. UpdateInv'
    BY <1>1, <1>2 DEF UpdateInv
<1>6. u.at # 0 /\ u.at \in Stamps
    BY <1>1, ConversationAssumption DEF Stamps
<1>7. ASSUME rows' \in [Messages -> Row], warned' \subseteq Messages,
             \A r \in Sends \ {m} : rows'[r] = rows[r] /\ (r \in warned' <=> r \in warned),
             SendInv(m)', MessageInv(m)', HistoryInv(m)',
             /\ rows'[m].deliveredAt <= jobs[m].deliveredAt
             /\ rows'[m].readAt <= jobs[m].readAt
      PROVE  ConversationInv'
  <2>1. TypeOK' /\ DispatchInv'
      BY <1>1, <1>2, <1>7 DEF TypeOK, DispatchInv
  <2>2. ASSUME NEW r \in Sends, r # m
        PROVE  SendInv(r)' /\ MessageInv(r)' /\ HistoryInv(r)'
    <3>1. Same(r)
        BY <1>2, <1>7, <2>2 DEF Same
    <3> QED
        BY <3>1, SameKeeps DEF ConversationInv
  <2>3. RowBehindJob'
      BY <1>2, <1>7 DEF ConversationInv, RowBehindJob
  <2> QED
      BY <1>5, <1>7, <2>1, <2>2, <2>3 DEF ConversationInv
<1>8. CASE rows' = [rows EXCEPT ![m] = MarkedRow(@, u.state, u.at)] /\ warned' = warned
  <2> DEFINE x == MarkedRow(rows[m], u.state, u.at)
  <2>1. /\ x \in Row /\ x.status # "absent" /\ x.deliveredAt = u.at
        /\ u.state = "read" => x.readAt = u.at
        /\ u.state # "read" => x.readAt = rows[m].readAt
      BY <1>1, <1>3, <1>6 DEF MarkedRow, Row, RowStatus, States
  <2>2. rows' = [rows EXCEPT ![m] = x]
      BY <1>8
  <2> HIDE DEF x
  <2>3. /\ rows' \in [Messages -> Row] /\ rows'[m] = x
        /\ \A r \in Sends \ {m} : rows'[r] = rows[r]
      BY <1>1, <1>3, <2>1, <2>2 DEF Messages
  <2>4. SendInv(m)' /\ MessageInv(m)'
      BY <1>2, <1>3, <1>4, <1>8, <2>1, <2>3 DEF SendInv, MessageInv
  <2>5. HistoryInv(m)'
    <3>1. \A v \in updates : v.state = "read" /\ u.state # "read" => v \in updates'
        BY <1>2
    <3> QED
        BY <1>2, <1>3, <1>6, <1>8, <2>1, <2>3, <3>1 DEF HistoryInv
  <2>6. rows[m].readAt <= jobs[m].readAt
      BY <1>1, <1>4 DEF ConversationInv, RowBehindJob
  <2>7. rows'[m].deliveredAt <= jobs[m].deliveredAt /\ rows'[m].readAt <= jobs[m].readAt
      BY <1>4, <2>1, <2>3, <2>6
  <2>8. warned' \subseteq Messages
      BY <1>1, <1>8 DEF TypeOK
  <2>9. \A r \in Sends \ {m} : rows'[r] = rows[r] /\ (r \in warned' <=> r \in warned)
      BY <1>8, <2>3
  <2> QED
      BY <1>7, <2>3, <2>4, <2>5, <2>7, <2>8, <2>9
<1>9. CASE /\ rows' = rows
           /\ \/ rows[m].status = "absent" /\ warned' = warned
              \/ warned' = warned \cup {m}
  <2>1. m \in warned' /\ warned' \in {warned, warned \cup {m}}
      BY <1>4, <1>9
  <2>2. SendInv(m)' /\ MessageInv(m)' /\ HistoryInv(m)'
      BY <1>2, <1>3, <1>4, <1>9, <2>1 DEF SendInv, MessageInv, HistoryInv
  <2>3. rows[m].deliveredAt <= jobs[m].deliveredAt /\ rows[m].readAt <= jobs[m].readAt
      BY <1>1, <1>4 DEF ConversationInv, RowBehindJob
  <2>4. warned' \subseteq Messages /\ rows' \in [Messages -> Row]
      BY <1>1, <1>9, <2>1 DEF TypeOK
  <2>5. \A r \in Sends \ {m} : rows'[r] = rows[r] /\ (r \in warned' <=> r \in warned)
      BY <1>9, <2>1
  <2>6. rows'[m].deliveredAt <= jobs[m].deliveredAt /\ rows'[m].readAt <= jobs[m].readAt
      BY <1>9, <2>3
  <2> QED
      BY <1>7, <2>2, <2>4, <2>5, <2>6
<1> QED
    BY <1>8, <1>9 DEF ReceiptListener

\* Everything in memory is gone, what is in the table stays.
LEMMA RestartKeeps ==
    ASSUME ConversationInv, Restart
    PROVE  ConversationInv'
<1>1. TypeOK /\ task \in [Sends -> Tasks]
    BY DEF ConversationInv, TypeOK
<1>2. /\ task' \in [Sends -> Tasks]
      /\ \A s \in Sends : task'[s].todo = <<>> /\ task'[s].op = task[s].op
                          /\ (task[s] = Unused => task'[s] = Unused)
  <2>1. Unused \in Tasks /\ Unused.todo = <<>>
      BY DEF Unused, Tasks, MaxAttempts
  <2>2. ASSUME NEW s \in Sends, NEW t \in Seq(Steps)
        PROVE  LET x == [task[s] EXCEPT !.todo = t]
               IN  x \in Tasks /\ x.todo = t /\ x.op = task[s].op
      BY <1>1 DEF Tasks
  <2>3. ASSUME NEW s \in Sends
        PROVE  LET x == [task[s] EXCEPT !.todo = <<>>]
               IN  x \in Tasks /\ x.todo = <<>> /\ x.op = task[s].op
      BY <2>2, Ends
  <2> QED
      BY <2>1, <2>3 DEF Restart
<1>3. restarts' \in 0 .. MaxRestarts
    BY <1>1, ConversationAssumption DEF Restart, TypeOK
<1>4. jobs' \in [Sends -> Job] /\ \A s \in Sends : jobs'[s] = NoJob
    BY DEF Restart, NoJob, Job, JobStatus, Stamps
<1>5. TypeOK'
  <2>1. queue' \in Seq(Messages) /\ Len(queue') <= QueueSize
      BY ConversationAssumption DEF Restart
  <2>2. /\ session' \in BOOLEAN /\ lock' \in Sends \cup {None}
        /\ index' \subseteq Sends /\ updates' \subseteq Update
        /\ processed' \subseteq Sends \X States
        /\ held' \in [Workers -> Messages \cup {None}]
      BY DEF Restart
  <2>3. accepted' = accepted /\ rows' = rows /\ warned' = warned
      BY DEF Restart
  <2> QED
      BY <1>1, <1>2, <1>3, <1>4, <2>1, <2>2, <2>3 DEF TypeOK
<1>6. DispatchInv'
    BY DEF Restart, DispatchInv
<1>7. ASSUME NEW s \in Sends
      PROVE  SendInv(s)' /\ MessageInv(s)' /\ HistoryInv(s)'
  <2>1. SendInv(s) /\ MessageInv(s)
      BY DEF ConversationInv
  <2>2. SendInv(s)'
    <3>1. Shape(<<>>) /\ Jobless(<<>>) /\ Guarded(<<>>, {"persist", "sent"}, Sending)
          /\ Guarded(<<>>, {"sent"}, {"persist"})
        BY Ends
    <3> QED
        BY <1>2, <1>4, <2>1, <3>1 DEF SendInv, Restart
  <2>3. MessageInv(s)' /\ HistoryInv(s)'
      BY <1>4, <2>1 DEF MessageInv, HistoryInv, Restart, NoJob
  <2> QED
      BY <2>2, <2>3
<1>8. UpdateInv' /\ RowBehindJob'
    BY <1>4 DEF Restart, UpdateInv, RowBehindJob, NoJob
<1> QED
    BY <1>5, <1>6, <1>7, <1>8 DEF ConversationInv

LEMMA Initially ==
    ASSUME Init
    PROVE  ConversationInv
<1>1. /\ \A s \in Sends : task[s] = Unused /\ jobs[s] = NoJob /\ rows[s] = NoRow
      /\ updates = {} /\ index = {} /\ accepted = {}
    BY DEF Init, Messages
<1>2. TypeOK
  <2>1. Unused \in Tasks /\ NoJob \in Job /\ NoRow \in Row
      BY DEF Unused, Tasks, MaxAttempts, NoJob, Job, JobStatus, NoRow, Row, RowStatus, Stamps
  <2>2. QueueSize \in Nat /\ MaxRestarts \in Nat /\ <<>> \in Seq(Messages) /\ Len(<<>>) = 0
      BY ConversationAssumption
  <2> QED
      BY <2>1, <2>2 DEF Init, TypeOK
<1>3. DispatchInv
    BY DEF Init, DispatchInv
<1>4. ASSUME NEW s \in Sends
      PROVE  SendInv(s) /\ MessageInv(s) /\ HistoryInv(s)
  <2>1. Shape(<<>>) /\ Jobless(<<>>) /\ Guarded(<<>>, {"persist", "sent"}, Sending)
        /\ Guarded(<<>>, {"sent"}, {"persist"})
      BY Ends
  <2> QED
      BY <1>1, <2>1 DEF SendInv, MessageInv, HistoryInv, Unused, NoJob, NoRow
<1>5. UpdateInv /\ RowBehindJob
    BY <1>1 DEF UpdateInv, RowBehindJob, NoJob
<1> QED
    BY <1>2, <1>3, <1>4, <1>5 DEF ConversationInv

LEMMA NextKeeps ==
    ASSUME ConversationInv, [Next]_vars
    PROVE  ConversationInv'
<1>1. CASE UNCHANGED vars
  <2>1. TypeOK' /\ DispatchInv'
      BY <1>1 DEF ConversationInv, TypeOK, DispatchInv, vars, sendVars, registryVars, dispatchVars
  <2> QED
      BY <1>1, <2>1, OtherKeeps DEF vars, sendVars, registryVars
<1>2. ASSUME NEW s \in Sends, Begin(s) \/ Lock(s) \/ SendStep(s)
      PROVE  ConversationInv'
    BY <1>2, BeginKeeps, QuietSteps, SendMessageKeeps, SendOnceKeeps, PersistKeeps,
       JobKeeps DEF SendStep
<1>3. CASE SessionChanges \/ ForgetProcessed
    BY <1>3, SessionKeeps
<1>4. ASSUME NEW s \in Sends, NEW state \in States, NEW at \in Times,
             ReceiptEvent(s, state, at)
      PROVE  ConversationInv'
    BY <1>4, ReceiptKeeps
<1>5. ASSUME NEW u \in updates, ReceiptListener(u)
      PROVE  ConversationInv'
    BY <1>5, ListenerKeeps
<1>6. ASSUME NEW m \in Messages, MessageEvent(m) \/ IngestHistorySync(m)
      PROVE  ConversationInv'
    BY <1>6, NotifyKeeps
<1>7. ASSUME NEW w \in Workers, TakeDispatch(w) \/ InboundListener(w)
      PROVE  ConversationInv'
    BY <1>7, TakeKeeps, InboundKeeps
<1>8. CASE Restart
    BY <1>8, RestartKeeps
<1> QED
    BY <1>1, <1>2, <1>3, <1>4, <1>5, <1>6, <1>7, <1>8 DEF Next

-----------------------------------------------------------------------------
(* What a step does to a job and to a row.                                 *)

\* Which steps change a job, and from what to what.
LEMMA JobSteps ==
    ASSUME ConversationInv, [Next]_vars, NEW s \in Sends
    PROVE  \/ jobs'[s] = jobs[s]
           \/ /\ jobs[s].deliveredAt = 0 /\ jobs[s].readAt = 0
              /\ jobs'[s].deliveredAt = 0 /\ jobs'[s].readAt = 0
              /\ \/ jobs[s].status = "absent" /\ jobs'[s].status = "queued"
                 \/ jobs[s].status = "queued" /\ jobs'[s].status = "running"
                 \/ /\ jobs[s].status \in {"queued", "running"}
                    /\ jobs'[s].status \in {"sent", "failed"}
           \/ /\ jobs[s].status = "sent" /\ jobs'[s].status = "sent"
              /\ jobs'[s].deliveredAt # 0
              /\ jobs[s].readAt # 0 => jobs'[s].readAt # 0
           \/ jobs'[s].status = "absent"
<1> USE DEF sendVars, registryVars, dispatchVars
<1>1. /\ TypeOK /\ SendInv(s) /\ MessageInv(s)
      /\ jobs \in [Sends -> Job] /\ jobs[s] \in Job
    BY DEF ConversationInv, TypeOK
<1>2. ASSUME NEW r \in Sends, NEW status, Store(r, status)
      PROVE  /\ r # s => jobs'[s] = jobs[s]
             /\ r = s => /\ jobs'[s].status = status
                         /\ jobs'[s].deliveredAt = jobs[s].deliveredAt
                         /\ jobs'[s].readAt = jobs[s].readAt
  <2> DEFINE x == [jobs[r] EXCEPT !.status = status]
  <2>1. jobs' = [jobs EXCEPT ![r] = x]
      BY <1>2 DEF Store, MergeStatus
  <2>2. jobs[r] \in Job
      BY <1>1
  <2>3. x.status = status /\ x.deliveredAt = jobs[r].deliveredAt /\ x.readAt = jobs[r].readAt
      BY <2>2 DEF Job
  <2> HIDE DEF x
  <2> QED
      BY <1>1, <2>1, <2>3
<1>3. ASSUME NEW r \in Sends, Begin(r)
      PROVE  \/ jobs'[s] = jobs[s]
             \/ /\ jobs[s].deliveredAt = 0 /\ jobs[s].readAt = 0
                /\ jobs'[s].deliveredAt = 0 /\ jobs'[s].readAt = 0
                /\ jobs[s].status = "absent" /\ jobs'[s].status = "queued"
  <2>1. jobs' = jobs \/ Store(r, "queued")
      BY <1>3 DEF Begin
  <2>2. r = s => jobs[s] = NoJob
      BY <1>1, <1>3 DEF Begin, SendInv, Unused
  <2> QED
      BY <1>2, <2>1, <2>2 DEF NoJob
<1>4. ASSUME NEW r \in Sends, StoreSendTextJob(r)
      PROVE  \/ jobs'[s] = jobs[s]
             \/ /\ jobs[s].deliveredAt = 0 /\ jobs[s].readAt = 0
                /\ jobs'[s].deliveredAt = 0 /\ jobs'[s].readAt = 0
                /\ \/ jobs[s].status = "queued" /\ jobs'[s].status = "running"
                   \/ /\ jobs[s].status \in {"queued", "running"}
                      /\ jobs'[s].status \in {"sent", "failed"}
  <2>1. PICK status \in {"running", "sent", "failed"} : At(r, status) /\ Store(r, status)
      BY <1>4 DEF StoreSendTextJob
  <2>2. CASE r = s
    <3>1. task[s].todo # <<>> /\ Head(task[s].todo) = status
        BY <2>1, <2>2, AtHead
    <3>2. Head(task[s].todo) = task[s].todo[1] /\ task[s].op = "queue"
        BY <1>1, <3>1, Acting DEF Final
    <3>3. /\ s \notin index /\ jobs[s].status \in {"queued", "running"}
          /\ status = "running" => jobs[s].status = "queued"
        BY <1>1, <3>1, <3>2 DEF SendInv
    <3>4. jobs[s].deliveredAt = 0 /\ jobs[s].readAt = 0
        BY <1>1, <3>3 DEF MessageInv
    <3> QED
        BY <1>2, <2>1, <2>2, <3>3, <3>4
  <2> QED
      BY <1>2, <2>1, <2>2
<1>5. ASSUME NEW m \in Sends, NEW state \in States, NEW at \in Times,
             ReceiptEvent(m, state, at)
      PROVE  \/ jobs'[s] = jobs[s]
             \/ /\ jobs[s].status = "sent" /\ jobs'[s].status = "sent"
                /\ jobs'[s].deliveredAt # 0
                /\ jobs[s].readAt # 0 => jobs'[s].readAt # 0
  <2>1. CASE m = s /\ s \in index /\ jobs[s].status # "absent"
    <3> DEFINE k == Received(jobs[s], state, at)
    <3>1. jobs' = [jobs EXCEPT ![s] = k]
        BY <1>5, <2>1 DEF ReceiptEvent, MarkReceipt
    <3>2. /\ k.status = jobs[s].status /\ k.deliveredAt # 0
          /\ state # "read" => k.readAt = jobs[s].readAt
          /\ state = "read" => k.readAt # 0
        BY <1>1, ReceivedJob
    <3> HIDE DEF k
    <3>3. jobs'[s] = k
        BY <1>1, <3>1
    <3>4. jobs[s].status = "sent"
        BY <1>1, <2>1 DEF MessageInv
    <3> QED
        BY <3>2, <3>3, <3>4
  <2>2. CASE ~(m = s /\ s \in index /\ jobs[s].status # "absent")
    <3>1. \/ jobs' = jobs
          \/ m # s /\ jobs' = [jobs EXCEPT ![m] = Received(@, state, at)]
        BY <1>5, <2>2 DEF ReceiptEvent, MarkReceipt
    <3> QED
        BY <1>1, <3>1
  <2> QED
      BY <2>1, <2>2
<1>6. CASE Restart
    BY <1>6 DEF Restart, NoJob
<1>7. ASSUME NEW r \in Sends, Lock(r) \/ SendStep(r), ~StoreSendTextJob(r)
      PROVE  jobs' = jobs
    BY <1>7 DEF Lock, SendStep, Proceed, Ensure, PollClient, Recipient, SendMessage,
                RefreshConnectedClient, SendOnce, PersistOutbound
<1>8. ASSUME NEW u \in updates, ReceiptListener(u)
      PROVE  jobs' = jobs
    BY <1>8 DEF ReceiptListener
<1>9. ASSUME NEW m \in Messages, MessageEvent(m) \/ IngestHistorySync(m)
      PROVE  jobs' = jobs
    BY <1>9 DEF MessageEvent, IngestHistorySync
<1>10. ASSUME NEW w \in Workers, TakeDispatch(w) \/ InboundListener(w)
       PROVE  jobs' = jobs
    BY <1>10 DEF TakeDispatch, InboundListener
<1>11. CASE SessionChanges \/ ForgetProcessed \/ UNCHANGED vars
    BY <1>11 DEF SessionChanges, ForgetProcessed, vars
<1> QED
    BY <1>3, <1>4, <1>5, <1>6, <1>7, <1>8, <1>9, <1>10, <1>11 DEF Next, SendStep

\* Which steps change the row of a send.
LEMMA RowSteps ==
    ASSUME ConversationInv, [Next]_vars, NEW s \in Sends
    PROVE  \/ rows'[s] = rows[s]
           \/ rows[s].deliveredAt = 0 /\ rows[s].readAt = 0
           \/ /\ rows'[s].deliveredAt # 0
              /\ rows[s].readAt # 0 => rows'[s].readAt # 0
<1> USE DEF sendVars, registryVars, dispatchVars
<1>1. TypeOK /\ SendInv(s) /\ DispatchInv /\ rows \in [Messages -> Row] /\ s \in Messages
    BY DEF ConversationInv, TypeOK, Messages
<1>2. ASSUME NEW r \in Sends, PersistOutbound(r)
      PROVE  \/ rows'[s] = rows[s]
             \/ rows[s].deliveredAt = 0 /\ rows[s].readAt = 0
  <2>1. CASE r = s
      BY <1>1, <1>2, <2>1, AtHead DEF PersistOutbound, SendInv
  <2>2. CASE r # s
    <3>1. \/ rows' = rows
          \/ \E x : rows' = [rows EXCEPT ![r] = x]
        BY <1>2 DEF PersistOutbound, Upsert
    <3>2. rows'[s] = rows[s]
        BY <1>1, <2>2, <3>1
    <3> QED
        BY <3>2
  <2> QED
      BY <2>1, <2>2
<1>3. ASSUME NEW w \in Workers, InboundListener(w)
      PROVE  rows'[s] = rows[s]
  <2>1. held[w] # s
      BY <1>1, <1>3, ConversationAssumption DEF DispatchInv, InboundListener
  <2>2. rows' = rows \/ \E x : rows' = [rows EXCEPT ![held[w]] = x]
      BY <1>3 DEF InboundListener, Upsert
  <2> QED
      BY <1>1, <2>1, <2>2
<1>4. ASSUME NEW u \in updates, ReceiptListener(u)
      PROVE  \/ rows'[s] = rows[s]
             \/ /\ rows'[s].deliveredAt # 0
                /\ rows[s].readAt # 0 => rows'[s].readAt # 0
  <2>1. u.at # 0
      BY <1>1, ConversationAssumption DEF TypeOK, Update
  <2>2. CASE rows' = [rows EXCEPT ![u.message] = MarkedRow(@, u.state, u.at)] /\ u.message = s
    <3> DEFINE x == MarkedRow(rows[s], u.state, u.at)
    <3>1. x.deliveredAt # 0 /\ (rows[s].readAt # 0 => x.readAt # 0)
        BY <2>1 DEF MarkedRow
    <3>2. rows' = [rows EXCEPT ![s] = x]
        BY <2>2
    <3> HIDE DEF x
    <3>3. rows'[s] = x
        BY <1>1, <3>2
    <3> QED
        BY <3>1, <3>3
  <2>3. CASE ~(rows' = [rows EXCEPT ![u.message] = MarkedRow(@, u.state, u.at)] /\ u.message = s)
      BY <1>1, <1>4, <2>3 DEF ReceiptListener
  <2> QED
      BY <2>2, <2>3
<1>5. ASSUME NEW r \in Sends, Begin(r) \/ Lock(r) \/ SendStep(r), ~PersistOutbound(r)
      PROVE  rows' = rows
    BY <1>5 DEF Begin, Lock, SendStep, Proceed, Ensure, PollClient, Recipient, SendMessage,
                RefreshConnectedClient, SendOnce, StoreSendTextJob
<1>6. ASSUME NEW m \in Sends, NEW state \in States, NEW at \in Times,
             ReceiptEvent(m, state, at)
      PROVE  rows' = rows
    BY <1>6 DEF ReceiptEvent
<1>7. ASSUME NEW m \in Messages, MessageEvent(m) \/ IngestHistorySync(m)
      PROVE  rows' = rows
    BY <1>7 DEF MessageEvent, IngestHistorySync
<1>8. ASSUME NEW w \in Workers, TakeDispatch(w)
      PROVE  rows' = rows
    BY <1>8 DEF TakeDispatch
<1>9. CASE SessionChanges \/ ForgetProcessed \/ Restart \/ UNCHANGED vars
    BY <1>9 DEF SessionChanges, ForgetProcessed, Restart, vars
<1> QED
    BY <1>2, <1>3, <1>4, <1>5, <1>6, <1>7, <1>8, <1>9 DEF Next

-----------------------------------------------------------------------------
(* The theorems.                                                           *)

\* The inductive invariant of the conversation holds in every state.
THEOREM ConversationInvariant == Spec => []ConversationInv
<1>1. Init => ConversationInv
    BY Initially
<1>2. ConversationInv /\ [Next]_vars => ConversationInv'
    BY NextKeeps
<1> QED
    BY <1>1, <1>2, PTL DEF Spec

\* Types: every variable keeps its type.
THEOREM ConversationTypes == Spec => []TypeOK
<1>1. ConversationInv => TypeOK
    BY DEF ConversationInv
<1> QED
    BY <1>1, ConversationInvariant, PTL

\* Nothing is reported of a message that WhatsApp did not take: a job that is
\* sent or confirmed by a receipt, and a row of the history, belong to an
\* accepted message, whatever the attempts of SendText answered.
THEOREM ReportedAccepted == Spec => []ReportedWasAccepted
<1>1. ConversationInv => ReportedWasAccepted
  <2> SUFFICES ASSUME ConversationInv, NEW s \in Sends,
                      \/ DeliveryStatus(jobs[s]) \in {"sent", "delivered", "read"}
                      \/ rows[s].status # "absent"
               PROVE  s \in accepted
      BY DEF ReportedWasAccepted
  <2>1. MessageInv(s)
      BY DEF ConversationInv
  <2>2. CASE jobs[s].readAt # 0 \/ jobs[s].deliveredAt # 0
      BY <2>1, <2>2 DEF MessageInv
  <2>3. CASE jobs[s].readAt = 0 /\ jobs[s].deliveredAt = 0 /\ rows[s].status = "absent"
    <3>1. DeliveryStatus(jobs[s]) = jobs[s].status
        BY <2>3 DEF DeliveryStatus
    <3>2. jobs[s].status \in JobStatus
        BY DEF ConversationInv, TypeOK, Job
    <3> QED
        BY <2>1, <2>3, <3>1, <3>2 DEF MessageInv, JobStatus
  <2> QED
      BY <2>1, <2>2, <2>3 DEF MessageInv
<1> QED
    BY <1>1, ConversationInvariant, PTL

\* The row of a queued send never runs ahead of its job: the timestamps that
\* MarkReceipt of the repository writes, one goroutine per receipt and in any
\* order, are ones the registry has reached or passed.
THEOREM RowFollowsJob == Spec => []RowBehindJob
<1>1. ConversationInv => RowBehindJob
    BY DEF ConversationInv
<1> QED
    BY <1>1, ConversationInvariant, PTL

\* A receipt the registry took is in the row once no listener is under way
\* for the message, unless the log reports a failed write.
THEOREM HistoryIsComplete == Spec => []HistoryComplete
<1>1. ConversationInv => HistoryComplete
    BY DEF ConversationInv, HistoryInv, HistoryComplete
<1> QED
    BY <1>1, ConversationInvariant, PTL

\* The status that GetSendTextJob reports only moves forward until the
\* process ends, receipts in any order and repeated.
THEOREM StatusMovesForward == Spec => StatusForward
<1>1. ASSUME ConversationInv, [Next]_vars, NEW s \in Sends
      PROVE  \/ jobs'[s].status = "absent"
             \/ Rank(DeliveryStatus(jobs'[s])) > Rank(DeliveryStatus(jobs[s]))
             \/ DeliveryStatus(jobs'[s]) = DeliveryStatus(jobs[s])
  <2> DEFINE j == jobs[s]
             k == jobs'[s]
  <2>1. CASE k = j
      BY <2>1
  <2>2. CASE /\ j.deliveredAt = 0 /\ j.readAt = 0
             /\ k.deliveredAt = 0 /\ k.readAt = 0
             /\ \/ j.status = "absent" /\ k.status = "queued"
                \/ j.status = "queued" /\ k.status = "running"
                \/ /\ j.status \in {"queued", "running"}
                   /\ k.status \in {"sent", "failed"}
    <3>1. DeliveryStatus(j) = j.status /\ DeliveryStatus(k) = k.status
        BY <2>2 DEF DeliveryStatus
    <3>2. /\ Rank("absent") = 0 /\ Rank("queued") = 1 /\ Rank("running") = 2
          /\ Rank("sent") = 3 /\ Rank("failed") = 3
        BY DEF Rank
    <3> HIDE DEF j, k
    <3>3. Rank(k.status) > Rank(j.status)
        BY <2>2, <3>2
    <3> QED
        BY <3>1, <3>3 DEF j, k
  <2>3. CASE /\ j.status = "sent" /\ k.status = "sent" /\ k.deliveredAt # 0
             /\ j.readAt # 0 => k.readAt # 0
    <3>1. /\ DeliveryStatus(j) \in {"sent", "delivered", "read"}
          /\ DeliveryStatus(k) \in {"delivered", "read"}
          /\ DeliveryStatus(j) = "read" => DeliveryStatus(k) = "read"
        BY <2>3 DEF DeliveryStatus
    <3>2. /\ Rank("sent") = 3 /\ Rank("delivered") = 4 /\ Rank("read") = 5
        BY DEF Rank
    <3>3. \A a \in {"sent", "delivered", "read"}, b \in {"delivered", "read"} :
              (a = "read" => b = "read") => Rank(b) > Rank(a) \/ b = a
        BY <3>2
    <3> QED
        BY <3>1, <3>3
  <2>4. CASE k.status = "absent"
      BY <2>4
  <2>5. \/ k = j
        \/ /\ j.deliveredAt = 0 /\ j.readAt = 0
           /\ k.deliveredAt = 0 /\ k.readAt = 0
           /\ \/ j.status = "absent" /\ k.status = "queued"
              \/ j.status = "queued" /\ k.status = "running"
              \/ /\ j.status \in {"queued", "running"}
                 /\ k.status \in {"sent", "failed"}
        \/ /\ j.status = "sent" /\ k.status = "sent" /\ k.deliveredAt # 0
           /\ j.readAt # 0 => k.readAt # 0
        \/ k.status = "absent"
      BY <1>1, JobSteps
  <2> QED
      BY <2>1, <2>2, <2>3, <2>4, <2>5
<1>2. ConversationInv /\ [Next]_vars =>
          [\A s \in Sends :
              jobs'[s].status = "absent"
              \/ Rank(DeliveryStatus(jobs'[s])) > Rank(DeliveryStatus(jobs[s]))
              \/ DeliveryStatus(jobs'[s]) = DeliveryStatus(jobs[s])]_vars
    BY <1>1
<1> QED
    BY <1>2, ConversationInvariant, PTL DEF Spec, StatusForward

\* A receipt in the history stays: no upsert, which writes NULL timestamps,
\* comes after a receipt was recorded in the row.
THEOREM ReceiptStays == Spec => ReceiptSurvives
<1>1. ConversationInv /\ [Next]_vars =>
          [\A s \in Sends :
              /\ rows[s].deliveredAt # 0 => rows'[s].deliveredAt # 0
              /\ rows[s].readAt # 0 => rows'[s].readAt # 0]_vars
    BY RowSteps
<1> QED
    BY <1>1, ConversationInvariant, PTL DEF Spec, ReceiptSurvives

-----------------------------------------------------------------------------
(* Conversation implements SendPromise.  The promise needs to know that a  *)
(* row is written last, and once.                                          *)

\* After the row is written, a send has only to be told of.
Ending(t) == \A i \in 1..Len(t) : t[i] = "persist" => i = Len(t) \/ t[i + 1] = "sent"

\* Until then there is no row, and no failed write of it.
RowLast(s) ==
    /\ Ending(task[s].todo)
    /\ task[s].op = "none" => s \notin warned
    /\ task[s].todo # <<>> /\ Head(task[s].todo) # "sent" =>
          rows[s].status = "absent" /\ s \notin warned
RowsLast == \A s \in Sends : RowLast(s)

LEMMA EndingRest ==
    ASSUME NEW t \in Seq(Steps), t # <<>>, Ending(t)
    PROVE  /\ Ending(Tail(t))
           /\ Head(t) = "persist" => Tail(t) = <<>> \/ Head(Tail(t)) = "sent"
<1>1. /\ Head(t) = t[1] /\ Tail(t) \in Seq(Steps)
      /\ Len(t) \in Nat \ {0} /\ Len(Tail(t)) = Len(t) - 1
      /\ \A i \in 1..Len(Tail(t)) : Tail(t)[i] = t[i + 1]
    BY HeadTailProperties, LenProperties
<1>2. ASSUME NEW i \in 1..Len(Tail(t)), Tail(t)[i] = "persist", i # Len(Tail(t))
      PROVE  Tail(t)[i + 1] = "sent"
  <2> DEFINE n == Len(Tail(t))
  <2>0. n = Len(t) - 1 /\ i \in 1..n /\ i # n /\ Len(t) \in Nat
      BY <1>1, <1>2
  <2> HIDE DEF n
  <2>1. i + 1 \in 1..Len(t) /\ i + 1 # Len(t) /\ i + 1 \in 1..n
      BY <2>0
  <2>2. t[i + 1] = "persist"
      BY <1>1, <1>2
  <2>3. t[(i + 1) + 1] = "sent"
      BY <2>1, <2>2 DEF Ending
  <2> QED
      BY <1>1, <2>1, <2>3 DEF n
<1>3. ASSUME Head(t) = "persist", Tail(t) # <<>>
      PROVE  Head(Tail(t)) = "sent"
  <2>1. Head(Tail(t)) = Tail(t)[1] /\ Len(Tail(t)) \in Nat \ {0}
      BY <1>1, <1>3, HeadTailProperties, LenProperties
  <2>2. 1 \in 1..Len(t) /\ 1 # Len(t) /\ 1 \in 1..Len(Tail(t))
      BY <1>1, <2>1
  <2>3. t[1 + 1] = "sent"
      BY <1>1, <1>3, <2>2 DEF Ending
  <2> QED
      BY <1>1, <2>1, <2>2, <2>3
<1> QED
    BY <1>2, <1>3 DEF Ending

LEMMA EndingRetry ==
    ASSUME NEW t \in Seq(Steps), Ending(t)
    PROVE  Ending(<<"refresh">> \o t)
<1> DEFINE u == <<"refresh">> \o t
<1>1. /\ Len(t) \in Nat /\ Len(u) = Len(t) + 1 /\ u[1] = "refresh"
      /\ \A i \in 2..(1 + Len(t)) : u[i] = t[i - 1]
  <2>1. <<"refresh">> \in Seq(Steps) /\ Len(<<"refresh">>) = 1 /\ <<"refresh">>[1] = "refresh"
      BY DEF Steps
  <2>2. /\ Len(u) = 1 + Len(t) /\ \A i \in 1..1 : u[i] = <<"refresh">>[i]
        /\ \A i \in 2..(1 + Len(t)) : u[i] = t[i - 1]
      BY <2>1, ConcatProperties
  <2> QED
      BY <2>1, <2>2, LenProperties
<1> HIDE DEF u
<1>2. ASSUME NEW i \in 1..Len(u), u[i] = "persist", i # Len(u)
      PROVE  u[i + 1] = "sent"
  <2>1. i # 1
      BY <1>1, <1>2
  <2>2. /\ i - 1 \in 1..Len(t) /\ i - 1 # Len(t) /\ u[i] = t[i - 1]
        /\ i + 1 \in 2..(1 + Len(t)) /\ (i + 1) - 1 = (i - 1) + 1
      BY <1>1, <1>2, <2>1
  <2>3. t[(i - 1) + 1] = "sent"
      BY <1>2, <2>2 DEF Ending
  <2> QED
      BY <1>1, <2>2, <2>3
<1> QED
    BY <1>2 DEF Ending, u

LEMMA EndingPrograms ==
    ASSUME NEW op \in OperationNames
    PROVE  Ending(Program[op])
<1> USE DEF Ending
<1>1. Ending(QueueSendText)
    BY Flat
<1>2. Ending(SendText)
    BY Flat
<1>3. Ending(SendMedia)
    BY Flat
<1>4. Ending(SendReaction)
    BY Flat
<1>5. Ending(SendPoll)
    BY Flat
<1>6. Ending(CheckNumbers)
    BY Flat
<1>7. Ending(MarkRead)
    BY DEF MarkRead
<1>8. /\ Program["queue"] = QueueSendText /\ Program["text"] = SendText
      /\ Program["media"] = SendMedia /\ Program["audio"] = SendMedia
      /\ Program["reaction"] = SendReaction /\ Program["contact"] = SendReaction
      /\ Program["poll"] = SendPoll /\ Program["markRead"] = MarkRead
      /\ Program["checkNumbers"] = CheckNumbers
    BY DEF Program, SendAudio, SendMedia, SendContact, SendReaction
<1> HIDE DEF Ending
<1> QED
    BY <1>1, <1>2, <1>3, <1>4, <1>5, <1>6, <1>7, <1>8 DEF OperationNames

LEMMA EndingEnds == Ending(<<>>) /\ Ending(<<"failed">>)
BY DEF Ending

-----------------------------------------------------------------------------
(* What is seen of the sends.                                              *)

Seen == [s \in Sends |-> SendSeen(s)]

LEMMA SameSeen ==
    ASSUME NEW r \in Sends, Same(r)
    PROVE  /\ SendSeen(r)' = SendSeen(r)
           /\ RowLast(r) => RowLast(r)'
<1> USE DEF Same
<1>1. StageSeen(r)' = StageSeen(r)
    BY DEF StageSeen
<1>2. RowSeen(r)' = RowSeen(r)
    BY DEF RowSeen
<1>3. ReceiptsOf(jobs'[r]) = ReceiptsOf(jobs[r]) /\ ReceiptsOf(rows'[r]) = ReceiptsOf(rows[r])
    OBVIOUS
<1>4. (r \in accepted)' = (r \in accepted)
    OBVIOUS
<1>5. SendSeen(r)' = SendSeen(r)
    BY <1>1, <1>2, <1>3, <1>4 DEF SendSeen
<1>6. RowLast(r) => RowLast(r)'
    BY DEF RowLast
<1> QED
    BY <1>5, <1>6

LEMMA NobodySeen ==
    ASSUME RowsLast, \A r \in Sends : Same(r)
    PROVE  RowsLast' /\ Seen' = Seen
BY SameSeen DEF RowsLast, Seen

\* One send changes, and is seen as v.
LEMMA OneSeen ==
    ASSUME RowsLast, NEW s \in Sends, NEW v, \A r \in Sends \ {s} : Same(r),
           RowLast(s)', SendSeen(s)' = v
    PROVE  /\ RowsLast'
           /\ Seen' = [Seen EXCEPT ![s] = v]
           /\ Seen[s] = SendSeen(s)
<1>1. \A r \in Sends \ {s} : SendSeen(r)' = SendSeen(r) /\ RowLast(r)'
    BY SameSeen DEF RowsLast
<1> QED
    BY <1>1 DEF RowsLast, Seen

\* A send that is under way.
LEMMA UnderWay ==
    ASSUME ConversationInv, RowsLast, NEW s \in Sends, task[s].todo # <<>>
    PROVE  /\ task[s].op \in OperationNames /\ task[s].op # "none"
           /\ StageSeen(s) = IF task[s].op = "queue" THEN "queued" ELSE "direct"
           /\ Head(task[s].todo) # "sent" =>
                 RowSeen(s) = "none" /\ rows[s].status = "absent" /\ s \notin warned
           /\ Head(task[s].todo) = "sent" => RowSeen(s) # "none"
           /\ Ending(task[s].todo)
           /\ rows[s].deliveredAt = 0 /\ rows[s].readAt = 0
<1>1. TypeOK /\ SendInv(s) /\ RowLast(s)
    BY DEF ConversationInv, RowsLast
<1>2. task[s].op \in OperationNames /\ task[s].op # "none"
    BY <1>1, Acting DEF OperationNames
<1>3. Head(task[s].todo) = "sent" => rows[s].status # "absent" \/ s \in warned
    BY <1>1, Acting
<1>4. task[s].op = "queue" => jobs[s].status \in {"queued", "running"}
    BY <1>1 DEF SendInv
<1>5. rows[s].deliveredAt = 0 /\ rows[s].readAt = 0
    BY <1>1 DEF SendInv
<1>6. StageSeen(s) = IF task[s].op = "queue" THEN "queued" ELSE "direct"
    BY <1>2, <1>4 DEF StageSeen
<1>7. Head(task[s].todo) # "sent" => rows[s].status = "absent" /\ s \notin warned
    BY <1>1 DEF RowLast
<1> QED
    BY <1>1, <1>2, <1>3, <1>5, <1>6, <1>7 DEF RowSeen, RowLast

LEMMA SeenFirst ==
    ASSUME Init
    PROVE  RowsLast /\ Promise!PInit
<1>1. ASSUME NEW s \in Sends
      PROVE  /\ task[s] = Unused /\ jobs[s] = NoJob /\ rows[s] = NoRow
             /\ s \notin accepted /\ s \notin warned
    BY DEF Init, Messages
<1>2. ASSUME NEW s \in Sends
      PROVE  SendSeen(s) = Promise!View("none", FALSE, "none", {}, {})
  <2>1. StageSeen(s) = "none"
      BY <1>1 DEF StageSeen, Unused
  <2>2. RowSeen(s) = "none"
      BY <1>1 DEF RowSeen, NoRow
  <2>3. ReceiptsOf(jobs[s]) = {} /\ ReceiptsOf(rows[s]) = {}
      BY <1>1 DEF ReceiptsOf, NoJob, NoRow
  <2>4. (s \in accepted) = FALSE
      BY <1>1
  <2> QED
      BY <2>1, <2>2, <2>3, <2>4 DEF SendSeen, Promise!View
<1>3. RowsLast
  <2>1. Unused.todo = <<>>
      BY DEF Unused
  <2>2. ASSUME NEW s \in Sends
        PROVE  Ending(task[s].todo) /\ task[s].todo = <<>> /\ s \notin warned
      BY <1>1, <2>1, EndingEnds
  <2> QED
      BY <2>2 DEF RowsLast, RowLast
<1>4. [s \in Sends |-> SendSeen(s)] = [s \in Sends |-> Promise!View("none", FALSE, "none", {}, {})]
    BY <1>2
<1> QED
    BY <1>3, <1>4 DEF Promise!PInit

-----------------------------------------------------------------------------
(* Steps of a send, as they are seen.                                      *)

\* What a step of the promise or none at all looks like.
Kept == RowsLast' /\ (Promise!PNext \/ Seen' = Seen)

\* A step before the row is written: the message may have reached WhatsApp.
LEMMA AdvanceKept ==
    ASSUME ConversationInv, RowsLast, NEW s \in Sends, task[s].todo # <<>>,
           Head(task[s].todo) \notin Final \cup {"persist"},
           \A r \in Sends \ {s} : task'[r] = task[r],
           task'[s].op = task[s].op, Ending(task'[s].todo),
           accepted' \in {accepted, accepted \cup {s}},
           UNCHANGED <<jobs, index, updates, rows, warned>>
    PROVE  Kept
<1> DEFINE v == SendSeen(s)
<1>1. /\ v.stage = StageSeen(s) /\ v.row = "none"
      /\ StageSeen(s) = IF task[s].op = "queue" THEN "queued" ELSE "direct"
      /\ rows[s].status = "absent" /\ s \notin warned
      /\ task[s].op # "none"
    BY UnderWay DEF SendSeen, Final
<1>2. \A r \in Sends \ {s} : Same(r)
    BY DEF Same
<1>3. RowLast(s)'
    BY <1>1 DEF RowLast
<1>4. StageSeen(s)' = StageSeen(s) \/ (v.stage = "direct" /\ StageSeen(s)' = "over")
    BY <1>1 DEF StageSeen
<1>5. RowSeen(s)' = "none"
    BY <1>1 DEF RowSeen
<1> DEFINE a == s \in accepted'
<1>6. SendSeen(s)' = Promise!View(StageSeen(s)', a, "none", v.taken, v.shown)
  <2>1. v.taken = ReceiptsOf(jobs[s]) /\ v.shown = ReceiptsOf(rows[s])
      BY DEF SendSeen
  <2>2. ReceiptsOf(jobs[s])' = v.taken /\ ReceiptsOf(rows[s])' = v.shown
      BY <2>1
  <2>3. SendSeen(s)' = [stage |-> StageSeen(s)', reached |-> a, row |-> RowSeen(s)',
                        taken |-> ReceiptsOf(jobs[s])', shown |-> ReceiptsOf(rows[s])']
      BY DEF SendSeen
  <2> HIDE DEF a, v
  <2> QED
      BY <1>5, <2>2, <2>3 DEF Promise!View
<1>7. CASE s \in accepted'
  <2>1. a = TRUE
      BY <1>7
  <2>2. StageSeen(s)' \in Promise!Later(v.stage)
      BY <1>1, <1>4 DEF Promise!Later
  <2> DEFINE w == Promise!View(StageSeen(s)', TRUE, "none", v.taken, v.shown)
  <2>3. SendSeen(s)' = w
      BY <1>6, <2>1
  <2>4. RowsLast' /\ Seen' = [Seen EXCEPT ![s] = w] /\ Seen[s] = v
    <3> HIDE DEF w
    <3> QED
      BY <1>2, <1>3, <2>3, OneSeen
  <2>5. Promise!Reached(s)
    <3> HIDE DEF v
    <3>1. v.stage \in {"queued", "direct"}
        BY <1>1
    <3> QED
        BY <1>1, <2>2, <2>4, <3>1
           DEF Promise!Reached, Promise!UnderWay, Promise!Becomes, Seen
  <2> QED
      BY <2>4, <2>5 DEF Kept, Promise!PNext
<1>8. CASE s \notin accepted'
  <2>1. (s \in accepted) = FALSE /\ a = FALSE
      BY <1>8
  <2>2. v.reached = FALSE /\ v = Promise!View(v.stage, FALSE, "none", v.taken, v.shown)
      BY <1>1, <2>1 DEF SendSeen, Promise!View
  <2>3. CASE StageSeen(s)' = StageSeen(s)
    <3>1. SendSeen(s)' = v
        BY <1>1, <1>6, <2>1, <2>2, <2>3
    <3>2. RowsLast' /\ Seen' = [Seen EXCEPT ![s] = v] /\ Seen[s] = v
      <4> HIDE DEF v
      <4>1. v = SendSeen(s)
          BY DEF v
      <4> QED
          BY <1>2, <1>3, <3>1, <4>1, OneSeen
    <3>3. Seen' = Seen
        BY <3>2 DEF Seen
    <3> QED
        BY <3>2, <3>3 DEF Kept
  <2>4. CASE v.stage = "direct" /\ StageSeen(s)' = "over"
    <3> DEFINE w == Promise!View(IF v.stage = "queued" THEN "failed" ELSE "over",
                                 v.reached, "none", v.taken, v.shown)
    <3>1. SendSeen(s)' = w
        BY <1>6, <2>1, <2>2, <2>4
    <3>2. RowsLast' /\ Seen' = [Seen EXCEPT ![s] = w] /\ Seen[s] = v
      <4> HIDE DEF w
      <4> QED
          BY <1>2, <1>3, <3>1, OneSeen
    <3>3. Promise!EndedUnrecorded(s)
      <4> HIDE DEF v
      <4> QED
          BY <1>1, <2>4, <3>2 DEF Promise!EndedUnrecorded, Promise!UnderWay, Promise!Becomes, Seen
    <3> QED
        BY <3>2, <3>3 DEF Kept, Promise!PNext
  <2> QED
      BY <1>4, <2>3, <2>4
<1> QED
    BY <1>7, <1>8

LEMMA Turning ==
    ASSUME ConversationInv, RowsLast, NEW s \in Sends, task[s].todo # <<>>,
           \/ Continue(s) \/ Return(s)
           \/ task' = [task EXCEPT ![s].attempt = @ + 1, ![s].todo = <<"refresh">> \o @]
    PROVE  /\ \A r \in Sends \ {s} : task'[r] = task[r]
           /\ task'[s].op = task[s].op /\ Ending(task'[s].todo)
           /\ Continue(s) => task'[s].todo = Tail(task[s].todo)
<1> DEFINE t == task[s].todo
<1>1. /\ task \in [Sends -> Tasks] /\ task[s] \in Tasks /\ t \in Seq(Steps) /\ t # <<>>
      /\ Ending(t)
    BY UnderWay DEF ConversationInv, TypeOK, Tasks
<1>2. Ending(Tail(t)) /\ Ending(<<"refresh">> \o t)
    BY <1>1, EndingRest, EndingRetry
<1>3. ASSUME NEW u, task' = [task EXCEPT ![s].todo = u]
      PROVE  /\ \A r \in Sends \ {s} : task'[r] = task[r]
             /\ task'[s].op = task[s].op /\ task'[s].todo = u
  <2> DEFINE x == [task[s] EXCEPT !.todo = u]
  <2>1. x.op = task[s].op /\ x.todo = u
      BY <1>1 DEF Tasks
  <2>2. task' = [task EXCEPT ![s] = x]
      BY <1>3
  <2> HIDE DEF x
  <2> QED
      BY <1>1, <2>1, <2>2
<1>4. CASE Continue(s)
    BY <1>2, <1>3, <1>4 DEF Continue
<1>5. CASE Return(s) /\ ~Continue(s)
  <2>1. PICK u \in {<<>>, <<"failed">>} : task' = [task EXCEPT ![s].todo = u]
      BY <1>5 DEF Return
  <2>2. Ending(u)
      BY EndingEnds
  <2> QED
      BY <1>3, <1>5, <2>1, <2>2
<1>6. CASE /\ ~Continue(s)
           /\ task' = [task EXCEPT ![s].attempt = @ + 1, ![s].todo = <<"refresh">> \o @]
  <2> DEFINE x == [task[s] EXCEPT !.attempt = @ + 1, !.todo = <<"refresh">> \o @]
  <2>1. x.op = task[s].op /\ x.todo = <<"refresh">> \o t
      BY <1>1 DEF Tasks
  <2>2. task' = [task EXCEPT ![s] = x]
      BY <1>6
  <2> HIDE DEF x
  <2>3. task'[s] = x /\ \A r \in Sends \ {s} : task'[r] = task[r]
      BY <1>1, <2>2
  <2> QED
      BY <1>2, <1>6, <2>1, <2>3
<1> QED
    BY <1>4, <1>5, <1>6

\* A send before its row is written.
LEMMA EarlyKept ==
    ASSUME ConversationInv, RowsLast, NEW s \in Sends,
           \/ Lock(s) \/ Proceed(s) \/ Ensure(s) \/ PollClient(s) \/ Recipient(s)
           \/ RefreshConnectedClient(s) \/ SendMessage(s) \/ SendOnce(s)
    PROVE  Kept
<1> USE DEF registryVars, dispatchVars
<1>1. task[s].todo # <<>> /\ Head(task[s].todo) \notin Final \cup {"persist"}
    BY DEF At, Lock, Proceed, Fallible, Ensure, PollClient, Recipient, RefreshConnectedClient,
           SendMessage, SendOnce, Final
<1>2. \/ Continue(s) \/ Return(s)
      \/ task' = [task EXCEPT ![s].attempt = @ + 1, ![s].todo = <<"refresh">> \o @]
    BY DEF Lock, Proceed, Ensure, PollClient, Recipient, RefreshConnectedClient,
           SendMessage, SendOnce
<1>3. /\ accepted' \in {accepted, accepted \cup {s}}
      /\ UNCHANGED <<jobs, index, updates, rows, warned>>
    BY DEF Lock, Proceed, Ensure, PollClient, Recipient, RefreshConnectedClient,
           SendMessage, SendOnce
<1> QED
    BY <1>1, <1>2, <1>3, Turning, AdvanceKept

LEMMA RecordKept ==
    ASSUME ConversationInv, RowsLast, NEW s \in Sends, PersistOutbound(s)
    PROVE  Kept
<1> USE DEF registryVars, dispatchVars
<1> DEFINE v == SendSeen(s)
<1>1. /\ TypeOK /\ SendInv(s) /\ rows \in [Messages -> Row] /\ s \in Messages
    BY DEF ConversationInv, TypeOK, Messages
<1>2. task[s].todo # <<>> /\ Head(task[s].todo) = "persist"
    BY AtHead DEF PersistOutbound
<1>3. /\ v.stage = StageSeen(s) /\ v.row = "none" /\ v.taken = ReceiptsOf(jobs[s])
      /\ v.reached = (s \in accepted) /\ v.shown = {}
      /\ StageSeen(s) = IF task[s].op = "queue" THEN "queued" ELSE "direct"
      /\ rows[s].status = "absent" /\ s \notin warned
      /\ task[s].op # "none"
    BY <1>2, UnderWay DEF SendSeen, ReceiptsOf
<1>4. (s \in accepted) = TRUE
    BY <1>1, <1>2, Acting
<1>5. Continue(s) /\ Upsert(s, "sent") /\ UNCHANGED <<jobs, index, updates, accepted>>
    BY DEF PersistOutbound
<1>6. /\ \A m \in Messages \ {s} : rows'[m] = rows[m] /\ (m \in warned' <=> m \in warned)
      /\ rows'[s].deliveredAt = 0 /\ rows'[s].readAt = 0
      /\ rows'[s].status # "absent" \/ s \in warned'
    BY <1>1, <1>2, <1>5, UnderWay DEF Upsert
<1>7. /\ \A r \in Sends \ {s} : task'[r] = task[r]
      /\ task'[s].op = task[s].op /\ Ending(task'[s].todo)
      /\ task'[s].todo = Tail(task[s].todo)
    BY <1>2, <1>5, Turning
<1>8. \A r \in Sends \ {s} : Same(r)
    BY <1>5, <1>6, <1>7 DEF Same, Messages
<1>9. RowLast(s)'
  <2>1. task[s].todo \in Seq(Steps) /\ Ending(task[s].todo)
      BY <1>1, <1>2, Acting, UnderWay
  <2>2. task'[s].todo = <<>> \/ Head(task'[s].todo) = "sent"
      BY <1>2, <1>7, <2>1, EndingRest
  <2> QED
      BY <1>3, <1>7, <2>2 DEF RowLast
<1>10. StageSeen(s)' \in Promise!Later(v.stage)
    BY <1>3, <1>5, <1>7 DEF StageSeen, Promise!Later
<1>11. RowSeen(s)' \in {"recorded", "lost"}
    BY <1>6 DEF RowSeen
<1> DEFINE w == Promise!View(StageSeen(s)', TRUE, RowSeen(s)', v.taken, v.shown)
<1>12. SendSeen(s)' = w
  <2>1. ReceiptsOf(rows[s])' = {} /\ ReceiptsOf(jobs[s])' = v.taken
      BY <1>3, <1>5, <1>6 DEF ReceiptsOf
  <2>2. SendSeen(s)' = [stage |-> StageSeen(s)', reached |-> TRUE, row |-> RowSeen(s)',
                        taken |-> ReceiptsOf(jobs[s])', shown |-> ReceiptsOf(rows[s])']
      BY <1>4, <1>5 DEF SendSeen
  <2> HIDE DEF v
  <2> QED
      BY <1>3, <2>1, <2>2 DEF Promise!View
<1>13. RowsLast' /\ Seen' = [Seen EXCEPT ![s] = w] /\ Seen[s] = v
  <2> HIDE DEF w
  <2> QED
      BY <1>8, <1>9, <1>12, OneSeen
<1>14. Promise!Recorded(s)
  <2> HIDE DEF v
  <2>1. v.stage \in {"queued", "direct"} /\ v.reached
      BY <1>3, <1>4
  <2> DEFINE e == Seen[s]
  <2>2. e.row = "none" /\ e.reached /\ e.stage \in {"queued", "direct"}
      BY <1>3, <1>13, <2>1
  <2>3. \E stage \in Promise!Later(e.stage), row \in {"recorded", "lost"} :
            Seen' = [Seen EXCEPT ![s] = Promise!View(stage, TRUE, row, e.taken, e.shown)]
      BY <1>10, <1>11, <1>13
  <2> HIDE DEF e
  <2> QED
      BY <2>2, <2>3 DEF e, Promise!Recorded, Promise!UnderWay, Promise!Becomes, Seen
<1> QED
    BY <1>13, <1>14 DEF Kept, Promise!PNext

\* A job that is marked running is seen as before; then it is told of.
LEMMA ToldKept ==
    ASSUME ConversationInv, RowsLast, NEW s \in Sends, StoreSendTextJob(s)
    PROVE  Kept
<1> DEFINE v == SendSeen(s)
<1>1. TypeOK /\ SendInv(s) /\ MessageInv(s) /\ jobs \in [Sends -> Job] /\ jobs[s] \in Job
    BY DEF ConversationInv, TypeOK
<1>2. PICK status \in {"running", "sent", "failed"} : At(s, status) /\ Store(s, status)
    BY DEF StoreSendTextJob
<1>3. task[s].todo # <<>> /\ Head(task[s].todo) = status
    BY <1>2, AtHead
<1>4. /\ task[s].op = "queue"
      /\ status # "running" => Tail(task[s].todo) = <<>>
      /\ status = "sent" => s \in accepted
    BY <1>1, <1>3, Acting DEF Final
<1>5. /\ v.stage = "queued" /\ v.taken = ReceiptsOf(jobs[s]) /\ v.shown = ReceiptsOf(rows[s])
      /\ v.reached = (s \in accepted) /\ v.row = RowSeen(s)
      /\ status # "sent" => RowSeen(s) = "none" /\ rows[s].status = "absent" /\ s \notin warned
      /\ status = "sent" => RowSeen(s) # "none"
    BY <1>3, <1>4, UnderWay DEF SendSeen
<1>6. Continue(s) /\ UNCHANGED <<accepted, rows, warned>> /\ updates' = updates
    BY <1>2 DEF StoreSendTextJob, Store
<1>7. /\ \A r \in Sends \ {s} : task'[r] = task[r]
      /\ task'[s].op = "queue" /\ Ending(task'[s].todo)
      /\ task'[s].todo = Tail(task[s].todo)
    BY <1>3, <1>4, <1>6, Turning
<1>8. /\ jobs'[s].status = status
      /\ jobs'[s].deliveredAt = jobs[s].deliveredAt /\ jobs'[s].readAt = jobs[s].readAt
      /\ \A r \in Sends \ {s} : jobs'[r] = jobs[r] /\ (r \in index' <=> r \in index)
  <2> DEFINE x == [jobs[s] EXCEPT !.status = status]
  <2>1. /\ x.status = status
        /\ x.deliveredAt = jobs[s].deliveredAt /\ x.readAt = jobs[s].readAt
      BY <1>1 DEF Job
  <2>2. /\ jobs' = [jobs EXCEPT ![s] = x]
        /\ index' = IF status = "sent" THEN index \cup {s} ELSE index
      BY <1>2 DEF Store, MergeStatus
  <2> HIDE DEF x
  <2> QED
      BY <1>1, <2>1, <2>2
<1>9. \A r \in Sends \ {s} : Same(r)
    BY <1>6, <1>7, <1>8 DEF Same
<1>10. RowLast(s)'
    BY <1>4, <1>5, <1>6, <1>7 DEF RowLast
<1>11. StageSeen(s)' = IF status = "running" THEN "queued" ELSE status
    BY <1>7, <1>8 DEF StageSeen
<1> DEFINE w == Promise!View(StageSeen(s)', v.reached, v.row, v.taken, v.shown)
<1>12. SendSeen(s)' = w
  <2>1. /\ ReceiptsOf(rows[s])' = v.shown /\ ReceiptsOf(jobs[s])' = v.taken
        /\ RowSeen(s)' = v.row
      BY <1>5, <1>6, <1>8 DEF ReceiptsOf, RowSeen
  <2>2. (s \in accepted)' = v.reached
      BY <1>5, <1>6
  <2>3. SendSeen(s)' = [stage |-> StageSeen(s)', reached |-> (s \in accepted)', row |-> RowSeen(s)',
                        taken |-> ReceiptsOf(jobs[s])', shown |-> ReceiptsOf(rows[s])']
      BY DEF SendSeen
  <2> HIDE DEF v
  <2> QED
      BY <2>1, <2>2, <2>3 DEF Promise!View
<1>13. RowsLast' /\ Seen' = [Seen EXCEPT ![s] = w] /\ Seen[s] = v
  <2> HIDE DEF w
  <2> QED
      BY <1>9, <1>10, <1>12, OneSeen
<1>14. CASE status = "running"
  <2>1. v = Promise!View(v.stage, v.reached, v.row, v.taken, v.shown)
      BY DEF SendSeen, Promise!View
  <2>2. w = v
      BY <1>5, <1>11, <1>14, <2>1
  <2> HIDE DEF v, w
  <2>3. Seen' = Seen
      BY <1>13, <2>2 DEF Seen
  <2> QED
      BY <1>13, <2>3 DEF Kept
<1>15. CASE status = "sent"
  <2>1. v.reached = TRUE
      BY <1>4, <1>5, <1>15
  <2>2. Promise!Completed(s)
    <3> HIDE DEF v
    <3> QED
        BY <1>5, <1>11, <1>13, <1>15, <2>1 DEF Promise!Completed, Promise!Becomes, Seen
  <2> QED
      BY <1>13, <2>2 DEF Kept, Promise!PNext
<1>16. CASE status = "failed"
  <2>1. Promise!EndedUnrecorded(s)
    <3> HIDE DEF v
    <3> DEFINE e == Seen[s]
    <3>1. e.row = "none" /\ e.stage = "queued"
        BY <1>5, <1>13, <1>16
    <3>2. Seen' = [Seen EXCEPT ![s] = Promise!View("failed", e.reached, "none", e.taken, e.shown)]
      <4>1. w = Promise!View("failed", v.reached, "none", v.taken, v.shown)
          BY <1>5, <1>11, <1>16
      <4> HIDE DEF w
      <4> QED
          BY <1>13, <4>1
    <3> HIDE DEF e
    <3> QED
        BY <3>1, <3>2 DEF e, Promise!EndedUnrecorded, Promise!UnderWay, Promise!Becomes, Seen
  <2> QED
      BY <1>13, <2>1 DEF Kept, Promise!PNext
<1> QED
    BY <1>14, <1>15, <1>16

LEMMA BeginKept ==
    ASSUME ConversationInv, RowsLast, NEW s \in Sends, Begin(s)
    PROVE  Kept
<1>1. /\ TypeOK /\ SendInv(s) /\ MessageInv(s) /\ RowLast(s)
      /\ task \in [Sends -> Tasks] /\ task[s] \in Tasks
      /\ jobs \in [Sends -> Job] /\ jobs[s] \in Job
    BY DEF ConversationInv, TypeOK, RowsLast
<1>2. /\ task[s] = Unused /\ s \notin accepted /\ rows[s] = NoRow /\ jobs[s] = NoJob
      /\ s \notin warned /\ task[s].op = "none"
    BY <1>1 DEF Begin, SendInv, MessageInv, RowLast, Unused, NoJob
<1>3. PICK op \in Operations :
          /\ task' = [task EXCEPT ![s] = [@ EXCEPT !.op = op, !.todo = Program[op]]]
          /\ IF op = "queue" THEN Store(s, "queued") ELSE UNCHANGED registryVars
    BY DEF Begin
<1>4. UNCHANGED <<accepted, rows, warned>>
    BY DEF Begin
<1>5. op \in OperationNames /\ op # "none"
    BY ConversationAssumption DEF OperationNames
<1> DEFINE t == Program[op]
<1>6. t \in Seq(Steps) /\ t # <<>> /\ Ending(t)
    BY <1>5, Programs, EndingPrograms
<1> HIDE DEF t
<1>7. /\ task'[s].op = op /\ task'[s].todo = t
      /\ \A r \in Sends \ {s} : task'[r] = task[r]
  <2> DEFINE x == [task[s] EXCEPT !.op = op, !.todo = t]
  <2>1. x.op = op /\ x.todo = t
      BY <1>1 DEF Tasks
  <2>2. task' = [task EXCEPT ![s] = x]
      BY <1>3 DEF t
  <2> HIDE DEF x
  <2> QED
      BY <1>1, <2>1, <2>2
<1>8. /\ updates' = updates /\ index' = index
      /\ \A r \in Sends \ {s} : jobs'[r] = jobs[r]
      /\ jobs'[s].deliveredAt = 0 /\ jobs'[s].readAt = 0
      /\ op = "queue" => jobs'[s].status = "queued"
  <2>1. CASE op = "queue"
    <3> DEFINE x == [jobs[s] EXCEPT !.status = "queued"]
    <3>1. x.status = "queued" /\ x.deliveredAt = 0 /\ x.readAt = 0
        BY <1>1, <1>2 DEF Job, NoJob
    <3>2. jobs' = [jobs EXCEPT ![s] = x] /\ updates' = updates /\ index' = index
        BY <1>3, <2>1 DEF Store, MergeStatus
    <3> HIDE DEF x
    <3> QED
        BY <1>1, <3>1, <3>2
  <2>2. CASE op # "queue"
    <3>1. UNCHANGED <<jobs, index, updates>>
        BY <1>3, <2>2 DEF registryVars
    <3> QED
        BY <1>2, <2>2, <3>1 DEF NoJob
  <2> QED
      BY <2>1, <2>2
<1>9. \A r \in Sends \ {s} : Same(r)
    BY <1>4, <1>7, <1>8 DEF Same
<1>10. RowLast(s)'
    BY <1>2, <1>4, <1>5, <1>6, <1>7 DEF RowLast, NoRow
<1> DEFINE stage == IF op = "queue" THEN "queued" ELSE "direct"
           w == Promise!View(stage, FALSE, "none", {}, {})
<1>11. SendSeen(s)' = w
  <2>1. StageSeen(s)' = stage
      BY <1>5, <1>6, <1>7, <1>8 DEF StageSeen
  <2>2. RowSeen(s)' = "none"
      BY <1>2, <1>4 DEF RowSeen, NoRow
  <2>3. ReceiptsOf(jobs[s])' = {} /\ ReceiptsOf(rows[s])' = {}
      BY <1>2, <1>4, <1>8 DEF ReceiptsOf, NoRow
  <2>4. (s \in accepted)' = FALSE
      BY <1>2, <1>4
  <2> HIDE DEF stage
  <2> QED
      BY <2>1, <2>2, <2>3, <2>4 DEF SendSeen, Promise!View
<1>12. RowsLast' /\ Seen' = [Seen EXCEPT ![s] = w] /\ Seen[s] = SendSeen(s)
  <2> HIDE DEF w
  <2> QED
      BY <1>9, <1>10, <1>11, OneSeen
<1>13. SendSeen(s).stage = "none"
    BY <1>2 DEF SendSeen, StageSeen
<1>14. Promise!Asked(s, stage)
    BY <1>12, <1>13 DEF Promise!Asked, Promise!Becomes, Seen
<1> QED
    BY <1>12, <1>14 DEF Kept, Promise!PNext

-----------------------------------------------------------------------------
(* Receipts and the rest, as they are seen.                                *)

\* A send changes in what is not seen of it.
LEMMA HiddenKept ==
    ASSUME RowsLast, NEW s \in Sends, \A r \in Sends \ {s} : Same(r),
           RowLast(s)', SendSeen(s)' = SendSeen(s)
    PROVE  Kept
<1> DEFINE v == SendSeen(s)
<1>1. SendSeen(s)' = v /\ v = SendSeen(s)
    OBVIOUS
<1> HIDE DEF v
<1>2. RowsLast' /\ Seen' = [Seen EXCEPT ![s] = v] /\ Seen[s] = v
    BY <1>1, OneSeen
<1>3. Seen' = Seen
    BY <1>2 DEF Seen
<1> QED
    BY <1>2, <1>3 DEF Kept

\* A message that the registry knows.
LEMMA Indexed ==
    ASSUME ConversationInv, NEW s \in Sends, s \in index
    PROVE  /\ task[s].op = "queue" /\ task[s].todo = <<>>
           /\ jobs[s].status = "sent" /\ SendSeen(s).stage = "sent"
           /\ rows[s].status # "absent" \/ s \in warned
<1>1. SendInv(s) /\ MessageInv(s)
    BY DEF ConversationInv
<1>2. jobs[s].status = "sent" /\ (rows[s].status # "absent" \/ s \in warned) /\ task[s].todo = <<>>
    BY <1>1 DEF SendInv, MessageInv
<1>3. task[s].op = "queue"
    BY <1>1, <1>2 DEF SendInv, NoJob
<1> QED
    BY <1>2, <1>3 DEF SendSeen, StageSeen

LEMMA TakenKept ==
    ASSUME ConversationInv, RowsLast, NEW s \in Sends, NEW state \in States, NEW at \in Times,
           ReceiptEvent(s, state, at)
    PROVE  Kept
<1> DEFINE v == SendSeen(s)
<1>1. /\ RowLast(s) /\ jobs \in [Sends -> Job] /\ jobs[s] \in Job
    BY DEF ConversationInv, TypeOK, RowsLast
<1>2. UNCHANGED <<task, accepted, index, rows, warned>>
    BY DEF ReceiptEvent, sendVars
<1>3. CASE s \in index /\ jobs[s].status # "absent"
  <2> DEFINE k == Received(jobs[s], state, at)
  <2>1. /\ jobs' = [jobs EXCEPT ![s] = k]
        /\ updates' = updates \cup {[message |-> s, state |-> state, at |-> at]}
      BY <1>3 DEF ReceiptEvent, MarkReceipt
  <2>2. /\ k.status = jobs[s].status /\ k.deliveredAt # 0
        /\ state # "read" => k.readAt = jobs[s].readAt
        /\ state = "read" => k.readAt # 0
      BY <1>1, ReceivedJob
  <2> HIDE DEF k
  <2>3. jobs'[s] = k /\ \A r \in Sends \ {s} : jobs'[r] = jobs[r]
      BY <1>1, <2>1
  <2>4. \A r \in Sends \ {s} : Same(r)
      BY <1>2, <2>1, <2>3 DEF Same
  <2>5. RowLast(s)'
      BY <1>1, <1>2 DEF RowLast
  <2>6. v.stage = "sent" /\ StageSeen(s)' = "sent"
      BY <1>2, <1>3, <2>2, <2>3, Indexed DEF StageSeen
  <2>7. ReceiptsOf(jobs[s])' = v.taken \cup Promise!Receipts(state)
    <3>1. v.taken = ReceiptsOf(jobs[s])
        BY DEF SendSeen
    <3>2. state \in {"delivered", "read"}
        BY DEF States
    <3> HIDE DEF v
    <3>3. ReceiptsOf(k) = ReceiptsOf(jobs[s]) \cup Promise!Receipts(state)
        BY <2>2, <3>2 DEF ReceiptsOf, Promise!Receipts
    <3> QED
        BY <2>3, <3>1, <3>3
  <2> DEFINE w == Promise!View("sent", v.reached, v.row, v.taken \cup Promise!Receipts(state), v.shown)
  <2>8. SendSeen(s)' = w
    <3>1. /\ (s \in accepted)' = v.reached /\ RowSeen(s)' = v.row
          /\ ReceiptsOf(rows[s])' = v.shown
        BY <1>2 DEF SendSeen, RowSeen
    <3>2. SendSeen(s)' = [stage |-> StageSeen(s)', reached |-> (s \in accepted)', row |-> RowSeen(s)',
                          taken |-> ReceiptsOf(jobs[s])', shown |-> ReceiptsOf(rows[s])']
        BY DEF SendSeen
    <3> HIDE DEF v
    <3> QED
        BY <2>6, <2>7, <3>1, <3>2 DEF Promise!View
  <2>9. RowsLast' /\ Seen' = [Seen EXCEPT ![s] = w] /\ Seen[s] = v
    <3> HIDE DEF w
    <3> QED
        BY <2>4, <2>5, <2>8, OneSeen
  <2>10. Promise!Taken(s, state)
    <3> HIDE DEF v
    <3> QED
        BY <2>6, <2>9 DEF Promise!Taken, Promise!Becomes, Seen
  <2> QED
      BY <2>9, <2>10 DEF Kept, Promise!PNext, States
<1>4. CASE ~(s \in index /\ jobs[s].status # "absent")
  <2>1. UNCHANGED <<jobs, updates>>
      BY <1>4 DEF ReceiptEvent, MarkReceipt
  <2>2. \A r \in Sends : Same(r)
      BY <1>2, <2>1 DEF Same
  <2> QED
      BY <2>2, NobodySeen DEF Kept
<1> QED
    BY <1>3, <1>4

LEMMA ShownKept ==
    ASSUME ConversationInv, RowsLast, NEW u \in updates, ReceiptListener(u)
    PROVE  Kept
<1> DEFINE m == u.message
           v == SendSeen(m)
<1>1. /\ TypeOK /\ UpdateInv /\ u \in Update
      /\ m \in Sends /\ u.state \in States /\ u.at \in Times /\ m \in Messages
      /\ rows \in [Messages -> Row] /\ jobs[m] \in Job
    BY DEF ConversationInv, TypeOK, Update, Messages
<1>2. updates' = updates \ {u} /\ UNCHANGED <<task, accepted, jobs, index>>
    BY DEF ReceiptListener, sendVars
<1>3. /\ m \in index /\ v.stage = "sent" /\ task[m].todo = <<>> /\ task[m].op = "queue"
      /\ jobs[m].status = "sent"
      /\ rows[m].status # "absent" \/ m \in warned
    BY <1>1, Indexed DEF UpdateInv
<1>4. /\ jobs[m].deliveredAt # 0
      /\ u.state = "read" => jobs[m].readAt # 0
      /\ u.at # 0
  <2>1. /\ u.at <= jobs[m].deliveredAt
        /\ u.state = "read" => u.at <= jobs[m].readAt
      BY <1>1 DEF UpdateInv
  <2>2. u.at \in Nat \ {0}
      BY <1>1, ConversationAssumption
  <2> QED
      BY <2>1, <2>2
<1>5. StageSeen(m)' = "sent" /\ v.stage = StageSeen(m)
    BY <1>2, <1>3 DEF StageSeen, SendSeen
<1>6. Ending(task[m].todo)
    BY <1>1 DEF RowsLast, RowLast
<1>7. RowLast(m)'
    BY <1>2, <1>3, <1>6 DEF RowLast
<1>8. CASE /\ rows[m].status # "absent" /\ warned' = warned
           /\ rows' = [rows EXCEPT ![m] = MarkedRow(@, u.state, u.at)]
  <2> DEFINE x == MarkedRow(rows[m], u.state, u.at)
  <2>1. /\ x.status # "absent"
        /\ ReceiptsOf(x) = ReceiptsOf(rows[m]) \cup Promise!Receipts(u.state)
    <3>1. x.status = u.state /\ x.deliveredAt = u.at
          /\ x.readAt = IF u.state = "read" THEN u.at ELSE rows[m].readAt
        BY DEF MarkedRow
    <3>2. u.state \in {"delivered", "read"}
        BY <1>1 DEF States
    <3> HIDE DEF x
    <3> QED
        BY <1>4, <3>1, <3>2 DEF ReceiptsOf, Promise!Receipts
  <2>2. rows' = [rows EXCEPT ![m] = x]
      BY <1>8
  <2> HIDE DEF x
  <2>3. rows'[m] = x /\ \A r \in Sends \ {m} : rows'[r] = rows[r]
      BY <1>1, <2>2 DEF Messages
  <2>4. \A r \in Sends \ {m} : Same(r)
      BY <1>2, <1>8, <2>3 DEF Same
  <2>5. v.row = "recorded" /\ RowSeen(m)' = "recorded"
      BY <1>8, <2>1, <2>3 DEF RowSeen, SendSeen
  <2>6. Promise!Receipts(u.state) \subseteq v.taken
    <3>1. v.taken = ReceiptsOf(jobs[m])
        BY DEF SendSeen
    <3> QED
        BY <1>4, <3>1 DEF ReceiptsOf, Promise!Receipts
  <2> DEFINE w == Promise!View("sent", v.reached, "recorded", v.taken,
                               v.shown \cup Promise!Receipts(u.state))
  <2>7. SendSeen(m)' = w
    <3>1. /\ (m \in accepted)' = v.reached /\ ReceiptsOf(jobs[m])' = v.taken
        BY <1>2 DEF SendSeen
    <3>2. ReceiptsOf(rows[m])' = v.shown \cup Promise!Receipts(u.state)
      <4>1. v.shown = ReceiptsOf(rows[m])
          BY DEF SendSeen
      <4> HIDE DEF v
      <4> QED
          BY <2>1, <2>3, <4>1
    <3>3. SendSeen(m)' = [stage |-> StageSeen(m)', reached |-> (m \in accepted)', row |-> RowSeen(m)',
                          taken |-> ReceiptsOf(jobs[m])', shown |-> ReceiptsOf(rows[m])']
        BY <1>2 DEF SendSeen
    <3> HIDE DEF v, m
    <3> QED
        BY <1>5, <2>5, <3>1, <3>2, <3>3 DEF Promise!View
  <2>8. RowsLast' /\ Seen' = [Seen EXCEPT ![m] = w] /\ Seen[m] = v
    <3> HIDE DEF w, m
    <3> QED
        BY <1>1, <1>7, <2>4, <2>7, OneSeen
  <2>9. Promise!Shown(m, u.state)
    <3> HIDE DEF v, m
    <3> QED
        BY <1>3, <2>5, <2>6, <2>8 DEF Promise!Shown, Promise!Becomes, Seen
  <2> QED
      BY <1>1, <2>8, <2>9 DEF Kept, Promise!PNext, States
<1>9. CASE rows' = rows /\ warned' \in {warned, warned \cup {m}}
  <2>1. \A r \in Sends \ {m} : Same(r)
      BY <1>2, <1>9 DEF Same
  <2>2. RowSeen(m)' = RowSeen(m)
      BY <1>3, <1>9 DEF RowSeen
  <2>3. SendSeen(m)' = SendSeen(m)
    <3>1. (m \in accepted)' = (m \in accepted) /\ ReceiptsOf(jobs[m])' = ReceiptsOf(jobs[m])
          /\ ReceiptsOf(rows[m])' = ReceiptsOf(rows[m])
        BY <1>2, <1>9
    <3>2. StageSeen(m)' = StageSeen(m)
      <4> HIDE DEF v, m
      <4> QED
          BY <1>3, <1>5
    <3> HIDE DEF m
    <3> QED
        BY <2>2, <3>1, <3>2 DEF SendSeen
  <2> QED
      BY <1>1, <1>7, <2>1, <2>3, HiddenKept
<1> QED
    BY <1>8, <1>9 DEF ReceiptListener

\* Steps of which nothing is seen.
LEMMA UnseenKept ==
    ASSUME RowsLast, UNCHANGED <<task, accepted, jobs, index, updates>>,
           \A s \in Sends : rows'[s] = rows[s] /\ (s \in warned' <=> s \in warned)
    PROVE  Kept
<1>1. \A r \in Sends : Same(r)
    BY DEF Same
<1> QED
    BY <1>1, NobodySeen DEF Kept

LEMMA CrashKept ==
    ASSUME ConversationInv, RowsLast, Restart
    PROVE  Kept
<1>1. ASSUME NEW s \in Sends
      PROVE  RowLast(s)' /\ SendSeen(s)' = Promise!Forgotten(SendSeen(s))
  <2> DEFINE v == SendSeen(s)
  <2>1. SendInv(s) /\ MessageInv(s) /\ task[s] \in Tasks /\ RowLast(s)
      BY DEF ConversationInv, TypeOK, RowsLast
  <2>2. /\ task'[s] = IF task[s] = Unused THEN Unused ELSE [task[s] EXCEPT !.todo = <<>>]
        /\ jobs'[s] = NoJob /\ accepted' = accepted /\ rows' = rows /\ warned' = warned
      BY DEF Restart
  <2>3. task'[s].todo = <<>> /\ task'[s].op = task[s].op
    <3>1. Unused.todo = <<>>
        BY DEF Unused
    <3>2. [task[s] EXCEPT !.todo = <<>>].todo = <<>> /\ [task[s] EXCEPT !.todo = <<>>].op = task[s].op
        BY <2>1 DEF Tasks
    <3> QED
        BY <2>2, <3>1, <3>2
  <2>4. RowLast(s)'
      BY <2>1, <2>2, <2>3, EndingEnds DEF RowLast
  <2>5. StageSeen(s)' = IF task[s].op = "none" THEN "none" ELSE "over"
      BY <2>2, <2>3 DEF StageSeen, NoJob
  <2>6. /\ (s \in accepted)' = v.reached /\ RowSeen(s)' = v.row
        /\ ReceiptsOf(rows[s])' = v.shown /\ ReceiptsOf(jobs[s])' = {}
      BY <2>2 DEF SendSeen, RowSeen, ReceiptsOf, NoJob
  <2>7. SendSeen(s)' = Promise!View(StageSeen(s)', v.reached, v.row, {}, v.shown)
    <3>1. SendSeen(s)' = [stage |-> StageSeen(s)', reached |-> (s \in accepted)', row |-> RowSeen(s)',
                          taken |-> ReceiptsOf(jobs[s])', shown |-> ReceiptsOf(rows[s])']
        BY DEF SendSeen
    <3> HIDE DEF v
    <3> QED
        BY <2>6, <3>1 DEF Promise!View
  <2>8. CASE task[s].op = "none"
    <3>1. jobs[s] = NoJob
        BY <2>1, <2>8 DEF SendInv
    <3>2. v.stage = "none" /\ v.taken = {}
        BY <2>8, <3>1 DEF SendSeen, StageSeen, ReceiptsOf, NoJob
    <3>3. v = Promise!View(v.stage, v.reached, v.row, v.taken, v.shown)
        BY DEF SendSeen, Promise!View
    <3> HIDE DEF v
    <3>4. SendSeen(s)' = v
        BY <2>5, <2>7, <2>8, <3>2, <3>3
    <3>5. Promise!Forgotten(v) = v
        BY <3>2 DEF Promise!Forgotten
    <3> QED
        BY <2>4, <3>4, <3>5 DEF v
  <2>9. CASE task[s].op # "none"
    <3>1. v.stage # "none"
      <4>1. jobs[s].status \in JobStatus
          BY DEF ConversationInv, TypeOK, Job
      <4> QED
          BY <2>9, <4>1 DEF SendSeen, StageSeen, JobStatus
    <3>2. SendSeen(s)' = Promise!View("over", v.reached, v.row, {}, v.shown)
        BY <2>5, <2>7, <2>9
    <3> HIDE DEF v
    <3>3. SendSeen(s)' = Promise!Forgotten(v)
        BY <3>1, <3>2 DEF Promise!Forgotten
    <3> QED
        BY <2>4, <3>3 DEF v
  <2> QED
      BY <2>8, <2>9
<1>2. RowsLast'
    BY <1>1 DEF RowsLast
<1>3. Promise!Crash
  <2>1. [s \in Sends |-> SendSeen(s)]' = [s \in Sends |-> Promise!Forgotten([r \in Sends |-> SendSeen(r)][s])]
      BY <1>1
  <2> QED
      BY <2>1 DEF Promise!Crash
<1> QED
    BY <1>2, <1>3 DEF Kept, Promise!PNext

LEMMA SendPromiseStep ==
    ASSUME ConversationInv, RowsLast, [Next]_vars
    PROVE  Kept
<1> USE DEF sendVars, registryVars, dispatchVars
<1>1. CASE UNCHANGED vars
    BY <1>1, UnseenKept DEF vars
<1>2. ASSUME NEW s \in Sends, Begin(s) \/ Lock(s) \/ SendStep(s)
      PROVE  Kept
    BY <1>2, BeginKept, EarlyKept, RecordKept, ToldKept DEF SendStep
<1>3. CASE SessionChanges \/ ForgetProcessed
    BY <1>3, UnseenKept DEF SessionChanges, ForgetProcessed
<1>4. ASSUME NEW s \in Sends, NEW state \in States, NEW at \in Times,
             ReceiptEvent(s, state, at)
      PROVE  Kept
    BY <1>4, TakenKept
<1>5. ASSUME NEW u \in updates, ReceiptListener(u)
      PROVE  Kept
    BY <1>5, ShownKept
<1>6. ASSUME NEW m \in Messages, MessageEvent(m) \/ IngestHistorySync(m)
      PROVE  Kept
    BY <1>6, UnseenKept DEF MessageEvent, IngestHistorySync
<1>7. ASSUME NEW w \in Workers, TakeDispatch(w)
      PROVE  Kept
    BY <1>7, UnseenKept DEF TakeDispatch
<1>8. ASSUME NEW w \in Workers, InboundListener(w)
      PROVE  Kept
  <2>1. held[w] \notin Sends /\ rows \in [Messages -> Row]
      BY <1>8, ConversationAssumption DEF InboundListener, ConversationInv, DispatchInv, TypeOK
  <2>2. \A s \in Sends : rows'[s] = rows[s] /\ (s \in warned' <=> s \in warned)
      BY <1>8, <2>1 DEF InboundListener, Upsert, Messages
  <2>3. UNCHANGED <<task, accepted, jobs, index, updates>>
      BY <1>8 DEF InboundListener
  <2> QED
      BY <2>2, <2>3, UnseenKept
<1>9. CASE Restart
    BY <1>9, CrashKept
<1> QED
    BY <1>1, <1>2, <1>3, <1>4, <1>5, <1>6, <1>7, <1>8, <1>9 DEF Next

\* A row is written last and once: until a send has only to be told of, it
\* has no row and no failed write of one (SendText, persistOutboundText).
THEOREM RowIsLast == Spec => []RowsLast
<1>1. Init => RowsLast
    BY SeenFirst
<1>2. ConversationInv /\ RowsLast /\ [Next]_vars => RowsLast'
    BY SendPromiseStep DEF Kept
<1> QED
    BY <1>1, <1>2, ConversationInvariant, PTL DEF Spec

\* Seen from outside, a send goes one way, for any number of sends, receipts
\* and restarts: nothing reaches WhatsApp once a row or a job tells of the
\* send, a job that failed has no row, and receipts are taken by the registry
\* before they show in the row (QueueSendText, MarkReceipt).
THEOREM SendPromiseKept == Spec => KeepsSendPromise
<1>1. ConversationInv /\ RowsLast /\ [Next]_vars =>
          [Promise!PNext]_[s \in Sends |-> SendSeen(s)]
    BY SendPromiseStep DEF Kept, Seen
<1>2. Init => Promise!PInit
    BY SeenFirst
<1> QED
    BY <1>1, <1>2, ConversationInvariant, RowIsLast, PTL
       DEF Spec, KeepsSendPromise, Promise!PSpec
=============================================================================
