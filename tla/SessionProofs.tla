---------------------------- MODULE SessionProofs ----------------------------
(***************************************************************************)
(* Proofs about sessions: the type invariant, the kill switch and the      *)
(* single starter, for any number of activations, channels and requests.   *)
(***************************************************************************)
EXTENDS Session, SequenceTheorems, TLAPS

-----------------------------------------------------------------------------
(* What the accesses of a list have around them: StartInstance appears as  *)
(* a whole, and a step that skips others skips to a fixed place.           *)
Follow(t) ==
    \A i \in 1..Len(t) :
        /\ t[i] = "look" => i = 1 \/ t[i - 1] = "claim"
        /\ t[i] = "launch" => i = 1 \/ t[i - 1] = "look"
        /\ t[i] = "claim" => /\ i + 2 <= Len(t)
                             /\ t[i + 1] = "look" /\ t[i + 2] = "launch"
        /\ t[i] = "look" => i + 1 <= Len(t) /\ t[i + 1] = "launch"
        /\ t[i] = "need" => i + 4 <= Len(t) /\ t[i + 4] = "recheck"
        /\ t[i] = "settings" => i + 1 <= Len(t) /\ t[i + 1] = "open"
        /\ t[i] = "leave" => i + 1 <= Len(t) /\ t[i + 1] = "saveOffline"
        /\ t[i] = "signalIf" => i + 1 <= Len(t) /\ t[i + 1] = "dropKill"
        /\ t[i] = "ifKill" => i + 2 <= Len(t) /\ t[i + 2] = "dropKill"
        /\ t[i] = "cut" => i + 3 <= Len(t) /\ t[i + 3] = "dropKill"

(* A list that does not start inside StartInstance.                        *)
Opens(t) == t = <<>> \/ t[1] \notin {"look", "launch"}

Good(t) == t \in Seq(Steps) /\ Follow(t)
Whole(t) == Good(t) /\ Opens(t)

(* Lists one after the other.                                              *)
LEMMA Append2 ==
    ASSUME NEW s, NEW t, Whole(s), Whole(t)
    PROVE  Whole(s \o t)
<1> USE DEF Whole, Good
<1>1. /\ s \o t \in Seq(Steps)
      /\ Len(s \o t) = Len(s) + Len(t)
      /\ \A i \in 1..Len(s) : (s \o t)[i] = s[i]
      /\ \A i \in Len(s) + 1 .. Len(s) + Len(t) : (s \o t)[i] = t[i - Len(s)]
    BY ConcatProperties
<1>2. Len(s) \in Nat /\ Len(t) \in Nat
    BY LenProperties
<1>3. ASSUME NEW i \in 1..Len(s \o t)
      PROVE  Follow(s \o t)!(i)
  <2>1. CASE i \in 1..Len(s)
      BY <2>1, <1>1, <1>2 DEF Follow
  <2>2. CASE i \in Len(s) + 1 .. Len(s) + Len(t)
    <3> DEFINE j == i - Len(s)
    <3>1. j \in 1..Len(t) /\ (s \o t)[i] = t[j]
        BY <2>2, <1>1, <1>2
    <3>2. /\ j + 1 <= Len(t) => i + 1 <= Len(s \o t) /\ (s \o t)[i + 1] = t[j + 1]
          /\ j + 2 <= Len(t) => i + 2 <= Len(s \o t) /\ (s \o t)[i + 2] = t[j + 2]
          /\ j + 3 <= Len(t) => i + 3 <= Len(s \o t) /\ (s \o t)[i + 3] = t[j + 3]
          /\ j + 4 <= Len(t) => i + 4 <= Len(s \o t) /\ (s \o t)[i + 4] = t[j + 4]
      <4>1. ASSUME NEW k \in Nat, j + k <= Len(t)
            PROVE  i + k <= Len(s \o t) /\ (s \o t)[i + k] = t[j + k]
        <5>1. /\ i + k \in Len(s) + 1 .. Len(s) + Len(t)
              /\ (i + k) - Len(s) = j + k
              /\ i + k <= Len(s) + Len(t)
            BY <4>1, <2>2, <1>2
        <5>2. (s \o t)[i + k] = t[(i + k) - Len(s)]
            BY <5>1, <1>1
        <5> QED
            BY <5>1, <5>2, <1>1
      <4> HIDE DEF j
      <4> QED
          BY <4>1
    <3>3. CASE j # 1
      <4>1. (s \o t)[i - 1] = t[j - 1]
          BY <3>1, <3>3, <2>2, <1>1, <1>2
      <4>2. Follow(t)!(j)
          BY <3>1 DEF Follow
      <4>3. i # 1 /\ i \in Int /\ j \in Int
          BY <3>1, <3>3, <2>2, <1>2
      <4>4. j + 2 <= Len(t) => j + 1 <= Len(t)
          BY <3>1, <1>2, <4>3
      <4> HIDE DEF j
      <4> QED
          BY <3>1, <3>2, <3>3, <4>1, <4>2, <4>3, <4>4
    <3>4. CASE j = 1
      <4>1. t # <<>> /\ t[1] \notin {"look", "launch"}
          BY <3>1, <3>4, <1>2 DEF Opens
      <4> QED
          BY <3>1, <3>2, <3>4, <4>1, <1>1, <1>2 DEF Follow
    <3> QED
        BY <3>3, <3>4
  <2> QED
      BY <2>1, <2>2, <1>1, <1>2
<1>4. Opens(s \o t)
    BY <1>1, <1>2 DEF Opens
<1> QED
    BY <1>1, <1>3, <1>4 DEF Follow

(* The operations are such lists.                                          *)
LEMMA Pieces ==
    /\ Whole(StartInstance)
    /\ Whole(EnsureClientConnected)
    /\ Len(EnsureClientConnected) = 5
    /\ Whole(Connect) /\ Whole(Delete) /\ Whole(ForceReconnect)
    /\ Whole(<<"hangup", "signal", "drop", "mark">>)
    /\ Whole(<<"stop", "saveStopped">>)
    /\ Whole(<<"leave", "saveOffline", "signal", "dropClient", "dropKill">>)
    /\ Whole(<<>>)
<1> USE DEF Whole, Good, Opens, Follow, Steps
<1>1. Whole(StartInstance)
    BY DEF StartInstance
<1>2. Whole(EnsureClientConnected) /\ Len(EnsureClientConnected) = 5
    BY DEF EnsureClientConnected, StartInstance
<1>3. Whole(Connect)
    BY DEF Connect
<1>4. Whole(Delete)
    BY DEF Delete
<1>5. Whole(ForceReconnect)
    BY DEF ForceReconnect
<1>6. Whole(<<"hangup", "signal", "drop", "mark">>)
    OBVIOUS
<1>7. Whole(<<"stop", "saveStopped">>)
    OBVIOUS
<1>8. Whole(<<"leave", "saveOffline", "signal", "dropClient", "dropKill">>)
    OBVIOUS
<1>9. Whole(<<>>)
    OBVIOUS
<1> QED
    BY <1>1, <1>2, <1>3, <1>4, <1>5, <1>6, <1>7, <1>8, <1>9

(* Every operation of a request is such a list.                            *)
LEMMA Programs ==
    /\ Whole(ReconnectClient)
    /\ \A o \in OperationNames : Whole(Program[o])
<1>1. Whole(ReconnectClient)
    BY Pieces, Append2 DEF ReconnectClient
<1>2. Whole(EnsureClientConnected \o ReconnectClient)
    BY <1>1, Pieces, Append2
<1>3. Whole(Disconnect) /\ Whole(Logout)
    BY Pieces, Append2 DEF Disconnect, Logout
<1> QED
    BY <1>1, <1>2, <1>3, Pieces DEF OperationNames, Program

-----------------------------------------------------------------------------
(* Tasks whose list is in order, and the ones that hold no claim.          *)
Orderly == \A r \in Requests : Follow(req[r].todo)
Free(x) == x \in Task /\ Whole(x.todo)

(* Leaving out the first accesses of a list.                               *)
LEMMA RestKeeps ==
    ASSUME NEW x \in Task, Follow(x.todo), NEW n \in Nat \ {0}
    PROVE  /\ Rest(x, n) \in Task
           /\ Follow(Rest(x, n).todo)
           /\ n < Len(x.todo) => Rest(x, n).todo # <<>> /\ Rest(x, n).todo[1] = x.todo[n + 1]
           /\ x.todo[n] \notin {"claim", "look"} => Free(Rest(x, n))
<1> DEFINE t == x.todo
           u == SubSeq(t, n + 1, Len(t))
<1>1. t \in Seq(Steps) /\ Len(t) \in Nat /\ x.held \in Loops \cup {None}
    BY LenProperties DEF Task
<1>2. CASE Len(t) <= n
  <2>1. Rest(x, n) = Idle /\ Idle.todo = <<>> /\ Idle \in Task
      BY <1>2 DEF Rest, Idle, Job, Task
  <2> QED
      BY <1>1, <1>2, <2>1, Pieces DEF Whole, Good, Free
<1>3. CASE n < Len(t)
  <2>1. /\ u \in Seq(Steps)
        /\ Len(u) = Len(t) - n
        /\ \A i \in 1..Len(t) - n : u[i] = t[n + i]
      BY <1>1, <1>3, SubSeqProperties
  <2>2. Rest(x, n) = [x EXCEPT !.todo = u]
      BY <1>1, <1>3 DEF Rest
  <2>3. Rest(x, n) \in Task /\ Rest(x, n).todo = u
      BY <1>1, <2>1, <2>2 DEF Task
  <2>4. ASSUME NEW i \in 1..Len(u)
        PROVE  Follow(u)!(i)
    <3> HIDE DEF u, t
    <3> DEFINE j == n + i
    <3>1. j \in 1..Len(t) /\ u[i] = t[j] /\ i \in Int /\ j \in Int
        BY <1>1, <2>1
    <3>2. /\ j + 1 <= Len(t) => i + 1 <= Len(u) /\ u[i + 1] = t[j + 1]
          /\ j + 2 <= Len(t) => i + 2 <= Len(u) /\ u[i + 2] = t[j + 2]
          /\ j + 3 <= Len(t) => i + 3 <= Len(u) /\ u[i + 3] = t[j + 3]
          /\ j + 4 <= Len(t) => i + 4 <= Len(u) /\ u[i + 4] = t[j + 4]
          /\ j + 2 <= Len(t) => j + 1 <= Len(t)
      <4>1. ASSUME NEW k \in Nat, j + k <= Len(t)
            PROVE  i + k <= Len(u) /\ u[i + k] = t[j + k]
        <5>1. i + k \in 1..Len(t) - n /\ n + (i + k) = j + k /\ i + k <= Len(t) - n
            BY <4>1, <3>1, <1>1
        <5>2. u[i + k] = t[n + (i + k)]
            BY <5>1, <2>1
        <5> QED
            BY <5>1, <5>2, <2>1
      <4>2. j + 2 <= Len(t) => j + 1 <= Len(t)
          BY <3>1, <1>1
      <4> HIDE DEF j
      <4> QED
          BY <4>1, <4>2
    <3>3. i # 1 => j # 1 /\ u[i - 1] = t[j - 1]
        BY <3>1, <1>1, <2>1
    <3>4. j # 1
        BY <1>1
    <3>5. Follow(t)!(j)
        BY <3>1 DEF Follow, t
    <3> HIDE DEF j
    <3> QED
        BY <3>1, <3>2, <3>3, <3>4, <3>5
  <2>5. Follow(u)
      BY <2>4 DEF Follow
  <2>6. u # <<>> /\ u[1] = t[n + 1]
      BY <1>1, <1>3, <2>1, SMTT(60)
  <2>7. t[n] \notin {"claim", "look"} => t[n + 1] \notin {"look", "launch"}
    <3>1. n + 1 \in 1..Len(t) /\ n + 1 # 1 /\ (n + 1) - 1 = n
        BY <1>1, <1>3
    <3>2. Follow(t)!(n + 1)
        BY <3>1 DEF Follow
    <3> QED
        BY <3>1, <3>2
  <2> HIDE DEF u, t
  <2> QED
      BY <2>1, <2>3, <2>5, <2>6, <2>7 DEF Whole, Good, Opens, Free, t
<1> QED
    BY <1>1, <1>2, <1>3

(* A finished request.                                                     *)
LEMMA IdleFree == Free(Idle)
BY Pieces DEF Free, Idle, Job, Task, Whole, Good

(* Holding a client leaves the list alone.                                 *)
LEMMA HoldingKeeps ==
    ASSUME NEW x \in Task, NEW l \in Loops \cup {None}
    PROVE  Holding(x, l) \in Task /\ Holding(x, l).todo = x.todo
BY DEF Holding, Task

(* Where the list of a request leads from its first access.                *)
LEMMA Heads ==
    ASSUME TypeOK, Orderly, NEW r \in Requests, req[r].todo # <<>>
    PROVE  LET t == req[r].todo
           IN  /\ req[r] \in Task /\ Follow(t)
               /\ t[1] = Head(t) /\ 1 <= Len(t)
               /\ Head(t) = "claim" => 2 < Len(t) /\ t[2] = "look" /\ t[3] = "launch"
               /\ Head(t) = "look" => 1 < Len(t) /\ t[2] = "launch"
               /\ Head(t) = "need" => t[5] = "recheck"
               /\ Head(t) = "settings" => t[2] = "open"
               /\ Head(t) = "leave" => t[2] = "saveOffline"
               /\ Head(t) = "signalIf" => t[2] = "dropKill"
               /\ Head(t) = "ifKill" => t[3] = "dropKill"
               /\ Head(t) = "cut" => t[4] = "dropKill"
<1> DEFINE t == req[r].todo
<1>1. req[r] \in Task /\ Follow(t)
    BY DEF TypeOK, Orderly
<1>2. t \in Seq(Steps) /\ t # <<>> /\ Len(t) \in Nat
    BY <1>1, LenProperties DEF Task
<1>3. 1 \in 1..Len(t) /\ t[1] = Head(t)
    BY <1>2
<1>4. Follow(t)!(1)
    BY <1>1, <1>3 DEF Follow
<1> HIDE DEF t
<1>5. /\ Head(t) = "claim" => 2 < Len(t) /\ t[2] = "look" /\ t[3] = "launch"
      /\ Head(t) = "look" => 1 < Len(t) /\ t[2] = "launch"
      /\ Head(t) = "need" => t[5] = "recheck"
      /\ Head(t) = "settings" => t[2] = "open"
      /\ Head(t) = "leave" => t[2] = "saveOffline"
      /\ Head(t) = "signalIf" => t[2] = "dropKill"
      /\ Head(t) = "ifKill" => t[3] = "dropKill"
      /\ Head(t) = "cut" => t[4] = "dropKill"
    BY <1>2, <1>3, <1>4
<1> QED
    BY <1>1, <1>2, <1>3, <1>5 DEF t

(* What a step of a request leaves of its list.                            *)
LEMMA Moves ==
    ASSUME TypeOK, Orderly, NEW r \in Requests, req[r].todo # <<>>,
           NEW n \in Nat \ {0}, req[r].todo[n] \notin {"claim", "look"}
    PROVE  /\ Free(Rest(req[r], n))
           /\ \A l \in Loops \cup {None} : Free(Rest(Holding(req[r], l), n))
<1>1. req[r] \in Task /\ Follow(req[r].todo)
    BY DEF TypeOK, Orderly
<1>2. Free(Rest(req[r], n))
    BY <1>1, RestKeeps
<1>3. ASSUME NEW l \in Loops \cup {None}
      PROVE  Free(Rest(Holding(req[r], l), n))
  <2>1. Holding(req[r], l) \in Task /\ Holding(req[r], l).todo = req[r].todo
      BY <1>1, HoldingKeeps
  <2> QED
      BY <1>1, <2>1, RestKeeps
<1> QED
    BY <1>2, <1>3

(* The steps outside StartInstance leave a request without a claim.        *)
LEMMA ServeMoves ==
    ASSUME TypeOK, Orderly, NEW r \in Requests, Serve(r),
           ~At(r, "claim"), ~At(r, "look")
    PROVE  \E x : Free(x) /\ req' = [req EXCEPT ![r] = x]
<1> DEFINE t == req[r].todo
           Moved == \E x : Free(x) /\ req' = [req EXCEPT ![r] = x]
<1>1. t # <<>>
    BY DEF Serve, Need, Recheck, Claim, Look, Launch, Hangup, Signal, Drop, Mark,
           DropClient, DropMy, DropKill, Save, Settings, Open, Stop, Leave, Part,
           IfKill, SignalIf, Erase, Refuse, Replace, Cut, Run, At
<1>2. t[1] \notin {"claim", "look"}
    BY <1>1, Heads DEF At
<1>3. Done(r) \/ GiveUp(r) => Moved
    BY <1>1, <1>2, Moves, IdleFree DEF Done, Skip, GiveUp
<1>4. ASSUME NEW n \in Nat \ {0}, t[n] \notin {"claim", "look"}, Skip(r, n)
      PROVE  Moved
    BY <1>1, <1>4, Moves DEF Skip
<1>5. CASE Need(r)
  <2>1. At(r, "need") /\ t[5] = "recheck" /\ clientPointer \in Loops \cup {None}
      BY <1>1, <1>5, Heads DEF Need, At, TypeOK
  <2>2. 5 \in Nat \ {0} /\ req[r].todo[5] \notin {"claim", "look"}
      BY <2>1
  <2>3. Free(Rest(Holding(req[r], clientPointer), 5))
      BY <1>1, <2>1, <2>2, Moves
  <2> QED
      BY <1>3, <1>5, <2>3, Pieces DEF Need
<1>6. CASE Recheck(r)
  <2>1. clientPointer \in Loops \cup {None}
      BY DEF TypeOK
  <2>2. Free(Rest(Holding(req[r], clientPointer), 1))
      BY <1>1, <1>2, <2>1, Moves
  <2> QED
      BY <1>3, <1>6, <2>2 DEF Recheck
<1>7. CASE Settings(r)
    BY <1>1, <1>3, <1>4, <1>7, Heads DEF Settings, At
<1>8. CASE Leave(r)
    BY <1>1, <1>3, <1>4, <1>8, Heads DEF Leave, At
<1>9. CASE IfKill(r)
    BY <1>1, <1>3, <1>4, <1>9, Heads DEF IfKill, At
<1>10. CASE SignalIf(r)
    BY <1>1, <1>3, <1>4, <1>10, Heads DEF SignalIf, At
<1>11. CASE Cut(r)
    BY <1>1, <1>3, <1>4, <1>11, Heads DEF Cut, At
<1>12. CASE Claim(r) \/ Look(r)
    BY <1>12 DEF Claim, Look
<1>13. CASE \/ Launch(r) \/ Hangup(r) \/ Signal(r) \/ Drop(r) \/ Mark(r)
            \/ DropClient(r) \/ DropMy(r) \/ DropKill(r) \/ Save(r) \/ Open(r)
            \/ Stop(r) \/ Part(r) \/ Erase(r) \/ Refuse(r) \/ Replace(r) \/ Run(r)
    BY <1>3, <1>13 DEF Launch, Hangup, Signal, Drop, Mark, DropClient, DropMy,
           DropKill, Save, Open, Stop, Part, Erase, Refuse, Replace, Run
<1> QED
    BY <1>5, <1>6, <1>7, <1>8, <1>9, <1>10, <1>11, <1>12, <1>13 DEF Serve

(* Lists of new requests.                                                  *)
LEMMA JobFree ==
    ASSUME NEW t, Whole(t)
    PROVE  Free(Job(t))
BY DEF Free, Job, Task, Whole, Good

(* So is what ConnectOnStartup leaves to do.                               *)
LEMMA BootFree ==
    \A r \in Requests : ConnectOnStartup[r] \in Task /\ Whole(ConnectOnStartup[r].todo)
BY Pieces, JobFree, IdleFree DEF ConnectOnStartup, Free

(* Storing a task.                                                         *)
LEMMA Stored ==
    ASSUME TypeOK, Orderly, NEW r \in Requests, NEW x \in Task, Follow(x.todo),
           req' = [req EXCEPT ![r] = x]
    PROVE  req' \in [Requests -> Task] /\ Orderly'
BY DEF TypeOK, Orderly

(* Every step keeps the tasks in order.                                    *)
LEMMA TasksKept ==
    ASSUME TypeOK, Orderly, [Next]_vars
    PROVE  req' \in [Requests -> Task] /\ Orderly'
<1>0. CASE UNCHANGED req
    BY <1>0 DEF TypeOK, Orderly
<1>1. ASSUME NEW r \in Requests, Serve(r)
      PROVE  req' \in [Requests -> Task] /\ Orderly'
  <2>1. CASE ~At(r, "claim") /\ ~At(r, "look")
      BY <1>1, <2>1, ServeMoves, Stored DEF Free, Whole, Good
  <2>2. CASE At(r, "claim") \/ At(r, "look")
    <3>1. req[r] \in Task /\ Follow(req[r].todo)
        BY DEF TypeOK, Orderly
    <3>2. 1 \in Nat \ {0} /\ 2 \in Nat \ {0} /\ 3 \in Nat \ {0}
          /\ Len(StartInstance) = 3
        BY DEF StartInstance
    <3>3. Skip(r, 1) \/ Skip(r, 2) \/ Skip(r, 3) \/ GiveUp(r)
        BY <1>1, <2>2, <3>2 DEF At, Serve, Need, Recheck, Claim, Look, Launch,
           Hangup, Signal, Drop, Mark, DropClient, DropMy, DropKill, Save, Settings,
           Open, Stop, Leave, Part, IfKill, SignalIf, Erase, Refuse, Replace, Cut,
           Run, Done
    <3>4. ASSUME NEW n \in {1, 2, 3}
          PROVE  Rest(req[r], n) \in Task /\ Follow(Rest(req[r], n).todo)
        BY <3>1, <3>2, RestKeeps
    <3>5. Idle \in Task /\ Follow(Idle.todo)
        BY IdleFree DEF Free, Whole, Good
    <3> QED
        BY <3>3, <3>4, <3>5, Stored DEF Skip, GiveUp
  <2> QED
      BY <2>1, <2>2
<1>2. ASSUME NEW r \in Requests, Request(r)
      PROVE  req' \in [Requests -> Task] /\ Orderly'
  <2>1. PICK o \in Operations : req' = [req EXCEPT ![r] = Job(Program[o])]
      BY <1>2 DEF Request
  <2>2. Free(Job(Program[o]))
      BY Programs, JobFree, SessionAssumption
  <2> QED
      BY <2>1, <2>2, Stored DEF Free, Whole, Good
<1>3. ASSUME NEW l \in Loops, NEW r \in Requests, Disconnected(l, r)
      PROVE  req' \in [Requests -> Task] /\ Orderly'
  <2>1. Free(Job(ReconnectClient))
      BY Programs, JobFree
  <2> QED
      BY <1>3, <2>1, Stored DEF Free, Whole, Good, Disconnected
<1>4. CASE Restart
  <2>1. req' = ConnectOnStartup
      BY <1>4 DEF Restart
  <2>2. ConnectOnStartup = [r \in Requests |-> ConnectOnStartup[r]]
      BY DEF ConnectOnStartup
  <2> HIDE DEF ConnectOnStartup
  <2> QED
      BY <2>1, <2>2, BootFree DEF Orderly, Whole, Good
<1>5. ASSUME NEW l \in Loops, StartClient(l)
      PROVE  UNCHANGED req
    BY <1>5 DEF StartClient, Begin, Ensure, NewClient, Attach, Dial, QrCode,
       QrTimeout, QrDrop, QrEnds, Capture, Wake, CallAgain, Unwind, requests
<1>6. ASSUME NEW l \in Loops, Events(l), ~\E r \in Requests : Disconnected(l, r)
      PROVE  UNCHANGED req
    BY <1>6 DEF Events, Connected, PairSuccess, LoggedOut, ConnectFailure,
       StreamReplaced, Undecryptable, Reopen, requests
<1>7. UNCHANGED vars => UNCHANGED req
    BY DEF vars, requests
<1> QED
    BY <1>0, <1>1, <1>2, <1>3, <1>4, <1>5, <1>6, <1>7 DEF Next

-----------------------------------------------------------------------------
(* The type invariant without the tasks.                                   *)
Shapes ==
    /\ clientPointer \in Loops \cup {None}
    /\ myClientPointer \in Loops \cup {None}
    /\ killChannel \in Channels \cup {None}
    /\ made \subseteq Channels
    /\ closed \subseteq Channels
    /\ pc \in [Loops -> Stages]
    /\ kill \in [Loops -> Channels \cup {None}]
    /\ parent \in [Loops -> Loops \cup {None}]
    /\ codes \in [Loops -> Nat]
    /\ paired \subseteq Loops
    /\ socket \in [Loops -> {"closed", "open", "auth"}]
    /\ handler \subseteq Loops
    /\ reopening \subseteq Loops
    /\ row \in Rows
    /\ starting \in BOOLEAN

(* The choices of a channel and of an activation.                          *)
LEMMA Choices ==
    ASSUME Shapes
    PROVE  /\ made # Channels => Fresh \in Channels \ made
           /\ CanSpawn => Callee \in Loops /\ pc[Callee] = "unused"
BY DEF Shapes, Fresh, CanSpawn, Callee

(* The accesses to the maps.                                               *)
LEMMA MapTypes ==
    ASSUME Shapes
    PROVE  /\ SignalKillChannel =>
                  killChannel' \in Channels \cup {None} /\ closed' \subseteq Channels
           /\ SetKillChannel =>
                  killChannel' \in Channels \cup {None} /\ made' \subseteq Channels
           /\ EnsureKillChannel =>
                  killChannel' \in Channels \cup {None} /\ made' \subseteq Channels
           /\ \A f \in Rows : UpdateConnected(f) => row' \in Rows
           /\ \A l \in Loops, g \in Stages : Go(l, g) => pc' \in [Loops -> Stages]
           /\ \A l \in Loops : Close(l) => socket' \in [Loops -> {"closed", "open", "auth"}]
           /\ CloseCurrent => socket' \in [Loops -> {"closed", "open", "auth"}]
           /\ Spawn => /\ pc' \in [Loops -> Stages]
                       /\ UNCHANGED <<kill, parent, codes>>
<1>1. "begin" \in Stages
    BY DEF Stages
<1>2. Spawn => /\ pc' \in [Loops -> Stages]
               /\ UNCHANGED <<kill, parent, codes>>
    BY <1>1, Choices DEF Shapes, Spawn, Go
<1> QED
    BY <1>2, Choices DEF Shapes, SignalKillChannel, SetKillChannel, EnsureKillChannel,
       UpdateConnected, Go, Close, CloseCurrent

(* Activations of StartClient.                                             *)
LEMMA StartClientTypes ==
    ASSUME Shapes, NEW l \in Loops, StartClient(l)
    PROVE  Shapes'
<1> USE MapTypes DEF maps, channels, loopVars, clients, requests, DeleteClientState,
        Rows
<1>0. Stages = {"unused", "begin", "ensure", "new", "attach", "dial", "qr",
                "limit", "timeout", "capture", "wait", "killed", "suspended",
                "returned"}
    BY DEF Stages
<1>1. CASE Begin(l)
    BY <1>0, <1>1 DEF Begin, Shapes
<1>2. CASE Ensure(l)
    BY <1>0, <1>2 DEF Ensure, Shapes
<1>3. CASE NewClient(l)
    BY <1>0, <1>3 DEF NewClient, Shapes
<1>4. CASE Attach(l)
    BY <1>0, <1>4 DEF Attach, Shapes
<1>5. CASE Dial(l)
    BY <1>0, <1>5 DEF Dial, Shapes
<1>6. CASE QrCode(l)
    BY <1>0, <1>6 DEF QrCode, Shapes
<1>7. CASE QrTimeout(l)
    BY <1>0, <1>7 DEF QrTimeout, Shapes
<1>8. CASE QrDrop(l)
    BY <1>0, <1>8 DEF QrDrop, Shapes
<1>9. CASE QrEnds(l)
    BY <1>0, <1>9 DEF QrEnds, Shapes
<1>10. CASE Capture(l)
    BY <1>0, <1>10 DEF Capture, Shapes
<1>11. CASE Wake(l)
    BY <1>0, <1>11 DEF Wake, Shapes
<1>12. CASE CallAgain(l)
    BY <1>0, <1>12, Choices DEF CallAgain, Shapes
<1>13. CASE Unwind(l)
    BY <1>0, <1>13 DEF Unwind, Shapes
<1> QED
    BY <1>1, <1>2, <1>3, <1>4, <1>5, <1>6, <1>7, <1>8, <1>9, <1>10, <1>11, <1>12,
       <1>13 DEF StartClient

(* Steps of requests.                                                      *)
LEMMA ServeTypes ==
    ASSUME Shapes, NEW r \in Requests, Serve(r)
    PROVE  Shapes'
<1> USE MapTypes DEF maps, channels, loopVars, clients, requests, DeleteClientState,
        Rows
<1>1. CASE Need(r) \/ Recheck(r) \/ Settings(r) \/ IfKill(r) \/ Refuse(r)
    BY <1>1 DEF Need, Recheck, Settings, IfKill, Refuse, Shapes
<1>2. CASE Claim(r) \/ Look(r)
    BY <1>2 DEF Claim, Look, Shapes
<1>3. CASE Launch(r)
    BY <1>3 DEF Launch, Shapes
<1>4. CASE Open(r)
    BY <1>4 DEF Open, Shapes
<1>5. CASE Replace(r) \/ Run(r)
    BY <1>5 DEF Replace, Run, Shapes
<1>6. CASE Hangup(r)
    BY <1>6 DEF Hangup, Shapes
<1>7. CASE Signal(r) \/ SignalIf(r) \/ Stop(r)
    BY <1>7 DEF Signal, SignalIf, Stop, Shapes
<1>8. CASE Drop(r) \/ DropClient(r) \/ DropMy(r) \/ DropKill(r)
    BY <1>8 DEF Drop, DropClient, DropMy, DropKill, Shapes
<1>9. CASE Mark(r) \/ Save(r) \/ Erase(r)
    BY <1>9 DEF Mark, Save, Erase, Shapes
<1>10. CASE Leave(r)
    BY <1>10 DEF Leave, LoggedIn, Up, Shapes
<1>11. CASE Part(r) \/ Cut(r)
    BY <1>11 DEF Part, Cut, Shapes
<1> QED
    BY <1>1, <1>2, <1>3, <1>4, <1>5, <1>6, <1>7, <1>8, <1>9, <1>10, <1>11 DEF Serve

(* Events of the library.                                                  *)
LEMMA EventTypes ==
    ASSUME Shapes, NEW l \in Loops, Events(l)
    PROVE  Shapes'
<1> USE MapTypes DEF maps, channels, loopVars, clients, requests, Rows
<1>1. CASE Connected(l) \/ PairSuccess(l)
    BY <1>1 DEF Connected, PairSuccess, Shapes
<1>2. CASE LoggedOut(l)
    BY <1>2 DEF LoggedOut, Shapes
<1>3. CASE ConnectFailure(l) \/ StreamReplaced(l)
    BY <1>3 DEF ConnectFailure, StreamReplaced, Shapes
<1>4. CASE Undecryptable(l) \/ Reopen(l)
    BY <1>4 DEF Undecryptable, Reopen, Shapes
<1>5. ASSUME NEW r \in Requests, Disconnected(l, r)
      PROVE  Shapes'
    BY <1>5 DEF Disconnected, Shapes
<1> QED
    BY <1>1, <1>2, <1>3, <1>4, <1>5 DEF Events

(* Types are kept.                                                         *)
LEMMA TypesKept ==
    ASSUME TypeOK, Orderly, [Next]_vars
    PROVE  TypeOK' /\ Orderly'
<1>1. Shapes
    BY DEF TypeOK, Shapes
<1>2. ASSUME NEW r \in Requests, Request(r)
      PROVE  Shapes'
    BY <1>1, <1>2 DEF Request, Shapes, maps, channels, loopVars, clients
<1>3. ASSUME Restart
      PROVE  Shapes'
  <2>1. /\ pc' \in [Loops -> Stages]
        /\ kill' \in [Loops -> Channels \cup {None}]
        /\ parent' \in [Loops -> Loops \cup {None}]
        /\ codes' \in [Loops -> Nat]
        /\ socket' \in [Loops -> {"closed", "open", "auth"}]
      BY <1>3 DEF Restart, Stages
  <2> QED
      BY <1>1, <1>3, <2>1 DEF Restart, Shapes
<1>4. UNCHANGED vars => Shapes'
    BY <1>1 DEF vars, Shapes, maps, channels, loopVars, clients, requests
<1>5. Shapes'
    BY <1>1, <1>2, <1>3, <1>4, StartClientTypes, ServeTypes, EventTypes DEF Next
<1> QED
    BY <1>5, TasksKept DEF TypeOK, Shapes

(* The first state.                                                        *)
LEMMA InitTypes == Init => TypeOK /\ Orderly
<1> SUFFICES ASSUME Init PROVE TypeOK /\ Orderly
    OBVIOUS
<1>1. Shapes
    BY DEF Init, Shapes, Stages, Rows
<1>2. req = ConnectOnStartup /\ ConnectOnStartup = [r \in Requests |-> ConnectOnStartup[r]]
    BY DEF Init, ConnectOnStartup
<1>3. req \in [Requests -> Task] /\ Orderly
  <2> HIDE DEF ConnectOnStartup
  <2> QED
      BY <1>2, BootFree DEF Orderly, Whole, Good
<1> QED
    BY <1>1, <1>3 DEF TypeOK, Shapes

(* Every variable of a session has its type, in every reachable state.     *)
THEOREM SessionTypes == Spec => []TypeOK
<1>1. Init => TypeOK /\ Orderly
    BY InitTypes
<1>2. TypeOK /\ Orderly /\ [Next]_vars => (TypeOK /\ Orderly)'
    BY TypesKept
<1> QED
    BY <1>1, <1>2, PTL DEF Spec

-----------------------------------------------------------------------------
(* The part of the kill switch that concerns one activation.               *)
Wired(l) ==
    /\ pc[l] = "wait" => kill[l] \in made
    /\ pc[l] \in {"killed", "suspended"} => kill[l] \in closed

(* The accesses to the maps keep the switch in the map open.               *)
LEMMA SwitchKept ==
    ASSUME TypeOK, KillSwitch
    PROVE  /\ SignalKillChannel /\ UNCHANGED made =>
                  /\ closed' \subseteq made' /\ killChannel' = None
                  /\ closed \subseteq closed'
           /\ SetKillChannel /\ UNCHANGED closed =>
                  /\ closed' \subseteq made' /\ killChannel' \in made' \ closed'
                  /\ made \subseteq made'
           /\ EnsureKillChannel /\ UNCHANGED closed =>
                  /\ closed' \subseteq made' /\ killChannel' \in made' \ closed'
                  /\ made \subseteq made'
<1>1. made # Channels => Fresh \in Channels \ made
    BY Choices DEF TypeOK, Shapes
<1> QED
    BY <1>1, SessionAssumption DEF TypeOK, KillSwitch, SignalKillChannel,
       SetKillChannel, EnsureKillChannel

(* Activations that stay where they are, and channels that only grow.      *)
LEMMA WiredKept ==
    ASSUME TypeOK, KillSwitch, made \subseteq made', closed \subseteq closed',
           closed' \subseteq made', killChannel' # None => killChannel' \in made' \ closed',
           \A l \in Loops : Wired(l)' \/ (pc'[l] = pc[l] /\ kill'[l] = kill[l])
    PROVE  KillSwitch'
BY DEF KillSwitch, Wired

(* No step of StartClient breaks the kill switch.                          *)
LEMMA SwitchOfStartClient ==
    ASSUME TypeOK, KillSwitch, NEW l \in Loops, StartClient(l)
    PROVE  KillSwitch'
<1> USE DEF maps, channels, requests, clients, Go, Wired
<1>1. CASE Begin(l) \/ NewClient(l) \/ Attach(l) \/ Dial(l) \/ QrEnds(l)
    BY <1>1, WiredKept DEF Begin, NewClient, Attach, Dial, QrEnds, TypeOK, KillSwitch
<1>2. CASE Ensure(l)
    BY <1>2, SwitchKept, WiredKept DEF Ensure, TypeOK
<1>3. CASE QrCode(l)
    BY <1>3, SwitchKept, WiredKept DEF QrCode, TypeOK, KillSwitch
<1>4. CASE QrTimeout(l)
    BY <1>4, SwitchKept, WiredKept DEF QrTimeout, TypeOK
<1>5. CASE QrDrop(l)
    BY <1>5, WiredKept DEF QrDrop, DeleteClientState, TypeOK, KillSwitch
<1>6. CASE Capture(l)
    BY <1>6, WiredKept DEF Capture, TypeOK, KillSwitch
<1>7. CASE Wake(l)
    BY <1>7, WiredKept DEF Wake, DeleteClientState, TypeOK, KillSwitch
<1>8. CASE CallAgain(l)
  <2>1. Callee \in Loops
      BY <1>8, Choices DEF CallAgain, TypeOK, Shapes
  <2> QED
      BY <1>8, <2>1, WiredKept DEF CallAgain, TypeOK, KillSwitch
<1>9. CASE Unwind(l)
    BY <1>9, WiredKept DEF Unwind, TypeOK, KillSwitch
<1> QED
    BY <1>1, <1>2, <1>3, <1>4, <1>5, <1>6, <1>7, <1>8, <1>9 DEF StartClient

(* A call of StartClient puts an activation at its beginning.              *)
LEMMA SpawnWired ==
    ASSUME TypeOK, Spawn, NEW l \in Loops
    PROVE  Wired(l)' \/ (pc'[l] = pc[l] /\ kill'[l] = kill[l])
<1>1. Callee \in Loops
    BY Choices DEF Spawn, TypeOK, Shapes
<1> QED
    BY <1>1 DEF Spawn, Go, TypeOK, Wired

(* No step of a request breaks the kill switch.                            *)
LEMMA SwitchOfServe ==
    ASSUME TypeOK, KillSwitch, NEW r \in Requests, Serve(r)
    PROVE  KillSwitch'
<1> USE DEF maps, channels, loopVars
<1>1. CASE \/ Need(r) \/ Recheck(r) \/ Settings(r) \/ IfKill(r) \/ Refuse(r)
           \/ Claim(r) \/ Look(r) \/ Hangup(r) \/ DropClient(r) \/ DropMy(r)
           \/ Mark(r) \/ Save(r) \/ Erase(r) \/ Leave(r) \/ Part(r) \/ Cut(r)
  <2>1. UNCHANGED <<killChannel, made, closed, pc, kill>>
      BY <1>1 DEF Need, Recheck, Settings, IfKill, Refuse, Claim, Look, Hangup,
         DropClient, DropMy, Mark, Save, Erase, Leave, Part, Cut
  <2> QED
      BY <2>1 DEF KillSwitch
<1>2. CASE Drop(r) \/ DropKill(r)
    BY <1>2, WiredKept DEF Drop, DropKill, DeleteClientState, KillSwitch
<1>3. CASE Signal(r) \/ SignalIf(r) \/ Stop(r)
  <2>1. /\ SignalKillChannel \/ UNCHANGED <<killChannel, closed>>
        /\ UNCHANGED <<made, pc, kill>>
      BY <1>3 DEF Signal, SignalIf, Stop
  <2> QED
      BY <2>1, SwitchKept, WiredKept DEF KillSwitch
<1>4. CASE Launch(r) \/ Open(r) \/ Replace(r)
  <2>1. /\ SetKillChannel /\ UNCHANGED closed
        /\ Spawn \/ UNCHANGED <<pc, kill>>
      BY <1>4 DEF Launch, Open, Replace
  <2>2. \A l \in Loops : Wired(l)' \/ (pc'[l] = pc[l] /\ kill'[l] = kill[l])
      BY <2>1, SpawnWired
  <2> QED
      BY <2>1, <2>2, SwitchKept, WiredKept
<1>5. CASE Run(r)
  <2>1. \A l \in Loops : Wired(l)' \/ (pc'[l] = pc[l] /\ kill'[l] = kill[l])
      BY <1>5, SpawnWired DEF Run
  <2> QED
      BY <1>5, <2>1, WiredKept DEF Run, KillSwitch
<1> QED
    BY <1>1, <1>2, <1>3, <1>4, <1>5 DEF Serve

(* No step at all breaks the kill switch.                                  *)
LEMMA SwitchOfNext ==
    ASSUME TypeOK, KillSwitch, [Next]_vars
    PROVE  KillSwitch'
<1>1. ASSUME NEW l \in Loops, Events(l)
      PROVE  KillSwitch'
  <2> USE DEF maps, channels, loopVars
  <2>1. CASE LoggedOut(l)
      BY <2>1, SwitchKept, WiredKept DEF LoggedOut
  <2>2. CASE ~LoggedOut(l)
    <3>1. UNCHANGED <<killChannel, made, closed, pc, kill>>
        BY <1>1, <2>2 DEF Events, Connected, PairSuccess, ConnectFailure,
           StreamReplaced, Undecryptable, Reopen, Disconnected
    <3> QED
        BY <3>1 DEF KillSwitch
  <2> QED
      BY <2>1, <2>2
<1>2. ASSUME NEW r \in Requests, Request(r)
      PROVE  KillSwitch'
    BY <1>2 DEF Request, KillSwitch, maps, channels, loopVars
<1>3. Restart => KillSwitch'
    BY DEF Restart, KillSwitch
<1>4. UNCHANGED vars => KillSwitch'
    BY DEF vars, maps, channels, loopVars, KillSwitch
<1> QED
    BY <1>1, <1>2, <1>3, <1>4, SwitchOfStartClient, SwitchOfServe DEF Next

(* The kill channel of an instance works as a switch, however starts,      *)
(* reconnects, logouts, deletions and events of the library interleave.    *)
THEOREM SessionKillSwitch == Spec => []KillSwitch
<1>1. Init => TypeOK /\ Orderly /\ KillSwitch
    BY InitTypes DEF Init, KillSwitch
<1>2. TypeOK /\ Orderly /\ KillSwitch /\ [Next]_vars => (TypeOK /\ Orderly /\ KillSwitch)'
    BY TypesKept, SwitchOfNext
<1> QED
    BY <1>1, <1>2, PTL DEF Spec

-----------------------------------------------------------------------------
(* A task that starts outside StartInstance holds no claim.                *)
LEMMA FreeUnclaimed ==
    ASSUME NEW x, Free(x)
    PROVE  x.todo = <<>> \/ Head(x.todo) \notin {"look", "launch"}
<1>1. x.todo \in Seq(Steps)
    BY DEF Free, Whole, Good
<1> QED
    BY <1>1 DEF Free, Whole, Opens

(* A step of a request that has no claim and gets none.                    *)
LEMMA ClaimsKept ==
    ASSUME TypeOK, OneStarter, NEW r \in Requests, NEW x, Free(x),
           req' = [req EXCEPT ![r] = x]
    PROVE  /\ ~Claimed(r) /\ starting' = starting => OneStarter'
           /\ Claimed(r) /\ starting' = FALSE => OneStarter'
<1>1. x.todo = <<>> \/ Head(x.todo) \notin {"look", "launch"}
    BY FreeUnclaimed
<1>2. req'[r] = x /\ \A q \in Requests \ {r} : req'[q] = req[q]
    BY DEF TypeOK
<1>3. ~Claimed(r)' /\ \A q \in Requests \ {r} : Claimed(q)' <=> Claimed(q)
    BY <1>1, <1>2 DEF Claimed, At
<1> HIDE DEF Claimed
<1> QED
    BY <1>3 DEF OneStarter, TypeOK

(* A step of a request claims only what is free, and releases its claim.   *)
LEMMA ClaimsOfServe ==
    ASSUME TypeOK, Orderly, OneStarter, NEW r \in Requests, Serve(r)
    PROVE  OneStarter'
<1> DEFINE t == req[r].todo
<1>1. t # <<>>
    BY DEF Serve, Need, Recheck, Claim, Look, Launch, Hangup, Signal, Drop, Mark,
           DropClient, DropMy, DropKill, Save, Settings, Open, Stop, Leave, Part,
           IfKill, SignalIf, Erase, Refuse, Replace, Cut, Run, At
<1>2. 1 \in Nat \ {0} /\ 2 \in Nat \ {0} /\ 3 \in Nat \ {0} /\ Len(StartInstance) = 3
    BY DEF StartInstance
<1>3. CASE At(r, "claim")
  <2>1. Claim(r) /\ ~Claimed(r)
      BY <1>3 DEF At, Claimed, Serve, Need, Recheck, Claim, Look, Launch,
         Hangup, Signal, Drop, Mark, DropClient, DropMy, DropKill, Save, Settings,
         Open, Stop, Leave, Part, IfKill, SignalIf, Erase, Refuse, Replace, Cut, Run
  <2>2. t[3] = "launch" /\ t[2] = "look" /\ 1 < Len(t)
    <3>1. 2 < Len(t) /\ t[2] = "look" /\ t[3] = "launch" /\ t \in Seq(Steps)
        BY <1>1, <1>3, Heads DEF At, Task
    <3> QED
        BY <3>1, LenProperties
  <2>3. CASE starting
    <3>1. Free(Rest(req[r], 3))
        BY <1>1, <1>2, <2>2, Moves
    <3>2. req' = [req EXCEPT ![r] = Rest(req[r], 3)] /\ starting' = starting
        BY <1>2, <2>1, <2>3 DEF Claim, Skip
    <3> QED
        BY <2>1, <3>1, <3>2, ClaimsKept
  <2>4. CASE ~starting
    <3> DEFINE x == Rest(req[r], 1)
    <3>0. req[r] \in Task /\ Follow(t) /\ t[1 + 1] = "look"
        BY <2>2 DEF TypeOK, Orderly
    <3>1. x \in Task /\ x.todo # <<>> /\ x.todo[1] = "look"
        BY <1>2, <2>2, <3>0, RestKeeps
    <3>2. Head(x.todo) = "look"
        BY <3>1 DEF Task
    <3>3. req' = [req EXCEPT ![r] = x] /\ starting' = TRUE
        BY <2>1, <2>4 DEF Claim, Done, Skip
    <3> HIDE DEF x
    <3>4. Claimed(r)' /\ \A q \in Requests \ {r} : Claimed(q)' <=> Claimed(q)
        BY <3>1, <3>2, <3>3 DEF TypeOK, Claimed, At
    <3>5. \A q \in Requests : ~Claimed(q)
        BY <2>4 DEF OneStarter
    <3> HIDE DEF Claimed
    <3> QED
        BY <3>3, <3>4, <3>5 DEF OneStarter
  <2> QED
      BY <2>3, <2>4
<1>4. CASE At(r, "look")
  <2>1. Look(r) /\ Claimed(r)
      BY <1>4 DEF At, Claimed, Serve, Need, Recheck, Claim, Look, Launch,
         Hangup, Signal, Drop, Mark, DropClient, DropMy, DropKill, Save, Settings,
         Open, Stop, Leave, Part, IfKill, SignalIf, Erase, Refuse, Replace, Cut, Run
  <2>2. 1 < Len(t) /\ t[2] = "launch"
      BY <1>1, <1>4, Heads DEF At
  <2>3. CASE Done(r) /\ UNCHANGED starting
    <3> DEFINE x == Rest(req[r], 1)
    <3>1. x \in Task /\ x.todo # <<>> /\ x.todo[1] = "launch"
        BY <1>2, <2>2, RestKeeps, SMTT(60) DEF TypeOK, Orderly
    <3>2. Head(x.todo) = "launch"
        BY <3>1 DEF Task
    <3>3. req' = [req EXCEPT ![r] = x] /\ starting' = starting
        BY <2>3 DEF Done, Skip
    <3> HIDE DEF x
    <3>4. \A q \in Requests : Claimed(q)' <=> Claimed(q)
        BY <2>1, <3>1, <3>2, <3>3 DEF TypeOK, Claimed, At
    <3> HIDE DEF Claimed
    <3> QED
        BY <3>3, <3>4 DEF OneStarter
  <2>4. CASE (Skip(r, 2) \/ GiveUp(r)) /\ starting' = FALSE
    <3>1. Free(Rest(req[r], 2))
        BY <1>1, <1>2, <2>2, Moves
    <3> QED
        BY <2>1, <2>4, <3>1, ClaimsKept, IdleFree DEF Skip, GiveUp
  <2> QED
      BY <2>1, <2>3, <2>4 DEF Look
<1>5. CASE ~At(r, "claim") /\ ~At(r, "look")
  <2>1. PICK x : Free(x) /\ req' = [req EXCEPT ![r] = x]
      BY <1>5, ServeMoves
  <2>2. \/ At(r, "launch") /\ starting' = FALSE
        \/ ~At(r, "launch") /\ starting' = starting
      BY <1>5 DEF At, Serve, Need, Recheck, Claim, Look, Launch,
         Hangup, Signal, Drop, Mark, DropClient, DropMy, DropKill, Save, Settings,
         Open, Stop, Leave, Part, IfKill, SignalIf, Erase, Refuse, Replace, Cut, Run
  <2> QED
      BY <1>5, <2>1, <2>2, ClaimsKept DEF Claimed
<1> QED
    BY <1>3, <1>4, <1>5

(* Every step keeps the claim of StartInstance single.                     *)
LEMMA ClaimsOfNext ==
    ASSUME TypeOK, Orderly, OneStarter, [Next]_vars
    PROVE  OneStarter'
<1>1. UNCHANGED requests => OneStarter'
    BY DEF requests, OneStarter, Claimed, At
<1>2. ASSUME NEW r \in Requests, req[r].todo = <<>>, NEW t, Whole(t),
             req' = [req EXCEPT ![r] = Job(t)], UNCHANGED starting
      PROVE  OneStarter'
    BY <1>2, JobFree, ClaimsKept DEF Claimed, At
<1>3. ASSUME NEW r \in Requests, Request(r)
      PROVE  OneStarter'
    BY <1>2, <1>3, Programs, SessionAssumption DEF Request
<1>4. ASSUME NEW l \in Loops, Events(l)
      PROVE  OneStarter'
  <2>1. ASSUME NEW r \in Requests, Disconnected(l, r)
        PROVE  OneStarter'
      BY <1>2, <2>1, Programs DEF Disconnected
  <2>2. CASE ~\E r \in Requests : Disconnected(l, r)
      BY <1>1, <1>4, <2>2 DEF Events, Connected, PairSuccess, LoggedOut, ConnectFailure,
         StreamReplaced, Undecryptable, Reopen
  <2> QED
      BY <2>1, <2>2
<1>5. ASSUME NEW l \in Loops, StartClient(l)
      PROVE  OneStarter'
    BY <1>1, <1>5 DEF StartClient, Begin, Ensure, NewClient, Attach, Dial, QrCode,
       QrTimeout, QrDrop, QrEnds, Capture, Wake, CallAgain, Unwind
<1>6. ASSUME Restart
      PROVE  OneStarter'
  <2>1. \A r \in Requests : Free(ConnectOnStartup[r])
      BY BootFree DEF Free
  <2>2. \A r \in Requests : ~Claimed(r)'
      BY <1>6, <2>1, FreeUnclaimed DEF Restart, Claimed, At
  <2> QED
      BY <1>6, <2>2 DEF Restart, OneStarter
<1>7. UNCHANGED vars => UNCHANGED requests
    BY DEF vars, requests
<1> QED
    BY <1>1, <1>3, <1>4, <1>5, <1>6, <1>7, ClaimsOfServe DEF Next

(* startingInstances admits one start at a time and is released on every   *)
(* way out, for any number of concurrent requests and reconnects.          *)
THEOREM SessionOneStarter == Spec => []OneStarter
<1>1. Init => TypeOK /\ Orderly /\ OneStarter
  <2> SUFFICES ASSUME Init PROVE TypeOK /\ Orderly /\ OneStarter
      OBVIOUS
  <2>1. \A r \in Requests : Free(ConnectOnStartup[r])
      BY BootFree DEF Free
  <2>2. \A r \in Requests : ~Claimed(r)
      BY <2>1, FreeUnclaimed DEF Init, Claimed, At
  <2> QED
      BY <2>2, InitTypes DEF Init, OneStarter
<1>2. TypeOK /\ Orderly /\ OneStarter /\ [Next]_vars => (TypeOK /\ Orderly /\ OneStarter)'
    BY TypesKept, ClaimsOfNext
<1> QED
    BY <1>1, <1>2, PTL DEF Spec
=============================================================================
