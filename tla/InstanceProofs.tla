--------------------------- MODULE InstanceProofs ---------------------------
(***************************************************************************)
(* Proofs about the instance service, for any number of requests and boot  *)
(* workers: there is one runtime and one engine row, the runtime is built  *)
(* under the mutex, and a live chat search keeps to its throttle.          *)
(***************************************************************************)
EXTENDS Instance, SequenceTheorems, FiniteSetTheorems, TLAPS

-----------------------------------------------------------------------------
(* The inductive invariant.                                                *)

\* The steps that need no copy of the instance's row.
Openers == {"load", "insert", "delete"}

\* The steps that save the copy of the engine row, and those that read it.
CopySteps == {"sync", "setEngine", "connect", "pair", "disconnect", "logout"}
Linkers == {"link", "createEngine"}

\* The steps that have a key of the cache.
KeySteps == {"throttled", "begin", "store"}

Types ==
    /\ client \in Clients
    /\ task \in [Actors -> Task]
    /\ entries \in [Keys -> {"none", "fresh", "usable", "expired"}]
    /\ attempts \in [Keys -> {"none", "recent", "past"}]
    /\ window \in [Keys -> BOOLEAN]
    /\ row \in Row \cup {None}
    /\ engine \in [EngineIds -> EngineRow \cup {None}]

\* In a list of steps, the step i has the copy of an engine row that a step
\* before it read, or that is there from the start: no snapshot has dropped it.
Kept(t, i, j) == \A k \in j..(i - 1) : t[k] # "snapshot"
LinkedAt(t, i) == \E j \in 1..(i - 1) : t[j] \in Linkers /\ Kept(t, i, j)
Unlinked(t) == \A i \in 1..Len(t) : t[i] \in CopySteps => LinkedAt(t, i)
Held(t) == \A i \in 1..Len(t) : t[i] \in CopySteps => LinkedAt(t, i) \/ Kept(t, i, 1)

\* A step of S has the step s before it: a step with a key the one that sets
\* the key, and the one that applies a snapshot the one that takes it.
Guarded(t, S, s) == \A i \in 1..Len(t) : t[i] \in S => \E j \in 1..(i - 1) : t[j] = s
Keyless(t) == Guarded(t, KeySteps, "fresh")
Unshown(t) == Guarded(t, {"apply"}, "snapshot")

\* A list has only steps of S.
Within(t, S) == \A i \in 1..Len(t) : t[i] \in S

\* What a request has at hand is what the rest of its list needs.
Fits(x) ==
    /\ x.todo = <<>> => x = Idle
    /\ x.todo # <<>> =>
          /\ Within(Tail(x.todo), ProgramSteps)
          /\ x.row = None => Head(x.todo) \in Openers \cup {"stale"}
          /\ Head(x.todo) = "delete" => Tail(x.todo) = <<>>
    /\ x.engine = None => Unlinked(x.todo)
    /\ Held(x.todo)
    /\ x.key = None => Keyless(x.todo)
    /\ x.shown = "none" => Unshown(x.todo)

\* The runtime is built by the holder of the mutex.
Builds(x) == x.todo # <<>> /\ Head(x.todo) = "build"
MutexInv == \A a \in Actors : Builds(task[a]) <=> mutex = a

\* There is one engine row at the most, and copies are copies of it.
EngineInv ==
    /\ engine["own"] = None \/ engine["other"] = None
    /\ \A a \in Actors : task[a].engine # None => engine[task[a].engine.id] # None

\* The runtime is built once.
RuntimeInv ==
    /\ runtime \in {"none", "ready"}
    /\ builds = IF runtime = "ready" THEN 1 ELSE 0

\* An attempt is forgotten or over only with its entry or its window.
ThrottleInv == \A k \in Keys : Usable(k) /\ window[k] => attempts[k] = "recent"

\* The boot, and the mutex.
BootTypes ==
    /\ mutex \in Actors \cup {None}
    /\ boot \in {"list", "feed", "done"}
    /\ reconnected \in BOOLEAN /\ warned \in BOOLEAN
    /\ restarts \in 0..MaxRestarts

InstanceInv ==
    /\ Types /\ BootTypes
    /\ \A a \in Actors : Fits(task[a])
    /\ MutexInv /\ EngineInv /\ RuntimeInv /\ ThrottleInv

-----------------------------------------------------------------------------
(* Lists of steps.                                                         *)

\* A list and what is left of it after its first step.
LEMMA Rest ==
    ASSUME NEW t \in Seq(Steps), t # <<>>
    PROVE  /\ Head(t) = t[1] /\ Head(t) \in Steps /\ Tail(t) \in Seq(Steps)
           /\ Len(t) \in Nat \ {0} /\ Len(Tail(t)) = Len(t) - 1 /\ Len(Tail(t)) \in Nat
           /\ \A i \in 1..Len(Tail(t)) : Tail(t)[i] = t[i + 1]
BY HeadTailProperties, LenProperties

LEMMA UnlinkedHeld ==
    ASSUME NEW t, Unlinked(t)
    PROVE  Held(t)
BY DEF Unlinked, Held

LEMMA RestWithin ==
    ASSUME NEW t \in Seq(Steps), t # <<>>, NEW S, Within(t, S)
    PROVE  Head(t) \in S /\ Within(Tail(t), S)
<1> DEFINE u == Tail(t)
           n == Len(u)
<1>1. Head(t) = t[1] /\ n \in Nat /\ Len(t) = n + 1 /\ \A i \in 1..n : u[i] = t[i + 1]
    BY Rest
<1> HIDE DEF u, n
<1>2. 1 \in 1..Len(t) /\ \A i \in 1..n : i + 1 \in 1..Len(t)
    BY <1>1
<1>3. Within(u, S)
    BY <1>1, <1>2 DEF Within, n
<1> QED
    BY <1>1, <1>2, <1>3 DEF Within, u

LEMMA RestGuarded ==
    ASSUME NEW t \in Seq(Steps), t # <<>>, NEW S, NEW s, Guarded(t, S, s)
    PROVE  Head(t) \notin S /\ (Head(t) # s => Guarded(Tail(t), S, s))
<1> DEFINE u == Tail(t)
           n == Len(u)
<1>1. Head(t) = t[1] /\ n \in Nat /\ Len(t) = n + 1 /\ \A i \in 1..n : u[i] = t[i + 1]
    BY Rest
<1> HIDE DEF u, n
<1>2. Head(t) \notin S
  <2>1. 1 \in 1..Len(t) /\ ~ \E j \in 1..(1 - 1) : TRUE
      BY <1>1
  <2> QED
      BY <1>1, <2>1 DEF Guarded
<1>3. ASSUME Head(t) # s, NEW i \in 1..n, u[i] \in S
      PROVE  \E j \in 1..(i - 1) : u[j] = s
  <2>1. i + 1 \in 1..Len(t) /\ t[i + 1] \in S /\ (i + 1) - 1 = i
      BY <1>1, <1>3
  <2>2. PICK k \in 1..i : t[k] = s
      BY <2>1 DEF Guarded
  <2>3. k # 1
      BY <1>1, <1>3, <2>2
  <2>4. k - 1 \in 1..(i - 1) /\ k - 1 \in 1..n /\ (k - 1) + 1 = k
      BY <1>1, <2>2, <2>3
  <2> QED
      BY <1>1, <2>2, <2>4
<1>4. Head(t) # s => Guarded(u, S, s)
    BY <1>3 DEF Guarded, n
<1> QED
    BY <1>2, <1>4 DEF u

\* A copy that the rest needs is there, or is read in the rest.
LEMMA RestLinked ==
    ASSUME NEW t \in Seq(Steps), t # <<>>, Held(t)
    PROVE  /\ Held(Tail(t))
           /\ Head(t) = "snapshot" => Unlinked(Tail(t))
           /\ Unlinked(t) => Head(t) \notin CopySteps /\ (Head(t) \notin Linkers => Unlinked(Tail(t)))
<1> DEFINE u == Tail(t)
           n == Len(u)
<1>1. Head(t) = t[1] /\ n \in Nat /\ Len(t) = n + 1 /\ \A i \in 1..n : u[i] = t[i + 1]
    BY Rest
<1> HIDE DEF u, n
<1>2. ASSUME NEW i \in 1..n, NEW j \in 2..i, Kept(t, i + 1, j)
      PROVE  j - 1 \in 1..(i - 1) /\ j - 1 \in 1..n /\ (j - 1) + 1 = j /\ Kept(u, i, j - 1)
  <2>1. j - 1 \in 1..(i - 1) /\ j - 1 \in 1..n /\ (j - 1) + 1 = j
      BY <1>1
  <2>2. ASSUME NEW k \in (j - 1)..(i - 1)
        PROVE  u[k] # "snapshot"
    <3>1. k \in 1..n /\ k + 1 \in j..((i + 1) - 1)
        BY <1>1
    <3> QED
        BY <1>1, <1>2, <3>1 DEF Kept
  <2> QED
      BY <2>1, <2>2 DEF Kept
<1>3. ASSUME NEW i \in 1..n, LinkedAt(t, i + 1)
      PROVE  LinkedAt(u, i) \/ (t[1] \in Linkers /\ Kept(t, i + 1, 1))
  <2>1. PICK j \in 1..((i + 1) - 1) : t[j] \in Linkers /\ Kept(t, i + 1, j)
      BY <1>3 DEF LinkedAt
  <2>2. CASE j = 1
      BY <2>1, <2>2
  <2>3. CASE j # 1
    <3>1. j \in 2..i
        BY <2>3
    <3>2. j - 1 \in 1..(i - 1) /\ j - 1 \in 1..n /\ (j - 1) + 1 = j /\ Kept(u, i, j - 1)
        BY <1>2, <2>1, <3>1
    <3>3. u[j - 1] = t[j]
        BY <1>1, <3>2
    <3> QED
        BY <2>1, <3>2, <3>3 DEF LinkedAt
  <2> QED
      BY <2>2, <2>3
<1>4. ASSUME NEW i \in 1..n, Kept(t, i + 1, 1)
      PROVE  t[1] # "snapshot" /\ Kept(u, i, 1)
  <2>1. 1 \in 1..((i + 1) - 1) /\ \A k \in 1..(i - 1) : k \in 1..n /\ k + 1 \in 1..((i + 1) - 1)
      BY <1>1
  <2> QED
      BY <1>1, <1>4, <2>1 DEF Kept
<1>5. \A i \in 1..n : i + 1 \in 1..Len(t) /\ u[i] = t[i + 1]
    BY <1>1
<1>6. Held(u)
  <2> SUFFICES ASSUME NEW i \in 1..n, u[i] \in CopySteps
               PROVE  LinkedAt(u, i) \/ Kept(u, i, 1)
      BY DEF Held, n
  <2>1. LinkedAt(t, i + 1) \/ Kept(t, i + 1, 1)
      BY <1>5 DEF Held
  <2> QED
      BY <1>3, <1>4, <2>1
<1>7. ASSUME Head(t) = "snapshot"
      PROVE  Unlinked(u)
  <2> SUFFICES ASSUME NEW i \in 1..n, u[i] \in CopySteps
               PROVE  LinkedAt(u, i)
      BY DEF Unlinked, n
  <2>1. LinkedAt(t, i + 1) \/ Kept(t, i + 1, 1)
      BY <1>5 DEF Held
  <2> QED
      BY <1>1, <1>3, <1>4, <1>7, <2>1
<1>8. ASSUME Unlinked(t)
      PROVE  Head(t) \notin CopySteps
  <2>1. 1 \in 1..Len(t) /\ ~ \E j \in 1..(1 - 1) : TRUE
      BY <1>1
  <2> QED
      BY <1>1, <1>8, <2>1 DEF Unlinked, LinkedAt
<1>9. ASSUME Unlinked(t), Head(t) \notin Linkers
      PROVE  Unlinked(u)
  <2> SUFFICES ASSUME NEW i \in 1..n, u[i] \in CopySteps
               PROVE  LinkedAt(u, i)
      BY DEF Unlinked, n
  <2>1. LinkedAt(t, i + 1)
      BY <1>5, <1>9 DEF Unlinked
  <2> QED
      BY <1>1, <1>3, <1>9, <2>1
<1> QED
    BY <1>6, <1>7, <1>8, <1>9 DEF u

\* A step in front of a list.
LEMMA Put ==
    ASSUME NEW s \in Steps, NEW u \in Seq(Steps)
    PROVE  LET c == <<s>> \o u
           IN  /\ c \in Seq(Steps) /\ c # <<>> /\ Head(c) = s /\ Tail(c) = u
<1> DEFINE c == <<s>> \o u
<1>1. <<s>> \in Seq(Steps) /\ Len(<<s>>) = 1 /\ <<s>>[1] = s /\ Len(u) \in Nat
    BY LenProperties
<1>2. c \in Seq(Steps) /\ Len(c) = 1 + Len(u)
    BY <1>1, ConcatProperties
<1>3. \A i \in 1..1 + Len(u) : c[i] = IF i <= 1 THEN s ELSE u[i - 1]
  <2>1. \A i \in 1..Len(<<s>>) + Len(u) : c[i] = IF i <= Len(<<s>>) THEN <<s>>[i] ELSE u[i - Len(<<s>>)]
      BY <1>1, ConcatProperties
  <2> QED
      BY <1>1, <2>1
<1> HIDE DEF c
<1>4. c # <<>> /\ Head(c) = s
    BY <1>1, <1>2, <1>3, EmptySeq
<1>5. Tail(c) = u
  <2>1. /\ Tail(c) \in Seq(Steps) /\ Len(Tail(c)) = Len(c) - 1
        /\ \A i \in 1..Len(Tail(c)) : Tail(c)[i] = c[i + 1]
      BY <1>2, <1>4, HeadTailProperties
  <2>2. Len(Tail(c)) = Len(u)
      BY <1>1, <1>2, <2>1
  <2>3. \A i \in 1..Len(u) : Tail(c)[i] = u[i]
      BY <1>1, <1>3, <2>1, <2>2
  <2> QED
      BY <2>1, <2>2, <2>3, SeqEqual
<1> QED
    BY <1>2, <1>4, <1>5 DEF c

\* And what it needs.
LEMMA PutLinked ==
    ASSUME NEW c \in Seq(Steps), c # <<>>, NEW t \in Seq(Steps), t # <<>>, Tail(c) = Tail(t),
           Head(c) # "snapshot", Head(c) \notin CopySteps, Head(t) \in Linkers => Head(c) \in Linkers
    PROVE  (Unlinked(t) => Unlinked(c)) /\ (Held(t) => Held(c))
<1> DEFINE n == Len(c)
<1>1. /\ n \in Nat \ {0} /\ Len(t) = n /\ Head(t) = t[1] /\ Head(c) = c[1]
      /\ \A i \in 2..n : c[i] = t[i]
  <2> DEFINE u == Tail(t)
  <2>1. /\ Head(t) = t[1] /\ Len(t) \in Nat \ {0} /\ Len(u) = Len(t) - 1
        /\ \A i \in 1..Len(u) : u[i] = t[i + 1]
      BY Rest
  <2>2. /\ Head(c) = c[1] /\ n \in Nat \ {0} /\ Len(u) = n - 1
        /\ \A i \in 1..Len(u) : u[i] = c[i + 1]
      BY Rest
  <2> HIDE DEF u, n
  <2>3. \A i \in 2..n : i - 1 \in 1..Len(u) /\ (i - 1) + 1 = i
      BY <2>2
  <2>4. ASSUME NEW i \in 2..n
        PROVE  c[i] = t[i]
    <3>1. i - 1 \in 1..Len(u) /\ (i - 1) + 1 = i
        BY <2>3
    <3>2. u[i - 1] = t[i]
        BY <2>1, <3>1
    <3>3. u[i - 1] = c[i]
        BY <2>2, <3>1
    <3> QED
        BY <3>2, <3>3
  <2>5. Len(t) = n
      BY <2>1, <2>2
  <2> QED
      BY <2>1, <2>2, <2>4, <2>5
<1> HIDE DEF n
<1>2. ASSUME NEW i \in 1..n, NEW j \in 1..i, Kept(t, i, j)
      PROVE  Kept(c, i, j)
  <2>1. \A k \in j..(i - 1) : k \in 2..n \/ k = 1
      BY <1>1
  <2> QED
      BY <1>1, <1>2, <2>1 DEF Kept
<1>3. ASSUME NEW i \in 1..n, LinkedAt(t, i)
      PROVE  LinkedAt(c, i)
  <2>1. PICK j \in 1..(i - 1) : t[j] \in Linkers /\ Kept(t, i, j)
      BY <1>3 DEF LinkedAt
  <2>2. j \in 1..i /\ (j \in 2..n \/ j = 1)
      BY <1>1
  <2>3. c[j] \in Linkers /\ Kept(c, i, j)
      BY <1>1, <1>2, <2>1, <2>2
  <2> QED
      BY <2>3 DEF LinkedAt
<1>4. \A i \in 1..n : c[i] \in CopySteps => t[i] \in CopySteps
  <2>1. \A i \in 1..n : i = 1 \/ i \in 2..n
      BY <1>1
  <2> QED
      BY <1>1, <2>1
<1>5. ASSUME Unlinked(t)
      PROVE  Unlinked(c)
    BY <1>1, <1>3, <1>4, <1>5 DEF Unlinked, n
<1>6. ASSUME Held(t)
      PROVE  Held(c)
  <2> SUFFICES ASSUME NEW i \in 1..n, c[i] \in CopySteps
               PROVE  LinkedAt(c, i) \/ Kept(c, i, 1)
      BY DEF Held, n
  <2>1. LinkedAt(t, i) \/ Kept(t, i, 1)
      BY <1>1, <1>4, <1>6 DEF Held
  <2>2. 1 \in 1..i
      BY <1>1
  <2> QED
      BY <1>2, <1>3, <2>1, <2>2
<1> QED
    BY <1>5, <1>6

\* The same for the steps that need a step before them.
LEMMA PutGuarded ==
    ASSUME NEW c \in Seq(Steps), c # <<>>, NEW S, NEW s, Guarded(Tail(c), S, s), Head(c) \notin S
    PROVE  Guarded(c, S, s)
<1> DEFINE u == Tail(c)
           n == Len(u)
<1>1. Head(c) = c[1] /\ n \in Nat /\ Len(c) = n + 1 /\ \A i \in 1..n : u[i] = c[i + 1]
    BY Rest
<1>2. \A i \in 1..n : u[i] \in S => \E j \in 1..(i - 1) : u[j] = s
    BY DEF Guarded
<1> HIDE DEF u, n
<1> SUFFICES ASSUME NEW i \in 1..Len(c), c[i] \in S
             PROVE  \E j \in 1..(i - 1) : c[j] = s
    BY DEF Guarded
<1>3. i # 1
    BY <1>1
<1>4. i - 1 \in 1..n /\ (i - 1) + 1 = i
    BY <1>1, <1>3
<1>5. u[i - 1] \in S
    BY <1>1, <1>4
<1>6. PICK j \in 1..((i - 1) - 1) : u[j] = s
    BY <1>2, <1>4, <1>5
<1>7. j \in 1..n /\ j + 1 \in 1..(i - 1)
    BY <1>1, <1>4
<1> QED
    BY <1>1, <1>6, <1>7

LEMMA PutHeld ==
    ASSUME NEW c \in Seq(Steps), c # <<>>, Held(Tail(c)), Head(c) # "snapshot"
    PROVE  Held(c)
<1> DEFINE u == Tail(c)
           n == Len(u)
<1>1. Head(c) = c[1] /\ n \in Nat /\ Len(c) = n + 1 /\ \A i \in 1..n : u[i] = c[i + 1]
    BY Rest
<1>2. \A i \in 1..n : u[i] \in CopySteps => LinkedAt(u, i) \/ Kept(u, i, 1)
    BY DEF Held
<1> HIDE DEF u, n
<1> SUFFICES ASSUME NEW i \in 1..Len(c), c[i] \in CopySteps
             PROVE  LinkedAt(c, i) \/ Kept(c, i, 1)
    BY DEF Held
<1>3. CASE i = 1
  <2>1. ~ \E k \in 1..(1 - 1) : TRUE
      OBVIOUS
  <2> QED
      BY <1>3, <2>1 DEF Kept
<1>4. CASE i # 1
  <2>1. i - 1 \in 1..n /\ (i - 1) + 1 = i /\ u[i - 1] \in CopySteps
    <3>1. i - 1 \in 1..n /\ (i - 1) + 1 = i
        BY <1>1, <1>4
    <3> QED
        BY <1>1, <3>1
  <2>2. CASE LinkedAt(u, i - 1)
    <3>1. PICK j \in 1..((i - 1) - 1) : u[j] \in Linkers /\ Kept(u, i - 1, j)
        BY <2>2 DEF LinkedAt
    <3>2. j \in 1..n /\ j + 1 \in 1..(i - 1)
        BY <1>1, <2>1
    <3>3. \A k \in (j + 1)..(i - 1) : k - 1 \in j..((i - 1) - 1) /\ k - 1 \in 1..n /\ (k - 1) + 1 = k
        BY <1>1, <2>1, <3>2
    <3>4. \A k \in (j + 1)..(i - 1) : c[k] = u[k - 1]
        BY <1>1, <3>3
    <3>5. Kept(c, i, j + 1)
        BY <3>1, <3>3, <3>4 DEF Kept
    <3> QED
        BY <1>1, <3>1, <3>2, <3>5 DEF LinkedAt
  <2>3. CASE Kept(u, i - 1, 1)
    <3>1. \A k \in 1..(i - 1) : k = 1 \/ (k - 1 \in 1..((i - 1) - 1) /\ k - 1 \in 1..n /\ (k - 1) + 1 = k)
        BY <1>1, <2>1
    <3>2. \A k \in 1..(i - 1) : k = 1 \/ (k - 1 \in 1..((i - 1) - 1) /\ c[k] = u[k - 1])
        BY <1>1, <3>1
    <3>3. Kept(c, i, 1)
        BY <1>1, <2>3, <3>2 DEF Kept
    <3> QED
        BY <3>3
  <2> QED
      BY <1>2, <2>1, <2>2, <2>3
<1> QED
    BY <1>3, <1>4

-----------------------------------------------------------------------------
(* The programs.                                                           *)

\* A list that needs nothing at its start.
Whole(t) ==
    /\ t \in Seq(Steps) /\ Within(t, ProgramSteps)
    /\ Unlinked(t) /\ Keyless(t) /\ Unshown(t)

Has(t, s) == \E i \in 1..Len(t) : t[i] = s
EndsLinked(t) == t # <<>> /\ t[Len(t)] = "link"

\* Two lists, one after the other: the second may need what the first leaves.
LEMMA Joined ==
    ASSUME NEW a, Whole(a), a # <<>>, NEW b \in Seq(Steps), b # <<>>, Within(b, ProgramSteps),
           \/ Unlinked(b)
           \/ EndsLinked(a) /\ \A i \in 2..Len(b) : b[i] \notin CopySteps,
           Keyless(b) \/ Has(a, "fresh"),
           Unshown(b) \/ Has(a, "snapshot")
    PROVE  /\ Whole(a \o b) /\ a \o b # <<>> /\ Head(a \o b) = Head(a)
           /\ EndsLinked(b) => EndsLinked(a \o b)
           /\ \A s : Has(a, s) \/ Has(b, s) => Has(a \o b, s)
<1> DEFINE c == a \o b
           m == Len(a)
           n == Len(b)
<1>1. a \in Seq(Steps) /\ m \in Nat \ {0} /\ n \in Nat \ {0}
    BY LenProperties, EmptySeq DEF Whole
<1>2. /\ c \in Seq(Steps) /\ Len(c) = m + n
      /\ \A i \in 1..m + n : c[i] = IF i <= m THEN a[i] ELSE b[i - m]
    BY <1>1, ConcatProperties
<1> HIDE DEF c, m, n
<1>3. \A i \in 1..m : i \in 1..Len(c) /\ c[i] = a[i]
    BY <1>1, <1>2
<1>4. \A i \in 1..n : m + i \in 1..Len(c) /\ c[m + i] = b[i]
  <2>1. ASSUME NEW i \in 1..n
        PROVE  m + i \in 1..m + n /\ ~(m + i <= m) /\ (m + i) - m = i
      BY <1>1
  <2> QED
      BY <1>2, <2>1
<1>5. \A i \in 1..Len(c) : i \in 1..m \/ (i - m \in 1..n /\ m + (i - m) = i /\ i \notin 1..m)
    BY <1>1, <1>2
<1>6. Within(c, ProgramSteps)
    BY <1>3, <1>4, <1>5 DEF Whole, Within, m, n
<1>7. ASSUME NEW S, NEW s, Guarded(a, S, s), Guarded(b, S, s) \/ Has(a, s)
      PROVE  Guarded(c, S, s)
  <2> SUFFICES ASSUME NEW i \in 1..Len(c), c[i] \in S
               PROVE  \E j \in 1..(i - 1) : c[j] = s
      BY DEF Guarded
  <2>1. CASE i \in 1..m
    <3>1. PICK j \in 1..(i - 1) : a[j] = s
        BY <1>3, <1>7, <2>1 DEF Guarded, m
    <3>2. j \in 1..m
        BY <1>1, <2>1
    <3> QED
        BY <1>3, <3>1, <3>2
  <2>2. CASE i \notin 1..m
    <3>1. i - m \in 1..n /\ m + (i - m) = i
        BY <1>5, <2>2
    <3>2. b[i - m] \in S
        BY <1>4, <3>1
    <3>3. CASE Has(a, s)
      <4>1. PICK j \in 1..m : a[j] = s
          BY <3>3 DEF Has, m
      <4>2. j \in 1..(i - 1)
          BY <1>1, <3>1
      <4> QED
          BY <1>3, <4>1, <4>2
    <3>4. CASE Guarded(b, S, s)
      <4>1. PICK j \in 1..((i - m) - 1) : b[j] = s
          BY <3>1, <3>2, <3>4 DEF Guarded, n
      <4>2. j \in 1..n /\ m + j \in 1..(i - 1)
          BY <1>1, <3>1
      <4> QED
          BY <1>4, <4>1, <4>2
    <3> QED
        BY <1>7, <3>3, <3>4
  <2> QED
      BY <2>1, <2>2
<1>8. Unlinked(c)
  <2> SUFFICES ASSUME NEW i \in 1..Len(c), c[i] \in CopySteps
               PROVE  LinkedAt(c, i)
      BY DEF Unlinked
  <2>1. CASE i \in 1..m
    <3>1. PICK j \in 1..(i - 1) : a[j] \in Linkers /\ Kept(a, i, j)
        BY <1>3, <2>1 DEF Whole, Unlinked, LinkedAt, m
    <3>2. j \in 1..m /\ \A k \in j..(i - 1) : k \in 1..m
        BY <1>1, <2>1
    <3>3. Kept(c, i, j)
        BY <1>3, <3>1, <3>2 DEF Kept
    <3> QED
        BY <1>3, <3>1, <3>2, <3>3 DEF LinkedAt
  <2>2. CASE i \notin 1..m
    <3>1. i - m \in 1..n /\ m + (i - m) = i
        BY <1>5, <2>2
    <3>2. b[i - m] \in CopySteps
        BY <1>4, <3>1
    <3>3. CASE Unlinked(b)
      <4>1. PICK j \in 1..((i - m) - 1) : b[j] \in Linkers /\ Kept(b, i - m, j)
          BY <3>1, <3>2, <3>3 DEF Unlinked, LinkedAt, n
      <4>2. j \in 1..n /\ m + j \in 1..(i - 1)
          BY <1>1, <3>1
      <4>3. \A k \in (m + j)..(i - 1) : k - m \in j..((i - m) - 1) /\ k - m \in 1..n /\ m + (k - m) = k
          BY <1>1, <3>1, <4>2
      <4>4. \A k \in (m + j)..(i - 1) : c[k] = b[k - m]
          BY <1>4, <4>3
      <4>5. Kept(c, i, m + j)
          BY <4>1, <4>3, <4>4 DEF Kept
      <4> QED
          BY <1>4, <4>1, <4>2, <4>5 DEF LinkedAt
    <3>4. CASE EndsLinked(a) /\ \A k \in 2..Len(b) : b[k] \notin CopySteps
      <4>1. i - m \notin 2..n
          BY <3>2, <3>4 DEF n
      <4>2. i - 1 = m /\ m \in 1..(i - 1) /\ m \in 1..m
          BY <1>1, <3>1, <4>1
      <4>3. c[m] = "link" /\ "link" \in Linkers /\ "link" # "snapshot"
          BY <1>3, <3>4, <4>2 DEF EndsLinked, Linkers, m
      <4>4. \A k \in m..(i - 1) : k = m
          BY <1>1, <4>2
      <4>5. Kept(c, i, m)
          BY <4>3, <4>4 DEF Kept
      <4> QED
          BY <4>2, <4>3, <4>5 DEF LinkedAt
    <3> QED
        BY <3>3, <3>4
  <2> QED
      BY <2>1, <2>2
<1>9. Keyless(c) /\ Unshown(c)
    BY <1>7 DEF Whole, Keyless, Unshown
<1>10. c # <<>> /\ Head(c) = Head(a)
  <2>1. 1 \in 1..m /\ Len(c) # 0
      BY <1>1, <1>2
  <2>2. c # <<>>
      BY <1>2, <2>1, EmptySeq
  <2>3. Head(c) = c[1] /\ Head(a) = a[1]
      BY <1>1, <1>2, <2>2, Rest
  <2> QED
      BY <1>3, <2>1, <2>2, <2>3
<1>11. ASSUME EndsLinked(b)
       PROVE  EndsLinked(c)
  <2>1. n \in 1..n /\ c[m + n] = b[n]
      BY <1>1, <1>4
  <2> QED
      BY <1>2, <1>10, <1>11, <2>1 DEF EndsLinked, n
<1>12. ASSUME NEW s, Has(a, s) \/ Has(b, s)
       PROVE  Has(c, s)
    BY <1>3, <1>4, <1>12 DEF Has, m, n
<1>13. Whole(c)
    BY <1>2, <1>6, <1>8, <1>9 DEF Whole
<1> QED
    BY <1>10, <1>11, <1>12, <1>13 DEF c

\* Lists of one and two steps.
LEMMA Short ==
    ASSUME NEW s \in ProgramSteps
    PROVE  /\ <<s>> \in Seq(Steps) /\ <<s>> # <<>> /\ Head(<<s>>) = s /\ Tail(<<s>>) = <<>>
           /\ Within(<<s>>, ProgramSteps) /\ Has(<<s>>, s)
           /\ \A i \in 2..Len(<<s>>) : <<s>>[i] \notin CopySteps
           /\ s \notin CopySteps => Unlinked(<<s>>)
           /\ s \notin KeySteps => Keyless(<<s>>)
           /\ s # "apply" => Unshown(<<s>>)
           /\ s \notin CopySteps \cup KeySteps \cup {"apply"} => Whole(<<s>>)
           /\ s = "link" => EndsLinked(<<s>>)
<1> DEFINE t == <<s>>
<1>1. t \in Seq(Steps) /\ t # <<>> /\ Len(t) = 1 /\ t[1] = s /\ Head(t) = s /\ Tail(t) = <<>>
    BY DEF Steps
<1> HIDE DEF t
<1>2. \A i \in 1..Len(t) : i = 1
    BY <1>1
<1>3. ~ \E i \in 2..Len(t) : TRUE
    BY <1>1
<1>4. 1 \in 1..Len(t)
    BY <1>1
<1>5. Within(t, ProgramSteps) /\ Has(t, s)
    BY <1>1, <1>2, <1>4 DEF Within, Has
<1>6. /\ s \notin CopySteps => Unlinked(t)
      /\ s \notin KeySteps => Keyless(t)
      /\ s # "apply" => Unshown(t)
    BY <1>1, <1>2 DEF Unlinked, Keyless, Unshown, Guarded
<1>7. s = "link" => EndsLinked(t)
    BY <1>1 DEF EndsLinked
<1> QED
    BY <1>1, <1>3, <1>5, <1>6, <1>7 DEF Whole, t

\* A whole list, and one step or another whole list after it.
LEMMA Further ==
    ASSUME NEW a, Whole(a), a # <<>>, NEW s \in ProgramSteps,
           s \in CopySteps => EndsLinked(a),
           s \in KeySteps => Has(a, "fresh"),
           s = "apply" => Has(a, "snapshot")
    PROVE  /\ Whole(a \o <<s>>) /\ a \o <<s>> # <<>> /\ Head(a \o <<s>>) = Head(a)
           /\ s = "link" => EndsLinked(a \o <<s>>)
           /\ Has(a \o <<s>>, s)
           /\ \A z : Has(a, z) => Has(a \o <<s>>, z)
<1>1. /\ <<s>> \in Seq(Steps) /\ <<s>> # <<>> /\ Within(<<s>>, ProgramSteps) /\ Has(<<s>>, s)
      /\ \A i \in 2..Len(<<s>>) : <<s>>[i] \notin CopySteps
      /\ s \notin CopySteps => Unlinked(<<s>>)
      /\ s \notin KeySteps => Keyless(<<s>>)
      /\ s # "apply" => Unshown(<<s>>)
      /\ s = "link" => EndsLinked(<<s>>)
    BY Short
<1> QED
    BY <1>1, Joined

LEMMA Together ==
    ASSUME NEW a, Whole(a), a # <<>>, NEW b, Whole(b), b # <<>>
    PROVE  /\ Whole(a \o b) /\ a \o b # <<>> /\ Head(a \o b) = Head(a)
           /\ EndsLinked(b) => EndsLinked(a \o b)
           /\ \A z : Has(a, z) \/ Has(b, z) => Has(a \o b, z)
BY Joined DEF Whole

\* The parts of the programs.
LEMMA Parts ==
    /\ Whole(EnsureRuntime) /\ EnsureRuntime # <<>>
    /\ Whole(EnsureLegacyInstance) /\ EnsureLegacyInstance # <<>> /\ EndsLinked(EnsureLegacyInstance)
    /\ \A p \in {RuntimeSnapshot, RuntimeConnect, RuntimeDisconnect, RuntimeReconnect, RuntimeLogout,
                 RuntimePair, RuntimeQRCode, RuntimeUpdateSettings} :
          Whole(p) /\ p # <<>> /\ Has(p, "snapshot")
    /\ \A p \in {RequestHistorySync, RuntimeGetSettings, RuntimeSearchChats} : Whole(p) /\ p # <<>>
<1> DEFINE L == EnsureLegacyInstance
           R == EnsureRuntime
<1>1. Whole(L) /\ L # <<>> /\ EndsLinked(L) /\ Whole(R) /\ R # <<>>
    BY Short DEF EnsureLegacyInstance, EnsureRuntime, ProgramSteps, CopySteps, KeySteps
<1> HIDE DEF L, R
<1>2. \A s \in {"snapshot", "connect", "disconnect", "reconnect", "logout", "qr", "call", "query"} :
         /\ s \in ProgramSteps /\ s \notin KeySteps /\ s # "apply"
         /\ Whole(L \o <<s>>) /\ L \o <<s>> # <<>> /\ Has(L \o <<s>>, s)
    BY <1>1, Further DEF ProgramSteps, KeySteps
<1>3. Whole(RuntimeSnapshot) /\ RuntimeSnapshot # <<>> /\ Has(RuntimeSnapshot, "snapshot")
    BY <1>2 DEF RuntimeSnapshot, L
<1>4. ASSUME NEW s \in {"connect", "disconnect", "reconnect", "logout", "call"}
      PROVE  LET p == L \o <<s>> \o RuntimeSnapshot
             IN  Whole(p) /\ p # <<>> /\ Has(p, "snapshot")
    BY <1>2, <1>3, Together
<1>5. ASSUME NEW s \in {"pair", "qr"}
      PROVE  LET p == L \o <<s, "snapshot">>
             IN  Whole(p) /\ p # <<>> /\ Has(p, "snapshot")
  <2> DEFINE b == <<s, "snapshot">>
  <2>1. b \in Seq(Steps) /\ b # <<>> /\ Len(b) = 2 /\ b[1] = s /\ b[2] = "snapshot"
      BY DEF Steps, ProgramSteps
  <2> HIDE DEF b
  <2>2. \A i \in 1..Len(b) : b[i] \in {s, "snapshot"}
    <3>1. \A i \in 1..Len(b) : i = 1 \/ i = 2
        BY <2>1
    <3> QED
        BY <2>1, <3>1
  <2>3. Within(b, ProgramSteps) /\ Keyless(b) /\ Unshown(b)
      BY <2>2 DEF Within, Keyless, Unshown, Guarded, ProgramSteps, KeySteps
  <2>4. \A i \in 2..Len(b) : b[i] \notin CopySteps
    <3>1. \A i \in 2..Len(b) : i = 2
        BY <2>1
    <3> QED
        BY <2>1, <3>1 DEF CopySteps
  <2>5. Has(b, "snapshot")
    <3>1. 2 \in 1..Len(b)
        BY <2>1
    <3> QED
        BY <2>1, <3>1 DEF Has
  <2>6. Whole(L \o b) /\ L \o b # <<>> /\ Has(L \o b, "snapshot")
      BY <1>1, <2>1, <2>3, <2>4, <2>5, Joined
  <2> QED
      BY <2>6 DEF b
<1>6. /\ RuntimeConnect = L \o <<"connect">> \o RuntimeSnapshot
      /\ RuntimeDisconnect = L \o <<"disconnect">> \o RuntimeSnapshot
      /\ RuntimeReconnect = L \o <<"reconnect">> \o RuntimeSnapshot
      /\ RuntimeLogout = L \o <<"logout">> \o RuntimeSnapshot
      /\ RuntimeUpdateSettings = L \o <<"call">> \o RuntimeSnapshot
      /\ RuntimePair = L \o <<"pair", "snapshot">>
      /\ RuntimeQRCode = L \o <<"qr", "snapshot">>
      /\ RequestHistorySync = L \o <<"call">>
      /\ RuntimeGetSettings = L \o <<"call">>
      /\ RuntimeSearchChats = L \o <<"query">>
    BY DEF RuntimeConnect, RuntimeDisconnect, RuntimeReconnect, RuntimeLogout, RuntimeUpdateSettings,
           RuntimePair, RuntimeQRCode, RequestHistorySync, RuntimeGetSettings, RuntimeSearchChats, L
<1>7. \A p \in {RuntimeConnect, RuntimeDisconnect, RuntimeReconnect, RuntimeLogout,
                RuntimeUpdateSettings, RuntimePair, RuntimeQRCode} :
         Whole(p) /\ p # <<>> /\ Has(p, "snapshot")
    BY <1>4, <1>5, <1>6
<1>8. \A p \in {RequestHistorySync, RuntimeGetSettings, RuntimeSearchChats} : Whole(p) /\ p # <<>>
    BY <1>2, <1>6
<1> QED
    BY <1>1, <1>3, <1>7, <1>8 DEF L, R

\* A program needs nothing, not even the row of the instance, at its start.
GoodProgram(p) ==
    /\ p \in Seq(Steps) /\ p # <<>> /\ Within(Tail(p), ProgramSteps)
    /\ Unlinked(p) /\ Keyless(p) /\ Unshown(p)
    /\ Head(p) \in Openers
    /\ Head(p) = "delete" => Tail(p) = <<>>

Plain == ProgramSteps \ (CopySteps \cup KeySteps \cup {"apply"})

LEMMA Beginnings ==
    /\ \A s \in Plain, z \in Plain : Whole(<<s, z>>) /\ <<s, z>> # <<>> /\ Head(<<s, z>>) = s
    /\ LET p == <<"load", "fresh", "throttled", "begin">>
       IN  Whole(p) /\ p # <<>> /\ Head(p) = "load" /\ Has(p, "fresh")
<1>1. ASSUME NEW s \in Plain, NEW z \in Plain
      PROVE  Whole(<<s, z>>) /\ <<s, z>> # <<>> /\ Head(<<s, z>>) = s
  <2> DEFINE b == <<s, z>>
  <2>1. b \in Seq(Steps) /\ b # <<>> /\ Len(b) = 2 /\ b[1] = s /\ b[2] = z /\ Head(b) = s
      BY DEF Steps, Plain
  <2> HIDE DEF b
  <2>2. \A i \in 1..Len(b) : b[i] \in Plain
    <3>1. \A i \in 1..Len(b) : i = 1 \/ i = 2
        BY <2>1
    <3> QED
        BY <2>1, <3>1
  <2>3. Whole(b)
      BY <2>1, <2>2 DEF Whole, Within, Unlinked, Keyless, Unshown, Guarded, Plain
  <2> QED
      BY <2>1, <2>3 DEF b
<1>2. LET p == <<"load", "fresh", "throttled", "begin">>
      IN  Whole(p) /\ p # <<>> /\ Head(p) = "load" /\ Has(p, "fresh")
  <2> DEFINE p == <<"load", "fresh", "throttled", "begin">>
  <2>1. /\ p \in Seq(Steps) /\ p # <<>> /\ Len(p) = 4 /\ Head(p) = "load"
        /\ p[1] = "load" /\ p[2] = "fresh" /\ p[3] = "throttled" /\ p[4] = "begin"
      BY DEF Steps, ProgramSteps
  <2> HIDE DEF p
  <2>2. \A i \in 1..Len(p) : i = 1 \/ i = 2 \/ (i \in {3, 4} /\ 2 \in 1..(i - 1))
      BY <2>1
  <2>3. Within(p, ProgramSteps) /\ Unlinked(p) /\ Unshown(p)
      BY <2>1, <2>2 DEF Within, Unlinked, Unshown, Guarded, ProgramSteps, CopySteps
  <2>4. Keyless(p)
      BY <2>1, <2>2 DEF Keyless, Guarded, KeySteps
  <2>5. Has(p, "fresh")
    <3>1. 2 \in 1..Len(p)
        BY <2>1
    <3> QED
        BY <2>1, <3>1 DEF Has
  <2> QED
      BY <2>1, <2>3, <2>4, <2>5 DEF Whole, p
<1> QED
    BY <1>1, <1>2

LEMMA Programs ==
    /\ \A op \in OperationNames : GoodProgram(Program[op])
    /\ GoodProgram(Reconnect)
<1> DEFINE R == EnsureRuntime
           L == EnsureLegacyInstance
           S == <<"load">> \o R
           W == RuntimeSnapshot
<1>1. /\ {"load", "insert", "adopt", "anchor", "setWebhook", "call", "link", "runtime"}
            \subseteq Plain
      /\ {"apply", "store", "setEngine"} \subseteq ProgramSteps
      /\ Plain \subseteq ProgramSteps
      /\ "setEngine" \notin KeySteps /\ "apply" \notin CopySteps \cup KeySteps /\ "store" \notin CopySteps
      /\ {"load", "insert"} \subseteq Openers
    BY DEF Plain, ProgramSteps, CopySteps, KeySteps, Openers
<1>2. Whole(<<"load">>) /\ <<"load">> # <<>> /\ Head(<<"load">>) = "load"
    BY <1>1, Short DEF Plain
<1>3. /\ Whole(R) /\ R # <<>> /\ Whole(L) /\ L # <<>> /\ EndsLinked(L)
      /\ Whole(W) /\ W # <<>> /\ Has(W, "snapshot")
    BY Parts
<1>4. ASSUME NEW a, Whole(a), a # <<>>, Has(a, "snapshot")
      PROVE  Whole(a \o <<"apply">>) /\ a \o <<"apply">> # <<>> /\ Head(a \o <<"apply">>) = Head(a)
    BY <1>1, <1>4, Further
<1>5. Whole(S) /\ S # <<>> /\ Head(S) = "load"
    BY <1>2, <1>3, Together
<1>6. ASSUME NEW a, Whole(a), a # <<>>, Head(a) \in {"load", "insert"}
      PROVE  GoodProgram(a)
    BY <1>6, RestWithin DEF GoodProgram, Openers, Whole
<1> HIDE DEF R, L, S, W
<1>7. ASSUME NEW X, Whole(X), X # <<>>
      PROVE  Whole(S \o X) /\ S \o X # <<>> /\ Head(S \o X) = "load" /\ (Has(X, "snapshot") => Has(S \o X, "snapshot"))
    BY <1>5, <1>7, Together
<1>8. ASSUME NEW X, Whole(X), X # <<>>, Has(X, "snapshot")
      PROVE  GoodProgram(S \o X \o <<"apply">>) /\ Whole(S \o X \o <<"apply">>)
             /\ S \o X \o <<"apply">> # <<>> /\ Head(S \o X \o <<"apply">>) = "load"
    BY <1>4, <1>6, <1>7, <1>8
<1>9. /\ GoodProgram(Connect) /\ GoodProgram(Disconnect) /\ GoodProgram(Reconnect)
      /\ GoodProgram(Logout) /\ GoodProgram(Status) /\ GoodProgram(QRCode) /\ GoodProgram(Pair)
    BY <1>8, Parts DEF Connect, Disconnect, Reconnect, Logout, Status, QRCode, Pair, S, R
<1>10. GoodProgram(RuntimeStatus) /\ GoodProgram(GetAdvancedSettings)
    BY <1>6, <1>7, Parts DEF RuntimeStatus, GetAdvancedSettings, S, R
<1>11. GoodProgram(UpdateAdvancedSettings)
  <2> DEFINE U == S \o RuntimeUpdateSettings \o <<"apply">>
  <2>1. Whole(U) /\ U # <<>> /\ Head(U) = "load"
      BY <1>8, Parts
  <2> HIDE DEF U
  <2>2. Whole(U \o RuntimeGetSettings) /\ U \o RuntimeGetSettings # <<>> /\ Head(U \o RuntimeGetSettings) = "load"
      BY <2>1, Parts, Together
  <2> QED
      BY <1>6, <2>2 DEF UpdateAdvancedSettings, U, S, R
<1>12. GoodProgram(Create)
  <2> DEFINE A == <<"insert", "adopt">>
  <2>1. Whole(A) /\ A # <<>> /\ Head(A) = "insert"
      BY <1>1, Beginnings
  <2> HIDE DEF A
  <2>2. Whole(A \o R) /\ A \o R # <<>> /\ Head(A \o R) = "insert"
      BY <1>3, <2>1, Together
  <2>3. Whole(A \o R \o W) /\ A \o R \o W # <<>> /\ Head(A \o R \o W) = "insert"
      BY <1>3, <2>2, Together
  <2> QED
      BY <1>6, <2>3 DEF Create, A, R, W
<1>13. GoodProgram(Delete)
  <2> DEFINE D == <<"delete">>
  <2>1. /\ D \in Seq(Steps) /\ D # <<>> /\ Head(D) = "delete" /\ Tail(D) = <<>>
        /\ Len(D) = 1 /\ D[1] = "delete"
      BY DEF Steps
  <2> HIDE DEF D
  <2>2. (\A i \in 1..Len(D) : i = 1) /\ Len(<<>>) = 0 /\ ~ \E i \in 1..0 : TRUE
      BY <2>1, EmptySeq
  <2>3. Within(Tail(D), ProgramSteps)
      BY <2>1, <2>2 DEF Within
  <2>4. Unlinked(D) /\ Keyless(D) /\ Unshown(D)
      BY <2>1, <2>2 DEF Unlinked, Keyless, Unshown, Guarded, CopySteps, KeySteps
  <2> QED
      BY <2>1, <2>3, <2>4 DEF GoodProgram, Delete, Openers, D
<1>14. GoodProgram(BackfillHistory)
  <2> DEFINE A == <<"load", "anchor">>
             H == RequestHistorySync
  <2>1. Whole(A) /\ A # <<>> /\ Head(A) = "load" /\ Whole(H) /\ H # <<>>
      BY <1>1, Beginnings, Parts
  <2> HIDE DEF A, H
  <2>2. Whole(A \o R) /\ A \o R # <<>> /\ Head(A \o R) = "load"
      BY <1>3, <2>1, Together
  <2>3. Whole(A \o R \o H) /\ A \o R \o H # <<>> /\ Head(A \o R \o H) = "load"
      BY <2>1, <2>2, Together
  <2>4. Whole(A \o R \o H \o R) /\ A \o R \o H \o R # <<>> /\ Head(A \o R \o H \o R) = "load"
      BY <1>3, <2>3, Together
  <2>5. Whole(A \o R \o H \o R \o W) /\ A \o R \o H \o R \o W # <<>> /\ Head(A \o R \o H \o R \o W) = "load"
      BY <1>3, <2>4, Together
  <2> QED
      BY <1>6, <2>5 DEF BackfillHistory, A, H, R, W
<1>15. GoodProgram(SetWebhook)
  <2> DEFINE A == <<"load", "setWebhook">>
             E == <<"setEngine">>
  <2>1. Whole(A) /\ A # <<>> /\ Head(A) = "load"
      BY <1>1, Beginnings
  <2> HIDE DEF A
  <2>2. Whole(A \o R) /\ A \o R # <<>> /\ Head(A \o R) = "load"
      BY <1>3, <2>1, Together
  <2>3. Whole(A \o R \o L) /\ A \o R \o L # <<>> /\ Head(A \o R \o L) = "load" /\ EndsLinked(A \o R \o L)
      BY <1>3, <2>2, Together
  <2>4. Whole(A \o R \o L \o E) /\ A \o R \o L \o E # <<>> /\ Head(A \o R \o L \o E) = "load"
      BY <1>1, <2>3, Further
  <2> HIDE DEF E
  <2>5. /\ Whole(A \o R \o L \o E \o W) /\ A \o R \o L \o E \o W # <<>>
        /\ Head(A \o R \o L \o E \o W) = "load" /\ Has(A \o R \o L \o E \o W, "snapshot")
      BY <1>3, <2>4, Together
  <2>6. GoodProgram(A \o R \o L \o E \o W \o <<"apply">>)
      BY <1>4, <1>6, <2>5
  <2> QED
      BY <2>6 DEF SetWebhook, A, E, R, L, W
<1>16. GoodProgram(SetConnector) /\ GoodProgram(SetProxyConfig)
  <2>1. Whole(S \o L) /\ S \o L # <<>> /\ Head(S \o L) = "load" /\ EndsLinked(S \o L)
      BY <1>3, <1>5, Together
  <2>2. ASSUME NEW s \in {"setEngine", "call"}
        PROVE  GoodProgram(S \o L \o <<s>>)
    <3>1. s \in ProgramSteps /\ s \notin KeySteps /\ s # "apply"
        BY DEF ProgramSteps, KeySteps
    <3> QED
        BY <1>6, <2>1, <3>1, Further
  <2> QED
      BY <2>2 DEF SetConnector, SetProxyConfig, ResolveLegacyInstance, S, R, L
<1>17. GoodProgram(SearchChats)
  <2> DEFINE A == <<"load", "fresh", "throttled", "begin">>
             Q == RuntimeSearchChats
  <2>1. Whole(A) /\ A # <<>> /\ Head(A) = "load" /\ Has(A, "fresh") /\ Whole(Q) /\ Q # <<>>
      BY Beginnings, Parts
  <2> HIDE DEF A, Q
  <2>2. Whole(A \o R) /\ A \o R # <<>> /\ Head(A \o R) = "load" /\ Has(A \o R, "fresh")
      BY <1>3, <2>1, Together
  <2>3. /\ Whole(A \o R \o Q) /\ A \o R \o Q # <<>> /\ Head(A \o R \o Q) = "load"
        /\ Has(A \o R \o Q, "fresh")
      BY <2>1, <2>2, Together
  <2>4. GoodProgram(A \o R \o Q \o <<"store">>)
      BY <1>1, <1>6, <2>3, Further
  <2> QED
      BY <2>4 DEF SearchChats, A, Q, R
<1>18. /\ Program.create = Create /\ Program.delete = Delete /\ Program.connect = Connect
       /\ Program.disconnect = Disconnect /\ Program.reconnect = Reconnect /\ Program.logout = Logout
       /\ Program.status = Status /\ Program.qrcode = QRCode /\ Program.pair = Pair
       /\ Program.runtimeStatus = RuntimeStatus /\ Program.backfill = BackfillHistory
       /\ Program.setWebhook = SetWebhook /\ Program.getSettings = GetAdvancedSettings
       /\ Program.updateSettings = UpdateAdvancedSettings /\ Program.setConnector = SetConnector
       /\ Program.setProxy = SetProxyConfig /\ Program.searchChats = SearchChats
    BY DEF Program
<1> QED
    BY <1>9, <1>10, <1>11, <1>12, <1>13, <1>14, <1>15, <1>16, <1>17, <1>18 DEF OperationNames

-----------------------------------------------------------------------------
(* What a request becomes.                                                 *)

LEMMA Nones ==
    /\ None \notin Actors /\ None \notin Keys /\ None \notin Hooks
    /\ None \notin Row /\ None \notin EngineRow /\ None \notin EngineCopy
BY InstanceAssumption, NoneAssumption DEF Actors

LEMMA IdleFits == Idle \in Task /\ Fits(Idle) /\ ~Builds(Idle) /\ Idle.engine = None
<1>1. /\ Idle.todo = <<>> /\ Idle.engine = None /\ Idle.row = None
      /\ Idle.op = "none" /\ Idle.shown = "none" /\ Idle.key = None
    BY DEF Idle
<1>2. Idle \in Task
  <2>1. ASSUME NEW t \in Seq(Steps)
        PROVE  [op |-> "none", todo |-> t, row |-> None, engine |-> None,
                shown |-> "none", key |-> None] \in Task
      BY DEF Task
  <2>2. <<>> \in Seq(Steps)
      BY EmptySeq
  <2> QED
      BY <2>1, <2>2 DEF Idle
<1>3. Unlinked(<<>>) /\ Held(<<>>) /\ Keyless(<<>>) /\ Unshown(<<>>)
  <2>1. Len(<<>>) = 0 /\ ~ \E i \in 1..0 : TRUE
      BY EmptySeq
  <2> QED
      BY <2>1 DEF Unlinked, Held, Keyless, Unshown, Guarded
<1> QED
    BY <1>1, <1>2, <1>3 DEF Fits, Builds

\* The first step is done.
LEMMA DoneFits ==
    ASSUME NEW x \in Task, Fits(x), x.todo # <<>>, NEW y \in Task, y.todo = Tail(x.todo),
           Head(x.todo) \notin Linkers,
           y.row # None \/ Head(x.todo) = "delete",
           y.engine = None => x.engine = None \/ Head(x.todo) = "snapshot",
           y.key = None => x.key = None /\ Head(x.todo) # "fresh",
           y.shown = "none" => x.shown = "none" /\ Head(x.todo) # "snapshot"
    PROVE  y.todo # <<>> => Fits(y) /\ ~Builds(y)
<1> DEFINE t == x.todo
           u == y.todo
<1>1. t \in Seq(Steps) /\ t # <<>> /\ u = Tail(t) /\ u \in Seq(Steps)
    BY DEF Task
<1>2. /\ Within(u, ProgramSteps) /\ (Head(t) = "delete" => u = <<>>)
      /\ Held(t) /\ (x.engine = None => Unlinked(t))
      /\ x.key = None => Keyless(t)
      /\ x.shown = "none" => Unshown(t)
    BY <1>1 DEF Fits
<1>3. ASSUME u # <<>>
      PROVE  Head(u) \in ProgramSteps /\ Within(Tail(u), ProgramSteps) /\ y.row # None
    BY <1>1, <1>2, <1>3, RestWithin
<1>4. Held(u) /\ (y.engine = None => Unlinked(u))
    BY <1>1, <1>2, RestLinked
<1>5. y.key = None => Keyless(u)
    BY <1>1, <1>2, RestGuarded DEF Keyless
<1>6. y.shown = "none" => Unshown(u)
    BY <1>1, <1>2, RestGuarded DEF Unshown
<1>7. ASSUME u # <<>>
      PROVE  Head(u) \notin {"build"} /\ (Head(u) = "delete" => Tail(u) = <<>>)
    BY <1>3, <1>7 DEF ProgramSteps
<1> QED
    BY <1>3, <1>4, <1>5, <1>6, <1>7 DEF Fits, Builds

\* A step takes the place of the first one.
LEMMA SwapFits ==
    ASSUME NEW x \in Task, Fits(x), x.todo # <<>>, NEW s,
           <<Head(x.todo), s>> \in {<<"runtime", "lock">>, <<"lock", "build">>, <<"link", "createEngine">>}
    PROVE  LET y == [x EXCEPT !.todo = <<s>> \o Tail(x.todo)]
           IN  /\ y \in Task /\ y.todo # <<>> /\ y.engine = x.engine
               /\ Fits(y) /\ (Builds(y) <=> s = "build")
<1> DEFINE t == x.todo
           c == <<s>> \o Tail(t)
           y == [x EXCEPT !.todo = c]
<1>1. t \in Seq(Steps) /\ t # <<>> /\ Tail(t) \in Seq(Steps)
    BY Rest DEF Task
<1>2. /\ s \in Steps /\ s \notin CopySteps \cup KeySteps \cup {"apply", "snapshot", "fresh", "delete"}
      /\ Head(t) \notin {"fresh", "snapshot"} \cup Openers \cup {"stale"}
      /\ Head(t) \in Linkers => s \in Linkers
    BY DEF Steps, CopySteps, KeySteps, Openers, Linkers
<1>3. c \in Seq(Steps) /\ c # <<>> /\ Head(c) = s /\ Tail(c) = Tail(t)
    BY <1>1, <1>2, Put
<1> HIDE DEF c
<1>4. /\ y \in Task /\ y.todo = c /\ y.row = x.row /\ y.engine = x.engine
      /\ y.key = x.key /\ y.shown = x.shown
    BY <1>3 DEF Task
<1> HIDE DEF y
<1>5. /\ Within(Tail(t), ProgramSteps) /\ x.row # None /\ Held(t)
      /\ x.engine = None => Unlinked(t)
      /\ x.key = None => Keyless(t)
      /\ x.shown = "none" => Unshown(t)
    BY <1>2 DEF Fits
<1>6. Held(c) /\ (x.engine = None => Unlinked(c))
    BY <1>1, <1>2, <1>3, <1>5, PutLinked
<1>7. x.key = None => Keyless(c)
  <2>1. x.key = None => Guarded(Tail(t), KeySteps, "fresh")
      BY <1>1, <1>2, <1>5, RestGuarded DEF Keyless
  <2> QED
      BY <1>2, <1>3, <2>1, PutGuarded DEF Keyless
<1>8. x.shown = "none" => Unshown(c)
  <2>1. x.shown = "none" => Guarded(Tail(t), {"apply"}, "snapshot")
      BY <1>1, <1>2, <1>5, RestGuarded DEF Unshown
  <2> QED
      BY <1>2, <1>3, <2>1, PutGuarded DEF Unshown
<1>9. Fits(y) /\ (Builds(y) <=> s = "build")
    BY <1>2, <1>3, <1>4, <1>5, <1>6, <1>7, <1>8 DEF Fits, Builds
<1> QED
    BY <1>3, <1>4, <1>9 DEF y, c

\* A copy of the engine row is at hand, to be saved first or not.
LEMMA LinkedFits ==
    ASSUME NEW x \in Task, Fits(x), x.todo # <<>>, Head(x.todo) \in Linkers,
           NEW copy \in EngineCopy, NEW first \in {<<>>, <<"sync">>}
    PROVE  LET y == [x EXCEPT !.engine = copy, !.todo = first \o Tail(x.todo)]
           IN  /\ y \in Task /\ y.engine = copy
               /\ y.todo # <<>> => Fits(y) /\ ~Builds(y)
<1> DEFINE t == x.todo
           c == first \o Tail(t)
           y == [x EXCEPT !.engine = copy, !.todo = c]
<1>1. t \in Seq(Steps) /\ t # <<>> /\ Tail(t) \in Seq(Steps)
    BY Rest DEF Task
<1>2. /\ "sync" \in Steps /\ "sync" \notin KeySteps \cup {"apply", "snapshot", "fresh", "delete", "build"}
      /\ Head(t) \notin {"fresh", "snapshot"} \cup Openers \cup {"stale"}
    BY DEF Steps, KeySteps, Openers, Linkers
<1>3. \/ c = Tail(t)
      \/ c \in Seq(Steps) /\ c # <<>> /\ Head(c) = "sync" /\ Tail(c) = Tail(t)
  <2>1. CASE first = <<>>
      BY <1>1, <2>1, ConcatEmptySeq
  <2>2. CASE first = <<"sync">>
      BY <1>1, <1>2, <2>2, Put
  <2> QED
      BY <2>1, <2>2
<1> HIDE DEF c
<1>4. c \in Seq(Steps)
    BY <1>1, <1>3
<1>5. /\ y \in Task /\ y.todo = c /\ y.row = x.row /\ y.engine = copy
      /\ y.key = x.key /\ y.shown = x.shown
    BY <1>4 DEF Task
<1> HIDE DEF y
<1>6. /\ Within(Tail(t), ProgramSteps) /\ x.row # None /\ Held(t)
      /\ x.key = None => Keyless(t)
      /\ x.shown = "none" => Unshown(t)
    BY <1>2 DEF Fits
<1>7. /\ Held(Tail(t))
      /\ x.key = None => Guarded(Tail(t), KeySteps, "fresh")
      /\ x.shown = "none" => Guarded(Tail(t), {"apply"}, "snapshot")
    BY <1>1, <1>2, <1>6, RestLinked, RestGuarded DEF Keyless, Unshown
<1>8. /\ Held(c)
      /\ x.key = None => Keyless(c)
      /\ x.shown = "none" => Unshown(c)
    BY <1>2, <1>3, <1>7, PutHeld, PutGuarded DEF Keyless, Unshown
<1>9. ASSUME c # <<>>
      PROVE  /\ Within(Tail(c), ProgramSteps) /\ Head(c) \notin {"delete", "build"}
  <2>1. CASE c = Tail(t)
    <3>1. Head(c) \in ProgramSteps /\ Within(Tail(c), ProgramSteps)
        BY <1>4, <1>6, <1>9, <2>1, RestWithin
    <3> QED
        BY <3>1 DEF ProgramSteps
  <2>2. CASE Head(c) = "sync" /\ Tail(c) = Tail(t)
      BY <1>2, <1>6, <2>2
  <2> QED
      BY <1>3, <2>1, <2>2
<1>10. copy # None
    BY Nones
<1>11. c # <<>> => Fits(y) /\ ~Builds(y)
    BY <1>5, <1>6, <1>8, <1>9, <1>10 DEF Fits, Builds
<1> QED
    BY <1>5, <1>11 DEF y, c

\* Only one step is left.
LEMMA LastFits ==
    ASSUME NEW x \in Task, Fits(x), x.todo # <<>>, NEW s \in {"stale", "local"},
           s = "local" => x.row # None
    PROVE  LET y == [x EXCEPT !.todo = <<s>>]
           IN  y \in Task /\ y.engine = x.engine /\ y.todo # <<>> /\ Fits(y) /\ ~Builds(y)
<1> DEFINE c == <<s>>
           y == [x EXCEPT !.todo = c]
<1>1. c \in Seq(Steps) /\ c # <<>> /\ Head(c) = s /\ Tail(c) = <<>> /\ Len(c) = 1 /\ c[1] = s
    BY DEF Steps
<1> HIDE DEF c
<1>2. /\ y \in Task /\ y.todo = c /\ y.row = x.row /\ y.engine = x.engine
    BY <1>1 DEF Task
<1> HIDE DEF y
<1>3. (\A i \in 1..Len(c) : i = 1) /\ Len(<<>>) = 0 /\ ~ \E i \in 1..0 : TRUE
    BY <1>1, EmptySeq
<1>4. Within(Tail(c), ProgramSteps)
    BY <1>1, <1>3 DEF Within
<1>5. Unlinked(c) /\ Held(c) /\ Keyless(c) /\ Unshown(c)
    BY <1>1, <1>3 DEF Unlinked, Held, Keyless, Unshown, Guarded, CopySteps, KeySteps
<1>6. Fits(y) /\ ~Builds(y)
    BY <1>1, <1>2, <1>4, <1>5 DEF Fits, Builds
<1> QED
    BY <1>1, <1>2, <1>6 DEF y, c

-----------------------------------------------------------------------------
(* The steps of a request or of a boot worker.                             *)

\* The actor a turns into y.
Moves(a, y) ==
    /\ task' = [task EXCEPT ![a] = y] /\ y \in Task /\ Fits(y)
    /\ Builds(y) => Head(task[a].todo) = "lock"
    /\ y.engine # None => \/ task[a].engine # None /\ y.engine.id = task[a].engine.id
                          \/ engine'[y.engine.id] # None

LEMMA Turned ==
    ASSUME NEW a \in Actors, NEW z \in Task, Become(a, z), z.todo # <<>> => Fits(z),
           z.todo # <<>> /\ Builds(z) => Head(task[a].todo) = "lock",
           z.engine # None => \/ task[a].engine # None /\ z.engine.id = task[a].engine.id
                              \/ engine'[z.engine.id] # None
    PROVE  \E y : Moves(a, y)
<1>1. CASE z.todo = <<>>
    BY <1>1, IdleFits DEF Become, Moves
<1>2. CASE z.todo # <<>>
    BY <1>2 DEF Become, Moves
<1> QED
    BY <1>1, <1>2

LEMMA Ended ==
    ASSUME Types, NEW a \in Actors, Become(a, Goto(a, <<>>))
    PROVE  \E y : Moves(a, y)
<1>1. Goto(a, <<>>).todo = <<>>
    BY DEF Types, Task, Goto
<1> QED
    BY <1>1, IdleFits DEF Become, Moves

\* The first step is done.
LEMMA DoneFields ==
    ASSUME Types, NEW a \in Actors, task[a].todo # <<>>
    PROVE  LET x == task[a]
               y == Done(a)
           IN  /\ x \in Task /\ y \in Task /\ y.todo = Tail(x.todo) /\ y.op = x.op
               /\ y.row = x.row /\ y.engine = x.engine /\ y.key = x.key /\ y.shown = x.shown
<1> DEFINE x == task[a]
<1>1. x \in Task /\ x.todo \in Seq(Steps) /\ Tail(x.todo) \in Seq(Steps)
    BY Rest DEF Types, Task
<1> DEFINE u == Tail(x.todo)
<1>2. Done(a) = [x EXCEPT !.todo = u]
    BY DEF Done
<1> HIDE DEF x, u
<1>3. u \in Seq(Steps)
    BY <1>1 DEF u
<1>4. LET y == [x EXCEPT !.todo = u]
      IN  /\ y \in Task /\ y.todo = u /\ y.op = x.op
          /\ y.row = x.row /\ y.engine = x.engine /\ y.key = x.key /\ y.shown = x.shown
    BY <1>1, <1>3 DEF Task
<1> QED
    BY <1>1, <1>2, <1>4 DEF x, u

LEMMA Continued ==
    ASSUME Types, NEW a \in Actors, Fits(task[a]), task[a].todo # <<>>, Continue(a),
           Head(task[a].todo) \notin {"load", "insert", "fresh", "snapshot", "stale"} \cup Linkers
    PROVE  \E y : Moves(a, y)
<1> DEFINE x == task[a]
           y == Done(a)
<1>1. /\ x \in Task /\ y \in Task /\ y.todo = Tail(x.todo)
      /\ y.row = x.row /\ y.engine = x.engine /\ y.key = x.key /\ y.shown = x.shown
    BY DoneFields
<1>2. x.row # None \/ Head(x.todo) = "delete"
    BY DEF Fits, Openers
<1>3. y.todo # <<>> => Fits(y) /\ ~Builds(y)
    BY <1>1, <1>2, DoneFits
<1> QED
    BY <1>1, <1>3, Turned DEF Continue

LEMMA RowTaken ==
    ASSUME Types, NEW a \in Actors, Fits(task[a]), task[a].todo # <<>>, NEW r \in Row,
           Become(a, [Done(a) EXCEPT !.row = r]),
           Head(task[a].todo) \notin {"fresh", "snapshot"} \cup Linkers
    PROVE  \E y : Moves(a, y)
<1> DEFINE x == task[a]
           z == Done(a)
           y == [z EXCEPT !.row = r]
<1>1. /\ x \in Task /\ z \in Task /\ z.todo = Tail(x.todo)
      /\ z.row = x.row /\ z.engine = x.engine /\ z.key = x.key /\ z.shown = x.shown
    BY DoneFields
<1> HIDE DEF z
<1>2. /\ y \in Task /\ y.todo = Tail(x.todo)
      /\ y.row = r /\ y.engine = x.engine /\ y.key = x.key /\ y.shown = x.shown
    BY <1>1 DEF Task
<1>3. Become(a, y) /\ r # None
    BY Nones DEF z
<1> HIDE DEF y
<1>4. y.todo # <<>> => Fits(y) /\ ~Builds(y)
    BY <1>1, <1>2, <1>3, DoneFits
<1> QED
    BY <1>2, <1>3, <1>4, Turned

\* A failure.
LEMMA Failed ==
    ASSUME Types, NEW a \in Actors, Fits(task[a]), task[a].todo # <<>>, Fail(a)
    PROVE  \E y : Moves(a, y)
<1>1. CASE Become(a, Goto(a, <<>>))
    BY <1>1, Ended
<1>2. CASE Become(a, Goto(a, <<"stale">>))
  <2>1. task[a] \in Task
      BY DEF Types
  <2> DEFINE y == [task[a] EXCEPT !.todo = <<"stale">>]
  <2>2. y \in Task /\ y.engine = task[a].engine /\ y.todo # <<>> /\ Fits(y) /\ ~Builds(y)
      BY <2>1, LastFits
  <2>3. Become(a, y)
      BY <1>2 DEF Goto
  <2> HIDE DEF y
  <2> QED
      BY <2>2, <2>3, Turned
<1> QED
    BY <1>1, <1>2 DEF Fail

\* A row is saved.
LEMMA Saved ==
    ASSUME Types, NEW a \in Actors, Fits(task[a]), task[a].todo # <<>>, NEW r \in Row, SaveRow(a, r),
           Head(task[a].todo) \notin {"fresh", "snapshot"} \cup Linkers
    PROVE  (\E y : Moves(a, y)) /\ row' \in Row \cup {None}
BY RowTaken, Failed DEF SaveRow, Types

\* The copy of the engine row is at hand.
LEMMA Linking ==
    ASSUME Types, NEW a \in Actors, Fits(task[a]), task[a].todo # <<>>,
           Head(task[a].todo) \in Linkers, NEW i \in Named, engine' = engine, Become(a, Linked(a, i))
    PROVE  \E y : Moves(a, y)
<1> DEFINE x == task[a]
           copy == CopyOf(i)
           first == IF engine[i].webhook = x.row.webhook THEN <<>> ELSE <<"sync">>
           y == [x EXCEPT !.engine = copy, !.todo = first \o Tail(x.todo)]
<1>1. i \in EngineIds /\ engine[i] # None /\ engine[i] \in EngineRow
    BY DEF Named, Types
<1>2. copy \in EngineCopy /\ copy.id = i
    BY <1>1 DEF CopyOf, EngineCopy, EngineRow
<1>3. first \in {<<>>, <<"sync">>}
    OBVIOUS
<1>4. Become(a, y)
    BY DEF Linked, Hold
<1>5. x \in Task
    BY SMTT(60) DEF Types
<1> HIDE DEF first, copy
<1>6. y \in Task /\ y.engine = copy /\ (y.todo # <<>> => Fits(y) /\ ~Builds(y))
    BY <1>2, <1>3, <1>5, LinkedFits
<1> HIDE DEF y
<1>7. engine'[y.engine.id] # None
    BY <1>1, <1>2, <1>6
<1> QED
    BY <1>4, <1>6, <1>7, Turned

\* A step that takes the place of the first one.
LEMMA Swapped ==
    ASSUME Types, NEW a \in Actors, Fits(task[a]), task[a].todo # <<>>, NEW s,
           <<Head(task[a].todo), s>> \in {<<"runtime", "lock">>, <<"lock", "build">>, <<"link", "createEngine">>},
           Become(a, Goto(a, <<s>> \o Tail(task[a].todo)))
    PROVE  \E y : Moves(a, y) /\ (Builds(y) <=> s = "build")
<1> DEFINE x == task[a]
           y == [x EXCEPT !.todo = <<s>> \o Tail(x.todo)]
<1>1. x \in Task
    BY DEF Types
<1>2. /\ y \in Task /\ y.todo # <<>> /\ y.engine = x.engine
      /\ Fits(y) /\ (Builds(y) <=> s = "build")
    BY <1>1, SwapFits
<1>3. Become(a, y)
    BY DEF Goto
<1>4. s = "build" => Head(x.todo) = "lock"
    OBVIOUS
<1> HIDE DEF y
<1> QED
    BY <1>2, <1>3, <1>4 DEF Become, Moves

\* What is at hand when a step needs it.
LEMMA AtHand ==
    ASSUME Types, NEW a \in Actors, Fits(task[a]), NEW s, At(a, s)
    PROVE  /\ s \notin Openers \cup {"stale"} => task[a].row \in Row
           /\ s \in CopySteps => task[a].engine \in EngineCopy
           /\ s \in KeySteps => task[a].key \in Keys
           /\ s = "apply" => task[a].shown \in Statuses
<1> DEFINE x == task[a]
           t == x.todo
<1>1. /\ x \in Task /\ t \in Seq(Steps) /\ t # <<>> /\ Head(t) = s
      /\ x.row \in Row \cup {None} /\ x.engine \in EngineCopy \cup {None}
      /\ x.shown \in Statuses \cup {"none"} /\ x.key \in Keys \cup {None}
    BY DEF Types, Task, At
<1>2. /\ x.row = None => s \in Openers \cup {"stale"}
      /\ Held(t) /\ (x.engine = None => Unlinked(t))
      /\ x.key = None => Keyless(t)
      /\ x.shown = "none" => Unshown(t)
    BY <1>1 DEF Fits
<1>3. x.engine = None => s \notin CopySteps
    BY <1>1, <1>2, RestLinked
<1>4. x.key = None => s \notin KeySteps
    BY <1>1, <1>2, RestGuarded DEF Keyless
<1>5. x.shown = "none" => s \notin {"apply"}
    BY <1>1, <1>2, RestGuarded DEF Unshown
<1> QED
    BY <1>1, <1>2, <1>3, <1>4, <1>5

\* The steps that look for the row, the runtime or nothing but the engine.
LEMMA RuntimeMoves ==
    ASSUME Types, NEW a \in Actors, Fits(task[a]),
           Load(a) \/ Check(a) \/ Build(a)
    PROVE  (\E y : Moves(a, y)) /\ row' = row
<1>1. CASE Load(a)
  <2>1. task[a].todo # <<>> /\ Head(task[a].todo) = "load"
      BY <1>1 DEF Load, At
  <2>2. CASE row # None /\ Become(a, [Done(a) EXCEPT !.row = row])
    <3>1. row \in Row
        BY <2>2 DEF Types
    <3> QED
        BY <1>1, <2>1, <2>2, <3>1, RowTaken DEF Load, dataVars, Linkers
  <2>3. CASE Fail(a)
      BY <1>1, <2>1, <2>3, Failed DEF Load, dataVars
  <2> QED
      BY <1>1, <2>2, <2>3 DEF Load
<1>2. CASE Check(a)
  <2>1. task[a].todo # <<>> /\ Head(task[a].todo) = "runtime" /\ row' = row
      BY <1>2 DEF Check, At, dataVars
  <2>2. CASE runtime = "ready"
    <3>1. Continue(a)
        BY <1>2, <2>2 DEF Check, Continue
    <3> QED
        BY <2>1, <3>1, Continued DEF Linkers
  <2>3. CASE runtime # "ready"
    <3>1. Become(a, Goto(a, <<"lock">> \o Tail(task[a].todo)))
        BY <1>2, <2>3 DEF Check
    <3> QED
        BY <2>1, <3>1, Swapped
  <2> QED
      BY <2>2, <2>3
<1>3. CASE Build(a)
  <2>1. task[a].todo # <<>> /\ Head(task[a].todo) = "build" /\ row' = row
      BY <1>3 DEF Build, At, dataVars
  <2>2. CASE Continue(a)
      BY <2>1, <2>2, Continued DEF Linkers
  <2>3. CASE Fail(a)
      BY <2>1, <2>3, Failed
  <2>4. CASE Become(a, Goto(a, <<"local">>))
    <3> DEFINE y == [task[a] EXCEPT !.todo = <<"local">>]
    <3>1. task[a] \in Task /\ task[a].row # None
        BY <2>1 DEF Types, Fits, Openers
    <3>2. y \in Task /\ y.engine = task[a].engine /\ y.todo # <<>> /\ Fits(y) /\ ~Builds(y)
        BY <2>1, <3>1, LastFits
    <3>3. Become(a, y)
        BY <2>4 DEF Goto
    <3> HIDE DEF y
    <3> QED
        BY <2>1, <3>2, <3>3, Turned
  <2> QED
      BY <1>3, <2>2, <2>3, <2>4 DEF Build, WithoutRuntime
<1> QED
    BY <1>1, <1>2, <1>3

\* The steps that save the row.
LEMMA RowMoves ==
    ASSUME Types, NEW a \in Actors, Fits(task[a]),
           Insert(a) \/ Adopt(a) \/ DeleteRow(a) \/ SetWebhookRow(a) \/ Local(a) \/ Apply(a)
    PROVE  (\E y : Moves(a, y)) /\ row' \in Row \cup {None}
<1>1. CASE Insert(a)
  <2> DEFINE r == [status |-> "created", webhook |-> None]
  <2>1. r \in Row
      BY DEF Row, Statuses
  <2>2. task[a].todo # <<>> /\ Head(task[a].todo) = "insert" /\ SaveRow(a, r)
      BY <1>1 DEF Insert, At
  <2> HIDE DEF r
  <2> QED
      BY <2>1, <2>2, Saved DEF Linkers
<1>2. CASE Adopt(a)
  <2>1. At(a, "adopt") /\ task[a].todo # <<>> /\ Head(task[a].todo) = "adopt" /\ SaveRow(a, task[a].row)
      BY <1>2 DEF Adopt, At
  <2>2. task[a].row \in Row
      BY <2>1, AtHand DEF Openers
  <2> QED
      BY <2>1, <2>2, Saved DEF Linkers
<1>3. CASE DeleteRow(a)
  <2>1. task[a].todo # <<>> /\ Head(task[a].todo) = "delete"
      BY <1>3 DEF DeleteRow, At
  <2>2. CASE row' = None /\ Continue(a)
      BY <2>1, <2>2, Continued DEF Linkers
  <2>3. CASE Fail(a) /\ row' = row
      BY <2>1, <2>3, Failed DEF Types
  <2> QED
      BY <1>3, <2>2, <2>3 DEF DeleteRow
<1>4. CASE SetWebhookRow(a)
  <2>1. At(a, "setWebhook") /\ task[a].todo # <<>> /\ Head(task[a].todo) = "setWebhook"
      BY <1>4 DEF SetWebhookRow, At
  <2>2. PICK h \in Hooks : SaveRow(a, [task[a].row EXCEPT !.webhook = h])
      BY <1>4 DEF SetWebhookRow
  <2> DEFINE r == [task[a].row EXCEPT !.webhook = h]
  <2>3. task[a].row \in Row
      BY <2>1, AtHand DEF Openers
  <2>4. r \in Row
      BY <2>3 DEF Row
  <2> QED
      BY <2>1, <2>2, <2>4, Saved DEF Linkers
<1>5. CASE Local(a)
  <2> DEFINE r == [task[a].row EXCEPT !.status = LocalStatus(task[a].op)]
  <2>1. At(a, "local") /\ task[a].todo # <<>> /\ Head(task[a].todo) = "local" /\ SaveRow(a, r)
      BY <1>5 DEF Local, At
  <2>2. task[a].row \in Row
      BY <2>1, AtHand DEF Openers
  <2>3. r \in Row
      BY <2>2 DEF Row, LocalStatus, Statuses
  <2> QED
      BY <2>1, <2>3, Saved DEF Linkers
<1>6. CASE Apply(a)
  <2> DEFINE r == [task[a].row EXCEPT !.status = task[a].shown]
  <2>1. At(a, "apply") /\ task[a].todo # <<>> /\ Head(task[a].todo) = "apply"
      BY <1>6 DEF Apply, At
  <2>2. task[a].row \in Row /\ task[a].shown \in Statuses
      BY <2>1, AtHand DEF Openers
  <2>3. r \in Row
      BY <2>2 DEF Row
  <2>4. CASE Continue(a) /\ row' = row
      BY <2>1, <2>4, Continued DEF Linkers, Types
  <2>5. CASE SaveRow(a, r)
      BY <2>1, <2>3, <2>5, Saved DEF Linkers
  <2> QED
      BY <1>6, <2>4, <2>5 DEF Apply
<1> QED
    BY <1>1, <1>2, <1>3, <1>4, <1>5, <1>6

\* The engine rows after a step: none is gone, and there is still one at the most.
EngineKept ==
    /\ engine' \in [EngineIds -> EngineRow \cup {None}]
    /\ \A i \in EngineIds : engine[i] # None => engine'[i] # None
    /\ engine'["own"] = None \/ engine'["other"] = None

LEMMA EngineSame ==
    ASSUME Types, EngineInv, engine' = engine
    PROVE  EngineKept
BY DEF Types, EngineInv, EngineKept

\* A copy goes back to the row that it was read from.
LEMMA EngineSaved ==
    ASSUME Types, EngineInv, NEW a \in Actors, NEW copy \in EngineCopy,
           task[a].engine # None, copy.id = task[a].engine.id, SaveEngine(a, copy)
    PROVE  EngineKept
<1> DEFINE i == copy.id
           r == [webhook |-> copy.webhook, connected |-> copy.connected]
<1>1. i \in EngineIds /\ r \in EngineRow
    BY DEF EngineCopy, EngineRow
<1>2. engine[i] # None
    BY DEF EngineInv
<1>3. engine' = [engine EXCEPT ![i] = r]
    BY DEF SaveEngine
<1>4. r # None
    BY <1>1, Nones
<1> HIDE DEF i, r
<1> QED
    BY <1>1, <1>2, <1>3, <1>4 DEF Types, EngineInv, EngineKept, EngineIds

\* The steps that look for the engine row or make it.
LEMMA LinkMoves ==
    ASSUME Types, EngineInv, NEW a \in Actors, Fits(task[a]), Link(a) \/ CreateEngine(a)
    PROVE  (\E y : Moves(a, y)) /\ row' = row /\ EngineKept
<1>1. CASE Link(a)
  <2>1. /\ task[a].todo # <<>> /\ Head(task[a].todo) = "link" /\ row' = row /\ engine' = engine
        /\ Head(task[a].todo) \in Linkers
      BY <1>1 DEF Link, At, dataVars, Linkers
  <2>2. CASE engine["own"] # None /\ Become(a, Linked(a, "own"))
    <3>1. "own" \in Named
        BY <2>2 DEF Named, EngineIds
    <3> QED
        BY <2>1, <2>2, <3>1, Linking, EngineSame
  <2>3. CASE \E i \in Named : Become(a, Linked(a, i))
      BY <2>1, <2>3, Linking, EngineSame
  <2>4. CASE Become(a, Goto(a, <<"createEngine">> \o Tail(task[a].todo)))
      BY <2>1, <2>4, Swapped, EngineSame
  <2>5. CASE Fail(a)
      BY <2>1, <2>5, Failed, EngineSame
  <2> QED
      BY <1>1, <2>2, <2>3, <2>4, <2>5 DEF Link
<1>2. CASE CreateEngine(a)
  <2>1. /\ task[a].todo # <<>> /\ Head(task[a].todo) = "createEngine" /\ row' = row
        /\ Head(task[a].todo) \in Linkers
      BY <1>2 DEF CreateEngine, At, Linkers
  <2>2. CASE /\ Named = {}
             /\ engine' = [engine EXCEPT !["own"] = [webhook |-> None, connected |-> FALSE]]
             /\ Become(a, Hold(a, [id |-> "own", webhook |-> None, connected |-> FALSE],
                               (IF task[a].row.webhook = None THEN <<>> ELSE <<"sync">>)
                                   \o Tail(task[a].todo)))
    <3> DEFINE x == task[a]
               copy == [id |-> "own", webhook |-> None, connected |-> FALSE]
               r == [webhook |-> None, connected |-> FALSE]
               first == IF x.row.webhook = None THEN <<>> ELSE <<"sync">>
               y == [x EXCEPT !.engine = copy, !.todo = first \o Tail(x.todo)]
    <3>1. copy \in EngineCopy /\ copy.id = "own" /\ r \in EngineRow /\ r # None
      <4>1. copy \in EngineCopy /\ copy.id = "own"
          BY DEF EngineCopy, EngineIds
      <4>2. r \in EngineRow
          BY DEF EngineRow
      <4> HIDE DEF r
      <4> QED
          BY <4>1, <4>2, Nones
    <3>2. first \in {<<>>, <<"sync">>} /\ x \in Task
        BY DEF Types
    <3>3. Become(a, y)
        BY <2>2 DEF Hold
    <3>4. engine' = [engine EXCEPT !["own"] = r]
        BY <2>2, SMTT(60)
    <3> HIDE DEF copy, r, first
    <3>5. y \in Task /\ y.engine = copy /\ (y.todo # <<>> => Fits(y) /\ ~Builds(y))
        BY <2>1, <3>1, <3>2, LinkedFits
    <3> HIDE DEF y
    <3>6. engine["own"] = None /\ engine["other"] = None
        BY <2>2 DEF Named, EngineIds
    <3>7. engine'["own"] = r /\ engine'["other"] = None
        BY <3>4, <3>6 DEF Types, EngineIds
    <3>8. EngineKept
        BY <3>1, <3>4, <3>6, <3>7 DEF EngineKept, Types, EngineIds
    <3>9. \E z : Moves(a, z)
        BY <3>1, <3>3, <3>5, <3>7, Turned
    <3> QED
        BY <2>1, <3>8, <3>9
  <2>3. CASE (\E i \in Named : Become(a, Linked(a, i))) /\ engine' = engine
      BY <2>1, <2>3, Linking, EngineSame
  <2>4. CASE Fail(a) /\ engine' = engine
      BY <2>1, <2>4, Failed, EngineSame
  <2> QED
      BY <1>2, <2>2, <2>3, <2>4 DEF CreateEngine
<1> QED
    BY <1>1, <1>2

\* The steps that save the copy of the engine row.
LEMMA CopyMoves ==
    ASSUME Types, EngineInv, NEW a \in Actors, Fits(task[a]),
           \/ Sync(a) \/ SetEngine(a) \/ ConnectCall(a) \/ RefusePair(a)
           \/ DisconnectCall(a) \/ LogoutCall(a)
    PROVE  (\E y : Moves(a, y)) /\ row' = row /\ EngineKept
<1> DEFINE x == task[a]
           c == x.engine
<1>1. PICK s \in CopySteps : At(a, s)
    BY DEF CopySteps, Sync, SetEngine, ConnectCall, RefusePair, DisconnectCall, LogoutCall
<1>2. /\ x.todo # <<>> /\ Head(x.todo) = s /\ c \in EngineCopy /\ c # None /\ x.row \in Row
      /\ s \notin {"load", "insert", "fresh", "snapshot", "stale"} \cup Linkers
    BY <1>1, AtHand, Nones DEF At, CopySteps, Openers, Linkers
<1>3. row' = row
    BY DEF Sync, SetEngine, ConnectCall, RefusePair, DisconnectCall, LogoutCall, dataVars
<1>4. ASSUME Fail(a), engine' = engine
      PROVE  (\E y : Moves(a, y)) /\ EngineKept
    BY <1>2, <1>4, Failed, EngineSame
<1>5. ASSUME Continue(a), engine' = engine
      PROVE  (\E y : Moves(a, y)) /\ EngineKept
    BY <1>2, <1>5, Continued, EngineSame
<1>6. ASSUME Continue(a), SaveEngine(a, c)
      PROVE  (\E y : Moves(a, y)) /\ EngineKept
    BY <1>2, <1>6, Continued, EngineSaved
<1>7. CASE Sync(a)
  <2> DEFINE copy == [c EXCEPT !.webhook = x.row.webhook]
             z == Done(a)
             y == [z EXCEPT !.engine = copy]
  <2>1. copy \in EngineCopy /\ copy.id = c.id
      BY <1>2 DEF EngineCopy, Row
  <2>2. \/ SaveEngine(a, copy) /\ Become(a, y)
        \/ Fail(a) /\ engine' = engine
      BY <1>7 DEF Sync
  <2>3. /\ x \in Task /\ z \in Task /\ z.todo = Tail(x.todo)
        /\ z.row = x.row /\ z.engine = x.engine /\ z.key = x.key /\ z.shown = x.shown
      BY <1>2, DoneFields
  <2> HIDE DEF copy, z
  <2>4. /\ y \in Task /\ y.todo = Tail(x.todo)
        /\ y.row = x.row /\ y.engine = copy /\ y.key = x.key /\ y.shown = x.shown
      BY <2>1, <2>3 DEF Task
  <2>5. CASE SaveEngine(a, copy) /\ Become(a, y)
    <3> HIDE DEF y
    <3>1. x.row # None /\ copy # None /\ s \notin Linkers /\ s # "fresh" /\ s # "snapshot"
        BY <1>2, <2>1, Nones
    <3>2. y.todo # <<>> => Fits(y) /\ ~Builds(y)
        BY <1>2, <2>3, <2>4, <3>1, DoneFits
    <3>3. \E w : Moves(a, w)
        BY <1>2, <2>1, <2>4, <2>5, <3>2, Turned
    <3> QED
        BY <1>2, <1>3, <2>1, <2>5, <3>3, EngineSaved
  <2> QED
      BY <1>3, <1>4, <2>2, <2>5
<1>8. CASE SetEngine(a)
    BY <1>3, <1>5, <1>6, <1>8 DEF SetEngine
<1>9. CASE ConnectCall(a)
    BY <1>3, <1>4, <1>5, <1>6, <1>9 DEF ConnectCall
<1>10. CASE RefusePair(a)
    BY <1>3, <1>4, <1>10 DEF RefusePair, dataVars
<1>11. CASE DisconnectCall(a)
    BY <1>3, <1>4, <1>5, <1>6, <1>11 DEF DisconnectCall
<1>12. CASE LogoutCall(a)
  <2> DEFINE copy == [c EXCEPT !.connected = FALSE]
  <2>1. copy \in EngineCopy /\ copy.id = c.id
      BY <1>2 DEF EngineCopy
  <2>2. CASE Continue(a) /\ SaveEngine(a, copy)
      BY <1>2, <1>3, <2>1, <2>2, Continued, EngineSaved
  <2> QED
      BY <1>3, <1>4, <1>5, <1>12, <2>2 DEF LogoutCall
<1> QED
    BY <1>7, <1>8, <1>9, <1>10, <1>11, <1>12

\* The steps that save nothing but what the cache keeps.
LEMMA CallMoves ==
    ASSUME Types, EngineInv, NEW a \in Actors, Fits(task[a]),
           \/ Call(a) \/ ReconnectCall(a) \/ Qr(a) \/ Query(a)
           \/ Throttled(a) \/ BeginLiveAttempt(a) \/ Store(a) \/ Stale(a)
    PROVE  (\E y : Moves(a, y)) /\ row' = row /\ EngineKept
<1> DEFINE S == {"call", "anchor", "reconnect", "qr", "query", "throttled", "begin", "store"}
<1>1. row' = row /\ engine' = engine
    BY DEF Call, ReconnectCall, Qr, Query, Throttled, BeginLiveAttempt, Store, Stale, dataVars
<1>2. EngineKept
    BY <1>1, EngineSame
<1>3. CASE Stale(a)
    BY <1>1, <1>2, <1>3, Ended DEF Stale
<1>4. ASSUME NEW s \in S, At(a, s), Continue(a) \/ Fail(a) \/ Become(a, Goto(a, <<>>))
      PROVE  \E y : Moves(a, y)
  <2>1. task[a].todo # <<>> /\ Head(task[a].todo) = s
      BY <1>4 DEF At
  <2>2. s \notin {"load", "insert", "fresh", "snapshot", "stale"} \cup Linkers
      BY DEF Linkers
  <2>3. CASE Continue(a)
      BY <2>1, <2>2, <2>3, Continued
  <2>4. CASE Fail(a)
      BY <2>1, <2>4, Failed
  <2>5. CASE Become(a, Goto(a, <<>>))
      BY <2>5, Ended
  <2> QED
      BY <1>4, <2>3, <2>4, <2>5
<1>5. CASE Call(a)
    BY <1>1, <1>2, <1>4, <1>5 DEF Call
<1>6. CASE ReconnectCall(a)
    BY <1>1, <1>2, <1>4, <1>6 DEF ReconnectCall
<1>7. CASE Qr(a)
    BY <1>1, <1>2, <1>4, <1>7 DEF Qr
<1>8. CASE Query(a)
    BY <1>1, <1>2, <1>4, <1>8 DEF Query
<1>9. CASE Throttled(a)
  <2>1. Become(a, Goto(a, <<>>)) \/ Continue(a)
      BY <1>9 DEF Throttled, Continue
  <2> QED
      BY <1>1, <1>2, <1>4, <1>9, <2>1 DEF Throttled
<1>10. CASE BeginLiveAttempt(a)
    BY <1>1, <1>2, <1>4, <1>10 DEF BeginLiveAttempt
<1>11. CASE Store(a)
    BY <1>1, <1>2, <1>4, <1>11 DEF Store
<1> QED
    BY <1>3, <1>5, <1>6, <1>7, <1>8, <1>9, <1>10, <1>11

\* A snapshot is taken, and the copy of the engine row is dropped.
LEMMA SnapshotMoves ==
    ASSUME Types, EngineInv, NEW a \in Actors, Fits(task[a]), Snapshot(a)
    PROVE  (\E y : Moves(a, y)) /\ row' = row /\ EngineKept
<1> DEFINE x == task[a]
           z == Done(a)
           v == Shown(x.op, x.engine)
           y == [z EXCEPT !.shown = v, !.engine = None]
<1>1. /\ x.todo # <<>> /\ Head(x.todo) = "snapshot" /\ row' = row /\ engine' = engine
      /\ At(a, "snapshot") /\ Become(a, y)
    BY DEF Snapshot, At, dataVars
<1>2. v \in Statuses /\ v # "none"
    BY DEF Shown, BuildRuntimeSnapshot, Statuses
<1>3. /\ x \in Task /\ z \in Task /\ z.todo = Tail(x.todo)
      /\ z.row = x.row /\ z.engine = x.engine /\ z.key = x.key /\ z.shown = x.shown
    BY <1>1, DoneFields
<1> HIDE DEF z, v
<1>4. /\ y \in Task /\ y.todo = Tail(x.todo)
      /\ y.row = x.row /\ y.engine = None /\ y.key = x.key /\ y.shown = v
    BY <1>2, <1>3 DEF Task
<1> HIDE DEF y
<1>5. x.row # None
    BY <1>1, AtHand, Nones DEF Openers
<1>6. y.todo # <<>> => Fits(y) /\ ~Builds(y)
    BY <1>1, <1>2, <1>3, <1>4, <1>5, DoneFits DEF Linkers
<1>7. \E w : Moves(a, w)
    BY <1>1, <1>4, <1>6, Turned
<1> QED
    BY <1>1, <1>7, EngineSame

\* A chat search takes its key.
LEMMA FreshMoves ==
    ASSUME Types, EngineInv, NEW a \in Actors, Fits(task[a]), Fresh(a)
    PROVE  (\E y : Moves(a, y)) /\ row' = row /\ EngineKept
<1> DEFINE x == task[a]
           z == Done(a)
<1>1. PICK k \in Keys : Become(a, Goto(a, <<>>)) \/ Become(a, [z EXCEPT !.key = k])
    BY DEF Fresh
<1> DEFINE y == [z EXCEPT !.key = k]
<1>2. x.todo # <<>> /\ Head(x.todo) = "fresh" /\ row' = row /\ engine' = engine /\ At(a, "fresh")
    BY DEF Fresh, At, dataVars
<1>3. /\ x \in Task /\ z \in Task /\ z.todo = Tail(x.todo)
      /\ z.row = x.row /\ z.engine = x.engine /\ z.key = x.key /\ z.shown = x.shown
    BY <1>2, DoneFields
<1>4. CASE Become(a, Goto(a, <<>>))
    BY <1>2, <1>4, Ended, EngineSame
<1>5. CASE Become(a, y)
  <2> HIDE DEF z
  <2>1. /\ y \in Task /\ y.todo = Tail(x.todo)
        /\ y.row = x.row /\ y.engine = x.engine /\ y.key = k /\ y.shown = x.shown
      BY <1>3 DEF Task
  <2> HIDE DEF y
  <2>2. x.row # None /\ k # None
      BY <1>2, AtHand, Nones DEF Openers
  <2>3. y.todo # <<>> => Fits(y) /\ ~Builds(y)
      BY <1>2, <1>3, <2>1, <2>2, DoneFits DEF Linkers
  <2>4. \E w : Moves(a, w)
      BY <1>5, <2>1, <2>3, Turned
  <2> QED
      BY <1>2, <2>4, EngineSame
<1> QED
    BY <1>1, <1>4, <1>5

\* Every step of a request or of a boot worker.
LEMMA StepMoves ==
    ASSUME Types, EngineInv, NEW a \in Actors, Fits(task[a]), Step(a)
    PROVE  (\E y : Moves(a, y) /\ ~Builds(y)) /\ row' \in Row \cup {None} /\ EngineKept
<1>1. Head(task[a].todo) # "lock"
    BY DEF Step, Load, Check, Build, Insert, Adopt, DeleteRow, SetWebhookRow, Local, Apply,
           Link, CreateEngine, Sync, SetEngine, Call, ConnectCall, RefusePair, DisconnectCall,
           LogoutCall, ReconnectCall, Qr, Snapshot, Fresh, Throttled, BeginLiveAttempt, Query,
           Store, Stale, At
<1>2. row \in Row \cup {None}
    BY DEF Types
<1>3. CASE Load(a) \/ Check(a) \/ Build(a)
  <2>1. engine' = engine
      BY <1>3 DEF Load, Check, Build, dataVars
  <2> QED
      BY <1>1, <1>2, <1>3, <2>1, RuntimeMoves, EngineSame DEF Moves
<1>4. CASE Insert(a) \/ Adopt(a) \/ DeleteRow(a) \/ SetWebhookRow(a) \/ Local(a) \/ Apply(a)
  <2>1. engine' = engine
      BY <1>4 DEF Insert, Adopt, DeleteRow, SetWebhookRow, Local, Apply
  <2> QED
      BY <1>1, <1>4, <2>1, RowMoves, EngineSame DEF Moves
<1>5. CASE Link(a) \/ CreateEngine(a)
    BY <1>1, <1>2, <1>5, LinkMoves DEF Moves
<1>6. CASE \/ Sync(a) \/ SetEngine(a) \/ ConnectCall(a) \/ RefusePair(a)
           \/ DisconnectCall(a) \/ LogoutCall(a)
    BY <1>1, <1>2, <1>6, CopyMoves DEF Moves
<1>7. CASE \/ Call(a) \/ ReconnectCall(a) \/ Qr(a) \/ Query(a)
           \/ Throttled(a) \/ BeginLiveAttempt(a) \/ Store(a) \/ Stale(a)
    BY <1>1, <1>2, <1>7, CallMoves DEF Moves
<1>8. CASE Snapshot(a)
    BY <1>1, <1>2, <1>8, SnapshotMoves DEF Moves
<1>9. CASE Fresh(a)
    BY <1>1, <1>2, <1>9, FreshMoves DEF Moves
<1> QED
    BY <1>3, <1>4, <1>5, <1>6, <1>7, <1>8, <1>9 DEF Step

-----------------------------------------------------------------------------
(* The invariant is kept.                                                  *)

\* The other actors stay as they are.
LEMMA OneMoves ==
    ASSUME Types, EngineInv, \A b \in Actors : Fits(task[b]), EngineKept,
           NEW a \in Actors, NEW y, Moves(a, y)
    PROVE  /\ task' \in [Actors -> Task] /\ \A b \in Actors : Fits(task'[b])
           /\ EngineInv'
           /\ task'[a] = y /\ \A b \in Actors \ {a} : task'[b] = task[b]
<1>1. /\ task' \in [Actors -> Task] /\ task'[a] = y
      /\ \A b \in Actors \ {a} : task'[b] = task[b]
    BY DEF Types, Moves
<1>2. \A b \in Actors : Fits(task'[b])
    BY <1>1 DEF Moves
<1>3. ASSUME NEW b \in Actors, task'[b].engine # None
      PROVE  engine'[task'[b].engine.id] # None
  <2>1. \A c \in EngineCopy : c.id \in EngineIds
      BY DEF EngineCopy
  <2>2. task[a].engine \in EngineCopy \cup {None} /\ task[b].engine \in EngineCopy \cup {None}
      BY DEF Types, Task
  <2>3. CASE b = a
      BY <1>1, <1>3, <2>1, <2>2, <2>3 DEF Moves, EngineInv, EngineKept
  <2>4. CASE b # a
      BY <1>1, <1>3, <2>1, <2>2, <2>4 DEF EngineInv, EngineKept
  <2> QED
      BY <2>3, <2>4
<1>4. EngineInv'
    BY <1>3 DEF EngineInv, EngineKept
<1> QED
    BY <1>1, <1>2, <1>4

\* The runtime is only changed under the mutex.
LEMMA StepProcess ==
    ASSUME InstanceInv, NEW a \in Actors, Step(a),
           task'[a].todo = <<>> \/ Head(task'[a].todo) # "build",
           \A b \in Actors \ {a} : task'[b] = task[b]
    PROVE  MutexInv' /\ RuntimeInv' /\ mutex' \in Actors \cup {None}
<1>1. CASE Build(a)
  <2>1. Builds(task[a]) /\ mutex' = None
      BY <1>1 DEF Build, At, Builds
  <2>2. mutex = a
      BY <2>1 DEF InstanceInv, MutexInv
  <2>3. ASSUME NEW b \in Actors
        PROVE  ~Builds(task'[b]) /\ mutex' # b
      BY <2>1, <2>2, Nones DEF InstanceInv, MutexInv, Builds
  <2>4. RuntimeInv'
    <3>1. runtime \in {"none", "ready"} /\ builds = IF runtime = "ready" THEN 1 ELSE 0
        BY DEF InstanceInv, RuntimeInv
    <3>2. \/ runtime' = runtime /\ builds' = builds
          \/ runtime = "none" /\ runtime' = "ready" /\ builds' = builds + 1
        BY <1>1 DEF Build, BuildNeeded
    <3> QED
        BY <3>1, <3>2 DEF RuntimeInv
  <2> QED
      BY <2>1, <2>3, <2>4 DEF MutexInv, Builds
<1>2. CASE ~Build(a)
  <2>1. runtime' = runtime /\ builds' = builds /\ mutex' = mutex /\ ~At(a, "build")
      BY <1>2 DEF Step, Load, Check, Insert, Adopt, DeleteRow, SetWebhookRow, Local, Apply,
           Link, CreateEngine, Sync, SetEngine, Call, ConnectCall, RefusePair, DisconnectCall,
           LogoutCall, ReconnectCall, Qr, Snapshot, Fresh, Throttled, BeginLiveAttempt, Query,
           Store, Stale, At, processVars
  <2>2. ASSUME NEW b \in Actors
        PROVE  Builds(task'[b]) <=> mutex' = b
      BY <2>1 DEF InstanceInv, MutexInv, Builds, At
  <2> QED
      BY <2>1, <2>2 DEF MutexInv, RuntimeInv, InstanceInv, BootTypes
<1> QED
    BY <1>1, <1>2

\* The cache.
LEMMA StepCache ==
    ASSUME InstanceInv, NEW a \in Actors, Step(a)
    PROVE  /\ entries' \in [Keys -> {"none", "fresh", "usable", "expired"}]
           /\ attempts' \in [Keys -> {"none", "recent", "past"}]
           /\ window' \in [Keys -> BOOLEAN]
           /\ ThrottleInv'
<1>1. /\ entries \in [Keys -> {"none", "fresh", "usable", "expired"}]
      /\ attempts \in [Keys -> {"none", "recent", "past"}]
      /\ window \in [Keys -> BOOLEAN] /\ ThrottleInv
      /\ Types /\ Fits(task[a])
    BY DEF InstanceInv, Types
<1>2. CASE BeginLiveAttempt(a)
  <2> DEFINE k == task[a].key
  <2>1. k \in Keys
      BY <1>1, <1>2, AtHand DEF BeginLiveAttempt, KeySteps
  <2>2. \/ /\ attempts' = [attempts EXCEPT ![k] = "recent"]
           /\ window' = [window EXCEPT ![k] = TRUE]
        \/ attempts' = attempts /\ window' = window
      BY <1>2 DEF BeginLiveAttempt
  <2>3. entries' = entries
      BY <1>2 DEF BeginLiveAttempt
  <2> HIDE DEF k
  <2> QED
      BY <1>1, <2>1, <2>2, <2>3 DEF ThrottleInv, Usable
<1>3. CASE Store(a)
  <2> DEFINE k == task[a].key
  <2>1. /\ entries' = [c \in Keys |-> IF c = k THEN "fresh"
                                      ELSE IF entries[c] = "expired" THEN "none"
                                      ELSE entries[c]]
        /\ attempts' = Cleaned(k) /\ window' = window
      BY <1>3 DEF Store
  <2> HIDE DEF k
  <2> QED
      BY <1>1, <2>1 DEF ThrottleInv, Usable, Cleaned
<1>4. CASE ~BeginLiveAttempt(a) /\ ~Store(a)
  <2>1. entries' = entries /\ attempts' = attempts /\ window' = window
      BY <1>4 DEF Step, Load, Check, Build, Insert, Adopt, DeleteRow, SetWebhookRow, Local, Apply,
           Link, CreateEngine, Sync, SetEngine, Call, ConnectCall, RefusePair, DisconnectCall,
           LogoutCall, ReconnectCall, Qr, Snapshot, Fresh, Throttled, Query,
           Stale, cacheVars
  <2> QED
      BY <1>1, <2>1 DEF ThrottleInv, Usable
<1> QED
    BY <1>2, <1>3, <1>4

\* The client and the boot.
LEMMA StepBoot ==
    ASSUME InstanceInv, NEW a \in Actors, Step(a)
    PROVE  /\ client' \in Clients /\ boot' \in {"list", "feed", "done"}
           /\ reconnected' \in BOOLEAN /\ warned' \in BOOLEAN /\ restarts' \in 0..MaxRestarts
<1>1. client' \in Clients
  <2>1. client \in Clients
      BY DEF InstanceInv, Types
  <2>2. CASE ConnectCall(a) \/ LogoutCall(a) \/ ReconnectCall(a) \/ Query(a)
      BY <2>1, <2>2 DEF ConnectCall, LogoutCall, ReconnectCall, Query, Clients
  <2>3. CASE ~(ConnectCall(a) \/ LogoutCall(a) \/ ReconnectCall(a) \/ Query(a))
    <3>1. client' = client
        BY <2>3 DEF Step, Load, Check, Build, Insert, Adopt, DeleteRow, SetWebhookRow, Local, Apply,
             Link, CreateEngine, Sync, SetEngine, Call, RefusePair, DisconnectCall,
             Qr, Snapshot, Fresh, Throttled, BeginLiveAttempt, Store, Stale, processVars
    <3> QED
        BY <2>1, <3>1
  <2> QED
      BY <2>2, <2>3
<1>2. \/ boot' = boot /\ reconnected' = reconnected /\ warned' = warned
      \/ Fail(a)
      \/ reconnected' = TRUE /\ boot' = boot /\ warned' = warned
    BY DEF Step, Load, Check, Build, WithoutRuntime, SaveRow, Insert, Adopt, DeleteRow,
           SetWebhookRow, Local, Apply, Link, CreateEngine, Sync, SetEngine, Call, ConnectCall,
           RefusePair, DisconnectCall, LogoutCall, ReconnectCall, Qr, Snapshot, Fresh, Throttled,
           BeginLiveAttempt, Query, Store, Stale, bootVars
<1>3. Fail(a) => boot' = boot /\ reconnected' = reconnected /\ warned' = (warned \/ a \in BootWorkers)
    BY DEF Fail
<1>4. restarts' = restarts
    BY DEF Step, Load, Check, Build, Insert, Adopt, DeleteRow,
           SetWebhookRow, Local, Apply, Link, CreateEngine, Sync, SetEngine, Call, ConnectCall,
           RefusePair, DisconnectCall, LogoutCall, ReconnectCall, Qr, Snapshot, Fresh, Throttled,
           BeginLiveAttempt, Query, Store, Stale
<1>5. BootTypes
    BY DEF InstanceInv
<1>6. boot' \in {"list", "feed", "done"} /\ restarts' \in 0..MaxRestarts
    BY <1>2, <1>3, <1>4, <1>5 DEF BootTypes
<1>7. reconnected' \in BOOLEAN /\ warned' \in BOOLEAN
    BY <1>2, <1>3, <1>5, Zenon DEF BootTypes
<1> QED
    BY <1>1, <1>6, <1>7

LEMMA StepKept ==
    ASSUME InstanceInv, NEW a \in Actors, Step(a)
    PROVE  InstanceInv'
<1>1. Types /\ EngineInv /\ \A b \in Actors : Fits(task[b])
    BY DEF InstanceInv
<1>2. PICK y : Moves(a, y) /\ ~Builds(y)
    BY <1>1, StepMoves
<1>3. row' \in Row \cup {None} /\ EngineKept
    BY <1>1, StepMoves
<1>4. /\ task' \in [Actors -> Task] /\ \A b \in Actors : Fits(task'[b])
      /\ EngineInv'
      /\ task'[a] = y /\ \A b \in Actors \ {a} : task'[b] = task[b]
    BY <1>1, <1>2, <1>3, OneMoves
<1>5. MutexInv' /\ RuntimeInv' /\ mutex' \in Actors \cup {None}
    BY <1>2, <1>4, StepProcess DEF Builds
<1> QED
    BY <1>3, <1>4, <1>5, StepCache, StepBoot DEF InstanceInv, Types, BootTypes, EngineKept

\* Whoever has the mutex is about to build.
LEMMA LockKept ==
    ASSUME InstanceInv, NEW a \in Actors, Lock(a)
    PROVE  InstanceInv'
<1>1. Types /\ EngineInv /\ \A b \in Actors : Fits(task[b])
    BY DEF InstanceInv
<1>2. /\ task[a].todo # <<>> /\ Head(task[a].todo) = "lock" /\ engine' = engine /\ row' = row
      /\ mutex = None /\ mutex' = a
      /\ Become(a, Goto(a, <<"build">> \o Tail(task[a].todo)))
    BY DEF Lock, At, dataVars
<1>3. PICK y : Moves(a, y) /\ Builds(y)
    BY <1>1, <1>2, Swapped
<1>4. EngineKept
    BY <1>1, <1>2, EngineSame
<1>5. /\ task' \in [Actors -> Task] /\ \A b \in Actors : Fits(task'[b])
      /\ EngineInv'
      /\ task'[a] = y /\ \A b \in Actors \ {a} : task'[b] = task[b]
    BY <1>1, <1>3, <1>4, OneMoves
<1>6. MutexInv'
    BY <1>2, <1>3, <1>5, Nones DEF InstanceInv, MutexInv
<1>7. /\ runtime' = runtime /\ builds' = builds /\ client' = client /\ restarts' = restarts
      /\ entries' = entries /\ attempts' = attempts /\ window' = window
      /\ boot' = boot /\ reconnected' = reconnected /\ warned' = warned
    BY DEF Lock, cacheVars, bootVars
<1>8. Types'
    BY <1>2, <1>5, <1>7 DEF InstanceInv, Types
<1>9. BootTypes'
    BY <1>2, <1>7 DEF InstanceInv, BootTypes
<1>10. RuntimeInv' /\ ThrottleInv'
    BY <1>7 DEF InstanceInv, RuntimeInv, ThrottleInv, Usable
<1> QED
    BY <1>5, <1>6, <1>8, <1>9, <1>10 DEF InstanceInv

\* An actor that had nothing to do starts with a program.
LEMMA Started ==
    ASSUME NEW op \in OperationNames, NEW p, GoodProgram(p)
    PROVE  LET y == [Idle EXCEPT !.op = op, !.todo = p]
           IN  y \in Task /\ Fits(y) /\ ~Builds(y) /\ y.engine = None
<1> DEFINE y == [Idle EXCEPT !.op = op, !.todo = p]
<1>1. p \in Seq(Steps)
    BY DEF GoodProgram
<1>2. /\ y \in Task /\ y.todo = p /\ y.row = None /\ y.engine = None /\ y.key = None
      /\ y.shown = "none"
    BY <1>1 DEF Idle, Task
<1> HIDE DEF y
<1>3. Head(p) # "build"
    BY DEF GoodProgram, Openers
<1>4. Held(p)
    BY UnlinkedHeld DEF GoodProgram
<1>5. Fits(y) /\ ~Builds(y)
    BY <1>2, <1>3, <1>4 DEF Fits, Builds, GoodProgram
<1> QED
    BY <1>2, <1>5 DEF y

\* A start that leaves the process, the cache and the rows alone.
LEMMA StartKept ==
    ASSUME InstanceInv, NEW a \in Actors, task[a] = Idle, NEW op \in OperationNames,
           NEW p, GoodProgram(p),
           task' = [task EXCEPT ![a] = [Idle EXCEPT !.op = op, !.todo = p]],
           UNCHANGED <<processVars, cacheVars, row, restarts>>,
           reconnected' = reconnected, warned' = warned, boot' \in {"list", "feed", "done"},
           engine' \in [EngineIds -> EngineRow \cup {None}],
           engine'["own"] = None \/ engine'["other"] = None,
           \A b \in Actors : task[b].engine = None \/ engine' = engine
    PROVE  InstanceInv'
<1> DEFINE y == [Idle EXCEPT !.op = op, !.todo = p]
<1>1. y \in Task /\ Fits(y) /\ ~Builds(y) /\ y.engine = None
    BY Started
<1>2. task' = [task EXCEPT ![a] = y]
    OBVIOUS
<1> HIDE DEF y
<1>3. /\ task' \in [Actors -> Task] /\ task'[a] = y
      /\ \A b \in Actors \ {a} : task'[b] = task[b]
    BY <1>1, <1>2 DEF InstanceInv, Types
<1>4. \A b \in Actors : Fits(task'[b])
    BY <1>1, <1>3 DEF InstanceInv
<1>5. EngineInv'
    BY <1>1, <1>3 DEF InstanceInv, EngineInv
<1>6. /\ mutex' = mutex /\ runtime' = runtime /\ builds' = builds /\ client' = client
      /\ entries' = entries /\ attempts' = attempts /\ window' = window
      /\ row' = row /\ restarts' = restarts
    BY DEF processVars, cacheVars
<1>7. ~Builds(task[a])
    BY IdleFits
<1>8. MutexInv'
    BY <1>1, <1>3, <1>6, <1>7 DEF InstanceInv, MutexInv
<1>9. Types'
    BY <1>3, <1>6 DEF InstanceInv, Types
<1>10. BootTypes'
    BY <1>6 DEF InstanceInv, BootTypes
<1>11. RuntimeInv' /\ ThrottleInv'
    BY <1>6 DEF InstanceInv, RuntimeInv, ThrottleInv, Usable
<1> QED
    BY <1>4, <1>5, <1>8, <1>9, <1>10, <1>11 DEF InstanceInv

LEMMA BeginKept ==
    ASSUME InstanceInv, NEW a \in Actors, Begin(a)
    PROVE  InstanceInv'
<1>1. PICK op \in Operations :
          /\ task' = [task EXCEPT ![a] = [Idle EXCEPT !.op = op, !.todo = Program[op]]]
          /\ IF op = "create"
                THEN /\ row = None /\ \A b \in Actors : task[b] = Idle
                     /\ engine' = [own |-> None,
                                   other |-> IF engine.own # None THEN engine.own
                                             ELSE engine.other]
                ELSE UNCHANGED engine
    BY DEF Begin
<1>2. op \in OperationNames /\ GoodProgram(Program[op])
    BY InstanceAssumption, Programs
<1>3. /\ task[a] = Idle /\ UNCHANGED <<processVars, cacheVars, row, restarts>>
      /\ reconnected' = reconnected /\ warned' = warned /\ boot' \in {"list", "feed", "done"}
    BY DEF Begin, bootVars, InstanceInv, BootTypes
<1>4. engine \in [EngineIds -> EngineRow \cup {None}] /\ (engine["own"] = None \/ engine["other"] = None)
    BY DEF InstanceInv, Types, EngineInv
<1>5. /\ engine' \in [EngineIds -> EngineRow \cup {None}]
      /\ engine'["own"] = None \/ engine'["other"] = None
      /\ \A b \in Actors : task[b].engine = None \/ engine' = engine
  <2>1. CASE op # "create"
      BY <1>1, <1>4, <2>1
  <2>2. CASE op = "create"
    <3> DEFINE r == IF engine.own # None THEN engine.own ELSE engine.other
    <3>1. engine' = [own |-> None, other |-> r] /\ \A b \in Actors : task[b] = Idle
        BY <1>1, <2>2
    <3>2. r \in EngineRow \cup {None}
        BY <1>4 DEF EngineIds
    <3> HIDE DEF r
    <3>3. engine' \in [EngineIds -> EngineRow \cup {None}] /\ engine'["own"] = None
        BY <3>1, <3>2 DEF EngineIds
    <3> QED
        BY <3>1, <3>3, IdleFits
  <2> QED
      BY <2>1, <2>2
<1> DEFINE p == Program[op]
<1>6. task' = [task EXCEPT ![a] = [Idle EXCEPT !.op = op, !.todo = p]] /\ GoodProgram(p)
    BY <1>1, <1>2
<1> HIDE DEF p
<1> QED
    BY <1>2, <1>3, <1>5, <1>6, StartKept

LEMMA BootTakeKept ==
    ASSUME InstanceInv, NEW w \in BootWorkers, BootTake(w)
    PROVE  InstanceInv'
<1>1. w \in Actors /\ "reconnect" \in OperationNames /\ GoodProgram(Reconnect)
    BY Programs DEF Actors, OperationNames
<1>2. /\ task[w] = Idle /\ UNCHANGED <<processVars, cacheVars, row, restarts>>
      /\ reconnected' = reconnected /\ warned' = warned /\ boot' \in {"list", "feed", "done"}
      /\ engine' = engine
    BY DEF BootTake, dataVars
<1>3. engine' \in [EngineIds -> EngineRow \cup {None}] /\ (engine'["own"] = None \/ engine'["other"] = None)
    BY <1>2 DEF InstanceInv, Types, EngineInv
<1> DEFINE p == Reconnect
           op == "reconnect"
<1>4. task' = [task EXCEPT ![w] = [Idle EXCEPT !.op = op, !.todo = p]]
    BY DEF BootTake
<1> HIDE DEF p, op
<1>5. op \in OperationNames /\ GoodProgram(p)
    BY <1>1 DEF p, op
<1> QED
    BY <1>1, <1>2, <1>3, <1>4, <1>5, StartKept

LEMMA AgesKept ==
    ASSUME InstanceInv, NEW k \in Keys, Ages(k)
    PROVE  InstanceInv'
<1>1. /\ mutex' = mutex /\ runtime' = runtime /\ builds' = builds /\ client' = client
      /\ task' = task /\ row' = row /\ engine' = engine /\ restarts' = restarts
      /\ boot' = boot /\ reconnected' = reconnected /\ warned' = warned
    BY DEF Ages, processVars, dataVars, bootVars
<1>2. /\ entries \in [Keys -> {"none", "fresh", "usable", "expired"}]
      /\ attempts \in [Keys -> {"none", "recent", "past"}]
      /\ window \in [Keys -> BOOLEAN] /\ ThrottleInv
    BY DEF InstanceInv, Types
<1>3. /\ entries' \in [Keys -> {"none", "fresh", "usable", "expired"}]
      /\ attempts' \in [Keys -> {"none", "recent", "past"}]
      /\ window' \in [Keys -> BOOLEAN] /\ ThrottleInv'
  <2>1. CASE /\ Usable(k)
             /\ entries' = [entries EXCEPT ![k] = IF @ = "fresh" THEN "usable" ELSE "expired"]
             /\ UNCHANGED <<attempts, window>>
      BY <1>2, <2>1 DEF ThrottleInv, Usable
  <2>2. CASE /\ window[k]
             /\ window' = [window EXCEPT ![k] = FALSE]
             /\ UNCHANGED <<entries, attempts>>
      BY <1>2, <2>2 DEF ThrottleInv, Usable
  <2>3. CASE /\ ~window[k]
             /\ attempts' = [attempts EXCEPT ![k] = "past"]
             /\ UNCHANGED <<entries, window>>
      BY <1>2, <2>3 DEF ThrottleInv, Usable
  <2> QED
      BY <2>1, <2>2, <2>3 DEF Ages
<1>4. Types'
    BY <1>1, <1>3 DEF InstanceInv, Types
<1>5. BootTypes'
    BY <1>1 DEF InstanceInv, BootTypes
<1>6. MutexInv' /\ EngineInv' /\ RuntimeInv' /\ \A a \in Actors : Fits(task'[a])
    BY <1>1 DEF InstanceInv, MutexInv, EngineInv, RuntimeInv
<1> QED
    BY <1>3, <1>4, <1>5, <1>6 DEF InstanceInv

LEMMA BootListKept ==
    ASSUME InstanceInv, BootList
    PROVE  InstanceInv'
<1>1. /\ mutex' = mutex /\ runtime' = runtime /\ builds' = builds /\ client' = client
      /\ task' = task /\ row' = row /\ engine' = engine /\ restarts' = restarts
      /\ entries' = entries /\ attempts' = attempts /\ window' = window
      /\ reconnected' = reconnected
    BY DEF BootList, processVars, dataVars, cacheVars
<1>2. boot' \in {"list", "feed", "done"} /\ (warned' = warned \/ warned' = TRUE)
    BY DEF BootList
<1>3. Types'
    BY <1>1 DEF InstanceInv, Types
<1>4. BootTypes'
    BY <1>1, <1>2 DEF InstanceInv, BootTypes
<1>5. MutexInv' /\ EngineInv' /\ RuntimeInv' /\ ThrottleInv' /\ \A a \in Actors : Fits(task'[a])
    BY <1>1 DEF InstanceInv, MutexInv, EngineInv, RuntimeInv, ThrottleInv, Usable
<1> QED
    BY <1>3, <1>4, <1>5 DEF InstanceInv

LEMMA ClientKept ==
    ASSUME InstanceInv, ClientChanges
    PROVE  InstanceInv'
<1>1. /\ mutex' = mutex /\ runtime' = runtime /\ builds' = builds
      /\ task' = task /\ row' = row /\ restarts' = restarts
      /\ entries' = entries /\ attempts' = attempts /\ window' = window
      /\ boot' = boot /\ reconnected' = reconnected /\ warned' = warned
      /\ client' \in Clients
    BY DEF ClientChanges, cacheVars, bootVars
<1>2. PICK i \in Named :
          engine' = [engine EXCEPT ![i].connected = IF client' = "open" THEN TRUE
                                                    ELSE IF client' = "none" THEN FALSE ELSE @]
    BY DEF ClientChanges
<1> DEFINE r == [engine[i] EXCEPT !.connected = IF client' = "open" THEN TRUE
                                                ELSE IF client' = "none" THEN FALSE ELSE @]
<1>3. i \in EngineIds /\ engine[i] # None /\ engine[i] \in EngineRow
    BY DEF Named, InstanceInv, Types
<1>4. r \in EngineRow
    BY <1>3 DEF EngineRow
<1>5. engine' = [engine EXCEPT ![i] = r]
    BY <1>2
<1> HIDE DEF r
<1>6. r # None
    BY <1>4, Nones
<1>7. EngineKept
    BY <1>3, <1>4, <1>5, <1>6 DEF EngineKept, InstanceInv, Types, EngineInv, EngineIds
<1>8. EngineInv'
  <2>1. ASSUME NEW a \in Actors, task[a].engine # None
        PROVE  engine'[task[a].engine.id] # None
    <3>1. task[a].engine \in EngineCopy
        BY <2>1 DEF InstanceInv, Types, Task
    <3>2. task[a].engine.id \in EngineIds
        BY <3>1 DEF EngineCopy
    <3> QED
        BY <1>7, <2>1, <3>2 DEF EngineKept, InstanceInv, EngineInv
  <2> QED
      BY <1>1, <1>7, <2>1 DEF EngineInv, EngineKept
<1>9. Types'
    BY <1>1, <1>7 DEF InstanceInv, Types, EngineKept
<1>10. BootTypes'
    BY <1>1 DEF InstanceInv, BootTypes
<1>11. MutexInv' /\ RuntimeInv' /\ ThrottleInv' /\ \A a \in Actors : Fits(task'[a])
    BY <1>1 DEF InstanceInv, MutexInv, RuntimeInv, ThrottleInv, Usable
<1> QED
    BY <1>8, <1>9, <1>10, <1>11 DEF InstanceInv

\* The state that every start of the process begins with.
LEMMA Fresh0 ==
    ASSUME NEW m, NEW t, m = None, t = [a \in Actors |-> Idle]
    PROVE  /\ t \in [Actors -> Task]
           /\ \A a \in Actors : Fits(t[a]) /\ t[a].engine = None /\ (Builds(t[a]) <=> m = a)
<1>1. \A a \in Actors : t[a] = Idle
    OBVIOUS
<1> QED
    BY <1>1, IdleFits, Nones

LEMMA RestartKept ==
    ASSUME InstanceInv, Restart
    PROVE  InstanceInv'
<1>1. /\ task' \in [Actors -> Task]
      /\ \A a \in Actors : Fits(task'[a]) /\ task'[a].engine = None /\ (Builds(task'[a]) <=> mutex' = a)
    BY Fresh0 DEF Restart
<1>2. row' = row /\ engine' = engine
    BY DEF Restart, dataVars
<1>3. /\ entries' = [k \in Keys |-> "none"] /\ attempts' = [k \in Keys |-> "none"]
      /\ window' = [k \in Keys |-> FALSE] /\ client' = "none"
    BY DEF Restart
<1>4. Types'
    BY <1>1, <1>2, <1>3 DEF InstanceInv, Types, Clients
<1>5. ThrottleInv'
    BY <1>3 DEF ThrottleInv, Usable
<1>6. MutexInv' /\ EngineInv'
    BY <1>1, <1>2 DEF InstanceInv, MutexInv, EngineInv
<1>7. RuntimeInv'
    BY DEF Restart, RuntimeInv
<1>8. restarts' \in 0..MaxRestarts
    BY InstanceAssumption DEF Restart, InstanceInv, BootTypes
<1>9. BootTypes'
    BY <1>8 DEF Restart, BootTypes
<1> QED
    BY <1>1, <1>4, <1>5, <1>6, <1>7, <1>9 DEF InstanceInv

LEMMA InitInv ==
    ASSUME Init
    PROVE  InstanceInv
<1>1. /\ task \in [Actors -> Task]
      /\ \A a \in Actors : Fits(task[a]) /\ task[a].engine = None /\ (Builds(task[a]) <=> mutex = a)
    BY Fresh0 DEF Init
<1>2. row \in Row \cup {None}
    BY DEF Init, Row, Statuses
<1>3. engine \in [EngineIds -> EngineRow \cup {None}] /\ (engine["own"] = None \/ engine["other"] = None)
  <2>1. CASE engine = [i \in EngineIds |-> None]
      BY <2>1 DEF EngineIds
  <2>2. CASE engine = [own |-> None, other |-> [webhook |-> None, connected |-> TRUE]]
    <3> DEFINE r == [webhook |-> None, connected |-> TRUE]
    <3>1. r \in EngineRow
        BY DEF EngineRow
    <3>2. engine = [own |-> None, other |-> r]
        BY <2>2
    <3> HIDE DEF r
    <3> QED
        BY <3>1, <3>2 DEF EngineIds
  <2> QED
      BY <2>1, <2>2 DEF Init
<1>4. Types
    BY <1>1, <1>2, <1>3 DEF Init, Types, Clients
<1>5. BootTypes
  <2>1. 0 \in 0..MaxRestarts
      BY InstanceAssumption
  <2> QED
      BY <2>1 DEF Init, BootTypes
<1>6. MutexInv /\ EngineInv
    BY <1>1, <1>3 DEF MutexInv, EngineInv
<1>7. RuntimeInv /\ ThrottleInv
    BY DEF Init, RuntimeInv, ThrottleInv, Usable
<1> QED
    BY <1>1, <1>4, <1>5, <1>6, <1>7 DEF InstanceInv

LEMMA NextInv ==
    ASSUME InstanceInv, [Next]_vars
    PROVE  InstanceInv'
<1>1. CASE Next
  <2>1. ASSUME NEW a \in Actors, Begin(a) \/ Lock(a) \/ Step(a)
        PROVE  InstanceInv'
      BY <2>1, BeginKept, LockKept, StepKept
  <2>2. ASSUME NEW k \in Keys, Ages(k)
        PROVE  InstanceInv'
      BY <2>2, AgesKept
  <2>3. ASSUME NEW w \in BootWorkers, BootTake(w)
        PROVE  InstanceInv'
      BY <2>3, BootTakeKept
  <2> QED
      BY <1>1, <2>1, <2>2, <2>3, BootListKept, ClientKept, RestartKept DEF Next
<1>2. CASE UNCHANGED vars
  <2>1. /\ mutex' = mutex /\ runtime' = runtime /\ builds' = builds /\ client' = client
        /\ task' = task /\ row' = row /\ engine' = engine /\ restarts' = restarts
        /\ entries' = entries /\ attempts' = attempts /\ window' = window
        /\ boot' = boot /\ reconnected' = reconnected /\ warned' = warned
      BY <1>2 DEF vars, processVars, cacheVars, dataVars, bootVars
  <2>2. Types' /\ BootTypes'
      BY <2>1 DEF InstanceInv, Types, BootTypes
  <2>3. MutexInv' /\ EngineInv' /\ RuntimeInv' /\ ThrottleInv' /\ \A a \in Actors : Fits(task'[a])
      BY <2>1 DEF InstanceInv, MutexInv, EngineInv, RuntimeInv, ThrottleInv, Usable
  <2> QED
      BY <2>2, <2>3 DEF InstanceInv
<1> QED
    BY <1>1, <1>2

-----------------------------------------------------------------------------
(* Theorems.                                                               *)

\* Every request and boot worker has at hand what the rest of its steps need, the
\* holder of runtimeMu is the one that builds, and there is one engine row and
\* one runtime at the most.
THEOREM InstanceInvariant == Spec => []InstanceInv
<1>1. Init => InstanceInv
    BY InitInv
<1>2. InstanceInv /\ [Next]_vars => InstanceInv'
    BY NextInv
<1> QED
    BY <1>1, <1>2, PTL DEF Spec

\* The variables have their types.
THEOREM InstanceTypes == Spec => []TypeOK
<1>1. InstanceInv => TypeOK
  <2> SUFFICES ASSUME InstanceInv
               PROVE  TypeOK
      OBVIOUS
  <2>1. builds \in Nat /\ runtime \in {"none", "ready"}
      BY DEF InstanceInv, RuntimeInv
  <2>2. Types /\ BootTypes
      BY DEF InstanceInv
  <2> QED
      BY <2>1, <2>2 DEF TypeOK, Types, BootTypes
<1> QED
    BY <1>1, InstanceInvariant, PTL

\* ensureRuntime: however many requests and boot workers find s.runtime unset,
\* they build one runtime between them.
THEOREM RuntimeBuiltOnce == Spec => []OneRuntime
<1>1. InstanceInv => OneRuntime
    BY DEF InstanceInv, RuntimeInv, OneRuntime
<1> QED
    BY <1>1, InstanceInvariant, PTL

\* ensureLegacyInstance: however many requests link the instance at the same
\* time, the engine has one row of its name at the most.
THEOREM EngineRowOnce == Spec => []OneEngineRow
<1>1. InstanceInv => OneEngineRow
  <2> SUFFICES ASSUME InstanceInv
               PROVE  Cardinality(Named) <= 1
      BY DEF OneEngineRow
  <2>1. Named = {} \/ Named = {"own"} \/ Named = {"other"}
      BY DEF InstanceInv, EngineInv, Named, EngineIds
  <2>2. Cardinality({}) = 0 /\ Cardinality({"own"}) = 1 /\ Cardinality({"other"}) = 1
      BY FS_EmptySet, FS_Singleton
  <2> QED
      BY <2>1, <2>2
<1> QED
    BY <1>1, InstanceInvariant, PTL

\* beginLiveAttempt: no step of a chat search starts a live query within
\* liveThrottle of the last one while the entry of its key is usable.
THEOREM LiveSearchThrottled == Spec => LiveThrottled
<1>1. ASSUME InstanceInv, [Next]_vars, NEW a \in Requests,
             At(a, "begin"), At(a, "begin")' = FALSE, task'[a] # Idle
      PROVE  ~(Usable(task[a].key) /\ window[task[a].key])
  <2>1. a \in Actors /\ Types /\ EngineInv /\ \A b \in Actors : Fits(task[b])
      BY <1>1 DEF Actors, InstanceInv
  <2>2. task'[a] # task[a] /\ task[a] # Idle
      BY <1>1 DEF At, Idle
  <2>3. PICK b \in Actors : Lock(b) \/ Step(b)
    <3>1. ASSUME NEW b \in Actors, task[b] = Idle, NEW y, task' = [task EXCEPT ![b] = y]
          PROVE  FALSE
        BY <2>1, <2>2, <3>1 DEF Types
    <3>2. ASSUME NEW b \in Actors
          PROVE  ~Begin(b)
        BY <3>1 DEF Begin
    <3>3. ASSUME NEW w \in BootWorkers
          PROVE  ~BootTake(w)
        BY <3>1 DEF BootTake, Actors
    <3>4. ~BootList /\ ~ClientChanges /\ ~UNCHANGED vars /\ \A k \in Keys : ~Ages(k)
        BY <2>2 DEF BootList, ClientChanges, Ages, vars
    <3>5. ~Restart
        BY <1>1, <2>1 DEF Restart
    <3> QED
        BY <1>1, <3>2, <3>3, <3>4, <3>5 DEF Next
  <2>4. \E y : task' = [task EXCEPT ![b] = y]
      BY <2>1, <2>3, StepMoves DEF Moves, Lock, Become
  <2>5. b = a
      BY <2>1, <2>2, <2>4 DEF Types
  <2>6. BeginLiveAttempt(a)
      BY <1>1, <2>3, <2>5 DEF Lock, Step, Load, Check, Build, Insert, Adopt, DeleteRow,
         SetWebhookRow, Local, Apply, Link, CreateEngine, Sync, SetEngine, Call, ConnectCall,
         RefusePair, DisconnectCall, LogoutCall, ReconnectCall, Qr, Snapshot, Fresh, Throttled,
         Query, Store, Stale, At
  <2> DEFINE k == task[a].key
  <2>7. k \in Keys
      BY <1>1, <2>1, AtHand DEF KeySteps
  <2>8. ~Become(a, Goto(a, <<>>))
    <3>1. Goto(a, <<>>).todo = <<>>
        BY <2>1 DEF Types, Task, Goto
    <3> QED
        BY <1>1, <2>1, <3>1 DEF Become, Types
  <2>9. attempts[k] # "recent"
      BY <2>6, <2>8 DEF BeginLiveAttempt, LiveAllowed
  <2> QED
      BY <1>1, <2>7, <2>9 DEF InstanceInv, ThrottleInv
<1>2. InstanceInv /\ [Next]_vars =>
          [\A a \in Requests :
              At(a, "begin") /\ At(a, "begin")' = FALSE /\ task'[a] # Idle =>
                  ~(Usable(task[a].key) /\ window[task[a].key])]_vars
    BY <1>1
<1> QED
    BY <1>2, InstanceInvariant, PTL DEF Spec, LiveThrottled
=============================================================================
