--------------------------- MODULE BroadcastProofs ---------------------------
(***************************************************************************)
(* Proofs about Broadcast, for every number of jobs, recipients, workers   *)
(* and attempts, every channel capacity and all faults: type correctness;  *)
(* who has a job (the channel never overflows and no job is in two         *)
(* places); attempts, recipient rows and final statuses, with the          *)
(* inductive invariant; and that Broadcast implements BroadcastPromise:    *)
(* every step of the channel, the workers, the receipts and the faults is  *)
(* a step of the promise or leaves what the operator and the recipients    *)
(* see unchanged.                                                          *)
(***************************************************************************)
EXTENDS BroadcastInvariant, FiniteSetTheorems, TLAPS

USE DEF dbVars, createVars, dispVars, workVars

-----------------------------------------------------------------------------
(* Type correctness.                                                       *)

(* The rows and the statuses that the code builds are well formed.         *)
LEMMA RowTypes ==
    /\ \A s \in RowStatus : EmptyRow(s) \in Row
    /\ NoRows \in [Phones -> Row]
    /\ \A r \in Row : AttemptRow(r) \in Row
    /\ \A r \in Row, v \in Verdicts, k \in Nat : ResultRow(r, v, k) \in Row
<1>1. \A s \in RowStatus : EmptyRow(s) \in Row
  BY DEF Row, EmptyRow
<1>2. NoRows \in [Phones -> Row]
  BY <1>1 DEF NoRows, RowStatus
<1>3. ASSUME NEW r \in Row PROVE AttemptRow(r) \in Row
  <2>1. r.attempts + 1 \in Nat /\ "pending" \in RowStatus
    BY DEF Row, RowStatus
  <2>2. [r EXCEPT !.attempts = r.attempts + 1] \in Row
    BY <2>1 DEF Row
  <2>3. AttemptRow(r) = [[r EXCEPT !.attempts = r.attempts + 1]
                            EXCEPT !.status = "pending"]
    BY DEF AttemptRow, Row
  <2>4. QED
    BY <2>1, <2>2, <2>3 DEF Row
<1>4. \A r \in Row, v \in Verdicts, k \in Nat : ResultRow(r, v, k) \in Row
  BY DEF Row, ResultRow, RowStatus, Delivering
<1>5. QED
  BY <1>1, <1>2, <1>3, <1>4

(* Updating one entry of a two-dimensional table.                          *)
LEMMA PutCell ==
    ASSUME NEW A, NEW B, NEW C, NEW f \in [A -> [B -> C]],
           NEW a \in A, NEW b \in B, NEW c \in C,
           NEW g, g = [f EXCEPT ![a][b] = c]
    PROVE  /\ g \in [A -> [B -> C]]
           /\ \A x \in A, y \in B :
                 g[x][y] = IF x = a /\ y = b THEN c ELSE f[x][y]
<1>1. [f[a] EXCEPT ![b] = c] \in [B -> C]
  OBVIOUS
<1>2. g = [f EXCEPT ![a] = [f[a] EXCEPT ![b] = c]]
  OBVIOUS
<1>3. QED
  BY <1>1, <1>2

(* Seeding rows touches only absent rows of the job.                       *)
LEMMA SeedRowsEffect ==
    ASSUME rows \in [Jobs -> [Phones -> Row]], NEW j \in Jobs, NEW S,
           SeedRows(j, S)
    PROVE  /\ rows' \in [Jobs -> [Phones -> Row]]
           /\ \A x \in Jobs, y \in Phones :
                 rows'[x][y] =
                    IF x = j /\ y \in S /\ rows[x][y].status = "absent"
                    THEN EmptyRow("pending") ELSE rows[x][y]
<1> DEFINE new == [p \in Phones |-> IF p \in S /\ rows[j][p].status = "absent"
                                    THEN EmptyRow("pending")
                                    ELSE rows[j][p]]
<1>1. new \in [Phones -> Row]
  BY RowTypes DEF RowStatus
<1>2. rows' = [rows EXCEPT ![j] = new]
  BY DEF SeedRows
<1>3. \A y \in Phones : new[y] = IF y \in S /\ rows[j][y].status = "absent"
                                 THEN EmptyRow("pending") ELSE rows[j][y]
  OBVIOUS
<1> HIDE DEF new
<1>4. QED
  BY <1>1, <1>2, <1>3

(* A receipt changes the matching row and no other.                        *)
LEMMA ReceiptEffect ==
    ASSUME rows \in [Jobs -> [Phones -> Row]], NEW j \in Jobs,
           NEW p \in Phones, NEW k, NEW state \in {"delivered", "read"},
           HandleReceipt(j, p, k, state)
    PROVE  /\ rows' \in [Jobs -> [Phones -> Row]]
           /\ rows'[j][p].status = state
           /\ rows'[j][p].attempts = rows[j][p].attempts
           /\ rows'[j][p].msg = rows[j][p].msg
           /\ \A x \in Jobs, y \in Phones :
                 ~(x = j /\ y = p) => rows'[x][y] = rows[x][y]
<1> DEFINE r1 == [rows[j][p] EXCEPT !.status = state]
           r2 == [r1 EXCEPT !.delivered = TRUE]
           r3 == [r2 EXCEPT !.read = r2.read \/ state = "read"]
<1>1. rows[j][p] \in Row
  OBVIOUS
<1>2. r1 \in Row
  BY <1>1 DEF Row, RowStatus, Delivering
<1>3. r2 \in Row
  BY <1>2 DEF Row
<1>4. r3 \in Row
  BY <1>3 DEF Row
<1>5. /\ r3.status = state
      /\ r3.attempts = rows[j][p].attempts
      /\ r3.msg = rows[j][p].msg
  BY <1>1 DEF Row
<1>6. rows' = [rows EXCEPT ![j][p] = r3]
  BY <1>1 DEF HandleReceipt, Row
<1> HIDE DEF r1, r2, r3
<1>7. QED
  BY <1>4, <1>5, <1>6, PutCell

(* The two halves of TypeInv: the workers' variables and all the others.   *)
WorkType ==
    /\ pc      \in [Workers -> WorkerPC]
    /\ job     \in [Workers -> Jobs \cup {None}]
    /\ seed    \in [Workers -> SUBSET Phones]
    /\ todo    \in [Workers -> SUBSET Phones]
    /\ copy    \in [Workers -> [Phones -> Row]]
    /\ cur     \in [Workers -> Phones \cup {None}]
    /\ verdict \in [Workers -> Verdicts]
    /\ WorkerHasJob
    /\ CurInPhones

RestType ==
    /\ status      \in [Jobs -> JobStatus]
    /\ due         \in [Jobs -> BOOLEAN]
    /\ attempts    \in [Jobs -> Nat]
    /\ maxAttempts \in [Jobs -> Nat]
    /\ inst        \in [Jobs -> Instances]
    /\ rows        \in [Jobs -> [Phones -> Row]]
    /\ contact     \in [Phones -> {"none", "any"} \cup Instances]
    /\ creator     \in [Jobs -> {"idle", "list", "insert"}]
    /\ audience    \in [Jobs -> SUBSET Phones]
    /\ dispatcher  \in {"idle", "claim", "enqueue"}
    /\ slots       \in Nat
    /\ batch       \in SUBSET Jobs
    /\ queue       \in Seq(Jobs)
    /\ claimed     \in [Jobs -> Nat]
    /\ slotBusy    \in SUBSET Instances
    /\ calls       \in [Jobs -> [Phones -> Nat]]

LEMMA TypeSplit == /\ TypeInv  <=> WorkType /\ RestType
                   /\ TypeInv' <=> WorkType' /\ RestType'
BY DEF TypeInv, TypeOK, WorkType, RestType

LEMMA TypeInit == Init => TypeInv
BY RowTypes DEF Init, TypeInv, TypeOK, WorkerHasJob, CurInPhones, JobStatus,
                WorkerPC, Verdicts

(* The three ways a step of the processor leaves the worker.               *)
LEMMA FailType ==
    ASSUME WorkType, NEW w \in Workers, pc[w] # "idle",
           NEW v \in Verdicts, Fail(w, v)
    PROVE  WorkType'
BY RowTypes DEF WorkType, WorkerHasJob, CurInPhones, Fail, Goto, WorkerPC

LEMMA ReleaseType ==
    ASSUME WorkType, NEW w \in Workers, Release(w)
    PROVE  WorkType'
BY RowTypes DEF WorkType, WorkerHasJob, CurInPhones, Release, Goto, WorkerPC,
                Verdicts

LEMMA StartLoopType ==
    ASSUME WorkType, RestType, NEW w \in Workers, pc[w] # "idle",
           StartLoop(w)
    PROVE  WorkType'
<1>1. job[w] \in Jobs
  BY DEF WorkType, WorkerHasJob
<1>2. rows[job[w]] \in [Phones -> Row] /\ PendingPhones(job[w]) \in SUBSET Phones
  BY <1>1 DEF RestType, PendingPhones, Listed
<1>3. QED
  BY <1>1, <1>2 DEF WorkType, WorkerHasJob, CurInPhones, StartLoop, Goto,
                    WorkerPC

(* Every action keeps the variables in their types.                        *)
LEMMA TypeStep == TypeInv /\ [Next]_vars => TypeInv'
<1> SUFFICES ASSUME WorkType, RestType, [Next]_vars
             PROVE  WorkType' /\ RestType'
  BY TypeSplit
<1> USE BroadcastAssumption
<1>1. ASSUME NEW p \in Phones, NEW link \in {"any"} \cup Instances,
             CreateContact(p, link)
      PROVE  WorkType' /\ RestType'
  BY <1>1 DEF CreateContact, WorkType, WorkerHasJob, CurInPhones, RestType
<1>2. ASSUME NEW p \in Phones, NEW q \in Phones,
             NEW link \in {"any"} \cup Instances, UpdateContact(p, q, link)
      PROVE  WorkType' /\ RestType'
  BY <1>2 DEF UpdateContact, WorkType, WorkerHasJob, CurInPhones, RestType
<1>3. ASSUME NEW j \in Jobs, NEW m \in AttemptInputs, NEW later \in BOOLEAN,
             Create(j, m, later)
      PROVE  WorkType' /\ RestType'
  BY <1>3 DEF Create, EffectiveMaxAttempts, DefaultMaxAttempts, JobStatus,
              WorkType, WorkerHasJob, CurInPhones, RestType
<1>4. ASSUME NEW j \in Jobs, NEW p \in Phones, NEW k \in 1..calls[j][p],
             NEW state \in {"delivered", "read"}, HandleReceipt(j, p, k, state)
      PROVE  WorkType' /\ RestType'
  <2>1. WorkType'
    BY <1>4 DEF HandleReceipt, WorkType, WorkerHasJob, CurInPhones
  <2>2. rows' \in [Jobs -> [Phones -> Row]]
    BY <1>4, ReceiptEffect DEF RestType
  <2>3. QED
    BY <1>4, <2>1, <2>2 DEF HandleReceipt, RestType
<1>5. CASE Restart
  BY <1>5, RowTypes DEF Restart, WorkerPC, Verdicts, WorkType, WorkerHasJob,
              CurInPhones, RestType
<1>6. ASSUME NEW j \in Jobs, SnapshotContacts(j)
      PROVE  WorkType' /\ RestType'
  <2>1. WorkType'
    BY <1>6 DEF SnapshotContacts, WorkType, WorkerHasJob, CurInPhones
  <2>2. Eligible(inst[j]) \in SUBSET Phones /\ {} \in SUBSET Phones
    BY DEF Eligible
  <2>3. /\ creator' \in [Jobs -> {"idle", "list", "insert"}]
        /\ audience' \in [Jobs -> SUBSET Phones]
    <3>1. CASE /\ creator'  = [creator EXCEPT ![j] = "insert"]
               /\ audience' = [audience EXCEPT ![j] = Eligible(inst[j])]
      BY <2>2, <3>1 DEF RestType
    <3>2. CASE CreatorDone(j)
      BY <3>2 DEF CreatorDone, RestType
    <3>3. QED
      BY <1>6, <3>1, <3>2 DEF SnapshotContacts
  <2>4. QED
    BY <1>6, <2>1, <2>3 DEF SnapshotContacts, RestType
<1>7. ASSUME NEW j \in Jobs, InsertSnapshot(j)
      PROVE  WorkType' /\ RestType'
  <2>1. WorkType'
    BY <1>7 DEF InsertSnapshot, WorkType, WorkerHasJob, CurInPhones
  <2>2. rows' \in [Jobs -> [Phones -> Row]]
    BY <1>7, SeedRowsEffect DEF InsertSnapshot, RestType
  <2>3. /\ creator' \in [Jobs -> {"idle", "list", "insert"}]
        /\ audience' \in [Jobs -> SUBSET Phones]
    BY <1>7 DEF InsertSnapshot, CreatorDone, RestType
  <2>4. QED
    BY <1>7, <2>1, <2>2, <2>3 DEF InsertSnapshot, RestType
<1>8. CASE CountSlots
  BY <1>8 DEF CountSlots, FreeSlots, WorkType, WorkerHasJob, CurInPhones,
              RestType
<1>9. CASE ClaimNext
  BY <1>9 DEF ClaimNext, JobStatus, WorkType, WorkerHasJob, CurInPhones,
              RestType
<1>10. CASE ClaimFails
  BY <1>10 DEF ClaimFails, JobStatus, WorkType, WorkerHasJob, CurInPhones,
               RestType
<1>11. ASSUME NEW j \in Jobs, TryEnqueue(j) PROVE WorkType' /\ RestType'
  <2>1. WorkType'
    BY <1>11 DEF TryEnqueue, WorkType, WorkerHasJob, CurInPhones
  <2>2. Append(queue, j) \in Seq(Jobs)
    BY DEF RestType
  <2>3. queue' \in Seq(Jobs)
    BY <1>11, <2>2 DEF TryEnqueue, RestType
  <2>4. QED
    BY <1>11, <2>1, <2>3 DEF TryEnqueue, RestType
<1>12. ASSUME NEW w \in Workers, TakeJob(w) PROVE WorkType' /\ RestType'
  BY <1>12 DEF TakeJob, Goto, WorkerPC, WorkType, WorkerHasJob, CurInPhones,
               RestType
<1>13. ASSUME NEW w \in Workers, WaitForInstanceSlot(w)
       PROVE  WorkType' /\ RestType'
  BY <1>13 DEF WaitForInstanceSlot, Goto, WorkerPC, WorkType, WorkerHasJob,
               CurInPhones, RestType
<1>14. ASSUME NEW w \in Workers, LoadProgress(w) PROVE WorkType' /\ RestType'
  <2>1. RestType'
    BY <1>14 DEF LoadProgress, RestType
  <2>2. ASSUME NEW v \in {"permanent", "retryable"}, Fail(w, v)
        PROVE  WorkType'
    BY <1>14, <2>2, FailType DEF LoadProgress, Verdicts
  <2>3. CASE StartLoop(w)
    <3>1. pc[w] # "idle"
      BY <1>14 DEF LoadProgress
    <3>2. QED
      BY <2>1, <2>3, <3>1, StartLoopType
  <2>4. CASE /\ Goto(w, "contacts")
             /\ UNCHANGED <<job, seed, todo, copy, cur, verdict>>
    <3>1. job[w] \in Jobs
      BY <1>14 DEF LoadProgress, WorkType, WorkerHasJob
    <3>2. QED
      BY <2>1, <2>4, <3>1 DEF Goto, WorkType, WorkerHasJob, CurInPhones,
                              WorkerPC
  <2>5. QED
    BY <1>14, <2>1, <2>2, <2>3, <2>4 DEF LoadProgress
<1>15. ASSUME NEW w \in Workers, LoadContacts(w) PROVE WorkType' /\ RestType'
  <2>1. RestType'
    BY <1>15 DEF LoadContacts, RestType
  <2>2. ASSUME NEW v \in {"permanent", "retryable"}, Fail(w, v)
        PROVE  WorkType'
    BY <1>15, <2>2, FailType DEF LoadContacts, Verdicts
  <2>3. CASE /\ seed' = [seed EXCEPT ![w] = Eligible(inst[job[w]])]
             /\ Goto(w, "seed")
             /\ UNCHANGED <<job, todo, copy, cur, verdict>>
    <3>1. job[w] \in Jobs
      BY <1>15 DEF LoadContacts, WorkType, WorkerHasJob
    <3>2. Eligible(inst[job[w]]) \in SUBSET Phones
      BY DEF Eligible
    <3>3. QED
      BY <2>1, <2>3, <3>1, <3>2
         DEF Goto, WorkType, WorkerHasJob, CurInPhones, WorkerPC
  <2>4. QED
    BY <1>15, <2>1, <2>2, <2>3 DEF LoadContacts
<1>16. ASSUME NEW w \in Workers, SeedProgress(w) PROVE WorkType' /\ RestType'
  <2>1. job[w] \in Jobs
    BY <1>16 DEF SeedProgress, WorkType, WorkerHasJob
  <2>2. rows' \in [Jobs -> [Phones -> Row]]
    BY <1>16, <2>1, SeedRowsEffect DEF SeedProgress, RestType
  <2>3. RestType'
    BY <1>16, <2>2 DEF SeedProgress, RestType
  <2>4. CASE Fail(w, "retryable")
    <3>1. pc[w] # "idle" /\ "retryable" \in Verdicts
      BY <1>16 DEF SeedProgress, Verdicts
    <3>2. QED
      BY <2>3, <2>4, <3>1, FailType
  <2>5. CASE /\ Goto(w, "list")
             /\ UNCHANGED <<job, seed, todo, copy, cur, verdict>>
    BY <2>1, <2>3, <2>5 DEF Goto, WorkType, WorkerHasJob, CurInPhones, WorkerPC
  <2>6. QED
    BY <1>16, <2>3, <2>4, <2>5 DEF SeedProgress
<1>17. ASSUME NEW w \in Workers, ListSeeded(w) PROVE WorkType' /\ RestType'
  <2>1. RestType'
    BY <1>17 DEF ListSeeded, RestType
  <2>2. QED
    BY <1>17, <2>1, FailType, StartLoopType DEF ListSeeded, Verdicts
<1>18. ASSUME NEW w \in Workers, Attempt(w) PROVE WorkType' /\ RestType'
  <2>1. job[w] \in Jobs
    BY <1>18 DEF Attempt, WorkType, WorkerHasJob
  <2>2. CASE Fail(w, "retryable") /\ UNCHANGED rows
    BY <1>18, <2>2, FailType DEF Attempt, Verdicts, RestType
  <2>3. ASSUME NEW p \in todo[w], NEW r, r = AttemptRow(copy[w][p]),
               \/ /\ SaveRow(w, p, r)
                  /\ cur' = [cur EXCEPT ![w] = p]
                  /\ Goto(w, "send")
                  /\ UNCHANGED <<job, seed, todo, verdict>>
               \/ SaveFails(w, p, r)
        PROVE  WorkType' /\ RestType'
    <3>1. p \in Phones /\ r \in Row
      BY <2>3, RowTypes DEF WorkType
    <3>2. rows' \in [Jobs -> [Phones -> Row]]
      <4>1. rows' = [rows EXCEPT ![job[w]][p] = r] \/ rows' = rows
        BY <2>3 DEF SaveRow, SaveFails
      <4>2. rows \in [Jobs -> [Phones -> Row]]
        BY DEF RestType
      <4>3. CASE rows' = [rows EXCEPT ![job[w]][p] = r]
        BY <2>1, <3>1, <4>2, <4>3, PutCell, Zenon
      <4>4. QED
        BY <4>1, <4>2, <4>3
    <3>3. RestType'
      BY <1>18, <3>2 DEF Attempt, RestType
    <3>4. CASE SaveFails(w, p, r)
      BY <1>18, <3>3, <3>4, FailType DEF Attempt, SaveFails, Verdicts
    <3>5. CASE /\ SaveRow(w, p, r)
               /\ cur' = [cur EXCEPT ![w] = p]
               /\ Goto(w, "send")
               /\ UNCHANGED <<job, seed, todo, verdict>>
      BY <1>18, <2>1, <3>1, <3>3, <3>5
         DEF Attempt, SaveRow, Goto, WorkType, WorkerHasJob, CurInPhones,
             WorkerPC
    <3>6. QED
      BY <2>3, <3>4, <3>5
  <2>4. QED
    BY <1>18, <2>2, <2>3 DEF Attempt
<1>19. ASSUME NEW w \in Workers, SendText(w) PROVE WorkType' /\ RestType'
  <2>1. job[w] \in Jobs /\ cur[w] \in Phones
    BY <1>19 DEF SendText, WorkType, WorkerHasJob, CurInPhones
  <2>2. calls' \in [Jobs -> [Phones -> Nat]]
    <3>1. \/ calls' = [calls EXCEPT ![job[w]][cur[w]] = calls[job[w]][cur[w]] + 1]
          \/ calls' = calls
      BY <1>19 DEF SendText
    <3>2. calls[job[w]][cur[w]] + 1 \in Nat
      BY <2>1 DEF RestType
    <3>3. calls \in [Jobs -> [Phones -> Nat]]
      BY DEF RestType
    <3>4. CASE calls' = [calls EXCEPT ![job[w]][cur[w]] =
                           calls[job[w]][cur[w]] + 1]
      BY <2>1, <3>2, <3>3, <3>4, PutCell, Zenon
    <3>5. QED
      BY <3>1, <3>3, <3>4
  <2>3. RestType'
    BY <1>19, <2>2 DEF SendText, RestType
  <2>4. CASE Fail(w, "retryable")
    BY <1>19, <2>3, <2>4, FailType DEF SendText, Verdicts
  <2>5. ASSUME NEW v \in {"sent", "permanent", "transient", "unconfirmed"},
               verdict' = [verdict EXCEPT ![w] = v],
               Goto(w, "record"),
               UNCHANGED <<job, seed, todo, copy, cur>>
        PROVE  WorkType'
    BY <2>1, <2>5 DEF Goto, WorkType, WorkerHasJob, CurInPhones, WorkerPC,
                      Verdicts
  <2>6. QED
    BY <1>19, <2>3, <2>4, <2>5 DEF SendText
<1>20. ASSUME NEW w \in Workers, Record(w) PROVE WorkType' /\ RestType'
  <2> DEFINE p == cur[w]
             r == ResultRow(copy[w][p], verdict[w], calls[job[w]][p])
  <2>1. job[w] \in Jobs /\ p \in Phones
    BY <1>20 DEF Record, WorkType, WorkerHasJob, CurInPhones
  <2>2. r \in Row
    BY <2>1, RowTypes DEF WorkType, RestType
  <2>3. rows' \in [Jobs -> [Phones -> Row]]
    <3>1. rows' = [rows EXCEPT ![job[w]][p] = r] \/ rows' = rows
      BY <1>20 DEF Record, SaveRow, SaveFails
    <3> HIDE DEF p, r
    <3>2. rows \in [Jobs -> [Phones -> Row]]
      BY DEF RestType
    <3>3. CASE rows' = [rows EXCEPT ![job[w]][p] = r]
      BY <2>1, <2>2, <3>2, <3>3, PutCell, Zenon
    <3>4. QED
      BY <3>1, <3>2, <3>3
  <2>4. RestType'
    BY <1>20, <2>3 DEF Record, RestType
  <2>5. CASE Fail(w, "retryable")
    BY <1>20, <2>4, <2>5, FailType DEF Record, Verdicts
  <2>6. CASE /\ SaveRow(w, p, r)
             /\ todo'    = [todo EXCEPT ![w] = todo[w] \ {p}]
             /\ cur'     = [cur EXCEPT ![w] = None]
             /\ verdict' = [verdict EXCEPT ![w] = "none"]
             /\ Goto(w, IF todo[w] \ {p} = {} THEN "summarize" ELSE "attempt")
             /\ UNCHANGED <<job, seed>>
    <3> HIDE DEF r
    <3> QED BY <2>1, <2>2, <2>4, <2>6
               DEF SaveRow, Goto, WorkType, WorkerHasJob, CurInPhones,
                   WorkerPC, Verdicts
  <2>7. QED
    BY <1>20, <2>5, <2>6 DEF Record, SaveFails
<1>21. ASSUME NEW w \in Workers, Summarize(w) PROVE WorkType' /\ RestType'
  <2>1. RestType'
    BY <1>21 DEF Summarize, RestType
  <2>2. CASE Release(w)
    BY <2>1, <2>2, ReleaseType
  <2>3. ASSUME NEW v \in {"failures", "clean"},
               Goto(w, "mark"),
               verdict' = [verdict EXCEPT ![w] = v],
               copy' = [copy EXCEPT ![w] = NoRows],
               UNCHANGED <<job, seed, todo, cur>>
        PROVE  WorkType'
    <3>1. job[w] \in Jobs
      BY <1>21 DEF Summarize, WorkType, WorkerHasJob
    <3>2. QED
      BY <2>3, <3>1, RowTypes
         DEF Goto, WorkType, WorkerHasJob, CurInPhones, WorkerPC, Verdicts
  <2>4. QED
    BY <1>21, <2>1, <2>2, <2>3 DEF Summarize
<1>22. ASSUME NEW w \in Workers, MarkDone(w) PROVE WorkType' /\ RestType'
  <2>1. job[w] \in Jobs
    BY <1>22 DEF MarkDone, WorkType, WorkerHasJob
  <2>2. RestType'
    BY <1>22, <2>1 DEF MarkDone, RestType, JobStatus, Terminal, Completed
  <2>3. QED
    BY <1>22, <2>2, ReleaseType DEF MarkDone
<1>23. ASSUME NEW w \in Workers, HandleFailure(w)
       PROVE  WorkType' /\ RestType'
  <2>1. job[w] \in Jobs
    BY <1>23 DEF HandleFailure, WorkType, WorkerHasJob
  <2>2. RestType'
    BY <1>23, <2>1 DEF HandleFailure, StatusAfterFailure, RestType, JobStatus,
                       Terminal, Completed
  <2>3. QED
    BY <1>23, <2>2, ReleaseType DEF HandleFailure
<1>24. ASSUME NEW j \in Jobs, BecomeDue(j) PROVE WorkType' /\ RestType'
  BY <1>24 DEF BecomeDue, WorkType, WorkerHasJob, CurInPhones, RestType
<1>25. ASSUME NEW i \in Instances, SlotElapses(i) PROVE WorkType' /\ RestType'
  BY <1>25 DEF SlotElapses, WorkType, WorkerHasJob, CurInPhones, RestType
<1>26. CASE UNCHANGED vars
  BY <1>26 DEF vars, WorkType, WorkerHasJob, CurInPhones, RestType
<1>27. QED
  BY <1>1, <1>2, <1>3, <1>4, <1>5, <1>6, <1>7, <1>8, <1>9, <1>10, <1>11,
     <1>12, <1>13, <1>14, <1>15, <1>16, <1>17, <1>18, <1>19, <1>20, <1>21,
     <1>22, <1>23, <1>24, <1>25, <1>26
     DEF Next, Environment, CreatorStep, DispatcherStep, WorkerStep,
         ProcessStep, TimePasses

(* Every reachable state is well typed, whatever the sizes of the sets.    *)
THEOREM TypeCorrect == Spec => []TypeOK
<1>1. TypeInv => TypeOK
  BY DEF TypeInv
<1>2. QED
  BY <1>1, TypeInit, TypeStep, PTL DEF Spec

-----------------------------------------------------------------------------
(* The dispatcher and the channel.                                         *)

(* The actions that touch the dispatcher or the channel.                   *)
LEMMA DispatcherCases ==
    ASSUME [Next]_vars
    PROVE  \/ UNCHANGED <<dispatcher, slots, batch, queue>>
           \/ CountSlots
           \/ ClaimNext
           \/ ClaimFails
           \/ \E j \in Jobs : TryEnqueue(j)
           \/ \E w \in Workers : TakeJob(w)
           \/ Restart
<1> DEFINE Quiet == UNCHANGED <<dispatcher, slots, batch, queue>>
<1>1. Environment => Restart \/ Quiet
  <2>1. \A p, q, link : CreateContact(p, link) \/ UpdateContact(p, q, link) => Quiet
    BY DEF CreateContact, UpdateContact
  <2>2. \A j, m, later : Create(j, m, later) => Quiet
    BY DEF Create
  <2>3. \A j, p, k, state : HandleReceipt(j, p, k, state) => Quiet
    BY DEF HandleReceipt
  <2> HIDE DEF Quiet
  <2>4. QED
    BY <2>1, <2>2, <2>3 DEF Environment
<1>2. ASSUME NEW j \in Jobs PROVE CreatorStep(j) \/ BecomeDue(j) => Quiet
  BY DEF CreatorStep, SnapshotContacts, InsertSnapshot, BecomeDue
<1>3. ASSUME NEW i \in Instances PROVE SlotElapses(i) => Quiet
  BY DEF SlotElapses
<1>4. ASSUME NEW w \in Workers PROVE WorkerStep(w) => TakeJob(w) \/ Quiet
  <2>1. LoadProgress(w) \/ LoadContacts(w) \/ ListSeeded(w) => Quiet
    BY DEF LoadProgress, LoadContacts, ListSeeded
  <2>2. SeedProgress(w) \/ Attempt(w) \/ SendText(w) \/ Record(w) => Quiet
    BY DEF SeedProgress, Attempt, SendText, Record
  <2>3. Summarize(w) \/ MarkDone(w) \/ HandleFailure(w) => Quiet
    BY DEF Summarize, MarkDone, HandleFailure
  <2>4. WaitForInstanceSlot(w) => Quiet
    BY DEF WaitForInstanceSlot
  <2>5. QED
    BY <2>1, <2>2, <2>3, <2>4 DEF WorkerStep, ProcessStep
<1>5. UNCHANGED vars => Quiet
  BY DEF vars
<1> HIDE DEF Quiet
<1>6. QED
  BY <1>1, <1>2, <1>3, <1>4, <1>5 DEF Next, DispatcherStep, TimePasses, Quiet

(* Sets of jobs are finite and have a number of elements.                  *)
LEMMA JobSets ==
    ASSUME NEW S \in SUBSET Jobs
    PROVE  /\ IsFiniteSet(S)
           /\ Cardinality(S) \in Nat
           /\ \A j \in S : Cardinality(S \ {j}) = Cardinality(S) - 1
<1>1. IsFiniteSet(S)
  BY BroadcastAssumption, FS_Subset
<1>2. QED
  BY <1>1, FS_CardinalityType, FS_RemoveElement

LEMMA DispatcherKept ==
    TypeInv /\ DispatcherInv /\ [Next]_vars => DispatcherInv'
<1> SUFFICES ASSUME RestType, DispatcherInv, [Next]_vars
             PROVE  DispatcherInv'
  BY TypeSplit
<1> USE BroadcastAssumption DEF DispatcherInv, QueueNeverOverflows
<1>1. Len(queue) \in Nat /\ slots \in Nat /\ Cardinality(batch) \in Nat
  BY JobSets DEF RestType
<1>2. CASE UNCHANGED <<dispatcher, slots, batch, queue>>
  BY <1>2
<1>3. CASE CountSlots
  BY <1>1, <1>3 DEF CountSlots, FreeSlots
<1>4. CASE ClaimNext
  <2>1. PICK S \in SUBSET Jobs : /\ Cardinality(S) <= slots
                                 /\ batch' = S
                                 /\ dispatcher' = IF S = {} THEN "idle"
                                                            ELSE "enqueue"
    BY <1>4 DEF ClaimNext
  <2>2. Cardinality(S) \in Nat
    BY JobSets
  <2>3. queue' = queue /\ dispatcher = "claim"
    BY <1>4 DEF ClaimNext
  <2>4. QED
    BY <1>1, <2>1, <2>2, <2>3
<1>5. CASE ClaimFails
  BY <1>5 DEF ClaimFails
<1>6. ASSUME NEW j \in Jobs, TryEnqueue(j) PROVE DispatcherInv'
  <2>1. /\ dispatcher = "enqueue" /\ j \in batch /\ batch' = batch \ {j}
        /\ dispatcher' = IF batch' = {} THEN "idle" ELSE "enqueue"
        /\ queue' = queue \/ queue' = Append(queue, j)
    BY <1>6 DEF TryEnqueue
  <2>2. Cardinality(batch') = Cardinality(batch) - 1
    BY <2>1, JobSets DEF RestType
  <2>3. Len(queue') <= Len(queue) + 1 /\ Len(queue') \in Nat
    BY <2>1 DEF RestType
  <2>4. QED
    BY <1>1, <2>1, <2>2, <2>3
<1>7. ASSUME NEW w \in Workers, TakeJob(w) PROVE DispatcherInv'
  <2>1. UNCHANGED <<dispatcher, slots, batch>> /\ queue # <<>> /\ queue' = Tail(queue)
    BY <1>7 DEF TakeJob
  <2>2. Len(queue') = Len(queue) - 1
    BY <2>1 DEF RestType
  <2>3. QED
    BY <1>1, <2>1, <2>2
<1>8. CASE Restart
  BY <1>8 DEF Restart
<1>9. QED
  BY <1>2, <1>3, <1>4, <1>5, <1>6, <1>7, <1>8, DispatcherCases

-----------------------------------------------------------------------------
(* Who holds a job.                                                        *)

(* Steps after which nobody holds a job that it did not hold before, and   *)
(* no job that is still held has changed.                                  *)
NoNewHolder ==
    /\ batch' \subseteq batch
    /\ queue' = queue \/ queue' = <<>>
    /\ \A w \in Workers, j \in Jobs : Holds(w, j)' => Holds(w, j)
    /\ \A j \in Jobs :
          InFlight(j)' => /\ status'[j] = status[j]
                          /\ claimed'[j] = claimed[j]
                          /\ attempts'[j] = attempts[j]

LEMMA NoNewHolderKeeps ==
    ASSUME RestType, OneHolder, NoNewHolder
    PROVE  OneHolder'
<1>1. \A j \in Jobs : InQueue(j)' => InQueue(j)
  BY DEF InQueue, NoNewHolder, RestType
<1>2. \A j \in Jobs : j \in batch' => j \in batch
  BY DEF NoNewHolder
<1>3. \A j \in Jobs : InFlight(j)' => InFlight(j)
  BY <1>1, <1>2 DEF NoNewHolder, InFlight
<1>4. \A j \in Jobs : InFlight(j)' => /\ status'[j] = "processing"
                                      /\ claimed'[j] = attempts'[j]
  BY <1>3 DEF NoNewHolder, OneHolder
<1>5. \A j \in batch' : ~InQueue(j)'
  BY <1>1, <1>2 DEF NoNewHolder, OneHolder, RestType
<1>6. \A i, k \in 1..Len(queue') : queue'[i] = queue'[k] => i = k
  BY SMTT(60) DEF NoNewHolder, OneHolder, RestType
<1>7. \A w \in Workers, j \in Jobs :
          Holds(w, j)' => /\ j \notin batch'
                          /\ ~InQueue(j)'
                          /\ \A v \in Workers : Holds(v, j)' => v = w
  BY <1>1, <1>2 DEF NoNewHolder, OneHolder
<1>8. QED
  BY <1>4, <1>5, <1>6, <1>7 DEF OneHolder

(* A worker in the middle of a job goes on with it or gives it up.         *)
Moves(w) ==
    /\ pc[w] # "idle"
    /\ \E l \in WorkerPC : pc' = [pc EXCEPT ![w] = l]
    /\ job' = job \/ job' = [job EXCEPT ![w] = None]

LEMMA MovesHolds ==
    ASSUME WorkType, NEW w \in Workers, Moves(w)
    PROVE  \A v \in Workers, j \in Jobs : Holds(v, j)' => Holds(v, j)
<1> SUFFICES ASSUME NEW v \in Workers, NEW j \in Jobs, Holds(v, j)'
             PROVE  Holds(v, j)
  OBVIOUS
<1>1. job'[v] = j /\ j # None
  BY BroadcastAssumption DEF Holds
<1>2. job[v] = j
  BY <1>1 DEF Moves, WorkType
<1>3. pc[v] # "idle"
  <2>1. CASE v = w
    BY <2>1 DEF Moves
  <2>2. CASE v # w
    BY <2>2 DEF Moves, Holds, WorkType
  <2>3. QED
    BY <2>1, <2>2
<1>4. QED
  BY <1>2, <1>3 DEF Holds

LEMMA WorkerMoves ==
    ASSUME NEW w \in Workers, WorkerStep(w)
    PROVE  TakeJob(w) \/ Moves(w)
<1> USE DEF Moves, Goto, WorkerPC
<1>1. WaitForInstanceSlot(w) => Moves(w)
  BY DEF WaitForInstanceSlot
<1>2. LoadProgress(w) => Moves(w)
  BY DEF LoadProgress, Fail, StartLoop
<1>3. LoadContacts(w) => Moves(w)
  BY DEF LoadContacts, Fail
<1>4. SeedProgress(w) => Moves(w)
  BY DEF SeedProgress, Fail
<1>5. ListSeeded(w) => Moves(w)
  BY DEF ListSeeded, Fail, StartLoop
<1>6. Attempt(w) => Moves(w)
  BY DEF Attempt, Fail, SaveFails
<1>7. SendText(w) => Moves(w)
  BY DEF SendText, Fail
<1>8. Record(w) => Moves(w)
  BY DEF Record, Fail, SaveFails
<1>9. Summarize(w) => Moves(w)
  BY DEF Summarize, Release
<1>10. MarkDone(w) => Moves(w)
  BY DEF MarkDone, Release
<1>11. HandleFailure(w) => Moves(w)
  BY DEF HandleFailure, Release
<1>12. QED
  BY <1>1, <1>2, <1>3, <1>4, <1>5, <1>6, <1>7, <1>8, <1>9, <1>10, <1>11
     DEF WorkerStep, ProcessStep

(* What Process does while it keeps the job.                               *)
LEMMA ProcessFrame ==
    ASSUME NEW w \in Workers,
           WaitForInstanceSlot(w) \/ ProcessStep(w) \/ Summarize(w)
    PROVE  UNCHANGED <<status, attempts, maxAttempts, claimed, batch, queue,
                       dispatcher, slots>>
<1>1. CASE WaitForInstanceSlot(w) \/ Summarize(w)
  BY <1>1 DEF WaitForInstanceSlot, Summarize
<1>2. CASE LoadProgress(w) \/ LoadContacts(w) \/ ListSeeded(w)
  BY <1>2 DEF LoadProgress, LoadContacts, ListSeeded
<1>3. CASE SeedProgress(w) \/ Attempt(w) \/ SendText(w) \/ Record(w)
  BY <1>3 DEF SeedProgress, Attempt, SendText, Record
<1>4. QED
  BY <1>1, <1>2, <1>3 DEF ProcessStep

(* When a worker gives its job up, nobody holds that job any more.         *)
LEMMA ReleasedFree ==
    ASSUME WorkType, OneHolder, NEW w \in Workers, pc[w] # "idle",
           Release(w), UNCHANGED <<batch, queue>>,
           NEW j \in Jobs, j = job[w]
    PROVE  ~InFlight(j)'
<1>1. Holds(w, j)
  BY DEF Holds
<1>2. j \notin batch' /\ ~InQueue(j)'
  BY <1>1 DEF OneHolder, InQueue
<1>3. ASSUME NEW v \in Workers, pc'[v] # "idle", job'[v] = j PROVE FALSE
  <2>1. v # w
    BY <1>3 DEF Release, Goto, WorkType
  <2>2. Holds(v, j)
    BY <1>3, <2>1 DEF Release, Goto, WorkType, Holds
  <2>3. QED
    BY <1>1, <2>1, <2>2 DEF OneHolder
<1>4. QED
  BY <1>2, <1>3 DEF InFlight, Holds

(* The actions that touch a job row, a holder of a job, or neither.        *)
LEMMA JobCases ==
    ASSUME [Next]_vars
    PROVE  \/ UNCHANGED <<status, attempts, maxAttempts, claimed, batch, queue,
                          pc, job>>
           \/ \E j \in Jobs, m \in AttemptInputs, later \in BOOLEAN :
                 Create(j, m, later)
           \/ Restart
           \/ ClaimNext
           \/ ClaimFails
           \/ \E j \in Jobs : TryEnqueue(j)
           \/ \E w \in Workers :
                 \/ TakeJob(w)
                 \/ WaitForInstanceSlot(w) \/ ProcessStep(w) \/ Summarize(w)
                 \/ MarkDone(w) \/ HandleFailure(w)
<1> DEFINE Quiet == UNCHANGED <<status, attempts, maxAttempts, claimed, batch,
                                queue, pc, job>>
<1>1. \A p, q, link : CreateContact(p, link) \/ UpdateContact(p, q, link) => Quiet
  BY DEF CreateContact, UpdateContact
<1>2. \A j, p, k, state : HandleReceipt(j, p, k, state) => Quiet
  BY DEF HandleReceipt
<1>3. ASSUME NEW j \in Jobs PROVE CreatorStep(j) \/ BecomeDue(j) => Quiet
  BY DEF CreatorStep, SnapshotContacts, InsertSnapshot, BecomeDue
<1>4. ASSUME NEW i \in Instances PROVE SlotElapses(i) => Quiet
  BY DEF SlotElapses
<1>5. UNCHANGED vars \/ CountSlots => Quiet
  BY DEF vars, CountSlots
<1> HIDE DEF Quiet
<1>6. QED
  BY <1>1, <1>2, <1>3, <1>4, <1>5
     DEF Next, Environment, DispatcherStep, WorkerStep, TimePasses, Quiet

LEMMA HolderKept ==
    TypeInv /\ DispatcherInv /\ OneHolder /\ [Next]_vars => OneHolder'
<1> SUFFICES ASSUME WorkType, RestType, DispatcherInv, OneHolder, [Next]_vars
             PROVE  OneHolder'
  BY TypeSplit
<1> USE BroadcastAssumption
(* Steps that touch neither a job row nor a holder.                        *)
<1>1. CASE UNCHANGED <<status, attempts, claimed, batch, queue, pc, job>>
  <2>1. NoNewHolder
    BY <1>1 DEF NoNewHolder, Holds
  <2>2. QED
    BY <2>1, NoNewHolderKeeps
<1>2. ASSUME NEW j \in Jobs, NEW m, NEW later, Create(j, m, later)
      PROVE  OneHolder'
  <2>1. ~InFlight(j)
    BY <1>2 DEF Create, OneHolder
  <2>2. UNCHANGED <<attempts, claimed, batch, queue, pc, job>>
    BY <1>2 DEF Create
  <2>3. \A x \in Jobs : x # j => status'[x] = status[x]
    BY <1>2 DEF Create, RestType
  <2>4. \A x \in Jobs : InFlight(x)' <=> InFlight(x)
    BY <2>2 DEF InFlight, InQueue, Holds
  <2>5. NoNewHolder
    BY <2>1, <2>2, <2>3, <2>4 DEF NoNewHolder, Holds
  <2>6. QED
    BY <2>5, NoNewHolderKeeps
<1>3. CASE Restart
  <2>1. \A w \in Workers, j \in Jobs : ~Holds(w, j)'
    BY <1>3 DEF Restart, Holds
  <2>2. NoNewHolder
    BY <1>3, <2>1 DEF Restart, NoNewHolder, RestType
  <2>3. QED
    BY <2>2, NoNewHolderKeeps
<1>4. CASE ClaimNext
  <2>1. PICK S \in SUBSET Jobs :
           /\ \A j \in S : Claimable(j)
           /\ status'   = [j \in Jobs |-> IF j \in S THEN "processing"
                                                     ELSE status[j]]
           /\ attempts' = [j \in Jobs |-> IF j \in S THEN attempts[j] + 1
                                                     ELSE attempts[j]]
           /\ claimed'  = [j \in Jobs |-> IF j \in S THEN attempts[j] + 1
                                                     ELSE claimed[j]]
           /\ batch'    = S
    BY <1>4 DEF ClaimNext
  <2>2. UNCHANGED <<queue, pc, job>> /\ batch = {}
    BY <1>4 DEF ClaimNext, DispatcherInv
  <2>3. \A j \in S : ~InFlight(j)
    BY <2>1 DEF OneHolder, Claimable
  <2>4. \A j \in Jobs : /\ InQueue(j)' <=> InQueue(j)
                        /\ \A w \in Workers : Holds(w, j)' <=> Holds(w, j)
    BY <2>2 DEF InQueue, Holds
  <2>5. \A j \in Jobs : InFlight(j)' => j \in S \/ InFlight(j)
    BY <2>1, <2>4 DEF InFlight
  <2>6. \A j \in Jobs : InFlight(j)' => /\ status'[j] = "processing"
                                        /\ claimed'[j] = attempts'[j]
    BY <2>1, <2>3, <2>5 DEF OneHolder
  <2>7. \A j \in batch' : ~InQueue(j)'
    BY <2>1, <2>3, <2>4 DEF InFlight
  <2>8. \A w \in Workers, j \in Jobs : Holds(w, j)' => j \notin batch'
    BY <2>1, <2>3, <2>4 DEF InFlight
  <2>9. \A i, k \in 1..Len(queue') : queue'[i] = queue'[k] => i = k
    BY <2>2 DEF OneHolder
  <2>10. \A w \in Workers, j \in Jobs :
            Holds(w, j)' => /\ ~InQueue(j)'
                            /\ \A v \in Workers : Holds(v, j)' => v = w
    BY <2>4 DEF OneHolder
  <2>11. QED
    BY <2>6, <2>7, <2>8, <2>9, <2>10 DEF OneHolder
<1>5. CASE ClaimFails
  <2>1. PICK S \in SUBSET Jobs :
           /\ \A j \in S : Claimable(j)
           /\ status'   = [j \in Jobs |-> IF j \in S THEN "processing"
                                                     ELSE status[j]]
           /\ attempts' = [j \in Jobs |-> IF j \in S THEN attempts[j] + 1
                                                     ELSE attempts[j]]
    BY <1>5 DEF ClaimFails
  <2>2. UNCHANGED <<batch, queue, claimed, pc, job>>
    BY <1>5 DEF ClaimFails
  <2>3. \A j \in S : ~InFlight(j)
    BY <2>1 DEF OneHolder, Claimable
  <2>4. \A j \in Jobs : InFlight(j)' <=> InFlight(j)
    BY <2>2 DEF InFlight, InQueue, Holds
  <2>5. NoNewHolder
    BY <2>1, <2>2, <2>3, <2>4 DEF NoNewHolder, Holds
  <2>6. QED
    BY <2>5, NoNewHolderKeeps
<1>6. ASSUME NEW x \in Jobs, TryEnqueue(x) PROVE OneHolder'
  <2>1. /\ x \in batch /\ batch' = batch \ {x}
        /\ queue' = queue \/ queue' = Append(queue, x)
        /\ UNCHANGED <<status, attempts, claimed, pc, job>>
    BY <1>6 DEF TryEnqueue
  <2>2. \A j \in Jobs, w \in Workers : Holds(w, j)' <=> Holds(w, j)
    BY <2>1 DEF Holds
  <2>3. CASE queue' = queue
    <3>1. \A j \in Jobs : InFlight(j)' => InFlight(j)
      BY <2>1, <2>2, <2>3 DEF InFlight, InQueue
    <3>2. NoNewHolder
      BY <2>1, <2>2, <2>3, <3>1 DEF NoNewHolder
    <3>3. QED
      BY <3>2, NoNewHolderKeeps
  <2>4. CASE queue' = Append(queue, x)
    <3>1. /\ Len(queue') = Len(queue) + 1 /\ Len(queue) \in Nat
          /\ \A i \in 1..Len(queue) : queue'[i] = queue[i]
          /\ queue'[Len(queue) + 1] = x
      BY <2>4 DEF RestType
    <3>2. \A j \in Jobs : InQueue(j)' <=> InQueue(j) \/ j = x
      BY <3>1 DEF InQueue
    <3>3. ~InQueue(x) /\ \A w \in Workers : ~Holds(w, x)
      BY <2>1 DEF OneHolder
    <3>4. \A j \in Jobs : InFlight(j)' => InFlight(j)
      BY <2>1, <2>2, <3>2 DEF InFlight
    <3>5. \A j \in Jobs : InFlight(j)' => /\ status'[j] = "processing"
                                          /\ claimed'[j] = attempts'[j]
      BY <2>1, <3>4 DEF OneHolder
    <3>6. \A j \in batch' : ~InQueue(j)'
      BY <2>1, <3>2 DEF OneHolder, RestType
    <3>7. \A i, k \in 1..Len(queue') : queue'[i] = queue'[k] => i = k
      BY <3>1, <3>3 DEF OneHolder, InQueue
    <3>8. \A w \in Workers, j \in Jobs :
            Holds(w, j)' => /\ j \notin batch'
                            /\ ~InQueue(j)'
                            /\ \A v \in Workers : Holds(v, j)' => v = w
      BY <2>1, <2>2, <3>2, <3>3 DEF OneHolder
    <3>9. QED
      BY <3>5, <3>6, <3>7, <3>8 DEF OneHolder
  <2>5. QED
    BY <2>1, <2>3, <2>4
<1>7. ASSUME NEW w \in Workers, TakeJob(w) PROVE OneHolder'
  <2> DEFINE x == Head(queue)
  <2>1. /\ pc[w] = "idle" /\ queue # <<>> /\ queue' = Tail(queue)
        /\ pc' = [pc EXCEPT ![w] = "slot"] /\ job' = [job EXCEPT ![w] = x]
        /\ UNCHANGED <<status, attempts, claimed, batch>>
    BY <1>7 DEF TakeJob, Goto
  <2>2. /\ x \in Jobs /\ Len(queue') = Len(queue) - 1 /\ Len(queue) \in Nat
        /\ Len(queue) > 0
        /\ \A i \in 1..Len(queue') : queue'[i] = queue[i + 1]
        /\ queue[1] = x
    BY <2>1 DEF RestType
  <2> HIDE DEF x
  <2>3. InQueue(x)
    BY <2>2 DEF InQueue
  <2>4. x \notin batch /\ \A v \in Workers : ~Holds(v, x)
    BY <2>2, <2>3 DEF OneHolder
  <2>5. \A j \in Jobs : InQueue(j)' => InQueue(j) /\ j # x
    BY <2>2 DEF InQueue, OneHolder
  <2>6. \A v \in Workers, j \in Jobs :
           Holds(v, j)' <=> (Holds(v, j) \/ (v = w /\ j = x))
    BY <2>1 DEF Holds, WorkType
  <2>7. \A j \in Jobs : InFlight(j)' => InFlight(j)
    BY <2>1, <2>3, <2>5, <2>6 DEF InFlight
  <2>8. \A j \in Jobs : InFlight(j)' => /\ status'[j] = "processing"
                                        /\ claimed'[j] = attempts'[j]
    BY <2>1, <2>7 DEF OneHolder
  <2>9. \A j \in batch' : ~InQueue(j)'
    BY <2>1, <2>5 DEF OneHolder, RestType
  <2>10. \A i, k \in 1..Len(queue') : queue'[i] = queue'[k] => i = k
    BY <2>2 DEF OneHolder
  <2>11. \A v \in Workers, j \in Jobs :
            Holds(v, j)' => /\ j \notin batch'
                            /\ ~InQueue(j)'
                            /\ \A u \in Workers : Holds(u, j)' => u = v
    BY <2>1, <2>4, <2>5, <2>6 DEF OneHolder
  <2>12. QED
    BY <2>8, <2>9, <2>10, <2>11 DEF OneHolder
<1>8. ASSUME NEW w \in Workers,
             WaitForInstanceSlot(w) \/ ProcessStep(w) \/ Summarize(w)
      PROVE  OneHolder'
  <2>1. UNCHANGED <<status, attempts, claimed, batch, queue>>
    BY <1>8, ProcessFrame
  <2>2. ~TakeJob(w)
    BY <1>8 DEF TakeJob, ProcessStep, WaitForInstanceSlot, LoadProgress,
                LoadContacts, SeedProgress, ListSeeded, Attempt, SendText,
                Record, Summarize
  <2>3. Moves(w)
    BY <1>8, <2>2, WorkerMoves DEF WorkerStep
  <2>4. NoNewHolder
    BY <2>1, <2>3, MovesHolds DEF NoNewHolder
  <2>5. QED
    BY <2>4, NoNewHolderKeeps
<1>9. ASSUME NEW w \in Workers, MarkDone(w) \/ HandleFailure(w)
      PROVE  OneHolder'
  <2>1. /\ pc[w] # "idle" /\ Release(w)
        /\ UNCHANGED <<attempts, claimed, batch, queue>>
    BY <1>9 DEF MarkDone, HandleFailure
  <2>2. job[w] \in Jobs
    BY <2>1 DEF WorkType, WorkerHasJob
  <2>3. \A j \in Jobs : j # job[w] => status'[j] = status[j]
    BY <1>9, <2>2 DEF MarkDone, HandleFailure, RestType
  <2>4. \A j \in Jobs : j = job[w] => ~InFlight(j)'
    BY <2>1, ReleasedFree
  <2>5. Moves(w)
    BY <2>1 DEF Moves, Release, Goto, WorkerPC
  <2>6. NoNewHolder
    BY <2>1, <2>3, <2>4, <2>5, MovesHolds DEF NoNewHolder
  <2>7. QED
    BY <2>6, NoNewHolderKeeps
<1>10. QED
  BY <1>1, <1>2, <1>3, <1>4, <1>5, <1>6, <1>7, <1>8, <1>9, JobCases

-----------------------------------------------------------------------------
LEMMA HolderInit == Init => DispatcherInv /\ OneHolder
<1> SUFFICES ASSUME Init PROVE DispatcherInv /\ OneHolder
  OBVIOUS
<1>1. batch = {} /\ queue = <<>> /\ dispatcher = "idle"
  BY DEF Init
<1>2. \A w \in Workers, j \in Jobs : ~Holds(w, j)
  BY DEF Init, Holds
<1>3. Len(queue) = 0 /\ \A j \in Jobs : ~InQueue(j)
  BY <1>1 DEF InQueue
<1>4. DispatcherInv
  BY <1>1 DEF DispatcherInv, QueueNeverOverflows
<1>5. OneHolder
  BY <1>1, <1>2, <1>3 DEF OneHolder, InFlight
<1>6. QED
  BY <1>4, <1>5

(* tryEnqueue always finds room for a claimed job, so no claimed job is    *)
(* dropped while the process runs.                                         *)
THEOREM ChannelHasRoom == Spec => []QueueNeverOverflows
<1>1. Init => TypeInv /\ DispatcherInv
  BY TypeInit, HolderInit
<1>2. TypeInv /\ DispatcherInv /\ [Next]_vars => (TypeInv /\ DispatcherInv)'
  BY TypeStep, DispatcherKept
<1>3. TypeInv /\ DispatcherInv => QueueNeverOverflows
  BY DEF DispatcherInv
<1>4. QED
  BY <1>1, <1>2, <1>3, PTL DEF Spec

(* No two workers, channel positions or claims ever have the same job, and *)
(* whoever has it knows its current attempt number.                        *)
THEOREM SingleHolder == Spec => []OneHolder
<1> DEFINE I == TypeInv /\ DispatcherInv /\ OneHolder
<1>1. Init => I
  BY TypeInit, HolderInit
<1>2. I /\ [Next]_vars => I'
  BY TypeStep, DispatcherKept, HolderKept
<1>3. I => OneHolder
  OBVIOUS
<1>4. QED
  BY <1>1, <1>2, <1>3, PTL DEF Spec

-----------------------------------------------------------------------------
(* Jobs and their attempts.                                                *)

LEMMA JobKept ==
    ASSUME TypeInv, OneHolder, \A j \in Jobs : JobInv(j), [Next]_vars
    PROVE  \A j \in Jobs : JobInv(j)'
<1> SUFFICES ASSUME NEW j \in Jobs PROVE JobInv(j)'
  OBVIOUS
<1> USE BroadcastAssumption
<1>1. WorkType /\ RestType /\ JobInv(j)
  BY TypeSplit
<1>2. CASE UNCHANGED <<status, attempts, maxAttempts>>
  BY <1>1, <1>2 DEF JobInv
<1>3. ASSUME NEW x \in Jobs, NEW m \in AttemptInputs, NEW later \in BOOLEAN,
             Create(x, m, later)
      PROVE  JobInv(j)'
  <2>1. EffectiveMaxAttempts(m) \in Nat \ {0}
    BY DEF EffectiveMaxAttempts, DefaultMaxAttempts
  <2>2. QED
    BY <1>1, <1>3, <2>1 DEF Create, JobInv, RestType
<1>4. CASE ClaimNext \/ ClaimFails
  <2>1. PICK S \in SUBSET Jobs :
           /\ \A x \in S : Claimable(x)
           /\ status'   = [x \in Jobs |-> IF x \in S THEN "processing"
                                                     ELSE status[x]]
           /\ attempts' = [x \in Jobs |-> IF x \in S THEN attempts[x] + 1
                                                     ELSE attempts[x]]
    BY <1>4 DEF ClaimNext, ClaimFails
  <2>2. maxAttempts' = maxAttempts
    BY <1>4 DEF ClaimNext, ClaimFails
  <2>3. QED
    BY <1>1, <2>1, <2>2 DEF JobInv, Claimable, RestType
<1>5. ASSUME NEW w \in Workers, MarkDone(w) PROVE JobInv(j)'
  BY <1>1, <1>5 DEF MarkDone, JobInv, RestType
<1>6. ASSUME NEW w \in Workers, HandleFailure(w) PROVE JobInv(j)'
  <2>1. job[w] \in Jobs /\ Holds(w, job[w])
    BY <1>1, <1>6 DEF HandleFailure, WorkType, WorkerHasJob, Holds
  <2>2. claimed[job[w]] = attempts[job[w]]
    BY <2>1 DEF OneHolder, InFlight
  <2>3. attempts' = attempts /\ maxAttempts' = maxAttempts
    BY <1>6 DEF HandleFailure
  <2>4. status' = [status EXCEPT ![job[w]] = StatusAfterFailure(w)] \/ status' = status
    BY <1>6 DEF HandleFailure
  <2>5. StatusAfterFailure(w) = "queued" => attempts[job[w]] < maxAttempts[job[w]]
    BY <2>2 DEF StatusAfterFailure, MayRetry
  <2>6. StatusAfterFailure(w) # "none"
    BY DEF StatusAfterFailure
  <2>7. QED
    BY <1>1, <2>1, <2>3, <2>4, <2>5, <2>6 DEF JobInv, RestType
<1>7. ASSUME NEW w \in Workers,
             WaitForInstanceSlot(w) \/ ProcessStep(w) \/ Summarize(w)
      PROVE  JobInv(j)'
  BY <1>2, <1>7, ProcessFrame
<1>8. ASSUME NEW x \in Jobs, TryEnqueue(x) PROVE JobInv(j)'
  BY <1>2, <1>8 DEF TryEnqueue
<1>9. ASSUME NEW w \in Workers, TakeJob(w) PROVE JobInv(j)'
  BY <1>2, <1>9 DEF TakeJob
<1>10. CASE Restart
  BY <1>2, <1>10 DEF Restart
<1>11. QED
  BY <1>2, <1>3, <1>4, <1>5, <1>6, <1>7, <1>8, <1>9, <1>10, JobCases

-----------------------------------------------------------------------------
(* Rows and the workers' knowledge of them.                                *)

(* Row changes made by others than the worker that has the job: a missing  *)
(* row is seeded, a receipt moves a sent row on.                           *)
Benign(j) ==
    \A p \in Phones :
       \/ rows'[j][p] = rows[j][p]
       \/ /\ rows[j][p].status = "absent"
          /\ rows'[j][p] = EmptyRow("pending")
       \/ /\ rows[j][p].status \in Delivering
          /\ rows'[j][p].status \in Delivering
          /\ rows'[j][p].attempts = rows[j][p].attempts

LEMMA BenignJob ==
    ASSUME RestType, NEW j \in Jobs, Benign(j),
           calls'[j] = calls[j], attempts'[j] = attempts[j],
           \A p \in Phones : RowInv(j, p)
    PROVE  /\ \A p \in Phones : RowInv(j, p)'
           /\ Untried(j) => Untried(j)'
           /\ TriedSettled(j) => TriedSettled(j)'
           /\ HasFailures(j)' <=> HasFailures(j)
<1>1. \A p \in Phones : /\ rows[j][p] \in Row
                        /\ calls[j][p] \in Nat
                        /\ attempts[j] \in Nat
  BY DEF RestType
<1>2. /\ EmptyRow("pending").status = "pending"
      /\ EmptyRow("pending").attempts = 0
      /\ EmptyRow("pending").msg = 0
  BY DEF EmptyRow
<1>3. ASSUME NEW p \in Phones PROVE RowInv(j, p)'
  BY <1>1, <1>2 DEF Benign, RowInv, Row, Delivering
<1>4. Untried(j) => Untried(j)'
  BY <1>1, <1>2 DEF Benign, RowInv, Row, Untried
<1>5. TriedSettled(j) => TriedSettled(j)'
  BY <1>1, <1>2 DEF Benign, RowInv, Row, TriedSettled, Settled
<1>6. HasFailures(j)' <=> HasFailures(j)
  BY <1>1, <1>2 DEF Benign, HasFailures, Delivering
<1>7. QED
  BY <1>3, <1>4, <1>5, <1>6

(* The variables of worker w that its invariant mentions stay.             *)
WorkerStill(w) ==
    /\ pc'[w] = pc[w] /\ job'[w] = job[w] /\ todo'[w] = todo[w]
    /\ copy'[w] = copy[w] /\ cur'[w] = cur[w] /\ verdict'[w] = verdict[w]

LEMMA BenignWorker ==
    ASSUME RestType, WorkType, NEW w \in Workers, WorkerStill(w), WorkerInv(w),
           pc[w] # "idle" => /\ Benign(job[w])
                             /\ calls'[job[w]] = calls[job[w]]
                             /\ attempts'[job[w]] = attempts[job[w]]
                             /\ \A p \in Phones : RowInv(job[w], p)
    PROVE  WorkerInv(w)'
<1>1. CASE pc[w] = "idle"
  BY <1>1 DEF WorkerStill, WorkerInv, Before, InLoop
<1>2. CASE pc[w] # "idle"
  <2>1. PICK j \in Jobs : j = job[w]
    BY <1>2 DEF WorkType, WorkerHasJob
  <2>2. job'[w] = j /\ job[w] = j
    BY <2>1 DEF WorkerStill
  <2>3. /\ Benign(j) /\ calls'[j] = calls[j] /\ attempts'[j] = attempts[j]
        /\ \A p \in Phones : RowInv(j, p)
    BY <1>2, <2>1
  <2>4. /\ Untried(j) => Untried(j)'
        /\ TriedSettled(j) => TriedSettled(j)'
        /\ HasFailures(j)' <=> HasFailures(j)
    BY <2>3, BenignJob
  <2>5. pc'[w] \in Before => Untried(job[w])'
    BY <2>2, <2>4 DEF WorkerStill, WorkerInv, Untried
  <2>6. pc'[w] \in {"summarize", "mark"} => TriedSettled(job[w])'
    BY <2>2, <2>4 DEF WorkerStill, WorkerInv, TriedSettled
  <2>7. pc'[w] = "mark" => MarkInv(w)'
    BY <2>2, <2>4 DEF WorkerStill, WorkerInv, MarkInv, HasFailures
  <2>8. ASSUME pc'[w] \in InLoop PROVE LoopInv(w)'
    <3>1. LoopInv(w) /\ pc[w] \in InLoop /\ todo[w] \in SUBSET Phones
      BY <2>8 DEF WorkerStill, WorkerInv, WorkType
    <3>2. \A p \in todo[w] : rows'[j][p] = rows[j][p]
      BY <2>2, <2>3, <3>1 DEF LoopInv, Benign, Delivering
    <3>3. \A p \in Phones \ todo[w] :
             rows'[j][p].attempts > 0 => Settled(rows'[j][p])
      BY <2>2, <2>3, <3>1 DEF LoopInv, Benign, Settled, EmptyRow
    <3>4. QED
      BY <2>2, <2>3, <3>1, <3>2, <3>3 DEF LoopInv, WorkerStill
  <2>9. QED
    BY <2>5, <2>6, <2>7, <2>8 DEF WorkerInv
<1>3. QED
  BY <1>1, <1>2

LEMMA HonestFrame ==
    ASSUME RestType, NEW j \in Jobs, Benign(j), status'[j] = status[j],
           calls'[j] = calls[j], attempts'[j] = attempts[j],
           \A p \in Phones : RowInv(j, p), HonestInv(j)
    PROVE  HonestInv(j)'
BY BenignJob DEF HonestInv

(* A step of worker w changes no job but its own, and no other worker.     *)
LEMMA OwnJobStep ==
    ASSUME TypeInv, OneHolder, DataInv, \A j \in Jobs : JobInv(j)',
           NEW w \in Workers, pc[w] # "idle",
           UNCHANGED <<attempts, batch, queue>>,
           \A v \in Workers \ {w} : WorkerStill(v),
           \A j \in Jobs : j # job[w] => /\ status'[j] = status[j]
                                         /\ rows'[j] = rows[j]
                                         /\ calls'[j] = calls[j],
           \A j \in Jobs : j = job[w] => HonestInv(j)',
           \A j \in Jobs, p \in Phones : j = job[w] => RowInv(j, p)',
           WorkerInv(w)'
    PROVE  DataInv'
<1> USE TypeSplit
<1>1. job[w] \in Jobs /\ Holds(w, job[w]) /\ InFlight(job[w])
  BY DEF WorkType, WorkerHasJob, Holds, InFlight, OneHolder
<1>2. \A j \in Jobs : j # job[w] => Benign(j)
  BY DEF Benign
<1>3. \A j \in Jobs, p \in Phones : RowInv(j, p)'
  BY <1>2, BenignJob DEF DataInv
<1>4. ASSUME NEW j \in Jobs PROVE HonestInv(j)'
  <2>1. CASE j = job[w]
    BY <2>1
  <2>2. CASE j # job[w]
    BY <1>2, <2>2, HonestFrame DEF DataInv
  <2>3. QED
    BY <2>1, <2>2
<1>5. \A j \in Jobs : j # job[w] => (Untried(j) => Untried(j)')
  BY <1>2, BenignJob DEF DataInv
<1>6. \A i \in 1..Len(queue) : queue[i] \in Jobs /\ queue[i] # job[w]
  <2>1. ~InQueue(job[w])
    BY <1>1 DEF OneHolder
  <2>2. queue \in Seq(Jobs)
    BY DEF RestType
  <2>3. QED
    BY <2>1, <2>2 DEF InQueue
<1>7. UntriedInv'
  <2>1. \A j \in batch' : Untried(j)'
    BY <1>1, <1>5 DEF DataInv, UntriedInv, OneHolder, RestType
  <2>2. ASSUME NEW i \in 1..Len(queue') PROVE Untried(queue[i])'
    <3>1. PICK j \in Jobs : j = queue[i] /\ j # job[w]
      BY <1>6
    <3>2. Untried(j)
      BY <3>1 DEF DataInv, UntriedInv
    <3>3. Untried(j)'
      BY <1>5, <3>1, <3>2
    <3>4. QED
      BY <3>1, <3>3 DEF Untried
  <2>3. QED
    BY <2>1, <2>2 DEF UntriedInv
<1>8. ASSUME NEW v \in Workers PROVE WorkerInv(v)'
  <2>1. CASE v = w
    BY <2>1
  <2>2. CASE v # w
    <3>1. ASSUME pc[v] # "idle" PROVE job[v] \in Jobs /\ job[v] # job[w]
      BY <1>1, <2>2, <3>1 DEF WorkType, WorkerHasJob, OneHolder, Holds
    <3>2. pc[v] # "idle" => /\ Benign(job[v])
                            /\ calls'[job[v]] = calls[job[v]]
                            /\ attempts'[job[v]] = attempts[job[v]]
                            /\ \A p \in Phones : RowInv(job[v], p)
      BY <1>2, <3>1 DEF DataInv
    <3>3. WorkerStill(v) /\ WorkerInv(v)
      BY <2>2 DEF DataInv
    <3>4. QED
      BY <3>2, <3>3, BenignWorker
  <2>3. QED
    BY <2>1, <2>2
<1>9. QED
  BY <1>3, <1>4, <1>7, <1>8 DEF DataInv

(* The same, when the status stays: it is "processing".                    *)
LEMMA LocalStep ==
    ASSUME TypeInv, OneHolder, DataInv, \A j \in Jobs : JobInv(j)',
           NEW w \in Workers, pc[w] # "idle",
           UNCHANGED <<status, attempts, batch, queue>>,
           \A v \in Workers \ {w} : WorkerStill(v),
           \A j \in Jobs : j # job[w] => /\ rows'[j] = rows[j]
                                         /\ calls'[j] = calls[j],
           \A j \in Jobs, p \in Phones : j = job[w] => RowInv(j, p)',
           WorkerInv(w)'
    PROVE  DataInv'
<1>1. job[w] \in Jobs /\ status[job[w]] = "processing"
  BY TypeSplit DEF WorkType, WorkerHasJob, Holds, InFlight, OneHolder
<1>2. \A j \in Jobs : j = job[w] => HonestInv(j)'
  BY <1>1 DEF HonestInv, Completed
<1>3. QED
  BY <1>2, OwnJobStep

(* Steps of others: the rows change benignly, the workers and the claims   *)
(* stay, and job statuses change only to "queued" on creation.             *)
LEMMA OutsideStep ==
    ASSUME TypeInv, OneHolder, DataInv, \A j \in Jobs : JobInv(j)',
           UNCHANGED <<attempts, calls, batch, queue>>,
           \A w \in Workers : WorkerStill(w),
           \A j \in Jobs : Benign(j),
           \A j \in Jobs : status'[j] = status[j] \/ status'[j] = "queued"
    PROVE  DataInv'
<1> USE TypeSplit
<1>1. \A j \in Jobs, p \in Phones : RowInv(j, p)'
  BY BenignJob DEF DataInv
<1>2. ASSUME NEW j \in Jobs PROVE HonestInv(j)'
  <2>1. CASE status'[j] = status[j]
    BY <2>1, HonestFrame DEF DataInv
  <2>2. CASE status'[j] = "queued"
    BY <2>2 DEF HonestInv, Completed
  <2>3. QED
    BY <2>1, <2>2
<1>3. \A j \in Jobs : Untried(j) => Untried(j)'
  BY BenignJob DEF DataInv
<1>4. UntriedInv'
  <2>1. \A j \in batch' : Untried(j)'
    BY <1>3 DEF DataInv, UntriedInv, RestType
  <2>2. ASSUME NEW i \in 1..Len(queue') PROVE Untried(queue[i])'
    <3>1. PICK j \in Jobs : j = queue[i]
      BY DEF RestType
    <3>2. Untried(j)
      BY <3>1 DEF DataInv, UntriedInv
    <3>3. Untried(j)'
      BY <1>3, <3>1, <3>2
    <3>4. QED
      BY <3>1, <3>3 DEF Untried
  <2>3. QED
    BY <2>1, <2>2 DEF UntriedInv
<1>5. ASSUME NEW w \in Workers PROVE WorkerInv(w)'
  <2>1. pc[w] # "idle" => /\ Benign(job[w])
                          /\ calls'[job[w]] = calls[job[w]]
                          /\ attempts'[job[w]] = attempts[job[w]]
                          /\ \A p \in Phones : RowInv(job[w], p)
    BY DEF DataInv, WorkType, WorkerHasJob
  <2>2. WorkerStill(w) /\ WorkerInv(w)
    BY DEF DataInv
  <2>3. QED
    BY <2>1, <2>2, BenignWorker
<1>6. QED
  BY <1>1, <1>2, <1>4, <1>5 DEF DataInv

-----------------------------------------------------------------------------
(* DataInv, action by action.                                              *)

LEMMA EnvironmentKept ==
    ASSUME TypeInv, OneHolder, DataInv, \A j \in Jobs : JobInv(j)',
           \/ Environment
           \/ \E j \in Jobs : CreatorStep(j)
           \/ CountSlots
           \/ TimePasses
           \/ UNCHANGED vars
    PROVE  DataInv'
<1> USE TypeSplit
<1>1. CASE UNCHANGED <<dbVars, rows, calls, batch, queue, workVars>>
  BY <1>1, OutsideStep DEF Benign, WorkerStill
<1>2. ASSUME NEW p, NEW q, NEW link,
             CreateContact(p, link) \/ UpdateContact(p, q, link)
      PROVE  DataInv'
  BY <1>1, <1>2 DEF CreateContact, UpdateContact
<1>3. ASSUME NEW x \in Jobs, NEW m, NEW later, Create(x, m, later)
      PROVE  DataInv'
  <2>1. UNCHANGED <<attempts, calls, rows, batch, queue, workVars>>
    BY <1>3 DEF Create
  <2>2. \A j \in Jobs : status'[j] = status[j] \/ status'[j] = "queued"
    BY <1>3 DEF Create, RestType
  <2>3. QED
    BY <2>1, <2>2, OutsideStep DEF Benign, WorkerStill
<1>4. ASSUME NEW x \in Jobs, NEW p \in Phones, NEW k \in 1..calls[x][p],
             NEW state \in {"delivered", "read"}, HandleReceipt(x, p, k, state)
      PROVE  DataInv'
  <2>1. UNCHANGED <<dbVars, calls, batch, queue, workVars>>
    BY <1>4 DEF HandleReceipt
  <2>2. k > 0 /\ calls[x][p] \in Nat
    BY DEF RestType
  <2>3. rows[x][p].status \in Delivering
    BY <1>4, <2>2 DEF HandleReceipt, ReceiptMatches, DataInv, RowInv
  <2>4. \A j \in Jobs : Benign(j)
    BY <1>4, <2>3, ReceiptEffect, SMTT(60) DEF Benign, Delivering, RestType
  <2>5. QED
    BY <2>1, <2>4, OutsideStep DEF WorkerStill
<1>5. ASSUME NEW x \in Jobs, CreatorStep(x) PROVE DataInv'
  <2>1. UNCHANGED <<dbVars, calls, batch, queue, workVars>>
    BY <1>5 DEF CreatorStep, SnapshotContacts, InsertSnapshot
  <2>2. rows' = rows \/ SeedRows(x, audience[x])
    BY <1>5 DEF CreatorStep, SnapshotContacts, InsertSnapshot
  <2>3. \A j \in Jobs : Benign(j)
    BY <2>2, SeedRowsEffect DEF Benign, RestType
  <2>4. QED
    BY <2>1, <2>3, OutsideStep DEF WorkerStill
<1>6. CASE Restart
  <2>1. UNCHANGED <<dbVars, calls, rows>> /\ batch' = {} /\ queue' = <<>>
    BY <1>6 DEF Restart
  <2>2. \A j \in Jobs : Benign(j)
    BY <2>1 DEF Benign
  <2>3. \A j \in Jobs : HonestInv(j)' /\ \A p \in Phones : RowInv(j, p)'
    BY <2>1, <2>2, HonestFrame, BenignJob DEF DataInv
  <2>4. \A w \in Workers : WorkerInv(w)'
    BY <1>6 DEF Restart, WorkerInv, Before, InLoop
  <2>5. UntriedInv'
    BY <2>1 DEF UntriedInv
  <2>6. QED
    BY <2>3, <2>4, <2>5 DEF DataInv
<1>7. CASE CountSlots
  BY <1>1, <1>7 DEF CountSlots
<1>8. CASE TimePasses
  <2>1. UNCHANGED <<status, attempts, rows, calls, batch, queue, workVars>>
    BY <1>8 DEF TimePasses, BecomeDue, SlotElapses
  <2>2. QED
    BY <2>1, OutsideStep DEF Benign, WorkerStill
<1>9. CASE UNCHANGED vars
  BY <1>1, <1>9 DEF vars
<1>10. QED
  BY <1>2, <1>3, <1>4, <1>5, <1>6, <1>7, <1>8, <1>9 DEF Environment

LEMMA ClaimKept ==
    ASSUME TypeInv, DispatcherInv, OneHolder, DataInv,
           \A j \in Jobs : JobInv(j)', ClaimNext \/ ClaimFails
    PROVE  DataInv'
<1> USE TypeSplit
<1>1. PICK S \in SUBSET Jobs :
         /\ \A x \in S : Claimable(x)
         /\ status'   = [x \in Jobs |-> IF x \in S THEN "processing"
                                                   ELSE status[x]]
         /\ attempts' = [x \in Jobs |-> IF x \in S THEN attempts[x] + 1
                                                   ELSE attempts[x]]
         /\ batch' = S \/ batch' = {}
  BY DEF ClaimNext, ClaimFails, DispatcherInv
<1>2. UNCHANGED <<rows, calls, queue, workVars>>
  BY DEF ClaimNext, ClaimFails
<1>3. \A j \in S : ~InFlight(j) /\ status[j] = "queued"
  BY <1>1 DEF OneHolder, Claimable
<1>4. \A j \in Jobs : Benign(j)
  BY <1>2 DEF Benign
<1>5. ASSUME NEW j \in Jobs, NEW p \in Phones
      PROVE  /\ RowInv(j, p)'
             /\ j \in S => rows'[j][p].attempts < attempts'[j]
  BY <1>1, <1>2 DEF DataInv, RowInv, RestType, Row
<1>6. ASSUME NEW j \in Jobs PROVE HonestInv(j)'
  <2>1. CASE j \in S
    BY <1>1, <2>1 DEF HonestInv, Completed
  <2>2. CASE j \notin S
    BY <1>1, <1>2, <1>4, <2>2, HonestFrame DEF DataInv
  <2>3. QED
    BY <2>1, <2>2
<1>7. ASSUME NEW j \in Jobs \ S PROVE Untried(j) => Untried(j)'
  BY <1>1, <1>2, <1>4, BenignJob DEF DataInv
<1>8. UntriedInv'
  <2>1. \A j \in batch' : Untried(j)'
    BY <1>1, <1>5 DEF Untried
  <2>2. ASSUME NEW i \in 1..Len(queue') PROVE Untried(queue[i])'
    <3>1. PICK j \in Jobs : j = queue[i] /\ InQueue(j)
      BY <1>2 DEF RestType, InQueue
    <3>2. Untried(j) /\ j \notin S
      BY <1>2, <1>3, <3>1 DEF DataInv, UntriedInv, InFlight
    <3>3. Untried(j)'
      BY <1>7, <3>2
    <3>4. QED
      BY <1>2, <3>1, <3>3 DEF Untried
  <2>3. QED
    BY <2>1, <2>2 DEF UntriedInv
<1>9. ASSUME NEW w \in Workers PROVE WorkerInv(w)'
  <2>1. ASSUME pc[w] # "idle" PROVE job[w] \in Jobs \ S
    BY <1>3, <2>1 DEF WorkType, WorkerHasJob, InFlight, Holds
  <2>2. pc[w] # "idle" => /\ Benign(job[w])
                          /\ calls'[job[w]] = calls[job[w]]
                          /\ attempts'[job[w]] = attempts[job[w]]
                          /\ \A p \in Phones : RowInv(job[w], p)
    BY <1>1, <1>2, <1>4, <2>1 DEF DataInv
  <2>3. WorkerStill(w) /\ WorkerInv(w)
    BY <1>2 DEF DataInv, WorkerStill
  <2>4. QED
    BY <2>2, <2>3, BenignWorker
<1>10. QED
  BY <1>5, <1>6, <1>8, <1>9 DEF DataInv

LEMMA EnqueueKept ==
    ASSUME TypeInv, OneHolder, DataInv, \A j \in Jobs : JobInv(j)',
           NEW x \in Jobs, TryEnqueue(x)
    PROVE  DataInv'
<1> USE TypeSplit
<1>1. /\ x \in batch /\ batch' = batch \ {x}
      /\ queue' = queue \/ queue' = Append(queue, x)
      /\ UNCHANGED <<status, attempts, rows, calls, workVars>>
  BY DEF TryEnqueue
<1>2. \A j \in Jobs : Benign(j)
  BY <1>1 DEF Benign
<1>3. \A j \in Jobs : HonestInv(j)' /\ \A p \in Phones : RowInv(j, p)'
  BY <1>1, <1>2, HonestFrame, BenignJob DEF DataInv
<1>4. \A j \in Jobs : Untried(j) <=> Untried(j)'
  BY <1>1 DEF Untried
<1>5. UntriedInv'
  <2>1. \A j \in batch' : Untried(j)'
    BY <1>1, <1>4 DEF DataInv, UntriedInv, RestType
  <2>2. ASSUME NEW i \in 1..Len(queue') PROVE Untried(queue[i])'
    <3>1. PICK j \in Jobs : j = queue'[i] /\ Untried(j)
      <4>1. CASE queue' = queue
        <5>1. i \in 1..Len(queue) /\ queue[i] \in Jobs
          BY <4>1 DEF RestType
        <5>2. QED
          BY <4>1, <5>1 DEF DataInv, UntriedInv
      <4>2. CASE queue' = Append(queue, x)
        <5>1. /\ Len(queue') = Len(queue) + 1 /\ Len(queue) \in Nat
              /\ \A k \in 1..Len(queue) : queue'[k] = queue[k] /\ queue[k] \in Jobs
              /\ queue'[Len(queue) + 1] = x
          BY <4>2 DEF RestType
        <5>2. QED
          BY <1>1, <5>1 DEF DataInv, UntriedInv
      <4>3. QED
        BY <1>1, <4>1, <4>2
    <3>2. Untried(j)'
      BY <1>4, <3>1
    <3>3. QED
      BY <3>1, <3>2 DEF Untried
  <2>3. QED
    BY <2>1, <2>2 DEF UntriedInv
<1>6. ASSUME NEW w \in Workers PROVE WorkerInv(w)'
  <2>1. pc[w] # "idle" => /\ Benign(job[w])
                          /\ calls'[job[w]] = calls[job[w]]
                          /\ attempts'[job[w]] = attempts[job[w]]
                          /\ \A p \in Phones : RowInv(job[w], p)
    BY <1>1, <1>2 DEF DataInv, WorkType, WorkerHasJob
  <2>2. WorkerStill(w) /\ WorkerInv(w)
    BY <1>1 DEF DataInv, WorkerStill
  <2>3. QED
    BY <2>1, <2>2, BenignWorker
<1>7. QED
  BY <1>3, <1>5, <1>6 DEF DataInv

LEMMA TakeKept ==
    ASSUME TypeInv, OneHolder, DataInv, \A j \in Jobs : JobInv(j)',
           NEW w \in Workers, TakeJob(w)
    PROVE  DataInv'
<1> USE TypeSplit
<1>1. /\ queue # <<>> /\ queue' = Tail(queue)
      /\ pc' = [pc EXCEPT ![w] = "slot"]
      /\ job' = [job EXCEPT ![w] = Head(queue)]
      /\ UNCHANGED <<status, attempts, rows, calls, batch, todo, copy, cur,
                     verdict>>
  BY DEF TakeJob, Goto
<1>2. /\ Head(queue) = queue[1] /\ 1 \in 1..Len(queue) /\ queue[1] \in Jobs
      /\ \A i \in 1..Len(queue') : /\ queue'[i] = queue[i + 1]
                                    /\ i + 1 \in 1..Len(queue)
                                    /\ queue[i + 1] \in Jobs
  BY <1>1 DEF RestType
<1>3. \A j \in Jobs : Benign(j)
  BY <1>1 DEF Benign
<1>4. \A j \in Jobs : HonestInv(j)' /\ \A p \in Phones : RowInv(j, p)'
  BY <1>1, <1>3, HonestFrame, BenignJob DEF DataInv
<1>5. \A j \in Jobs : Untried(j) <=> Untried(j)'
  BY <1>1 DEF Untried
<1>6. UntriedInv'
  <2>1. \A j \in batch' : Untried(j)'
    BY <1>1, <1>5 DEF DataInv, UntriedInv, RestType
  <2>2. ASSUME NEW i \in 1..Len(queue') PROVE Untried(queue[i])'
    <3>1. PICK j \in Jobs : j = queue'[i] /\ Untried(j)
      BY <1>2 DEF DataInv, UntriedInv
    <3>2. Untried(j)'
      BY <1>5, <3>1
    <3>3. QED
      BY <3>1, <3>2 DEF Untried
  <2>3. QED
    BY <2>1, <2>2 DEF UntriedInv
<1>7. ASSUME NEW v \in Workers PROVE WorkerInv(v)'
  <2>1. CASE v = w
    <3>1. PICK j \in Jobs : j = queue[1] /\ Untried(j)
      BY <1>2 DEF DataInv, UntriedInv
    <3>2. pc'[w] = "slot" /\ job'[w] = j
      BY <1>1, <1>2, <3>1 DEF WorkType
    <3>3. Untried(j)'
      BY <1>5, <3>1
    <3>4. Untried(job[w])'
      BY <3>2, <3>3 DEF Untried
    <3>5. QED
      BY <2>1, <3>2, <3>4 DEF WorkerInv, InLoop
  <2>2. CASE v # w
    <3>1. pc[v] # "idle" => /\ Benign(job[v])
                            /\ calls'[job[v]] = calls[job[v]]
                            /\ attempts'[job[v]] = attempts[job[v]]
                            /\ \A p \in Phones : RowInv(job[v], p)
      BY <1>1, <1>3 DEF DataInv, WorkType, WorkerHasJob
    <3>2. WorkerStill(v) /\ WorkerInv(v)
      BY <1>1, <2>2 DEF DataInv, WorkerStill, WorkType
    <3>3. QED
      BY <3>1, <3>2, BenignWorker
  <2>3. QED
    BY <2>1, <2>2
<1>8. QED
  BY <1>4, <1>6, <1>7 DEF DataInv

(* What the leaves of the worker steps have in common.                     *)
LEMMA FailLocal ==
    ASSUME WorkType, NEW w \in Workers, NEW v, Fail(w, v)
    PROVE  /\ \A u \in Workers \ {w} : WorkerStill(u)
           /\ WorkerInv(w)'
BY DEF WorkType, Fail, Goto, WorkerStill, WorkerInv, Before, InLoop

LEMMA ReleaseLocal ==
    ASSUME WorkType, NEW w \in Workers, Release(w)
    PROVE  /\ \A u \in Workers \ {w} : WorkerStill(u)
           /\ WorkerInv(w)'
BY DEF WorkType, Release, Goto, WorkerStill, WorkerInv, Before, InLoop

LEMMA StartLoopLocal ==
    ASSUME WorkType, RestType, NEW w \in Workers, pc[w] # "idle",
           StartLoop(w), UNCHANGED <<rows, calls, attempts>>,
           Untried(job[w]), \A p \in Phones : RowInv(job[w], p)
    PROVE  /\ \A u \in Workers \ {w} : WorkerStill(u)
           /\ WorkerInv(w)'
<1>1. PICK j \in Jobs : j = job[w]
  BY DEF WorkType, WorkerHasJob
<1>2. /\ copy'[w] = rows[j] /\ todo'[w] = PendingPhones(j) /\ job'[w] = j
      /\ pc'[w] = IF PendingPhones(j) = {} THEN "summarize" ELSE "attempt"
  BY <1>1 DEF StartLoop, Goto, WorkType
<1>3. \A p \in PendingPhones(j) : rows[j][p].status = "pending" /\ p \in Phones
  BY <1>1 DEF PendingPhones, Listed, Settled, RestType, Row, RowStatus
<1>4. \A p \in Phones \ PendingPhones(j) :
         rows[j][p].attempts > 0 => Settled(rows[j][p])
  BY <1>1 DEF PendingPhones, Listed, RowInv
<1>5. \A u \in Workers \ {w} : WorkerStill(u)
  BY DEF StartLoop, Goto, WorkerStill, WorkType
<1>6. CASE PendingPhones(j) = {}
  BY <1>2, <1>4, <1>5, <1>6
     DEF WorkerInv, Before, InLoop, TriedSettled
<1>7. CASE PendingPhones(j) # {}
  <2>1. pc'[w] = "attempt"
    BY <1>2, <1>7
  <2>2. LoopInv(w)'
    BY <1>1, <1>2, <1>3, <1>4, <2>1 DEF LoopInv, Untried
  <2>3. QED
    BY <1>5, <2>1, <2>2 DEF WorkerInv, Before, InLoop
<1>8. QED
  BY <1>6, <1>7

(* Steps of the worker that do not touch the rows.                         *)
LEMMA ReadingKept ==
    ASSUME TypeInv, OneHolder, DataInv, \A j \in Jobs : JobInv(j)',
           NEW w \in Workers,
           \/ WaitForInstanceSlot(w) \/ LoadProgress(w) \/ LoadContacts(w)
           \/ ListSeeded(w) \/ Summarize(w)
    PROVE  DataInv'
<1> USE TypeSplit
<1>1. pc[w] # "idle" /\ UNCHANGED <<status, attempts, batch, queue, rows, calls>>
  BY DEF WaitForInstanceSlot, LoadProgress, LoadContacts, ListSeeded, Summarize
<1>2. PICK j \in Jobs : j = job[w]
  BY <1>1 DEF WorkType, WorkerHasJob
<1>3. \A p \in Phones : RowInv(j, p) /\ RowInv(j, p)'
  BY <1>1 DEF DataInv, RowInv
<1>4. WorkerInv(w) /\ (Untried(j) <=> Untried(j)')
  BY <1>1 DEF DataInv, Untried
<1> DEFINE Done == /\ \A u \in Workers \ {w} : WorkerStill(u)
                   /\ WorkerInv(w)'
<1>5. SUFFICES Done
  BY <1>1, <1>2, <1>3, LocalStep
<1>6. ASSUME NEW v, Fail(w, v) PROVE Done
  BY <1>6, FailLocal
<1>7. ASSUME StartLoop(w), pc[w] \in Before PROVE Done
  BY <1>1, <1>2, <1>3, <1>4, <1>7, StartLoopLocal DEF WorkerInv
<1>8. ASSUME NEW l \in Before, Goto(w, l), pc[w] \in Before,
             UNCHANGED <<job, todo, copy, cur, verdict>>
      PROVE  Done
  <2>1. \A u \in Workers \ {w} : WorkerStill(u)
    BY <1>8 DEF Goto, WorkerStill, WorkType
  <2>2. pc'[w] = l /\ job'[w] = j
    BY <1>2, <1>8 DEF Goto, WorkType
  <2>3. Untried(job[w])'
    BY <1>1, <1>2, <1>4, <1>8, <2>2 DEF WorkerInv, Untried
  <2>4. QED
    BY <2>1, <2>2, <2>3 DEF WorkerInv, Before, InLoop
<1> HIDE DEF Done
<1>9. CASE WaitForInstanceSlot(w)
  BY <1>8, <1>9 DEF WaitForInstanceSlot, Before
<1>10. CASE LoadProgress(w)
  BY <1>6, <1>7, <1>8, <1>10 DEF LoadProgress, Before
<1>11. CASE LoadContacts(w)
  BY <1>6, <1>8, <1>11 DEF LoadContacts, Before
<1>12. CASE ListSeeded(w)
  BY <1>6, <1>7, <1>12 DEF ListSeeded, Before
<1>13. CASE Summarize(w)
  <2>1. CASE Release(w)
    BY <2>1, ReleaseLocal DEF Done
  <2>2. CASE /\ Goto(w, "mark")
             /\ verdict' = [verdict EXCEPT ![w] =
                              IF HasFailures(job[w]) THEN "failures"
                                                     ELSE "clean"]
             /\ copy' = [copy EXCEPT ![w] = NoRows]
             /\ UNCHANGED <<job, seed, todo, cur>>
    <3>1. \A u \in Workers \ {w} : WorkerStill(u)
      BY <2>2 DEF Goto, WorkerStill, WorkType
    <3>2. /\ pc'[w] = "mark" /\ job'[w] = j
          /\ verdict'[w] = IF HasFailures(j) THEN "failures" ELSE "clean"
      BY <1>2, <2>2 DEF Goto, WorkType
    <3>3. TriedSettled(j)
      BY <1>2, <1>4, <1>13 DEF Summarize, WorkerInv
    <3>4. TriedSettled(job[w])' /\ (HasFailures(job[w])' <=> HasFailures(j))
      BY <1>1, <3>2, <3>3 DEF TriedSettled, HasFailures
    <3>5. QED
      BY <3>1, <3>2, <3>4 DEF Done, WorkerInv, MarkInv, Before, InLoop
  <2>3. QED
    BY <1>13, <2>1, <2>2 DEF Summarize
<1>14. QED
  BY <1>9, <1>10, <1>11, <1>12, <1>13

LEMMA SeedKept ==
    ASSUME TypeInv, OneHolder, DataInv, \A j \in Jobs : JobInv(j)',
           NEW w \in Workers, SeedProgress(w)
    PROVE  DataInv'
<1> USE TypeSplit
<1>1. pc[w] = "seed" /\ UNCHANGED <<status, attempts, batch, queue, calls>>
  BY DEF SeedProgress
<1>2. PICK j \in Jobs : j = job[w]
  BY <1>1 DEF WorkType, WorkerHasJob
<1>3. rows' = rows \/ SeedRows(j, seed[w])
  BY <1>2 DEF SeedProgress
<1>4. Benign(j) /\ \A x \in Jobs : x # j => rows'[x] = rows[x]
  BY <1>3, SeedRowsEffect DEF Benign, RestType, SeedRows
<1>5. \A p \in Phones : RowInv(j, p)'
  BY <1>1, <1>4, BenignJob DEF DataInv
<1>6. Untried(j)'
  BY <1>1, <1>2, <1>4, BenignJob DEF DataInv, WorkerInv, Before
<1>7. (\A u \in Workers \ {w} : WorkerStill(u)) /\ WorkerInv(w)'
  <2>1. CASE Fail(w, "retryable")
    BY <2>1, FailLocal
  <2>2. CASE Goto(w, "list") /\ UNCHANGED <<job, seed, todo, copy, cur, verdict>>
    <3>1. \A u \in Workers \ {w} : WorkerStill(u)
      BY <2>2 DEF Goto, WorkerStill, WorkType
    <3>2. pc'[w] = "list" /\ job'[w] = j
      BY <1>2, <2>2 DEF Goto, WorkType
    <3>3. Untried(job[w])'
      BY <1>6, <3>2 DEF Untried
    <3>4. QED
      BY <3>1, <3>2, <3>3 DEF WorkerInv, InLoop
  <2>3. QED
    BY <2>1, <2>2 DEF SeedProgress
<1>8. QED
  BY <1>1, <1>2, <1>4, <1>5, <1>7, LocalStep

(* The rows that an attempt and its answer write.                          *)
LEMMA WrittenRows ==
    ASSUME NEW r \in Row
    PROVE  /\ AttemptRow(r).attempts = r.attempts + 1
           /\ AttemptRow(r).status = "pending"
           /\ AttemptRow(r).msg = r.msg
           /\ \A v, k : /\ ResultRow(r, v, k).attempts = r.attempts
                        /\ ResultRow(r, v, k).status =
                              CASE v = "sent"      -> "sent"
                                [] v = "permanent" -> "failed"
                                [] OTHER           -> "pending"
                        /\ v # "sent" => ResultRow(r, v, k).msg = r.msg
BY DEF AttemptRow, ResultRow, Row

(* Writing row r for recipient p of the worker's job.                      *)
Writes(j, p, r) ==
    /\ rows' \in [Jobs -> [Phones -> Row]]
    /\ \A x \in Jobs : x # j => rows'[x] = rows[x]
    /\ \A y \in Phones : rows'[j][y] = IF y = p THEN r ELSE rows[j][y]

LEMMA WriteEffect ==
    ASSUME RestType, NEW j \in Jobs, NEW p \in Phones, NEW r \in Row,
           rows' = [rows EXCEPT ![j][p] = r]
    PROVE  Writes(j, p, r)
<1>1. rows \in [Jobs -> [Phones -> Row]]
  BY DEF RestType
<1>2. /\ rows' \in [Jobs -> [Phones -> Row]]
      /\ \A x \in Jobs, y \in Phones :
            rows'[x][y] = IF x = j /\ y = p THEN r ELSE rows[x][y]
  BY <1>1, PutCell, ZenonT(60)
<1>3. \A x \in Jobs : x # j => rows'[x] = rows[x]
  BY <1>1
<1>4. QED
  BY <1>2, <1>3 DEF Writes

LEMMA AttemptKept ==
    ASSUME TypeInv, OneHolder, DataInv, \A j \in Jobs : JobInv(j)',
           NEW w \in Workers, Attempt(w)
    PROVE  DataInv'
<1> USE TypeSplit
<1>1. pc[w] = "attempt" /\ UNCHANGED <<status, attempts, batch, queue, calls>>
  BY DEF Attempt
<1>2. PICK j \in Jobs : j = job[w]
  BY <1>1 DEF WorkType, WorkerHasJob
<1>3. LoopInv(w) /\ (\A p \in Phones : RowInv(j, p)) /\ todo[w] \in SUBSET Phones
  BY <1>1 DEF DataInv, WorkerInv, InLoop, WorkType
<1>4. CASE Fail(w, "retryable") /\ UNCHANGED rows
  <2>1. \A p \in Phones : RowInv(j, p)'
    BY <1>1, <1>3, <1>4 DEF RowInv
  <2>2. QED
    BY <1>1, <1>2, <1>4, <2>1, FailLocal, LocalStep
<1>5. ASSUME NEW p \in todo[w], NEW r, r = AttemptRow(copy[w][p]),
             \/ /\ SaveRow(w, p, r)
                /\ cur' = [cur EXCEPT ![w] = p]
                /\ Goto(w, "send")
                /\ UNCHANGED <<job, seed, todo, verdict>>
             \/ SaveFails(w, p, r)
      PROVE  DataInv'
  <2>1. /\ p \in Phones /\ copy[w][p] = rows[j][p] /\ rows[j][p] \in Row
        /\ rows[j][p].status = "pending"
        /\ rows[j][p].attempts < attempts[j] /\ attempts[j] \in Nat
        /\ calls[j][p] \in Nat
    BY <1>1, <1>2, <1>3, <1>5 DEF LoopInv, RestType
  <2>2. /\ r \in Row /\ r.attempts = rows[j][p].attempts + 1
        /\ r.status = "pending" /\ r.msg = rows[j][p].msg
    BY <1>5, <2>1, RowTypes, WrittenRows
  <2>3. rows' = [rows EXCEPT ![j][p] = r] \/ rows' = rows
    BY <1>2, <1>5 DEF SaveRow, SaveFails
  <2>4. Writes(j, p, r) \/ rows' = rows
    BY <2>1, <2>2, <2>3, WriteEffect
  <2>5. ASSUME NEW y \in Phones PROVE RowInv(j, y)'
    <3>1. rows[j][p].attempts \in Nat /\ RowInv(j, p) /\ RowInv(j, y)
      BY <1>3, <2>1 DEF Row
    <3>2. QED
      BY <1>1, <2>1, <2>2, <2>4, <3>1 DEF RowInv, Writes, Delivering
  <2>6. \A x \in Jobs : x # j => rows'[x] = rows[x]
    BY <2>4 DEF Writes
  <2>7. CASE SaveFails(w, p, r)
    BY <1>1, <1>2, <2>5, <2>6, <2>7, FailLocal, LocalStep DEF SaveFails
  <2>8. CASE /\ SaveRow(w, p, r)
             /\ cur' = [cur EXCEPT ![w] = p]
             /\ Goto(w, "send")
             /\ UNCHANGED <<job, seed, todo, verdict>>
    <3>1. Writes(j, p, r)
      BY <1>2, <2>1, <2>2, <2>8, WriteEffect DEF SaveRow
    <3>2. copy' = [copy EXCEPT ![w] = [copy[w] EXCEPT ![p] = r]]
      BY <2>8 DEF SaveRow
    <3>3. \A u \in Workers \ {w} : WorkerStill(u)
      BY <2>8, <3>2 DEF Goto, WorkerStill, WorkType
    <3>4. /\ pc'[w] = "send" /\ job'[w] = j /\ cur'[w] = p /\ todo'[w] = todo[w]
          /\ \A y \in Phones : copy'[w][y] = IF y = p THEN r ELSE copy[w][y]
      BY <1>2, <2>8, <3>2 DEF Goto, WorkType
    <3>5. calls[j][p] < r.attempts
      BY <1>3, <2>1, <2>2 DEF RowInv, Row
    <3>6. LoopInv(w)'
      BY <1>1, <1>2, <1>3, <2>1, <2>2, <3>1, <3>4, <3>5 DEF LoopInv, Writes
    <3>7. WorkerInv(w)'
      BY <3>4, <3>6 DEF WorkerInv, Before
    <3>8. QED
      BY <1>1, <1>2, <2>5, <2>6, <3>3, <3>7, LocalStep
  <2>9. QED
    BY <1>5, <2>7, <2>8
<1>6. QED
  BY <1>4, <1>5 DEF Attempt

LEMMA SendKept ==
    ASSUME TypeInv, OneHolder, DataInv, \A j \in Jobs : JobInv(j)',
           NEW w \in Workers, SendText(w)
    PROVE  DataInv'
<1> USE TypeSplit
<1>1. pc[w] = "send" /\ UNCHANGED <<status, attempts, batch, queue, rows>>
  BY DEF SendText
<1>2. PICK j \in Jobs : j = job[w]
  BY <1>1 DEF WorkType, WorkerHasJob
<1>3. PICK p \in Phones : p = cur[w]
  BY <1>1 DEF WorkType, CurInPhones
<1>4. LoopInv(w) /\ (\A y \in Phones : RowInv(j, y)) /\ todo[w] \in SUBSET Phones
  BY <1>1 DEF DataInv, WorkerInv, InLoop, WorkType
<1>5. calls \in [Jobs -> [Phones -> Nat]] /\ rows[j][p] \in Row
  BY DEF RestType
<1>6. CASE Fail(w, "retryable") /\ UNCHANGED calls
  <2>1. \A y \in Phones : RowInv(j, y)'
    BY <1>1, <1>4, <1>6 DEF RowInv
  <2>2. QED
    BY <1>1, <1>2, <1>6, <2>1, FailLocal, LocalStep
<1>7. ASSUME calls' = [calls EXCEPT ![job[w]][cur[w]] = @ + 1],
             NEW v, verdict' = [verdict EXCEPT ![w] = v],
             Goto(w, "record"), UNCHANGED <<job, seed, todo, copy, cur>>
      PROVE  DataInv'
  <2>1. calls' = [calls EXCEPT ![j][p] = calls[j][p] + 1] /\ calls[j][p] + 1 \in Nat
    BY <1>2, <1>3, <1>5, <1>7
  <2>2. \A x \in Jobs, y \in Phones :
           calls'[x][y] = IF x = j /\ y = p THEN calls[j][p] + 1 ELSE calls[x][y]
    BY <1>5, <2>1, PutCell, ZenonT(60)
  <2>3. \A x \in Jobs : x # j => calls'[x] = calls[x]
    BY <1>5, <2>1
  <2>4. \A y \in Phones : RowInv(j, y)'
    BY <1>1, <1>2, <1>3, <1>4, <1>5, <2>2 DEF RowInv, LoopInv, Row
  <2>5. \A u \in Workers \ {w} : WorkerStill(u)
    BY <1>7 DEF Goto, WorkerStill, WorkType
  <2>6. /\ pc'[w] = "record" /\ job'[w] = j /\ cur'[w] = p
        /\ todo'[w] = todo[w] /\ copy'[w] = copy[w]
    BY <1>2, <1>3, <1>7 DEF Goto, WorkType
  <2>7. LoopInv(w)'
    BY <1>1, <1>2, <1>3, <1>4, <1>5, <2>2, <2>6 DEF LoopInv
  <2>8. WorkerInv(w)'
    BY <2>6, <2>7 DEF WorkerInv, Before
  <2>9. QED
    BY <1>1, <1>2, <2>3, <2>4, <2>5, <2>8, LocalStep
<1>8. QED
  BY <1>6, <1>7 DEF SendText

LEMMA RecordKept ==
    ASSUME TypeInv, OneHolder, DataInv, \A j \in Jobs : JobInv(j)',
           NEW w \in Workers, Record(w)
    PROVE  DataInv'
<1> USE TypeSplit
<1>1. pc[w] = "record" /\ UNCHANGED <<status, attempts, batch, queue, calls>>
  BY DEF Record
<1>2. PICK j \in Jobs : j = job[w]
  BY <1>1 DEF WorkType, WorkerHasJob
<1>3. PICK p \in Phones : p = cur[w]
  BY <1>1 DEF WorkType, CurInPhones
<1>4. LoopInv(w) /\ (\A y \in Phones : RowInv(j, y)) /\ todo[w] \in SUBSET Phones
  BY <1>1 DEF DataInv, WorkerInv, InLoop, WorkType
<1>5. /\ copy[w][p] = rows[j][p] /\ rows[j][p] \in Row /\ p \in todo[w]
      /\ rows[j][p].status = "pending" /\ calls[j][p] \in Nat
      /\ verdict[w] \in Verdicts
  BY <1>1, <1>2, <1>3, <1>4 DEF LoopInv, RestType, WorkType
<1>6. PICK r \in Row : r = ResultRow(rows[j][p], verdict[w], calls[j][p])
  BY <1>5, RowTypes
<1>7. /\ r.attempts = rows[j][p].attempts
      /\ r.status = CASE verdict[w] = "sent"      -> "sent"
                      [] verdict[w] = "permanent" -> "failed"
                      [] OTHER                    -> "pending"
      /\ verdict[w] # "sent" => r.msg = rows[j][p].msg
  BY <1>5, <1>6, WrittenRows
<1>8. r = ResultRow(copy[w][cur[w]], verdict[w], calls[job[w]][cur[w]])
  BY <1>2, <1>3, <1>5, <1>6
<1>9. rows' = [rows EXCEPT ![j][p] = r] \/ rows' = rows
  BY <1>2, <1>3, <1>8 DEF Record, SaveRow, SaveFails
<1>10. Writes(j, p, r) \/ rows' = rows
  BY <1>9, WriteEffect
<1>11. ASSUME NEW y \in Phones PROVE RowInv(j, y)'
  BY <1>1, <1>4, <1>5, <1>7, <1>10 DEF RowInv, Writes, Delivering
<1>12. \A x \in Jobs : x # j => rows'[x] = rows[x]
  BY <1>10 DEF Writes
<1>13. CASE Fail(w, "retryable")
  BY <1>1, <1>2, <1>11, <1>12, <1>13, FailLocal, LocalStep
<1>14. CASE /\ verdict[w] \in {"sent", "permanent"}
            /\ SaveRow(w, p, r)
            /\ todo'    = [todo EXCEPT ![w] = todo[w] \ {p}]
            /\ cur'     = [cur EXCEPT ![w] = None]
            /\ verdict' = [verdict EXCEPT ![w] = "none"]
            /\ Goto(w, IF todo[w] \ {p} = {} THEN "summarize" ELSE "attempt")
            /\ UNCHANGED <<job, seed>>
  <2>1. Writes(j, p, r)
    BY <1>2, <1>14, WriteEffect DEF SaveRow
  <2>2. copy' = [copy EXCEPT ![w] = [copy[w] EXCEPT ![p] = r]]
    BY <1>14 DEF SaveRow
  <2>3. \A u \in Workers \ {w} : WorkerStill(u)
    BY <1>14, <2>2 DEF Goto, WorkerStill, WorkType
  <2>4. /\ pc'[w] = IF todo[w] \ {p} = {} THEN "summarize" ELSE "attempt"
        /\ job'[w] = j /\ todo'[w] = todo[w] \ {p}
        /\ \A y \in Phones : copy'[w][y] = IF y = p THEN r ELSE copy[w][y]
    BY <1>2, <1>14, <2>2 DEF Goto, WorkType
  <2>5. Settled(r)
    BY <1>7, <1>14 DEF Settled, Delivering
  <2>6. \A y \in Phones \ todo'[w] :
           rows'[j][y].attempts > 0 => Settled(rows'[j][y])
    BY <1>2, <1>4, <2>1, <2>4, <2>5 DEF LoopInv, Writes
  <2>7. \A y \in todo'[w] : /\ rows'[j][y] = rows[j][y]
                            /\ copy'[w][y] = rows[j][y]
                            /\ rows[j][y].status = "pending"
                            /\ rows[j][y].attempts < attempts[j]
    BY <1>2, <1>3, <1>4, <2>1, <2>4 DEF LoopInv, Writes
  <2>8. CASE todo[w] \ {p} = {}
    <3>1. pc'[w] = "summarize" /\ \A y \in Phones : y \notin todo'[w]
      BY <2>4, <2>8
    <3>2. TriedSettled(job[w])'
      BY <2>4, <2>6, <3>1 DEF TriedSettled
    <3>3. WorkerInv(w)'
      BY <3>1, <3>2 DEF WorkerInv, Before, InLoop
    <3>4. QED
      BY <1>1, <1>2, <1>11, <1>12, <2>3, <3>3, LocalStep
  <2>9. CASE todo[w] \ {p} # {}
    <3>1. pc'[w] = "attempt"
      BY <2>4, <2>9
    <3>2. LoopInv(w)'
      BY <1>1, <2>4, <2>6, <2>7, <3>1 DEF LoopInv
    <3>3. WorkerInv(w)'
      BY <3>1, <3>2 DEF WorkerInv, Before
    <3>4. QED
      BY <1>1, <1>2, <1>11, <1>12, <2>3, <3>3, LocalStep
  <2>10. QED
    BY <2>8, <2>9
<1>15. QED
  BY <1>2, <1>3, <1>8, <1>13, <1>14 DEF Record, SaveFails

LEMMA FinishKept ==
    ASSUME TypeInv, OneHolder, DataInv, \A j \in Jobs : JobInv(j)',
           NEW w \in Workers, MarkDone(w) \/ HandleFailure(w)
    PROVE  DataInv'
<1> USE TypeSplit
<1>1. /\ pc[w] # "idle" /\ Release(w)
      /\ UNCHANGED <<attempts, batch, queue, rows, calls>>
  BY DEF MarkDone, HandleFailure
<1>2. PICK j \in Jobs : j = job[w]
  BY <1>1 DEF WorkType, WorkerHasJob
<1>3. status[j] = "processing"
  BY <1>1, <1>2 DEF OneHolder, InFlight, Holds
<1>4. \A p \in Phones : RowInv(j, p)'
  BY <1>1 DEF DataInv, RowInv
<1>5. \A x \in Jobs : x # j => status'[x] = status[x]
  BY <1>2 DEF MarkDone, HandleFailure, RestType
<1>6. (\A u \in Workers \ {w} : WorkerStill(u)) /\ WorkerInv(w)'
  BY <1>1, ReleaseLocal
<1>7. HonestInv(j)'
  <2>1. CASE HandleFailure(w)
    <3>1. status'[j] \in {"processing", "queued", "failed"}
      BY <1>2, <1>3, <2>1 DEF HandleFailure, StatusAfterFailure, RestType
    <3>2. QED
      BY <3>1 DEF HonestInv, Completed
  <2>2. CASE MarkDone(w)
    <3>1. TriedSettled(j) /\ (verdict[w] = "failures" <=> HasFailures(j))
      BY <1>2, <2>2 DEF MarkDone, DataInv, WorkerInv, MarkInv
    <3>2. TriedSettled(j)' /\ (HasFailures(j)' <=> HasFailures(j))
      BY <1>1, <3>1 DEF TriedSettled, HasFailures
    <3>3. \/ status'[j] = "processing"
          \/ status'[j] = IF verdict[w] = "failures"
                          THEN "completed_with_failures" ELSE "completed"
      BY <1>2, <1>3, <2>2 DEF MarkDone, RestType
    <3>4. QED
      BY <3>1, <3>2, <3>3 DEF HonestInv
  <2>3. QED
    BY <2>1, <2>2
<1>8. QED
  BY <1>1, <1>2, <1>4, <1>5, <1>6, <1>7, OwnJobStep

-----------------------------------------------------------------------------
(* The inductive invariant and the safety properties.                      *)

LEMMA InductiveInit == Init => Inductive
<1> SUFFICES ASSUME Init PROVE Inductive
  OBVIOUS
<1>1. /\ batch = {} /\ queue = <<>> /\ Len(queue) = 0
      /\ \A j \in Jobs : /\ attempts[j] = 0 /\ maxAttempts[j] = 0
                         /\ status[j] = "none"
      /\ \A w \in Workers : pc[w] = "idle"
      /\ \A j \in Jobs, p \in Phones : /\ calls[j][p] = 0
                                       /\ rows[j][p] = EmptyRow("absent")
  BY DEF Init, NoRows
<1>2. \A j \in Jobs, p \in Phones : RowInv(j, p)
  BY <1>1 DEF RowInv, EmptyRow
<1>3. \A j \in Jobs : JobInv(j) /\ HonestInv(j)
  BY <1>1 DEF JobInv, HonestInv, Completed
<1>4. UntriedInv /\ \A w \in Workers : WorkerInv(w)
  BY <1>1 DEF UntriedInv, WorkerInv, Before, InLoop
<1>5. QED
  BY <1>2, <1>3, <1>4, TypeInit, HolderInit DEF Inductive, DataInv

LEMMA InductiveStep == Inductive /\ [Next]_vars => Inductive'
<1> SUFFICES ASSUME TypeInv, DispatcherInv, OneHolder, DataInv, [Next]_vars
             PROVE  DataInv'
  BY TypeStep, DispatcherKept, HolderKept DEF Inductive
<1>1. \A j \in Jobs : JobInv(j)'
  BY JobKept DEF DataInv
<1>2. ASSUME NEW w \in Workers, WorkerStep(w) PROVE DataInv'
  <2>1. CASE \/ WaitForInstanceSlot(w) \/ LoadProgress(w) \/ LoadContacts(w)
             \/ ListSeeded(w) \/ Summarize(w)
    BY <1>1, <2>1, ReadingKept
  <2>2. CASE TakeJob(w)
    BY <1>1, <2>2, TakeKept
  <2>3. CASE SeedProgress(w)
    BY <1>1, <2>3, SeedKept
  <2>4. CASE Attempt(w)
    BY <1>1, <2>4, AttemptKept
  <2>5. CASE SendText(w)
    BY <1>1, <2>5, SendKept
  <2>6. CASE Record(w)
    BY <1>1, <2>6, RecordKept
  <2>7. CASE MarkDone(w) \/ HandleFailure(w)
    BY <1>1, <2>7, FinishKept
  <2>8. QED
    BY <1>2, <2>1, <2>2, <2>3, <2>4, <2>5, <2>6, <2>7
       DEF WorkerStep, ProcessStep
<1>3. ASSUME DispatcherStep PROVE DataInv'
  <2>1. CASE CountSlots
    BY <1>1, <2>1, EnvironmentKept
  <2>2. CASE ClaimNext \/ ClaimFails
    BY <1>1, <2>2, ClaimKept
  <2>3. ASSUME NEW j \in Jobs, TryEnqueue(j) PROVE DataInv'
    BY <1>1, <2>3, EnqueueKept
  <2>4. QED
    BY <1>3, <2>1, <2>2, <2>3 DEF DispatcherStep
<1>4. QED
  BY <1>1, <1>2, <1>3, EnvironmentKept DEF Next

(* Every reachable state satisfies the inductive invariant.                *)
THEOREM InductiveHolds == Spec => []Inductive
BY InductiveInit, InductiveStep, PTL DEF Spec

(* For every number of retries, restarts and failed saves, a recipient is  *)
(* sent to at most once per claim, and a job is claimed at most            *)
(* max_attempts times.                                                     *)
THEOREM BudgetKept == Spec => []AttemptBudget
<1>1. Inductive => AttemptBudget
  BY DEF Inductive, DataInv, JobInv, RowInv, AttemptBudget
<1>2. QED
  BY <1>1, InductiveHolds, PTL

(* A final status always tells the truth about the recipients.             *)
THEOREM FinalStatusHonest == Spec => []CompletionHonest
<1>1. Inductive => CompletionHonest
  BY DEF Inductive, DataInv, HonestInv, HasFailures, TriedSettled,
         CompletionHonest
<1>2. QED
  BY <1>1, InductiveHolds, PTL

(* A job that completed or failed never changes again.                     *)
THEOREM FinalJobsStay == Spec => TerminalJobsFinal
<1>1. ASSUME Inductive, [Next]_vars PROVE FinalJobStep
  <2> SUFFICES ASSUME NEW j \in Jobs, status[j] \in Terminal
               PROVE  status'[j] = status[j] /\ attempts'[j] = attempts[j]
    BY DEF FinalJobStep
  <2>1. WorkType /\ RestType /\ OneHolder
    BY <1>1, TypeSplit DEF Inductive
  <2>2. status[j] \notin {"none", "queued", "processing"} /\ ~InFlight(j)
    BY <2>1 DEF Terminal, Completed, OneHolder
  <2>3. CASE UNCHANGED <<status, attempts>>
    BY <2>3
  <2>4. ASSUME NEW x \in Jobs, NEW m, NEW later, Create(x, m, later)
        PROVE  status'[j] = status[j] /\ attempts'[j] = attempts[j]
    BY <2>1, <2>2, <2>4 DEF Create, RestType
  <2>5. CASE ClaimNext \/ ClaimFails
    BY <2>1, <2>2, <2>5 DEF ClaimNext, ClaimFails, Claimable, RestType
  <2>6. ASSUME NEW w \in Workers, MarkDone(w) \/ HandleFailure(w)
        PROVE  status'[j] = status[j] /\ attempts'[j] = attempts[j]
    <3>1. job[w] \in Jobs /\ job[w] # j
      BY <2>1, <2>2, <2>6
         DEF MarkDone, HandleFailure, WorkType, WorkerHasJob, InFlight, Holds
    <3>2. QED
      BY <2>1, <2>6, <3>1 DEF MarkDone, HandleFailure, RestType
  <2>7. CASE Restart
    BY <2>7 DEF Restart
  <2>8. ASSUME NEW x \in Jobs, TryEnqueue(x) PROVE UNCHANGED <<status, attempts>>
    BY <2>8 DEF TryEnqueue
  <2>9. ASSUME NEW w \in Workers,
               \/ TakeJob(w)
               \/ WaitForInstanceSlot(w) \/ ProcessStep(w) \/ Summarize(w)
        PROVE  UNCHANGED <<status, attempts>>
    BY <2>9, ProcessFrame DEF TakeJob
  <2>10. QED
    BY <1>1, <2>3, <2>4, <2>5, <2>6, <2>7, <2>8, <2>9, JobCases
<1>2. Inductive /\ [Next]_vars => [FinalJobStep]_vars
  BY <1>1
<1>3. QED
  BY <1>2, InductiveHolds, PTL DEF Spec, TerminalJobsFinal

(* The ways a step changes rows or calls.                                  *)
LEMMA RowCases ==
    ASSUME [Next]_vars
    PROVE  \/ UNCHANGED <<rows, calls>>
           \/ \E j \in Jobs, p \in Phones :
                 \E k \in 1..calls[j][p], state \in {"delivered", "read"} :
                    HandleReceipt(j, p, k, state)
           \/ \E j \in Jobs : SeedRows(j, audience[j]) /\ UNCHANGED calls
           \/ \E w \in Workers :
                 \/ SeedProgress(w) \/ Attempt(w) \/ SendText(w) \/ Record(w)
<1> DEFINE Quiet == UNCHANGED <<rows, calls>>
<1>1. \A p, q, link : CreateContact(p, link) \/ UpdateContact(p, q, link) => Quiet
  BY DEF CreateContact, UpdateContact
<1>2. \A j, m, later : Create(j, m, later) => Quiet
  BY DEF Create
<1>3. Restart \/ UNCHANGED vars => Quiet
  BY DEF Restart, vars
<1>4. ASSUME NEW j \in Jobs
      PROVE  CreatorStep(j) => Quiet \/ (SeedRows(j, audience[j]) /\ UNCHANGED calls)
  BY DEF CreatorStep, SnapshotContacts, InsertSnapshot
<1>5. DispatcherStep => Quiet
  BY DEF DispatcherStep, CountSlots, ClaimNext, ClaimFails, TryEnqueue
<1>6. TimePasses => Quiet
  BY DEF TimePasses, BecomeDue, SlotElapses
<1>7. ASSUME NEW w \in Workers
      PROVE  TakeJob(w) \/ WaitForInstanceSlot(w) \/ Summarize(w) => Quiet
  BY DEF TakeJob, WaitForInstanceSlot, Summarize
<1>8. ASSUME NEW w \in Workers
      PROVE  LoadProgress(w) \/ LoadContacts(w) \/ ListSeeded(w) => Quiet
  BY DEF LoadProgress, LoadContacts, ListSeeded
<1>9. ASSUME NEW w \in Workers PROVE MarkDone(w) \/ HandleFailure(w) => Quiet
  BY DEF MarkDone, HandleFailure
<1> HIDE DEF Quiet
<1>10. QED
  BY <1>1, <1>2, <1>3, <1>4, <1>5, <1>6, <1>7, <1>8, <1>9
     DEF Next, Environment, WorkerStep, ProcessStep, Quiet

(* In a worker's step, the rows and the count of calls of every recipient  *)
(* but the pending one it handles stay.                                    *)
LEMMA OnlyPendingRowsWritten ==
    ASSUME Inductive, NEW w \in Workers, Attempt(w) \/ SendText(w) \/ Record(w),
           NEW j \in Jobs, NEW p \in Phones, Settled(rows[j][p])
    PROVE  rows'[j][p] = rows[j][p] /\ calls'[j][p] = calls[j][p]
<1>1. WorkType /\ RestType /\ OneHolder /\ DataInv
  BY TypeSplit DEF Inductive
<1>2. job[w] \in Jobs /\ pc[w] \in InLoop /\ LoopInv(w) /\ todo[w] \in SUBSET Phones
  BY <1>1 DEF Attempt, SendText, Record, WorkType, WorkerHasJob, DataInv,
              WorkerInv, InLoop
<1>3. j = job[w] => p \notin todo[w]
  BY <1>2 DEF LoopInv, Settled, Delivering
<1>4. CASE Attempt(w)
  <2>1. calls' = calls
    BY <1>4 DEF Attempt
  <2>2. \/ rows' = rows
        \/ \E q \in todo[w] : \E r : rows' = [rows EXCEPT ![job[w]][q] = r]
    BY <1>4 DEF Attempt, SaveRow, SaveFails
  <2>3. ASSUME NEW q \in todo[w], NEW r, rows' = [rows EXCEPT ![job[w]][q] = r]
        PROVE  rows'[j][p] = rows[j][p]
    BY <1>1, <1>2, <1>3, <2>3 DEF RestType
  <2>4. QED
    BY <2>1, <2>2, <2>3
<1>5. CASE SendText(w)
  <2>1. rows' = rows
    BY <1>5 DEF SendText
  <2>2. cur[w] \in todo[w]
    BY <1>2, <1>5 DEF SendText, LoopInv
  <2>3. \/ calls' = calls
        \/ calls' = [calls EXCEPT ![job[w]][cur[w]] = @ + 1]
    BY <1>5 DEF SendText
  <2>4. ASSUME NEW q \in todo[w], NEW n, calls' = [calls EXCEPT ![job[w]][q] = n]
        PROVE  calls'[j][p] = calls[j][p]
    BY <1>1, <1>2, <1>3, <2>4 DEF RestType
  <2>5. QED
    BY <2>1, <2>2, <2>3, <2>4
<1>6. CASE Record(w)
  <2>1. calls' = calls
    BY <1>6 DEF Record
  <2>2. cur[w] \in todo[w]
    BY <1>2, <1>6 DEF Record, LoopInv
  <2>3. rows' = rows \/ \E r : rows' = [rows EXCEPT ![job[w]][cur[w]] = r]
    BY <1>6 DEF Record, SaveRow, SaveFails
  <2>4. ASSUME NEW q \in todo[w], NEW r, rows' = [rows EXCEPT ![job[w]][q] = r]
        PROVE  rows'[j][p] = rows[j][p]
    BY <1>1, <1>2, <1>3, <2>4 DEF RestType
  <2>5. QED
    BY <2>1, <2>2, <2>3, <2>4
<1>7. QED
  BY <1>4, <1>5, <1>6

(* A recipient that is settled is never sent to again, keeps its message   *)
(* id and only moves towards "read".                                       *)
THEOREM SettledRowsStay == Spec => SettledRowsFinal
<1>1. ASSUME Inductive, [Next]_vars PROVE SettledRowStep
  <2> SUFFICES ASSUME NEW j \in Jobs, NEW p \in Phones, Settled(rows[j][p])
               PROVE  /\ calls'[j][p] = calls[j][p]
                      /\ rows'[j][p].msg = rows[j][p].msg
                      /\ rows'[j][p].status = "failed"
                            <=> rows[j][p].status = "failed"
                      /\ Rank(rows'[j][p]) >= Rank(rows[j][p])
    BY DEF SettledRowStep
  <2>1. RestType /\ DataInv
    BY <1>1, TypeSplit DEF Inductive
  <2>2. CASE rows'[j][p] = rows[j][p] /\ calls'[j][p] = calls[j][p]
    BY <2>2 DEF Rank
  <2>3. ASSUME NEW x \in Jobs, NEW y \in Phones, NEW k \in 1..calls[x][y],
               NEW state \in {"delivered", "read"}, HandleReceipt(x, y, k, state),
               ~(rows'[j][p] = rows[j][p])
        PROVE  /\ calls'[j][p] = calls[j][p]
               /\ rows'[j][p].msg = rows[j][p].msg
               /\ rows'[j][p].status = "failed" <=> rows[j][p].status = "failed"
               /\ Rank(rows'[j][p]) >= Rank(rows[j][p])
    <3>1. x = j /\ y = p /\ rows'[j][p].status = state
          /\ rows'[j][p].msg = rows[j][p].msg
      BY <2>1, <2>3, ReceiptEffect DEF RestType
    <3>2. rows[j][p].status # "failed" /\ (state = "delivered" => rows[j][p].status # "read")
      BY <2>3, <3>1 DEF HandleReceipt, ReceiptMatches
    <3>3. calls' = calls
      BY <2>3 DEF HandleReceipt
    <3>4. QED
      BY <3>1, <3>2, <3>3 DEF Rank
  <2>4. ASSUME NEW x \in Jobs, NEW S, SeedRows(x, S) PROVE rows'[j][p] = rows[j][p]
    BY <2>1, <2>4, SeedRowsEffect DEF RestType, Settled, Delivering
  <2>5. ASSUME NEW w \in Workers, SeedProgress(w)
        PROVE  rows'[j][p] = rows[j][p] /\ calls'[j][p] = calls[j][p]
    <3>1. calls' = calls /\ (rows' = rows \/ SeedRows(job[w], seed[w]))
      BY <2>5 DEF SeedProgress
    <3>2. job[w] \in Jobs
      BY <1>1, <2>5, TypeSplit DEF SeedProgress, Inductive, WorkType, WorkerHasJob
    <3>3. QED
      BY <2>4, <3>1, <3>2
  <2>6. CASE \E w \in Workers : Attempt(w) \/ SendText(w) \/ Record(w)
    BY <1>1, <2>2, <2>6, OnlyPendingRowsWritten
  <2>7. \A x, y, k, state : HandleReceipt(x, y, k, state) => calls' = calls
    BY DEF HandleReceipt
  <2>8. QED
    BY <1>1, <2>2, <2>3, <2>4, <2>5, <2>6, <2>7, RowCases
<1>2. Inductive /\ [Next]_vars => [SettledRowStep]_vars
  BY <1>1
<1>3. QED
  BY <1>2, InductiveHolds, PTL DEF Spec, SettledRowsFinal

-----------------------------------------------------------------------------
(* Broadcast implements BroadcastPromise.                                  *)

(* The outcome of a recipient, as the promise sees it.                     *)
OutcomeOf == [j \in Jobs |-> [p \in Phones |-> Outcome(rows[j][p])]]

LEMMA PromiseInit == Init => Promise!PInit
<1> SUFFICES ASSUME Init PROVE Promise!PInit
  OBVIOUS
<1>1. \A j \in Jobs, p \in Phones : Outcome(rows[j][p]) = "open"
  BY DEF Init, NoRows, EmptyRow, Outcome, Delivering
<1>2. QED
  BY <1>1 DEF Init, Promise!PInit

(* Steps that keep what the promise mentions.                              *)
LEMMA Stutter ==
    ASSUME UNCHANGED <<status, attempts, maxAttempts, calls>>,
           \A j \in Jobs, p \in Phones :
              Outcome(rows'[j][p]) = Outcome(rows[j][p])
    PROVE  UNCHANGED Promise!pvars
<1>1. OutcomeOf' = OutcomeOf
  BY DEF OutcomeOf
<1>2. QED
  BY <1>1 DEF Promise!pvars, OutcomeOf

LEMMA CreateIsSubmit ==
    ASSUME Inductive, NEW j \in Jobs, NEW m \in AttemptInputs, NEW later,
           Create(j, m, later)
    PROVE  Promise!Submit(j)
<1>1. RestType
  BY TypeSplit DEF Inductive
<1>2. EffectiveMaxAttempts(m) \in Nat \ {0}
  BY BroadcastAssumption DEF EffectiveMaxAttempts, DefaultMaxAttempts
<1>3. maxAttempts'[j] = EffectiveMaxAttempts(m)
  BY <1>1 DEF Create, RestType
<1>4. OutcomeOf' = OutcomeOf
  BY DEF Create, OutcomeOf
<1>5. /\ status[j] = "none"
      /\ maxAttempts' = [maxAttempts EXCEPT ![j] = maxAttempts'[j]]
      /\ status' = [status EXCEPT ![j] = "queued"]
      /\ UNCHANGED <<attempts, calls>>
  BY <1>3, Zenon DEF Create
<1>6. maxAttempts'[j] > 0
  BY <1>2, <1>3
<1>7. QED
  BY <1>4, <1>5, <1>6 DEF Promise!Submit, OutcomeOf

LEMMA ClaimIsBegin ==
    ASSUME Inductive, ClaimNext \/ ClaimFails
    PROVE  \E S \in SUBSET Jobs : Promise!Begin(S)
<1>1. PICK S \in SUBSET Jobs :
         /\ \A x \in S : Claimable(x)
         /\ status'   = [x \in Jobs |-> IF x \in S THEN "processing"
                                                   ELSE status[x]]
         /\ attempts' = [x \in Jobs |-> IF x \in S THEN attempts[x] + 1
                                                   ELSE attempts[x]]
  BY DEF ClaimNext, ClaimFails
<1>2. \A x \in S : status[x] = "queued" /\ attempts[x] < maxAttempts[x]
  BY <1>1 DEF Claimable, Inductive, DataInv, JobInv
<1>3. UNCHANGED <<maxAttempts, calls, rows>>
  BY DEF ClaimNext, ClaimFails
<1>4. OutcomeOf' = OutcomeOf
  BY <1>3 DEF OutcomeOf
<1>5. Promise!Begin(S)
  BY <1>1, <1>2, <1>3, <1>4 DEF Promise!Begin, OutcomeOf
<1>6. QED
  BY <1>5

(* The worker's job is being processed and its current recipient is open.  *)
LEMMA LoopFacts ==
    ASSUME Inductive, NEW w \in Workers, pc[w] \in {"send", "record"}
    PROVE  /\ WorkType /\ RestType
           /\ job[w] \in Jobs /\ cur[w] \in Phones
           /\ status[job[w]] = "processing"
           /\ copy[w][cur[w]] = rows[job[w]][cur[w]]
           /\ rows[job[w]][cur[w]] \in Row
           /\ rows[job[w]][cur[w]].status = "pending"
           /\ Outcome(rows[job[w]][cur[w]]) = "open"
           /\ rows[job[w]][cur[w]].attempts <= attempts[job[w]]
           /\ LoopInv(w)
<1>1. WorkType /\ RestType /\ OneHolder /\ DataInv
  BY TypeSplit DEF Inductive
<1>2. job[w] \in Jobs /\ cur[w] \in Phones
  BY <1>1 DEF WorkType, WorkerHasJob, CurInPhones
<1>3. status[job[w]] = "processing"
  BY <1>1, <1>2 DEF OneHolder, InFlight, Holds
<1>4. LoopInv(w) /\ cur[w] \in todo[w]
  BY <1>1 DEF DataInv, WorkerInv, InLoop, LoopInv
<1>5. /\ copy[w][cur[w]] = rows[job[w]][cur[w]]
      /\ rows[job[w]][cur[w]].status = "pending"
  BY <1>4 DEF LoopInv
<1>6. Outcome(rows[job[w]][cur[w]]) = "open"
  BY <1>5 DEF Outcome, Delivering
<1>7. /\ rows[job[w]][cur[w]] \in Row
      /\ rows[job[w]][cur[w]].attempts <= attempts[job[w]]
  BY <1>1, <1>2 DEF RestType, DataInv, RowInv
<1>8. QED
  BY <1>1, <1>2, <1>3, <1>4, <1>5, <1>6, <1>7

LEMMA SendIsTry ==
    ASSUME Inductive, NEW w \in Workers, SendText(w)
    PROVE  \/ UNCHANGED Promise!pvars
           \/ \E j \in Jobs, p \in Phones : Promise!Try(j, p)
<1>1. pc[w] = "send" /\ UNCHANGED <<status, attempts, maxAttempts, rows>>
  BY DEF SendText
<1>2. PICK j \in Jobs, p \in Phones : j = job[w] /\ p = cur[w]
  BY <1>1, LoopFacts
<1>3. /\ status[j] = "processing" /\ Outcome(rows[j][p]) = "open"
      /\ rows[j][p].attempts <= attempts[j] /\ LoopInv(w) /\ RestType
      /\ rows[j][p] \in Row
  BY <1>1, <1>2, LoopFacts
<1>4. calls[j][p] < attempts[j]
  <2>1. calls[j][p] < rows[j][p].attempts
    BY <1>1, <1>2, <1>3 DEF LoopInv
  <2>2. calls[j][p] \in Nat /\ rows[j][p].attempts \in Nat /\ attempts[j] \in Nat
    BY <1>3 DEF RestType, Row
  <2>3. QED
    BY <1>3, <2>1, <2>2
<1>5. OutcomeOf' = OutcomeOf /\ OutcomeOf[j][p] = "open"
  BY <1>1, <1>3 DEF OutcomeOf
<1>6. CASE calls' = calls
  BY <1>1, <1>6, Stutter
<1>7. CASE calls' = [calls EXCEPT ![j][p] = @ + 1]
  BY <1>1, <1>3, <1>4, <1>5, <1>7 DEF Promise!Try, OutcomeOf
<1>8. QED
  BY <1>2, <1>6, <1>7 DEF SendText

LEMMA RecordIsSettle ==
    ASSUME Inductive, NEW w \in Workers, Record(w)
    PROVE  \/ UNCHANGED Promise!pvars
           \/ \E j \in Jobs, p \in Phones, o \in {"sent", "failed"} :
                 Promise!Settle(j, p, o)
<1>1. pc[w] = "record" /\ UNCHANGED <<status, attempts, maxAttempts, calls>>
  BY DEF Record
<1>2. PICK j \in Jobs, p \in Phones : j = job[w] /\ p = cur[w]
  BY <1>1, LoopFacts
<1>3. /\ status[j] = "processing" /\ Outcome(rows[j][p]) = "open"
      /\ LoopInv(w) /\ RestType /\ WorkType /\ copy[w][p] = rows[j][p]
      /\ rows[j][p] \in Row
  BY <1>1, <1>2, LoopFacts
<1>4. calls[j][p] > 0 /\ calls[j][p] \in Nat /\ verdict[w] \in Verdicts
  BY <1>1, <1>2, <1>3 DEF LoopInv, RestType, WorkType
<1>5. PICK r \in Row : r = ResultRow(rows[j][p], verdict[w], calls[j][p])
  BY <1>3, <1>4, RowTypes
<1>6. r.status = CASE verdict[w] = "sent"      -> "sent"
                   [] verdict[w] = "permanent" -> "failed"
                   [] OTHER                    -> "pending"
  BY <1>3, <1>5, WrittenRows
<1>7. Outcome(r) \in {"open", "sent", "failed"}
  BY DEF Outcome
<1>8. rows' = [rows EXCEPT ![j][p] = r] \/ rows' = rows
  BY <1>2, <1>3, <1>5 DEF Record, SaveRow, SaveFails
<1>9. CASE rows' = rows
  BY <1>1, <1>9, Stutter
<1>10. CASE rows' = [rows EXCEPT ![j][p] = r]
  <2>1. Writes(j, p, r)
    BY <1>3, <1>10, WriteEffect
  <2>2. \A x \in Jobs, y \in Phones :
           Outcome(rows'[x][y]) = IF x = j /\ y = p THEN Outcome(r)
                                                  ELSE Outcome(rows[x][y])
    BY <2>1 DEF Writes
  <2>3. CASE Outcome(r) = "open"
    BY <1>1, <1>3, <2>2, <2>3, Stutter
  <2>4. CASE Outcome(r) # "open"
    <3>1. OutcomeOf' = [OutcomeOf EXCEPT ![j][p] = Outcome(r)]
      BY <2>2 DEF OutcomeOf
    <3>2. Promise!Settle(j, p, Outcome(r))
      BY <1>1, <1>3, <1>4, <3>1 DEF Promise!Settle, OutcomeOf
    <3>3. QED
      BY <1>7, <2>4, <3>2
  <2>5. QED
    BY <2>3, <2>4
<1>11. QED
  BY <1>8, <1>9, <1>10

LEMMA FinishIsEnd ==
    ASSUME Inductive, NEW w \in Workers, MarkDone(w) \/ HandleFailure(w)
    PROVE  \/ UNCHANGED Promise!pvars
           \/ \E j \in Jobs, s \in {"completed", "completed_with_failures",
                                    "failed", "queued"} : Promise!End(j, s)
<1>1. WorkType /\ RestType /\ OneHolder /\ DataInv
  BY TypeSplit DEF Inductive
<1>2. pc[w] # "idle" /\ UNCHANGED <<attempts, maxAttempts, calls, rows>>
  BY DEF MarkDone, HandleFailure
<1>3. PICK j \in Jobs : j = job[w]
  BY <1>1, <1>2 DEF WorkType, WorkerHasJob
<1>4. status[j] = "processing" /\ claimed[j] = attempts[j]
  BY <1>1, <1>2, <1>3 DEF OneHolder, InFlight, Holds
<1>5. OutcomeOf' = OutcomeOf
  BY <1>2 DEF OutcomeOf
<1>6. Promise!SomeFailed(j) <=> HasFailures(j)
  BY DEF Promise!SomeFailed, HasFailures, Outcome, Delivering
<1>7. CASE status' = status
  BY <1>2, <1>7, Stutter
<1>8. CASE MarkDone(w) /\ status' # status
  <2> DEFINE s == IF verdict[w] = "failures" THEN "completed_with_failures"
                                             ELSE "completed"
  <2>1. status' = [status EXCEPT ![j] = s]
    BY <1>3, <1>8 DEF MarkDone
  <2>2. verdict[w] = "failures" <=> HasFailures(j)
    BY <1>1, <1>3, <1>8 DEF MarkDone, DataInv, WorkerInv, MarkInv
  <2>3. Promise!End(j, s)
    BY <1>2, <1>4, <1>5, <1>6, <2>1, <2>2 DEF Promise!End, OutcomeOf
  <2>4. QED
    BY <2>3
<1>9. CASE HandleFailure(w) /\ status' # status
  <2>1. status' = [status EXCEPT ![j] = StatusAfterFailure(w)]
    BY <1>3, <1>9 DEF HandleFailure
  <2>2. StatusAfterFailure(w) \in {"queued", "failed"}
    BY DEF StatusAfterFailure
  <2>3. StatusAfterFailure(w) = "queued" => attempts[j] < maxAttempts[j]
    BY <1>3, <1>4 DEF StatusAfterFailure, MayRetry
  <2>4. Promise!End(j, StatusAfterFailure(w))
    BY <1>2, <1>4, <1>5, <2>1, <2>2, <2>3 DEF Promise!End, OutcomeOf
  <2>5. QED
    BY <2>2, <2>4
<1>10. QED
  BY <1>7, <1>8, <1>9

LEMMA AttemptIsHidden ==
    ASSUME Inductive, NEW w \in Workers, Attempt(w)
    PROVE  UNCHANGED Promise!pvars
<1>1. WorkType /\ RestType /\ DataInv
  BY TypeSplit DEF Inductive
<1>2. pc[w] = "attempt" /\ UNCHANGED <<status, attempts, maxAttempts, calls>>
  BY DEF Attempt
<1>3. PICK j \in Jobs : j = job[w]
  BY <1>1, <1>2 DEF WorkType, WorkerHasJob
<1>4. LoopInv(w) /\ todo[w] \in SUBSET Phones
  BY <1>1, <1>2 DEF DataInv, WorkerInv, InLoop, WorkType
<1>5. \/ rows' = rows
      \/ \E p \in todo[w] : rows' = [rows EXCEPT ![j][p] = AttemptRow(copy[w][p])]
  BY <1>3 DEF Attempt, SaveRow, SaveFails
<1>6. ASSUME NEW p \in todo[w], NEW r, r = AttemptRow(copy[w][p]),
             rows' = [rows EXCEPT ![j][p] = r]
      PROVE  UNCHANGED Promise!pvars
  <2>1. p \in Phones /\ copy[w][p] \in Row /\ rows[j][p].status = "pending"
    BY <1>1, <1>3, <1>4 DEF LoopInv, WorkType
  <2>2. r \in Row /\ r.status = "pending"
    BY <1>6, <2>1, RowTypes, WrittenRows
  <2>3. Writes(j, p, r)
    BY <1>1, <1>6, <2>1, <2>2, WriteEffect
  <2>4. Outcome(r) = Outcome(rows[j][p])
    BY <2>1, <2>2 DEF Outcome
  <2>5. \A x \in Jobs, y \in Phones : Outcome(rows'[x][y]) = Outcome(rows[x][y])
    BY <2>3, <2>4 DEF Writes
  <2>6. QED
    BY <1>2, <2>5, Stutter
<1>7. CASE rows' = rows
  BY <1>2, <1>7, Stutter
<1>8. QED
  BY <1>5, <1>6, <1>7

(* Seeding rows and receipts do not change an outcome.                     *)
LEMMA SeedIsHidden ==
    ASSUME RestType, UNCHANGED <<status, attempts, maxAttempts, calls>>,
           NEW j \in Jobs, NEW S, SeedRows(j, S)
    PROVE  UNCHANGED Promise!pvars
<1>1. \A x \in Jobs, y \in Phones :
         rows'[x][y] = IF x = j /\ y \in S /\ rows[x][y].status = "absent"
                       THEN EmptyRow("pending") ELSE rows[x][y]
  BY SeedRowsEffect DEF RestType
<1>2. Outcome(EmptyRow("pending")) = "open"
  BY DEF Outcome, EmptyRow, Delivering
<1>3. \A r : r.status = "absent" => Outcome(r) = "open"
  BY DEF Outcome, Delivering
<1>4. \A x \in Jobs, y \in Phones : Outcome(rows'[x][y]) = Outcome(rows[x][y])
  BY <1>1, <1>2, <1>3
<1>5. QED
  BY <1>4, Stutter

LEMMA ReceiptIsHidden ==
    ASSUME RestType, DataInv, NEW j \in Jobs, NEW p \in Phones,
           NEW k \in 1..calls[j][p], NEW state \in {"delivered", "read"},
           HandleReceipt(j, p, k, state)
    PROVE  UNCHANGED Promise!pvars
<1>1. UNCHANGED <<status, attempts, maxAttempts, calls>>
  BY DEF HandleReceipt
<1>2. calls[j][p] \in Nat /\ k > 0
  BY DEF RestType
<1>3. rows[j][p].status \in Delivering
  BY <1>2 DEF HandleReceipt, ReceiptMatches, DataInv, RowInv
<1>4. /\ rows'[j][p].status \in Delivering
      /\ \A x \in Jobs, y \in Phones :
            ~(x = j /\ y = p) => rows'[x][y] = rows[x][y]
  BY ReceiptEffect DEF RestType, Delivering
<1>5. \A r : r.status \in Delivering => Outcome(r) = "sent"
  BY DEF Outcome, Delivering
<1>6. \A x \in Jobs, y \in Phones : Outcome(rows'[x][y]) = Outcome(rows[x][y])
  BY <1>3, <1>4, <1>5
<1>7. QED
  BY <1>1, <1>6, Stutter

(* Every step is a step of the promise or hidden from it.                  *)
LEMMA PromiseStep == Inductive /\ [Next]_vars => [Promise!PNext]_Promise!pvars
<1> SUFFICES ASSUME Inductive, [Next]_vars
             PROVE  Promise!PNext \/ UNCHANGED Promise!pvars
  OBVIOUS
<1> DEFINE Goal == Promise!PNext \/ UNCHANGED Promise!pvars
<1>1. ASSUME UNCHANGED <<status, attempts, maxAttempts, rows, calls>> PROVE Goal
  BY <1>1, Stutter
<1>2. ASSUME NEW j \in Jobs, NEW m \in AttemptInputs, NEW later \in BOOLEAN,
             Create(j, m, later)
      PROVE  Goal
  BY <1>2, CreateIsSubmit DEF Promise!PNext
<1>3. ASSUME ClaimNext \/ ClaimFails PROVE Goal
  BY <1>3, ClaimIsBegin DEF Promise!PNext
<1>4. ASSUME NEW w \in Workers, SendText(w) PROVE Goal
  BY <1>4, SendIsTry DEF Promise!PNext
<1>5. ASSUME NEW w \in Workers, Record(w) PROVE Goal
  BY <1>5, RecordIsSettle DEF Promise!PNext
<1>6. ASSUME NEW w \in Workers, MarkDone(w) \/ HandleFailure(w) PROVE Goal
  BY <1>6, FinishIsEnd DEF Promise!PNext
<1>7. ASSUME NEW w \in Workers, Attempt(w) PROVE Goal
  BY <1>7, AttemptIsHidden
<1>8. ASSUME NEW w \in Workers, SeedProgress(w) PROVE Goal
  <2>1. UNCHANGED <<status, attempts, maxAttempts, calls>>
    BY <1>8 DEF SeedProgress
  <2>2. rows' = rows \/ SeedRows(job[w], seed[w])
    BY <1>8 DEF SeedProgress
  <2>3. job[w] \in Jobs /\ RestType
    BY <1>8, TypeSplit DEF SeedProgress, Inductive, WorkType, WorkerHasJob
  <2>4. QED
    BY <1>1, <2>1, <2>2, <2>3, SeedIsHidden
<1>9. ASSUME NEW j \in Jobs, CreatorStep(j) PROVE Goal
  <2>1. UNCHANGED <<status, attempts, maxAttempts, calls>>
    BY <1>9 DEF CreatorStep, SnapshotContacts, InsertSnapshot
  <2>2. rows' = rows \/ SeedRows(j, audience[j])
    BY <1>9 DEF CreatorStep, SnapshotContacts, InsertSnapshot
  <2>3. RestType
    BY TypeSplit DEF Inductive
  <2>4. QED
    BY <1>1, <2>1, <2>2, <2>3, SeedIsHidden
<1>10. ASSUME NEW j \in Jobs, NEW p \in Phones, NEW k \in 1..calls[j][p],
              NEW state \in {"delivered", "read"}, HandleReceipt(j, p, k, state)
       PROVE  Goal
  BY <1>10, ReceiptIsHidden, TypeSplit DEF Inductive
<1>11. ASSUME NEW w \in Workers,
              \/ TakeJob(w) \/ WaitForInstanceSlot(w) \/ LoadProgress(w)
              \/ LoadContacts(w) \/ ListSeeded(w) \/ Summarize(w)
       PROVE  Goal
  BY <1>1, <1>11 DEF TakeJob, WaitForInstanceSlot, LoadProgress, LoadContacts,
                     ListSeeded, Summarize
<1>12. ASSUME NEW p, NEW q, NEW link,
              CreateContact(p, link) \/ UpdateContact(p, q, link)
       PROVE  Goal
  BY <1>1, <1>12 DEF CreateContact, UpdateContact
<1>13. ASSUME Restart \/ CountSlots \/ UNCHANGED vars PROVE Goal
  BY <1>1, <1>13 DEF Restart, CountSlots, vars
<1>14. ASSUME TimePasses PROVE Goal
  BY <1>1, <1>14 DEF TimePasses, BecomeDue, SlotElapses
<1>15. ASSUME NEW j \in Jobs, TryEnqueue(j) PROVE Goal
  BY <1>1, <1>15 DEF TryEnqueue
<1> HIDE DEF Goal
<1>16. ASSUME NEW w \in Workers, WorkerStep(w) PROVE Goal
  BY <1>4, <1>5, <1>6, <1>7, <1>8, <1>11, <1>16 DEF WorkerStep, ProcessStep
<1>17. Environment => Goal
  BY <1>2, <1>10, <1>12, <1>13 DEF Environment
<1>18. DispatcherStep => Goal
  BY <1>3, <1>13, <1>15 DEF DispatcherStep
<1>19. Goal
  BY <1>9, <1>13, <1>14, <1>16, <1>17, <1>18 DEF Next
<1>20. QED
  BY <1>19 DEF Goal

(* Broadcast implements the promise it makes to the operator: bounded      *)
(* passes, one try per recipient and pass, final outcomes and an honest    *)
(* final status, whatever fails and whenever the process restarts.         *)
THEOREM PromiseKept == Spec => KeepsPromise
<1>1. Inductive /\ [Next]_vars => [Promise!PNext]_Promise!pvars
  BY PromiseStep
<1>2. Init => Promise!PInit
  BY PromiseInit
<1>3. QED
  BY <1>1, <1>2, InductiveHolds, PTL DEF Spec, KeepsPromise, Promise!PSpec
=============================================================================
