------------------------------ MODULE Broadcast ------------------------------
(***************************************************************************)
(* The broadcast subsystem: internal/broadcast (service.go, processor.go)  *)
(* on top of the broadcast tables of internal/repository/gorm.go.          *)
(*                                                                         *)
(* One API process runs one dispatcher and a set of workers.  The          *)
(* dispatcher claims due jobs from the database and hands them to the      *)
(* workers through a bounded channel; a worker walks over the recipients   *)
(* of its job, sends to each one and records the result, row by row.       *)
(* HTTP handlers create jobs, the CRM changes the contacts, receipts of    *)
(* sent messages arrive in any order and any number, a step may run into   *)
(* its deadline or a database error, and the process may stop at any time. *)
(*                                                                         *)
(* Time is abstract: a queued job becomes due, a limiter slot reopens and  *)
(* the 15-minute processing context ends at arbitrary moments.             *)
(***************************************************************************)
EXTENDS Integers, Sequences, FiniteSets

CONSTANTS
    Jobs,           \* identifiers of broadcast jobs
    Phones,         \* recipient phone numbers of the tenant
    Instances,      \* WhatsApp instances of the tenant
    Workers,        \* worker goroutines of the process
    QueueCap,       \* capacity of the channel (4 * workers in the code)
    ClaimBatchSize, \* most jobs claimed per dispatcher tick
    AttemptInputs,  \* values of max_attempts in create requests
    Faults,         \* the faults considered: subset of {"db", "restart"}
    None            \* no job, no phone

ASSUME BroadcastAssumption ==
    /\ IsFiniteSet(Jobs)
    /\ QueueCap \in Nat \ {0}
    /\ ClaimBatchSize \in Nat \ {0}
    /\ AttemptInputs \subseteq Nat
    /\ Faults \subseteq {"db", "restart"}
    /\ None \notin Jobs
    /\ None \notin Phones
    /\ {"none", "any"} \cap Instances = {}

VARIABLES
    \* Table broadcast_jobs.
    status,       \* job -> its status; "none" before it is created
    due,          \* job -> has available_at passed?
    attempts,     \* job -> column attempts
    maxAttempts,  \* job -> column max_attempts
    inst,         \* job -> the instance it sends from
    \* Table broadcast_recipient_progress and the CRM contacts.
    rows,         \* job -> phone -> progress row
    contact,      \* phone -> "none", "any" (no instance_id) or its instance
    \* HTTP handlers inside Create, between its two writes.
    creator,      \* job -> "idle", "list" or "insert"
    audience,     \* job -> phones the handler is about to seed
    \* Dispatcher and channel.
    dispatcher,   \* "idle", "claim" or "enqueue"
    slots,        \* free slots the dispatcher counted
    batch,        \* jobs claimed, not yet offered to the channel
    queue,        \* the channel
    claimed,      \* job -> Attempts field of the struct ClaimNext returned
    \* Workers.
    pc,           \* worker -> where it stands
    job,          \* worker -> the job it handles, or None
    seed,         \* worker -> phones it is about to seed
    todo,         \* worker -> recipients still to be handled
    copy,         \* worker -> its copies of the rows, as it listed them
    cur,          \* worker -> the recipient being handled
    verdict,      \* worker -> the last result the next step depends on
    slotBusy,     \* instances whose next start time is in the future
    \* History.
    calls         \* job -> phone -> number of SendText calls

dbVars      == <<status, due, attempts, maxAttempts, inst>>
createVars  == <<creator, audience>>
dispVars    == <<dispatcher, slots, batch, queue, claimed>>
workVars    == <<pc, job, seed, todo, copy, cur, verdict>>
vars == <<dbVars, rows, contact, createVars, dispVars, workVars, slotBusy,
          calls>>

-----------------------------------------------------------------------------
(* Job and recipient states. *)

Completed   == {"completed", "completed_with_failures"}
Terminal    == Completed \cup {"failed"}
JobStatus   == {"none", "queued", "processing"} \cup Terminal

Delivering  == {"sent", "delivered", "read"}
RowStatus   == {"absent", "pending", "failed"} \cup Delivering

Row == [status    : RowStatus,   \* column delivery_status, "absent": no row
        attempts  : Nat,         \* column attempt_count
        msg       : Nat,         \* column message_id, 0: empty
        delivered : BOOLEAN,     \* delivered_at is set
        read      : BOOLEAN]     \* read_at is set

EmptyRow(s) == [status |-> s, attempts |-> 0, msg |-> 0,
                delivered |-> FALSE, read |-> FALSE]
NoRows      == [p \in Phones |-> EmptyRow("absent")]

Settled(r)  == r.status \in Delivering \cup {"failed"}

WorkerPC == {"idle", "slot", "load", "contacts", "seed", "list", "attempt",
             "send", "record", "summarize", "mark", "fail"}
Verdicts == {"none", "sent", "permanent", "transient", "unconfirmed",
             "clean", "failures", "retryable"}

DefaultMaxAttempts == 3

-----------------------------------------------------------------------------
Init ==
    /\ status      = [j \in Jobs |-> "none"]
    /\ due         = [j \in Jobs |-> FALSE]
    /\ attempts    = [j \in Jobs |-> 0]
    /\ maxAttempts = [j \in Jobs |-> 0]
    /\ inst        \in [Jobs -> Instances]
    /\ rows        = [j \in Jobs |-> NoRows]
    /\ contact     = [p \in Phones |-> "none"]
    /\ creator     = [j \in Jobs |-> "idle"]
    /\ audience    = [j \in Jobs |-> {}]
    /\ dispatcher  = "idle"
    /\ slots       = 0
    /\ batch       = {}
    /\ queue       = <<>>
    /\ claimed     = [j \in Jobs |-> 0]
    /\ pc          = [w \in Workers |-> "idle"]
    /\ job         = [w \in Workers |-> None]
    /\ seed        = [w \in Workers |-> {}]
    /\ todo        = [w \in Workers |-> {}]
    /\ copy        = [w \in Workers |-> NoRows]
    /\ cur         = [w \in Workers |-> None]
    /\ verdict     = [w \in Workers |-> "none"]
    /\ slotBusy    = {}
    /\ calls       = [j \in Jobs |-> [p \in Phones |-> 0]]

-----------------------------------------------------------------------------
(* CRM contacts: the source of every audience.                             *)

(* A contact is eligible when it is linked to no instance or to this one;  *)
(* one entry per phone.                                                    *)
Eligible(i) == {p \in Phones : contact[p] \in {"any", i}}

CreateContact(p, link) ==
    /\ contact[p] = "none"
    /\ contact' = [contact EXCEPT ![p] = link]
    /\ UNCHANGED <<dbVars, rows, createVars, dispVars, workVars, slotBusy,
                   calls>>

(* A new phone must be unused; an empty instance_id keeps the link.        *)
UpdateContact(p, q, link) ==
    /\ contact[p] # "none"
    /\ q = p \/ contact[q] = "none"
    /\ contact' = [contact EXCEPT
                     ![p] = "none",
                     ![q] = IF link = "any" THEN contact[p] ELSE link]
    /\ UNCHANGED <<dbVars, rows, createVars, dispVars, workVars, slotBusy,
                   calls>>

-----------------------------------------------------------------------------
(* Creating a job: the job row is committed first, its recipient snapshot  *)
(* is listed and inserted afterwards.                                      *)

(* Variant: the conflict clause updates the row.                           *)
SeedRowsOverwriting(j, S) ==
    rows' = [rows EXCEPT ![j] =
               [p \in Phones |-> IF p \in S THEN EmptyRow("pending")
                                            ELSE rows[j][p]]]

(* INSERT ... ON CONFLICT (broadcast_id, phone) DO NOTHING.                *)
SeedRows(j, S) ==
    rows' = [rows EXCEPT ![j] =
               [p \in Phones |-> IF p \in S /\ rows[j][p].status = "absent"
                                 THEN EmptyRow("pending")
                                 ELSE rows[j][p]]]

EffectiveMaxAttempts(m) == IF m = 0 THEN DefaultMaxAttempts ELSE m

(* later: the request carries a delay or a schedule.                       *)
Create(j, m, later) ==
    /\ status[j] = "none"
    /\ status'      = [status EXCEPT ![j] = "queued"]
    /\ due'         = [due EXCEPT ![j] = ~later]
    /\ maxAttempts' = [maxAttempts EXCEPT ![j] = EffectiveMaxAttempts(m)]
    /\ creator'     = [creator EXCEPT ![j] = "list"]
    /\ UNCHANGED <<attempts, inst, rows, contact, audience, dispVars,
                   workVars, slotBusy, calls>>

CreatorDone(j) ==
    /\ creator'  = [creator EXCEPT ![j] = "idle"]
    /\ audience' = [audience EXCEPT ![j] = {}]

(* seedRecipientSnapshot lists the contacts ...                            *)
SnapshotContacts(j) ==
    /\ creator[j] = "list"
    /\ \/ /\ Eligible(inst[j]) # {}
          /\ creator'  = [creator EXCEPT ![j] = "insert"]
          /\ audience' = [audience EXCEPT ![j] = Eligible(inst[j])]
       \/ /\ Eligible(inst[j]) = {} \/ "db" \in Faults
          /\ CreatorDone(j)
    /\ UNCHANGED <<dbVars, rows, contact, dispVars, workVars, slotBusy,
                   calls>>

(* ... and inserts their rows; when that fails the job stays queued.       *)
InsertSnapshot(j) ==
    /\ creator[j] = "insert"
    /\ \/ SeedRows(j, audience[j])
       \/ "db" \in Faults /\ UNCHANGED rows
    /\ CreatorDone(j)
    /\ UNCHANGED <<dbVars, contact, dispVars, workVars, slotBusy, calls>>

-----------------------------------------------------------------------------
(* Dispatcher.                                                             *)

BecomeDue(j) ==
    /\ status[j] = "queued"
    /\ ~due[j]
    /\ due' = [due EXCEPT ![j] = TRUE]
    /\ UNCHANGED <<status, attempts, maxAttempts, inst, rows, contact,
                   createVars, dispVars, workVars, slotBusy, calls>>

(* Variant: the fill level of the channel is ignored.                      *)
FreeSlotsOfEmptyQueue == QueueCap

FreeSlots == QueueCap - Len(queue)

(* A tick counts the free slots before it asks the database for jobs.      *)
CountSlots ==
    /\ dispatcher = "idle"
    /\ FreeSlots > 0
    /\ dispatcher' = "claim"
    /\ slots' = IF ClaimBatchSize < FreeSlots THEN ClaimBatchSize
                                              ELSE FreeSlots
    /\ UNCHANGED <<dbVars, rows, contact, createVars, batch, queue, claimed,
                   workVars, slotBusy, calls>>

(* Variants: the claim also takes jobs in progress, or jobs of any status. *)
ClaimableInProgress(j) == status[j] \in {"queued", "processing"} /\ due[j]
ClaimableWheneverDue(j) == due[j]

Claimable(j) == status[j] = "queued" /\ due[j]

(* ClaimNext takes the first slots due jobs in the order of available_at,  *)
(* which is clock data here: any due jobs can be the first ones.           *)
ClaimNext ==
    /\ dispatcher = "claim"
    /\ slots' = 0
    /\ \E S \in SUBSET {j \in Jobs : Claimable(j)} :
          /\ Cardinality(S) <= slots
          /\ \/ Cardinality(S) = slots
             \/ S = {j \in Jobs : Claimable(j)}
          /\ status'   = [j \in Jobs |-> IF j \in S THEN "processing"
                                                    ELSE status[j]]
          /\ attempts' = [j \in Jobs |-> IF j \in S THEN attempts[j] + 1
                                                    ELSE attempts[j]]
          /\ claimed'  = [j \in Jobs |-> IF j \in S THEN attempts[j] + 1
                                                    ELSE claimed[j]]
          /\ batch'    = S
          /\ dispatcher' = IF S = {} THEN "idle" ELSE "enqueue"
    /\ UNCHANGED <<due, maxAttempts, inst, rows, contact, createVars, queue,
                   workVars, slotBusy, calls>>

(* The claim fails; its transaction may have been committed all the same.  *)
ClaimFails ==
    /\ dispatcher = "claim"
    /\ "db" \in Faults
    /\ dispatcher' = "idle"
    /\ slots' = 0
    /\ \E S \in SUBSET {j \in Jobs : Claimable(j)} :
          /\ Cardinality(S) <= slots
          /\ status'   = [j \in Jobs |-> IF j \in S THEN "processing"
                                                    ELSE status[j]]
          /\ attempts' = [j \in Jobs |-> IF j \in S THEN attempts[j] + 1
                                                    ELSE attempts[j]]
    /\ UNCHANGED <<due, maxAttempts, inst, rows, contact, createVars, batch,
                   queue, claimed, workVars, slotBusy, calls>>

(* A non-blocking send: a job that finds the channel full is dropped.      *)
TryEnqueue(j) ==
    /\ dispatcher = "enqueue"
    /\ j \in batch
    /\ batch' = batch \ {j}
    /\ queue' = IF Len(queue) < QueueCap THEN Append(queue, j) ELSE queue
    /\ dispatcher' = IF batch' = {} THEN "idle" ELSE "enqueue"
    /\ UNCHANGED <<dbVars, rows, contact, createVars, slots, claimed,
                   workVars, slotBusy, calls>>

-----------------------------------------------------------------------------
(* Workers: handleJob and deliveryProcessor.Process.                       *)

Goto(w, l) == pc' = [pc EXCEPT ![w] = l]

(* Process returned an error; handleFailure comes next.                    *)
Fail(w, v) ==
    /\ Goto(w, "fail")
    /\ verdict' = [verdict EXCEPT ![w] = v]
    /\ seed'    = [seed EXCEPT ![w] = {}]
    /\ todo'    = [todo EXCEPT ![w] = {}]
    /\ copy'    = [copy EXCEPT ![w] = NoRows]
    /\ cur'     = [cur EXCEPT ![w] = None]
    /\ UNCHANGED job

(* handleJob returns; the worker waits for the next job.                   *)
Release(w) ==
    /\ Goto(w, "idle")
    /\ job'     = [job EXCEPT ![w] = None]
    /\ copy'    = [copy EXCEPT ![w] = NoRows]
    /\ verdict' = [verdict EXCEPT ![w] = "none"]
    /\ UNCHANGED <<seed, todo, cur>>

TakeJob(w) ==
    /\ pc[w] = "idle"
    /\ queue # <<>>
    /\ queue' = Tail(queue)
    /\ job'   = [job EXCEPT ![w] = Head(queue)]
    /\ Goto(w, "slot")
    /\ UNCHANGED <<dbVars, rows, contact, createVars, dispatcher, slots,
                   batch, claimed, seed, todo, copy, cur, verdict, slotBusy,
                   calls>>

(* waitForInstanceSlot: one start per instance and interval.               *)
WaitForInstanceSlot(w) ==
    /\ pc[w] = "slot"
    /\ inst[job[w]] \notin slotBusy
    /\ slotBusy' = slotBusy \cup {inst[job[w]]}
    /\ Goto(w, "load")
    /\ UNCHANGED <<dbVars, rows, contact, createVars, dispVars, job, seed,
                   todo, copy, cur, verdict, calls>>

SlotElapses(i) ==
    /\ i \in slotBusy
    /\ slotBusy' = slotBusy \ {i}
    /\ UNCHANGED <<dbVars, rows, contact, createVars, dispVars, workVars,
                   calls>>

Listed(j) == {p \in Phones : rows[j][p].status # "absent"}

(* Variant: a retry goes back to the failed recipients.                    *)
PendingOrFailedPhones(j) == {p \in Listed(j) :
                                rows[j][p].status \notin Delivering}

PendingPhones(j) == {p \in Listed(j) : ~Settled(rows[j][p])}

(* The rows have been listed: keep copies, walk over the pending ones.     *)
StartLoop(w) ==
    /\ copy' = [copy EXCEPT ![w] = rows[job[w]]]
    /\ todo' = [todo EXCEPT ![w] = PendingPhones(job[w])]
    /\ Goto(w, IF PendingPhones(job[w]) = {} THEN "summarize" ELSE "attempt")
    /\ seed' = [seed EXCEPT ![w] = {}]
    /\ UNCHANGED <<job, cur, verdict>>

(* Process up to the first listing of the rows.  A failed instance lookup  *)
(* is permanent whatever its reason, a failed listing is retryable.        *)
LoadProgress(w) ==
    /\ pc[w] = "load"
    /\ \/ \E v \in {"permanent", "retryable"} : Fail(w, v)
       \/ Listed(job[w]) # {} /\ StartLoop(w)
       \/ /\ Listed(job[w]) = {}
          /\ Goto(w, "contacts")
          /\ UNCHANGED <<job, seed, todo, copy, cur, verdict>>
    /\ UNCHANGED <<dbVars, rows, contact, createVars, dispVars, slotBusy,
                   calls>>

(* No rows: take the audience from the contacts, as Create does.           *)
LoadContacts(w) ==
    LET found == Eligible(inst[job[w]]) IN
    /\ pc[w] = "contacts"
    /\ \/ Fail(w, "retryable")
       \/ found = {} /\ Fail(w, "permanent")
       \/ /\ found # {}
          /\ seed' = [seed EXCEPT ![w] = found]
          /\ Goto(w, "seed")
          /\ UNCHANGED <<job, todo, copy, cur, verdict>>
    /\ UNCHANGED <<dbVars, rows, contact, createVars, dispVars, slotBusy,
                   calls>>

SeedProgress(w) ==
    /\ pc[w] = "seed"
    /\ \/ /\ SeedRows(job[w], seed[w])
          /\ Goto(w, "list")
          /\ UNCHANGED <<job, seed, todo, copy, cur, verdict>>
       \/ /\ SeedRows(job[w], seed[w]) \/ UNCHANGED rows
          /\ Fail(w, "retryable")
    /\ UNCHANGED <<dbVars, contact, createVars, dispVars, slotBusy, calls>>

ListSeeded(w) ==
    /\ pc[w] = "list"
    /\ Fail(w, "retryable") \/ StartLoop(w)
    /\ UNCHANGED <<dbVars, rows, contact, createVars, dispVars, slotBusy,
                   calls>>

(* SaveRecipientProgress writes every column of the copy.                  *)
SaveRow(w, p, r) ==
    /\ rows' = [rows EXCEPT ![job[w]][p] = r]
    /\ copy' = [copy EXCEPT ![w][p] = r]

(* The save reports an error; the row may have been written all the same.  *)
SaveFails(w, p, r) ==
    /\ \/ rows' = [rows EXCEPT ![job[w]][p] = r]
       \/ UNCHANGED rows
    /\ Fail(w, "retryable")

AttemptRow(r) == [r EXCEPT !.attempts = @ + 1, !.status = "pending"]

(* After the pacing wait, the attempt is recorded before the send.         *)
Attempt(w) ==
    /\ pc[w] = "attempt"
    /\ \/ Fail(w, "retryable") /\ UNCHANGED rows
       \/ \E p \in todo[w] :
             LET r == AttemptRow(copy[w][p]) IN
             \/ /\ SaveRow(w, p, r)
                /\ cur' = [cur EXCEPT ![w] = p]
                /\ Goto(w, "send")
                /\ UNCHANGED <<job, seed, todo, verdict>>
             \/ SaveFails(w, p, r)
    /\ UNCHANGED <<dbVars, contact, createVars, dispVars, slotBusy, calls>>

(* SendText through the instance service; every answer is possible.        *)
SendText(w) ==
    /\ pc[w] = "send"
    /\ \/ Fail(w, "retryable") /\ UNCHANGED calls
       \/ /\ calls' = [calls EXCEPT ![job[w]][cur[w]] = @ + 1]
          /\ \E v \in {"sent", "permanent", "transient", "unconfirmed"} :
                verdict' = [verdict EXCEPT ![w] = v]
          /\ Goto(w, "record")
          /\ UNCHANGED <<job, seed, todo, copy, cur>>
    /\ UNCHANGED <<dbVars, rows, contact, createVars, dispVars, slotBusy>>

ResultRow(r, v, id) ==
    CASE v = "sent"      -> [r EXCEPT !.status = "sent", !.msg = id]
      [] v = "permanent" -> [r EXCEPT !.status = "failed"]
      [] OTHER           -> [r EXCEPT !.status = "pending"]

(* The answer is saved; a retryable one ends this pass over the audience.  *)
Record(w) ==
    LET p    == cur[w]
        r    == ResultRow(copy[w][p], verdict[w], calls[job[w]][p])
        left == todo[w] \ {p}
    IN
    /\ pc[w] = "record"
    /\ \/ /\ verdict[w] \in {"sent", "permanent"}
          /\ SaveRow(w, p, r)
          /\ todo'    = [todo EXCEPT ![w] = left]
          /\ cur'     = [cur EXCEPT ![w] = None]
          /\ verdict' = [verdict EXCEPT ![w] = "none"]
          /\ Goto(w, IF left = {} THEN "summarize" ELSE "attempt")
          /\ UNCHANGED <<job, seed>>
       \/ /\ verdict[w] \in {"transient", "unconfirmed"}
          /\ rows' = [rows EXCEPT ![job[w]][p] = r]
          /\ Fail(w, "retryable")
       \/ SaveFails(w, p, r)
    /\ UNCHANGED <<dbVars, contact, createVars, dispVars, slotBusy, calls>>

(* Variant: only an audience that failed as a whole counts as failed.      *)
AllFailed(j) == \A p \in Phones : rows[j][p].status = "failed"

HasFailures(j) == \E p \in Phones : rows[j][p].status = "failed"

(* SummarizeRecipientProgress; on an error handleJob just returns.         *)
Summarize(w) ==
    /\ pc[w] = "summarize"
    /\ \/ /\ Goto(w, "mark")
          /\ verdict' = [verdict EXCEPT ![w] =
                           IF HasFailures(job[w]) THEN "failures"
                                                  ELSE "clean"]
          /\ copy' = [copy EXCEPT ![w] = NoRows]
          /\ UNCHANGED <<job, seed, todo, cur>>
       \/ "db" \in Faults /\ Release(w)
    /\ UNCHANGED <<dbVars, rows, contact, createVars, dispVars, slotBusy,
                   calls>>

(* MarkCompleted or MarkCompletedWithFailures; an error is only logged.    *)
MarkDone(w) ==
    LET final == IF verdict[w] = "failures" THEN "completed_with_failures"
                                            ELSE "completed"
    IN
    /\ pc[w] = "mark"
    /\ \/ status' = [status EXCEPT ![job[w]] = final]
       \/ "db" \in Faults /\ UNCHANGED status
    /\ Release(w)
    /\ UNCHANGED <<due, attempts, maxAttempts, inst, rows, contact,
                   createVars, dispVars, slotBusy, calls>>

(* Variant: one retry too many.                                            *)
MayRetryAtLimit(w) ==
    /\ claimed[job[w]] <= maxAttempts[job[w]]
    /\ verdict[w] = "retryable"

MayRetry(w) ==
    /\ claimed[job[w]] < maxAttempts[job[w]]
    /\ verdict[w] = "retryable"

(* Variant: the retry is scheduled without putting the job back.           *)
StatusKeptForRetry(w) == IF MayRetry(w) THEN "processing" ELSE "failed"

StatusAfterFailure(w) == IF MayRetry(w) THEN "queued" ELSE "failed"

(* handleFailure: reschedule behind a backoff or give up.                  *)
HandleFailure(w) ==
    /\ pc[w] = "fail"
    /\ \/ /\ status' = [status EXCEPT ![job[w]] = StatusAfterFailure(w)]
          /\ due'    = [due EXCEPT ![job[w]] = @ /\ ~MayRetry(w)]
       \/ "db" \in Faults /\ UNCHANGED <<status, due>>
    /\ Release(w)
    /\ UNCHANGED <<attempts, maxAttempts, inst, rows, contact, createVars,
                   dispVars, slotBusy, calls>>

-----------------------------------------------------------------------------
(* Receipts and restarts.                                                  *)

(* The WHERE clause of MarkRecipientReceipt for message k of this row.     *)
ReceiptMatches(r, k, state) ==
    /\ r.msg = k
    /\ r.status # "failed"
    /\ state = "delivered" => r.status # "read"

(* HandleReceipt: receipts of any message handed over so far, in any       *)
(* order, repeated or missing.                                             *)
HandleReceipt(j, p, k, state) ==
    /\ k <= calls[j][p]
    /\ ReceiptMatches(rows[j][p], k, state)
    /\ rows' = [rows EXCEPT ![j][p].status    = state,
                            ![j][p].delivered = TRUE,
                            ![j][p].read      = @ \/ state = "read"]
    /\ UNCHANGED <<dbVars, contact, createVars, dispVars, workVars, slotBusy,
                   calls>>

(* The process stops (shutdown cancels every context, so the marks of the  *)
(* jobs in flight fail too) or crashes, and starts again: memory is empty, *)
(* the database stays.  Start touches no job that is "processing".         *)
Restart ==
    /\ "restart" \in Faults
    /\ creator'    = [j \in Jobs |-> "idle"]
    /\ audience'   = [j \in Jobs |-> {}]
    /\ dispatcher' = "idle"
    /\ slots'      = 0
    /\ batch'      = {}
    /\ queue'      = <<>>
    /\ pc'         = [w \in Workers |-> "idle"]
    /\ job'        = [w \in Workers |-> None]
    /\ seed'       = [w \in Workers |-> {}]
    /\ todo'       = [w \in Workers |-> {}]
    /\ copy'       = [w \in Workers |-> NoRows]
    /\ cur'        = [w \in Workers |-> None]
    /\ verdict'    = [w \in Workers |-> "none"]
    /\ slotBusy'   = {}
    /\ UNCHANGED <<dbVars, rows, contact, claimed, calls>>

-----------------------------------------------------------------------------
Environment ==
    \/ \E p \in Phones, link \in {"any"} \cup Instances :
          \/ CreateContact(p, link)
          \/ \E q \in Phones : UpdateContact(p, q, link)
    \/ \E j \in Jobs, m \in AttemptInputs, later \in BOOLEAN :
          Create(j, m, later)
    \/ \E j \in Jobs, p \in Phones :
          \E k \in 1..calls[j][p], state \in {"delivered", "read"} :
             HandleReceipt(j, p, k, state)
    \/ Restart

CreatorStep(j) == SnapshotContacts(j) \/ InsertSnapshot(j)

DispatcherStep ==
    \/ CountSlots
    \/ ClaimNext
    \/ ClaimFails
    \/ \E j \in Jobs : TryEnqueue(j)

ProcessStep(w) ==
    \/ LoadProgress(w)
    \/ LoadContacts(w)
    \/ SeedProgress(w)
    \/ ListSeeded(w)
    \/ Attempt(w)
    \/ SendText(w)
    \/ Record(w)

WorkerStep(w) ==
    \/ TakeJob(w)
    \/ WaitForInstanceSlot(w)
    \/ ProcessStep(w)
    \/ Summarize(w)
    \/ MarkDone(w)
    \/ HandleFailure(w)

TimePasses ==
    \/ \E j \in Jobs : BecomeDue(j)
    \/ \E i \in Instances : SlotElapses(i)

Next ==
    \/ Environment
    \/ \E j \in Jobs : CreatorStep(j)
    \/ DispatcherStep
    \/ \E w \in Workers : WorkerStep(w)
    \/ TimePasses

Spec == Init /\ [][Next]_vars

(* The ticker keeps firing, runnable goroutines run, deadlines pass.       *)
Fairness ==
    /\ WF_vars(DispatcherStep)
    /\ \A j \in Jobs : WF_vars(CreatorStep(j)) /\ WF_vars(BecomeDue(j))
    /\ \A w \in Workers : WF_vars(WorkerStep(w))
    /\ \A i \in Instances : WF_vars(SlotElapses(i))

FairSpec == Spec /\ Fairness

-----------------------------------------------------------------------------
(* Properties.                                                             *)

TypeOK ==
    /\ status      \in [Jobs -> JobStatus]
    /\ due         \in [Jobs -> BOOLEAN]
    /\ attempts    \in [Jobs -> Nat]
    /\ maxAttempts \in [Jobs -> Nat]
    /\ inst        \in [Jobs -> Instances]
    /\ rows        \in [Jobs -> [Phones -> Row]]
    /\ contact     \in [Phones -> {"none", "any"} \cup Instances]
    /\ creator     \in [Jobs -> {"idle", "list", "insert"}]
    /\ audience    \in [Jobs -> SUBSET Phones]
    /\ dispatcher  \in {"idle", "claim", "enqueue"}
    /\ slots       \in Nat
    /\ batch       \in SUBSET Jobs
    /\ queue       \in Seq(Jobs)
    /\ claimed     \in [Jobs -> Nat]
    /\ pc          \in [Workers -> WorkerPC]
    /\ job         \in [Workers -> Jobs \cup {None}]
    /\ seed        \in [Workers -> SUBSET Phones]
    /\ todo        \in [Workers -> SUBSET Phones]
    /\ copy        \in [Workers -> [Phones -> Row]]
    /\ cur         \in [Workers -> Phones \cup {None}]
    /\ verdict     \in [Workers -> Verdicts]
    /\ slotBusy    \in SUBSET Instances
    /\ calls       \in [Jobs -> [Phones -> Nat]]

InQueue(j) == \E i \in 1..Len(queue) : queue[i] = j
Holds(w, j) == pc[w] # "idle" /\ job[w] = j
InFlight(j) == j \in batch \/ InQueue(j) \/ \E w \in Workers : Holds(w, j)

(* A job is in at most one place: the dispatcher's batch, one position of  *)
(* the channel, or one worker; while it is, its row says "processing" and  *)
(* the struct in memory carries the current attempt number.  handleJob     *)
(* and the saves rely on this: none of their updates checks who owns the   *)
(* job.                                                                    *)
OneHolder ==
    /\ \A j \in Jobs : InFlight(j) => /\ status[j] = "processing"
                                      /\ claimed[j] = attempts[j]
    /\ \A j \in batch : ~InQueue(j)
    /\ \A i, k \in 1..Len(queue) : queue[i] = queue[k] => i = k
    /\ \A w \in Workers, j \in Jobs :
          Holds(w, j) => /\ j \notin batch
                         /\ ~InQueue(j)
                         /\ \A v \in Workers : Holds(v, j) => v = w

(* tryEnqueue never takes its default branch, which would leave a claimed  *)
(* job "processing" with nobody to work on it: claimAndEnqueue asks for no *)
(* more jobs than the channel still has room for.                          *)
QueueNeverOverflows ==
    dispatcher = "enqueue" => Len(queue) + Cardinality(batch) <= QueueCap

(* Over all retries, restarts and failed saves, SendText is called for a   *)
(* recipient at most as often as its attempt_count says, that is at most   *)
(* once per claim of the job, and claims stop at max_attempts.             *)
AttemptBudget ==
    \A j \in Jobs :
       /\ attempts[j] <= maxAttempts[j]
       /\ \A p \in Phones : /\ calls[j][p] <= rows[j][p].attempts
                            /\ rows[j][p].attempts <= attempts[j]

(* The final status tells the truth about the recipients: "completed" has  *)
(* no failed row, "completed_with_failures" has one, and a row that was    *)
(* attempted is settled.                                                   *)
CompletionHonest ==
    \A j \in Jobs :
       /\ status[j] = "completed" =>
             \A p \in Phones : rows[j][p].status # "failed"
       /\ status[j] = "completed_with_failures" =>
             \E p \in Phones : rows[j][p].status = "failed"
       /\ status[j] \in Completed =>
             \A p \in Phones : rows[j][p].attempts > 0 => Settled(rows[j][p])

Rank(r) == CASE r.status = "sent"      -> 1
             [] r.status = "delivered" -> 2
             [] r.status = "read"      -> 3
             [] OTHER                  -> 0

(* A recipient whose row is sent, delivered, read or failed is never sent  *)
(* to again, keeps its message id, and only moves towards "read": neither  *)
(* a retry of the job nor a save of a stale copy takes a receipt back.     *)
SettledRowStep ==
    \A j \in Jobs, p \in Phones :
       Settled(rows[j][p]) =>
          /\ calls'[j][p] = calls[j][p]
          /\ rows'[j][p].msg = rows[j][p].msg
          /\ rows'[j][p].status = "failed" <=> rows[j][p].status = "failed"
          /\ Rank(rows'[j][p]) >= Rank(rows[j][p])
SettledRowsFinal == [][SettledRowStep]_vars

(* A job that completed or failed stays as it is: no late mark, no second  *)
(* claim.                                                                  *)
FinalJobStep ==
    \A j \in Jobs : status[j] \in Terminal => /\ status'[j] = status[j]
                                              /\ attempts'[j] = attempts[j]
TerminalJobsFinal == [][FinalJobStep]_vars

(* Every created job ends as completed, completed_with_failures or failed. *)
EveryJobEnds ==
    \A j \in Jobs : status[j] = "queued" ~> status[j] \in Terminal

(* No job stays "processing" for ever (docs/rc1-validation.md:461 lists    *)
(* such a job as a defect).                                                *)
NoJobStuck ==
    \A j \in Jobs : status[j] = "processing" ~> status[j] # "processing"

-----------------------------------------------------------------------------
(* The promise made to the operator, and how the tables and the history    *)
(* show it.                                                                *)

Outcome(r) == CASE r.status \in Delivering -> "sent"
                [] r.status = "failed"     -> "failed"
                [] OTHER                   -> "open"

Promise == INSTANCE BroadcastPromise WITH
    state   <- status,
    limit   <- maxAttempts,
    passes  <- attempts,
    tries   <- calls,
    outcome <- [j \in Jobs |-> [p \in Phones |-> Outcome(rows[j][p])]]

(* Whatever fails and whenever the process restarts, what the database and *)
(* the recipients see is a behaviour of BroadcastPromise: bounded passes,  *)
(* one try per recipient and pass, final outcomes, an honest final status. *)
KeepsPromise == Promise!PSpec

=============================================================================
