-------------------------- MODULE BroadcastInvariant --------------------------
(***************************************************************************)
(* The inductive invariant behind the safety properties of Broadcast.      *)
(* AttemptBudget, CompletionHonest and QueueNeverOverflows are not         *)
(* inductive: they also depend on what the dispatcher and the workers hold *)
(* in memory.                                                              *)
(***************************************************************************)
EXTENDS Broadcast

(* A worker that is not idle has a job and, in a send, a recipient.        *)
WorkerHasJob == \A w \in Workers : pc[w] # "idle" => job[w] \in Jobs
CurInPhones  == \A w \in Workers :
                   pc[w] \in {"send", "record"} => cur[w] \in Phones
TypeInv == TypeOK /\ WorkerHasJob /\ CurInPhones

(* The free slots counted stay free: only the dispatcher fills the channel. *)
DispatcherInv ==
    /\ dispatcher = "claim" => Len(queue) + slots <= QueueCap
    /\ batch # {} => dispatcher = "enqueue"
    /\ QueueNeverOverflows

(* A job that may be claimed has an attempt left.                          *)
JobInv(j) ==
    /\ attempts[j] <= maxAttempts[j]
    /\ status[j] = "queued" => attempts[j] < maxAttempts[j]
    /\ status[j] = "none" => attempts[j] = 0

RowInv(j, p) ==
    /\ calls[j][p] <= rows[j][p].attempts
    /\ rows[j][p].attempts <= attempts[j]
    /\ rows[j][p].status = "absent" => rows[j][p].attempts = 0
    /\ rows[j][p].status \notin Delivering => rows[j][p].msg = 0

(* No recipient has been attempted in the current claim of job j.          *)
Untried(j) == \A p \in Phones : rows[j][p].attempts < attempts[j]

(* Every recipient of job j that was ever attempted is settled.            *)
TriedSettled(j) ==
    \A p \in Phones : rows[j][p].attempts > 0 => Settled(rows[j][p])

Before == {"slot", "load", "contacts", "seed", "list"}
InLoop == {"attempt", "send", "record"}

UntriedInv ==
    /\ \A j \in batch : Untried(j)
    /\ \A i \in 1..Len(queue) : Untried(queue[i])

(* The worker's copies of the rows it has still to handle are current:     *)
(* receipts do not match those rows and nobody else holds the job.         *)
LoopInv(w) ==
    LET j == job[w] IN
    /\ \A p \in todo[w] : /\ copy[w][p] = rows[j][p]
                          /\ rows[j][p].status = "pending"
    /\ \A p \in todo[w] : pc[w] = "attempt" \/ p # cur[w]
                             => rows[j][p].attempts < attempts[j]
    /\ \A p \in Phones \ todo[w] :
          rows[j][p].attempts > 0 => Settled(rows[j][p])
    /\ pc[w] \in {"send", "record"} => cur[w] \in todo[w]
    /\ pc[w] = "send" => calls[j][cur[w]] < rows[j][cur[w]].attempts
    /\ pc[w] = "record" => calls[j][cur[w]] > 0

MarkInv(w) ==
    /\ verdict[w] \in {"clean", "failures"}
    /\ verdict[w] = "failures" <=> HasFailures(job[w])

WorkerInv(w) ==
    /\ pc[w] \in Before => Untried(job[w])
    /\ pc[w] \in InLoop => LoopInv(w)
    /\ pc[w] \in {"summarize", "mark"} => TriedSettled(job[w])
    /\ pc[w] = "mark" => MarkInv(w)

(* The parts of CompletionHonest, job by job.                              *)
HonestInv(j) ==
    /\ status[j] = "completed" => ~HasFailures(j)
    /\ status[j] = "completed_with_failures" => HasFailures(j)
    /\ status[j] \in Completed => TriedSettled(j)

DataInv ==
    /\ \A j \in Jobs : JobInv(j) /\ HonestInv(j)
    /\ \A j \in Jobs, p \in Phones : RowInv(j, p)
    /\ UntriedInv
    /\ \A w \in Workers : WorkerInv(w)

(* What the code maintains in every step: who may touch a job, how far its *)
(* attempts have gone, and what each worker knows about its rows.          *)
Inductive == TypeInv /\ DispatcherInv /\ OneHolder /\ DataInv
=============================================================================
