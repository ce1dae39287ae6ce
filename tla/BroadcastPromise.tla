--------------------------- MODULE BroadcastPromise ---------------------------
(***************************************************************************)
(* What the broadcast subsystem promises the operator who created a job,   *)
(* with the channel, the workers, the database calls and the receipts      *)
(* hidden.  A job is processed in passes, at most limit[j] of them.  In a  *)
(* pass every recipient whose outcome is still open is tried at most once. *)
(* Outcomes are final.  A job ends only out of a pass, and its final       *)
(* status says whether a recipient failed.                                 *)
(***************************************************************************)
EXTENDS Integers

CONSTANTS Jobs, Phones

VARIABLES
    state,    \* job -> its public status
    limit,    \* job -> number of passes it is allowed
    passes,   \* job -> number of passes begun
    tries,    \* job -> phone -> number of times the message was handed over
    outcome   \* job -> phone -> "open", "sent" or "failed"

pvars == <<state, limit, passes, tries, outcome>>

PInit ==
    /\ state   = [j \in Jobs |-> "none"]
    /\ limit   = [j \in Jobs |-> 0]
    /\ passes  = [j \in Jobs |-> 0]
    /\ tries   = [j \in Jobs |-> [p \in Phones |-> 0]]
    /\ outcome = [j \in Jobs |-> [p \in Phones |-> "open"]]

Submit(j) ==
    /\ state[j] = "none"
    /\ limit'[j] > 0
    /\ limit' = [limit EXCEPT ![j] = limit'[j]]
    /\ state' = [state EXCEPT ![j] = "queued"]
    /\ UNCHANGED <<passes, tries, outcome>>

(* One claim may begin a pass of several jobs.                             *)
Begin(S) ==
    /\ \A j \in S : state[j] = "queued" /\ passes[j] < limit[j]
    /\ state'  = [j \in Jobs |-> IF j \in S THEN "processing" ELSE state[j]]
    /\ passes' = [j \in Jobs |-> IF j \in S THEN passes[j] + 1 ELSE passes[j]]
    /\ UNCHANGED <<limit, tries, outcome>>

Try(j, p) ==
    /\ state[j] = "processing"
    /\ outcome[j][p] = "open"
    /\ tries[j][p] < passes[j]
    /\ tries' = [tries EXCEPT ![j][p] = @ + 1]
    /\ UNCHANGED <<state, limit, passes, outcome>>

Settle(j, p, o) ==
    /\ state[j] = "processing"
    /\ outcome[j][p] = "open"
    /\ tries[j][p] > 0
    /\ outcome' = [outcome EXCEPT ![j][p] = o]
    /\ UNCHANGED <<state, limit, passes, tries>>

SomeFailed(j) == \E p \in Phones : outcome[j][p] = "failed"

End(j, s) ==
    /\ state[j] = "processing"
    /\ s = "completed" => ~SomeFailed(j)
    /\ s = "completed_with_failures" => SomeFailed(j)
    /\ s = "queued" => passes[j] < limit[j]
    /\ state' = [state EXCEPT ![j] = s]
    /\ UNCHANGED <<limit, passes, tries, outcome>>

PNext ==
    \/ \E j \in Jobs : Submit(j)
    \/ \E S \in SUBSET Jobs : Begin(S)
    \/ \E j \in Jobs, p \in Phones :
          Try(j, p) \/ \E o \in {"sent", "failed"} : Settle(j, p, o)
    \/ \E j \in Jobs :
          \E s \in {"completed", "completed_with_failures", "failed",
                    "queued"} : End(j, s)

PSpec == PInit /\ [][PNext]_pvars
=============================================================================
