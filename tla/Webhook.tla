------------------------------- MODULE Webhook -------------------------------
(***************************************************************************)
(* Tenant webhooks: internal/webhook (service.go, retry.go) on top of the  *)
(* tables webhook_endpoints and webhook_deliveries.                        *)
(*                                                                         *)
(* A dispatch request checks whether its event was delivered recently,     *)
(* lists the tenant's endpoints, POSTs the event to one after the other    *)
(* and stores a delivery row per POST.  One background worker per API      *)
(* process re-attempts the rows whose backoff has elapsed.  Requests run   *)
(* concurrently with each other and with the worker, their client may go   *)
(* away, a write may fail, and the process may stop at any time.           *)
(*                                                                         *)
(* A logical event is what HasRecentDelivery compares: the canonical event *)
(* type and the message id.  Times are abstract: a row leaves the dedupe   *)
(* window, and its backoff elapses, at arbitrary moments.                  *)
(***************************************************************************)
EXTENDS Integers, FiniteSets

CONSTANTS
    Requests,     \* dispatch calls, each with an event id of its own
    Events,       \* logical events that carry a message id
    NoMessage,    \* stands for an event without a message id
    Endpoints,    \* endpoints of the tenant
    FlagInputs,   \* sets of directions in requests that create an endpoint
    MaxAttempts,  \* maxAttempts of the service (5 in the code)
    RetryBatch,   \* most rows the worker lists at once (50 in the code)
    MaxFaults     \* bound on restarts and failed retry updates

ASSUME WebhookAssumption ==
    /\ IsFiniteSet(Requests)
    /\ IsFiniteSet(Endpoints)
    /\ NoMessage \notin Events
    /\ FlagInputs \subseteq SUBSET {"inbound", "outbound"}
    /\ MaxAttempts \in Nat \ {0}
    /\ RetryBatch \in Nat \ {0}
    /\ MaxFaults \in Nat

VARIABLES
    \* Table webhook_endpoints, and what the operators asked for.
    flags,      \* endpoint -> directions stored, None: not created
    asked,      \* endpoint -> directions the create request enables
    \* Table webhook_deliveries.
    rows,       \* request -> endpoint -> delivery row
    window,     \* rows whose created_at is inside the dedupe window
    \* Dispatch requests.
    rpc,        \* request -> where it stands
    dir,        \* request -> direction
    event,      \* request -> its logical event, or NoMessage
    targets,    \* request -> endpoints still to be tried
    cur,        \* request -> endpoint it has just tried
    answer,     \* request -> answer of that endpoint
    handed,     \* request -> services that got its event: "history", "ai"
    \* Retry worker.
    worker,     \* "idle", "retry" or "save"
    batch,      \* rows listed as due and not yet retried
    copy,       \* the rows as the worker listed them
    trying,     \* the row being retried
    reply,      \* answer to that retry
    \* History.
    sends,      \* request -> endpoint -> number of POSTs
    accepted,   \* request -> endpoint -> has a POST been answered 2xx?
    lost,       \* request -> endpoint -> retries whose result was not stored
    faults      \* restarts and failed retry updates so far

endpointVars == <<flags, asked>>
tableVars    == <<rows, window>>
requestVars  == <<rpc, dir, event, targets, cur, answer, handed>>
workerVars   == <<worker, batch, copy, trying, reply>>
history      == <<sends, accepted, lost, faults>>
vars == <<endpointVars, tableVars, requestVars, workerVars, history>>

Directions == {"inbound", "outbound"}
Answers    == {"2xx", "other", "error"}   \* "error": no answer at all
None       == {}

Status == {"absent", "delivered", "retrying", "failed"}
Row == [status   : Status,
        attempts : Nat,
        due      : BOOLEAN]    \* next_attempt_at is set and has passed
NoRow  == [status |-> "absent", attempts |-> 0, due |-> FALSE]
NoRows == [r \in Requests |-> [e \in Endpoints |-> NoRow]]
Final(d) == d.status \in {"delivered", "failed"}

Deliveries == Requests \X Endpoints
NoDelivery == <<>>

Init ==
    /\ flags     = [e \in Endpoints |-> None]
    /\ asked     = [e \in Endpoints |-> None]
    /\ rows      = NoRows
    /\ window    = {}
    /\ rpc       = [r \in Requests |-> "new"]
    /\ dir       = [r \in Requests |-> "outbound"]
    /\ event     = [r \in Requests |-> NoMessage]
    /\ targets   = [r \in Requests |-> {}]
    /\ cur       = [r \in Requests |-> NoDelivery]
    /\ answer    = [r \in Requests |-> "error"]
    /\ handed    = [r \in Requests |-> {}]
    /\ worker    = "idle"
    /\ batch     = {}
    /\ copy      = NoRows
    /\ trying    = NoDelivery
    /\ reply     = "error"
    /\ sends     = [r \in Requests |-> [e \in Endpoints |-> 0]]
    /\ accepted  = [r \in Requests |-> [e \in Endpoints |-> FALSE]]
    /\ lost      = [r \in Requests |-> [e \in Endpoints |-> 0]]
    /\ faults    = 0

-----------------------------------------------------------------------------
(* Endpoints.                                                              *)

(* The insert: both columns are declared default:true, and the mapper      *)
(* replaces a zero value (false) of such a column by the default.          *)
StoredFlags(D) == Directions

(* Service.Create; a request that enables no direction enables both.       *)
Create(e, D) ==
    /\ flags[e] = None
    /\ asked' = [asked EXCEPT ![e] = IF D = {} THEN Directions ELSE D]
    /\ flags' = [flags EXCEPT ![e] = StoredFlags(asked'[e])]
    /\ UNCHANGED <<tableVars, requestVars, workerVars, history>>

-----------------------------------------------------------------------------
(* Dispatch.                                                               *)

Goto(r, l) == rpc' = [rpc EXCEPT ![r] = l]

(* Where a request goes once there is nothing (more) to deliver.           *)
AfterDispatch(r) == IF dir[r] = "inbound" THEN "trigger" ELSE "done"

(* An inbound message goes to the chat history first, whatever follows.    *)
Dispatch(r, d, ev) ==
    LET message == d = "inbound" /\ ev # NoMessage IN
    /\ rpc[r] = "new"
    /\ dir'   = [dir EXCEPT ![r] = d]
    /\ event' = [event EXCEPT ![r] = ev]
    /\ Goto(r, IF message THEN "check" ELSE "list")
    /\ handed' = [handed EXCEPT ![r] = IF message THEN {"history"} ELSE {}]
    /\ UNCHANGED <<endpointVars, tableVars, targets, cur, answer, workerVars,
                   history>>

HasRecentDelivery(ev) ==
    \E q \in Requests, e \in Endpoints :
       /\ dir[q] = "inbound"
       /\ event[q] = ev
       /\ <<q, e>> \in window

(* A failed check counts as "not seen".                                    *)
CheckRecent(r) ==
    /\ rpc[r] = "check"
    /\ \/ HasRecentDelivery(event[r]) /\ Goto(r, AfterDispatch(r))
       \/ Goto(r, "list")
    /\ UNCHANGED <<endpointVars, tableVars, dir, event, targets, cur, answer,
                   handed, workerVars, history>>

ShouldDeliver(e, d) == d \in flags[e]

(* ListByTenant; on an error the request ends.                             *)
ListEndpoints(r) ==
    LET found == {e \in Endpoints : ShouldDeliver(e, dir[r])} IN
    /\ rpc[r] = "list"
    /\ \/ /\ targets' = [targets EXCEPT ![r] = found]
          /\ Goto(r, IF found = {} THEN AfterDispatch(r) ELSE "post")
       \/ Goto(r, "done") /\ UNCHANGED targets
    /\ UNCHANGED <<endpointVars, tableVars, dir, event, cur, answer, handed,
                   workerVars, history>>

(* sendOnce: one POST, answered in any way.                                *)
SendOnce(r, e, a) ==
    /\ sends'    = [sends EXCEPT ![r][e] = @ + 1]
    /\ accepted' = [accepted EXCEPT ![r][e] = @ \/ a = "2xx"]
    /\ UNCHANGED <<lost, faults>>

(* deliver: the POST comes before the row is stored ...                    *)
Post(r) ==
    /\ rpc[r] = "post"
    /\ \E e \in targets[r], a \in Answers :
          /\ SendOnce(r, e, a)
          /\ cur'     = [cur EXCEPT ![r] = <<r, e>>]
          /\ answer'  = [answer EXCEPT ![r] = a]
          /\ targets' = [targets EXCEPT ![r] = @ \ {e}]
    /\ Goto(r, "persist")
    /\ UNCHANGED <<endpointVars, tableVars, dir, event, handed, workerVars>>

(* Variant: any answer of the endpoint counts as a delivery.               *)
SuccessIfAnswered(a) == a # "error"

Success(a) == a = "2xx"

(* Variant: one attempt more than allowed.                                 *)
StatusOneMore(a, n) == IF Success(a) THEN "delivered"
                       ELSE IF n > MaxAttempts THEN "failed" ELSE "retrying"

(* The status after attempt n (deliver, retryDelivery and                  *)
(* scheduleRetryFields).                                                   *)
StatusAfter(a, n) == IF Success(a) THEN "delivered"
                     ELSE IF n >= MaxAttempts THEN "failed" ELSE "retrying"

FirstRow(a) == [status |-> StatusAfter(a, 1), attempts |-> 1, due |-> FALSE]

(* ... and a row that cannot be stored is only logged: its POST is not     *)
(* retried.                                                                *)
Persist(r) ==
    /\ rpc[r] = "persist"
    /\ \/ /\ rows'   = [rows EXCEPT ![r][cur[r][2]] = FirstRow(answer[r])]
          /\ window' = window \cup {cur[r]}
       \/ UNCHANGED tableVars
    /\ Goto(r, IF targets[r] = {} THEN AfterDispatch(r) ELSE "post")
    /\ cur'    = [cur EXCEPT ![r] = NoDelivery]
    /\ answer' = [answer EXCEPT ![r] = "error"]
    /\ UNCHANGED <<endpointVars, dir, event, targets, handed, workerVars,
                   history>>

(* HandleInboundAsync, also for an event that was skipped as a duplicate.  *)
TriggerAI(r) ==
    /\ rpc[r] = "trigger"
    /\ handed' = [handed EXCEPT ![r] = @ \cup {"ai"}]
    /\ Goto(r, "done")
    /\ UNCHANGED <<endpointVars, tableVars, dir, event, targets, cur, answer,
                   workerVars, history>>

-----------------------------------------------------------------------------
(* The retry worker.                                                       *)

(* Variants: rows that were given up are picked up again; rows on their    *)
(* last attempt are left out.                                              *)
DueOrFailed(d) == d.due \/ d.status = "failed"
DueBelowLimit(d) == d.status = "retrying" /\ d.due
                      /\ d.attempts + 1 < MaxAttempts

Due(d) == d.status = "retrying" /\ d.due

(* ListDueRetries, in the order of next_attempt_at: any due rows can be    *)
(* the first ones.                                                         *)
ListDueRetries ==
    LET due == {x \in Deliveries : Due(rows[x[1]][x[2]])} IN
    /\ worker = "idle"
    /\ \E S \in SUBSET due :
          /\ Cardinality(S) <= RetryBatch
          /\ Cardinality(S) = RetryBatch \/ S = due
          /\ batch' = S
    /\ copy'   = IF due = {} THEN NoRows ELSE rows
    /\ worker' = IF due = {} THEN "idle" ELSE "retry"
    /\ UNCHANGED <<endpointVars, tableVars, requestVars, trying, reply, history>>

RetryDelivery ==
    /\ worker = "retry"
    /\ \E x \in batch, a \in Answers :
          /\ SendOnce(x[1], x[2], a)
          /\ trying' = x
          /\ reply'  = a
          /\ batch'  = batch \ {x}
    /\ worker' = "save"
    /\ UNCHANGED <<endpointVars, tableVars, requestVars, copy>>

RetriedRow(d, a) ==
    [status |-> StatusAfter(a, d.attempts + 1), attempts |-> d.attempts + 1,
     due    |-> FALSE]

(* UpdateDelivery writes the whole row; a failure is only logged.          *)
UpdateDelivery ==
    LET r == trying[1]
        e == trying[2]
    IN
    /\ worker = "save"
    /\ \/ /\ rows' = [rows EXCEPT ![r][e] = RetriedRow(copy[r][e], reply)]
          /\ UNCHANGED history
       \/ /\ faults < MaxFaults
          /\ faults' = faults + 1
          /\ lost'   = [lost EXCEPT ![r][e] = @ + 1]
          /\ UNCHANGED <<rows, sends, accepted>>
    /\ trying' = NoDelivery
    /\ reply'  = "error"
    /\ worker' = IF batch = {} THEN "idle" ELSE "retry"
    /\ copy'   = IF batch = {} THEN NoRows ELSE copy
    /\ UNCHANGED <<endpointVars, window, requestVars, batch>>

-----------------------------------------------------------------------------
(* Time and restarts.                                                      *)

BackoffElapses(r, e) ==
    /\ rows[r][e].status = "retrying"
    /\ ~rows[r][e].due
    /\ rows' = [rows EXCEPT ![r][e].due = TRUE]
    /\ UNCHANGED <<endpointVars, window, requestVars, workerVars, history>>

LeaveWindow(r, e) ==
    /\ <<r, e>> \in window
    /\ window' = window \ {<<r, e>>}
    /\ UNCHANGED <<endpointVars, rows, requestVars, workerVars, history>>

(* The process stops, with its requests and its worker's batch, and starts *)
(* again.                                                                  *)
Restart ==
    /\ faults < MaxFaults
    /\ faults' = faults + 1
    /\ lost'   = IF worker = "save"
                 THEN [lost EXCEPT ![trying[1]][trying[2]] = @ + 1]
                 ELSE lost
    /\ rpc'    = [r \in Requests |-> IF rpc[r] = "new" THEN "new" ELSE "done"]
    /\ targets' = [r \in Requests |-> {}]
    /\ cur'    = [r \in Requests |-> NoDelivery]
    /\ answer' = [r \in Requests |-> "error"]
    /\ worker' = "idle"
    /\ batch'  = {}
    /\ copy'   = NoRows
    /\ trying' = NoDelivery
    /\ reply'  = "error"
    /\ UNCHANGED <<endpointVars, tableVars, dir, event, handed, sends,
                   accepted>>

-----------------------------------------------------------------------------
RequestStep(r) ==
    \/ \E d \in Directions, ev \in Events \cup {NoMessage} :
          Dispatch(r, d, ev)
    \/ CheckRecent(r)
    \/ ListEndpoints(r)
    \/ Post(r)
    \/ Persist(r)
    \/ TriggerAI(r)

WorkerStep == ListDueRetries \/ RetryDelivery \/ UpdateDelivery

TimePasses ==
    \E r \in Requests, e \in Endpoints :
       BackoffElapses(r, e) \/ LeaveWindow(r, e)

Next ==
    \/ \E e \in Endpoints, D \in FlagInputs : Create(e, D)
    \/ \E r \in Requests : RequestStep(r)
    \/ WorkerStep
    \/ TimePasses
    \/ Restart

Spec == Init /\ [][Next]_vars

(* The worker's ticker keeps firing, runnable goroutines run, backoffs end. *)
Fairness ==
    /\ WF_vars(WorkerStep)
    /\ \A r \in Requests : WF_vars(RequestStep(r))
    /\ \A r \in Requests, e \in Endpoints : WF_vars(BackoffElapses(r, e))

FairSpec == Spec /\ Fairness

-----------------------------------------------------------------------------
(* Properties.                                                             *)

TypeOK ==
    /\ flags    \in [Endpoints -> SUBSET Directions]
    /\ asked    \in [Endpoints -> SUBSET Directions]
    /\ rows     \in [Requests -> [Endpoints -> Row]]
    /\ window   \in SUBSET Deliveries
    /\ rpc      \in [Requests -> {"new", "check", "list", "post", "persist",
                                  "trigger", "done"}]
    /\ dir      \in [Requests -> Directions]
    /\ event    \in [Requests -> Events \cup {NoMessage}]
    /\ targets  \in [Requests -> SUBSET Endpoints]
    /\ cur      \in [Requests -> Deliveries \cup {NoDelivery}]
    /\ answer   \in [Requests -> Answers]
    /\ handed   \in [Requests -> SUBSET {"history", "ai"}]
    /\ worker   \in {"idle", "retry", "save"}
    /\ batch    \in SUBSET Deliveries
    /\ copy     \in [Requests -> [Endpoints -> Row]]
    /\ trying   \in Deliveries \cup {NoDelivery}
    /\ reply    \in Answers
    /\ sends    \in [Requests -> [Endpoints -> Nat]]
    /\ accepted \in [Requests -> [Endpoints -> BOOLEAN]]
    /\ lost     \in [Requests -> [Endpoints -> Nat]]
    /\ faults   \in 0..MaxFaults

Stored(r, e) == rows[r][e].status # "absent"
BeingSaved(r, e) == worker = "save" /\ trying = <<r, e>>

BudgetAt(r, e) ==
    LET d == rows[r][e] IN
    /\ Stored(r, e) =>
          /\ d.attempts \in 1..MaxAttempts
          /\ sends[r][e] = d.attempts + lost[r][e]
                              + (IF BeingSaved(r, e) THEN 1 ELSE 0)
    /\ d.status = "retrying" => d.attempts < MaxAttempts
    /\ d.status = "failed" => d.attempts = MaxAttempts
    /\ ~Stored(r, e) => sends[r][e] <= 1

(* The row of a delivery accounts for every POST made for it: attempts is  *)
(* the number of POSTs but for the one in progress and those whose result  *)
(* was lost, it ends at max_attempts, and a row is given up only there.    *)
DeliveryBudget == \A r \in Requests, e \in Endpoints : BudgetAt(r, e)

HonestAt(r, e) ==
    Stored(r, e) =>
       /\ rows[r][e].status = "delivered" => accepted[r][e]
       /\ accepted[r][e] /\ lost[r][e] = 0 /\ ~BeingSaved(r, e)
             => rows[r][e].status = "delivered"

(* A row says "delivered" only if the endpoint has accepted the event, and *)
(* an accepted event is not left to be retried or given up, unless the     *)
(* update after an accepted POST was lost.                                 *)
OutcomeHonest == \A r \in Requests, e \in Endpoints : HonestAt(r, e)

(* A delivered or failed row never changes again, and its event is not     *)
(* posted to its endpoint again: the worker's copy of a row is never older *)
(* than the row it overwrites.                                             *)
FinalDeliveryStep ==
    \A r \in Requests, e \in Endpoints :
       Final(rows[r][e]) => /\ rows'[r][e] = rows[r][e]
                            /\ sends'[r][e] = sends[r][e]
FinalDeliveriesStay == [][FinalDeliveryStep]_vars

(* A delivery waiting for a retry is delivered or given up in the end.     *)
RetriesEnd ==
    \A r \in Requests, e \in Endpoints :
       rows[r][e].status = "retrying" ~> Final(rows[r][e])

=============================================================================
