--------------------------- MODULE WebhookInvariant ---------------------------
(***************************************************************************)
(* The inductive invariant behind the safety properties of Webhook: what   *)
(* a request knows about the rows it has still to write, and why the       *)
(* worker's copies are current.                                            *)
(***************************************************************************)
EXTENDS Webhook

(* No POST has been made for this delivery.                                *)
Untouched(r, e) == /\ rows[r][e] = NoRow
                   /\ sends[r][e] = 0
                   /\ lost[r][e] = 0
                   /\ ~accepted[r][e]

RequestInv(r) ==
    /\ rpc[r] \in {"new", "check", "list"} =>
          \A e \in Endpoints : Untouched(r, e)
    /\ \A e \in targets[r] : Untouched(r, e)
    /\ rpc[r] = "persist" =>
          \E e \in Endpoints :
             /\ cur[r] = <<r, e>>
             /\ e \notin targets[r]
             /\ rows[r][e] = NoRow
             /\ sends[r][e] = 1
             /\ lost[r][e] = 0
             /\ accepted[r][e] <=> answer[r] = "2xx"

(* The worker is the only writer of a row that waits for a retry.          *)
Current(x) == /\ copy[x[1]][x[2]] = rows[x[1]][x[2]]
              /\ rows[x[1]][x[2]].status = "retrying"
              /\ rows[x[1]][x[2]].due

WorkerInv ==
    /\ \A x \in batch : Current(x)
    /\ worker = "idle" => batch = {}
    /\ worker = "save" =>
          /\ trying \in Deliveries \ batch
          /\ Current(trying)
          /\ reply = "2xx" => accepted[trying[1]][trying[2]]
          /\ accepted[trying[1]][trying[2]] /\ lost[trying[1]][trying[2]] = 0
                => reply = "2xx"

(* What the delivery rows say is true at every moment, because requests    *)
(* and worker know what they overwrite.                                    *)
DeliveryInductive ==
    /\ TypeOK
    /\ \A r \in Requests : RequestInv(r)
    /\ WorkerInv
    /\ DeliveryBudget
    /\ OutcomeHonest

-----------------------------------------------------------------------------
(* What a delivery looks like from outside.                                *)

OutcomeSeen(d) ==
    CASE d.status = "absent"   -> "none"
      [] d.status = "retrying" -> "open"
      [] OTHER                 -> d.status

(* The answer that is in somebody's hands and in no row yet.               *)
AnswerHeld(r, e) ==
    IF rpc[r] = "persist" /\ cur[r] = <<r, e>> THEN answer[r]
    ELSE IF BeingSaved(r, e) THEN reply ELSE "nothing"

DeliverySeen(x) ==
    LET r == x[1]
        e == x[2]
    IN  [outcome |-> OutcomeSeen(rows[r][e]), counted |-> rows[r][e].attempts,
         posts   |-> sends[r][e],             pending |-> AnswerHeld(r, e)]

Promise == INSTANCE WebhookPromise
              WITH delivery <- [x \in Deliveries |-> DeliverySeen(x)]

(* Seen from outside, requests and worker together deliver each event in   *)
(* one sequence of POSTs, never two at a time, with none after its outcome *)
(* and none after a first one whose row could not be stored: a behaviour   *)
(* of WebhookPromise, whatever fails and restarts in between.              *)
KeepsDeliveryPromise == Promise!PSpec
=============================================================================
