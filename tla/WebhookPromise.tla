---------------------------- MODULE WebhookPromise ----------------------------
(***************************************************************************)
(* What the tenant may rely on for each delivery of an event to an         *)
(* endpoint, with the dispatch requests, the table and the retry worker    *)
(* hidden.  One POST is made after the other: the next one only when the   *)
(* answer to the last was recorded or lost.  The first is the only one     *)
(* unless its answer was recorded, and none follows an outcome.  The       *)
(* outcome is "delivered" by a POST that was accepted, and "failed" by the *)
(* answer that is the MaxAttempts-th to be counted.                        *)
(***************************************************************************)
EXTENDS Integers

CONSTANTS Deliveries, Answers, MaxAttempts

VARIABLE delivery   \* delivery -> how far it is

(* Its outcome, the answers counted, the POSTs made and the answer to the  *)
(* last one while it is in somebody's hands.                               *)
View(outcome, counted, posts, pending) ==
    [outcome |-> outcome, counted |-> counted, posts |-> posts, pending |-> pending]

PInit == delivery = [x \in Deliveries |-> View("none", 0, 0, "nothing")]

Pending(x) == delivery[x].pending # "nothing"
Becomes(x, d) == delivery' = [delivery EXCEPT ![x] = d]

Posted(x, a) ==
    LET d == delivery[x] IN
    /\ ~Pending(x)
    /\ d.outcome = "open" \/ d.posts = 0
    /\ Becomes(x, View(d.outcome, d.counted, d.posts + 1, a))

OutcomeOf(a, n) ==
    IF a = "2xx" THEN "delivered" ELSE IF n = MaxAttempts THEN "failed" ELSE "open"

Recorded(x) ==
    LET d == delivery[x] IN
    /\ Pending(x)
    /\ Becomes(x, View(OutcomeOf(d.pending, d.counted + 1), d.counted + 1, d.posts, "nothing"))

(* A write that fails loses one answer, a crash the answers of everyone.   *)
WithoutAnswer(d) == View(d.outcome, d.counted, d.posts, "nothing")
Lost(S) ==
    delivery' = [x \in Deliveries |-> IF x \in S THEN WithoutAnswer(delivery[x]) ELSE delivery[x]]

PNext ==
    \/ \E x \in Deliveries : (\E a \in Answers : Posted(x, a)) \/ Recorded(x)
    \/ \E S \in SUBSET Deliveries : Lost(S)

PSpec == PInit /\ [][PNext]_delivery
=============================================================================
