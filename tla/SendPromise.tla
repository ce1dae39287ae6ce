----------------------------- MODULE SendPromise -----------------------------
(***************************************************************************)
(* What a caller may rely on for each send, with the client, the locks,    *)
(* the retries and the goroutines hidden.  The message may reach WhatsApp  *)
(* only while the send is under way and nothing tells of it yet.  Its row  *)
(* is written once, after that; a queued send is reported as sent after    *)
(* its row, and as failed only without one.  Receipts come after that,     *)
(* first to the job and then to the row, and none is taken back.  A crash  *)
(* ends what is under way, forgets the jobs and leaves the rows.           *)
(***************************************************************************)
CONSTANT Sends

VARIABLE send   \* send -> how far it is

(* Its stage, whether its message may have reached WhatsApp, its row, and  *)
(* the receipts that the job has and those that the row has.               *)
View(stage, reached, row, taken, shown) ==
    [stage |-> stage, reached |-> reached, row |-> row, taken |-> taken, shown |-> shown]

PInit == send = [x \in Sends |-> View("none", FALSE, "none", {}, {})]

Becomes(x, v) == send' = [send EXCEPT ![x] = v]

Asked(x, stage) ==
    /\ send[x].stage = "none"
    /\ Becomes(x, View(stage, FALSE, "none", {}, {}))

(* A direct send ends with its last step, a queued one when it is told so. *)
UnderWay(x) == send[x].stage \in {"queued", "direct"}
Later(stage) == IF stage = "direct" THEN {"direct", "over"} ELSE {stage}

Reached(x) ==
    LET v == send[x] IN
    /\ UnderWay(x) /\ v.row = "none"
    /\ \E stage \in Later(v.stage) : Becomes(x, View(stage, TRUE, "none", v.taken, v.shown))

Recorded(x) ==
    LET v == send[x] IN
    /\ UnderWay(x) /\ v.row = "none" /\ v.reached
    /\ \E stage \in Later(v.stage), row \in {"recorded", "lost"} :
          Becomes(x, View(stage, TRUE, row, v.taken, v.shown))

(* The end of a send that writes no row: one that failed, or of a kind     *)
(* that is not kept in the history.                                        *)
EndedUnrecorded(x) ==
    LET v == send[x] IN
    /\ UnderWay(x) /\ v.row = "none"
    /\ Becomes(x, View(IF v.stage = "queued" THEN "failed" ELSE "over",
                       v.reached, "none", v.taken, v.shown))

Completed(x) ==
    LET v == send[x] IN
    /\ v.stage = "queued" /\ v.reached /\ v.row # "none"
    /\ Becomes(x, View("sent", TRUE, v.row, v.taken, v.shown))

Receipts(state) == IF state = "read" THEN {"delivered", "read"} ELSE {"delivered"}

Taken(x, state) ==
    LET v == send[x] IN
    /\ v.stage = "sent"
    /\ Becomes(x, View("sent", v.reached, v.row, v.taken \cup Receipts(state), v.shown))

Shown(x, state) ==
    LET v == send[x] IN
    /\ v.stage = "sent" /\ v.row = "recorded" /\ Receipts(state) \subseteq v.taken
    /\ Becomes(x, View("sent", v.reached, "recorded", v.taken, v.shown \cup Receipts(state)))

Forgotten(v) ==
    IF v.stage = "none" THEN v ELSE View("over", v.reached, v.row, {}, v.shown)
Crash == send' = [x \in Sends |-> Forgotten(send[x])]

PNext ==
    \/ \E x \in Sends :
          \/ Asked(x, "queued") \/ Asked(x, "direct")
          \/ Reached(x) \/ Recorded(x) \/ EndedUnrecorded(x) \/ Completed(x)
          \/ \E state \in {"delivered", "read"} : Taken(x, state) \/ Shown(x, state)
    \/ Crash

PSpec == PInit /\ [][PNext]_send
=============================================================================
