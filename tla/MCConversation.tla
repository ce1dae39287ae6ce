--------------------------- MODULE MCConversation ---------------------------
(* Small instances of Conversation for TLC: either one send, with receipts   *)
(* and inbound messages, or two sends that meet in the lock.                 *)
EXTENDS Conversation, TLC

CONSTANT Second     \* the send that only some behaviours have
VARIABLE sends

Meeting == {"queue", "text", "media", "poll", "markRead"}

MCInit == Init /\ sends \in {1, 2}
MCNext ==
    /\ Next
    /\ sends = 1 => task'[Second] = task[Second]
    /\ sends = 2 =>
         /\ \A s \in Sends : task'[s].op \in {"none"} \cup Meeting
         /\ UNCHANGED <<updates, processed, queue, held>>
    /\ UNCHANGED sends
MCSpec == MCInit /\ [][MCNext]_<<vars, sends>> /\ Fairness
=============================================================================
