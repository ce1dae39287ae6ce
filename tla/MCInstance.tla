----------------------------- MODULE MCInstance -----------------------------
(* Small instances of Instance for TLC.  Operations that meet in the same    *)
(* rows are explored together: a behaviour keeps to one group of them, and   *)
(* two requests at a time are for the searches, which meet in the cache, and *)
(* for a pair that meets in the linking of the engine row; in every group a  *)
(* request meets the boot worker.                                            *)
EXTENDS Instance, TLC

CONSTANT Second     \* the request that only some groups have
VARIABLE group

Group(first, second) == [first |-> first, second |-> second]
Groups ==
    {Group({"connect", "delete", "create"}, {}),
     Group({"disconnect", "logout"}, {}),
     Group({"status", "pair"}, {}),
     Group({"setConnector", "reconnect", "qrcode"}, {}),
     Group({"runtimeStatus", "backfill", "getSettings", "updateSettings", "setProxy"}, {}),
     Group({"searchChats"}, {"searchChats"}),
     Group({"setWebhook"}, {"runtimeStatus"})}

InGroup(a) ==
    task'[a].op \in {"none"} \cup IF a = Second THEN group.second ELSE group.first

Searching == "searchChats" \in group.first

MCInit ==
    /\ Init
    /\ group \in Groups
    /\ group.second # {} => row # None /\ row.status = "created"
    /\ Searching => runtime = "ready" /\ Named # {}
MCNext ==
    /\ Next
    /\ \A a \in Requests : InGroup(a)
    /\ restarts' = restarts \/ "create" \in group.first
    /\ Searching => client' = client
    /\ UNCHANGED group
MCSpec == MCInit /\ [][MCNext]_<<vars, group>> /\ Fairness
=============================================================================
