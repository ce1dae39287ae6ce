------------------------------ MODULE MCSession ------------------------------
(* Small instances of Session for TLC.  A behaviour keeps to one group: one  *)
(* request at a time, with one of two sets of operations, and two            *)
(* activations of StartClient, or two requests that interleave and one       *)
(* activation.  Whatever the group, the boot may start the instance and an   *)
(* event of the library may reconnect it.                                    *)
EXTENDS Session, FiniteSets, TLC

VARIABLE group

Group(operations, users, activations) ==
    [jobs |-> {Idle, Job(StartInstance), Job(ReconnectClient)}
                  \cup {Job(Program[o]) : o \in operations},
     users |-> users, activations |-> activations]
Groups ==
    {Group({"connect", "disconnect", "logout", "force"}, {Booter}, 2),
     Group({"delete"}, {Booter}, 2),
     Group({"start", "reconnect", "disconnect"}, Requests, 1)}

Used(loops) == {l \in Loops : loops[l] # "unused"}

MCInit == Init /\ group \in Groups
MCNext ==
    /\ Next
    /\ Cardinality(Used(pc')) <= group.activations
    /\ \A r \in Requests :
         req[r] = Idle => req'[r] \in IF r \in group.users THEN group.jobs ELSE {Idle}
    /\ UNCHANGED group
MCSpec == MCInit /\ [][MCNext]_<<vars, group>>
=============================================================================
