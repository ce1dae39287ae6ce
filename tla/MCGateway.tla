----------------------------- MODULE MCGateway -----------------------------
(* Small instances of Gateway for TLC.  A behaviour keeps to one group of    *)
(* routes and to what that group is about: the limiter, the tokens, the      *)
(* creation of tenants, or the audit log and the shutdown.  Requests are     *)
(* interchangeable, so they are made in one order.                           *)
EXTENDS Gateway, TLC

CONSTANTS r1, r2, r3
VARIABLE group

Before(r) == CASE r = r1 -> {} [] r = r2 -> {r1} [] r = r3 -> {r1, r2}

\* What a group lets happen besides its routes.
Group(routes, creds, parts) == [routes |-> routes, creds |-> creds, parts |-> parts]
Groups ==
    {Group({"search"}, {"instanceToken"}, {"time"}),
     Group({"listJobs", "read"}, {"apiKey"}, {"two"}),
     Group({"login", "configure"}, {"good", "access", "refresh"}, {"two", "time", "edit"}),
     Group({"login", "refresh", "configure"}, {"good", "access", "refresh"}, {"time", "first"}),
     Group({"login"}, {"good", "bad"}, {"two"}),
     Group({"createTenant"}, {"good", "bad"}, {"two"}),
     Group({"operate", "dispatch", "send"}, {"apiKey"}, {"two", "end"}),
     Group({"logout", "broadcast"}, {"apiKey", "bad"}, {"two", "end"})}

MCInit == Init /\ group \in Groups
MCNext ==
    /\ Next
    /\ \A r \in Requests :
         req'[r] # req[r] /\ req[r].route = "none" =>
             /\ req'[r].route \in group.routes
             /\ req'[r].cred.type \in group.creds
             /\ \A q \in Before(r) : req[q].route # "none"
             /\ r = r3 => "two" \notin group.parts
             /\ group.parts \cap {"edit", "first"} # {} => (r = r1) = (req'[r].route = "login")
             /\ \/ req'[r].route = "createTenant"
                \/ req'[r].cred.tenant = DefaultSlug
             /\ req'[r].route \in {"login", "refresh"} =>
                    req'[r].cred.type \in {"good", "bad", "refresh", "access"}
             /\ req'[r].route = "configure" => req'[r].cred.type \in {"refresh", "access"}
    /\ now' # now => "time" \in group.parts
    /\ (users' # users /\ phase # "boot") =>
           \/ "edit" \in group.parts /\ users'[DefaultSlug] \in {"owner", "viewer"}
           \/ "createTenant" \in group.routes
    /\ (phase' = "closing" /\ phase = "up") => "end" \in group.parts
    /\ UNCHANGED group
MCSpec == MCInit /\ [][MCNext]_<<vars, group>> /\ Fairness
=============================================================================
