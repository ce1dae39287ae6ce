---------------------------- MODULE MCLegacyApi ----------------------------
(* Small instances of LegacyApi for TLC.  A behaviour keeps to one group:    *)
(* each operation by itself, the bodies the validators tell apart, two sends *)
(* that share a client, two activations of the licence, or a poll.           *)
EXTENDS LegacyApi, TLC

CONSTANTS r1, r2

VARIABLE group

Input(op) ==
    [op |-> op, token |-> TRUE, content |-> IF op = "SendMediaFile" THEN "form" ELSE "json",
     number |-> "phone", complete |-> TRUE, format |-> TRUE, delay |-> FALSE,
     mention |-> "none", key |-> "new"]
Sample == Input("SendText")
Each == {Input(op) : op \in DOMAIN Operations(Sample) \ LicenceRoutes}
Delayed == {[q EXCEPT !.delay = TRUE, !.number = "group", !.mention = m] :
            q \in {x \in Each : x.op \in {"SendText", "SendMediaFile", "SendButton", "SendList", "ChatPresence"}},
            m \in {"some", "all"}}
Bodies == {[Input(op) EXCEPT !.content = c, !.number = n, !.complete = b, !.format = f, !.token = t] :
           op \in {"SendText", "SendMediaFile", "SendContact", "CreateGroup", "React", "MarkRead",
                   "GetNewsletter"},
           c \in {"json", "form", "other", "broken"},
           n \in {"absent", "empty", "invalid", "other", "phone"},
           b \in BOOLEAN, f \in BOOLEAN, t \in BOOLEAN}
First == {[Input("SendText") EXCEPT !.delay = TRUE]}
Second == {Input("SendPoll"), Input("SendLocation")}
Licences == {[Input(op) EXCEPT !.key = k] : op \in LicenceRoutes, k \in {"new", "newer"}}
                \cup {Input("ListGroups")}

MCInputs == Each \cup Delayed \cup Bodies \cup First \cup Second \cup Licences

\* What the two requests may carry, and how often the process restarts.
Group(name, one, two, restart) ==
    [name |-> name, inputs |-> (r1 :> one @@ r2 :> two), restarts |-> restart]
Groups ==
    {Group("each", Each \cup Delayed, {}, 0), Group("bodies", Bodies, {}, 0),
     Group("sends", First, Second, 0), Group("licence", Licences, Licences, 1),
     Group("poll", {Input("GetPollResults")}, {}, 0)}

MCInit ==
    /\ Init
    /\ group \in Groups
    /\ saved = None => group.name = "licence"
MCNext ==
    /\ \/ \E r \in Requests : \E q \in group.inputs[r] : Arrive(r, q)
       \/ \E r \in Requests : Handle(r) \/ Fetch(r)
       \/ Environment
    /\ restarts' <= group.restarts
    /\ received' # received => group.name = "poll"
    /\ group.name = "bodies" => troubles' = 0
    /\ UNCHANGED group
MCSpec == MCInit /\ [][MCNext]_<<vars, group>> /\ Fairness
=============================================================================
