----------------------------- MODULE LegacyApi -----------------------------
(***************************************************************************)
(* The HTTP API of the evolution-go server (cmd/evolution-go, pkg/core,    *)
(* pkg/middleware, pkg/routes, the handlers and the services of sends,     *)
(* users, messages, chats, groups, communities, labels, newsletters, calls *)
(* and polls): the licence gate, the token of the instance, the validation *)
(* of the number, and what each operation asks of the whatsmeow client.    *)
(*                                                                         *)
(* An operation is the list of the steps that can fail or that touch state *)
(* shared with other requests: the map of clients, the licence, the votes. *)
(* There is one instance.  The content of a message and of an answer is    *)
(* left out.  What happens inside StartInstance is the subject of Session; *)
(* what the announced event goes through is the subject of Events.         *)
(***************************************************************************)
EXTENDS Integers, Sequences, FiniteSets

CONSTANTS
    Requests,           \* requests, each made at most once
    Inputs,             \* what a request may carry
    Voters,             \* those who vote in a poll
    CheckUserExists,    \* the setting of that name
    GlobalKey,          \* GLOBAL_API_KEY is set
    MaxTroubles,        \* bound: connections lost and clients removed
    MaxVotes,           \* bound: votes received
    MaxRestarts,        \* bound: restarts of the process
    None

ASSUME LegacyApiAssumption ==
    /\ CheckUserExists \in BOOLEAN /\ GlobalKey \in BOOLEAN
    /\ MaxTroubles \in Nat /\ MaxVotes \in Nat /\ MaxRestarts \in Nat

VARIABLES
    req,        \* request -> how far it is
    client,     \* clientPointer[instance]: none, offline or online
    starting,   \* StartInstance has launched a client that is not stored yet
    licence,    \* RuntimeContext: active, key and the hash of a key
    saved,      \* the key in runtime_configs
    url,        \* a registration is pending
    votes,      \* voter -> row of poll_votes
    made,       \* request -> changes it asked WhatsApp for, in order
    announced,  \* requests whose SendMessage event was handed to the sinks
    troubles, received, restarts    \* bounds

clientVars  == <<client, starting, troubles>>
licenceVars == <<licence, saved, url, restarts>>
pollVars    == <<votes, received>>
doneVars    == <<made, announced>>
vars == <<req, clientVars, licenceVars, pollVars, doneVars>>

MaxRetries == 3     \* attempts of a send
MaxTries == 2       \* attempts to get a connected client in each

(***************************************************************************)
(* Steps.  A call goes through the client that ensureClientConnected       *)
(* returned ("held") or looks the client up again ("map").                 *)
(***************************************************************************)
Step(do, what, via) == [do |-> do, what |-> what, via |-> via]
Do(do) == <<Step(do, "none", "none")>>
Ask(what, via) == <<Step("ask", what, via)>>        \* changes nothing
Call(what, via) == <<Step("call", what, via)>>      \* changes something
Try(what) == <<Step("try", what, "held")>>          \* its error is ignored
Sender(via) == <<Step("sender", "none", via)>>          \* reads Store.ID

(***************************************************************************)
(* pkg/sendMessage                                                         *)
(***************************************************************************)
validateAndCheckUserExists(q) ==
    (IF CheckUserExists /\ q.number # "group" THEN Do("ensure") \o Do("exists") ELSE <<>>)
        \o Do("fields")

Composing(q, first, last) ==
    IF q.delay THEN Call("composing", first) \o Call("paused", last) ELSE <<>>

Mentions(q) ==
    IF q.number # "group" THEN <<>>
    ELSE (IF q.mention = "all" THEN Ask("GetGroupInfo", "map") ELSE <<>>)
            \o (IF q.mention # "none" THEN Do("mention") ELSE <<>>)

\* With WEBHOOK_FILES the event carries the medium, downloaded again.
Media == {"SendMediaFile", "SendMediaUrl", "SendSticker"}

SendMessage(q) ==
    validateAndCheckUserExists(q) \o Composing(q, "map", "map") \o Mentions(q)
        \o Call("SendMessage", "map") \o Sender("map")
        \o (IF q.op \in Media THEN Do("embed") ELSE <<>>) \o Do("announce")

EnsureWithRetry == <<Step("ensure", "none", "retry")>>
SendText(q)      == EnsureWithRetry \o SendMessage(q)
SendLink(q)      == EnsureWithRetry \o Do("fetch") \o Do("fetch") \o SendMessage(q)
SendMediaFile(q) == EnsureWithRetry \o Do("refuse") \o Ask("Upload", "held") \o SendMessage(q)
SendMediaUrl(q)  ==
    EnsureWithRetry \o Do("fetch") \o Do("refuse") \o Ask("Upload", "held") \o SendMessage(q)
SendPoll(q)      == EnsureWithRetry \o SendMessage(q)
SendSticker(q)   ==
    Do("ensure") \o Do("fetch") \o Do("refuse") \o Ask("Upload", "held") \o SendMessage(q)
SendLocation(q)  == Do("ensure") \o SendMessage(q)
SendContact(q)   == Do("ensure") \o SendMessage(q)
\* Buttons and lists send by themselves: no event is announced for them.
SendButton(q) ==
    Do("ensure") \o Do("refuse") \o validateAndCheckUserExists(q)
        \o Composing(q, "held", "held") \o Call("SendMessage", "held") \o Sender("held")
SendList(q) ==
    Do("ensure") \o Do("refuse") \o validateAndCheckUserExists(q)
        \o Composing(q, "held", "map") \o Call("SendMessage", "map") \o Sender("map")

(***************************************************************************)
(* pkg/user, pkg/message, pkg/chat                                         *)
(***************************************************************************)
ToClient(steps) == Do("ensure") \o steps
ToJid(steps) == Do("ensure") \o Do("parse") \o steps

GetUser           == ToJid(Ask("GetUserInfo", "held"))
CheckUser(q)      ==
    ToClient(Try("IsOnWhatsApp") \o (IF q.format THEN Try("IsOnWhatsApp") ELSE <<>>))
GetAvatar         ==
    Do("ensure") \o Do("loggedIn") \o Do("parse") \o Ask("GetProfilePictureInfo", "held")
GetContacts       == ToClient(Do("store"))
GetPrivacy        == ToClient(Try("GetPrivacySettings"))
SetPrivacy        ==
    ToClient(Call("GroupAdd", "held") \o Call("LastSeen", "held") \o Call("Status", "held")
                \o Call("Profile", "held") \o Call("ReadReceipts", "held")
                \o Call("CallAdd", "held") \o Call("Online", "held")
                \o Try("GetPrivacySettings"))
BlockContact      == ToJid(Call("UpdateBlocklist", "held"))
UnlockContact     == ToJid(Call("UpdateBlocklist", "held"))
GetBlockList      == ToClient(Ask("GetBlocklist", "held"))
SetProfilePicture == ToClient(Do("fetch") \o Call("SetGroupPhoto", "held"))
SetProfileName    == ToClient(Call("SetGroupName", "held"))
SetProfileStatus  == ToClient(Call("SetStatusMessage", "held"))

React == ToJid(Do("refuse") \o Call("SendMessage", "held") \o Sender("held"))
ChatPresence(q) ==
    ToJid(Try("SendPresence") \o Call("SendChatPresence", "held")
             \o (IF q.delay THEN Try("SendChatPresence") \o Try("paused") ELSE <<>>))
MarkRead              == ToJid(Call("MarkRead", "held"))
MarkPlayed            == ToJid(Call("MarkRead", "held"))
DownloadMedia         == ToClient(Do("refuse") \o Ask("Download", "held"))
GetMessageStatus      == ToClient(Do("store"))
DeleteMessageEveryone == ToJid(Call("SendMessage", "held"))
EditMessage           == ToJid(Call("SendMessage", "held"))

ChatPin            == ToJid(Call("SendAppState", "held"))
ChatUnpin          == ToJid(Call("SendAppState", "held"))
ChatArchive        == ToJid(Call("SendAppState", "held"))
ChatUnarchive      == ToJid(Call("SendAppState", "held"))
ChatMute           == ToJid(Call("SendAppState", "held"))
ChatUnmute         == ToJid(Call("SendAppState", "held"))
HistorySyncRequest == ToClient(Do("refuse") \o Call("SendMessage", "held"))

(***************************************************************************)
(* pkg/group, pkg/call, pkg/community                                      *)
(***************************************************************************)
ListGroups          == ToClient(Ask("GetJoinedGroups", "held"))
GetGroupInfo        == ToJid(Ask("GetGroupInfo", "held"))
GetGroupInviteLink  == ToJid(Call("GetGroupInviteLink", "held"))
SetGroupPhoto       == ToJid(Do("fetch") \o Call("SetGroupPhoto", "held"))
SetGroupName        == ToJid(Call("SetGroupName", "held"))
SetGroupDescription == ToJid(Call("SetGroupTopic", "held"))
CreateGroup         == ToJid(Call("CreateGroup", "held") \o Ask("GetGroupInfo", "held"))
UpdateParticipant   == ToJid(Call("UpdateGroupParticipants", "held"))
GetMyGroups         == ToClient(Ask("GetJoinedGroups", "held") \o Sender("held"))
JoinGroupLink       == ToClient(Call("JoinGroupWithLink", "held"))
LeaveGroup          == ToClient(Call("LeaveGroup", "held"))
UpdateGroupSettings == ToJid(Do("refuse") \o Call("SetGroup", "held"))

RejectCall == ToClient(Call("RejectCall", "held"))

CreateCommunity == ToClient(Call("CreateGroup", "held"))
CommunityAdd    == ToJid(Try("LinkGroup") \o Try("LinkGroup"))
CommunityRemove == ToJid(Try("UnlinkGroup") \o Try("UnlinkGroup"))

(***************************************************************************)
(* pkg/label, pkg/newsletter, pkg/poll                                     *)
(***************************************************************************)
ChatLabel      == ToJid(Call("SendAppState", "held"))
MessageLabel   == ToJid(Call("SendAppState", "held"))
EditLabel      == ToClient(Call("SendAppState", "held"))
ChatUnlabel    == ToJid(Call("SendAppState", "held"))
MessageUnlabel == ToJid(Call("SendAppState", "held"))
GetLabels      == ToClient(Do("store"))

CreateNewsletter      == ToClient(Call("CreateNewsletter", "held"))
ListNewsletter        ==
    ToClient(Ask("GetSubscribedNewsletters", "held") \o Try("GetNewsletterInfo"))
GetNewsletter         == ToClient(Ask("GetNewsletterInfo", "held"))
GetNewsletterInvite   == ToClient(Ask("GetNewsletterInfoWithInvite", "held"))
SubscribeNewsletter   == ToClient(Call("NewsletterSubscribeLiveUpdates", "held"))
GetNewsletterMessages == ToClient(Ask("GetNewsletterMessages", "held"))

GetPollResults == Do("results")

(***************************************************************************)
(* pkg/core: the two routes that change the licence.                       *)
(***************************************************************************)
Register == Do("unlessActive") \o Do("unlessPending") \o Do("registerInit")
Activate ==
    Do("unlessActive") \o Do("exchange") \o Do("setKey") \o Do("saveKey") \o Do("remote")
        \o Do("setHash") \o Do("setActive")
LicenceRoutes == {"Register", "Activate"}

(***************************************************************************)
(* pkg/routes: what each route does after the token was checked, and the   *)
(* validation of its number.                                               *)
(***************************************************************************)
Operations(q) ==
    [SendText |-> SendText(q), SendLink |-> SendLink(q), SendMediaFile |-> SendMediaFile(q),
     SendMediaUrl |-> SendMediaUrl(q), SendPoll |-> SendPoll(q), SendSticker |-> SendSticker(q),
     SendLocation |-> SendLocation(q), SendContact |-> SendContact(q),
     SendButton |-> SendButton(q), SendList |-> SendList(q),
     GetUser |-> GetUser, CheckUser |-> CheckUser(q), GetAvatar |-> GetAvatar,
     GetContacts |-> GetContacts, GetPrivacy |-> GetPrivacy, SetPrivacy |-> SetPrivacy,
     BlockContact |-> BlockContact, UnlockContact |-> UnlockContact,
     GetBlockList |-> GetBlockList, SetProfilePicture |-> SetProfilePicture,
     SetProfileName |-> SetProfileName, SetProfileStatus |-> SetProfileStatus,
     React |-> React, ChatPresence |-> ChatPresence(q), MarkRead |-> MarkRead,
     MarkPlayed |-> MarkPlayed, DownloadMedia |-> DownloadMedia,
     GetMessageStatus |-> GetMessageStatus, DeleteMessageEveryone |-> DeleteMessageEveryone,
     EditMessage |-> EditMessage, ChatPin |-> ChatPin, ChatUnpin |-> ChatUnpin,
     ChatArchive |-> ChatArchive, ChatUnarchive |-> ChatUnarchive, ChatMute |-> ChatMute,
     ChatUnmute |-> ChatUnmute, HistorySyncRequest |-> HistorySyncRequest,
     ListGroups |-> ListGroups, GetGroupInfo |-> GetGroupInfo,
     GetGroupInviteLink |-> GetGroupInviteLink, SetGroupPhoto |-> SetGroupPhoto,
     SetGroupName |-> SetGroupName, SetGroupDescription |-> SetGroupDescription,
     CreateGroup |-> CreateGroup, UpdateParticipant |-> UpdateParticipant,
     GetMyGroups |-> GetMyGroups, JoinGroupLink |-> JoinGroupLink, LeaveGroup |-> LeaveGroup,
     UpdateGroupSettings |-> UpdateGroupSettings, RejectCall |-> RejectCall,
     CreateCommunity |-> CreateCommunity, CommunityAdd |-> CommunityAdd,
     CommunityRemove |-> CommunityRemove, ChatLabel |-> ChatLabel,
     MessageLabel |-> MessageLabel, EditLabel |-> EditLabel, ChatUnlabel |-> ChatUnlabel,
     MessageUnlabel |-> MessageUnlabel, GetLabels |-> GetLabels,
     CreateNewsletter |-> CreateNewsletter, ListNewsletter |-> ListNewsletter,
     GetNewsletter |-> GetNewsletter, GetNewsletterInvite |-> GetNewsletterInvite,
     SubscribeNewsletter |-> SubscribeNewsletter,
     GetNewsletterMessages |-> GetNewsletterMessages, GetPollResults |-> GetPollResults,
     Register |-> Register, Activate |-> Activate]
Service(q) == Operations(q)[q.op]

ASSUME InputAssumption == \A q \in Inputs : q.op \in DOMAIN Operations(q)

Formatted ==
    {"SendText", "SendLink", "SendMediaFile", "SendMediaUrl", "SendPoll", "SendSticker",
     "SendLocation", "SendButton", "SendList", "CheckUser"}
NewsletterId ==
    {"GetNewsletter", "GetNewsletterInvite", "SubscribeNewsletter", "GetNewsletterMessages"}
JidFields ==
    NewsletterId \cup {"React", "UpdateParticipant", "CommunityAdd", "CommunityRemove"}
Bodyless ==
    {"GetContacts", "GetPrivacy", "GetBlockList", "ListGroups", "GetMyGroups", "GetLabels",
     "ListNewsletter", "GetPollResults"}
Unvalidated ==
    {"SetPrivacy", "SetProfilePicture", "SetProfileName", "SetProfileStatus", "DownloadMedia",
     "GetMessageStatus", "HistorySyncRequest", "JoinGroupLink", "CreateCommunity",
     "MessageLabel", "EditLabel", "MessageUnlabel", "CreateNewsletter"}
Numbered ==
    Formatted \cup {"SendContact", "GetUser", "GetAvatar", "BlockContact", "UnlockContact",
                   "React", "ChatPresence", "MarkRead", "MarkPlayed", "CreateGroup"}

(***************************************************************************)
(* The other routes are validated by a field "number" their handlers do    *)
(* not read: the address is in groupJid, chat or jid.  The participants of *)
(* UpdateParticipant are an array, which ValidateJIDFields takes for an    *)
(* empty string.  CreateJID refuses a number that is "invalid".            *)
(***************************************************************************)
Seen(q) ==
    IF q.op \in Numbered THEN q.number
    ELSE IF q.op = "UpdateParticipant" THEN "other" ELSE "absent"

validateFormFields(q) ==
    Seen(q) # "invalid" /\ (q.op \in NewsletterId \/ Seen(q) \in {"phone", "group"})
ValidateNumberField(q) ==
    CASE q.content = "json"   -> Seen(q) \in {"absent", "phone", "group"}
      [] q.content = "broken" -> FALSE
      [] q.content = "form"   -> validateFormFields(q)
      [] OTHER                -> TRUE
ValidateJIDFields(q) == ValidateNumberField(q)
ValidateNumberFieldWithFormatJid(q) ==
    CASE q.content = "json"   -> Seen(q) \in {"absent", "phone", "group"}
                                    \/ (Seen(q) = "invalid" /\ ~q.format)
      [] q.content = "broken" -> FALSE
      [] OTHER                -> TRUE
ValidateContactFields(q) ==
    CASE q.content = "json"   -> Seen(q) # "invalid" /\ q.complete
      [] q.content = "broken" -> FALSE
      [] OTHER                -> TRUE
ValidateMultipleNumbers(q) ==
    CASE q.content = "json"   -> Seen(q) # "invalid"
      [] q.content = "broken" -> FALSE
      [] OTHER                -> TRUE

Valid(q) ==
    CASE q.op \in Bodyless \cup Unvalidated -> TRUE
      [] q.op \in Formatted                 -> ValidateNumberFieldWithFormatJid(q)
      [] q.op \in JidFields                 -> ValidateJIDFields(q)
      [] q.op = "SendContact"               -> ValidateContactFields(q)
      [] q.op = "CreateGroup"               -> ValidateMultipleNumbers(q)
      [] OTHER                              -> ValidateNumberField(q)

\* The handler binds the body and refuses it when a field it needs is missing.
Bound(q) ==
    \/ q.op \in Bodyless
    \/ /\ q.complete
       /\ q.number \in {"invalid", "phone", "group"}
       /\ q.content \in (IF q.op = "SendMediaFile" THEN {"form"} ELSE {"json", "other"})

Routes(q) ==
    (IF q.op \in LicenceRoutes THEN <<>>
     ELSE Do("gate") \o Do("auth") \o Do("validate") \o Do("bind")) \o Service(q)

(***************************************************************************)
(* The state of a request, and how a step leaves it.                       *)
(***************************************************************************)
Idle == [q |-> None, todo |-> <<>>, attempt |-> 0, try |-> 0, held |-> "none", status |-> "idle"]
Running(r) == req[r].status = "running"
Current(r) == Head(req[r].todo)
At(r, do) == Running(r) /\ Current(r).do = do

Answered(s, code) == [s EXCEPT !.todo = <<>>, !.held = "none", !.status = code]
Done(s) == IF Len(s.todo) = 1 THEN Answered(s, "200") ELSE [s EXCEPT !.todo = Tail(@)]

(***************************************************************************)
(* sendTextWithRetry and its siblings.  They try again when no client was  *)
(* connected, found out before anything is sent, and for any failure to    *)
(* fetch the preview of a link.                                            *)
(***************************************************************************)
RetryOps == {"SendText", "SendLink", "SendMediaFile", "SendMediaUrl", "SendPoll"}

\* Variant: every failure is tried again.
AgainAlways(s, class) == s.q.op \in RetryOps /\ s.attempt < MaxRetries
Again(s, class) ==
    /\ s.q.op \in RetryOps
    /\ s.attempt < MaxRetries
    /\ class = "disconnected" \/ (class = "fetch" /\ s.q.op = "SendLink")

\* Variant: attempts are not counted.
NextAttemptSame(s) == s.attempt
NextAttempt(s) == s.attempt + 1

Retried(s) ==
    [s EXCEPT !.todo = Service(s.q), !.attempt = NextAttempt(s), !.try = 1, !.held = "none"]
Failed(s, class) == IF Again(s, class) THEN Retried(s) ELSE Answered(s, "500")

Proceed(r) == req' = [req EXCEPT ![r] = Done(@)]
Refuse(r, code) == req' = [req EXCEPT ![r] = Answered(@, code)]
Fail(r, class) == req' = [req EXCEPT ![r] = Failed(@, class)]

Licensed(k) == [active |-> k # None, key |-> k, hash |-> k]

Init ==
    /\ req = [r \in Requests |-> Idle]
    /\ client = "none" /\ starting = FALSE
    /\ saved \in {None, "old"}
    /\ licence = Licensed(saved)
    /\ url = FALSE
    /\ votes = [v \in Voters |-> None]
    /\ made = [r \in Requests |-> <<>>] /\ announced = {}
    /\ troubles = 0 /\ received = 0 /\ restarts = 0

Arrive(r, q) ==
    /\ req[r].status = "idle"
    /\ req' = [req EXCEPT ![r] = [@ EXCEPT !.q = q, !.todo = Routes(q), !.attempt = 1, !.try = 1,
                                           !.status = "running"]]
    /\ UNCHANGED <<clientVars, licenceVars, pollVars, doneVars>>

(***************************************************************************)
(* GateMiddleware, Auth, the validation and the binding of the body.       *)
(***************************************************************************)
ValidateContext == licence.active /\ licence.hash = licence.key

Gate(r) ==
    /\ At(r, "gate")
    /\ IF ValidateContext THEN Proceed(r) ELSE Refuse(r, "503")
    /\ UNCHANGED <<clientVars, licenceVars, pollVars, doneVars>>

Auth(r) ==
    /\ At(r, "auth")
    /\ IF req[r].q.token THEN Proceed(r) ELSE Refuse(r, "401")
    /\ UNCHANGED <<clientVars, licenceVars, pollVars, doneVars>>

Validate(r) ==
    /\ At(r, "validate")
    /\ IF Valid(req[r].q) THEN Proceed(r) ELSE Refuse(r, "400")
    /\ UNCHANGED <<clientVars, licenceVars, pollVars, doneVars>>

Bind(r) ==
    /\ At(r, "bind")
    /\ IF Bound(req[r].q) THEN Proceed(r) ELSE Refuse(r, "400")
    /\ UNCHANGED <<clientVars, licenceVars, pollVars, doneVars>>

(***************************************************************************)
(* ensureClientConnected, and with a reconnection ensureClientConnected-   *)
(* WithRetry.  ReconnectClient takes the client away from everyone.        *)
(***************************************************************************)
Got(r) == req' = [req EXCEPT ![r] = [Done(@) EXCEPT !.held = "current"]]

NotConnected(r) ==
    IF Current(r).via = "retry"
    THEN req' = [req EXCEPT ![r].todo = <<Step("reconnect", "none", "none")>>
                                            \o <<[Current(r) EXCEPT !.do = "ensure"]>> \o Tail(@)]
    ELSE Fail(r, "disconnected")

ensureClientConnected(r) ==
    /\ At(r, "ensure")
    /\ \/ client = "online" /\ Got(r) /\ UNCHANGED starting
       \/ client = "offline" /\ NotConnected(r) /\ UNCHANGED starting
       \/ client = "none" /\ NotConnected(r) /\ UNCHANGED starting  \* StartInstance failed
       \/ /\ client = "none"
          /\ starting' = TRUE
          /\ req' = [req EXCEPT ![r].todo[1].do = "started"]
    /\ UNCHANGED <<client, troubles, licenceVars, pollVars, doneVars>>

Started(r) ==
    /\ At(r, "started")
    /\ IF client = "online" THEN Got(r) ELSE NotConnected(r)
    /\ UNCHANGED <<clientVars, licenceVars, pollVars, doneVars>>

Removed(s) == [r \in Requests |-> IF s[r].held = "current" THEN [s[r] EXCEPT !.held = "stale"] ELSE s[r]]

\* Another try of ensureClientConnected, or the end of this attempt.
TryAgain(s) ==
    IF s.try < MaxTries THEN [s EXCEPT !.try = @ + 1, !.todo = Tail(@)]
    ELSE Failed(s, "disconnected")

ReconnectClient(r) ==
    /\ At(r, "reconnect")
    /\ client' = "none"
    /\ \/ req' = Removed([req EXCEPT ![r].todo[1].do = "restart"])
       \/ req' = Removed([req EXCEPT ![r] = TryAgain(@)])     \* the instance was not found
    /\ UNCHANGED <<starting, troubles, licenceVars, pollVars, doneVars>>

RestartClient(r) ==
    /\ At(r, "restart")
    /\ starting' \in {starting, TRUE}
    /\ req' = [req EXCEPT ![r] = TryAgain(@)]
    /\ UNCHANGED <<client, troubles, licenceVars, pollVars, doneVars>>

ensureClientConnectedWithRetry(r) == Started(r) \/ ReconnectClient(r) \/ RestartClient(r)

(***************************************************************************)
(* The steps of the services.                                              *)
(***************************************************************************)
Reached(r) == client = "online" /\ (Current(r).via = "held" => req[r].held = "current")

ParseJID(r) ==
    /\ At(r, "parse")
    /\ IF req[r].q.number = "invalid" THEN Fail(r, "error") ELSE Proceed(r)
    /\ UNCHANGED <<clientVars, licenceVars, pollVars, doneVars>>

validateMessageFields(r) ==
    /\ At(r, "fields")
    /\ IF req[r].q.number = "invalid" THEN Fail(r, "error") ELSE Proceed(r)
    /\ UNCHANGED <<clientVars, licenceVars, pollVars, doneVars>>

\* A number known not to be on WhatsApp, a body the service rejects, a client
\* that is not logged in, a table that cannot be read.
Checks == {"exists", "refuse", "loggedIn", "store"}
Check(r) ==
    /\ Running(r) /\ Current(r).do \in Checks
    /\ Proceed(r) \/ Fail(r, "error")
    /\ UNCHANGED <<clientVars, licenceVars, pollVars, doneVars>>

AskWhatsApp(r) ==
    /\ At(r, "ask")
    /\ Fail(r, "error") \/ (Reached(r) /\ Proceed(r))
    /\ UNCHANGED <<clientVars, licenceVars, pollVars, doneVars>>

TryWhatsApp(r) ==
    /\ At(r, "try")
    /\ Proceed(r)
    /\ UNCHANGED <<clientVars, licenceVars, pollVars, doneVars>>

\* WhatsApp may have done what it was asked although the call returns an error.
CallWhatsApp(r) ==
    /\ At(r, "call")
    /\ \/ Fail(r, "error") /\ UNCHANGED made
       \/ /\ Reached(r)
          /\ made' = [made EXCEPT ![r] = Append(@, Current(r).what)]
          /\ Proceed(r) \/ Fail(r, "error")
    /\ UNCHANGED <<clientVars, licenceVars, pollVars, announced>>

\* A captioned document has no context for its mentions: nil is dereferenced.
ApplyMentions(r) ==
    /\ At(r, "mention")
    /\ Proceed(r) \/ (req[r].q.op \in Media /\ Fail(r, "panic"))
    /\ UNCHANGED <<clientVars, licenceVars, pollVars, doneVars>>

\* *client.Store.ID, nil for a client that lost its pairing.
ReadSender(r) ==
    /\ At(r, "sender")
    /\ \/ Proceed(r) /\ (Current(r).via = "map" => client # "none")
       \/ Fail(r, "panic") /\ ~Reached(r)
    /\ UNCHANGED <<clientVars, licenceVars, pollVars, doneVars>>

EmbedMedia(r) ==
    /\ At(r, "embed")
    /\ Proceed(r) \/ (client = "none" /\ Fail(r, "panic"))
    /\ UNCHANGED <<clientVars, licenceVars, pollVars, doneVars>>

AnnounceSend(r) ==
    /\ At(r, "announce")
    /\ announced' = announced \cup {r}
    /\ Proceed(r)
    /\ UNCHANGED <<clientVars, licenceVars, pollVars, made>>

Results(r) ==
    /\ At(r, "results")
    /\ \/ Fail(r, "error")
       \/ IF \E v \in Voters : votes[v] # None /\ votes[v].instance = "this"
          THEN Proceed(r) ELSE Refuse(r, "404")
    /\ UNCHANGED <<clientVars, licenceVars, pollVars, doneVars>>

\* http.Get, which has no timeout.
Fetch(r) ==
    /\ At(r, "fetch")
    /\ Proceed(r) \/ Fail(r, "fetch")
    /\ UNCHANGED <<clientVars, licenceVars, pollVars, doneVars>>

(***************************************************************************)
(* LicenseRoutes and _fbk.                                                 *)
(***************************************************************************)
UnlessActive(r) ==
    /\ At(r, "unlessActive")
    /\ IF licence.active THEN Refuse(r, "200") ELSE Proceed(r)
    /\ UNCHANGED <<clientVars, licenceVars, pollVars, doneVars>>

UnlessPending(r) ==
    /\ At(r, "unlessPending")
    /\ IF url THEN Refuse(r, "200") ELSE Proceed(r)
    /\ UNCHANGED <<clientVars, licenceVars, pollVars, doneVars>>

\* The answer may be unreadable, in which case the address is empty.
RegisterInit(r) ==
    /\ At(r, "registerInit")
    /\ \/ Refuse(r, "502") /\ UNCHANGED url
       \/ Proceed(r) /\ url' \in BOOLEAN
    /\ UNCHANGED <<clientVars, licence, saved, restarts, pollVars, doneVars>>

LicenceServer(r) ==
    /\ Running(r) /\ Current(r).do \in {"exchange", "remote"}
    /\ Proceed(r) \/ Refuse(r, IF Current(r).do = "exchange" THEN "502" ELSE "500")
    /\ UNCHANGED <<clientVars, licenceVars, pollVars, doneVars>>

SetKey(r) ==
    /\ At(r, "setKey")
    /\ licence' = [licence EXCEPT !.key = req[r].q.key]
    /\ url' = FALSE
    /\ Proceed(r)
    /\ UNCHANGED <<clientVars, saved, restarts, pollVars, doneVars>>

SaveKey(r) ==
    /\ At(r, "saveKey")
    /\ saved' \in {saved, req[r].q.key}
    /\ Proceed(r)
    /\ UNCHANGED <<clientVars, licence, url, restarts, pollVars, doneVars>>

SetHash(r) ==
    /\ At(r, "setHash")
    /\ licence' = [licence EXCEPT !.hash = licence.key]
    /\ Proceed(r)
    /\ UNCHANGED <<clientVars, saved, url, restarts, pollVars, doneVars>>

SetActive(r) ==
    /\ At(r, "setActive")
    /\ licence' = [licence EXCEPT !.active = TRUE]
    /\ Proceed(r)
    /\ UNCHANGED <<clientVars, saved, url, restarts, pollVars, doneVars>>

(***************************************************************************)
(* What happens around the requests.                                       *)
(***************************************************************************)
\* A saved key is taken as valid; GLOBAL_API_KEY is asked about first.
InitializeRuntime ==
    \/ saved # None /\ licence' = Licensed(saved) /\ UNCHANGED saved
    \/ saved = None /\ licence' = Licensed(None) /\ UNCHANGED saved
    \/ saved = None /\ GlobalKey /\ licence' = Licensed("global") /\ saved' = "global"

Restart ==
    /\ restarts < MaxRestarts
    /\ restarts' = restarts + 1
    /\ InitializeRuntime
    /\ url' = FALSE /\ client' = "none" /\ starting' = FALSE
    /\ req' = [r \in Requests |-> IF Running(r) THEN Answered(req[r], "cut") ELSE req[r]]
    /\ UNCHANGED <<troubles, pollVars, doneVars>>

StartClient ==
    /\ starting /\ starting' = FALSE
    /\ client' \in {client, "offline"}
    /\ req' = IF client' = client THEN req ELSE Removed(req)
    /\ UNCHANGED <<troubles, licenceVars, pollVars, doneVars>>

ConnectionChanges ==
    /\ \/ client = "offline" /\ client' = "online" /\ UNCHANGED <<req, troubles>>
       \/ /\ client = "online" /\ troubles < MaxTroubles /\ troubles' = troubles + 1
          /\ \/ client' = "offline" /\ UNCHANGED req
             \/ client' = "none" /\ req' = Removed(req)
    /\ UNCHANGED <<starting, licenceVars, pollVars, doneVars>>

(***************************************************************************)
(* One row per poll and voter: the row keeps the instance that stored it   *)
(* first, and takes the vote that comes last, however old it is.           *)
(***************************************************************************)
SavePollVote(v, i, vote) ==
    /\ received < MaxVotes
    /\ received' = received + 1
    /\ votes' = [votes EXCEPT ![v] = IF @ = None THEN [instance |-> i, vote |-> vote]
                                     ELSE [@ EXCEPT !.vote = vote]]
    /\ UNCHANGED <<req, clientVars, licenceVars, doneVars>>

(***************************************************************************)
(* The next-state relation and the properties.                             *)
(***************************************************************************)
Handle(r) ==
    \/ Gate(r) \/ Auth(r) \/ Validate(r) \/ Bind(r)
    \/ ensureClientConnected(r) \/ ensureClientConnectedWithRetry(r)
    \/ ParseJID(r) \/ validateMessageFields(r) \/ Check(r) \/ Results(r)
    \/ AskWhatsApp(r) \/ TryWhatsApp(r) \/ CallWhatsApp(r)
    \/ ApplyMentions(r) \/ ReadSender(r) \/ EmbedMedia(r) \/ AnnounceSend(r)
    \/ UnlessActive(r) \/ UnlessPending(r) \/ RegisterInit(r) \/ LicenceServer(r)
    \/ SetKey(r) \/ SaveKey(r) \/ SetHash(r) \/ SetActive(r)

Environment ==
    \/ Restart \/ StartClient \/ ConnectionChanges
    \/ \E v \in Voters, i \in {"this", "other"}, vote \in 1..2 : SavePollVote(v, i, vote)

Next ==
    \/ \E r \in Requests, q \in Inputs : Arrive(r, q)
    \/ \E r \in Requests : Handle(r) \/ Fetch(r)
    \/ Environment

Fairness == \A r \in Requests : WF_vars(Handle(r))
Spec == Init /\ [][Next]_vars /\ Fairness

(***************************************************************************)
(* However often sendTextWithRetry and its siblings go round, and whatever *)
(* becomes of the client meanwhile, no request asks WhatsApp for the same  *)
(* change twice: an error after something may have gone out is answered,   *)
(* never tried again.                                                      *)
(***************************************************************************)
EachCallOnce ==
    \A r \in Requests : \A i, j \in DOMAIN made[r] : made[r][i] = made[r][j] => i = j

(***************************************************************************)
(* Every request is answered: the retries of a send, the reconnections in  *)
(* each of them and what other requests do to the shared client keep it    *)
(* from its answer only for a while.  The exception is a request that      *)
(* fetches an address, which no timeout ends.                              *)
(***************************************************************************)
RequestsEnd ==
    \A r \in Requests : Running(r) ~> (~Running(r) \/ At(r, "fetch"))
=============================================================================
